CONSTANTS
  srv = srv
  cli = cli
  aA = aA
  aP = aP
  aT = aT
  NoEndpoint = NoEndpoint
  NoOwner = NoOwner
  Ctx <- MC_Ctx
  Addrs <- MC_Addrs
  Endpoints <- MC_Endpoints
  CallerConfigs <- MC_MsgConfigs
  Protected = {aP}
  InitFiles = {aA, aP}
  SUN_PATH = 108
  MAX_MSG = 1
  MsgSizes = {1, 2}
  MaxInits = 2
  MaxQueue = 1

SPECIFICATION FairSpec
PROPERTY ReceiveReturns
