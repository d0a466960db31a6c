CONSTANTS
  srv = srv
  srv2 = srv2
  cli = cli
  aDef = aDef
  aA = aA
  aP = aP
  aT = aT
  NoEndpoint = NoEndpoint
  NoOwner = NoOwner
  Ctx <- MC_PushCtx
  Addrs <- MC_Addrs
  DefaultAddr = aDef
  Endpoints <- MC_Endpoints
  CallerConfigs <- MC_PushConfigs
  Protected = {aP}
  InitFiles = {aA, aP}
  MAX_PATH_LENGTH = 108
  MAX_MESSAGE_SIZE = 1
  MsgSizes = {1, 2}
  MaxInits = 2
  MaxQueue = 1

SPECIFICATION FairSpec
PROPERTY SendReturns
