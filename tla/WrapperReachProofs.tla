------------------------- MODULE WrapperReachProofs -------------------------
(***************************************************************************)
(* ServerReachable for every number of instances and addresses, provided   *)
(* the callers never configure two instances as servers on one address     *)
(* (DistinctServerEndpoints); the run shared_endpoint shows the property   *)
(* fails without it.  The argument: the only steps that remove a socket    *)
(* file or rebind an address are a server's own Init and Cleanup, which    *)
(* touch only the address of the endpoint that instance resolved from its  *)
(* own Config, and that address differs from every other server's.         *)
(***************************************************************************)
EXTENDS WrapperProofs

\* An instance that Init has set up, or is setting up, runs on a Config its
\* callers passed and on the endpoint Init built from it; a connecting
\* instance is a client.
Configured(d) ==
  /\ initialized[d] \/ pc[d] = "connecting" =>
       /\ config[d] \in CallerConfigs[d]
       /\ endpoint_path[d] = BuildEndpoint(config[d].endpoint)
  /\ pc[d] = "connecting" => config[d].mode = "CLIENT"

\* ServerReachable at one instance.
Reach(d) ==
  initialized[d] /\ config[d].mode = "SERVER" =>
    /\ listener[endpoint_path[d].addr] = d
    /\ endpoint_path[d].ipc => endpoint_path[d].addr \in files

\* The inductive invariant.
RInv == IInv /\ \A d \in Ctx : Configured(d) /\ Reach(d)

LEMMA RInvInit == Init => RInv
BY InitIInv DEF Init, RInv, Configured, Reach

\* A step that leaves d's Config, endpoint, initialized flag, and the
\* binding and file of d's address alone, and starts no connect loop at d,
\* keeps d's facts.
LEMMA KeepAt ==
  ASSUME NEW d \in Ctx, Configured(d), Reach(d),
         initialized'[d] = initialized[d], config'[d] = config[d],
         endpoint_path'[d] = endpoint_path[d],
         pc'[d] = "connecting" => pc[d] = "connecting",
         initialized[d] /\ config[d].mode = "SERVER" =>
           /\ listener'[endpoint_path[d].addr] = listener[endpoint_path[d].addr]
           /\ endpoint_path[d].addr \in files =>
                endpoint_path[d].addr \in files'
  PROVE  Configured(d)' /\ Reach(d)'
BY DEF Configured, Reach

\* An instance neither initialized nor connecting after a step is not
\* constrained.
LEMMA IdleAt ==
  ASSUME NEW d \in Ctx, ~initialized'[d], pc'[d] # "connecting"
  PROVE  Configured(d)' /\ Reach(d)'
BY DEF Configured, Reach

\* Two instances that may both be servers resolve different addresses.
LEMMA OtherAddr ==
  ASSUME DistinctServerEndpoints, NEW c \in Ctx, NEW d \in Ctx, c # d,
         NEW cc \in CallerConfigs[c], cc.mode = "SERVER",
         Configured(d), initialized[d], config[d].mode = "SERVER"
  PROVE  BuildEndpoint(cc.endpoint).addr # endpoint_path[d].addr
BY DEF DistinctServerEndpoints, Configured

\* Cleanup's and Init's unlink removes at most the file of its own path.
LEMMA UnlinkOnlyOwn ==
  ASSUME NEW ep PROVE files \ {ep.addr} \subseteq UnlinkSocketFile(ep)
BY DEF UnlinkSocketFile

\* Send, Receive, its wake-up and timeout, Subscribe, a peer's message and
\* a completed PUSH send touch no Config, endpoint, file or binding, and
\* never start a connect loop.
LEMMA ReachMessaging ==
  ASSUME RInv, NEW c \in Ctx,
         \/ \E size \in MsgSizes : SendMessage(c, size)
         \/ ReceiveMessage(c)
         \/ RecvWake(c)
         \/ RecvTimeout(c)
         \/ Subscribe(c)
         \/ \E size \in MsgSizes : Arrive(c, size)
         \/ SendComplete(c)
  PROVE  \A d \in Ctx : Configured(d)' /\ Reach(d)'
<1>0. pc \in [Ctx -> PcValues]
  BY IInvSplit DEF RInv, PlainTypeOK
<1>1. UNCHANGED <<initialized, config, endpoint_path, files, listener>>
  BY DEF SendMessage, ReceiveMessage, RecvWake, RecvTimeout, Subscribe,
         Arrive, SendComplete, sockVars
<1>2. \/ pc' = pc
      \/ \E v \in {"idle", "sending", "receiving"} : pc' = [pc EXCEPT ![c] = v]
  BY Zenon DEF SendMessage, ReceiveMessage, RecvWake, RecvTimeout, Subscribe,
               Arrive, SendComplete
<1>3. \A d \in Ctx : pc'[d] = "connecting" => pc[d] = "connecting"
  BY <1>0, <1>2
<1>4. QED
  BY <1>1, <1>3, KeepAt DEF RInv

\* A pass of the connect loop changes only its own instance, a client: it
\* sets initialized or releases the client's own bindings.
LEMMA ReachConnect ==
  ASSUME RInv, NEW c \in Ctx, ConnectAttempt(c)
  PROVE  \A d \in Ctx : Configured(d)' /\ Reach(d)'
<1>0. /\ pc \in [Ctx -> PcValues] /\ initialized \in [Ctx -> BOOLEAN]
      /\ listener \in [Addrs -> Ctx \cup {NoOwner}]
  BY IInvSplit DEF RInv, PlainTypeOK
<1>1. UNCHANGED <<config, endpoint_path, files>> /\ pc[c] = "connecting"
  BY DEF ConnectAttempt
<1>2. /\ \/ initialized' = initialized
         \/ initialized' = [initialized EXCEPT ![c] = TRUE]
      /\ \/ pc' = pc
         \/ pc' = [pc EXCEPT ![c] = "idle"]
      /\ \/ listener' = listener
         \/ listener' = [a \in Addrs |-> IF listener[a] = c THEN NoOwner
                                                            ELSE listener[a]]
  BY Zenon DEF ConnectAttempt, CleanupSocket, sockVars
<1> SUFFICES ASSUME NEW d \in Ctx PROVE Configured(d)' /\ Reach(d)'
  OBVIOUS
<1>3. CASE d = c
  <2>1. Configured(c) /\ config[c].mode = "CLIENT"
    BY <1>1 DEF RInv, Configured
  <2>2. QED
    BY <1>0, <1>1, <1>2, <1>3, <2>1 DEF Configured, Reach
<1>4. CASE d # c
  <2>1. /\ initialized'[d] = initialized[d] /\ pc'[d] = pc[d]
        /\ \A a \in Addrs : listener[a] = d => listener'[a] = d
    BY <1>0, <1>2, <1>4
  <2>2. initialized[d] /\ config[d].mode = "SERVER" =>
          endpoint_path[d].addr \in Addrs
    <3>1. endpoint_path \in [Ctx -> EndpointRec \cup {NoEndpoint}]
      BY IInvSplit DEF RInv, PathOK
    <3>2. QED
      BY <3>1, BuildEndpointType, CallerConfigsAssumption
         DEF RInv, Configured, ConfigRec, EndpointRec
  <2>3. QED
    BY <1>1, <2>1, <2>2, KeepAt DEF RInv, Reach
<1>5. QED
  BY <1>3, <1>4

\* The endpoint of a set-up instance is a well-formed one: an address.
LEMMA ConfiguredAddr ==
  ASSUME NEW d \in Ctx, Configured(d), initialized[d] \/ pc[d] = "connecting"
  PROVE  endpoint_path[d] \in EndpointRec /\ endpoint_path[d].addr \in Addrs
<1>1. config[d] \in ConfigRec /\ endpoint_path[d] = BuildEndpoint(config[d].endpoint)
  BY CallerConfigsAssumption DEF Configured
<1>2. QED
  BY <1>1, BuildEndpointType DEF ConfigRec, EndpointRec

\* Close: Cleanup of an initialized instance unlinks only its own path, if
\* it is a server, and drops only its own bindings; every other server's
\* address differs from that path.
LEMMA ReachClose ==
  ASSUME DistinctServerEndpoints, RInv, NEW c \in Ctx, Close(c)
  PROVE  \A d \in Ctx : Configured(d)' /\ Reach(d)'
<1>0. /\ pc \in [Ctx -> PcValues] /\ initialized \in [Ctx -> BOOLEAN]
      /\ listener \in [Addrs -> Ctx \cup {NoOwner}]
  BY IInvSplit DEF RInv, PlainTypeOK
<1>1. UNCHANGED <<config, endpoint_path, pc>> /\ pc[c] = "idle"
  BY DEF Close, Cleanup
<1> SUFFICES ASSUME NEW d \in Ctx PROVE Configured(d)' /\ Reach(d)'
  OBVIOUS
<1>2. CASE ~initialized[c]
  <2>1. UNCHANGED <<initialized, files, listener>>
    BY <1>2, Zenon DEF Close, Cleanup
  <2>2. QED
    BY <1>1, <2>1, KeepAt DEF RInv
<1>3. CASE initialized[c]
  <2>1. /\ initialized' = [initialized EXCEPT ![c] = FALSE]
        /\ listener' = [a \in Addrs |-> IF listener[a] = c THEN NoOwner
                                                           ELSE listener[a]]
        /\ files' = IF config[c].mode = "SERVER"
                    THEN UnlinkSocketFile(endpoint_path[c]) ELSE files
    BY <1>3, Zenon DEF Close, Cleanup, CleanupSocket
  <2>2. CASE d = c
    BY <1>0, <1>1, <2>1, <2>2, IdleAt
  <2>3. CASE d # c
    <3>1. initialized'[d] = initialized[d]
      BY <1>0, <2>1, <2>3
    <3>2. ASSUME initialized[d], config[d].mode = "SERVER"
          PROVE  /\ listener'[endpoint_path[d].addr] = listener[endpoint_path[d].addr]
                 /\ endpoint_path[d].addr \in files =>
                      endpoint_path[d].addr \in files'
      <4>1. Configured(d) /\ Reach(d) /\ Configured(c)
        BY DEF RInv
      <4>2. endpoint_path[d].addr \in Addrs
        BY <3>2, <4>1, ConfiguredAddr
      <4>3. listener[endpoint_path[d].addr] = d
        BY <3>2, <4>1 DEF Reach
      <4>4. config[c].mode = "SERVER" =>
              endpoint_path[c].addr # endpoint_path[d].addr
        <5>1. config[c] \in CallerConfigs[c]
              /\ endpoint_path[c] = BuildEndpoint(config[c].endpoint)
          BY <1>3, <4>1 DEF Configured
        <5>2. QED
          BY <5>1, <3>2, <4>1, <2>3, OtherAddr
      <4>5. QED
        BY <2>1, <2>3, <4>2, <4>3, <4>4, UnlinkOnlyOwn
    <3>3. QED
      BY <1>0, <1>1, <3>1, <3>2, KeepAt DEF RInv
  <2>4. QED
    BY <2>2, <2>3
<1>4. QED
  BY <1>2, <1>3

\* A crash resets its own instance and drops only its own bindings.
LEMMA ReachCrash ==
  ASSUME RInv, NEW c \in Ctx, Crash(c)
  PROVE  \A d \in Ctx : Configured(d)' /\ Reach(d)'
<1>0. /\ pc \in [Ctx -> PcValues] /\ initialized \in [Ctx -> BOOLEAN]
      /\ listener \in [Addrs -> Ctx \cup {NoOwner}]
  BY IInvSplit DEF RInv, PlainTypeOK
<1> SUFFICES ASSUME NEW d \in Ctx PROVE Configured(d)' /\ Reach(d)'
  OBVIOUS
<1>1. CASE d = c
  BY <1>0, <1>1, IdleAt DEF Crash
<1>2. CASE d # c
  <2>1. /\ initialized'[d] = initialized[d] /\ pc'[d] = pc[d]
        /\ config'[d] = config[d] /\ endpoint_path'[d] = endpoint_path[d]
        /\ UNCHANGED files
    BY <1>0, <1>2 DEF Crash
  <2>2. initialized[d] /\ config[d].mode = "SERVER" =>
          listener'[endpoint_path[d].addr] = listener[endpoint_path[d].addr]
    <3>1. SUFFICES ASSUME initialized[d], config[d].mode = "SERVER"
                   PROVE listener'[endpoint_path[d].addr] =
                           listener[endpoint_path[d].addr]
      OBVIOUS
    <3>2. endpoint_path[d].addr \in Addrs /\ listener[endpoint_path[d].addr] = d
      BY <3>1, ConfiguredAddr DEF RInv, Reach
    <3>3. QED
      BY <1>2, <3>2 DEF Crash
  <2>3. QED
    BY <2>1, <2>2, KeepAt DEF RInv
<1>3. QED
  BY <1>1, <1>2

\* Init: only a server's Init unlinks a file or binds an address, and only
\* those of the endpoint it builds from its own Config, which no other
\* instance that may be a server resolves to; a successful bind makes the
\* instance reachable.
LEMMA ReachInit ==
  ASSUME DistinctServerEndpoints, RInv, NEW c \in Ctx,
         NEW cfg \in CallerConfigs[c], InitCall(c, cfg)
  PROVE  \A d \in Ctx : Configured(d)' /\ Reach(d)'
<1>0. /\ pc \in [Ctx -> PcValues] /\ initialized \in [Ctx -> BOOLEAN]
      /\ listener \in [Addrs -> Ctx \cup {NoOwner}]
      /\ config \in [Ctx -> ConfigRec \cup {DefaultConfig}]
      /\ endpoint_path \in [Ctx -> EndpointRec \cup {NoEndpoint}]
  BY IInvSplit DEF RInv, PlainTypeOK, ConfigOK, PathOK
<1> DEFINE g  == gen[c] + 1
           ep == BuildEndpoint(cfg.endpoint)
<1>p. pc[c] = "idle"
  BY DEF InitCall
<1>f. cfg \in ConfigRec
  BY CallerConfigsAssumption
<1>e. ep \in EndpointRec /\ ep.addr \in Addrs
  BY <1>f, BuildEndpointType DEF ConfigRec, EndpointRec
<1> SUFFICES ASSUME NEW d \in Ctx PROVE Configured(d)' /\ Reach(d)'
  OBVIOUS
<1>k. Configured(d) /\ Reach(d)
  BY DEF RInv
\* Another instance d that is a set-up server keeps its address when only
\* c's slots of the functions change and ep's address is rebound.
<1>o. ASSUME d # c,
             \A x \in Addrs \ {ep.addr} : listener'[x] = listener[x],
             files \ {ep.addr} \subseteq files',
             cfg.mode = "SERVER"
      PROVE  initialized[d] /\ config[d].mode = "SERVER" =>
               /\ listener'[endpoint_path[d].addr] = listener[endpoint_path[d].addr]
               /\ endpoint_path[d].addr \in files =>
                    endpoint_path[d].addr \in files'
  <2>1. SUFFICES ASSUME initialized[d], config[d].mode = "SERVER"
                 PROVE  /\ listener'[endpoint_path[d].addr] =
                              listener[endpoint_path[d].addr]
                        /\ endpoint_path[d].addr \in files =>
                             endpoint_path[d].addr \in files'
    OBVIOUS
  <2>2. endpoint_path[d].addr \in Addrs
    BY <1>k, <2>1, ConfiguredAddr
  <2>3. ep.addr # endpoint_path[d].addr
    BY <1>k, <1>o, <2>1, OtherAddr
  <2>4. QED
    BY <1>o, <2>2, <2>3
<1>1. CASE \/ initialized[c]
           \/ ~initialized[c] /\ cfg.timeout_ms < 0
  <2>1. UNCHANGED <<initialized, config, endpoint_path, pc, files, listener>>
    <3>1. CASE initialized[c]
      BY <1>p, <3>1, Zenon DEF InitCall
    <3>2. CASE ~initialized[c] /\ cfg.timeout_ms < 0
      <4>1. ~(cfg.timeout_ms >= 0)
        BY <3>2, <1>f DEF ConfigRec
      <4>2. QED
        BY <1>p, <3>2, <4>1, Zenon DEF InitCall
    <3>3. QED
      BY <1>1, <3>1, <3>2
  <2>2. QED
    BY <1>k, <2>1, KeepAt
<1>2. CASE ~initialized[c] /\ cfg.timeout_ms >= 0
  <2>0. /\ config' = [config EXCEPT ![c] = cfg]
        /\ \/ InitCreateFailed(c)
           \/ /\ gen[c] < MaxInits
              /\ \/ InitPathTooLong(c, ep, g)
                 \/ InitServer(c, cfg, ep, g)
                 \/ InitClient(c, cfg, ep, g)
    <3>1. ~(cfg.timeout_ms < 0)
      BY <1>2, <1>f DEF ConfigRec
    <3>2. QED
      BY <1>2, <3>1, Zenon DEF InitCall
  <2>c. config'[d] = IF d = c THEN cfg ELSE config[d]
    BY <1>0, <2>0
  <2>1. CASE \/ InitCreateFailed(c)
             \/ InitPathTooLong(c, ep, g)
    <3>1. UNCHANGED <<initialized, pc, files, listener>>
          /\ \A x \in Ctx \ {c} : endpoint_path'[x] = endpoint_path[x]
      <4>1. CASE InitCreateFailed(c)
        BY <4>1 DEF InitCreateFailed
      <4>2. CASE InitPathTooLong(c, ep, g)
        BY <1>0, <4>2 DEF InitPathTooLong
      <4>3. QED
        BY <2>1, <4>1, <4>2
    <3>2. CASE d = c
      BY <1>2, <1>p, <3>1, <3>2, IdleAt
    <3>3. CASE d # c
      BY <1>k, <2>c, <3>1, <3>3, KeepAt
    <3>4. QED
      BY <3>2, <3>3
  <2>2. CASE InitServer(c, cfg, ep, g)
    <3>0. /\ cfg.mode = "SERVER" /\ UNCHANGED pc
          /\ endpoint_path' = [endpoint_path EXCEPT ![c] = ep]
      BY <2>2 DEF InitServer
    <3>1. /\ \A x \in Addrs \ {ep.addr} : listener'[x] = listener[x]
          /\ files \ {ep.addr} \subseteq files'
          /\ \A x \in Ctx \ {c} : initialized'[x] = initialized[x]
      BY <1>0, <2>2, UnlinkOnlyOwn DEF InitServer
    <3>2. CASE d # c
      <4>1. endpoint_path'[d] = endpoint_path[d]
        BY <1>0, <3>0, <3>2
      <4>2. QED
        BY <1>k, <1>o, <2>c, <3>0, <3>1, <3>2, <4>1, KeepAt
    <3>3. CASE d = c
      <4>1. endpoint_path'[c] = ep /\ config'[c] = cfg /\ pc'[c] = "idle"
        BY <1>0, <1>p, <2>c, <3>0, <3>3
      <4>2. CASE initialized'[c]
        <5>1. /\ listener' = [listener EXCEPT ![ep.addr] = c]
              /\ files' = IF ep.ipc THEN UnlinkSocketFile(ep) \cup {ep.addr}
                                    ELSE UnlinkSocketFile(ep)
          BY <1>2, <2>2, <4>2, Zenon DEF InitServer
        <5>2. listener'[ep.addr] = c /\ (ep.ipc => ep.addr \in files')
          BY <1>0, <1>e, <5>1
        <5>3. QED
          BY <3>3, <4>1, <4>2, <5>2 DEF Configured, Reach
      <4>3. CASE ~initialized'[c]
        BY <3>3, <4>1, <4>3, IdleAt
      <4>4. QED
        BY <4>2, <4>3
    <3>4. QED
      BY <3>2, <3>3
  <2>3. CASE InitClient(c, cfg, ep, g)
    <3>0. /\ cfg.mode = "CLIENT"
          /\ UNCHANGED <<initialized, files, listener>>
          /\ endpoint_path' = [endpoint_path EXCEPT ![c] = ep]
          /\ pc' = [pc EXCEPT ![c] = "connecting"]
      BY <2>3 DEF InitClient
    <3>1. CASE d # c
      BY <1>0, <1>k, <2>c, <3>0, <3>1, KeepAt
    <3>2. CASE d = c
      BY <1>0, <1>2, <2>c, <3>0, <3>2 DEF Configured, Reach
    <3>3. QED
      BY <3>1, <3>2
  <2>4. QED
    BY <2>0, <2>1, <2>2, <2>3
<1>3. QED
  BY <1>1, <1>2 DEF InitCall

LEMMA RInvNext ==
  ASSUME DistinctServerEndpoints
  PROVE  RInv /\ [Next]_vars => RInv'
<1> SUFFICES ASSUME RInv, [Next]_vars PROVE RInv'
  OBVIOUS
<1>1. IInv'
  BY NextIInv DEF RInv
<1>2. ASSUME NEW c \in Ctx,
             \/ \E cfg \in CallerConfigs[c] : InitCall(c, cfg)
             \/ ConnectAttempt(c)
             \/ \E size \in MsgSizes : SendMessage(c, size)
             \/ ReceiveMessage(c)
             \/ RecvWake(c)
             \/ RecvTimeout(c)
             \/ Subscribe(c)
             \/ Close(c)
             \/ \E size \in MsgSizes : Arrive(c, size)
             \/ SendComplete(c)
             \/ Crash(c)
      PROVE  \A d \in Ctx : Configured(d)' /\ Reach(d)'
  <2>1. CASE \E cfg \in CallerConfigs[c] : InitCall(c, cfg)
    BY <2>1, ReachInit
  <2>2. CASE ConnectAttempt(c)
    BY <2>2, ReachConnect
  <2>3. CASE Close(c)
    BY <2>3, ReachClose
  <2>4. CASE Crash(c)
    BY <2>4, ReachCrash
  <2>5. CASE \/ \E size \in MsgSizes : SendMessage(c, size)
             \/ ReceiveMessage(c)
             \/ RecvWake(c)
             \/ RecvTimeout(c)
             \/ Subscribe(c)
             \/ \E size \in MsgSizes : Arrive(c, size)
             \/ SendComplete(c)
    BY <2>5, ReachMessaging
  <2>6. QED
    BY <1>2, <2>1, <2>2, <2>3, <2>4, <2>5
<1>3. CASE UNCHANGED vars
  BY <1>1, <1>3 DEF vars, RInv, Configured, Reach
<1>4. QED
  BY <1>1, <1>2, <1>3 DEF Next, RInv

\* A server that Init reported ready stays reachable, at its address and,
\* for ipc://, through its socket file, whatever other instances' Init,
\* Close and crashes do, for any number of instances and addresses, as long
\* as the callers never give two instances that may be servers the same
\* resolved address (without it, run shared_endpoint breaks the property).
THEOREM ServerReachableHolds ==
  ASSUME DistinctServerEndpoints
  PROVE  Spec => []ServerReachable
<1>1. RInv => ServerReachable
  BY DEF RInv, Reach, ServerReachable
<1>2. QED
  BY <1>1, RInvInit, RInvNext, PTL DEF Spec

=============================================================================
