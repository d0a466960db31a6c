--------------------------- MODULE WrapperProofs ---------------------------
(***************************************************************************)
(* Proofs about Wrapper, for every value of the constants that satisfies   *)
(* the module's assumptions: the type invariant and the handle discipline  *)
(* of ZMQWrapperImpl hold in every reachable state.  Both rest on the      *)
(* inductive invariant IInv, which adds PcConsistent: a connecting Init    *)
(* has not set initialized and has attempts left, and a blocked Send or    *)
(* Receive runs on an initialized instance.                                *)
(***************************************************************************)
EXTENDS Wrapper, TLAPS

USE EndpointsAssumption, DefaultAddrAssumption, NoEndpointAssumption,
    NoOwnerAssumption, CallerConfigsAssumption, FilesAssumption,
    SizesAssumption, BoundsAssumption

\* The endpoint Init resolves is a well-formed endpoint.
LEMMA BuildEndpointType ==
  ASSUME NEW e \in Endpoints \cup {NoEndpoint}
  PROVE  BuildEndpoint(e) \in EndpointRec
BY DEF BuildEndpoint, DefaultEndpoint, EndpointRec

\* The state the constructor leaves satisfies the inductive invariant.
LEMMA InitIInv == Init => IInv
<1> SUFFICES ASSUME Init PROVE IInv
  OBVIOUS
<1>1. TypeOK
  <2>1. config \in [Ctx -> ConfigRec \cup {DefaultConfig}]
    BY DEF Init
  <2>2. retry_count \in [Ctx -> 0..max_retries]
    BY DEF Init, max_retries
  <2>3. result \in [Ctx -> ErrorCodes]
    BY DEF Init, ErrorCodes
  <2>4. pc \in [Ctx -> PcValues]
    BY DEF Init, PcValues
  <2>5. inbox \in [Ctx -> Seq(MsgSizes)]
    BY DEF Init
  <2>6. endpoint_path \in [Ctx -> EndpointRec \cup {NoEndpoint}]
    BY DEF Init
  <2>7. QED
    BY <2>1, <2>2, <2>3, <2>4, <2>5, <2>6 DEF Init, TypeOK
<1>2. HandleDiscipline
  BY DEF Init, HandleDiscipline
<1>3. PcConsistent
  BY DEF Init, PcConsistent
<1>4. QED
  BY <1>1, <1>2, <1>3 DEF IInv

(***************************************************************************)
(* TypeOK split into the conjuncts over plain sets, which the provers use   *)
(* everywhere, and the three over records and strings, cited where an      *)
(* action writes them.  HandleDiscipline and PcConsistent per instance.    *)
(***************************************************************************)
PlainTypeOK ==
  /\ initialized \in [Ctx -> BOOLEAN]
  /\ socket \in [Ctx -> 0..MaxInits]
  /\ zctx \in [Ctx -> 0..MaxInits]
  /\ pc \in [Ctx -> PcValues]
  /\ retry_count \in [Ctx -> 0..max_retries]
  /\ gen \in [Ctx -> 0..MaxInits]
  /\ liveSock \in [Ctx -> SUBSET (1..MaxInits)]
  /\ liveCtx \in [Ctx -> SUBSET (1..MaxInits)]
  /\ subscribed \in [Ctx -> BOOLEAN]
  /\ fsm \in [Ctx -> BOOLEAN]
  /\ inbox \in [Ctx -> Seq(MsgSizes)]
  /\ files \subseteq Addrs
  /\ listener \in [Addrs -> Ctx \cup {NoOwner}]

ConfigOK == config \in [Ctx -> ConfigRec \cup {DefaultConfig}]
PathOK   == endpoint_path \in [Ctx -> EndpointRec \cup {NoEndpoint}]
ResultOK == result \in [Ctx -> ErrorCodes]

HandlesAt(d) ==
  /\ socket[d] # 0 => socket[d] \in liveSock[d]
  /\ zctx[d] # 0 => zctx[d] \in liveCtx[d]
  /\ liveSock[d] \subseteq {socket[d]}
  /\ liveCtx[d] \subseteq {zctx[d]}
  /\ (socket[d] # 0) = (initialized[d] \/ pc[d] = "connecting")
  /\ (zctx[d] # 0) = (socket[d] # 0)

PcAt(d) ==
  /\ pc[d] = "connecting" => ~initialized[d] /\ retry_count[d] < max_retries
  /\ pc[d] \in {"sending", "receiving"} => initialized[d]

\* The inductive invariant, in the pieces the step proofs use.
LEMMA IInvSplit ==
  IInv <=> /\ PlainTypeOK /\ ConfigOK /\ PathOK /\ ResultOK
           /\ \A d \in Ctx : HandlesAt(d)
           /\ \A d \in Ctx : PcAt(d)
BY DEF IInv, TypeOK, PlainTypeOK, ConfigOK, PathOK, ResultOK,
       HandleDiscipline, HandlesAt, PcConsistent, PcAt

\* Setting the result of c to an ErrorCode keeps result typed.
LEMMA ReturnType ==
  ASSUME ResultOK, NEW c \in Ctx, NEW code \in ErrorCodes, Return(c, code)
  PROVE  ResultOK'
BY DEF ResultOK, Return

\* A step that changes nothing of instance d keeps d's invariants.
LEMMA FrameAt ==
  ASSUME NEW d \in Ctx, HandlesAt(d), PcAt(d),
         initialized'[d] = initialized[d], socket'[d] = socket[d],
         zctx'[d] = zctx[d], pc'[d] = pc[d], retry_count'[d] = retry_count[d],
         liveSock'[d] = liveSock[d], liveCtx'[d] = liveCtx[d]
  PROVE  HandlesAt(d)' /\ PcAt(d)'
BY DEF HandlesAt, PcAt

\* The same split, one step later.
LEMMA IInvSplitPrimed ==
  IInv' <=> /\ PlainTypeOK' /\ ConfigOK' /\ PathOK' /\ ResultOK'
            /\ \A d \in Ctx : HandlesAt(d)'
            /\ \A d \in Ctx : PcAt(d)'
BY DEF IInv, TypeOK, PlainTypeOK, ConfigOK, PathOK, ResultOK,
       HandleDiscipline, HandlesAt, PcConsistent, PcAt

\* A pass of the connect loop keeps the invariant: on success the socket
\* stays open and initialized is set; on the last failure CleanupSocket
\* releases both handles together with leaving "connecting".
LEMMA ConnectAttemptStep ==
  ASSUME IInv, NEW c \in Ctx, ConnectAttempt(c)
  PROVE  IInv'
<1>0. /\ PlainTypeOK /\ ConfigOK /\ PathOK /\ ResultOK
      /\ \A d \in Ctx : HandlesAt(d)
      /\ \A d \in Ctx : PcAt(d)
  BY IInvSplit
<1> USE DEF PlainTypeOK
<1>a. UNCHANGED <<config, endpoint_path, gen, files>>
  BY DEF ConnectAttempt
<1>r. retry_count \in [Ctx -> 0..max_retries]
  BY <1>0
<1>1. CASE /\ initialized' = [initialized EXCEPT ![c] = TRUE]
           /\ pc' = [pc EXCEPT ![c] = "idle"]
           /\ Return(c, "SUCCESS")
           /\ UNCHANGED <<retry_count, sockVars, listener>>
  <2>1. PlainTypeOK'
    BY <1>0, <1>1, <1>a DEF sockVars, PcValues
  <2>2. ConfigOK' /\ PathOK' /\ ResultOK'
    BY <1>0, <1>1, <1>a, ReturnType DEF ConfigOK, PathOK, ErrorCodes
  <2>3. ASSUME NEW d \in Ctx PROVE HandlesAt(d)' /\ PcAt(d)'
    BY <1>0, <1>1, <1>a DEF sockVars, HandlesAt, PcAt, ConnectAttempt
  <2>4. QED
    BY <2>1, <2>2, <2>3, IInvSplitPrimed
<1>2. CASE /\ retry_count[c] + 1 < max_retries
           /\ retry_count' = [retry_count EXCEPT ![c] = retry_count[c] + 1]
           /\ UNCHANGED <<initialized, pc, sockVars, listener, result>>
  <2>1. PlainTypeOK'
    <3>1. retry_count' \in [Ctx -> 0..max_retries]
      BY <1>r, <1>2 DEF max_retries
    <3>2. QED
      BY <3>1, <1>0, <1>2, <1>a DEF sockVars
  <2>2. ConfigOK' /\ PathOK' /\ ResultOK'
    BY <1>0, <1>2, <1>a DEF ConfigOK, PathOK, ResultOK
  <2>3. ASSUME NEW d \in Ctx PROVE HandlesAt(d)' /\ PcAt(d)'
    BY <1>0, <1>2, <1>a DEF sockVars, HandlesAt, PcAt, ConnectAttempt
  <2>4. QED
    BY <2>1, <2>2, <2>3, IInvSplitPrimed
<1>3. CASE /\ retry_count[c] + 1 >= max_retries
           /\ retry_count' = [retry_count EXCEPT ![c] = retry_count[c] + 1]
           /\ CleanupSocket(c)
           /\ pc' = [pc EXCEPT ![c] = "idle"]
           /\ Return(c, "ERROR_SOCKET_CONNECT_FAILED")
           /\ UNCHANGED initialized
  <2>0. pc[c] = "connecting" /\ retry_count[c] < max_retries
    BY <1>0 DEF ConnectAttempt, PcAt
  <2>1. PlainTypeOK'
    <3>1. retry_count' \in [Ctx -> 0..max_retries]
      BY <1>r, <1>3, <2>0 DEF max_retries
    <3>2. listener' \in [Addrs -> Ctx \cup {NoOwner}]
      BY <1>0, <1>3 DEF CleanupSocket
    <3>3. QED
      BY <3>1, <3>2, <1>0, <1>3, <1>a DEF CleanupSocket, PcValues
  <2>2. ConfigOK' /\ PathOK' /\ ResultOK'
    BY <1>0, <1>3, <1>a, ReturnType DEF ConfigOK, PathOK, ErrorCodes
  <2>3. ASSUME NEW d \in Ctx PROVE HandlesAt(d)' /\ PcAt(d)'
    BY <1>0, <1>3, <1>a, <2>0 DEF CleanupSocket, HandlesAt, PcAt
  <2>4. QED
    BY <2>1, <2>2, <2>3, IInvSplitPrimed
<1>4. QED
  BY <1>1, <1>2, <1>3 DEF ConnectAttempt

\* SendMessage touches only the REQ/REP state, the result and, for a
\* blocked PUSH send, pc; it blocks only on an initialized instance.
LEMMA SendMessageStep ==
  ASSUME IInv, NEW c \in Ctx, NEW size \in MsgSizes, SendMessage(c, size)
  PROVE  IInv'
<1>0. /\ PlainTypeOK /\ ConfigOK /\ PathOK /\ ResultOK
      /\ \A d \in Ctx : HandlesAt(d)
      /\ \A d \in Ctx : PcAt(d)
  BY IInvSplit
<1> USE DEF PlainTypeOK
<1>a. UNCHANGED <<initialized, config, endpoint_path, retry_count, gen, socket,
                 zctx, liveSock, liveCtx, subscribed, inbox, files, listener>>
  BY DEF SendMessage
<1>1. PlainTypeOK'
  BY <1>0, <1>a DEF SendMessage, FsmStep, Return, PcValues
<1>2. ConfigOK' /\ PathOK' /\ ResultOK'
  BY <1>0, <1>a, ReturnType DEF SendMessage, ConfigOK, PathOK, ResultOK,
                                ErrorCodes
<1>3. ASSUME NEW d \in Ctx PROVE HandlesAt(d)' /\ PcAt(d)'
  BY <1>0, <1>a DEF SendMessage, Ready, HandlesAt, PcAt
<1>4. QED
  BY <1>1, <1>2, <1>3, IInvSplitPrimed

\* ReceiveMessage consumes the head of the queue or blocks, and blocks
\* only on an initialized instance.
LEMMA ReceiveMessageStep ==
  ASSUME IInv, NEW c \in Ctx, ReceiveMessage(c)
  PROVE  IInv'
<1>0. /\ PlainTypeOK /\ ConfigOK /\ PathOK /\ ResultOK
      /\ \A d \in Ctx : HandlesAt(d)
      /\ \A d \in Ctx : PcAt(d)
  BY IInvSplit
<1> USE DEF PlainTypeOK
<1>a. UNCHANGED <<initialized, config, endpoint_path, retry_count, gen, socket,
                 zctx, liveSock, liveCtx, subscribed, files, listener>>
  BY DEF ReceiveMessage
<1>q. inbox' \in [Ctx -> Seq(MsgSizes)]
  <2>1. inbox \in [Ctx -> Seq(MsgSizes)]
    BY <1>0
  <2>2. \/ inbox' = inbox
        \/ inbox[c] # <<>> /\ inbox' = [inbox EXCEPT ![c] = Tail(@)]
    BY DEF ReceiveMessage, Deliver
  <2>3. CASE inbox' = inbox
    BY <2>1, <2>3
  <2>4. CASE inbox[c] # <<>> /\ inbox' = [inbox EXCEPT ![c] = Tail(@)]
    BY <2>1, <2>4
  <2>5. QED
    BY <2>2, <2>3, <2>4
<1>1. PlainTypeOK'
  BY <1>0, <1>a, <1>q DEF ReceiveMessage, Deliver, FsmStep, Return, PcValues
<1>2. ConfigOK' /\ PathOK' /\ ResultOK'
  BY <1>0, <1>a, ReturnType DEF ReceiveMessage, Deliver, ConfigOK, PathOK,
                                ResultOK, ErrorCodes
<1>3. ASSUME NEW d \in Ctx PROVE HandlesAt(d)' /\ PcAt(d)'
  BY <1>0, <1>a DEF ReceiveMessage, Deliver, Ready, HandlesAt, PcAt
<1>4. QED
  BY <1>1, <1>2, <1>3, IInvSplitPrimed

\* A blocked Receive handed a message returns to idle.
LEMMA RecvWakeStep ==
  ASSUME IInv, NEW c \in Ctx, RecvWake(c)
  PROVE  IInv'
<1>0. /\ PlainTypeOK /\ ConfigOK /\ PathOK /\ ResultOK
      /\ \A d \in Ctx : HandlesAt(d)
      /\ \A d \in Ctx : PcAt(d)
  BY IInvSplit
<1> USE DEF PlainTypeOK
<1>a. UNCHANGED <<initialized, config, endpoint_path, retry_count, gen, socket,
                 zctx, liveSock, liveCtx, subscribed, files, listener>>
  BY DEF RecvWake
<1>q. inbox' \in [Ctx -> Seq(MsgSizes)]
  <2>1. inbox \in [Ctx -> Seq(MsgSizes)]
    BY <1>0
  <2>2. QED
    BY <2>1 DEF RecvWake, Deliver
<1>1. PlainTypeOK'
  BY <1>0, <1>a, <1>q DEF RecvWake, Deliver, FsmStep, Return, PcValues
<1>2. ConfigOK' /\ PathOK' /\ ResultOK'
  BY <1>0, <1>a, ReturnType DEF RecvWake, Deliver, ConfigOK, PathOK,
                                ResultOK, ErrorCodes
<1>3. ASSUME NEW d \in Ctx PROVE HandlesAt(d)' /\ PcAt(d)'
  BY <1>0, <1>a DEF RecvWake, Deliver, HandlesAt, PcAt
<1>4. QED
  BY <1>1, <1>2, <1>3, IInvSplitPrimed

\* A Receive whose RCVTIMEO elapsed returns to idle.
LEMMA RecvTimeoutStep ==
  ASSUME IInv, NEW c \in Ctx, RecvTimeout(c)
  PROVE  IInv'
<1>0. /\ PlainTypeOK /\ ConfigOK /\ PathOK /\ ResultOK
      /\ \A d \in Ctx : HandlesAt(d)
      /\ \A d \in Ctx : PcAt(d)
  BY IInvSplit
<1> USE DEF PlainTypeOK
<1>a. UNCHANGED <<initialized, config, endpoint_path, retry_count, gen, socket,
                 zctx, liveSock, liveCtx, subscribed, fsm, inbox, files,
                 listener>>
  BY DEF RecvTimeout, sockVars
<1>1. PlainTypeOK'
  BY <1>0, <1>a DEF RecvTimeout, PcValues
<1>2. ConfigOK' /\ PathOK' /\ ResultOK'
  BY <1>0, <1>a, ReturnType DEF RecvTimeout, ConfigOK, PathOK, ErrorCodes
<1>3. ASSUME NEW d \in Ctx PROVE HandlesAt(d)' /\ PcAt(d)'
  BY <1>0, <1>a DEF RecvTimeout, HandlesAt, PcAt
<1>4. QED
  BY <1>1, <1>2, <1>3, IInvSplitPrimed

\* Subscribe changes only the filter and the result.
LEMMA SubscribeStep ==
  ASSUME IInv, NEW c \in Ctx, Subscribe(c)
  PROVE  IInv'
<1>0. /\ PlainTypeOK /\ ConfigOK /\ PathOK /\ ResultOK
      /\ \A d \in Ctx : HandlesAt(d)
      /\ \A d \in Ctx : PcAt(d)
  BY IInvSplit
<1> USE DEF PlainTypeOK
<1>a. UNCHANGED <<initialized, config, endpoint_path, pc, retry_count, gen,
                 socket, zctx, liveSock, liveCtx, fsm, inbox, files, listener>>
  BY DEF Subscribe
<1>1. PlainTypeOK'
  BY <1>0, <1>a DEF Subscribe
<1>2. ConfigOK' /\ PathOK' /\ ResultOK'
  BY <1>0, <1>a, ReturnType DEF Subscribe, ConfigOK, PathOK, ErrorCodes
<1>3. ASSUME NEW d \in Ctx PROVE HandlesAt(d)' /\ PcAt(d)'
  BY <1>0, <1>a DEF HandlesAt, PcAt
<1>4. QED
  BY <1>1, <1>2, <1>3, IInvSplitPrimed

\* A peer's message only lengthens c's queue.
LEMMA ArriveStep ==
  ASSUME IInv, NEW c \in Ctx, NEW size \in MsgSizes, Arrive(c, size)
  PROVE  IInv'
<1>0. /\ PlainTypeOK /\ ConfigOK /\ PathOK /\ ResultOK
      /\ \A d \in Ctx : HandlesAt(d)
      /\ \A d \in Ctx : PcAt(d)
  BY IInvSplit
<1> USE DEF PlainTypeOK
<1>a. UNCHANGED <<initialized, socket, zctx, config, endpoint_path, pc,
                 retry_count, gen, liveSock, liveCtx, subscribed, fsm, files,
                 listener, result>>
  BY DEF Arrive
<1>1. PlainTypeOK'
  BY <1>0, <1>a DEF Arrive
<1>2. ConfigOK' /\ PathOK' /\ ResultOK'
  BY <1>0, <1>a DEF ConfigOK, PathOK, ResultOK
<1>3. ASSUME NEW d \in Ctx PROVE HandlesAt(d)' /\ PcAt(d)'
  BY <1>0, <1>a DEF HandlesAt, PcAt
<1>4. QED
  BY <1>1, <1>2, <1>3, IInvSplitPrimed

\* A blocked PUSH send that completes returns to idle.
LEMMA SendCompleteStep ==
  ASSUME IInv, NEW c \in Ctx, SendComplete(c)
  PROVE  IInv'
<1>0. /\ PlainTypeOK /\ ConfigOK /\ PathOK /\ ResultOK
      /\ \A d \in Ctx : HandlesAt(d)
      /\ \A d \in Ctx : PcAt(d)
  BY IInvSplit
<1> USE DEF PlainTypeOK
<1>a. UNCHANGED <<initialized, config, endpoint_path, retry_count, gen, socket,
                 zctx, liveSock, liveCtx, subscribed, fsm, inbox, files,
                 listener>>
  BY DEF SendComplete, sockVars
<1>1. PlainTypeOK'
  BY <1>0, <1>a DEF SendComplete, PcValues
<1>2. ConfigOK' /\ PathOK' /\ ResultOK'
  BY <1>0, <1>a, ReturnType DEF SendComplete, ConfigOK, PathOK, ErrorCodes
<1>3. ASSUME NEW d \in Ctx PROVE HandlesAt(d)' /\ PcAt(d)'
  BY <1>0, <1>a DEF SendComplete, HandlesAt, PcAt
<1>4. QED
  BY <1>1, <1>2, <1>3, IInvSplitPrimed

\* Close releases both handles and, for a server, the socket file; on an
\* instance that is not initialized it changes nothing but the result.
LEMMA CloseStep ==
  ASSUME IInv, NEW c \in Ctx, Close(c)
  PROVE  IInv'
<1>0. /\ PlainTypeOK /\ ConfigOK /\ PathOK /\ ResultOK
      /\ \A d \in Ctx : HandlesAt(d)
      /\ \A d \in Ctx : PcAt(d)
  BY IInvSplit
<1> USE DEF PlainTypeOK
<1>a. UNCHANGED <<config, endpoint_path, pc, retry_count, gen>>
  BY DEF Close, Cleanup
<1>b. pc[c] = "idle"
  BY DEF Close
<1>c. ResultOK'
  BY <1>0, ReturnType DEF Close, Cleanup, ErrorCodes
<1>1. CASE ~initialized[c]
  <2>1. UNCHANGED <<initialized, socket, zctx, liveSock, liveCtx, subscribed,
                    fsm, inbox, files, listener>>
    BY <1>1 DEF Close, Cleanup, sockVars
  <2>2. PlainTypeOK'
    BY <1>0, <1>a, <2>1
  <2>3. ConfigOK' /\ PathOK'
    BY <1>0, <1>a DEF ConfigOK, PathOK
  <2>4. ASSUME NEW d \in Ctx PROVE HandlesAt(d)' /\ PcAt(d)'
    BY <1>0, <1>a, <2>1 DEF HandlesAt, PcAt
  <2>5. QED
    BY <1>c, <2>2, <2>3, <2>4, IInvSplitPrimed
<1>2. CASE initialized[c]
  <2>1. /\ files' = IF config[c].mode = "SERVER"
                    THEN UnlinkSocketFile(endpoint_path[c]) ELSE files
        /\ CleanupSocket(c)
        /\ initialized' = [initialized EXCEPT ![c] = FALSE]
    BY <1>2 DEF Close, Cleanup
  <2>2. files' \subseteq Addrs
    BY <1>0, <2>1 DEF UnlinkSocketFile
  <2>3. listener' \in [Addrs -> Ctx \cup {NoOwner}]
    BY <1>0, <2>1 DEF CleanupSocket
  <2>4. PlainTypeOK'
    BY <1>0, <1>a, <2>1, <2>2, <2>3 DEF CleanupSocket
  <2>5. ConfigOK' /\ PathOK'
    BY <1>0, <1>a DEF ConfigOK, PathOK
  <2>6. ASSUME NEW d \in Ctx PROVE HandlesAt(d)' /\ PcAt(d)'
    BY <1>0, <1>a, <1>b, <2>1 DEF CleanupSocket, HandlesAt, PcAt
  <2>7. QED
    BY <1>c, <2>4, <2>5, <2>6, IInvSplitPrimed
<1>3. QED
  BY <1>1, <1>2

\* A crash returns the instance to the constructor's state: no handle, no
\* pointer, idle.
LEMMA CrashStep ==
  ASSUME IInv, NEW c \in Ctx, Crash(c)
  PROVE  IInv'
<1>0. /\ PlainTypeOK /\ ConfigOK /\ PathOK /\ ResultOK
      /\ \A d \in Ctx : HandlesAt(d)
      /\ \A d \in Ctx : PcAt(d)
  BY IInvSplit
<1> USE DEF PlainTypeOK
<1>1. listener' \in [Addrs -> Ctx \cup {NoOwner}]
  BY <1>0 DEF Crash
<1>2. PlainTypeOK'
  BY <1>0, <1>1 DEF Crash, PcValues, max_retries
<1>3. ConfigOK' /\ PathOK'
  BY <1>0 DEF Crash, ConfigOK, PathOK
<1>4. ResultOK'
  BY <1>0, ReturnType DEF Crash, ErrorCodes
<1>5. ASSUME NEW d \in Ctx PROVE HandlesAt(d)' /\ PcAt(d)'
  BY <1>0 DEF Crash, HandlesAt, PcAt
<1>6. QED
  BY <1>2, <1>3, <1>4, <1>5, IInvSplitPrimed

\* A stuttering step keeps the invariant.
LEMMA StutterStep ==
  ASSUME IInv, UNCHANGED vars
  PROVE  IInv'
BY DEF vars, IInv, TypeOK, HandleDiscipline, PcConsistent

\* Init keeps the invariant on every path: the validations and a failed
\* create change only the result (and config); the path-length check
\* returns after CleanupSocket; a server opens handle g, which CleanupSocket
\* releases again if the bind fails; a client opens handle g and starts
\* connecting.
LEMMA InitCallStep ==
  ASSUME IInv, NEW c \in Ctx, NEW cfg \in CallerConfigs[c], InitCall(c, cfg)
  PROVE  IInv'
<1>0. /\ PlainTypeOK /\ ConfigOK /\ PathOK /\ ResultOK
      /\ \A d \in Ctx : HandlesAt(d)
      /\ \A d \in Ctx : PcAt(d)
  BY IInvSplit
<1> USE DEF PlainTypeOK
<1> DEFINE g  == gen[c] + 1
          ep == BuildEndpoint(cfg.endpoint)
<1>p. pc[c] = "idle"
  BY DEF InitCall
<1>f. cfg \in ConfigRec
  BY CallerConfigsAssumption
<1>e. ep \in EndpointRec
  BY <1>f, BuildEndpointType DEF ConfigRec
<1>1. CASE \/ initialized[c]
           \/ ~initialized[c] /\ cfg.timeout_ms < 0
  <2>1. UNCHANGED <<initialized, config, endpoint_path, pc, retry_count, gen,
                    socket, zctx, liveSock, liveCtx, subscribed, fsm, inbox,
                    files, listener>>
    <3>1. CASE initialized[c]
      BY <1>p, <3>1, Zenon DEF InitCall, sockVars
    <3>2. CASE ~initialized[c] /\ cfg.timeout_ms < 0
      <4>1. cfg.timeout_ms \in Int
        BY <1>f DEF ConfigRec
      <4>2. ~(cfg.timeout_ms >= 0)
        BY <3>2, <4>1
      <4>3. QED
        BY <1>p, <3>2, <4>2, Zenon DEF InitCall, sockVars
    <3>3. QED
      BY <1>1, <3>1, <3>2
  <2>2. ResultOK'
    <3>1. \E code \in {"ERROR_ALREADY_INITIALIZED", "ERROR_INVALID_CONFIG"} :
            Return(c, code)
      <4>1. cfg.timeout_ms \in Int
        BY <1>f DEF ConfigRec
      <4>2. ~initialized[c] /\ cfg.timeout_ms < 0 => ~(cfg.timeout_ms >= 0)
        BY <4>1
      <4>3. QED
        BY <1>1, <4>2, Zenon DEF InitCall
    <3>2. QED
      BY <1>0, <3>1, ReturnType DEF ErrorCodes
  <2>3. PlainTypeOK' /\ ConfigOK' /\ PathOK'
    BY <1>0, <2>1 DEF ConfigOK, PathOK
  <2>4. ASSUME NEW d \in Ctx PROVE HandlesAt(d)' /\ PcAt(d)'
    BY <1>0, <2>1 DEF HandlesAt, PcAt
  <2>5. QED
    BY <2>2, <2>3, <2>4, IInvSplitPrimed
<1>2. CASE ~initialized[c] /\ cfg.timeout_ms >= 0
  <2>0. /\ config' = [config EXCEPT ![c] = cfg]
        /\ \/ InitCreateFailed(c)
           \/ /\ gen[c] < MaxInits
              /\ gen' = [gen EXCEPT ![c] = g]
              /\ \/ InitPathTooLong(c, ep, g)
                 \/ InitServer(c, cfg, ep, g)
                 \/ InitClient(c, cfg, ep, g)
    <3>1. ~(cfg.timeout_ms < 0)
      BY <1>2, <1>f DEF ConfigRec
    <3>2. QED
      BY <1>2, <3>1, Zenon DEF InitCall
  <2>z. /\ socket[c] = 0 /\ zctx[c] = 0
        /\ liveSock[c] = {} /\ liveCtx[c] = {}
    <3>1. HandlesAt(c) /\ ~initialized[c] /\ pc[c] = "idle"
      BY <1>0, <1>2, <1>p
    <3>2. socket[c] = 0 /\ zctx[c] = 0
      BY <3>1 DEF HandlesAt
    <3>3. liveSock[c] \subseteq {0} /\ liveCtx[c] \subseteq {0}
      BY <3>1, <3>2 DEF HandlesAt
    <3>4. liveSock[c] \subseteq 1..MaxInits /\ liveCtx[c] \subseteq 1..MaxInits
      BY <1>0
    <3>5. QED
      BY <3>2, <3>3, <3>4
  <2>c. ConfigOK'
    BY <1>0, <1>f, <2>0 DEF ConfigOK
  <2>1. CASE InitCreateFailed(c)
    <3>1. UNCHANGED <<initialized, endpoint_path, pc, retry_count, gen,
                      socket, zctx, liveSock, liveCtx, subscribed, fsm, inbox,
                      files, listener>>
      BY <2>1 DEF InitCreateFailed, sockVars
    <3>2. ResultOK'
      BY <1>0, <2>1, ReturnType DEF InitCreateFailed, ErrorCodes
    <3>3. PlainTypeOK' /\ PathOK'
      BY <1>0, <3>1 DEF PathOK
    <3>4. ASSUME NEW d \in Ctx PROVE HandlesAt(d)' /\ PcAt(d)'
      BY <1>0, <3>1 DEF HandlesAt, PcAt
    <3>5. QED
      BY <2>c, <3>2, <3>3, <3>4, IInvSplitPrimed
  <2>2. CASE /\ gen[c] < MaxInits
             /\ gen' = [gen EXCEPT ![c] = g]
             /\ InitPathTooLong(c, ep, g)
    <3>1. UNCHANGED <<initialized, pc, retry_count, socket, zctx, liveSock,
                      liveCtx, subscribed, fsm, inbox, files, listener>>
      BY <2>2 DEF InitPathTooLong, sockVars
    <3>2. ResultOK'
      BY <1>0, <2>2, ReturnType DEF InitPathTooLong, ErrorCodes
    <3>3. PathOK'
      BY <1>0, <1>e, <2>2 DEF InitPathTooLong, PathOK
    <3>4. PlainTypeOK'
      BY <1>0, <2>2, <3>1
    <3>5. ASSUME NEW d \in Ctx PROVE HandlesAt(d)' /\ PcAt(d)'
      BY <1>0, <3>1 DEF HandlesAt, PcAt
    <3>6. QED
      BY <2>c, <3>2, <3>3, <3>4, <3>5, IInvSplitPrimed
  <2>3. CASE /\ gen[c] < MaxInits
             /\ gen' = [gen EXCEPT ![c] = g]
             /\ InitServer(c, cfg, ep, g)
    <3>0. /\ endpoint_path' = [endpoint_path EXCEPT ![c] = ep]
          /\ UNCHANGED <<pc, retry_count>>
      BY <2>3 DEF InitServer
    <3>p. PathOK'
      BY <1>0, <1>e, <3>0 DEF PathOK
    <3>k. UnlinkSocketFile(ep) \subseteq Addrs
      BY <1>0 DEF UnlinkSocketFile
    <3>1. CASE /\ initialized' = [initialized EXCEPT ![c] = TRUE]
               /\ OpenSocket(c, g)
               /\ listener' = [listener EXCEPT ![ep.addr] = c]
               /\ files' = IF ep.ipc THEN UnlinkSocketFile(ep) \cup {ep.addr}
                                     ELSE UnlinkSocketFile(ep)
               /\ Return(c, "SUCCESS")
      <4>1. ResultOK'
        BY <1>0, <3>1, ReturnType DEF ErrorCodes
      <4>2. PlainTypeOK'
        BY <1>0, <1>e, <2>3, <3>0, <3>1, <3>k DEF OpenSocket, EndpointRec
      <4>3. ASSUME NEW d \in Ctx PROVE HandlesAt(d)' /\ PcAt(d)'
        BY <1>0, <1>p, <2>3, <2>z, <3>0, <3>1 DEF OpenSocket, HandlesAt, PcAt
      <4>4. QED
        BY <2>c, <3>p, <4>1, <4>2, <4>3, IInvSplitPrimed
    <3>2. CASE /\ files' = UnlinkSocketFile(ep)
               /\ \E code \in {"ERROR_SOCKET_BIND_FAILED",
                               "ERROR_PERMISSION_DENIED"} : Return(c, code)
               /\ UNCHANGED <<initialized, sockVars, listener>>
      <4>1. ResultOK'
        BY <1>0, <3>2, ReturnType DEF ErrorCodes
      <4>2. PlainTypeOK'
        BY <1>0, <2>3, <3>0, <3>2, <3>k DEF sockVars
      <4>3. ASSUME NEW d \in Ctx PROVE HandlesAt(d)' /\ PcAt(d)'
        BY <1>0, <3>0, <3>2 DEF sockVars, HandlesAt, PcAt
      <4>4. QED
        BY <2>c, <3>p, <4>1, <4>2, <4>3, IInvSplitPrimed
    <3>3. QED
      BY <2>3, <3>1, <3>2 DEF InitServer
  <2>4. CASE /\ gen[c] < MaxInits
             /\ gen' = [gen EXCEPT ![c] = g]
             /\ InitClient(c, cfg, ep, g)
    <3>1. ResultOK' /\ PathOK'
      BY <1>0, <1>e, <2>4 DEF InitClient, ResultOK, PathOK
    <3>2. PlainTypeOK'
      BY <1>0, <2>4 DEF InitClient, OpenSocket, PcValues, max_retries
    <3>3. ASSUME NEW d \in Ctx PROVE HandlesAt(d)' /\ PcAt(d)'
      BY <1>0, <1>2, <2>4, <2>z DEF InitClient, OpenSocket, HandlesAt, PcAt,
                                    max_retries
    <3>4. QED
      BY <2>c, <3>1, <3>2, <3>3, IInvSplitPrimed
  <2>5. QED
    BY <2>0, <2>1, <2>2, <2>3, <2>4
<1>3. QED
  BY <1>1, <1>2 DEF InitCall

\* Every step of the specification preserves the inductive invariant.
LEMMA NextIInv == IInv /\ [Next]_vars => IInv'
<1> SUFFICES ASSUME IInv, [Next]_vars PROVE IInv'
  OBVIOUS
<1>1. ASSUME NEW c \in Ctx,
             \/ \E cfg \in CallerConfigs[c] : InitCall(c, cfg)
             \/ ConnectAttempt(c)
             \/ \E size \in MsgSizes : SendMessage(c, size)
             \/ ReceiveMessage(c)
             \/ RecvWake(c)
             \/ RecvTimeout(c)
             \/ Subscribe(c)
             \/ Close(c)
             \/ \E size \in MsgSizes : Arrive(c, size)
             \/ SendComplete(c)
             \/ Crash(c)
      PROVE  IInv'
  BY <1>1, InitCallStep, ConnectAttemptStep, SendMessageStep,
     ReceiveMessageStep, RecvWakeStep, RecvTimeoutStep, SubscribeStep,
     CloseStep, ArriveStep, SendCompleteStep, CrashStep
<1>2. CASE UNCHANGED vars
  BY <1>2, StutterStep
<1>3. QED
  BY <1>1, <1>2 DEF Next

\* The inductive invariant holds in every reachable state.
THEOREM IInvariant == Spec => []IInv
BY InitIInv, NextIInv, PTL DEF Spec

\* ZMQWrapperImpl's fields, the transport's handle sets and the result of
\* every operation keep their types in every reachable state.
THEOREM TypeCorrect == Spec => []TypeOK
BY IInvariant, PTL DEF IInv

\* No error path of Init, no failed connect loop, no Close and no crash
\* leaks a socket or context handle or leaves a pointer to a released one,
\* and the socket is open exactly while the instance is initialized or Init
\* is connecting (HandleDiscipline, checked by the lifecycle run).
THEOREM HandleDisciplineHolds == Spec => []HandleDiscipline
BY IInvariant, PTL DEF IInv

-----------------------------------------------------------------------------
(***************************************************************************)
(* A stale socket file never blocks a bind.  Init unlinks an existing      *)
(* socket file before zmq_bind unless access() denies it, so a BIND_FAILED *)
(* that Init has returned for an ipc:// endpoint names a protected path.   *)
(* Given IInv, the property is inductive by itself: every other step of c  *)
(* either sets c's result to another code, leaves the mutex held, or       *)
(* changes nothing that the property reads.                                *)
(***************************************************************************)
StaleAt(d) ==
  pc[d] = "idle" /\ result[d] = "ERROR_SOCKET_BIND_FAILED"
  /\ endpoint_path[d].ipc
    => endpoint_path[d].addr \in Protected

\* A step of c keeps the property at every instance when it keeps it at c
\* and leaves what the property reads of the others alone.
LEMMA StaleFrame ==
  ASSUME NEW c \in Ctx,
         \A d \in Ctx : StaleAt(d),
         \A d \in Ctx \ {c} : /\ pc'[d] = pc[d]
                              /\ result'[d] = result[d]
                              /\ endpoint_path'[d] = endpoint_path[d],
         StaleAt(c)'
  PROVE  StaleFileNeverBlocksBind'
BY DEF StaleFileNeverBlocksBind, StaleAt

\* Setting c's result to a code other than BIND_FAILED, by a step that
\* writes pc, result and endpoint_path only at c, keeps the property.
LEMMA StaleOtherCode ==
  ASSUME NEW c \in Ctx, NEW code \in ErrorCodes \ {"ERROR_SOCKET_BIND_FAILED"},
         \A d \in Ctx : StaleAt(d),
         pc \in [Ctx -> PcValues], result \in [Ctx -> ErrorCodes],
         \E p \in PcValues : pc' = [pc EXCEPT ![c] = p],
         \E e \in EndpointRec \cup {NoEndpoint} :
           endpoint_path' = [endpoint_path EXCEPT ![c] = e],
         Return(c, code)
  PROVE  StaleFileNeverBlocksBind'
<1>1. \A d \in Ctx \ {c} : /\ pc'[d] = pc[d]
                           /\ result'[d] = result[d]
                           /\ endpoint_path'[d] = endpoint_path[d]
  BY DEF Return
<1>2. StaleAt(c)'
  BY DEF Return, StaleAt
<1>3. QED
  BY <1>1, <1>2, StaleFrame

\* A step that leaves c holding the mutex, and c's result as it was, keeps
\* the property.
LEMMA StaleBusy ==
  ASSUME NEW c \in Ctx, \A d \in Ctx : StaleAt(d),
         pc \in [Ctx -> PcValues],
         \E p \in PcValues \ {"idle"} : pc' = [pc EXCEPT ![c] = p],
         result' = result,
         \E e \in EndpointRec \cup {NoEndpoint} :
           endpoint_path' = [endpoint_path EXCEPT ![c] = e]
  PROVE  StaleFileNeverBlocksBind'
<1>1. \A d \in Ctx \ {c} : /\ pc'[d] = pc[d]
                           /\ result'[d] = result[d]
                           /\ endpoint_path'[d] = endpoint_path[d]
  OBVIOUS
<1>2. StaleAt(c)'
  BY DEF StaleAt
<1>3. QED
  BY <1>1, <1>2, StaleFrame

\* The codes other than BIND_FAILED that the operations return.
OtherCodes ==
  {"NONE", "SUCCESS", "ERROR_NOT_INITIALIZED", "ERROR_ALREADY_INITIALIZED",
   "ERROR_INVALID_CONFIG", "ERROR_SOCKET_CREATE_FAILED",
   "ERROR_SOCKET_CONNECT_FAILED", "ERROR_SEND_FAILED",
   "ERROR_RECEIVE_FAILED", "ERROR_TIMEOUT", "ERROR_MESSAGE_TOO_LARGE",
   "ERROR_INVALID_PATTERN", "ERROR_PERMISSION_DENIED", "ERROR_PATH_TOO_LONG"}

LEMMA OtherCodesType ==
  OtherCodes \subseteq ErrorCodes \ {"ERROR_SOCKET_BIND_FAILED"}
BY DEF OtherCodes, ErrorCodes

\* The operations of c other than Init never return BIND_FAILED: each one
\* either returns another code with pc and endpoint_path written at c only,
\* or leaves c holding the mutex with its result unchanged, or changes
\* nothing the property reads.
LEMMA StaleNonInit ==
  ASSUME IInv, StaleFileNeverBlocksBind, NEW c \in Ctx,
         \/ ConnectAttempt(c)
         \/ \E size \in MsgSizes : SendMessage(c, size)
         \/ ReceiveMessage(c)
         \/ RecvWake(c)
         \/ RecvTimeout(c)
         \/ Subscribe(c)
         \/ Close(c)
         \/ \E size \in MsgSizes : Arrive(c, size)
         \/ SendComplete(c)
         \/ Crash(c)
  PROVE  StaleFileNeverBlocksBind'
<1>0. /\ pc \in [Ctx -> PcValues] /\ result \in [Ctx -> ErrorCodes]
      /\ endpoint_path \in [Ctx -> EndpointRec \cup {NoEndpoint}]
      /\ \A d \in Ctx : StaleAt(d)
  BY DEF IInv, TypeOK, StaleFileNeverBlocksBind, StaleAt
<1>e. endpoint_path = [endpoint_path EXCEPT ![c] = endpoint_path[c]]
      /\ endpoint_path[c] \in EndpointRec \cup {NoEndpoint}
  BY <1>0
<1>p. pc = [pc EXCEPT ![c] = pc[c]] /\ pc[c] \in PcValues
  BY <1>0
<1>1. CASE \E code \in OtherCodes :
             /\ Return(c, code)
             /\ \E p \in PcValues : pc' = [pc EXCEPT ![c] = p]
             /\ \E e \in EndpointRec \cup {NoEndpoint} :
                  endpoint_path' = [endpoint_path EXCEPT ![c] = e]
  BY <1>0, <1>1, OtherCodesType, StaleOtherCode
<1>2. CASE /\ \E p \in PcValues \ {"idle"} : pc' = [pc EXCEPT ![c] = p]
           /\ result' = result
           /\ endpoint_path' = endpoint_path
  BY <1>0, <1>2, <1>e, StaleBusy
<1>3. CASE UNCHANGED <<pc, result, endpoint_path>>
  BY <1>0, <1>3 DEF StaleFileNeverBlocksBind, StaleAt
<1>4. QED
  <2>1. CASE ConnectAttempt(c)
    BY <2>1, <1>1, <1>2, <1>e, <1>p DEF ConnectAttempt, OtherCodes, PcValues
  <2>2. CASE \E size \in MsgSizes : SendMessage(c, size)
    BY <2>2, <1>1, <1>2, <1>3, <1>e, <1>p DEF SendMessage, OtherCodes,
                                              PcValues
  <2>3. CASE ReceiveMessage(c)
    BY <2>3, <1>1, <1>2, <1>3, <1>e, <1>p DEF ReceiveMessage, Deliver,
                                              OtherCodes, PcValues
  <2>4. CASE RecvWake(c)
    BY <2>4, <1>1, <1>e DEF RecvWake, Deliver, OtherCodes, PcValues
  <2>5. CASE RecvTimeout(c)
    BY <2>5, <1>1, <1>e DEF RecvTimeout, OtherCodes, PcValues
  <2>6. CASE Subscribe(c)
    BY <2>6, <1>1, <1>e, <1>p DEF Subscribe, OtherCodes
  <2>7. CASE Close(c)
    BY <2>7, <1>1, <1>e, <1>p DEF Close, Cleanup, OtherCodes
  <2>8. CASE \E size \in MsgSizes : Arrive(c, size)
    BY <2>8, <1>3 DEF Arrive
  <2>9. CASE SendComplete(c)
    BY <2>9, <1>1, <1>e DEF SendComplete, OtherCodes, PcValues
  <2>10. CASE Crash(c)
    BY <2>10, <1>1 DEF Crash, OtherCodes, PcValues
  <2>11. QED
    BY <2>1, <2>2, <2>3, <2>4, <2>5, <2>6, <2>7, <2>8, <2>9, <2>10

\* What Init leaves of an ipc:// socket file at the address it binds:
\* the file survives the unlink only at a protected path.
LEMMA UnlinkKeepsOnlyProtected ==
  ASSUME NEW ep \in EndpointRec, ep.ipc, ep.addr \in UnlinkSocketFile(ep)
  PROVE  ep.addr \in Protected
BY DEF UnlinkSocketFile

\* Init returns BIND_FAILED on an ipc:// endpoint only where the unlink was
\* refused; its other paths return other codes or leave the mutex held.
LEMMA StaleInit ==
  ASSUME IInv, StaleFileNeverBlocksBind, NEW c \in Ctx,
         NEW cfg \in CallerConfigs[c], InitCall(c, cfg)
  PROVE  StaleFileNeverBlocksBind'
<1> DEFINE g  == gen[c] + 1
          ep == BuildEndpoint(cfg.endpoint)
<1>0. /\ pc \in [Ctx -> PcValues] /\ result \in [Ctx -> ErrorCodes]
      /\ endpoint_path \in [Ctx -> EndpointRec \cup {NoEndpoint}]
      /\ \A d \in Ctx : StaleAt(d)
  BY DEF IInv, TypeOK, StaleFileNeverBlocksBind, StaleAt
<1>e. endpoint_path = [endpoint_path EXCEPT ![c] = endpoint_path[c]]
      /\ endpoint_path[c] \in EndpointRec \cup {NoEndpoint}
  BY <1>0
<1>p. pc[c] = "idle" /\ pc = [pc EXCEPT ![c] = "idle"]
  BY <1>0 DEF InitCall
<1>f. cfg \in ConfigRec
  BY CallerConfigsAssumption
<1>x. ep \in EndpointRec
  BY <1>f, BuildEndpointType DEF ConfigRec
<1>1. CASE \E code \in OtherCodes :
             /\ Return(c, code)
             /\ \E p \in PcValues : pc' = [pc EXCEPT ![c] = p]
             /\ \E e \in EndpointRec \cup {NoEndpoint} :
                  endpoint_path' = [endpoint_path EXCEPT ![c] = e]
  BY <1>0, <1>1, OtherCodesType, StaleOtherCode
<1>2. CASE /\ initialized[c] \/ cfg.timeout_ms < 0
           /\ InitCall(c, cfg)
  <2>1. cfg.timeout_ms \in Int
    BY <1>f DEF ConfigRec
  <2>2. initialized[c] \/ ~(cfg.timeout_ms >= 0)
    BY <1>2, <2>1
  <2>3. \E code \in {"ERROR_ALREADY_INITIALIZED", "ERROR_INVALID_CONFIG"} :
          Return(c, code)
    BY <1>2, <2>2, Zenon DEF InitCall
  <2>4. UNCHANGED <<pc, endpoint_path>>
    BY <1>2, <2>2, Zenon DEF InitCall
  <2>5. QED
    BY <1>1, <1>e, <1>p, <2>3, <2>4 DEF OtherCodes, PcValues
<1>3. CASE /\ ~initialized[c] /\ cfg.timeout_ms >= 0
           /\ InitCall(c, cfg)
  <2>0. ~(cfg.timeout_ms < 0)
    BY <1>3, <1>f DEF ConfigRec
  <2>1. \/ InitCreateFailed(c)
        \/ InitPathTooLong(c, ep, g)
        \/ InitServer(c, cfg, ep, g)
        \/ InitClient(c, cfg, ep, g)
    BY <1>3, <2>0, Zenon DEF InitCall
  <2>2. CASE InitCreateFailed(c)
    BY <2>2, <1>1, <1>e, <1>p DEF InitCreateFailed, OtherCodes, PcValues
  <2>3. CASE InitPathTooLong(c, ep, g)
    BY <2>3, <1>1, <1>x, <1>p DEF InitPathTooLong, OtherCodes, PcValues
  <2>4. CASE InitClient(c, cfg, ep, g)
    BY <2>4, <1>0, <1>x, StaleBusy DEF InitClient, PcValues
  <2>5. CASE InitServer(c, cfg, ep, g)
    <3> DEFINE kept == UnlinkSocketFile(ep)
               inUse == IF ep.ipc THEN ep.addr \in kept
                                  ELSE listener[ep.addr] # NoOwner
    <3>0. /\ endpoint_path' = [endpoint_path EXCEPT ![c] = ep]
          /\ pc' = pc
      BY <2>5 DEF InitServer
    <3>1. CASE Return(c, "SUCCESS")
      BY <3>0, <3>1, <1>1, <1>p, <1>x DEF OtherCodes, PcValues
    <3>2. CASE /\ inUse
               /\ Return(c, "ERROR_SOCKET_BIND_FAILED")
      <4>1. \A d \in Ctx \ {c} : /\ pc'[d] = pc[d]
                                 /\ result'[d] = result[d]
                                 /\ endpoint_path'[d] = endpoint_path[d]
        BY <3>0, <3>2 DEF Return
      <4>2. ep.ipc => ep.addr \in Protected
        BY <3>2, <1>x, UnlinkKeepsOnlyProtected
      <4>3. StaleAt(c)'
        BY <3>0, <4>2, <1>0 DEF StaleAt
      <4>4. QED
        BY <1>0, <4>1, <4>3, StaleFrame
    <3>3. CASE /\ ~inUse
               /\ Return(c, "ERROR_PERMISSION_DENIED")
      BY <3>0, <3>3, <1>1, <1>p, <1>x DEF OtherCodes, PcValues
    <3>4. QED
      BY <2>5, <3>1, <3>2, <3>3 DEF InitServer
  <2>6. QED
    BY <2>1, <2>2, <2>3, <2>4, <2>5
<1>4. QED
  <2>1. cfg.timeout_ms \in Int
    BY <1>f DEF ConfigRec
  <2>2. QED
    BY <1>2, <1>3, <2>1

\* The property holds initially and survives every step.
LEMMA StaleInductive ==
  /\ Init => StaleFileNeverBlocksBind
  /\ IInv /\ StaleFileNeverBlocksBind /\ [Next]_vars
       => StaleFileNeverBlocksBind'
<1>1. Init => StaleFileNeverBlocksBind
  BY DEF Init, StaleFileNeverBlocksBind
<1>2. ASSUME IInv, StaleFileNeverBlocksBind, [Next]_vars
      PROVE  StaleFileNeverBlocksBind'
  <2>1. CASE UNCHANGED vars
    <3>1. pc' = pc /\ result' = result /\ endpoint_path' = endpoint_path
      BY <2>1 DEF vars
    <3>2. QED
      BY <1>2, <3>1 DEF StaleFileNeverBlocksBind
  <2>2. CASE Next
    <3>1. PICK c \in Ctx :
            \/ \E cfg \in CallerConfigs[c] : InitCall(c, cfg)
            \/ ConnectAttempt(c)
            \/ \E size \in MsgSizes : SendMessage(c, size)
            \/ ReceiveMessage(c)
            \/ RecvWake(c)
            \/ RecvTimeout(c)
            \/ Subscribe(c)
            \/ Close(c)
            \/ \E size \in MsgSizes : Arrive(c, size)
            \/ SendComplete(c)
            \/ Crash(c)
      BY <2>2 DEF Next
    <3>2. CASE \E cfg \in CallerConfigs[c] : InitCall(c, cfg)
      BY <1>2, <3>2, StaleInit
    <3>3. QED
      BY <1>2, <3>1, <3>2, StaleNonInit
  <2>3. QED
    BY <1>2, <2>1, <2>2
<1>3. QED
  BY <1>1, <1>2

\* A socket file left behind by a crashed or closed server never makes a
\* later server's Init fail: whatever the interleaving of Init, Close and
\* crashes of any number of instances, an Init that returned BIND_FAILED
\* for an ipc:// endpoint did so at a path access() denies (Init lines
\* 114-134; StaleFileNeverBlocksBind, checked by the lifecycle run).
THEOREM StaleFileNeverBlocksBindHolds == Spec => []StaleFileNeverBlocksBind
<1>1. Spec => []IInv
  BY IInvariant
<1>2. QED
  BY <1>1, StaleInductive, PTL DEF Spec

-----------------------------------------------------------------------------
(* LiveConfigStable: no step reconfigures an instance that stays           *)
(* initialized.                                                            *)

\* The identity of instance d is kept by a step in which d stays
\* initialized.
Stable(d) ==
  initialized[d] /\ initialized'[d] =>
    /\ config'[d] = config[d]
    /\ endpoint_path'[d] = endpoint_path[d]
    /\ socket'[d] = socket[d]
    /\ liveSock'[d] = liveSock[d]

\* The steps that never write the four fields of any instance.
LEMMA MessagingStable ==
  ASSUME NEW c \in Ctx, NEW d \in Ctx,
         \/ \E size \in MsgSizes : SendMessage(c, size)
         \/ ReceiveMessage(c) \/ RecvWake(c) \/ RecvTimeout(c)
         \/ Subscribe(c) \/ \E size \in MsgSizes : Arrive(c, size)
         \/ SendComplete(c)
  PROVE  Stable(d)
BY DEF SendMessage, ReceiveMessage, RecvWake, RecvTimeout, Subscribe, Arrive,
       SendComplete, Stable, sockVars

\* A connect pass runs only on an uninitialized instance (PcConsistent),
\* and writes other instances' fields not at all.
LEMMA ConnectStable ==
  ASSUME IInv, NEW c \in Ctx, NEW d \in Ctx, ConnectAttempt(c)
  PROVE  Stable(d)
<1>0. /\ PlainTypeOK /\ ConfigOK /\ PathOK /\ PcAt(c)
  BY IInvSplit
<1>1. CASE d = c
  BY <1>0, <1>1 DEF ConnectAttempt, PcAt, Stable
<1>2. CASE d # c
  BY <1>0, <1>2 DEF ConnectAttempt, CleanupSocket, PlainTypeOK, Stable,
                    sockVars
<1>3. QED
  BY <1>1, <1>2

\* Close and a crash either change nothing of d or end its initialized
\* state.
LEMMA TeardownStable ==
  ASSUME IInv, NEW c \in Ctx, NEW d \in Ctx, Close(c) \/ Crash(c)
  PROVE  Stable(d)
<1>0. /\ PlainTypeOK /\ ConfigOK /\ PathOK
  BY IInvSplit
<1>1. CASE Close(c)
  BY <1>0, <1>1 DEF Close, Cleanup, CleanupSocket, PlainTypeOK, Stable,
                    sockVars
<1>2. CASE Crash(c)
  BY <1>0, <1>2 DEF Crash, PlainTypeOK, ConfigOK, PathOK, Stable
<1>3. QED
  BY <1>1, <1>2

\* Init on an initialized instance returns before config = cfg; on any
\* other instance it writes only that instance's fields.
LEMMA InitStable ==
  ASSUME IInv, NEW c \in Ctx, NEW d \in Ctx, NEW cfg \in CallerConfigs[c],
         InitCall(c, cfg)
  PROVE  Stable(d)
<1>0. /\ PlainTypeOK /\ ConfigOK /\ PathOK
  BY IInvSplit
<1>1. CASE d = c /\ initialized[c]
  <2>1. UNCHANGED <<config, endpoint_path, sockVars>>
    BY <1>1, Zenon DEF InitCall
  <2>2. QED
    BY <2>1 DEF Stable, sockVars
<1>2. CASE d = c /\ ~initialized[c]
  <2>1. initialized'[c] => initialized'[c] # initialized[c]
    BY <1>2
  <2>2. QED
    BY <1>2 DEF Stable
<1>3. CASE d # c
  <2>1. /\ config'[d] = config[d] /\ endpoint_path'[d] = endpoint_path[d]
        /\ socket'[d] = socket[d] /\ liveSock'[d] = liveSock[d]
    BY <1>0, <1>3 DEF InitCall, InitCreateFailed, InitPathTooLong,
                      InitServer, InitClient, OpenSocket, PlainTypeOK,
                      ConfigOK, PathOK, sockVars
  <2>2. QED
    BY <2>1 DEF Stable
<1>4. QED
  BY <1>1, <1>2, <1>3

\* Every step keeps every instance's identity while it stays initialized.
LEMMA StableStep ==
  ASSUME IInv, [Next]_vars
  PROVE  \A d \in Ctx : Stable(d)
<1> SUFFICES ASSUME NEW d \in Ctx PROVE Stable(d)
  OBVIOUS
<1>1. CASE UNCHANGED vars
  BY <1>1 DEF vars, Stable
<1>2. CASE Next
  <2>1. PICK c \in Ctx :
          \/ \E cfg \in CallerConfigs[c] : InitCall(c, cfg)
          \/ ConnectAttempt(c)
          \/ \E size \in MsgSizes : SendMessage(c, size)
          \/ ReceiveMessage(c)
          \/ RecvWake(c)
          \/ RecvTimeout(c)
          \/ Subscribe(c)
          \/ Close(c)
          \/ \E size \in MsgSizes : Arrive(c, size)
          \/ SendComplete(c)
          \/ Crash(c)
    BY <1>2 DEF Next
  <2>2. CASE \E cfg \in CallerConfigs[c] : InitCall(c, cfg)
    BY <2>2, InitStable
  <2>3. CASE ConnectAttempt(c)
    BY <2>3, ConnectStable
  <2>4. CASE Close(c) \/ Crash(c)
    BY <2>4, TeardownStable
  <2>5. QED
    BY <2>1, <2>2, <2>3, <2>4, MessagingStable
<1>3. QED
  BY <1>1, <1>2

\* A second Init never reconfigures a live instance: in every behaviour,
\* whatever Init, Send, Receive, Close and crash steps of any number of
\* instances interleave, an instance that stays initialized keeps its
\* config, its endpoint, its socket and its handles (Init's early return at
\* lines 52-54 comes before config = cfg at line 61; LiveConfigStable,
\* checked by the lifecycle run).
THEOREM LiveConfigStableHolds == Spec => LiveConfigStable
<1>1. IInv /\ [Next]_vars => [\A c \in Ctx : Stable(c)]_vars
  BY StableStep
<1>2. QED
  BY <1>1, IInvariant, PTL DEF Spec, LiveConfigStable, Stable

=============================================================================
