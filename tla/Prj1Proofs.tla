---------------------------- MODULE Prj1Proofs ----------------------------
(***************************************************************************)
(* Proofs about Prj1Context for every value of the constants: Send and     *)
(* Receive, guarded by initialized && !closed, only ever reach a live      *)
(* socket and context (UsableMeansLive).  The invariant is inductive once  *)
(* the plain types of the variables it reads are added (P1Inv).  The leaks *)
(* and double releases TLC finds in the same code do not touch it: they    *)
(* happen only while the Context is not usable.                            *)
(***************************************************************************)
EXTENDS Prj1Context, TLAPS

USE P1BoundsAssumption

PlainTypes ==
  /\ initialized \in [Ctx -> BOOLEAN]
  /\ closed \in [Ctx -> BOOLEAN]
  /\ zmq_ctx \in [Ctx -> 0..MaxInits]
  /\ zmq_sock \in [Ctx -> 0..MaxInits]
  /\ pc \in [Ctx -> {"idle", "receiving"}]
  /\ gen \in [Ctx -> 0..MaxInits]
  /\ liveSock \in [Ctx -> SUBSET (1..MaxInits)]
  /\ liveCtx \in [Ctx -> SUBSET (1..MaxInits)]

LiveAt(d) ==
  /\ Usable(d) => zmq_sock[d] \in liveSock[d] /\ zmq_ctx[d] \in liveCtx[d]
  /\ pc[d] = "receiving" => Usable(d)

\* The inductive invariant.
P1Inv == PlainTypes /\ \A d \in Ctx : LiveAt(d)

\* Fields of an instance a step does not write.
Frame(c) ==
  \A d \in Ctx \ {c} :
    /\ initialized'[d] = initialized[d] /\ closed'[d] = closed[d]
    /\ zmq_ctx'[d] = zmq_ctx[d] /\ zmq_sock'[d] = zmq_sock[d]
    /\ pc'[d] = pc[d]
    /\ liveSock'[d] = liveSock[d] /\ liveCtx'[d] = liveCtx[d]

\* A step that keeps the other instances and re-establishes LiveAt at c
\* keeps the invariant.
LEMMA FrameStep ==
  ASSUME P1Inv, PlainTypes', NEW c \in Ctx, Frame(c), LiveAt(c)'
  PROVE  P1Inv'
BY DEF P1Inv, Frame, LiveAt, Usable

LEMMA P1InitInv == Init => P1Inv
BY DEF Init, P1Inv, PlainTypes, LiveAt, Usable

\* A step on an instance that is not initialized afterwards, with pc idle,
\* re-establishes LiveAt there whatever it does to the pointers.
LEMMA NotUsableAfter ==
  ASSUME NEW c \in Ctx, ~initialized'[c], pc'[c] = "idle"
  PROVE  LiveAt(c)'
BY DEF LiveAt, Usable

LEMMA P1InitStep ==
  ASSUME P1Inv, NEW c \in Ctx, NEW cfg \in CallerConfigs[c], Init_(c, cfg)
  PROVE  P1Inv'
<1>0. PlainTypes /\ LiveAt(c)
  BY DEF P1Inv
<1>p. pc[c] = "idle" /\ pc' = pc
  BY DEF Init_
<1> DEFINE g == gen[c] + 1
<1>1. CASE InitAlready(c)
  <2>1. UNCHANGED <<initialized, closed, gen, sockVars>>
    BY <1>1 DEF InitAlready
  <2>2. QED
    BY <1>0, <1>p, <2>1, FrameStep DEF sockVars, PlainTypes, Frame, LiveAt,
                                       Usable
<1>2. CASE ~initialized[c] /\ InitCtxFailed(c) /\ UNCHANGED gen
  <2>1. UNCHANGED <<initialized, closed, zmq_sock, liveSock, liveCtx>>
    BY <1>2 DEF InitCtxFailed
  <2>2. zmq_ctx' = [zmq_ctx EXCEPT ![c] = 0]
    BY <1>2 DEF InitCtxFailed
  <2>3. PlainTypes' /\ Frame(c)
    BY <1>0, <1>2, <1>p, <2>1, <2>2 DEF PlainTypes, Frame
  <2>4. QED
    BY <1>0, <1>p, <1>2, <2>1, <2>3, NotUsableAfter, FrameStep DEF PlainTypes
<1>3. CASE /\ ~initialized[c] /\ gen[c] < MaxInits
           /\ gen' = [gen EXCEPT ![c] = g]
           /\ \/ InitSocketFailed(c, g)
              \/ OpenSocket(c, cfg, g) /\ InitEndpointChecks(c, cfg, g)
              \/ /\ OpenSocket(c, cfg, g) /\ InitAttach(c, cfg, g)
                 /\ ZmqAttachFails(cfg.endpoint, cfg.mode)
  <2>g. g \in 1..MaxInits
    BY <1>0, <1>3 DEF PlainTypes
  <2>1. UNCHANGED <<initialized, closed>>
    BY <1>3, Zenon DEF InitSocketFailed, InitEndpointChecks, InitAttach
  <2>2. /\ zmq_ctx' = [zmq_ctx EXCEPT ![c] = g]
        /\ zmq_sock' \in {[zmq_sock EXCEPT ![c] = 0],
                          [zmq_sock EXCEPT ![c] = g]}
        /\ liveSock' \in {liveSock, [liveSock EXCEPT ![c] = @ \cup {g}]}
        /\ liveCtx' \in {liveCtx, [liveCtx EXCEPT ![c] = @ \cup {g}]}
    BY <1>3, Zenon DEF InitSocketFailed, OpenSocket, InitEndpointChecks,
                       KeepOpen, InitAttach
  <2>3. PlainTypes' /\ Frame(c)
    BY <1>0, <1>3, <1>p, <2>g, <2>1, <2>2 DEF PlainTypes, Frame
  <2>4. QED
    BY <1>0, <1>p, <1>3, <2>1, <2>3, NotUsableAfter, FrameStep DEF PlainTypes
<1>4. CASE /\ ~initialized[c] /\ gen[c] < MaxInits
           /\ gen' = [gen EXCEPT ![c] = g]
           /\ OpenSocket(c, cfg, g) /\ InitAttach(c, cfg, g)
           /\ ~ZmqAttachFails(cfg.endpoint, cfg.mode)
  <2>g. g \in 1..MaxInits
    BY <1>0, <1>4 DEF PlainTypes
  <2>1. /\ KeepOpen(c, g)
        /\ initialized' = [initialized EXCEPT ![c] = TRUE]
        /\ closed' = [closed EXCEPT ![c] = FALSE]
    BY <1>4, Zenon DEF InitAttach
  <2>2. zmq_ctx' = [zmq_ctx EXCEPT ![c] = g] /\ zmq_sock' = [zmq_sock EXCEPT ![c] = g]
    BY <1>4 DEF OpenSocket
  <2>3. PlainTypes' /\ Frame(c)
    BY <1>0, <1>4, <1>p, <2>g, <2>1, <2>2 DEF PlainTypes, Frame, KeepOpen
  <2>4. LiveAt(c)'
    BY <1>0, <2>1, <2>2 DEF PlainTypes, KeepOpen, LiveAt, Usable
  <2>5. QED
    BY <2>3, <2>4, FrameStep
<1>5. QED
  <2>1. \/ InitAlready(c)
        \/ ~initialized[c] /\ InitCtxFailed(c) /\ UNCHANGED gen
        \/ /\ ~initialized[c] /\ gen[c] < MaxInits
           /\ gen' = [gen EXCEPT ![c] = g]
           /\ \/ InitSocketFailed(c, g)
              \/ OpenSocket(c, cfg, g) /\ InitEndpointChecks(c, cfg, g)
              \/ /\ OpenSocket(c, cfg, g) /\ InitAttach(c, cfg, g)
                 /\ ZmqAttachFails(cfg.endpoint, cfg.mode)
              \/ /\ OpenSocket(c, cfg, g) /\ InitAttach(c, cfg, g)
                 /\ ~ZmqAttachFails(cfg.endpoint, cfg.mode)
    BY Zenon DEF Init_
  <2>2. QED
    BY <2>1, <1>1, <1>2, <1>3, <1>4

\* Send, a peer's message, a woken or timed-out Receive touch no pointer and
\* no handle; Receive waits only on a usable Context.
LEMMA P1MessagingStep ==
  ASSUME P1Inv, NEW c \in Ctx,
         \/ \E size \in MsgSizes : SendMessage(c, size)
         \/ ReceiveMessage(c)
         \/ RecvWake(c)
         \/ RecvTimeout(c)
         \/ \E size \in MsgSizes : Arrive(c, size)
  PROVE  P1Inv'
<1>0. PlainTypes /\ LiveAt(c)
  BY DEF P1Inv
<1>1. UNCHANGED <<initialized, closed, zmq_ctx, zmq_sock, gen, liveSock,
                  liveCtx>>
  BY DEF SendMessage, ReceiveMessage, RecvWake, RecvTimeout, Arrive, sockVars
<1>2. \/ pc' = pc
      \/ Usable(c) /\ pc' = [pc EXCEPT ![c] = "receiving"]
      \/ pc' = [pc EXCEPT ![c] = "idle"]
  BY Zenon DEF SendMessage, ReceiveMessage, RecvWake, RecvTimeout, Arrive
<1>3. PlainTypes' /\ Frame(c)
  BY <1>0, <1>1, <1>2 DEF PlainTypes, Frame
<1>4. LiveAt(c)'
  BY <1>0, <1>1, <1>2 DEF PlainTypes, LiveAt, Usable
<1>5. QED
  BY <1>3, <1>4, FrameStep

\* Close sets closed, so the Context is no longer usable, whatever it does
\* to the pointers; a second Close changes nothing.
LEMMA P1CloseStep ==
  ASSUME P1Inv, NEW c \in Ctx, Close(c)
  PROVE  P1Inv'
<1>0. PlainTypes /\ LiveAt(c)
  BY DEF P1Inv
<1>p. pc[c] = "idle" /\ pc' = pc /\ UNCHANGED <<initialized, gen>>
  BY DEF Close
<1>1. CASE closed[c]
  <2>1. UNCHANGED <<closed, zmq_ctx, zmq_sock, liveSock, liveCtx>>
    BY <1>1 DEF Close, sockVars
  <2>2. QED
    BY <1>0, <1>p, <2>1, FrameStep DEF PlainTypes, Frame, LiveAt, Usable
<1>2. CASE ~closed[c]
  <2>1. /\ zmq_sock' = [zmq_sock EXCEPT ![c] = 0]
        /\ zmq_ctx' = [zmq_ctx EXCEPT ![c] = 0]
        /\ liveSock' = [liveSock EXCEPT ![c] = @ \ {zmq_sock[c]}]
        /\ liveCtx' = [liveCtx EXCEPT ![c] = @ \ {zmq_ctx[c]}]
        /\ closed' = [closed EXCEPT ![c] = TRUE]
    BY <1>2 DEF Close
  <2>2. PlainTypes' /\ Frame(c)
    BY <1>0, <1>p, <2>1 DEF PlainTypes, Frame
  <2>3. LiveAt(c)'
    BY <1>0, <1>p, <2>1 DEF PlainTypes, LiveAt, Usable
  <2>4. QED
    BY <2>2, <2>3, FrameStep
<1>3. QED
  BY <1>1, <1>2

\* A crash leaves a fresh Context: not initialized, idle, no handle.
LEMMA P1CrashStep ==
  ASSUME P1Inv, NEW c \in Ctx, Crash(c)
  PROVE  P1Inv'
<1>0. PlainTypes
  BY DEF P1Inv
<1>1. PlainTypes' /\ Frame(c)
  BY <1>0 DEF Crash, PlainTypes, Frame
<1>2. LiveAt(c)'
  BY <1>0, NotUsableAfter DEF Crash, PlainTypes
<1>3. QED
  BY <1>1, <1>2, FrameStep

LEMMA P1NextInv == P1Inv /\ [Next]_vars => P1Inv'
<1> SUFFICES ASSUME P1Inv, [Next]_vars PROVE P1Inv'
  OBVIOUS
<1>1. ASSUME NEW c \in Ctx,
             \/ \E cfg \in CallerConfigs[c] : Init_(c, cfg)
             \/ \E size \in MsgSizes : SendMessage(c, size)
             \/ ReceiveMessage(c)
             \/ RecvWake(c)
             \/ RecvTimeout(c)
             \/ Close(c)
             \/ \E size \in MsgSizes : Arrive(c, size)
             \/ Crash(c)
      PROVE  P1Inv'
  BY <1>1, P1InitStep, P1MessagingStep, P1CloseStep, P1CrashStep
<1>2. CASE UNCHANGED vars
  BY <1>2 DEF vars, P1Inv, PlainTypes, LiveAt, Usable
<1>3. QED
  BY <1>1, <1>2 DEF Next

\* prj1::Context's SendMessage and ReceiveMessage, whose guard is
\* initialized && !closed, reach only a live socket and context in every
\* reachable state, for any number of Contexts and any bound: Close sets
\* closed before a pointer dangles, a failed Init never sets initialized,
\* and the early return of an initialized Context keeps closed.
THEOREM UsableMeansLiveHolds == Spec => []UsableMeansLive
<1>1. P1Inv => UsableMeansLive
  BY DEF P1Inv, LiveAt, UsableMeansLive
<1>2. QED
  BY <1>1, P1InitInv, P1NextInv, PTL DEF Spec

-----------------------------------------------------------------------------
(* Type correctness.  The conjuncts of TypeOK that P1Inv does not hold are *)
(* split by what writes them, so that a leaf sees only the sets it needs.  *)

RecTypes ==
  /\ config \in [Ctx -> ConfigRec \cup {DefaultConfig}]
  /\ endpoint_path \in [Ctx -> Endpoints \cup {NoEndpoint}]
  /\ files \subseteq Addrs
  /\ listener \in [Addrs -> Ctx \cup {NoOwner}]

MsgTypes ==
  /\ subscribed \in [Ctx -> BOOLEAN]
  /\ fsm \in [Ctx -> BOOLEAN]
  /\ inbox \in [Ctx -> Seq(MsgSizes)]
  /\ copied \in [Ctx -> {0} \cup MsgSizes]
  /\ doubleFree \in [Ctx -> BOOLEAN]

RetTypes ==
  /\ result \in [Ctx -> ErrorCodes]
  /\ op \in [Ctx -> Ops]

\* The invariant TypeOK follows from.
TInv == P1Inv /\ RecTypes /\ MsgTypes /\ RetTypes

LEMMA TInvTypeOK == TInv => TypeOK
BY DEF TInv, P1Inv, PlainTypes, RecTypes, MsgTypes, RetTypes, TypeOK

LEMMA TInvInit == Init => RecTypes /\ MsgTypes /\ RetTypes
BY P1FilesAssumption DEF Init, RecTypes, MsgTypes, RetTypes, ErrorCodes, Ops

\* Every return writes an ErrorCode and an operation name.
LEMMA ReturnType ==
  ASSUME RetTypes, NEW c \in Ctx, NEW name \in Ops, NEW code \in ErrorCodes,
         Return(c, name, code)
  PROVE  RetTypes'
BY DEF RetTypes, Return

LEMMA RetTypesInit ==
  ASSUME RetTypes, NEW c \in Ctx, NEW cfg \in CallerConfigs[c], Init_(c, cfg)
  PROVE  RetTypes'
<1>1. \E code \in {"OK", "INIT_FAILED", "PATH_TOO_LONG", "SOCKET_EXISTS"} :
        Return(c, "Init", code)
  BY Zenon DEF Init_, InitAlready, InitCtxFailed, InitSocketFailed,
               InitEndpointChecks, InitAttach
<1>2. QED
  BY <1>1, ReturnType DEF Ops, ErrorCodes

LEMMA MsgTypesInit ==
  ASSUME MsgTypes, NEW c \in Ctx, NEW cfg \in CallerConfigs[c], Init_(c, cfg)
  PROVE  MsgTypes'
<1>1. UNCHANGED <<inbox, copied, doubleFree>>
  BY Zenon DEF Init_, InitAlready, InitCtxFailed, InitSocketFailed, OpenSocket,
               sockVars
<1>2. \/ UNCHANGED <<subscribed, fsm>>
      \/ /\ subscribed' = [subscribed EXCEPT ![c] =
                             cfg.pattern = "PUB_SUB" /\ cfg.mode = "CLIENT"]
         /\ fsm' = [fsm EXCEPT ![c] = FALSE]
  BY Zenon DEF Init_, InitAlready, InitCtxFailed, InitSocketFailed, OpenSocket,
               sockVars
<1>3. QED
  BY <1>1, <1>2 DEF MsgTypes

\* A server's successful bind names an address: the endpoint is not empty.
LEMMA AttachAddr ==
  ASSUME NEW ep \in Endpoints \cup {NoEndpoint}, NEW m,
         ~ZmqAttachFails(ep, m)
  PROVE  ep \in Endpoints /\ ep.addr \in Addrs
BY P1EndpointsAssumption DEF ZmqAttachFails, EndpointRec

LEMMA RemoveStaleFiles ==
  ASSUME NEW cfg PROVE RemoveStale(cfg) \subseteq files
BY DEF RemoveStale

LEMMA RecTypesInit ==
  ASSUME RecTypes, NEW c \in Ctx, NEW cfg \in CallerConfigs[c], Init_(c, cfg)
  PROVE  RecTypes'
<1>0. cfg \in ConfigRec
  BY P1ConfigsAssumption
<1>1. \/ UNCHANGED config
      \/ config' = [config EXCEPT ![c] = cfg]
  BY Zenon DEF Init_, InitAlready
<1>2. \/ UNCHANGED <<endpoint_path, files, listener>>
      \/ /\ endpoint_path' = [endpoint_path EXCEPT ![c] = cfg.endpoint]
         /\ files' = RemoveStale(cfg)
         /\ UNCHANGED listener
      \/ /\ endpoint_path' = [endpoint_path EXCEPT ![c] = cfg.endpoint]
         /\ ~ZmqAttachFails(cfg.endpoint, cfg.mode)
         /\ \/ UNCHANGED <<listener, files>>
            \/ /\ listener' = [listener EXCEPT ![cfg.endpoint.addr] = c]
               /\ files' \in {RemoveStale(cfg),
                              RemoveStale(cfg) \cup {cfg.endpoint.addr}}
  BY Zenon DEF Init_, InitAlready, InitCtxFailed, InitSocketFailed,
               InitEndpointChecks, InitAttach
<1>3. cfg.endpoint \in Endpoints \cup {NoEndpoint}
  BY <1>0 DEF ConfigRec
<1>4. CASE ~ZmqAttachFails(cfg.endpoint, cfg.mode)
  <2>1. cfg.endpoint.addr \in Addrs
    BY <1>3, <1>4, AttachAddr
  <2>2. QED
    BY <1>0, <1>1, <1>2, <1>3, <2>1, RemoveStaleFiles DEF RecTypes
<1>5. CASE ZmqAttachFails(cfg.endpoint, cfg.mode)
  BY <1>0, <1>1, <1>2, <1>3, <1>5, RemoveStaleFiles DEF RecTypes
<1>6. QED
  BY <1>4, <1>5

\* A Receive that takes the head of a non-empty queue copies one of the
\* sizes peers send.
LEMMA DeliverTypes ==
  ASSUME MsgTypes, RetTypes, NEW c \in Ctx, inbox[c] # <<>>, Deliver(c),
         subscribed' = subscribed, doubleFree' = doubleFree
  PROVE  MsgTypes' /\ RetTypes'
<1>1. Head(inbox[c]) \in MsgSizes /\ Tail(inbox[c]) \in Seq(MsgSizes)
  BY DEF MsgTypes
<1>2. MsgTypes'
  BY <1>1 DEF MsgTypes, Deliver, FsmStep
<1>3. "ReceiveMessage" \in Ops /\ "OK" \in ErrorCodes
  BY DEF Ops, ErrorCodes
<1>4. RetTypes'
  BY <1>3, ReturnType DEF Deliver
<1>5. QED
  BY <1>2, <1>4

LEMMA TypesSend ==
  ASSUME RecTypes, MsgTypes, RetTypes, NEW c \in Ctx, NEW size \in MsgSizes,
         SendMessage(c, size)
  PROVE  RecTypes' /\ MsgTypes' /\ RetTypes'
<1>1. PICK code \in {"SEND_FAILED", "MALFORMED_MESSAGE", "OK"} :
        Return(c, "SendMessage", code)
  BY Zenon DEF SendMessage
<1>2. "SendMessage" \in Ops /\ code \in ErrorCodes
  BY DEF Ops, ErrorCodes
<1>3. RetTypes'
  BY <1>1, <1>2, ReturnType
<1>4. fsm' = fsm \/ FsmStep(c)
  BY Zenon DEF SendMessage
<1>5. MsgTypes'
  BY <1>4 DEF SendMessage, MsgTypes, FsmStep
<1>6. RecTypes'
  BY DEF SendMessage, RecTypes
<1>7. QED
  BY <1>3, <1>5, <1>6

LEMMA TypesReceive ==
  ASSUME RecTypes, MsgTypes, RetTypes, NEW c \in Ctx, ReceiveMessage(c)
  PROVE  RecTypes' /\ MsgTypes' /\ RetTypes'
<1>0. RecTypes' /\ subscribed' = subscribed /\ doubleFree' = doubleFree
  BY DEF ReceiveMessage, RecTypes
<1>1. CASE inbox[c] # <<>> /\ Deliver(c)
  BY <1>0, <1>1, DeliverTypes
<1>2. CASE /\ Return(c, "ReceiveMessage", "RECV_FAILED")
           /\ UNCHANGED <<fsm, inbox, copied>>
  <2>1. "ReceiveMessage" \in Ops /\ "RECV_FAILED" \in ErrorCodes
    BY DEF Ops, ErrorCodes
  <2>2. QED
    BY <1>0, <1>2, <2>1, ReturnType DEF MsgTypes
<1>3. CASE UNCHANGED <<fsm, inbox, result, op, copied>>
  BY <1>0, <1>3 DEF MsgTypes, RetTypes
<1>4. QED
  BY <1>1, <1>2, <1>3, Zenon DEF ReceiveMessage

LEMMA TypesWakeTimeoutArrive ==
  ASSUME RecTypes, MsgTypes, RetTypes, NEW c \in Ctx,
         \/ RecvWake(c)
         \/ RecvTimeout(c)
         \/ \E size \in MsgSizes : Arrive(c, size)
  PROVE  RecTypes' /\ MsgTypes' /\ RetTypes'
<1>1. CASE RecvWake(c)
  <2>1. RecTypes' /\ subscribed' = subscribed /\ doubleFree' = doubleFree
        /\ inbox[c] # <<>> /\ Deliver(c)
    BY <1>1 DEF RecvWake, RecTypes
  <2>2. QED
    BY <2>1, DeliverTypes
<1>2. CASE RecvTimeout(c)
  <2>1. "ReceiveMessage" \in Ops /\ "RECV_FAILED" \in ErrorCodes
    BY DEF Ops, ErrorCodes
  <2>2. RetTypes'
    BY <1>2, <2>1, ReturnType DEF RecvTimeout
  <2>3. RecTypes' /\ MsgTypes'
    BY <1>2 DEF RecvTimeout, sockVars, RecTypes, MsgTypes
  <2>4. QED
    BY <2>2, <2>3
<1>3. CASE \E size \in MsgSizes : Arrive(c, size)
  BY <1>3 DEF Arrive, RecTypes, MsgTypes, RetTypes
<1>4. QED
  BY <1>1, <1>2, <1>3

LEMMA TypesClose ==
  ASSUME RecTypes, MsgTypes, RetTypes, NEW c \in Ctx, Close(c)
  PROVE  RecTypes' /\ MsgTypes' /\ RetTypes'
<1>1. "Close" \in Ops /\ "OK" \in ErrorCodes
  BY DEF Ops, ErrorCodes
<1>2. RetTypes'
  BY <1>1, ReturnType DEF Close
<1>3. CASE closed[c]
  <2>1. UNCHANGED <<sockVars, files, listener, doubleFree, config,
                    endpoint_path, copied>>
    BY <1>3, Zenon DEF Close
  <2>2. QED
    BY <1>2, <2>1 DEF RecTypes, MsgTypes, sockVars
<1>4. CASE ~closed[c]
  <2>0. /\ subscribed' = [subscribed EXCEPT ![c] = FALSE]
        /\ fsm' = [fsm EXCEPT ![c] = FALSE]
        /\ inbox' = [inbox EXCEPT ![c] = <<>>]
        /\ doubleFree' = [doubleFree EXCEPT ![c] =
                            @ \/ Released(zmq_sock[c], liveSock[c])
                              \/ Released(zmq_ctx[c], liveCtx[c])]
        /\ listener' = [a \in Addrs |-> IF listener[a] = c THEN NoOwner
                                                           ELSE listener[a]]
        /\ files' \subseteq files
        /\ UNCHANGED <<config, endpoint_path, copied>>
    BY <1>4, Zenon DEF Close
  <2>1. RecTypes'
    BY <2>0 DEF RecTypes
  <2>2. /\ subscribed' \in [Ctx -> BOOLEAN] /\ fsm' \in [Ctx -> BOOLEAN]
        /\ copied' \in [Ctx -> {0} \cup MsgSizes]
    BY <2>0 DEF MsgTypes
  <2>3. inbox' \in [Ctx -> Seq(MsgSizes)]
    BY <2>0 DEF MsgTypes
  <2>4. doubleFree' \in [Ctx -> BOOLEAN]
    BY <2>0 DEF MsgTypes, Released
  <2>5. QED
    BY <1>2, <2>1, <2>2, <2>3, <2>4 DEF MsgTypes
<1>5. QED
  BY <1>2, <1>3, <1>4

LEMMA TypesCrash ==
  ASSUME RecTypes, MsgTypes, RetTypes, NEW c \in Ctx, Crash(c)
  PROVE  RecTypes' /\ MsgTypes' /\ RetTypes'
<1>1. "none" \in Ops /\ "NONE" \in ErrorCodes
  BY DEF Ops, ErrorCodes
<1>2. RetTypes'
  BY <1>1, ReturnType DEF Crash
<1>3. RecTypes'
  BY DEF Crash, RecTypes
<1>4. MsgTypes'
  BY DEF Crash, MsgTypes
<1>5. QED
  BY <1>2, <1>3, <1>4

LEMMA TInvNext == TInv /\ [Next]_vars => TInv'
<1> SUFFICES ASSUME TInv, [Next]_vars PROVE TInv'
  OBVIOUS
<1>1. P1Inv'
  BY P1NextInv DEF TInv
<1>2. ASSUME NEW c \in Ctx, NEW cfg \in CallerConfigs[c], Init_(c, cfg)
      PROVE  RecTypes' /\ MsgTypes' /\ RetTypes'
  BY <1>2, RecTypesInit, MsgTypesInit, RetTypesInit DEF TInv
<1>3. ASSUME NEW c \in Ctx,
             \/ \E size \in MsgSizes : SendMessage(c, size)
             \/ ReceiveMessage(c)
             \/ RecvWake(c)
             \/ RecvTimeout(c)
             \/ \E size \in MsgSizes : Arrive(c, size)
      PROVE  RecTypes' /\ MsgTypes' /\ RetTypes'
  BY <1>3, TypesSend, TypesReceive, TypesWakeTimeoutArrive DEF TInv
<1>4. ASSUME NEW c \in Ctx, Close(c) \/ Crash(c)
      PROVE  RecTypes' /\ MsgTypes' /\ RetTypes'
  BY <1>4, TypesClose, TypesCrash DEF TInv
<1>5. CASE UNCHANGED vars
  BY <1>1, <1>5 DEF vars, TInv, RecTypes, MsgTypes, RetTypes
<1>6. QED
  BY <1>1, <1>2, <1>3, <1>4, <1>5 DEF Next, TInv

\* Every variable of prj1::Context and of its environment keeps its type in
\* every reachable state, for any number of Contexts and any bounds: in
\* particular zmq_recv's rc is only ever used as a length after the rc < 0
\* test of ReceiveMessage (line 131), so copied is a message size.
THEOREM Prj1TypeCorrect == Spec => []TypeOK
<1>1. Init => TInv
  BY P1InitInv, TInvInit DEF TInv
<1>2. QED
  BY <1>1, TInvNext, TInvTypeOK, PTL DEF Spec

-----------------------------------------------------------------------------
(* ClosedIsTerminal: a Context that was Ready and then Closed stays Closed  *)
(* while the object lives.                                                 *)

\* The step keeps instance d Closed, or ends the object (initialized is
\* cleared only by a crash).
Terminal(d) ==
  initialized[d] /\ closed[d] => closed'[d] \/ ~initialized'[d]

\* A step that writes neither flag of d keeps it Closed.
LEMMA FlagsKept ==
  ASSUME NEW d \in Ctx, closed'[d] = closed[d],
         initialized'[d] = initialized[d]
  PROVE  Terminal(d)
BY DEF Terminal

\* Init on an initialized Context takes the early return of line 48, which
\* keeps closed; on any other instance Init writes neither flag of d.
LEMMA InitTerminal ==
  ASSUME PlainTypes, NEW c \in Ctx, NEW cfg \in CallerConfigs[c],
         Init_(c, cfg), NEW d \in Ctx
  PROVE  Terminal(d)
<1>1. CASE d = c /\ initialized[c]
  <2>1. InitAlready(c)
    BY <1>1, Zenon DEF Init_
  <2>2. closed' = closed
    BY <2>1 DEF InitAlready
  <2>3. QED
    BY <1>1, <2>2 DEF Terminal
<1>2. CASE d = c /\ ~initialized[c]
  BY <1>2 DEF Terminal
<1>3. CASE d # c
  <2>1. closed'[d] = closed[d] /\ initialized'[d] = initialized[d]
    BY <1>3 DEF Init_, InitAlready, InitCtxFailed, InitSocketFailed,
                InitEndpointChecks, InitAttach, PlainTypes
  <2>2. QED
    BY <2>1, FlagsKept
<1>4. QED
  BY <1>1, <1>2, <1>3

\* Close sets closed or leaves it set; a crash clears initialized of the
\* crashed Context and writes no flag of another.
LEMMA TeardownTerminal ==
  ASSUME PlainTypes, NEW c \in Ctx, Close(c) \/ Crash(c), NEW d \in Ctx
  PROVE  Terminal(d)
<1>1. CASE Close(c)
  BY <1>1 DEF Close, PlainTypes, Terminal
<1>2. CASE Crash(c)
  BY <1>2 DEF Crash, PlainTypes, Terminal
<1>3. QED
  BY <1>1, <1>2

\* Send, Receive and the transport write neither flag.
LEMMA MessagingTerminal ==
  ASSUME NEW c \in Ctx, NEW d \in Ctx,
         \/ \E size \in MsgSizes : SendMessage(c, size)
         \/ ReceiveMessage(c) \/ RecvWake(c) \/ RecvTimeout(c)
         \/ \E size \in MsgSizes : Arrive(c, size)
  PROVE  Terminal(d)
<1>1. closed' = closed /\ initialized' = initialized
  BY DEF SendMessage, ReceiveMessage, RecvWake, RecvTimeout, Arrive
<1>2. QED
  BY <1>1, FlagsKept

LEMMA TerminalStep ==
  ASSUME P1Inv, [Next]_vars
  PROVE  \A d \in Ctx : Terminal(d)
<1> SUFFICES ASSUME NEW d \in Ctx PROVE Terminal(d)
  OBVIOUS
<1>0. PlainTypes
  BY DEF P1Inv
<1>1. CASE UNCHANGED vars
  BY <1>1, FlagsKept DEF vars
<1>2. CASE Next
  <2>1. PICK c \in Ctx :
          \/ \E cfg \in CallerConfigs[c] : Init_(c, cfg)
          \/ \E size \in MsgSizes : SendMessage(c, size)
          \/ ReceiveMessage(c)
          \/ RecvWake(c)
          \/ RecvTimeout(c)
          \/ Close(c)
          \/ \E size \in MsgSizes : Arrive(c, size)
          \/ Crash(c)
    BY <1>2 DEF Next
  <2>2. CASE \E cfg \in CallerConfigs[c] : Init_(c, cfg)
    BY <1>0, <2>2, InitTerminal
  <2>3. CASE Close(c) \/ Crash(c)
    BY <1>0, <2>3, TeardownTerminal
  <2>4. QED
    BY <2>1, <2>2, <2>3, MessagingTerminal
<1>3. QED
  BY <1>1, <1>2

\* Spec section 4.6, Closed is terminal: in every behaviour of any number
\* of prj1 Contexts, one that was Ready and then Closed is never reopened
\* while the object lives, whatever Init, Send, Receive and Close calls
\* follow (Init's early return at line 48 keeps closed; ClosedIsTerminal,
\* checked by the prj1_lifecycle run).
THEOREM ClosedIsTerminalHolds == Spec => ClosedIsTerminal
<1>1. P1Inv /\ [Next]_vars => [\A c \in Ctx : Terminal(c)]_vars
  BY TerminalStep
<1>2. QED
  BY <1>1, P1InitInv, P1NextInv, PTL DEF Spec, ClosedIsTerminal, Terminal

=============================================================================
