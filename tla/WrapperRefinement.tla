------------------------- MODULE WrapperRefinement -------------------------
(***************************************************************************)
(* Proof that Wrapper implements Lifecycle under the mapping LifeOf (the   *)
(* lifecycle state a caller sees) and liveSock (the sockets an instance    *)
(* owns), for every value of the constants.                                *)
(*                                                                         *)
(* A step of Wrapper is taken by one instance c and leaves initialized, pc *)
(* and liveSock of every other instance alone (Others).  For c itself the  *)
(* step either keeps LifeOf[c] and liveSock[c], or takes a socket on the   *)
(* way out of Uninitialized, or connects, or gives its socket back on the  *)
(* way into Uninitialized (MapsAt).  MapStep turns these local facts into  *)
(* a step of Lifecycle or a stutter; one lemma per action of Wrapper       *)
(* establishes them from the inductive invariant IInv of WrapperProofs.    *)
(***************************************************************************)
EXTENDS WrapperProofs

Others(c) ==
  \A d \in Ctx \ {c} : /\ initialized'[d] = initialized[d]
                       /\ pc'[d] = pc[d]
                       /\ liveSock'[d] = liveSock[d]

\* What one step does to the mapped state of its instance c.
MapsAt(c) ==
  \/ LifeOf'[c] = LifeOf[c] /\ liveSock'[c] = liveSock[c]
  \/ /\ LifeOf[c] = "Uninitialized" /\ LifeOf'[c] \in {"Ready", "Opening"}
     /\ \E h \in 1..MaxInits : liveSock'[c] = {h}
  \/ /\ LifeOf[c] = "Opening" /\ LifeOf'[c] = "Ready"
     /\ liveSock'[c] = liveSock[c]
  \/ /\ LifeOf[c] \in {"Opening", "Ready"} /\ LifeOf'[c] = "Uninitialized"
     /\ liveSock'[c] = {}

\* An instance that is neither initialized nor connecting owns no socket.
LEMMA NoSocketWhenUninitialized ==
  ASSUME PlainTypeOK, NEW c \in Ctx, HandlesAt(c),
         ~initialized[c], pc[c] # "connecting"
  PROVE  liveSock[c] = {} /\ socket[c] = 0
BY DEF PlainTypeOK, HandlesAt

\* A step that keeps the other instances writes the mapping at c only.
LEMMA MappingExcept ==
  ASSUME PlainTypeOK, PlainTypeOK', NEW c \in Ctx, Others(c)
  PROVE  /\ LifeOf' = [LifeOf EXCEPT ![c] = LifeOf'[c]]
         /\ liveSock' = [liveSock EXCEPT ![c] = liveSock'[c]]
BY DEF PlainTypeOK, Others, LifeOf

\* The local facts of a step are a step of Lifecycle or a stutter.
LEMMA MapStep ==
  ASSUME PlainTypeOK, PlainTypeOK', NEW c \in Ctx, Others(c), MapsAt(c)
  PROVE  [LC!Next]_LC!vars
<1>0. /\ LifeOf' = [LifeOf EXCEPT ![c] = LifeOf'[c]]
      /\ liveSock' = [liveSock EXCEPT ![c] = liveSock'[c]]
  BY MappingExcept
<1>t. LifeOf \in [Ctx -> LC!States] /\ liveSock \in [Ctx -> SUBSET (1..MaxInits)]
  BY DEF PlainTypeOK, LifeOf, LC!States
<1>1. CASE LifeOf'[c] = LifeOf[c] /\ liveSock'[c] = liveSock[c]
  <2>1. LifeOf' = LifeOf /\ liveSock' = liveSock
    BY <1>0, <1>1, <1>t
  <2>2. QED
    BY <2>1 DEF LC!vars
<1>2. CASE /\ LifeOf[c] = "Uninitialized"
           /\ LifeOf'[c] \in {"Ready", "Opening"}
           /\ \E h \in 1..MaxInits : liveSock'[c] = {h}
  <2>1. PICK h \in 1..MaxInits : liveSock'[c] = {h}
    BY <1>2
  <2>2. LC!Acquire(c, LifeOf'[c])
    BY <1>0, <1>2, <2>1 DEF LC!Acquire
  <2>3. QED
    BY <1>2, <2>2 DEF LC!Next
<1>3. CASE /\ LifeOf[c] = "Opening" /\ LifeOf'[c] = "Ready"
           /\ liveSock'[c] = liveSock[c]
  <2>1. LC!Connected(c)
    BY <1>0, <1>3, <1>t DEF LC!Connected
  <2>2. QED
    BY <2>1 DEF LC!Next
<1>4. CASE /\ LifeOf[c] \in {"Opening", "Ready"}
           /\ LifeOf'[c] = "Uninitialized"
           /\ liveSock'[c] = {}
  <2>1. LC!Release(c)
    BY <1>0, <1>4 DEF LC!Release
  <2>2. QED
    BY <2>1 DEF LC!Next
<1>5. QED
  BY <1>1, <1>2, <1>3, <1>4 DEF MapsAt

\* The constructor's state is Lifecycle's initial state.
LEMMA InitMaps == Init => LC!Init
BY DEF Init, LC!Init, LifeOf

\* A step that keeps initialized and liveSock, and moves pc only on an
\* initialized instance, keeps the mapping: an initialized instance is
\* Ready whatever its pc.
LEMMA SameLife ==
  ASSUME PlainTypeOK, NEW c \in Ctx,
         UNCHANGED <<initialized, liveSock>>,
         \A d \in Ctx \ {c} : pc'[d] = pc[d],
         initialized[c] \/ pc'[c] = pc[c]
  PROVE  Others(c) /\ MapsAt(c)
BY DEF PlainTypeOK, Others, MapsAt, LifeOf

\* Send, Receive, a woken or timed-out Receive, Subscribe, a peer's message
\* and a completed PUSH send leave the lifecycle alone.
LEMMA MessagingMaps ==
  ASSUME IInv, NEW c \in Ctx,
         \/ \E size \in MsgSizes : SendMessage(c, size)
         \/ ReceiveMessage(c)
         \/ RecvWake(c)
         \/ RecvTimeout(c)
         \/ Subscribe(c)
         \/ \E size \in MsgSizes : Arrive(c, size)
         \/ SendComplete(c)
  PROVE  Others(c) /\ MapsAt(c)
<1>0. PlainTypeOK /\ PcAt(c)
  BY IInvSplit
<1>1. CASE \E size \in MsgSizes : SendMessage(c, size)
  <2>1. UNCHANGED <<initialized, liveSock>>
    BY <1>1 DEF SendMessage
  <2>2. pc' = pc \/ (initialized[c] /\ pc' = [pc EXCEPT ![c] = "sending"])
    BY <1>1, Zenon DEF SendMessage, Ready
  <2>3. QED
    BY <1>0, <2>1, <2>2, SameLife DEF PlainTypeOK
<1>2. CASE ReceiveMessage(c)
  <2>1. UNCHANGED <<initialized, liveSock>>
    BY <1>2 DEF ReceiveMessage
  <2>2. pc' = pc \/ (initialized[c] /\ pc' = [pc EXCEPT ![c] = "receiving"])
    BY <1>2, Zenon DEF ReceiveMessage, Ready
  <2>3. QED
    BY <1>0, <2>1, <2>2, SameLife DEF PlainTypeOK
<1>3. CASE RecvWake(c) \/ RecvTimeout(c) \/ SendComplete(c)
  <2>1. UNCHANGED <<initialized, liveSock>>
    BY <1>3 DEF RecvWake, RecvTimeout, SendComplete, sockVars
  <2>2. pc[c] \in {"sending", "receiving"}
        /\ pc' = [pc EXCEPT ![c] = "idle"]
    BY <1>3 DEF RecvWake, RecvTimeout, SendComplete
  <2>3. initialized[c]
    BY <1>0, <2>2 DEF PcAt
  <2>4. QED
    BY <1>0, <2>1, <2>2, <2>3, SameLife DEF PlainTypeOK
<1>4. CASE Subscribe(c) \/ \E size \in MsgSizes : Arrive(c, size)
  <2>1. UNCHANGED <<initialized, liveSock, pc>>
    BY <1>4 DEF Subscribe, Arrive
  <2>2. QED
    BY <1>0, <2>1, SameLife
<1>5. QED
  BY <1>1, <1>2, <1>3, <1>4

\* A pass of the connect loop connects (Opening to Ready), sleeps (no
\* change), or gives up and releases the socket (Opening to Uninitialized).
LEMMA ConnectAttemptMaps ==
  ASSUME IInv, NEW c \in Ctx, ConnectAttempt(c)
  PROVE  Others(c) /\ MapsAt(c)
<1>0. PlainTypeOK /\ HandlesAt(c) /\ PcAt(c)
  BY IInvSplit
<1> USE DEF PlainTypeOK
<1>p. pc[c] = "connecting" /\ ~initialized[c]
  BY <1>0 DEF ConnectAttempt, PcAt
<1>l. LifeOf[c] = "Opening"
  BY <1>p DEF LifeOf
<1>1. CASE /\ initialized' = [initialized EXCEPT ![c] = TRUE]
           /\ pc' = [pc EXCEPT ![c] = "idle"]
           /\ UNCHANGED <<retry_count, sockVars, listener>>
  BY <1>0, <1>1, <1>l DEF sockVars, Others, MapsAt, LifeOf
<1>2. CASE UNCHANGED <<initialized, pc, sockVars, listener, result>>
  BY <1>0, <1>2 DEF sockVars, Others, MapsAt, LifeOf
<1>3. CASE /\ CleanupSocket(c)
           /\ pc' = [pc EXCEPT ![c] = "idle"]
           /\ UNCHANGED initialized
  <2>1. liveSock'[c] = {}
    BY <1>0, <1>3 DEF CleanupSocket, HandlesAt
  <2>2. QED
    BY <1>0, <1>3, <1>l, <1>p, <2>1 DEF CleanupSocket, Others, MapsAt,
                                        LifeOf
<1>4. QED
  BY <1>1, <1>2, <1>3 DEF ConnectAttempt

\* Close of an initialized instance releases its socket (Ready to
\* Uninitialized); of any other instance it changes nothing.
LEMMA CloseMaps ==
  ASSUME IInv, NEW c \in Ctx, Close(c)
  PROVE  Others(c) /\ MapsAt(c)
<1>0. PlainTypeOK /\ HandlesAt(c)
  BY IInvSplit
<1> USE DEF PlainTypeOK
<1>a. pc' = pc /\ pc[c] = "idle"
  BY DEF Close, Cleanup
<1>1. CASE ~initialized[c]
  <2>1. UNCHANGED <<initialized, liveSock>>
    BY <1>1 DEF Close, Cleanup, sockVars
  <2>2. QED
    BY <1>0, <1>a, <2>1, SameLife
<1>2. CASE initialized[c]
  <2>1. CleanupSocket(c) /\ initialized' = [initialized EXCEPT ![c] = FALSE]
    BY <1>2 DEF Close, Cleanup
  <2>2. liveSock'[c] = {}
    BY <1>0, <2>1 DEF CleanupSocket, HandlesAt
  <2>3. QED
    BY <1>0, <1>2, <1>a, <2>1, <2>2 DEF CleanupSocket, Others, MapsAt, LifeOf
<1>3. QED
  BY <1>1, <1>2

\* A crash takes the instance to Uninitialized without a socket: a Lifecycle
\* release, or no change if it held none.
LEMMA CrashMaps ==
  ASSUME IInv, NEW c \in Ctx, Crash(c)
  PROVE  Others(c) /\ MapsAt(c)
<1>0. PlainTypeOK /\ HandlesAt(c)
  BY IInvSplit
<1> USE DEF PlainTypeOK
<1>1. Others(c) /\ LifeOf'[c] = "Uninitialized" /\ liveSock'[c] = {}
  BY <1>0 DEF Crash, Others, LifeOf
<1>2. CASE ~initialized[c] /\ pc[c] # "connecting"
  BY <1>0, <1>1, <1>2, NoSocketWhenUninitialized DEF MapsAt, LifeOf
<1>3. CASE initialized[c] \/ pc[c] = "connecting"
  BY <1>1, <1>3 DEF MapsAt, LifeOf
<1>4. QED
  BY <1>2, <1>3

\* Init: a server's successful bind takes a socket into Ready, a client's
\* start of the connect loop takes one into Opening, and every other
\* return (already initialized, invalid config, failed create, path too
\* long, failed bind) leaves no trace in the mapping.
LEMMA InitCallMaps ==
  ASSUME IInv, NEW c \in Ctx, NEW cfg \in CallerConfigs[c], InitCall(c, cfg)
  PROVE  Others(c) /\ MapsAt(c)
<1>0. PlainTypeOK /\ HandlesAt(c)
  BY IInvSplit
<1> USE DEF PlainTypeOK
<1> DEFINE g  == gen[c] + 1
          ep == BuildEndpoint(cfg.endpoint)
<1>p. pc[c] = "idle"
  BY DEF InitCall
<1>1. CASE initialized[c]
  <2>1. UNCHANGED <<initialized, liveSock, pc>>
    BY <1>1, <1>p, Zenon DEF InitCall, sockVars
  <2>2. QED
    BY <1>0, <2>1, SameLife
<1>2. CASE ~initialized[c]
  <2>u. LifeOf[c] = "Uninitialized" /\ liveSock[c] = {}
    BY <1>0, <1>2, <1>p, NoSocketWhenUninitialized DEF LifeOf
  <2>0. \/ UNCHANGED <<initialized, liveSock, pc>>
        \/ /\ gen[c] < MaxInits
           /\ \/ InitPathTooLong(c, ep, g)
              \/ InitServer(c, cfg, ep, g)
              \/ InitClient(c, cfg, ep, g)
    BY <1>2, Zenon DEF InitCall, InitCreateFailed, sockVars
  <2>g. gen[c] < MaxInits => g \in 1..MaxInits
    BY <1>0, BoundsAssumption DEF g
  <2>1. CASE UNCHANGED <<initialized, liveSock, pc>>
    BY <1>0, <2>1, SameLife
  <2>2. CASE gen[c] < MaxInits /\ InitPathTooLong(c, ep, g)
    <3>1. UNCHANGED <<initialized, liveSock, pc>>
      BY <2>2 DEF InitPathTooLong, sockVars
    <3>2. QED
      BY <1>0, <3>1, SameLife
  <2>3. CASE gen[c] < MaxInits /\ InitServer(c, cfg, ep, g)
    <3>0. pc' = pc
      BY <2>3 DEF InitServer
    <3>1. CASE /\ initialized' = [initialized EXCEPT ![c] = TRUE]
               /\ OpenSocket(c, g)
      <4>1. liveSock'[c] = {g} /\ LifeOf'[c] = "Ready"
        BY <1>0, <2>u, <3>1 DEF OpenSocket, LifeOf
      <4>2. QED
        BY <2>g, <2>3, <2>u, <3>0, <3>1, <4>1 DEF OpenSocket, Others, MapsAt
    <3>2. CASE UNCHANGED <<initialized, sockVars>>
      BY <1>0, <3>0, <3>2, SameLife DEF sockVars
    <3>3. QED
      BY <2>3, <3>1, <3>2 DEF InitServer
  <2>4. CASE gen[c] < MaxInits /\ InitClient(c, cfg, ep, g)
    <3>1. /\ liveSock' = [liveSock EXCEPT ![c] = @ \cup {g}]
          /\ pc' = [pc EXCEPT ![c] = "connecting"]
          /\ UNCHANGED initialized
      BY <2>4 DEF InitClient, OpenSocket
    <3>2. liveSock'[c] = {g} /\ LifeOf'[c] = "Opening"
      BY <1>0, <1>2, <2>u, <3>1 DEF LifeOf
    <3>3. QED
      BY <2>g, <2>4, <2>u, <3>1, <3>2 DEF Others, MapsAt
  <2>5. QED
    BY <2>0, <2>1, <2>2, <2>3, <2>4
<1>3. QED
  BY <1>1, <1>2

\* Every step of Wrapper, from a state of the inductive invariant, is a
\* step of Lifecycle or leaves the mapping unchanged.
LEMMA NextMaps ==
  IInv /\ IInv' /\ [Next]_vars => [LC!Next]_LC!vars
<1> SUFFICES ASSUME IInv, IInv', [Next]_vars PROVE [LC!Next]_LC!vars
  OBVIOUS
<1>t. PlainTypeOK /\ PlainTypeOK'
  BY IInvSplit, IInvSplitPrimed
<1>1. ASSUME NEW c \in Ctx,
             \/ \E cfg \in CallerConfigs[c] : InitCall(c, cfg)
             \/ ConnectAttempt(c)
             \/ \E size \in MsgSizes : SendMessage(c, size)
             \/ ReceiveMessage(c)
             \/ RecvWake(c)
             \/ RecvTimeout(c)
             \/ Subscribe(c)
             \/ Close(c)
             \/ \E size \in MsgSizes : Arrive(c, size)
             \/ SendComplete(c)
             \/ Crash(c)
      PROVE  [LC!Next]_LC!vars
  <2>1. Others(c) /\ MapsAt(c)
    BY <1>1, InitCallMaps, ConnectAttemptMaps, MessagingMaps, CloseMaps,
       CrashMaps
  <2>2. QED
    BY <1>t, <2>1, MapStep
<1>2. CASE UNCHANGED vars
  BY <1>2 DEF vars, LC!vars, LifeOf
<1>3. QED
  BY <1>1, <1>2 DEF Next

\* ZMQWrapperImpl implements the Lifecycle of a Context: no error path of
\* Init, no pass of the connect loop, no Close and no crash takes or keeps a
\* socket outside Lifecycle's rules, so an instance owns exactly one socket
\* while Opening or Ready and none otherwise.
THEOREM WrapperRefinesLifecycle == Spec => LifecycleRefined
<1>1. Init => LC!Init
  BY InitMaps
<1>2. IInv /\ IInv' /\ [Next]_vars => [LC!Next]_LC!vars
  BY NextMaps
<1>3. QED
  BY <1>1, <1>2, IInvariant, PTL DEF Spec, LC!Spec, LifecycleRefined

=============================================================================
