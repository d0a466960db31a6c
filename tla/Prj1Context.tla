----------------------------- MODULE Prj1Context -----------------------------
(***************************************************************************)
(* prj1::Context of src/prj1/src/prj1.cpp, the second implementation of    *)
(* the wrapper, for a set of instances Ctx sharing the file system and the *)
(* transport's table of bound addresses.                                   *)
(*                                                                         *)
(* Each public operation holds Impl::mtx for its whole run.  Only          *)
(* ReceiveMessage blocks (zmq_recv waiting for a message); pc[c] records   *)
(* it, and every other operation of c waits for pc[c] = "idle".  Init      *)
(* makes a single bind or connect, so it is one step with one outcome per  *)
(* return statement.                                                       *)
(*                                                                         *)
(* Impl keeps raw pointers zmq_ctx and zmq_sock (0 for nullptr, else the   *)
(* number of the handle) next to the transport's sets of live handles.     *)
(* Closing or terminating a pointer whose handle is no longer live is a    *)
(* double release, undefined behaviour: the model records it in            *)
(* doubleFree and lets the run go on, and Crash covers the build where the *)
(* process aborts.                                                         *)
(***************************************************************************)
EXTENDS Integers, Sequences

CONSTANTS
  Ctx,            \* Context objects
  Addrs,          \* transport addresses: socket file paths or tcp ports
  NoEndpoint,     \* Config::endpoint == "" (the Config default)
  NoOwner,        \* no listener on an address
  Endpoints,      \* the endpoints callers pass in Config::endpoint
  CallerConfigs,  \* CallerConfigs[c]: the Configs callers pass to c.Init
  Protected,      \* ipc paths in directories the process cannot write
  InitFiles,      \* socket files present when the model starts
  SUN_PATH,       \* sizeof(sockaddr_un::sun_path): 108 on Linux
  MAX_MSG,        \* 1024 * 1024 in the code (send limit, receive buffer)
  MsgSizes,       \* sizes of messages callers send and peers deliver
  MaxInits,       \* bound: handles each instance may create
  MaxQueue        \* bound: messages waiting in one socket's queue

Patterns == {"REQ_REP", "PUB_SUB", "PUSH_PULL"}
Modes    == {"SERVER", "CLIENT"}

\* An endpoint is "ipc://" and a path of len characters, or a tcp address.
EndpointRec == [ipc : BOOLEAN, addr : Addrs, len : Nat]
ConfigRec   == [pattern : Patterns, mode : Modes,
                endpoint : Endpoints \cup {NoEndpoint},
                recv_timeout_ms : Int]

\* enum class ErrorCode (include/prj1.h), the values Context returns.
ErrorCodes ==
  {"NONE", "OK", "INIT_FAILED", "SEND_FAILED", "RECV_FAILED",
   "SOCKET_EXISTS", "PATH_TOO_LONG", "MALFORMED_MESSAGE"}

Ops == {"none", "Init", "SendMessage", "ReceiveMessage", "Close"}

ASSUME P1EndpointsAssumption ==
  Endpoints \subseteq EndpointRec /\ NoEndpoint \notin EndpointRec
ASSUME P1OwnerAssumption == NoOwner \notin Ctx
ASSUME P1ConfigsAssumption == CallerConfigs \in [Ctx -> SUBSET ConfigRec]
ASSUME P1FilesAssumption == Protected \subseteq Addrs /\ InitFiles \subseteq Addrs
ASSUME P1SizesAssumption ==
  SUN_PATH \in Nat /\ MAX_MSG \in Nat /\ MsgSizes \subseteq Nat
ASSUME P1BoundsAssumption == MaxInits \in Nat \ {0} /\ MaxQueue \in Nat \ {0}

VARIABLES
  initialized,    \* Impl::initialized
  closed,         \* Impl::closed
  zmq_ctx,        \* Impl::zmq_ctx: 0 is nullptr, g the g-th handle
  zmq_sock,       \* Impl::zmq_sock, numbered like zmq_ctx
  config,         \* Impl::config
  endpoint_path,  \* the endpoint Init last passed to zmq_bind/zmq_connect
  pc,             \* "receiving" while ReceiveMessage waits in zmq_recv
  gen,            \* handles created so far by the instance
  liveSock,       \* transport: socket handles of c not yet closed
  liveCtx,        \* transport: context handles of c not yet terminated
  subscribed,     \* transport: a SUB filter is set on c's socket
  fsm,            \* transport: REQ awaits a reply / REP owes a reply
  inbox,          \* transport: sizes of the messages queued for c
  files,          \* file system: socket files that exist
  listener,       \* transport: the instance listening on each address
  result,         \* the ErrorCode the last operation of c returned
  op,             \* the operation that returned it
  copied,         \* rc of the last zmq_recv: bytes out_msg.assign copied
  doubleFree      \* c has closed or terminated a handle a second time

vars == <<initialized, closed, zmq_ctx, zmq_sock, config, endpoint_path, pc,
          gen, liveSock, liveCtx, subscribed, fsm, inbox, files, listener,
          result, op, copied, doubleFree>>
sockVars == <<zmq_ctx, zmq_sock, liveSock, liveCtx, subscribed, fsm, inbox>>

-----------------------------------------------------------------------------
(* Values and helpers of the code.                                         *)

\* Impl's default Config: endpoint "", recv_timeout_ms 3000.  pattern and
\* mode are left uninitialized by Config, and nothing reads them while the
\* endpoint is empty (Close tests the endpoint first).
DefaultConfig ==
  [pattern |-> "REQ_REP", mode |-> "SERVER", endpoint |-> NoEndpoint,
   recv_timeout_ms |-> 3000]

\* The socket type of Init's switch.  PUSH_PULL maps SERVER to PULL and
\* CLIENT to PUSH, the reverse of src/src/prj1.cpp.
GetSocketType(pattern, mode) ==
  [REQ_REP   |-> [SERVER |-> "REP",  CLIENT |-> "REQ"],
   PUB_SUB   |-> [SERVER |-> "PUB",  CLIENT |-> "SUB"],
   PUSH_PULL |-> [SERVER |-> "PULL", CLIENT |-> "PUSH"]][pattern][mode]

Kind(c) == GetSocketType(config[c].pattern, config[c].mode)

IsIpc(ep) == ep # NoEndpoint /\ ep.ipc

\* Mutant: ZMQ_RCVTIMEO is not set, so zmq_recv waits for ever.
RcvTimeoNeverSet(c) == FALSE

\* ZMQ_RCVTIMEO = recv_timeout_ms is always set; -1 means wait for ever.
RcvTimeoSet(c) == config[c].recv_timeout_ms >= 0

\* The guard of SendMessage and ReceiveMessage.
Usable(c) == initialized[c] /\ ~closed[c]

Return(c, name, code) ==
  /\ result' = [result EXCEPT ![c] = code]
  /\ op' = [op EXCEPT ![c] = name]

-----------------------------------------------------------------------------
(* The transport's rules for a socket (libzmq), not code of this project.  *)

ZmqCanSend(c) ==
  \/ Kind(c) \in {"PUB", "PUSH"}
  \/ Kind(c) = "REQ" /\ ~fsm[c]
  \/ Kind(c) = "REP" /\ fsm[c]

ZmqCanRecv(c) ==
  \/ Kind(c) \in {"SUB", "PULL"}
  \/ Kind(c) = "REQ" /\ fsm[c]
  \/ Kind(c) = "REP" /\ ~fsm[c]

FsmStep(c) ==
  fsm' = [fsm EXCEPT ![c] = IF Kind(c) \in {"REQ", "REP"} THEN ~@ ELSE @]

ZmqCanQueue(c) ==
  \/ Kind(c) \in {"REP", "PULL"}
  \/ Kind(c) = "REQ" /\ fsm[c] /\ inbox[c] = <<>>
  \/ Kind(c) = "SUB" /\ subscribed[c]

\* zmq_bind or zmq_connect of ep fails: an empty or unresolvable endpoint
\* (EINVAL), a path that does not fit sun_path with its NUL (ENAMETOOLONG),
\* a bind in a directory the process cannot write (EACCES) or on a tcp
\* address already bound (EADDRINUSE).  An ipc connect succeeds whether or
\* not a server listens.
ZmqAttachFails(ep, mode) ==
  IF ep = NoEndpoint THEN TRUE
  ELSE \/ ep.ipc /\ ep.len >= SUN_PATH
       \/ mode = "SERVER" /\ ep.ipc /\ ep.addr \in Protected
       \/ mode = "SERVER" /\ ~ep.ipc /\ listener[ep.addr] # NoOwner

\* zmq_close or zmq_ctx_term of a pointer that names no live handle.
Released(p, live) == p # 0 /\ p \notin live

-----------------------------------------------------------------------------
(* Init(cfg), lines 46-108.                                                *)

\* zmq_ctx_new fails: zmq_ctx = nullptr, INIT_FAILED (lines 50-54).
InitCtxFailed(c) ==
  /\ zmq_ctx' = [zmq_ctx EXCEPT ![c] = 0]
  /\ Return(c, "Init", "INIT_FAILED")
  /\ UNCHANGED <<initialized, closed, zmq_sock, endpoint_path, gen, liveSock,
                 liveCtx, subscribed, fsm, inbox, files, listener>>

\* zmq_socket fails: zmq_sock = nullptr; the context is terminated but the
\* pointer to it is kept (lines 61-66).
InitSocketFailed(c, g) ==
  /\ zmq_ctx' = [zmq_ctx EXCEPT ![c] = g]
  /\ zmq_sock' = [zmq_sock EXCEPT ![c] = 0]
  /\ Return(c, "Init", "INIT_FAILED")
  /\ UNCHANGED <<initialized, closed, endpoint_path, liveSock, liveCtx,
                 subscribed, fsm, inbox, files, listener>>

\* Context and socket g exist, with RCVTIMEO, SNDTIMEO and, for a SUB
\* client, the empty subscription set (lines 50, 61, 67-71).
OpenSocket(c, cfg, g) ==
  /\ zmq_ctx' = [zmq_ctx EXCEPT ![c] = g]
  /\ zmq_sock' = [zmq_sock EXCEPT ![c] = g]
  /\ subscribed' = [subscribed EXCEPT ![c] =
                      cfg.pattern = "PUB_SUB" /\ cfg.mode = "CLIENT"]
  /\ fsm' = [fsm EXCEPT ![c] = FALSE]
  /\ UNCHANGED inbox

\* Handle g of context and socket stays open.
KeepOpen(c, g) ==
  /\ liveSock' = [liveSock EXCEPT ![c] = @ \cup {g}]
  /\ liveCtx' = [liveCtx EXCEPT ![c] = @ \cup {g}]

\* Lines 79-93: the path check, then a server removes an existing file.
\* Both early returns keep context and socket open.
InitEndpointChecks(c, cfg, g) ==
  LET ep == cfg.endpoint IN
  /\ IsIpc(ep)
  /\ KeepOpen(c, g)
  /\ \/ /\ ep.len > 108
        /\ Return(c, "Init", "PATH_TOO_LONG")
     \/ /\ ep.len <= 108
        /\ cfg.mode = "SERVER" /\ ep.addr \in files /\ ep.addr \in Protected
        /\ Return(c, "Init", "SOCKET_EXISTS")
  /\ UNCHANGED <<initialized, closed, endpoint_path, files, listener>>

\* The path checks pass: not ipc, or a path of at most 108 characters
\* whose existing file a server can remove.
ChecksPass(cfg) ==
  LET ep == cfg.endpoint IN
  IsIpc(ep) => /\ ep.len <= 108
               /\ cfg.mode = "SERVER" => ep.addr \notin files
                                        \/ ep.addr \notin Protected

\* access() and remove() of a server's ipc path (lines 85-91).
RemoveStale(cfg) ==
  LET ep == cfg.endpoint IN
  IF IsIpc(ep) /\ cfg.mode = "SERVER" /\ ep.addr \notin Protected
  THEN files \ {ep.addr} ELSE files

\* Lines 95-107: one bind or connect.  On failure socket and context are
\* closed and terminated but both pointers are kept.
InitAttach(c, cfg, g) ==
  LET ep   == cfg.endpoint
      kept == RemoveStale(cfg)
  IN
  /\ ChecksPass(cfg)
  /\ endpoint_path' = [endpoint_path EXCEPT ![c] = ep]
  /\ \/ /\ ZmqAttachFails(ep, cfg.mode)
        /\ files' = kept
        /\ Return(c, "Init", "INIT_FAILED")
        /\ UNCHANGED <<initialized, closed, liveSock, liveCtx, listener>>
     \/ /\ ~ZmqAttachFails(ep, cfg.mode)
        /\ KeepOpen(c, g)
        /\ initialized' = [initialized EXCEPT ![c] = TRUE]
        /\ closed' = [closed EXCEPT ![c] = FALSE]
        /\ IF cfg.mode = "SERVER"
           THEN /\ listener' = [listener EXCEPT ![ep.addr] = c]
                /\ files' = IF ep.ipc THEN kept \cup {ep.addr} ELSE kept
           ELSE UNCHANGED <<listener, files>>
        /\ Return(c, "Init", "OK")

\* Mutant: the early return for an initialized Context also reopens it.
InitAlreadyReopen(c) ==
  /\ initialized[c]
  /\ closed' = [closed EXCEPT ![c] = FALSE]
  /\ Return(c, "Init", "OK")
  /\ UNCHANGED <<initialized, config, endpoint_path, gen, sockVars, files,
                 listener>>

\* Line 48: an initialized Context returns OK at once, closed or not.
InitAlready(c) ==
  /\ initialized[c]
  /\ Return(c, "Init", "OK")
  /\ UNCHANGED <<initialized, closed, config, endpoint_path, gen, sockVars,
                 files, listener>>

\* Context::Init.
Init_(c, cfg) ==
  LET g == gen[c] + 1 IN
  /\ pc[c] = "idle"
  /\ \/ InitAlready(c)
     \/ /\ ~initialized[c]
        /\ config' = [config EXCEPT ![c] = cfg]
        /\ \/ InitCtxFailed(c) /\ UNCHANGED gen
           \/ /\ gen[c] < MaxInits
              /\ gen' = [gen EXCEPT ![c] = g]
              /\ \/ InitSocketFailed(c, g)
                 \/ /\ OpenSocket(c, cfg, g)
                    /\ \/ InitEndpointChecks(c, cfg, g)
                       \/ InitAttach(c, cfg, g)
  /\ UNCHANGED <<pc, copied, doubleFree>>

-----------------------------------------------------------------------------
(* SendMessage, ReceiveMessage, Close.                                     *)

\* Lines 110-124.  The PUSH socket is the connecting side, so zmq_send
\* queues on the pipe connect created and never waits for a peer.
SendMessage(c, size) ==
  /\ pc[c] = "idle"
  /\ \/ /\ ~Usable(c)
        /\ Return(c, "SendMessage", "SEND_FAILED")
        /\ UNCHANGED fsm
     \/ /\ Usable(c) /\ size > MAX_MSG
        /\ Return(c, "SendMessage", "MALFORMED_MESSAGE")
        /\ UNCHANGED fsm
     \/ /\ Usable(c) /\ size <= MAX_MSG /\ ~ZmqCanSend(c)
        /\ Return(c, "SendMessage", "SEND_FAILED")
        /\ UNCHANGED fsm
     \/ /\ Usable(c) /\ size <= MAX_MSG /\ ZmqCanSend(c)
        /\ FsmStep(c)
        /\ Return(c, "SendMessage", "OK")
  /\ UNCHANGED <<initialized, closed, zmq_ctx, zmq_sock, config,
                 endpoint_path, pc, gen, liveSock, liveCtx, subscribed, inbox,
                 files, listener, copied, doubleFree>>

\* zmq_recv into buf[MAX_MSG] returns the message's full length rc, even
\* when it truncated it, and out_msg.assign(buf, rc) copies rc bytes
\* (lines 129-141).
Deliver(c) ==
  /\ inbox' = [inbox EXCEPT ![c] = Tail(@)]
  /\ copied' = [copied EXCEPT ![c] = Head(inbox[c])]
  /\ FsmStep(c)
  /\ Return(c, "ReceiveMessage", "OK")

\* Lines 126-142, up to a wait in zmq_recv.
ReceiveMessage(c) ==
  /\ pc[c] = "idle"
  /\ \/ /\ ~Usable(c)
        /\ Return(c, "ReceiveMessage", "RECV_FAILED")
        /\ UNCHANGED <<pc, fsm, inbox, copied>>
     \/ /\ Usable(c) /\ ~ZmqCanRecv(c)
        /\ Return(c, "ReceiveMessage", "RECV_FAILED")
        /\ UNCHANGED <<pc, fsm, inbox, copied>>
     \/ /\ Usable(c) /\ ZmqCanRecv(c) /\ inbox[c] # <<>>
        /\ Deliver(c)
        /\ UNCHANGED pc
     \/ /\ Usable(c) /\ ZmqCanRecv(c) /\ inbox[c] = <<>>
        /\ pc' = [pc EXCEPT ![c] = "receiving"]
        /\ UNCHANGED <<fsm, inbox, result, op, copied>>
  /\ UNCHANGED <<initialized, closed, zmq_ctx, zmq_sock, config,
                 endpoint_path, gen, liveSock, liveCtx, subscribed, files,
                 listener, doubleFree>>

\* A message reaches the socket zmq_recv waits on.
RecvWake(c) ==
  /\ pc[c] = "receiving"
  /\ inbox[c] # <<>>
  /\ Deliver(c)
  /\ pc' = [pc EXCEPT ![c] = "idle"]
  /\ UNCHANGED <<initialized, closed, zmq_ctx, zmq_sock, config,
                 endpoint_path, gen, liveSock, liveCtx, subscribed, files,
                 listener, doubleFree>>

\* Mutant: the rc < 0 test is dropped and out_msg.assign(buf, rc) runs with
\* rc = -1.
RecvTimeoutNoRcCheck(c) ==
  /\ pc[c] = "receiving"
  /\ inbox[c] = <<>>
  /\ RcvTimeoSet(c)
  /\ pc' = [pc EXCEPT ![c] = "idle"]
  /\ copied' = [copied EXCEPT ![c] = -1]
  /\ Return(c, "ReceiveMessage", "OK")
  /\ UNCHANGED <<initialized, closed, config, endpoint_path, gen, sockVars,
                 files, listener, doubleFree>>

\* ZMQ_RCVTIMEO elapses: EAGAIN, returned as RECV_FAILED (lines 131-135).
RecvTimeout(c) ==
  /\ pc[c] = "receiving"
  /\ inbox[c] = <<>>
  /\ RcvTimeoSet(c)
  /\ pc' = [pc EXCEPT ![c] = "idle"]
  /\ Return(c, "ReceiveMessage", "RECV_FAILED")
  /\ UNCHANGED <<initialized, closed, config, endpoint_path, gen, sockVars,
                 files, listener, copied, doubleFree>>

\* Lines 144-164: close and null each pointer that is not null, remove the
\* socket file of an ipc server, set closed.  initialized stays as it is.
Close(c) ==
  LET ep == config[c].endpoint IN
  /\ pc[c] = "idle"
  /\ \/ /\ closed[c]
        /\ UNCHANGED <<closed, sockVars, files, listener, doubleFree>>
     \/ /\ ~closed[c]
        /\ zmq_sock' = [zmq_sock EXCEPT ![c] = 0]
        /\ zmq_ctx' = [zmq_ctx EXCEPT ![c] = 0]
        /\ liveSock' = [liveSock EXCEPT ![c] = @ \ {zmq_sock[c]}]
        /\ liveCtx' = [liveCtx EXCEPT ![c] = @ \ {zmq_ctx[c]}]
        /\ doubleFree' = [doubleFree EXCEPT ![c] =
                            @ \/ Released(zmq_sock[c], liveSock[c])
                              \/ Released(zmq_ctx[c], liveCtx[c])]
        /\ subscribed' = [subscribed EXCEPT ![c] = FALSE]
        /\ fsm' = [fsm EXCEPT ![c] = FALSE]
        /\ inbox' = [inbox EXCEPT ![c] = <<>>]
        /\ listener' = [a \in Addrs |-> IF listener[a] = c THEN NoOwner
                                                           ELSE listener[a]]
        /\ files' = IF IsIpc(ep) /\ config[c].mode = "SERVER"
                       /\ ep.addr \notin Protected
                    THEN files \ {ep.addr} ELSE files
        /\ closed' = [closed EXCEPT ![c] = TRUE]
  /\ Return(c, "Close", "OK")
  /\ UNCHANGED <<initialized, config, endpoint_path, pc, gen, copied>>

-----------------------------------------------------------------------------
(* The environment: peers, and the death of a process.                     *)

\* A peer's message is queued on c's open socket.
Arrive(c, size) ==
  /\ Usable(c)
  /\ ZmqCanQueue(c)
  /\ Len(inbox[c]) < MaxQueue
  /\ inbox' = [inbox EXCEPT ![c] = Append(@, size)]
  /\ UNCHANGED <<initialized, closed, zmq_ctx, zmq_sock, config,
                 endpoint_path, pc, gen, liveSock, liveCtx, subscribed, fsm,
                 files, listener, result, op, copied, doubleFree>>

\* The process of c dies (or aborts on a double release); the OS frees its
\* handles, its socket files stay, and a fresh Context starts.
Crash(c) ==
  /\ initialized' = [initialized EXCEPT ![c] = FALSE]
  /\ closed' = [closed EXCEPT ![c] = FALSE]
  /\ zmq_ctx' = [zmq_ctx EXCEPT ![c] = 0]
  /\ zmq_sock' = [zmq_sock EXCEPT ![c] = 0]
  /\ config' = [config EXCEPT ![c] = DefaultConfig]
  /\ endpoint_path' = [endpoint_path EXCEPT ![c] = NoEndpoint]
  /\ pc' = [pc EXCEPT ![c] = "idle"]
  /\ liveSock' = [liveSock EXCEPT ![c] = {}]
  /\ liveCtx' = [liveCtx EXCEPT ![c] = {}]
  /\ subscribed' = [subscribed EXCEPT ![c] = FALSE]
  /\ fsm' = [fsm EXCEPT ![c] = FALSE]
  /\ inbox' = [inbox EXCEPT ![c] = <<>>]
  /\ listener' = [a \in Addrs |-> IF listener[a] = c THEN NoOwner
                                                     ELSE listener[a]]
  /\ copied' = [copied EXCEPT ![c] = 0]
  /\ Return(c, "none", "NONE")
  /\ UNCHANGED <<gen, files, doubleFree>>

-----------------------------------------------------------------------------

Init ==
  /\ initialized = [c \in Ctx |-> FALSE]
  /\ closed = [c \in Ctx |-> FALSE]
  /\ zmq_ctx = [c \in Ctx |-> 0]
  /\ zmq_sock = [c \in Ctx |-> 0]
  /\ config = [c \in Ctx |-> DefaultConfig]
  /\ endpoint_path = [c \in Ctx |-> NoEndpoint]
  /\ pc = [c \in Ctx |-> "idle"]
  /\ gen = [c \in Ctx |-> 0]
  /\ liveSock = [c \in Ctx |-> {}]
  /\ liveCtx = [c \in Ctx |-> {}]
  /\ subscribed = [c \in Ctx |-> FALSE]
  /\ fsm = [c \in Ctx |-> FALSE]
  /\ inbox = [c \in Ctx |-> <<>>]
  /\ files = InitFiles
  /\ listener = [a \in Addrs |-> NoOwner]
  /\ result = [c \in Ctx |-> "NONE"]
  /\ op = [c \in Ctx |-> "none"]
  /\ copied = [c \in Ctx |-> 0]
  /\ doubleFree = [c \in Ctx |-> FALSE]

Next ==
  \E c \in Ctx :
    \/ \E cfg \in CallerConfigs[c] : Init_(c, cfg)
    \/ \E size \in MsgSizes : SendMessage(c, size)
    \/ ReceiveMessage(c)
    \/ RecvWake(c)
    \/ RecvTimeout(c)
    \/ Close(c)
    \/ \E size \in MsgSizes : Arrive(c, size)
    \/ Crash(c)

Spec == Init /\ [][Next]_vars

\* libzmq's timer fires once ZMQ_RCVTIMEO elapses and a queued message is
\* handed to a waiting zmq_recv; callers and peers owe nothing.
FairSpec ==
  /\ Spec
  /\ \A c \in Ctx : WF_vars(RecvTimeout(c)) /\ WF_vars(RecvWake(c))

-----------------------------------------------------------------------------
(* Properties.                                                             *)

TypeOK ==
  /\ initialized \in [Ctx -> BOOLEAN]
  /\ closed \in [Ctx -> BOOLEAN]
  /\ zmq_ctx \in [Ctx -> 0..MaxInits]
  /\ zmq_sock \in [Ctx -> 0..MaxInits]
  /\ config \in [Ctx -> ConfigRec \cup {DefaultConfig}]
  /\ endpoint_path \in [Ctx -> Endpoints \cup {NoEndpoint}]
  /\ pc \in [Ctx -> {"idle", "receiving"}]
  /\ gen \in [Ctx -> 0..MaxInits]
  /\ liveSock \in [Ctx -> SUBSET (1..MaxInits)]
  /\ liveCtx \in [Ctx -> SUBSET (1..MaxInits)]
  /\ subscribed \in [Ctx -> BOOLEAN]
  /\ fsm \in [Ctx -> BOOLEAN]
  /\ inbox \in [Ctx -> Seq(MsgSizes)]
  /\ files \subseteq Addrs
  /\ listener \in [Addrs -> Ctx \cup {NoOwner}]
  /\ result \in [Ctx -> ErrorCodes]
  /\ op \in [Ctx -> Ops]
  /\ copied \in [Ctx -> {0} \cup MsgSizes]
  /\ doubleFree \in [Ctx -> BOOLEAN]

\* SendMessage and ReceiveMessage, whose guard is initialized && !closed,
\* only ever reach a live socket and context, also after Close, a failed
\* re-Init and a crash; a receive waits only on such a Context.
UsableMeansLive ==
  \A c \in Ctx :
    /\ Usable(c) => zmq_sock[c] \in liveSock[c] /\ zmq_ctx[c] \in liveCtx[c]
    /\ pc[c] = "receiving" => Usable(c)

\* Spec section 3: a Context never holds two live socket handles at once
\* (broken when Init returns early without releasing and is called again).
AtMostOneSocket == \A c \in Ctx : \A h1, h2 \in liveSock[c] : h1 = h2

\* Spec section 8: Close after any Init, and the destructor's Close, never
\* release a socket or context a second time.
NoDoubleRelease == \A c \in Ctx : ~doubleFree[c]

\* Spec section 4.6: Closed is terminal for a Context instance.  A Context
\* that was Ready and then Closed stays Closed, so Send and Receive keep
\* failing at their guards (lines 112, 128), until the object itself is gone (a crash, or
\* the destructor, starts a fresh one): the early return of Init at line 48
\* leaves closed set, and only a successful bind or connect (line 105), which
\* runs on an uninitialized Context, clears it.
ClosedIsTerminal ==
  [][\A c \in Ctx :
       initialized[c] /\ closed[c] => closed'[c] \/ ~initialized'[c]]_vars

\* Spec section 3: the path handed to bind or connect fits the platform
\* limit, sun_path with its terminating NUL, checked before bind.
EndpointFits ==
  \A c \in Ctx : IsIpc(endpoint_path[c]) => endpoint_path[c].len < SUN_PATH

\* Spec section 4.4: ReceiveMessage never hands back more than the largest
\* payload; out_msg.assign(buf, rc) never reads past buf.
NoOverRead == \A c \in Ctx : copied[c] <= MAX_MSG

\* A ReceiveMessage waiting in zmq_recv, holding the mutex, returns.
ReceiveReturns == \A c \in Ctx : pc[c] = "receiving" ~> pc[c] = "idle"

=============================================================================
