------------------------------- MODULE Wrapper -------------------------------
(***************************************************************************)
(* The ZMQWrapper of src/src/prj1.cpp (class ZMQWrapperImpl) for a set of  *)
(* wrapper instances Ctx, each used by its own caller threads, sharing the *)
(* file system (the socket files of ipc:// endpoints) and the transport's  *)
(* table of bound addresses.                                               *)
(*                                                                         *)
(* Every public operation takes the instance's mutex for its whole run.    *)
(* pc[c] records the operation of c that holds the mutex across several   *)
(* steps: a client Init sleeping between connect attempts, a Receive       *)
(* blocked in zmq_msg_recv, a Send blocked in zmq_send.  Any other         *)
(* operation of c waits for pc[c] = "idle".  Operations that never block   *)
(* are one step each.                                                      *)
(*                                                                         *)
(* The transport (libzmq) is an environment: it owns socket and context    *)
(* handles (liveSock, liveCtx), the REQ/REP alternation of a socket (fsm), *)
(* its incoming queue (inbox), the subscription filter of a SUB socket and *)
(* the listener of every address.  Peers outside Ctx deliver messages      *)
(* (Arrive) and unblock a PUSH sender (SendComplete); a process may die at *)
(* any moment (Crash), leaving its socket files behind.                    *)
(***************************************************************************)
EXTENDS Integers, Sequences

CONSTANTS
  Ctx,              \* wrapper instances (ZMQWrapper objects)
  Addrs,            \* transport addresses: socket file paths or tcp ports
  DefaultAddr,      \* the path of the default endpoint ipc:///tmp/prj1.sock
  NoEndpoint,       \* the empty endpoint string (Config::endpoint == "")
  NoOwner,          \* no listener on an address
  Endpoints,        \* custom endpoints callers pass in Config::endpoint
  CallerConfigs,    \* CallerConfigs[c]: the Configs callers pass to c.Init
  Protected,        \* ipc paths in directories the process cannot write
  InitFiles,        \* socket files present when the model starts
  MAX_PATH_LENGTH,  \* 108 on POSIX (prj1.cpp line 28)
  MAX_MESSAGE_SIZE, \* 10 MiB in the code, scaled down
  MsgSizes,         \* sizes of messages callers send and peers deliver
  MaxInits,         \* bound: handles each instance may create
  MaxQueue          \* bound: messages waiting in one socket's queue

Patterns == {"REQ_REP", "PUB_SUB", "PUSH_PULL"}
Modes    == {"SERVER", "CLIENT"}
Kinds    == {"REQ", "REP", "PUB", "SUB", "PUSH", "PULL"}

EndpointRec == [ipc : BOOLEAN, addr : Addrs, len : Nat]
ConfigRec   == [pattern : Patterns, mode : Modes,
                endpoint : Endpoints \cup {NoEndpoint}, timeout_ms : Int]

ErrorCodes ==
  {"NONE", "SUCCESS", "ERROR_NOT_INITIALIZED", "ERROR_ALREADY_INITIALIZED",
   "ERROR_INVALID_CONFIG", "ERROR_SOCKET_CREATE_FAILED",
   "ERROR_SOCKET_BIND_FAILED", "ERROR_SOCKET_CONNECT_FAILED",
   "ERROR_SEND_FAILED", "ERROR_RECEIVE_FAILED", "ERROR_TIMEOUT",
   "ERROR_MESSAGE_TOO_LARGE", "ERROR_INVALID_PATTERN",
   "ERROR_PERMISSION_DENIED", "ERROR_PATH_TOO_LONG"}

PcValues == {"idle", "connecting", "sending", "receiving"}

ASSUME EndpointsAssumption == Endpoints \subseteq EndpointRec
ASSUME DefaultAddrAssumption == DefaultAddr \in Addrs
ASSUME NoEndpointAssumption == NoEndpoint \notin EndpointRec
ASSUME NoOwnerAssumption == NoOwner \notin Ctx
ASSUME CallerConfigsAssumption == CallerConfigs \in [Ctx -> SUBSET ConfigRec]
ASSUME FilesAssumption == Protected \subseteq Addrs /\ InitFiles \subseteq Addrs
ASSUME SizesAssumption ==
  /\ MAX_PATH_LENGTH \in Nat /\ MAX_MESSAGE_SIZE \in Nat
  /\ MsgSizes \subseteq Nat
ASSUME BoundsAssumption == MaxInits \in Nat \ {0} /\ MaxQueue \in Nat \ {0}

VARIABLES
  initialized,    \* ZMQWrapperImpl::initialized
  socket,         \* ZMQWrapperImpl::socket: 0 is nullptr, g the g-th handle
  zctx,           \* ZMQWrapperImpl::context, numbered like socket
  config,         \* ZMQWrapperImpl::config
  endpoint_path,  \* ZMQWrapperImpl::endpoint_path
  pc,             \* the multi-step operation holding the mutex
  retry_count,    \* the local retry_count of Init's connect loop
  gen,            \* handles created so far by the instance
  liveSock,       \* transport: socket handles of c not yet closed
  liveCtx,        \* transport: context handles of c not yet terminated
  subscribed,     \* transport: a SUB filter is set on c's socket
  fsm,            \* transport: REQ awaits a reply / REP owes a reply
  inbox,          \* transport: sizes of the messages queued for c
  files,          \* file system: socket files that exist
  listener,       \* transport: the instance listening on each address
  result          \* the ErrorCode the last operation of c returned

vars == <<initialized, socket, zctx, config, endpoint_path, pc, retry_count,
          gen, liveSock, liveCtx, subscribed, fsm, inbox, files, listener,
          result>>
sockVars == <<socket, zctx, liveSock, liveCtx, subscribed, fsm, inbox>>

-----------------------------------------------------------------------------
(* Values and helpers of the code.                                         *)

\* Config() in include/prj1.h: REQ_REP, SERVER, "", 5000 ms.
DefaultConfig ==
  [pattern |-> "REQ_REP", mode |-> "SERVER", endpoint |-> NoEndpoint,
   timeout_ms |-> 5000]

\* "ipc:///tmp/prj1.sock", 20 characters.
DefaultEndpoint == [ipc |-> TRUE, addr |-> DefaultAddr, len |-> 20]

\* const int max_retries = 3 in Init.
max_retries == 3

\* GetSocketType: the socket kind of a pattern and a mode.
GetSocketType(pattern, mode) ==
  [REQ_REP   |-> [SERVER |-> "REP",  CLIENT |-> "REQ"],
   PUB_SUB   |-> [SERVER |-> "PUB",  CLIENT |-> "SUB"],
   PUSH_PULL |-> [SERVER |-> "PUSH", CLIENT |-> "PULL"]][pattern][mode]

\* BuildEndpoint: the custom endpoint, or the platform default.
BuildEndpoint(custom_endpoint) ==
  IF custom_endpoint = NoEndpoint THEN DefaultEndpoint ELSE custom_endpoint

\* Mutant: the ZMQ_RCVTIMEO option is never set.
RcvTimeoutNeverSet(c) == FALSE

\* ZMQ_RCVTIMEO is set only when timeout_ms > 0; otherwise recv waits forever.
RcvTimeoutSet(c) == config[c].timeout_ms > 0

Kind(c) == GetSocketType(config[c].pattern, config[c].mode)

\* The guard SendMessage, ReceiveMessage and Subscribe share.
Ready(c) == initialized[c] /\ socket[c] # 0

Return(c, code) == result' = [result EXCEPT ![c] = code]

-----------------------------------------------------------------------------
(* The transport's rules for a socket (libzmq), not code of this project.  *)

\* zmq_send is accepted (else EFSM or ENOTSUP).
ZmqCanSend(c) ==
  \/ Kind(c) \in {"PUB", "PUSH"}
  \/ Kind(c) = "REQ" /\ ~fsm[c]
  \/ Kind(c) = "REP" /\ fsm[c]

\* zmq_msg_recv is accepted (else EFSM or ENOTSUP).
ZmqCanRecv(c) ==
  \/ Kind(c) \in {"SUB", "PULL"}
  \/ Kind(c) = "REQ" /\ fsm[c]
  \/ Kind(c) = "REP" /\ ~fsm[c]

\* A successful send or receive moves a REQ or REP socket on.
FsmStep(c) ==
  fsm' = [fsm EXCEPT ![c] = IF Kind(c) \in {"REQ", "REP"} THEN ~@ ELSE @]

\* A peer's message may be queued for c.
ZmqCanQueue(c) ==
  \/ Kind(c) \in {"REP", "PULL"}
  \/ Kind(c) = "REQ" /\ fsm[c] /\ inbox[c] = <<>>
  \/ Kind(c) = "SUB" /\ subscribed[c]

-----------------------------------------------------------------------------
(* State changes the code's helpers make.                                  *)

\* CleanupSocket: close the socket, terminate the context, null both.  The
\* transport drops the socket's queue, filter and listener with it.
CleanupSocket(c) ==
  /\ socket' = [socket EXCEPT ![c] = 0]
  /\ zctx' = [zctx EXCEPT ![c] = 0]
  /\ liveSock' = [liveSock EXCEPT ![c] = @ \ {socket[c]}]
  /\ liveCtx' = [liveCtx EXCEPT ![c] = @ \ {zctx[c]}]
  /\ subscribed' = [subscribed EXCEPT ![c] = FALSE]
  /\ fsm' = [fsm EXCEPT ![c] = FALSE]
  /\ inbox' = [inbox EXCEPT ![c] = <<>>]
  /\ listener' = [a \in Addrs |-> IF listener[a] = c THEN NoOwner
                                                     ELSE listener[a]]

\* Init has created context and socket number g and set their options.
OpenSocket(c, g) ==
  /\ socket' = [socket EXCEPT ![c] = g]
  /\ zctx' = [zctx EXCEPT ![c] = g]
  /\ liveSock' = [liveSock EXCEPT ![c] = @ \cup {g}]
  /\ liveCtx' = [liveCtx EXCEPT ![c] = @ \cup {g}]
  /\ UNCHANGED <<subscribed, fsm, inbox>>

\* Cleanup's unlink of a server's socket file (access, then unlink).
UnlinkSocketFile(ep) ==
  IF ep.ipc /\ ep.addr \in files /\ ep.addr \notin Protected
  THEN files \ {ep.addr} ELSE files

-----------------------------------------------------------------------------
(* Init(cfg).  After the two validations, config = cfg; the context and    *)
(* the socket are created (either may fail), the endpoint is built and its *)
(* length checked, then a server binds and a client starts connecting.     *)

\* zmq_ctx_new or zmq_socket fails; a created context is terminated.
InitCreateFailed(c) ==
  /\ Return(c, "ERROR_SOCKET_CREATE_FAILED")
  /\ UNCHANGED <<initialized, endpoint_path, pc, retry_count, gen, sockVars,
                 files, listener>>

\* Mutant: the PATH_TOO_LONG branch returns without CleanupSocket.
InitPathTooLongLeak(c, ep, g) ==
  /\ ep.len >= MAX_PATH_LENGTH
  /\ endpoint_path' = [endpoint_path EXCEPT ![c] = ep]
  /\ Return(c, "ERROR_PATH_TOO_LONG")
  /\ OpenSocket(c, g)
  /\ UNCHANGED <<initialized, pc, retry_count, files, listener>>

\* The endpoint does not fit: CleanupSocket releases handle g.
InitPathTooLong(c, ep, g) ==
  /\ ep.len >= MAX_PATH_LENGTH
  /\ endpoint_path' = [endpoint_path EXCEPT ![c] = ep]
  /\ Return(c, "ERROR_PATH_TOO_LONG")
  /\ UNCHANGED <<initialized, pc, retry_count, sockVars, files, listener>>

\* Mutant: the server binds without removing an existing socket file.
InitServerNoUnlink(c, cfg, ep, g) ==
  LET a      == ep.addr
      inUse  == IF ep.ipc THEN a \in files ELSE listener[a] # NoOwner
      denied == ep.ipc /\ a \in Protected
  IN /\ cfg.mode = "SERVER"
     /\ ep.len < MAX_PATH_LENGTH
     /\ endpoint_path' = [endpoint_path EXCEPT ![c] = ep]
     /\ UNCHANGED <<pc, retry_count>>
     /\ \/ /\ ~inUse /\ ~denied
           /\ initialized' = [initialized EXCEPT ![c] = TRUE]
           /\ OpenSocket(c, g)
           /\ listener' = [listener EXCEPT ![a] = c]
           /\ files' = IF ep.ipc THEN files \cup {a} ELSE files
           /\ Return(c, "SUCCESS")
        \/ /\ inUse \/ denied
           /\ UNCHANGED files
           /\ Return(c, IF inUse THEN "ERROR_SOCKET_BIND_FAILED"
                                 ELSE "ERROR_PERMISSION_DENIED")
           /\ UNCHANGED <<initialized, sockVars, listener>>

\* Server: remove an existing socket file, then zmq_bind once.
InitServer(c, cfg, ep, g) ==
  LET a      == ep.addr
      kept   == UnlinkSocketFile(ep)
      inUse  == IF ep.ipc THEN a \in kept ELSE listener[a] # NoOwner
      denied == ep.ipc /\ a \in Protected
  IN /\ cfg.mode = "SERVER"
     /\ ep.len < MAX_PATH_LENGTH
     /\ endpoint_path' = [endpoint_path EXCEPT ![c] = ep]
     /\ UNCHANGED <<pc, retry_count>>
     /\ \/ /\ ~inUse /\ ~denied
           /\ initialized' = [initialized EXCEPT ![c] = TRUE]
           /\ OpenSocket(c, g)
           /\ listener' = [listener EXCEPT ![a] = c]
           /\ files' = IF ep.ipc THEN kept \cup {a} ELSE kept
           /\ Return(c, "SUCCESS")
        \/ /\ inUse \/ denied
           /\ files' = kept
           /\ Return(c, IF inUse THEN "ERROR_SOCKET_BIND_FAILED"
                                 ELSE "ERROR_PERMISSION_DENIED")
           /\ UNCHANGED <<initialized, sockVars, listener>>

\* Client: the socket is open and the connect loop starts, mutex held.
InitClient(c, cfg, ep, g) ==
  /\ cfg.mode = "CLIENT"
  /\ ep.len < MAX_PATH_LENGTH
  /\ endpoint_path' = [endpoint_path EXCEPT ![c] = ep]
  /\ OpenSocket(c, g)
  /\ pc' = [pc EXCEPT ![c] = "connecting"]
  /\ retry_count' = [retry_count EXCEPT ![c] = 0]
  /\ UNCHANGED <<initialized, files, listener, result>>

\* Mutant: config = cfg is assigned before the initialized check.
InitConfigBeforeCheck(c, cfg) ==
  LET g  == gen[c] + 1
      ep == BuildEndpoint(cfg.endpoint)
  IN
  /\ pc[c] = "idle"
  /\ config' = [config EXCEPT ![c] = cfg]
  /\ \/ /\ initialized[c]
        /\ Return(c, "ERROR_ALREADY_INITIALIZED")
        /\ UNCHANGED <<initialized, endpoint_path, pc, retry_count,
                       gen, sockVars, files, listener>>
     \/ /\ ~initialized[c]
        /\ cfg.timeout_ms < 0
        /\ Return(c, "ERROR_INVALID_CONFIG")
        /\ UNCHANGED <<initialized, endpoint_path, pc, retry_count,
                       gen, sockVars, files, listener>>
     \/ /\ ~initialized[c]
        /\ cfg.timeout_ms >= 0
        /\ \/ InitCreateFailed(c)
           \/ /\ gen[c] < MaxInits
              /\ gen' = [gen EXCEPT ![c] = g]
              /\ \/ InitPathTooLong(c, ep, g)
                 \/ InitServer(c, cfg, ep, g)
                 \/ InitClient(c, cfg, ep, g)

\* ZMQWrapperImpl::Init up to the connect loop.
InitCall(c, cfg) ==
  LET g  == gen[c] + 1
      ep == BuildEndpoint(cfg.endpoint)
  IN
  /\ pc[c] = "idle"
  /\ \/ /\ initialized[c]
        /\ Return(c, "ERROR_ALREADY_INITIALIZED")
        /\ UNCHANGED <<initialized, config, endpoint_path, pc, retry_count,
                       gen, sockVars, files, listener>>
     \/ /\ ~initialized[c]
        /\ cfg.timeout_ms < 0
        /\ Return(c, "ERROR_INVALID_CONFIG")
        /\ UNCHANGED <<initialized, config, endpoint_path, pc, retry_count,
                       gen, sockVars, files, listener>>
     \/ /\ ~initialized[c]
        /\ cfg.timeout_ms >= 0
        /\ config' = [config EXCEPT ![c] = cfg]
        /\ \/ InitCreateFailed(c)
           \/ /\ gen[c] < MaxInits
              /\ gen' = [gen EXCEPT ![c] = g]
              /\ \/ InitPathTooLong(c, ep, g)
                 \/ InitServer(c, cfg, ep, g)
                 \/ InitClient(c, cfg, ep, g)

\* Mutant: the loop runs while retry_count <= max_retries (one extra try).
ConnectAttemptOneMore(c) ==
  LET r == retry_count[c] + 1 IN
  /\ pc[c] = "connecting"
  /\ \/ /\ initialized' = [initialized EXCEPT ![c] = TRUE]
        /\ pc' = [pc EXCEPT ![c] = "idle"]
        /\ Return(c, "SUCCESS")
        /\ UNCHANGED <<retry_count, sockVars, listener>>
     \/ /\ r <= max_retries
        /\ retry_count' = [retry_count EXCEPT ![c] = r]
        /\ UNCHANGED <<initialized, pc, sockVars, listener, result>>
     \/ /\ r > max_retries
        /\ retry_count' = [retry_count EXCEPT ![c] = r]
        /\ CleanupSocket(c)
        /\ pc' = [pc EXCEPT ![c] = "idle"]
        /\ Return(c, "ERROR_SOCKET_CONNECT_FAILED")
        /\ UNCHANGED initialized
  /\ UNCHANGED <<config, endpoint_path, gen, files>>

\* One pass of the connect loop: zmq_connect, and on failure either sleep
\* (the mutex stays held) or give up after max_retries attempts.
ConnectAttempt(c) ==
  LET r == retry_count[c] + 1 IN
  /\ pc[c] = "connecting"
  /\ \/ /\ initialized' = [initialized EXCEPT ![c] = TRUE]
        /\ pc' = [pc EXCEPT ![c] = "idle"]
        /\ Return(c, "SUCCESS")
        /\ UNCHANGED <<retry_count, sockVars, listener>>
     \/ /\ r < max_retries
        /\ retry_count' = [retry_count EXCEPT ![c] = r]
        /\ UNCHANGED <<initialized, pc, sockVars, listener, result>>
     \/ /\ r >= max_retries
        /\ retry_count' = [retry_count EXCEPT ![c] = r]
        /\ CleanupSocket(c)
        /\ pc' = [pc EXCEPT ![c] = "idle"]
        /\ Return(c, "ERROR_SOCKET_CONNECT_FAILED")
        /\ UNCHANGED initialized
  /\ UNCHANGED <<config, endpoint_path, gen, files>>

-----------------------------------------------------------------------------
(* SendMessage, ReceiveMessage, Subscribe, Close.                          *)

SendMessage(c, size) ==
  /\ pc[c] = "idle"
  /\ \/ /\ ~Ready(c)
        /\ Return(c, "ERROR_NOT_INITIALIZED")
        /\ UNCHANGED <<pc, fsm>>
     \/ /\ Ready(c) /\ size > MAX_MESSAGE_SIZE
        /\ Return(c, "ERROR_MESSAGE_TOO_LARGE")
        /\ UNCHANGED <<pc, fsm>>
     \/ /\ Ready(c) /\ size <= MAX_MESSAGE_SIZE /\ ~ZmqCanSend(c)
        /\ Return(c, "ERROR_SEND_FAILED")
        /\ UNCHANGED <<pc, fsm>>
     \/ /\ Ready(c) /\ size <= MAX_MESSAGE_SIZE /\ ZmqCanSend(c)
        /\ FsmStep(c)
        /\ Return(c, "SUCCESS")
        /\ UNCHANGED pc
     \/ \* a PUSH socket with no downstream peer blocks in zmq_send
        /\ Ready(c) /\ size <= MAX_MESSAGE_SIZE /\ Kind(c) = "PUSH"
        /\ pc' = [pc EXCEPT ![c] = "sending"]
        /\ UNCHANGED <<fsm, result>>
  /\ UNCHANGED <<initialized, config, endpoint_path, retry_count, gen,
                 socket, zctx, liveSock, liveCtx, subscribed, inbox, files,
                 listener>>

\* zmq_msg_recv returns the head of the queue; a message above the limit is
\* consumed and discarded.
Deliver(c) ==
  /\ inbox' = [inbox EXCEPT ![c] = Tail(@)]
  /\ FsmStep(c)
  /\ Return(c, IF Head(inbox[c]) > MAX_MESSAGE_SIZE
               THEN "ERROR_MESSAGE_TOO_LARGE" ELSE "SUCCESS")

ReceiveMessage(c) ==
  /\ pc[c] = "idle"
  /\ \/ /\ ~Ready(c)
        /\ Return(c, "ERROR_NOT_INITIALIZED")
        /\ UNCHANGED <<pc, fsm, inbox>>
     \/ /\ Ready(c) /\ ~ZmqCanRecv(c)
        /\ Return(c, "ERROR_RECEIVE_FAILED")
        /\ UNCHANGED <<pc, fsm, inbox>>
     \/ /\ Ready(c) /\ ZmqCanRecv(c) /\ inbox[c] # <<>>
        /\ Deliver(c)
        /\ UNCHANGED pc
     \/ /\ Ready(c) /\ ZmqCanRecv(c) /\ inbox[c] = <<>>
        /\ pc' = [pc EXCEPT ![c] = "receiving"]
        /\ UNCHANGED <<fsm, inbox, result>>
  /\ UNCHANGED <<initialized, config, endpoint_path, retry_count, gen,
                 socket, zctx, liveSock, liveCtx, subscribed, files, listener>>

\* A message reaches the socket a Receive is blocked on.
RecvWake(c) ==
  /\ pc[c] = "receiving"
  /\ inbox[c] # <<>>
  /\ Deliver(c)
  /\ pc' = [pc EXCEPT ![c] = "idle"]
  /\ UNCHANGED <<initialized, config, endpoint_path, retry_count, gen,
                 socket, zctx, liveSock, liveCtx, subscribed, files, listener>>

\* ZMQ_RCVTIMEO elapses: EAGAIN, reported as ERROR_TIMEOUT.
RecvTimeout(c) ==
  /\ pc[c] = "receiving"
  /\ inbox[c] = <<>>
  /\ RcvTimeoutSet(c)
  /\ pc' = [pc EXCEPT ![c] = "idle"]
  /\ Return(c, "ERROR_TIMEOUT")
  /\ UNCHANGED <<initialized, config, endpoint_path, retry_count, gen,
                 sockVars, files, listener>>

Subscribe(c) ==
  /\ pc[c] = "idle"
  /\ \/ /\ ~Ready(c)
        /\ Return(c, "ERROR_NOT_INITIALIZED")
        /\ UNCHANGED subscribed
     \/ /\ Ready(c)
        /\ config[c].pattern # "PUB_SUB" \/ config[c].mode # "CLIENT"
        /\ Return(c, "ERROR_INVALID_PATTERN")
        /\ UNCHANGED subscribed
     \/ /\ Ready(c)
        /\ config[c].pattern = "PUB_SUB" /\ config[c].mode = "CLIENT"
        /\ subscribed' = [subscribed EXCEPT ![c] = TRUE]
        /\ Return(c, "SUCCESS")
  /\ UNCHANGED <<initialized, config, endpoint_path, pc, retry_count, gen,
                 socket, zctx, liveSock, liveCtx, fsm, inbox, files, listener>>

\* Mutant: Cleanup removes the socket file whatever the mode.
CleanupAnyMode(c) ==
  /\ \/ /\ ~initialized[c]
        /\ UNCHANGED <<initialized, sockVars, files, listener>>
     \/ /\ initialized[c]
        /\ files' = UnlinkSocketFile(endpoint_path[c])
        /\ CleanupSocket(c)
        /\ initialized' = [initialized EXCEPT ![c] = FALSE]
  /\ Return(c, "SUCCESS")
  /\ UNCHANGED <<config, endpoint_path, pc, retry_count, gen>>

\* Mutant: Cleanup releases the handles but leaves initialized set, as
\* prj1::Context::Close does.
CleanupKeepsInitialized(c) ==
  /\ \/ /\ ~initialized[c]
        /\ UNCHANGED <<initialized, sockVars, files, listener>>
     \/ /\ initialized[c]
        /\ files' = IF config[c].mode = "SERVER"
                    THEN UnlinkSocketFile(endpoint_path[c]) ELSE files
        /\ CleanupSocket(c)
        /\ UNCHANGED initialized
  /\ Return(c, "SUCCESS")
  /\ UNCHANGED <<config, endpoint_path, pc, retry_count, gen>>

\* Cleanup: a no-op unless initialized; a server removes its socket file,
\* then CleanupSocket.
Cleanup(c) ==
  /\ \/ /\ ~initialized[c]
        /\ UNCHANGED <<initialized, sockVars, files, listener>>
     \/ /\ initialized[c]
        /\ files' = IF config[c].mode = "SERVER"
                    THEN UnlinkSocketFile(endpoint_path[c]) ELSE files
        /\ CleanupSocket(c)
        /\ initialized' = [initialized EXCEPT ![c] = FALSE]
  /\ Return(c, "SUCCESS")
  /\ UNCHANGED <<config, endpoint_path, pc, retry_count, gen>>

Close(c) ==
  /\ pc[c] = "idle"
  /\ Cleanup(c)

-----------------------------------------------------------------------------
(* The environment: peers, and the death of a process.                     *)

\* A peer's message is queued on c's socket.
Arrive(c, size) ==
  /\ initialized[c]
  /\ ZmqCanQueue(c)
  /\ Len(inbox[c]) < MaxQueue
  /\ inbox' = [inbox EXCEPT ![c] = Append(@, size)]
  /\ UNCHANGED <<initialized, socket, zctx, config, endpoint_path, pc,
                 retry_count, gen, liveSock, liveCtx, subscribed, fsm, files,
                 listener, result>>

\* A downstream peer connects and takes the message of a blocked PUSH send.
SendComplete(c) ==
  /\ pc[c] = "sending"
  /\ pc' = [pc EXCEPT ![c] = "idle"]
  /\ Return(c, "SUCCESS")
  /\ UNCHANGED <<initialized, config, endpoint_path, retry_count, gen,
                 sockVars, files, listener>>

\* The process of c dies; the OS frees its handles, its socket files stay.
\* A new process then starts with a fresh instance.
Crash(c) ==
  /\ initialized' = [initialized EXCEPT ![c] = FALSE]
  /\ socket' = [socket EXCEPT ![c] = 0]
  /\ zctx' = [zctx EXCEPT ![c] = 0]
  /\ config' = [config EXCEPT ![c] = DefaultConfig]
  /\ endpoint_path' = [endpoint_path EXCEPT ![c] = NoEndpoint]
  /\ pc' = [pc EXCEPT ![c] = "idle"]
  /\ retry_count' = [retry_count EXCEPT ![c] = 0]
  /\ liveSock' = [liveSock EXCEPT ![c] = {}]
  /\ liveCtx' = [liveCtx EXCEPT ![c] = {}]
  /\ subscribed' = [subscribed EXCEPT ![c] = FALSE]
  /\ fsm' = [fsm EXCEPT ![c] = FALSE]
  /\ inbox' = [inbox EXCEPT ![c] = <<>>]
  /\ listener' = [a \in Addrs |-> IF listener[a] = c THEN NoOwner
                                                     ELSE listener[a]]
  /\ Return(c, "NONE")
  /\ UNCHANGED <<gen, files>>

-----------------------------------------------------------------------------

Init ==
  /\ initialized = [c \in Ctx |-> FALSE]
  /\ socket = [c \in Ctx |-> 0]
  /\ zctx = [c \in Ctx |-> 0]
  /\ config = [c \in Ctx |-> DefaultConfig]
  /\ endpoint_path = [c \in Ctx |-> NoEndpoint]
  /\ pc = [c \in Ctx |-> "idle"]
  /\ retry_count = [c \in Ctx |-> 0]
  /\ gen = [c \in Ctx |-> 0]
  /\ liveSock = [c \in Ctx |-> {}]
  /\ liveCtx = [c \in Ctx |-> {}]
  /\ subscribed = [c \in Ctx |-> FALSE]
  /\ fsm = [c \in Ctx |-> FALSE]
  /\ inbox = [c \in Ctx |-> <<>>]
  /\ files = InitFiles
  /\ listener = [a \in Addrs |-> NoOwner]
  /\ result = [c \in Ctx |-> "NONE"]

Next ==
  \E c \in Ctx :
    \/ \E cfg \in CallerConfigs[c] : InitCall(c, cfg)
    \/ ConnectAttempt(c)
    \/ \E size \in MsgSizes : SendMessage(c, size)
    \/ ReceiveMessage(c)
    \/ RecvWake(c)
    \/ RecvTimeout(c)
    \/ Subscribe(c)
    \/ Close(c)
    \/ \E size \in MsgSizes : Arrive(c, size)
    \/ SendComplete(c)
    \/ Crash(c)

Spec == Init /\ [][Next]_vars

\* The connecting thread runs on after each sleep; the transport's timer
\* fires once ZMQ_RCVTIMEO elapses; a queued message is handed to a blocked
\* receive.  Callers and peers owe nothing.
FairSpec ==
  /\ Spec
  /\ \A c \in Ctx : /\ WF_vars(ConnectAttempt(c))
                    /\ WF_vars(RecvTimeout(c))
                    /\ WF_vars(RecvWake(c))

-----------------------------------------------------------------------------
(* Properties.                                                             *)

TypeOK ==
  /\ initialized \in [Ctx -> BOOLEAN]
  /\ socket \in [Ctx -> 0..MaxInits]
  /\ zctx \in [Ctx -> 0..MaxInits]
  /\ config \in [Ctx -> ConfigRec \cup {DefaultConfig}]
  /\ endpoint_path \in [Ctx -> EndpointRec \cup {NoEndpoint}]
  /\ pc \in [Ctx -> PcValues]
  /\ retry_count \in [Ctx -> 0..max_retries]
  /\ gen \in [Ctx -> 0..MaxInits]
  /\ liveSock \in [Ctx -> SUBSET (1..MaxInits)]
  /\ liveCtx \in [Ctx -> SUBSET (1..MaxInits)]
  /\ subscribed \in [Ctx -> BOOLEAN]
  /\ fsm \in [Ctx -> BOOLEAN]
  /\ inbox \in [Ctx -> Seq(MsgSizes)]
  /\ files \subseteq Addrs
  /\ listener \in [Addrs -> Ctx \cup {NoOwner}]
  /\ result \in [Ctx -> ErrorCodes]

\* Handle discipline of Init's error paths, Close and a crash: a pointer
\* that is not null names a live handle, every live handle is the one the
\* pointer names (nothing leaks, never two sockets at once), and the socket
\* is open exactly while the instance is initialized or Init is connecting.
HandleDiscipline ==
  \A c \in Ctx :
    /\ socket[c] # 0 => socket[c] \in liveSock[c]
    /\ zctx[c] # 0 => zctx[c] \in liveCtx[c]
    /\ liveSock[c] \subseteq {socket[c]}
    /\ liveCtx[c] \subseteq {zctx[c]}
    /\ (socket[c] # 0) = (initialized[c] \/ pc[c] = "connecting")
    /\ (zctx[c] # 0) = (socket[c] # 0)

\* The operation holding the mutex across steps agrees with the state: Init
\* is connecting only before initialized is set and while attempts remain;
\* Send and Receive block only on an initialized instance.
PcConsistent ==
  \A c \in Ctx :
    /\ pc[c] = "connecting" => ~initialized[c] /\ retry_count[c] < max_retries
    /\ pc[c] \in {"sending", "receiving"} => initialized[c]

\* The inductive invariant behind TypeOK and HandleDiscipline.
IInv == TypeOK /\ HandleDiscipline /\ PcConsistent

\* A server that Init reported ready stays reachable: its address is still
\* bound to it and, for ipc://, its socket file still exists.  Broken if
\* some other instance's Init or Close removes the file (Init lines
\* 114-122, Cleanup lines 333-341).
ServerReachable ==
  \A c \in Ctx :
    initialized[c] /\ config[c].mode = "SERVER" =>
      /\ listener[endpoint_path[c].addr] = c
      /\ endpoint_path[c].ipc => endpoint_path[c].addr \in files

\* What callers must guarantee for ServerReachable: two instances that may
\* both be servers never resolve their endpoints (BuildEndpoint, so an
\* empty endpoint counts as the default path) to the same address.
DistinctServerEndpoints ==
  \A c, d \in Ctx : c # d =>
    \A cc \in CallerConfigs[c], cd \in CallerConfigs[d] :
      cc.mode = "SERVER" /\ cd.mode = "SERVER"
        => BuildEndpoint(cc.endpoint).addr # BuildEndpoint(cd.endpoint).addr

\* A socket file left behind by a crashed server never makes a later
\* server's Init fail: an Init that has returned BIND_FAILED on an ipc://
\* endpoint did so only where the file cannot be removed (Init lines
\* 114-134).
StaleFileNeverBlocksBind ==
  \A c \in Ctx :
    pc[c] = "idle" /\ result[c] = "ERROR_SOCKET_BIND_FAILED"
    /\ endpoint_path[c].ipc
      => endpoint_path[c].addr \in Protected

\* An initialized instance is never reconfigured: as long as it stays
\* initialized, no step changes its config, its endpoint, its socket
\* pointer or the handles it holds.  A second Init returns
\* ALREADY_INITIALIZED before config = cfg (Init lines 52-61), and only
\* Cleanup and a crash end the initialized state.
LiveConfigStable ==
  [][\A c \in Ctx :
       initialized[c] /\ initialized'[c] =>
         /\ config'[c] = config[c]
         /\ endpoint_path'[c] = endpoint_path[c]
         /\ socket'[c] = socket[c]
         /\ liveSock'[c] = liveSock[c]]_vars

\* A Receive blocked in zmq_msg_recv, holding the mutex, eventually
\* returns, so Send and Close of other threads get the mutex.
ReceiveReturns == \A c \in Ctx : pc[c] = "receiving" ~> pc[c] = "idle"

\* A SendMessage blocked in zmq_send eventually returns.
SendReturns == \A c \in Ctx : pc[c] = "sending" ~> pc[c] = "idle"

\* Spec section 7: after a Timeout the Context remains usable; a REQ client
\* whose Receive timed out can send its request again.
ReqRetryAfterTimeout ==
  [][\A c \in Ctx :
       result[c] = "ERROR_TIMEOUT" /\ Kind(c) = "REQ"
         => result'[c] # "ERROR_SEND_FAILED"]_vars

\* Spec section 7: "message too large" is a recoverable transfer error and
\* the Context stays usable.  A REP server whose Receive consumed and
\* rejected an oversized request (ReceiveMessage lines 228-233) can receive
\* the next request.
RepUsableAfterTooLarge ==
  [][\A c \in Ctx :
       Kind(c) = "REP" /\ inbox'[c] # inbox[c]
       /\ result'[c] = "ERROR_MESSAGE_TOO_LARGE"
         => ZmqCanRecv(c)']_vars

-----------------------------------------------------------------------------
(* Refinement: Wrapper implements the abstract Lifecycle of a Context.     *)

\* The lifecycle state a caller sees: Ready once Init set initialized,
\* Opening while Init's connect loop holds the mutex, else Uninitialized.
LifeOf ==
  [c \in Ctx |-> IF initialized[c] THEN "Ready"
                 ELSE IF pc[c] = "connecting" THEN "Opening"
                 ELSE "Uninitialized"]

LC == INSTANCE Lifecycle WITH Handles <- 1..MaxInits, life <- LifeOf,
                              held <- liveSock

\* Every behaviour of the wrapper is one of Lifecycle: each Init, connect
\* attempt, Close and crash either leaves the caller-visible state and the
\* open sockets alone or makes one of Lifecycle's steps, so no error path of
\* Init leaves a socket open and none is opened outside Init.
LifecycleRefined == LC!Spec

=============================================================================
