--------------------------- MODULE MC_Prj1Context ---------------------------
(***************************************************************************)
(* Small instances of Prj1Context for TLC: a server Context srv and a      *)
(* client Context cli; an ipc endpoint A left behind by an earlier run, an *)
(* endpoint in a directory the process cannot write, a tcp endpoint, and   *)
(* ipc paths of 108 and 109 characters on either side of the code's check. *)
(***************************************************************************)
EXTENDS Prj1Context, TLC

CONSTANTS srv, cli, aA, aP, aT

\* Endpoint strings as the code sees them; len is the path after "ipc://".
EpA     == [ipc |-> TRUE,  addr |-> aA, len |-> 20]  \* /tmp/test_basic.sock
EpP     == [ipc |-> TRUE,  addr |-> aP, len |-> 16]  \* /root/x/srv.sock
EpT     == [ipc |-> FALSE, addr |-> aT, len |-> 20]  \* 127.0.0.1:5555
Ep108   == [ipc |-> TRUE,  addr |-> aA, len |-> 108]
Ep109   == [ipc |-> TRUE,  addr |-> aA, len |-> 109]

Cfg(p, m, e, t) ==
  [pattern |-> p, mode |-> m, endpoint |-> e, recv_timeout_ms |-> t]

MC_Addrs == {aA, aP, aT}
MC_Endpoints == {EpA, EpP, EpT, Ep108, Ep109}
MC_Ctx == {srv, cli}

\* Lifecycle: every return path of Init, then Close and a second Init.
MC_LifeConfigs ==
  [c \in MC_Ctx |->
     IF c = srv
     THEN {Cfg("REQ_REP", "SERVER", EpA, 3000),
           Cfg("REQ_REP", "SERVER", EpP, 3000),
           Cfg("REQ_REP", "SERVER", Ep109, 3000),
           Cfg("PUB_SUB", "SERVER", EpT, 3000)}
     ELSE {Cfg("REQ_REP", "CLIENT", EpA, 3000),
           Cfg("REQ_REP", "CLIENT", NoEndpoint, 3000)}]

\* Messaging: receivers of every kind, timeouts 0 and 3000.
MC_MsgConfigs ==
  [c \in MC_Ctx |->
     IF c = srv
     THEN {Cfg("PUSH_PULL", "SERVER", EpA, 0)}
     ELSE {Cfg("REQ_REP", "CLIENT", EpT, 3000),
           Cfg("PUB_SUB", "CLIENT", EpT, 0)}]

\* One server whose Init gives up on a 109-character path.
MC_OneCtx == {srv}
MC_LeakConfigs == [c \in MC_OneCtx |-> {Cfg("REQ_REP", "SERVER", Ep109, 3000),
                                        Cfg("REQ_REP", "SERVER", EpA, 3000)}]

\* One server on a protected path.  Its stale file cannot be removed, so an
\* Init that creates the socket returns SOCKET_EXISTS before any bind; the
\* double release comes from a failed zmq_socket (lines 61-66).
MC_DeniedConfigs == [c \in MC_OneCtx |-> {Cfg("REQ_REP", "SERVER", EpP, 3000)}]

\* One server on a path of exactly 108 characters.
MC_EdgeConfigs == [c \in MC_OneCtx |-> {Cfg("REQ_REP", "SERVER", Ep108, 3000)}]

\* A PULL server fed by a peer, with the default timeout or none (-1).
MC_PullConfigs == [c \in MC_OneCtx |-> {Cfg("PUSH_PULL", "SERVER", EpA, 3000)}]
MC_NoTimeoutConfigs ==
  [c \in MC_OneCtx |-> {Cfg("PUSH_PULL", "SERVER", EpA, -1)}]

=============================================================================
