----------------------------- MODULE MC_Wrapper -----------------------------
(***************************************************************************)
(* Small instances of Wrapper for TLC: a server instance srv and a client  *)
(* instance cli (a third server srv2 where two servers share an endpoint), *)
(* the default ipc endpoint, a custom ipc endpoint A left behind by an     *)
(* earlier run, an endpoint in a directory the process cannot write, a     *)
(* tcp endpoint, and an ipc endpoint of 108 characters.                    *)
(***************************************************************************)
EXTENDS Wrapper, TLC

CONSTANTS srv, srv2, cli, aDef, aA, aP, aT

\* Endpoint strings as the code would see them, with their lengths.
EpA    == [ipc |-> TRUE,  addr |-> aA, len |-> 26]  \* ipc:///tmp/test_basic.sock
EpLong == [ipc |-> TRUE,  addr |-> aA, len |-> 108] \* ipc:// and a 102-byte path
EpP    == [ipc |-> TRUE,  addr |-> aP, len |-> 22]  \* ipc:///root/x/srv.sock
EpT    == [ipc |-> FALSE, addr |-> aT, len |-> 20]  \* tcp://127.0.0.1:5555

Cfg(p, m, e, t) == [pattern |-> p, mode |-> m, endpoint |-> e, timeout_ms |-> t]

MC_Addrs == {aDef, aA, aP, aT}
MC_Endpoints == {EpA, EpLong, EpP, EpT}

\* Lifecycle: a server, and an instance that is a client of it or a server
\* on the default path; no two servers share an address.
MC_Ctx == {srv, cli}
MC_Configs ==
  [c \in MC_Ctx |->
     IF c = srv
     THEN {Cfg("REQ_REP", "SERVER", EpA, 100),
           Cfg("REQ_REP", "SERVER", EpA, -1),
           Cfg("REQ_REP", "SERVER", EpLong, 100),
           Cfg("REQ_REP", "SERVER", EpP, 100),
           Cfg("PUB_SUB", "SERVER", EpT, 100)}
     ELSE {Cfg("REQ_REP", "CLIENT", EpA, 100),
           Cfg("PUSH_PULL", "SERVER", NoEndpoint, 100)}]

\* Messaging: a PUSH server and a client of every receiving kind.
MC_MsgConfigs ==
  [c \in MC_Ctx |->
     IF c = srv
     THEN {Cfg("PUSH_PULL", "SERVER", NoEndpoint, 100)}
     ELSE {Cfg("REQ_REP", "CLIENT", EpA, 100),
           Cfg("PUB_SUB", "CLIENT", EpT, 100),
           Cfg("PUSH_PULL", "CLIENT", NoEndpoint, 100)}]

\* Two servers configured with the same ipc endpoint.
MC_SharedCtx == {srv, srv2}
MC_SharedConfigs == [c \in MC_SharedCtx |-> {Cfg("REQ_REP", "SERVER", EpA, 100)}]

\* A REQ client alone.
MC_ReqCtx == {cli}
MC_ReqConfigs == [c \in MC_ReqCtx |-> {Cfg("REQ_REP", "CLIENT", EpA, 100)}]

\* Clients whose Config leaves timeout_ms at 0.
MC_ZeroConfigs ==
  [c \in MC_ReqCtx |-> {Cfg("REQ_REP", "CLIENT", EpA, 0),
                        Cfg("PUSH_PULL", "CLIENT", EpA, 0)}]

\* A PUSH server alone.
MC_PushCtx == {srv}
MC_PushConfigs == [c \in MC_PushCtx |-> {Cfg("PUSH_PULL", "SERVER", EpA, 100)}]

\* A REP server alone.
MC_RepConfigs == [c \in MC_PushCtx |-> {Cfg("REQ_REP", "SERVER", EpA, 100)}]

=============================================================================
