# Formal models of ZMQBridge

TLA+ models of the ZeroMQ wrapper in this repository. The TLC configurations
check them on small instances, and TLAPS proves the central safety properties
for every value of the constants.

## The system

The repository holds two implementations of the same idea: a thread-safe
object that owns one ZeroMQ context and one socket, and offers request/reply,
publish/subscribe and push/pull messaging over ipc:// (Unix domain socket
files) or tcp:// endpoints.

| Part | Source | What it does |
|------|--------|--------------|
| `ZMQWrapperImpl` and the `ZMQWrapper` facade | `src/src/prj1.cpp` | Init (validate, create context and socket, build and check the endpoint, unlink a stale socket file and bind, or connect with 3 attempts), SendMessage, ReceiveMessage, Subscribe, Close/Cleanup. Every public call holds one mutex per instance. |
| Public types | `src/include/prj1.h` | `Config` (pattern, mode, endpoint, timeout_ms), `ErrorCode`, `Pattern`, `Mode`. |
| `prj1::Context` | `src/prj1/src/prj1.cpp`, `src/prj1/include/prj1.h` | An older, smaller variant of the same object. |
| `GetErrorMessage` | `src/src/prj1.cpp` 392-425 | A string table. |
| Examples, tests | `src/*/examples`, `src/src/test`, `src/prj1/tests` | Programs that drive the library. |

How the parts interact:

- Several instances, possibly in several processes, share two things: the
  file system (the socket file of an ipc:// endpoint) and the transport's
  table of bound addresses.
- Threads of one process share one instance. Its mutex serialises them, and
  a blocked operation keeps holding the mutex:
  - the client's connect loop, which sleeps between attempts;
  - `zmq_msg_recv` waiting for a message;
  - `zmq_send` waiting for a PUSH peer.

## Modules

| Module | Models |
|--------|--------|
| `Wrapper` | `ZMQWrapperImpl` for a set `Ctx` of instances. It holds the actions, the properties and the mutants of the checked runs. |
| `MC_Wrapper` | Model values and caller configurations for TLC. |
| `WrapperProofs` | TLAPS proofs about `Wrapper`. |
| `WrapperReachProofs` | The TLAPS proof of `ServerReachable` under distinct server endpoints. |
| `Lifecycle` | The abstract lifecycle of a Context (spec §2-§3, LifecycleGuard): Uninitialized, Opening, Ready, and the set of socket handles each Context owns. |
| `WrapperRefinement` | The TLAPS proof that `Wrapper` implements `Lifecycle`. |
| `Prj1Context` | `prj1::Context` (`src/prj1`) for a set `Ctx` of instances, with its properties and mutants. |
| `MC_Prj1Context` | Model values and caller configurations for it. |
| `Prj1Proofs` | TLAPS proofs about `Prj1Context`. |

### How Wrapper corresponds to the code

State:

- `initialized`, `socket`, `zctx`, `config` and `endpoint_path` are the
  fields of `ZMQWrapperImpl`.
  - A pointer is 0 for nullptr, or the number `g` of the handle.
  - `gen[c]` counts the handles instance `c` has created, up to the bound
    `MaxInits`.
- `pc[c]` is the operation of `c` that holds the mutex across several steps:
  `"connecting"`, `"receiving"` or `"sending"`. Every other operation of `c`
  waits for `"idle"`.
- `retry_count` is Init's local loop counter.
- `result[c]` is the ErrorCode the last operation returned.

The transport, libzmq, is an environment:

- `liveSock` and `liveCtx` are the handles not yet closed or terminated.
- `fsm` is the REQ/REP alternation of a socket, and `inbox` its queue.
- `subscribed` is the SUB filter.
- `listener` maps each address to the instance bound there.
- `files` is the set of socket files that exist.
- `Protected` holds the paths whose directory the process cannot write:
  `access()` succeeds there but `unlink` and bind fail with EACCES.

Actions:

| Action | Code (`src/src/prj1.cpp`) |
|--------|---------------------------|
| `InitCall` | `Init` lines 49-171, up to the connect loop. It covers every return: ALREADY_INITIALIZED, INVALID_CONFIG, a failed create (`InitCreateFailed`), PATH_TOO_LONG (`InitPathTooLong`), the server's unlink-then-bind with its three outcomes (`InitServer`), and the client's start of the loop (`InitClient`). |
| `ConnectAttempt` | One pass of the loop, lines 142-166: connect succeeds; or it fails and sleeps; or it fails the third time and `CleanupSocket` runs. |
| `SendMessage` | Lines 173-197. A PUSH socket with no peer blocks: `pc = "sending"`. |
| `ReceiveMessage` | Lines 199-242. It delivers the head of the queue, or blocks with `pc = "receiving"`. |
| `RecvWake`, `RecvTimeout` | The end of a blocked receive: a message arrives, or `ZMQ_RCVTIMEO` elapses (only when `timeout_ms > 0`, lines 94-96). |
| `Subscribe` | Lines 245-265. |
| `Close` | `Close`/`Cleanup`/`CleanupSocket`, lines 267-349: a server unlinks its socket file, then both handles are released. |
| `Arrive` | A peer queues a message; the socket's rules decide whether it may. |
| `SendComplete` | A PUSH peer takes a blocked message. |
| `Crash` | The process of `c` dies. The OS releases its handles, its socket files stay, and a fresh instance starts. |

Left out:

- Log output.
- The unreachable `endpoint_path.empty()` and invalid-socket-type branches:
  `BuildEndpoint` never returns an empty string, and the enums are closed.
- The `_WIN32` branches.

A conversion is modelled by what it does:

- An endpoint is a record `[ipc, addr, len]`. `len` is the string length
  that the `>= MAX_PATH_LENGTH` test (line 106) reads.
- `BuildEndpoint` returns the default `ipc:///tmp/prj1.sock` (20 characters)
  when `endpoint` is empty.

### Lifecycle and the refinement

`Lifecycle` is what a caller may rely on, written from the spec, not the
code. A Context is Uninitialized and owns no socket. It acquires exactly one
socket on its way into Opening (a client still trying to connect) or Ready
(bound or connected). Opening becomes Ready, and Release takes Opening or
Ready back to Uninitialized and gives the socket back. Uninitialized also
stands for the spec's Closed: both implementations let Init run again.

`Wrapper` defines `LifeOf`, the refinement mapping: Ready when
`initialized`, Opening while `pc = "connecting"`, else Uninitialized. The
mapping sends `held` to `liveSock`. `LifecycleRefined == LC!Spec` is checked
by the `lifecycle` run and proved by `WrapperRefinesLifecycle`.

### How Prj1Context corresponds to the code

`prj1::Context` (`src/prj1/src/prj1.cpp`) is shorter than `ZMQWrapperImpl`:

- it has no validation and no connect retries;
- its pointers are not reset on every error path;
- it has a `closed` flag beside `initialized`.

The state follows `Context::Impl`: `initialized`, `closed`, `zmq_ctx`,
`zmq_sock`, `config` and `endpoint_path`. The environment is as in
`Wrapper`. Three history variables record what a property must see:

- `doubleFree[c]` is set when `zmq_close` or `zmq_ctx_term` is called on a
  pointer that names no live handle. This is undefined behaviour; the model
  records it and goes on. `Crash` stands for the build where it aborts.
- `copied[c]` is the `rc` that `zmq_recv` returned, which line 139 uses as
  the length to copy.
- `op[c]` is the operation that returned `result[c]`.

| Action | Code (`src/prj1/src/prj1.cpp`) |
|--------|--------------------------------|
| `Init_` | `Init`, lines 46-108, whole. The early return when already initialized (`InitAlready`, line 48). Context creation failing (`InitCtxFailed`). Socket creation failing, after which the context is terminated but its pointer kept (`InitSocketFailed`). The ipc checks: the `> 108` length test and the stale-file removal, whose failures return with the socket still open (`InitEndpointChecks`). Bind or connect, whose failure releases both handles and keeps both pointers (`InitAttach`). |
| `SendMessage` | Lines 110-124. It never blocks: libzmq's default SNDTIMEO is set from `send_timeout_ms`. |
| `ReceiveMessage` | Lines 126-130, up to the wait in `zmq_recv`. |
| `RecvWake`, `RecvTimeout` | A message reaches the waiting receive (lines 130, 139-141). Or `ZMQ_RCVTIMEO` elapses, which is only possible with a non-negative `recv_timeout_ms` (line 67), and RECV_FAILED is returned (lines 131-137). |
| `Close` | Lines 144-164. A second Close returns at once. The socket and context are released when their pointers are non-null. An ipc server's file is removed. `closed` is set, and `initialized` is left as it is. |
| `Arrive`, `Crash` | A peer's message, and the death of the process, as in `Wrapper`. |

## Runs

| Run | Expect | Checks | Shows |
|-----|--------|--------|-------|
| `lifecycle` | pass | TypeOK, HandleDiscipline, ServerReachable, StaleFileNeverBlocksBind, LiveConfigStable, LifecycleRefined | A server instance and a second instance (its client, or a server on the default path) run Init, Close and crashes in every order (242,592 distinct states, about 40 s). The server's configs cover an ipc endpoint whose socket file already exists, a too-long path, a protected path, a negative timeout and a tcp PUB endpoint. No two potential servers share an address (`DistinctServerEndpoints`). |
| `messaging` | pass | ReceiveReturns | A PUSH server and a REQ, SUB or PULL client exchange messages with peers (58,296 distinct states). Under weak fairness of the timer, a blocked Receive always returns when `timeout_ms > 0`. |
| `shared_endpoint` | violation | ServerReachable | Two servers on one ipc endpoint: the second Init unlinks the live file of the first and takes over the address. |
| `req_retry` | violation | ReqRetryAfterTimeout | After a receive timeout a REQ client's next Send fails with EFSM. |
| `zero_timeout` | violation | ReceiveReturns | `timeout_ms = 0` passes validation but sets no RCVTIMEO, so Receive blocks for ever holding the mutex. |
| `push_block` | violation | SendReturns | No SNDTIMEO is set, so a PUSH send with no peer blocks for ever. |
| `rep_too_large` | violation | RepUsableAfterTooLarge | A REP server that rejects an oversized request owes a reply, and its next Receive fails with EFSM. |
| `prj1_lifecycle` | pass | TypeOK, UsableMeansLive, ClosedIsTerminal | Two prj1 Contexts go through every Init return path, Send, Receive, Close and crashes (1,037,952 distinct states, about 80 s). A usable Context always names live handles. A Context that was Ready and then Closed is never reopened (spec §4.6). |
| `prj1_messaging` | pass | ReceiveReturns | A PULL server and a REQ or SUB client with non-negative timeouts (338,360 distinct states). Every waiting Receive returns. |
| `prj1_leak` | violation | AtMostOneSocket | PATH_TOO_LONG or SOCKET_EXISTS leaves a socket open, and the next Init opens a second one. |
| `prj1_double_close` | violation | NoDoubleRelease | The socket cannot be created, Init terminates the context, and Close terminates it again. |

Each property of a passing run has a mutant, an operator next to the
definition it replaces, and TLC finds the property violated with it:

| Mutant | Replaces | Breaks |
|--------|----------|--------|
| `ConnectAttemptOneMore` | `ConnectAttempt` | TypeOK (a fourth attempt) |
| `InitPathTooLongLeak` | `InitPathTooLong` | HandleDiscipline (no `CleanupSocket`) |
| `CleanupAnyMode` | `Cleanup` | ServerReachable (a client unlinks the server's file) |
| `InitServerNoUnlink` | `InitServer` | StaleFileNeverBlocksBind (no unlink before bind) |
| `RcvTimeoutNeverSet` | `RcvTimeoutSet` | ReceiveReturns |
| `InitConfigBeforeCheck` | `InitCall` | LiveConfigStable (`config = cfg` before the initialized check) |
| `CleanupKeepsInitialized` | `Cleanup` | LifecycleRefined (Close releases the socket, but the Context still looks Ready) |
| `RecvTimeoutNoRcCheck` (Prj1Context) | `RecvTimeout` | TypeOK (`rc = -1` taken as a length and OK returned) |
| `InitAlreadyReopen` (Prj1Context) | `InitAlready` | UsableMeansLive and ClosedIsTerminal (the early return also clears `closed`, reopening a Context whose handles Close released) |
| `RcvTimeoNeverSet` (Prj1Context) | `RcvTimeoSet` | ReceiveReturns |

Bounds, and why they are enough:

- `MaxInits = 2` handles per instance, which allows a crash and a restart, or
  a failed Init followed by a good one.
- `MaxQueue = 1` queued message.
- Messages of size 1 and 2, with `MAX_MESSAGE_SIZE = 1`, so both the
  accepted and the rejected size occur.
- `MAX_PATH_LENGTH = 108`, as in the code, with endpoints of 20, 22, 26 and
  108 characters, so the `>=` boundary case is reached.
- Every return path of every operation is reached: the passing runs fire
  every action and every disjunct.
- The hazards need at most two instances and two generations of handles.

Fairness: the spec has weak fairness on `ConnectAttempt`, `RecvTimeout` and
`RecvWake` only. The code justifies each:

- the connecting thread continues after `usleep`;
- libzmq's timer fires once `ZMQ_RCVTIMEO` elapses;
- a queued message is handed to a blocked `zmq_msg_recv`.

Callers and peers owe nothing. That is why the PUSH send, which needs a peer
to connect, can block for ever. `Prj1Context`'s `FairSpec` has weak fairness
on `RecvTimeout` and `RecvWake`, for the same reasons.

The prj1 runs use the same bounds, with `SUN_PATH = 108`, `MAX_MSG = 1` and
messages of size 1 and 2. The endpoints have paths of 20, 16, 108 and 109
characters, plus a tcp address, so both sides of the length test occur.

## Proofs (WrapperProofs)

The theorems hold for every set of instances, addresses and endpoints, and
every bound, under the `ASSUME`s of `Wrapper`:

- endpoints are well-formed records;
- the caller configurations are `Config` values;
- `MaxInits` and `MaxQueue` are positive naturals.

| Theorem | Statement |
|---------|-----------|
| `IInvariant` | `Spec => []IInv` |
| `TypeCorrect` | `Spec => []TypeOK` |
| `HandleDisciplineHolds` | `Spec => []HandleDiscipline` |
| `StaleFileNeverBlocksBindHolds` | `Spec => []StaleFileNeverBlocksBind` |
| `LiveConfigStableHolds` | `Spec => LiveConfigStable` (an action property) |

`IInv` is `TypeOK /\ HandleDiscipline /\ PcConsistent`. `PcConsistent` says
two things:

- a connecting Init has not yet set `initialized` and has attempts left;
- a blocked Send or Receive runs on an initialized instance.

TypeOK and HandleDiscipline are not inductive without `PcConsistent`:

- TypeOK's bound on `retry_count` needs the attempts-left fact;
- HandleDiscipline's equation "socket open iff initialized or connecting"
  needs to know that the give-up step leaves `"connecting"` on an
  uninitialized instance.

The proof of `IInv /\ [Next]_vars => IInv'` has one lemma per action. In each
lemma, one step per conjunct proves the type of what the action writes. A
second step proves, per instance `d`, the handle and pc facts. The
`InitCall` lemma follows the code's return paths.

`StaleFileNeverBlocksBind` is inductive relative to `IInv`. The argument:

- Only `InitServer` sets `BIND_FAILED`.
- It does so on an ipc endpoint only when the file survived the unlink.
  `UnlinkKeepsOnlyProtected` shows the file survives only at a protected
  path.
- Every other step does one of three things: returns another code
  (`StaleOtherCode`); leaves the mutex held with the result unchanged
  (`StaleBusy`); or changes nothing the property reads.

`LiveConfigStable` is an action property: in a step where an instance
stays initialized, its config, endpoint, socket pointer and live handles do
not change. It follows from `IInv` step by step (`StableStep`):

- Init on an initialized instance takes the early return before
  `config = cfg` (`InitStable`);
- a connect pass runs only while the instance is not initialized, which is
  `PcConsistent` (`ConnectStable`);
- Close and a crash either change nothing of the instance or end its
  initialized state (`TeardownStable`);
- messaging writes none of the four fields (`MessagingStable`).

### ServerReachable (WrapperReachProofs)

`ServerReachable` is false in general: the `shared_endpoint` run shows a
second server on the same path unlinking the first one's file. It is proved
under the hypothesis the callers must meet:

```
THEOREM ServerReachableHolds ==
  ASSUME DistinctServerEndpoints PROVE Spec => []ServerReachable
```

`DistinctServerEndpoints` says that two instances that may both be servers
never resolve their endpoints (through `BuildEndpoint`, so an empty
endpoint is the default path) to the same address. The lifecycle run's
configurations satisfy it, with two potential servers. The inductive
invariant is `RInv == IInv /\ \A d : Configured(d) /\ Reach(d)`:

- `Reach(d)` is `ServerReachable` for instance `d`;
- `Configured(d)` says that an initialized or connecting instance has a
  config that its caller may pass, its `endpoint_path` is that config's
  built endpoint, and a connecting instance is a client.

`Configured` is what turns the hypothesis, a fact about caller configs,
into a fact about the state: another server's Init, or its Close, unlinks
and binds only its own address, and `OtherAddr` shows that this address is
not the endpoint of a live server `d`. A client never binds or unlinks.
Close and a crash of `d` itself end `d`'s initialized state. Crashes keep
files and drop only the crashed instance's bindings.

### The refinement (WrapperRefinement)

`WrapperRefinesLifecycle == Spec => LifecycleRefined` is proved the usual
way:

- `InitMaps`: `Init` implies `LC!Init`.
- `NextMaps`: `IInv /\ IInv' /\ [Next]_vars => [LC!Next]_LC!vars`.
- PTL combines them with `IInvariant`.

`IInv` is needed because the step simulation reads HandleDiscipline. The
invariant says what `liveSock[c]` is in each lifecycle state: empty when
Uninitialized, a singleton otherwise. One lemma per action shows that the
action keeps `LifeOf` and `liveSock` (the messaging actions, `SameLife`), or
makes exactly one of Acquire, Connected and Release:

- `InitCallMaps`, `ConnectAttemptMaps`, `CloseMaps`, `CrashMaps`;
- `MapStep` turns a change at one instance into `LC!Next`.

### Prj1Proofs

`UsableMeansLiveHolds == Spec => []UsableMeansLive`, for any number of
Contexts and any `MaxInits`. The inductive invariant `P1Inv` adds the plain
types of the variables the property reads, and it holds per instance. The
argument follows the code:

- every failed return of `Init` leaves `initialized` false;
- the early return of an initialized Context touches nothing;
- a successful Init makes both pointers name the handles it just opened;
- `Close` sets `closed` before anything dangles;
- Receive waits only on a usable Context, and messaging touches no handle.

There is one lemma per group of actions (`P1InitStep`, `P1MessagingStep`,
`P1CloseStep`, `P1CrashStep`), combined in `P1NextInv`. The leaks and double
releases that the violation runs find do not contradict the theorem: they
happen only while the Context is not usable.

`Prj1TypeCorrect == Spec => []TypeOK` proves the type invariant. The
inductive invariant `TInv` is `P1Inv` plus three groups of types, one per
kind of variable: the records (config, endpoint, files, listener), the
transport (queues, the copied size, the double-free flag) and the results.
Each action lemma proves only the groups the action writes. The case that
matters is Receive: `copied` stays in `{0} \cup MsgSizes` because zmq_recv's
rc is used as a length only after the `rc < 0` test (line 131). The mutant
`RecvTimeoutNoRcCheck` removes the test, and TLC then finds TypeOK
violated.

`ClosedIsTerminalHolds == Spec => ClosedIsTerminal` proves an action
property, spec §4.6: a Context that was Ready and then Closed stays Closed
while the object lives. Only a crash (a new object) clears `initialized`.
The proof needs only the plain types of `P1Inv` and has one lemma per group
of actions:

- Init on an initialized Context takes the early return of line 48, which
  keeps `closed` (`InitTerminal`); the branch that clears `closed` runs only
  on an uninitialized Context;
- Close sets `closed` or leaves it set, and a crash clears `initialized`
  (`TeardownTerminal`);
- messaging writes neither flag (`MessagingTerminal`).

The code's Init after Close returns OK without doing anything. §4.6 says
re-Init after Close is not supported and does not prescribe a return code,
so this is not reported as a divergence. The property states what the
spec does prescribe, and the mutant that "fixes" the early return by
clearing `closed` breaks it and `UsableMeansLive`.

Only model-checked, and why:

- **Liveness.** ReceiveReturns and SendReturns are about fairness, which
  TLAPS does not reason about here.
- **ServerReachable without the hypothesis.** It is false then
  (`shared_endpoint`). The theorem needs `DistinctServerEndpoints`.
- **The violated properties** (`AtMostOneSocket`, `NoDoubleRelease`,
  `EndpointFits`, `NoOverRead`) are false of the code.

## Findings

| Run | Kind | Finding |
|-----|------|---------|
| `shared_endpoint` | code bug | Init at lines 116-121 removes any existing socket file, not only a stale one. A live server on the same path loses its address. |
| `req_retry` | divergence from spec §7 | Timeout is called recoverable there. The REQ socket stays in its await-reply state. |
| `zero_timeout` | divergence from spec §8 | The spec says Receive never hangs. `timeout_ms = 0` disables the timeout (lines 57, 94-96). |
| `push_block` | divergence from spec §4.4 | The spec says Send blocks up to `send_timeout_ms`. No send timeout is set (line 189). |
| `rep_too_large` | divergence from spec §7 | An oversized message is called recoverable there. A REP server that drops one must reply before it can receive again (line 233). |
| `prj1_leak` | code bug | `prj1.cpp` lines 83 and 89 return with the context and socket open. |
| `prj1_double_close` | code bug | Lines 64 and 100-101 release handles whose pointers Close releases again (spec §8: exactly once). |

Three defects of `prj1::Context` are stated as properties of `Prj1Context`
but have no run. A single call that a unit test makes directly exposes each
of them:

- **`EndpointFits`.** The `> 108` test at line 81 admits a path that
  sun_path cannot hold with its NUL.
- **`NoOverRead`.** `out_msg.assign(buf, rc)` at line 139 takes zmq_recv's
  full length, even when it exceeds the buffer.
- **A negative `recv_timeout_ms`.** Line 67 passes it to ZMQ_RCVTIMEO
  unchecked, and Receive then waits for ever, as in `zero_timeout`.

## Not modelled

- **The destructor's unlocked Cleanup in `ZMQWrapperImpl`.** It is undefined
  behaviour of the caller. `prj1::Context`'s destructor is `Close`, which the
  model has, followed by the end of the object (`Crash`).
- **`GetLastError`, `last_error` and logging.** They are read-only text.
- **The `_WIN32` branches.**
- **GetErrorMessage, the examples and the tests.**

## Plan

1. A REQ/REP channel composition: a server and a client instance over one
   endpoint, for the round trip.
2. A refinement of `Lifecycle` by `Prj1Context`, which fails on the leak
   paths. It would need a weaker abstract spec that allows a leaked handle.
3. More proofs: `NoOverRead` under a bound on message sizes, and action
   properties of `Prj1Context`.
