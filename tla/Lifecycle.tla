------------------------------ MODULE Lifecycle ------------------------------
(***************************************************************************)
(* What a Context promises about its lifecycle and its socket handle       *)
(* (spec sections 2 and 3, LifecycleGuard), seen by its callers.           *)
(*                                                                         *)
(* A Context is Uninitialized, Opening (inside an Init that holds the      *)
(* mutex with a socket already open, as a client's connect loop does) or   *)
(* Ready.  held[c] is the set of socket handles c owns.  A Context owns no *)
(* socket while Uninitialized and exactly one otherwise; it gets it on the *)
(* way into Opening or Ready and gives it back on the way out.  Close and  *)
(* the death of the process take a Ready Context back to Uninitialized,    *)
(* which stands for the spec's Closed too: ZMQWrapperImpl's Close clears   *)
(* initialized, so its Init may run again.  prj1::Context keeps Closed     *)
(* terminal (Init after Close returns at once) and does not refine this.   *)
(***************************************************************************)
CONSTANTS
  Ctx,      \* Contexts
  Handles   \* socket handles

VARIABLES life, held

vars == <<life, held>>

States == {"Uninitialized", "Opening", "Ready"}

TypeOK ==
  /\ life \in [Ctx -> States]
  /\ held \in [Ctx -> SUBSET Handles]

Init ==
  /\ life = [c \in Ctx |-> "Uninitialized"]
  /\ held = [c \in Ctx |-> {}]

\* c takes socket h and enters state s: Ready at once (a bind), or Opening
\* (a connect still to be tried).
Acquire(c, s) ==
  /\ life[c] = "Uninitialized"
  /\ \E h \in Handles : held' = [held EXCEPT ![c] = {h}]
  /\ life' = [life EXCEPT ![c] = s]

\* The connect an Opening Context was trying succeeds.
Connected(c) ==
  /\ life[c] = "Opening"
  /\ life' = [life EXCEPT ![c] = "Ready"]
  /\ UNCHANGED held

\* An Opening Context gives up, or a Ready one is closed: the socket goes.
Release(c) ==
  /\ life[c] \in {"Opening", "Ready"}
  /\ life' = [life EXCEPT ![c] = "Uninitialized"]
  /\ held' = [held EXCEPT ![c] = {}]

Next ==
  \E c \in Ctx :
    \/ Acquire(c, "Ready")
    \/ Acquire(c, "Opening")
    \/ Connected(c)
    \/ Release(c)

Spec == Init /\ [][Next]_vars

\* Spec section 3: a Context owns a socket exactly when it is not
\* Uninitialized, and never two at once.
OneSocketWhileOpen ==
  \A c \in Ctx :
    /\ (held[c] = {}) = (life[c] = "Uninitialized")
    /\ \A h1, h2 \in held[c] : h1 = h2

=============================================================================
