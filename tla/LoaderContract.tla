-------------------------- MODULE LoaderContract ---------------------------
(***************************************************************************)
(* What the browser entry points promise (docs/release/npm-distribution.md *)
(* line 20): "Concurrent calls coalesce, a failed load can be retried, and *)
(* the first successful source owns the package runtime."                  *)
(***************************************************************************)
CONSTANTS Callers, Sources, NoSource

VARIABLES owner,    \* the source the package runtime was loaded from, or NoSource
          loading,  \* the source being loaded, or NoSource
          caller    \* [Callers -> "idle", "waiting", "doomed", "failed" or "served"]

vars == <<owner, loading, caller>>

Init == /\ owner = NoSource /\ loading = NoSource
        /\ caller = [c \in Callers |-> "idle"]

\* A call: it joins the load or the runtime that there is, or starts a load.
Request(c, s) ==
    /\ caller[c] \notin {"waiting", "doomed"}
    /\ caller' = [caller EXCEPT ![c] = "waiting"]
    /\ loading' = IF owner = NoSource /\ loading = NoSource THEN s ELSE loading
    /\ UNCHANGED owner

Succeed == /\ loading # NoSource
           /\ owner' = loading /\ loading' = NoSource
           /\ UNCHANGED caller

\* A failure is for those who were waiting, and for nobody else.
Fail == /\ loading # NoSource
        /\ loading' = NoSource
        /\ caller' = [c \in Callers |-> IF caller[c] = "waiting" THEN "doomed" ELSE caller[c]]
        /\ UNCHANGED owner

Answer(c) ==
    /\ \/ caller[c] = "waiting" /\ owner # NoSource /\ caller' = [caller EXCEPT ![c] = "served"]
       \/ caller[c] = "doomed" /\ caller' = [caller EXCEPT ![c] = "failed"]
    /\ UNCHANGED <<owner, loading>>

Next == \/ \E c \in Callers, s \in Sources : Request(c, s)
        \/ Succeed \/ Fail
        \/ \E c \in Callers : Answer(c)

Spec == Init /\ [][Next]_vars
=============================================================================
