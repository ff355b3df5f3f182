--------------------------- MODULE BrowserLoader ---------------------------
(***************************************************************************)
(* createBrowserSquonk (squonk-wasm ts/runtime.ts): the asynchronous       *)
(* loader of the browser entry points.  Callers of createSquonk share the  *)
(* promise `active`; each step below is one job of the event loop, and the *)
(* jobs that are ready run in any order.                                   *)
(***************************************************************************)
EXTENDS Naturals, Sequences

CONSTANTS Callers,    \* concurrent users of the entry point
          Sources,    \* values of the `wasm` option, the default URL among them
          NoSource,
          MaxLoads    \* bound on the calls of initWasm

ASSUME LoaderAssumption == NoSource \notin Sources /\ MaxLoads \in Nat

VARIABLES active,    \* the promise every caller shares: a load, or 0 for undefined
          loads,     \* the promise chains made so far: [source, stage]
          instance,  \* the source behind the package's wasm bindings, or NoSource
          promise,   \* [Callers -> the load whose promise the last call returned]
          outcome    \* [Callers -> "none", "pending", "resolved" or "rejected"]

vars == <<active, loads, instance, promise, outcome>>

Stages == {"init", "initialised", "init_failed", "fulfilled", "rejected"}

Init == /\ active = 0 /\ loads = <<>> /\ instance = NoSource
        /\ promise = [c \in Callers |-> 0]
        /\ outcome = [c \in Callers |-> "none"]

\* Mutant: `active` is only stored once the load is through.
createSquonkLate(c, s) ==
    /\ outcome[c] # "pending"
    /\ LET last == Len(loads)
       IN  IF last > 0 /\ loads[last].stage = "fulfilled"
           THEN /\ promise' = [promise EXCEPT ![c] = last]
                /\ UNCHANGED <<active, loads>>
           ELSE /\ last < MaxLoads
                /\ loads' = Append(loads, [source |-> s, stage |-> "init"])
                /\ active' = last + 1
                /\ promise' = [promise EXCEPT ![c] = last + 1]
    /\ outcome' = [outcome EXCEPT ![c] = "pending"]
    /\ UNCHANGED instance

\* A call of createSquonk with `wasm: s`, and the await of what it returns.
\* The option counts only when the call starts a load.
createSquonk(c, s) ==
    /\ outcome[c] # "pending"
    /\ IF active = 0
       THEN /\ Len(loads) < MaxLoads
            /\ loads' = Append(loads, [source |-> s, stage |-> "init"])
            /\ active' = Len(loads) + 1
       ELSE UNCHANGED <<active, loads>>
    /\ promise' = [promise EXCEPT ![c] = active']
    /\ outcome' = [outcome EXCEPT ![c] = "pending"]
    /\ UNCHANGED instance

\* initWasm settles.  The generated bindings keep their first module.
InitResolves(l) ==
    /\ loads[l].stage = "init"
    /\ loads' = [loads EXCEPT ![l].stage = "initialised"]
    /\ instance' = IF instance = NoSource THEN loads[l].source ELSE instance
    /\ UNCHANGED <<active, promise, outcome>>

InitRejects(l) ==
    /\ loads[l].stage = "init"
    /\ loads' = [loads EXCEPT ![l].stage = "init_failed"]
    /\ UNCHANGED <<active, instance, promise, outcome>>

\* Mutant: `active` is cleared when the load ends, whichever way.
RunThenClears(l) ==
    /\ loads[l].stage = "initialised"
    /\ loads' = [loads EXCEPT ![l].stage = "fulfilled"]
    /\ active' = 0
    /\ UNCHANGED <<instance, promise, outcome>>

\* The `.then` handler: createSquonkApi over the bindings.
RunThen(l) ==
    /\ loads[l].stage = "initialised"
    /\ loads' = [loads EXCEPT ![l].stage = "fulfilled"]
    /\ UNCHANGED <<active, instance, promise, outcome>>

\* Mutant: the handler forgets `active = undefined`.
RunCatchKeeps(l) ==
    /\ loads[l].stage = "init_failed"
    /\ loads' = [loads EXCEPT ![l].stage = "rejected"]
    /\ UNCHANGED <<active, instance, promise, outcome>>

\* The `.catch` handler clears `active` and rethrows.
RunCatch(l) ==
    /\ loads[l].stage = "init_failed"
    /\ loads' = [loads EXCEPT ![l].stage = "rejected"]
    /\ active' = 0
    /\ UNCHANGED <<instance, promise, outcome>>

Settled(l) == loads[l].stage \in {"fulfilled", "rejected"}

\* Mutant: a load has one waiter slot instead of a promise.
SettleAlone(c) ==
    /\ outcome[c] = "pending" /\ Settled(promise[c])
    /\ \A d \in Callers \ {c} : outcome[d] # "pending" \/ promise[d] # promise[c]
    /\ outcome' = [outcome EXCEPT ![c] = IF loads[promise[c]].stage = "fulfilled"
                                         THEN "resolved" ELSE "rejected"]
    /\ UNCHANGED <<active, loads, instance, promise>>

\* The await of a caller continues.
Settle(c) ==
    /\ outcome[c] = "pending" /\ Settled(promise[c])
    /\ outcome' = [outcome EXCEPT ![c] = IF loads[promise[c]].stage = "fulfilled"
                                         THEN "resolved" ELSE "rejected"]
    /\ UNCHANGED <<active, loads, instance, promise>>

Next == \/ \E c \in Callers, s \in Sources : createSquonk(c, s)
        \/ \E l \in 1..Len(loads) : InitResolves(l) \/ InitRejects(l) \/ RunThen(l) \/ RunCatch(l)
        \/ \E c \in Callers : Settle(c)

\* The event loop runs every job that is ready; nothing makes a fetch settle.
Fairness == /\ WF_vars(\E l \in 1..Len(loads) : RunThen(l) \/ RunCatch(l))
            /\ \A c \in Callers : WF_vars(Settle(c))

Spec == Init /\ [][Next]_vars
FairSpec == Spec /\ Fairness

-----------------------------------------------------------------------------
(* Properties                                                              *)

TypeOK == /\ active \in 0..Len(loads)
          /\ loads \in Seq([source : Sources, stage : Stages]) /\ Len(loads) <= MaxLoads
          /\ instance \in Sources \cup {NoSource}
          /\ promise \in [Callers -> 0..Len(loads)]
          /\ outcome \in [Callers -> {"none", "pending", "resolved", "rejected"}]
          /\ \A c \in Callers : outcome[c] = "none" <=> promise[c] = 0

\* Concurrent calls coalesce: only the load in `active` can be under way, so
\* initWasm never runs twice at once over the same bindings.
OneLoad == \A l \in 1..Len(loads) : ~Settled(l) => active = l

\* The first successful source owns the package runtime: whoever got an API got
\* the one of `active`, and its bindings are those of its own source.
SharedRuntime ==
    \A c \in Callers : outcome[c] = "resolved" =>
        /\ promise[c] = active
        /\ loads[active].stage = "fulfilled" /\ loads[active].source = instance

\* However calls, failures and retries interleave, there is at most one load
\* and one runtime.
OneRuntime == TypeOK /\ OneLoad /\ SharedRuntime

\* A failed load can be retried: a call never returns a promise whose load has
\* already been rejected.
RetryStartsFresh ==
    [][\A c \in Callers : outcome[c] # "pending" /\ outcome'[c] = "pending"
           => loads'[promise'[c]].stage # "rejected"]_vars

\* Once initWasm has settled, every caller that shares its promise is told.
EveryCallerAnswered ==
    \A c \in Callers :
        (outcome[c] = "pending" /\ loads[promise[c]].stage # "init") ~> outcome[c] # "pending"

\* The contract, with `owner` set by the `.then` handler and a failure reported
\* by the `.catch` handler.
UnderWay(l) == loads[l].stage \in {"init", "initialised", "init_failed"}

Owner == IF active # 0 /\ loads[active].stage = "fulfilled"
         THEN loads[active].source ELSE NoSource

Loading == IF active # 0 /\ UnderWay(active) THEN loads[active].source ELSE NoSource

CallerState(c) == CASE outcome[c] = "none" -> "idle"
                    [] outcome[c] = "resolved" -> "served"
                    [] outcome[c] = "rejected" -> "failed"
                    [] outcome[c] = "pending" -> IF loads[promise[c]].stage = "rejected"
                                                 THEN "doomed" ELSE "waiting"

Contract == INSTANCE LoaderContract WITH
    owner <- Owner, loading <- Loading, caller <- [c \in Callers |-> CallerState(c)]

\* createBrowserSquonk keeps the promise of its documentation.
ImplementsContract == Contract!Spec
=============================================================================
