------------------------ MODULE BrowserLoaderProofs ------------------------
(***************************************************************************)
(* The shared promise of the browser loader: for any number of callers,    *)
(* sources and loads there is one runtime, a retry joins no failed load,   *)
(* and the loader implements the contract the package documents.           *)
(***************************************************************************)
EXTENDS BrowserLoader, SequenceTheorems, TLAPS

\* What `active` knows of the loads: the only one that was not rejected.
ActiveIsLive == /\ \A l \in 1..Len(loads) : loads[l].stage # "rejected" => active = l
                /\ active # 0 => loads[active].stage # "rejected"

Through(l) == loads[l].stage \in {"initialised", "fulfilled"}

\* The bindings were initialised by the load in `active`, or by none.
InstanceIsActive == /\ instance # NoSource => active # 0 /\ Through(active)
                    /\ active # 0 /\ Through(active) => instance = loads[active].source

Resolved == \A c \in Callers : outcome[c] = "resolved" => loads[promise[c]].stage = "fulfilled"

Inv == TypeOK /\ ActiveIsLive /\ InstanceIsActive /\ Resolved

-----------------------------------------------------------------------------
(* One step of a promise chain: a load changes its stage and nothing else. *)

\* A load is a source and a stage.
LEMMA LoadTyped ==
    ASSUME loads \in Seq([source : Sources, stage : Stages]), NEW l \in 1..Len(loads)
    PROVE  loads[l] \in [source : Sources, stage : Stages] /\ l # 0
  <1> DEFINE Load == [source : Sources, stage : Stages]
  <1>1. loads \in Seq(Load)
    OBVIOUS
  <1> HIDE DEF Load
  <1>2. loads[l] \in Load /\ l # 0
    BY <1>1, ElementOfSeq
  <1> QED
    BY <1>2 DEF Load

\* Assigning a stage keeps the other loads and the load's source.
LEMMA StageAssigned ==
    ASSUME NEW l \in 1..Len(loads), NEW st \in Stages,
           loads \in Seq([source : Sources, stage : Stages]),
           loads' = [loads EXCEPT ![l].stage = st]
    PROVE  /\ loads' \in Seq([source : Sources, stage : Stages])
           /\ Len(loads') = Len(loads)
           /\ \A k \in 1..Len(loads) : k # l => loads'[k] = loads[k]
           /\ loads'[l].source = loads[l].source
           /\ loads'[l].stage = st
  <1>1. loads[l] \in [source : Sources, stage : Stages]
    BY LoadTyped
  <1>2. [loads[l] EXCEPT !.stage = st] \in [source : Sources, stage : Stages]
    BY <1>1
  <1>3. loads' = [loads EXCEPT ![l] = [loads[l] EXCEPT !.stage = st]]
    OBVIOUS
  <1>4. /\ loads' \in Seq([source : Sources, stage : Stages])
        /\ Len(loads') = Len(loads)
    BY <1>2, <1>3
  <1>5. loads'[l] = [loads[l] EXCEPT !.stage = st]
    BY <1>3
  <1>6. /\ loads'[l].source = loads[l].source
        /\ loads'[l].stage = st
    BY <1>1, <1>5
  <1>7. \A k \in 1..Len(loads) : k # l => loads'[k] = loads[k]
    BY <1>3
  <1> QED
    BY <1>4, <1>6, <1>7

\* Starting a load keeps the earlier ones.
LEMMA LoadAppended ==
    ASSUME NEW s \in Sources,
           loads \in Seq([source : Sources, stage : Stages]),
           loads' = Append(loads, [source |-> s, stage |-> "init"])
    PROVE  /\ loads' \in Seq([source : Sources, stage : Stages])
           /\ Len(loads') = Len(loads) + 1
           /\ \A k \in 1..Len(loads) : loads'[k] = loads[k]
           /\ loads'[Len(loads) + 1] = [source |-> s, stage |-> "init"]
           /\ Len(loads) \in Nat
  <1>1. [source |-> s, stage |-> "init"] \in [source : Sources, stage : Stages]
    BY DEF Stages
  <1> QED
    BY <1>1, AppendProperties

-----------------------------------------------------------------------------
\* The loader starts without a load and without a runtime.
LEMMA InitInv == Init => Inv
  <1> SUFFICES ASSUME Init PROVE Inv
    OBVIOUS
  <1>1. Len(loads) = 0 /\ loads \in Seq([source : Sources, stage : Stages])
    BY DEF Init
  <1>2. TypeOK
    BY <1>1, LoaderAssumption DEF Init, TypeOK
  <1>3. ActiveIsLive /\ InstanceIsActive /\ Resolved
    BY <1>1 DEF Init, ActiveIsLive, InstanceIsActive, Resolved
  <1> QED
    BY <1>2, <1>3 DEF Inv

\* A call joins the live load, or starts one when every load was rejected.
LEMMA CreateInv ==
    ASSUME Inv, NEW c \in Callers, NEW s \in Sources, createSquonk(c, s)
    PROVE  Inv'
  <1> USE DEF Inv
  <1>1. CASE active = 0
    <2>1. /\ Len(loads) < MaxLoads
          /\ loads' = Append(loads, [source |-> s, stage |-> "init"])
          /\ active' = Len(loads) + 1
          /\ promise' = [promise EXCEPT ![c] = active']
          /\ outcome' = [outcome EXCEPT ![c] = "pending"]
          /\ instance' = instance
      BY <1>1 DEF createSquonk
    <2>2. /\ loads' \in Seq([source : Sources, stage : Stages])
          /\ Len(loads') = Len(loads) + 1
          /\ \A k \in 1..Len(loads) : loads'[k] = loads[k]
          /\ loads'[Len(loads) + 1] = [source |-> s, stage |-> "init"]
          /\ Len(loads) \in Nat
      BY <2>1, LoadAppended DEF TypeOK
    <2>3. TypeOK'
      <3>1. promise' \in [Callers -> 0..Len(loads')]
        BY <2>1, <2>2 DEF TypeOK
      <3>2. outcome' \in [Callers -> {"none", "pending", "resolved", "rejected"}]
        BY <2>1 DEF TypeOK
      <3>3. \A d \in Callers : outcome'[d] = "none" <=> promise'[d] = 0
        BY <2>1, <2>2 DEF TypeOK
      <3>4. Len(loads') <= MaxLoads
        BY <2>1, <2>2, LoaderAssumption
      <3> QED
        BY <2>1, <2>2, <3>1, <3>2, <3>3, <3>4 DEF TypeOK
    <2>4. ActiveIsLive'
      BY <1>1, <2>1, <2>2 DEF ActiveIsLive
    <2>5. InstanceIsActive'
      BY <1>1, <2>1, <2>2 DEF InstanceIsActive, Through
    <2>6. Resolved'
      BY <1>1, <2>1, <2>2 DEF Resolved, TypeOK
    <2> QED
      BY <2>3, <2>4, <2>5, <2>6
  <1>2. CASE active # 0
    <2>1. /\ UNCHANGED <<active, loads, instance>>
          /\ promise' = [promise EXCEPT ![c] = active]
          /\ outcome' = [outcome EXCEPT ![c] = "pending"]
      BY <1>2 DEF createSquonk
    <2>2. TypeOK'
      BY <1>2, <2>1 DEF TypeOK
    <2> QED
      BY <2>1, <2>2 DEF TypeOK, ActiveIsLive, InstanceIsActive, Through, Resolved
  <1> QED
    BY <1>1, <1>2

\* initWasm resolves: only the active load can, and the bindings take its source.
LEMMA ResolvesInv ==
    ASSUME Inv, NEW l \in 1..Len(loads), InitResolves(l)
    PROVE  Inv'
  <1> USE DEF Inv
  <1>1. /\ loads' \in Seq([source : Sources, stage : Stages])
        /\ Len(loads') = Len(loads)
        /\ \A k \in 1..Len(loads) : k # l => loads'[k] = loads[k]
        /\ loads'[l].source = loads[l].source
        /\ loads'[l].stage = "initialised"
    BY StageAssigned DEF InitResolves, TypeOK, Stages
  <1>2. active = l /\ active # 0 /\ instance = NoSource
    BY DEF InitResolves, ActiveIsLive, InstanceIsActive, Through
  <1>3. loads[l].source \in Sources
    BY LoadTyped DEF TypeOK
  <1>4. TypeOK'
    BY <1>1, <1>3 DEF InitResolves, TypeOK
  <1>5. ActiveIsLive'
    BY <1>1, <1>2 DEF InitResolves, ActiveIsLive, TypeOK
  <1>6. InstanceIsActive'
    BY <1>1, <1>2 DEF InitResolves, InstanceIsActive, Through
  <1>7. Resolved'
    BY <1>1 DEF InitResolves, Resolved, TypeOK
  <1> QED
    BY <1>4, <1>5, <1>6, <1>7

\* initWasm rejects: the bindings stay as they were.
LEMMA RejectsInv ==
    ASSUME Inv, NEW l \in 1..Len(loads), InitRejects(l)
    PROVE  Inv'
  <1> USE DEF Inv
  <1>1. /\ loads' \in Seq([source : Sources, stage : Stages])
        /\ Len(loads') = Len(loads)
        /\ \A k \in 1..Len(loads) : k # l => loads'[k] = loads[k]
        /\ loads'[l].source = loads[l].source
        /\ loads'[l].stage = "init_failed"
    BY StageAssigned DEF InitRejects, TypeOK, Stages
  <1>2. active = l /\ active # 0 /\ instance = NoSource
    BY DEF InitRejects, ActiveIsLive, InstanceIsActive, Through
  <1>4. TypeOK'
    BY <1>1 DEF InitRejects, TypeOK
  <1>5. ActiveIsLive'
    BY <1>1, <1>2 DEF InitRejects, ActiveIsLive, TypeOK
  <1>6. InstanceIsActive'
    BY <1>1, <1>2 DEF InitRejects, InstanceIsActive, Through
  <1>7. Resolved'
    BY <1>1 DEF InitRejects, Resolved, TypeOK
  <1> QED
    BY <1>4, <1>5, <1>6, <1>7

\* The `.then` handler runs: the load in `active` stays there.
LEMMA ThenInv ==
    ASSUME Inv, NEW l \in 1..Len(loads), RunThen(l)
    PROVE  Inv'
  <1> USE DEF Inv
  <1>1. /\ loads' \in Seq([source : Sources, stage : Stages])
        /\ Len(loads') = Len(loads)
        /\ \A k \in 1..Len(loads) : k # l => loads'[k] = loads[k]
        /\ loads'[l].source = loads[l].source
        /\ loads'[l].stage = "fulfilled"
    BY StageAssigned DEF RunThen, TypeOK, Stages
  <1>2. active = l /\ active # 0 /\ instance = loads[l].source
    BY DEF RunThen, ActiveIsLive, InstanceIsActive, Through
  <1>4. TypeOK'
    BY <1>1 DEF RunThen, TypeOK
  <1>5. ActiveIsLive'
    BY <1>1, <1>2 DEF RunThen, ActiveIsLive, TypeOK
  <1>6. InstanceIsActive'
    BY <1>1, <1>2 DEF RunThen, InstanceIsActive, Through
  <1>7. Resolved'
    BY <1>1 DEF RunThen, Resolved, TypeOK
  <1> QED
    BY <1>4, <1>5, <1>6, <1>7

\* The `.catch` handler runs: no load is left that was not rejected.
LEMMA CatchInv ==
    ASSUME Inv, NEW l \in 1..Len(loads), RunCatch(l)
    PROVE  Inv'
  <1> USE DEF Inv
  <1>1. /\ loads' \in Seq([source : Sources, stage : Stages])
        /\ Len(loads') = Len(loads)
        /\ \A k \in 1..Len(loads) : k # l => loads'[k] = loads[k]
        /\ loads'[l].source = loads[l].source
        /\ loads'[l].stage = "rejected"
    BY StageAssigned DEF RunCatch, TypeOK, Stages
  <1>2. active = l /\ active # 0 /\ instance = NoSource
    BY DEF RunCatch, ActiveIsLive, InstanceIsActive, Through
  <1>3. loads[l].stage = "init_failed" /\ active' = 0
    BY DEF RunCatch
  <1>4. TypeOK'
    BY <1>1, <1>3 DEF RunCatch, TypeOK
  <1>5. ActiveIsLive'
    BY <1>1, <1>2, <1>3 DEF ActiveIsLive
  <1>6. InstanceIsActive'
    BY <1>2, <1>3 DEF RunCatch, InstanceIsActive
  <1>7. Resolved'
    BY <1>1, <1>3 DEF RunCatch, Resolved, TypeOK
  <1> QED
    BY <1>4, <1>5, <1>6, <1>7

\* An await continues with what its promise settled to.
LEMMA SettleInv ==
    ASSUME Inv, NEW c \in Callers, Settle(c)
    PROVE  Inv'
  <1> USE DEF Inv
  <1>1. TypeOK'
    BY DEF Settle, TypeOK
  <1>2. Resolved'
    BY DEF Settle, TypeOK, Resolved
  <1> QED
    BY <1>1, <1>2 DEF Settle, ActiveIsLive, InstanceIsActive, Through

\* Every step of the loader keeps the invariant.
LEMMA NextInv == Inv /\ [Next]_vars => Inv'
  <1> SUFFICES ASSUME Inv, [Next]_vars PROVE Inv'
    OBVIOUS
  <1>1. CASE \E c \in Callers, s \in Sources : createSquonk(c, s)
    BY <1>1, CreateInv
  <1>2. CASE \E l \in 1..Len(loads) : InitResolves(l) \/ InitRejects(l) \/ RunThen(l) \/ RunCatch(l)
    BY <1>2, ResolvesInv, RejectsInv, ThenInv, CatchInv
  <1>3. CASE \E c \in Callers : Settle(c)
    BY <1>3, SettleInv
  <1>4. CASE UNCHANGED vars
    BY <1>4 DEF vars, Inv, TypeOK, ActiveIsLive, InstanceIsActive, Through, Resolved
  <1> QED
    BY <1>1, <1>2, <1>3, <1>4 DEF Next

-----------------------------------------------------------------------------
\* In every state there is at most one load and one runtime: the state form.
LEMMA InvImpliesOneRuntime == Inv => OneRuntime
  <1> SUFFICES ASSUME Inv PROVE OneRuntime
    OBVIOUS
  <1>1. OneLoad
    BY DEF Inv, ActiveIsLive, OneLoad, Settled
  <1>2. SharedRuntime
    <2> SUFFICES ASSUME NEW c \in Callers, outcome[c] = "resolved"
                 PROVE  /\ promise[c] = active
                        /\ loads[active].stage = "fulfilled"
                        /\ loads[active].source = instance
      BY DEF SharedRuntime
    <2>1. promise[c] \in 1..Len(loads) /\ loads[promise[c]].stage = "fulfilled"
      BY DEF Inv, TypeOK, Resolved
    <2>2. promise[c] = active /\ active # 0
      BY <2>1 DEF Inv, ActiveIsLive
    <2> QED
      BY <2>1, <2>2 DEF Inv, InstanceIsActive, Through
  <1> QED
    BY <1>1, <1>2 DEF OneRuntime, Inv

\* However many callers ask, fail and retry in whatever order, only the load in
\* `active` is under way and whoever got an API got that of the one runtime.
THEOREM OneRuntimeOnly == Spec => []OneRuntime
  <1>1. Spec => []Inv
    BY InitInv, NextInv, PTL DEF Spec
  <1> QED
    BY <1>1, InvImpliesOneRuntime, PTL

\* A call of createSquonk never returns the promise of a rejected load.
THEOREM RetryIsFresh == Spec => RetryStartsFresh
  <1>1. ASSUME Inv, [Next]_vars
        PROVE  [\A c \in Callers : outcome[c] # "pending" /\ outcome'[c] = "pending"
                   => loads'[promise'[c]].stage # "rejected"]_vars
    <2> SUFFICES ASSUME Next, NEW c \in Callers, outcome[c] # "pending", outcome'[c] = "pending"
                 PROVE  loads'[promise'[c]].stage # "rejected"
      BY <1>1
    <2>1. Inv'
      BY <1>1, NextInv
    <2>2. CASE \E d \in Callers, s \in Sources : createSquonk(d, s)
      <3>1. PICK d \in Callers, s \in Sources : createSquonk(d, s)
        BY <2>2
      <3>2. d = c
        BY <1>1, <3>1 DEF createSquonk, Inv, TypeOK
      <3>3. promise'[c] = active' /\ active' # 0
        <4>1. promise'[c] = active'
          BY <1>1, <3>1, <3>2 DEF createSquonk, Inv, TypeOK
        <4>2. active' # 0
          <5>1. Len(loads) \in Nat
            BY <1>1 DEF Inv, TypeOK
          <5> QED
            BY <3>1, <5>1 DEF createSquonk
        <4> QED
          BY <4>1, <4>2
      <3> QED
        BY <2>1, <3>3 DEF Inv, ActiveIsLive
    <2>3. CASE \E l \in 1..Len(loads) : InitResolves(l) \/ InitRejects(l) \/ RunThen(l) \/ RunCatch(l)
      BY <2>3 DEF InitResolves, InitRejects, RunThen, RunCatch
    <2>4. CASE \E d \in Callers : Settle(d)
      BY <1>1, <2>4 DEF Settle, Inv, TypeOK
    <2> QED
      BY <2>2, <2>3, <2>4 DEF Next
  <1>2. Spec => []Inv
    BY InitInv, NextInv, PTL DEF Spec
  <1> QED
    BY <1>1, <1>2, PTL DEF Spec, RetryStartsFresh

-----------------------------------------------------------------------------
(* The refinement: what each step does to the state of the contract.       *)

Told == [c \in Callers |-> CallerState(c)]

\* What the contract's owner and load are, from the stage of `active`.
LEMMA ContractView ==
    ASSUME Inv
    PROVE  /\ active = 0 => Owner = NoSource /\ Loading = NoSource
           /\ active # 0 => /\ loads[active].source \in Sources
                            /\ loads[active].source # NoSource
                            /\ loads[active].stage \in Stages \ {"rejected"}
                            /\ UnderWay(active) => Owner = NoSource /\ Loading = loads[active].source
                            /\ ~UnderWay(active) => /\ loads[active].stage = "fulfilled"
                                                    /\ Owner = loads[active].source
                                                    /\ Loading = NoSource
  <1>1. CASE active = 0
    BY <1>1 DEF Owner, Loading
  <1>2. CASE active # 0
    <2>1. active \in 1..Len(loads)
      BY <1>2 DEF Inv, TypeOK
    <2>2. loads[active] \in [source : Sources, stage : Stages]
      BY <2>1, LoadTyped DEF Inv, TypeOK
    <2>3. loads[active].stage # "rejected"
      BY <1>2 DEF Inv, ActiveIsLive
    <2> QED
      BY <1>2, <2>2, <2>3, LoaderAssumption DEF Owner, Loading, UnderWay, Stages
  <1> QED
    BY <1>1, <1>2

\* A call is a Request of the contract.
LEMMA CreateIsRequest ==
    ASSUME Inv, NEW c \in Callers, NEW s \in Sources, createSquonk(c, s)
    PROVE  Contract!Request(c, s)
  <1>1. Inv'
    BY CreateInv
  <1>2. Len(loads) \in Nat
    BY DEF Inv, TypeOK
  <1>3. \A k \in 1..Len(loads) : loads'[k] = loads[k]
    BY LoadAppended DEF createSquonk, Inv, TypeOK
  <1>4. outcome' = [outcome EXCEPT ![c] = "pending"] /\ promise' = [promise EXCEPT ![c] = active']
        /\ outcome[c] # "pending" /\ outcome[c] \in {"none", "pending", "resolved", "rejected"}
    BY DEF createSquonk, Inv, TypeOK
  <1>5. CallerState(c) \notin {"waiting", "doomed"}
    BY <1>4 DEF CallerState
  <1>6. active' # 0 /\ loads'[active'].stage # "rejected"
    <2>1. active' # 0
      BY <1>2 DEF createSquonk
    <2> QED
      BY <1>1, <2>1 DEF Inv, ActiveIsLive
  <1>7. Told' = [Told EXCEPT ![c] = "waiting"]
    <2>1. outcome'[c] = "pending" /\ promise'[c] = active'
      BY <1>4 DEF Inv, TypeOK
    <2>2. CallerState(c)' = "waiting"
      BY <1>6, <2>1 DEF CallerState
    <2>3. ASSUME NEW d \in Callers, d # c
          PROVE  CallerState(d)' = CallerState(d)
      <3>1. outcome'[d] = outcome[d] /\ promise'[d] = promise[d]
        BY <1>4, <2>3 DEF Inv, TypeOK
      <3>2. outcome[d] = "pending" => loads'[promise[d]] = loads[promise[d]]
        <4>1. outcome[d] = "pending" => promise[d] \in 1..Len(loads)
          BY DEF Inv, TypeOK
        <4> QED
          BY <1>3, <4>1
      <3> QED
        BY <3>1, <3>2 DEF CallerState
    <2> QED
      BY <2>2, <2>3 DEF Told
  <1>8. Owner' = Owner /\ Loading' = IF Owner = NoSource /\ Loading = NoSource THEN s ELSE Loading
    <2>1. CASE active = 0
      <3>1. /\ active' = Len(loads) + 1
            /\ loads'[active'] = [source |-> s, stage |-> "init"]
        BY <2>1, LoadAppended DEF createSquonk, Inv, TypeOK
      <3>2. Owner' = NoSource /\ Loading' = s
        BY <1>6, <3>1 DEF Owner, Loading, UnderWay
      <3> QED
        BY <2>1, <3>2, ContractView
    <2>2. CASE active # 0
      <3>1. active' = active /\ loads' = loads
        BY <2>2 DEF createSquonk
      <3>2. Owner' = Owner /\ Loading' = Loading
        BY <3>1 DEF Owner, Loading, UnderWay
      <3> QED
        BY <2>2, <3>2, ContractView
    <2> QED
      BY <2>1, <2>2
  <1> QED
    BY <1>5, <1>7, <1>8 DEF Contract!Request, Told

\* A stage that is not a rejection changes what no caller is told.
LEMMA ToldKept ==
    ASSUME Inv, NEW l \in 1..Len(loads), loads[l].stage # "rejected", loads'[l].stage # "rejected",
           \A k \in 1..Len(loads) : k # l => loads'[k] = loads[k],
           UNCHANGED <<promise, outcome>>
    PROVE  Told' = Told
  <1>1. ASSUME NEW d \in Callers
        PROVE  CallerState(d)' = CallerState(d)
    <2>1. outcome[d] = "pending" => promise[d] \in 1..Len(loads)
      BY DEF Inv, TypeOK
    <2>2. outcome[d] = "pending" => (loads'[promise[d]].stage = "rejected"
                                        <=> loads[promise[d]].stage = "rejected")
      BY <2>1
    <2> QED
      BY <2>2 DEF CallerState
  <1> QED
    BY <1>1 DEF Told

\* A settling initWasm is not visible in the contract.
LEMMA InitIsStutter ==
    ASSUME Inv, NEW l \in 1..Len(loads), InitResolves(l) \/ InitRejects(l)
    PROVE  Owner' = Owner /\ Loading' = Loading /\ Told' = Told
  <1>1. PICK st \in {"initialised", "init_failed"} : loads' = [loads EXCEPT ![l].stage = st]
    BY DEF InitResolves, InitRejects
  <1>2. /\ \A k \in 1..Len(loads) : k # l => loads'[k] = loads[k]
        /\ loads'[l].source = loads[l].source
        /\ loads'[l].stage = st
    BY <1>1, StageAssigned DEF Inv, TypeOK, Stages
  <1>3. loads[l].stage = "init" /\ UNCHANGED <<active, promise, outcome>>
    BY DEF InitResolves, InitRejects
  <1>4. active = l /\ active # 0
    BY <1>3 DEF Inv, ActiveIsLive
  <1>5. Told' = Told
    BY <1>2, <1>3, ToldKept
  <1>6. Owner' = Owner /\ Loading' = Loading
    BY <1>2, <1>3, <1>4 DEF Owner, Loading, UnderWay
  <1> QED
    BY <1>5, <1>6

\* The `.then` handler is the contract's Succeed.
LEMMA ThenIsSucceed ==
    ASSUME Inv, NEW l \in 1..Len(loads), RunThen(l)
    PROVE  Contract!Succeed
  <1>1. /\ \A k \in 1..Len(loads) : k # l => loads'[k] = loads[k]
        /\ loads'[l].source = loads[l].source
        /\ loads'[l].stage = "fulfilled"
    BY StageAssigned DEF RunThen, Inv, TypeOK, Stages
  <1>2. loads[l].stage = "initialised" /\ UNCHANGED <<active, promise, outcome>>
    BY DEF RunThen
  <1>3. active = l /\ active # 0
    BY <1>2 DEF Inv, ActiveIsLive
  <1>4. Told' = Told
    BY <1>1, <1>2, ToldKept
  <1>5. Loading # NoSource /\ Owner' = Loading /\ Loading' = NoSource
    <2>1. Loading = loads[l].source /\ Loading # NoSource
      BY <1>2, <1>3, ContractView DEF UnderWay
    <2>2. Owner' = loads'[l].source /\ Loading' = NoSource
      BY <1>1, <1>2, <1>3 DEF Owner, Loading, UnderWay
    <2> QED
      BY <1>1, <2>1, <2>2
  <1> QED
    BY <1>4, <1>5 DEF Contract!Succeed, Told

\* The `.catch` handler is the contract's Fail: exactly those waiting are doomed.
LEMMA CatchIsFail ==
    ASSUME Inv, NEW l \in 1..Len(loads), RunCatch(l)
    PROVE  Contract!Fail
  <1>1. /\ \A k \in 1..Len(loads) : k # l => loads'[k] = loads[k]
        /\ loads'[l].source = loads[l].source
        /\ loads'[l].stage = "rejected"
    BY StageAssigned DEF RunCatch, Inv, TypeOK, Stages
  <1>2. loads[l].stage = "init_failed" /\ active' = 0 /\ UNCHANGED <<promise, outcome>>
    BY DEF RunCatch
  <1>3. active = l /\ active # 0
    BY <1>2 DEF Inv, ActiveIsLive
  <1>4. Told' = [c \in Callers |-> IF Told[c] = "waiting" THEN "doomed" ELSE Told[c]]
    <2>1. ASSUME NEW d \in Callers
          PROVE  CallerState(d)' = IF CallerState(d) = "waiting" THEN "doomed" ELSE CallerState(d)
      <3>1. outcome[d] = "pending" => promise[d] \in 1..Len(loads)
        BY DEF Inv, TypeOK
      <3>2. outcome[d] = "pending" => loads'[promise[d]].stage = "rejected"
        BY <1>1, <1>3, <3>1 DEF Inv, ActiveIsLive
      <3>3. outcome[d] \in {"none", "pending", "resolved", "rejected"}
        BY DEF Inv, TypeOK
      <3> QED
        BY <1>2, <3>2, <3>3 DEF CallerState
    <2> QED
      BY <2>1 DEF Told
  <1>5. Loading # NoSource /\ Loading' = NoSource /\ Owner' = Owner
    <2>1. Owner = NoSource /\ Loading # NoSource
      BY <1>2, <1>3, ContractView DEF UnderWay
    <2>2. Owner' = NoSource /\ Loading' = NoSource
      BY <1>2 DEF Owner, Loading
    <2> QED
      BY <2>1, <2>2
  <1> QED
    BY <1>4, <1>5 DEF Contract!Fail, Told

\* A continuing await is an Answer of the contract.
LEMMA SettleIsAnswer ==
    ASSUME Inv, NEW c \in Callers, Settle(c)
    PROVE  Contract!Answer(c)
  <1>1. /\ outcome[c] = "pending" /\ loads[promise[c]].stage \in {"fulfilled", "rejected"}
        /\ outcome' = [outcome EXCEPT ![c] = IF loads[promise[c]].stage = "fulfilled"
                                             THEN "resolved" ELSE "rejected"]
        /\ UNCHANGED <<active, loads, instance, promise>>
    BY DEF Settle, Settled
  <1>2. Owner' = Owner /\ Loading' = Loading
    BY <1>1 DEF Owner, Loading, UnderWay
  <1>3. promise[c] \in 1..Len(loads)
    BY <1>1 DEF Inv, TypeOK
  <1>4. ASSUME NEW d \in Callers, d # c
        PROVE  CallerState(d)' = CallerState(d)
    <2>1. outcome'[d] = outcome[d]
      BY <1>1, <1>4 DEF Inv, TypeOK
    <2> QED
      BY <1>1, <2>1 DEF CallerState
  <1>5. outcome'[c] = IF loads[promise[c]].stage = "fulfilled" THEN "resolved" ELSE "rejected"
    BY <1>1 DEF Inv, TypeOK
  <1>6. CASE loads[promise[c]].stage = "fulfilled"
    <2>1. CallerState(c) = "waiting" /\ CallerState(c)' = "served"
      BY <1>1, <1>5, <1>6 DEF CallerState
    <2>2. Told' = [Told EXCEPT ![c] = "served"]
      BY <1>4, <2>1 DEF Told
    <2>3. Owner # NoSource
      <3>1. promise[c] = active /\ active # 0
        BY <1>3, <1>6 DEF Inv, ActiveIsLive
      <3> QED
        BY <1>6, <3>1, ContractView DEF UnderWay
    <2> QED
      BY <1>2, <2>1, <2>2, <2>3 DEF Contract!Answer, Told
  <1>7. CASE loads[promise[c]].stage = "rejected"
    <2>1. CallerState(c) = "doomed" /\ CallerState(c)' = "failed"
      BY <1>1, <1>5, <1>7 DEF CallerState
    <2>2. Told' = [Told EXCEPT ![c] = "failed"]
      BY <1>4, <2>1 DEF Told
    <2> QED
      BY <1>2, <2>1, <2>2 DEF Contract!Answer, Told
  <1> QED
    BY <1>1, <1>6, <1>7

\* createBrowserSquonk keeps the documented contract: concurrent calls coalesce,
\* a failed load can be retried, the first successful source owns the runtime.
THEOREM LoaderKeepsContract == Spec => ImplementsContract
  <1>1. Init => Contract!Init
    <2> SUFFICES ASSUME Init PROVE Contract!Init
      OBVIOUS
    <2>1. Owner = NoSource /\ Loading = NoSource
      BY DEF Init, Owner, Loading
    <2>2. \A c \in Callers : CallerState(c) = "idle"
      BY DEF Init, CallerState
    <2> QED
      BY <2>1, <2>2 DEF Contract!Init
  <1>2. Inv /\ [Next]_vars => [Contract!Next]_(Contract!vars)
    <2> SUFFICES ASSUME Inv, [Next]_vars PROVE [Contract!Next]_(Contract!vars)
      OBVIOUS
    <2>1. CASE \E c \in Callers, s \in Sources : createSquonk(c, s)
      BY <2>1, CreateIsRequest DEF Contract!Next
    <2>2. CASE \E l \in 1..Len(loads) : InitResolves(l) \/ InitRejects(l)
      BY <2>2, InitIsStutter DEF Contract!vars, Told
    <2>3. CASE \E l \in 1..Len(loads) : RunThen(l) \/ RunCatch(l)
      BY <2>3, ThenIsSucceed, CatchIsFail DEF Contract!Next
    <2>4. CASE \E c \in Callers : Settle(c)
      BY <2>4, SettleIsAnswer DEF Contract!Next
    <2>5. CASE UNCHANGED vars
      BY <2>5 DEF vars, Contract!vars, Owner, Loading, UnderWay, CallerState
    <2> QED
      BY <2>1, <2>2, <2>3, <2>4, <2>5 DEF Next
  <1>3. Spec => []Inv
    BY InitInv, NextInv, PTL DEF Spec
  <1> QED
    BY <1>1, <1>2, <1>3, PTL DEF Spec, ImplementsContract, Contract!Spec

-----------------------------------------------------------------------------
(***************************************************************************)
(* The safety half of EveryCallerAnswered.                                 *)
(***************************************************************************)

(* How far the promise chain of a load has come.                           *)
Progress(l) == CASE loads[l].stage = "init" -> 0
                 [] loads[l].stage \in {"initialised", "init_failed"} -> 1
                 [] loads[l].stage \in {"fulfilled", "rejected"} -> 2

(* The job the event loop has ready for a caller whose initWasm is         *)
(* through: the guards of RunThen, RunCatch and Settle.                    *)
JobReady(c) == \/ loads[promise[c]].stage = "initialised"
               \/ loads[promise[c]].stage = "init_failed"
               \/ outcome[c] = "pending" /\ Settled(promise[c])

(* A caller that waits shares a load that exists, and its initWasm is      *)
(* still out or a job of the caller's is ready.                            *)
LEMMA WaiterHasJob ==
    ASSUME Inv, NEW c \in Callers, outcome[c] = "pending"
    PROVE  /\ promise[c] \in 1..Len(loads)
           /\ Progress(promise[c]) \in 0..2
           /\ loads[promise[c]].stage = "init" \/ JobReady(c)
  <1>1. promise[c] \in 1..Len(loads)
    BY DEF Inv, TypeOK
  <1>2. loads[promise[c]].stage \in Stages
    BY <1>1, LoadTyped DEF Inv, TypeOK
  <1> QED
    BY <1>1, <1>2 DEF Stages, Progress, JobReady, Settled

(* No step takes the promise chain of a load back, and each step of it     *)
(* takes it on.                                                            *)
LEMMA ChainsAdvance ==
    ASSUME Inv, Next, NEW l \in 1..Len(loads)
    PROVE  l \in 1..Len(loads') /\ (loads'[l] = loads[l] \/ Progress(l)' = Progress(l) + 1)
  <1>1. ASSUME NEW d \in Callers, NEW s \in Sources, createSquonk(d, s)
        PROVE  l \in 1..Len(loads') /\ loads'[l] = loads[l]
    <2>1. CASE active = 0
      BY <1>1, <2>1, LoadAppended DEF createSquonk, Inv, TypeOK
    <2>2. CASE active # 0
      BY <1>1, <2>2 DEF createSquonk
    <2> QED
      BY <2>1, <2>2
  <1>2. ASSUME NEW k \in 1..Len(loads), NEW st \in Stages,
               loads' = [loads EXCEPT ![k].stage = st],
               \/ loads[k].stage = "init" /\ st \in {"initialised", "init_failed"}
               \/ loads[k].stage \in {"initialised", "init_failed"} /\ st \in {"fulfilled", "rejected"}
        PROVE  l \in 1..Len(loads') /\ (loads'[l] = loads[l] \/ Progress(l)' = Progress(l) + 1)
    <2>1. /\ Len(loads') = Len(loads)
          /\ k # l => loads'[l] = loads[l]
          /\ loads'[k].stage = st
      BY <1>2, StageAssigned DEF Inv, TypeOK
    <2>2. CASE k = l
      BY <1>2, <2>1, <2>2 DEF Progress
    <2> QED
      BY <2>1, <2>2
  <1>3. ASSUME NEW k \in 1..Len(loads),
               InitResolves(k) \/ InitRejects(k) \/ RunThen(k) \/ RunCatch(k)
        PROVE  l \in 1..Len(loads') /\ (loads'[l] = loads[l] \/ Progress(l)' = Progress(l) + 1)
    BY <1>2, <1>3 DEF InitResolves, InitRejects, RunThen, RunCatch, Stages
  <1>4. ASSUME NEW d \in Callers, Settle(d)
        PROVE  l \in 1..Len(loads') /\ loads'[l] = loads[l]
    BY <1>4 DEF Settle
  <1> QED
    BY <1>1, <1>3, <1>4 DEF Next

(* While a caller waits no one gives it another promise.                   *)
LEMMA PromiseKept ==
    ASSUME Inv, Next, NEW c \in Callers, outcome[c] = "pending"
    PROVE  /\ promise'[c] = promise[c]
           /\ outcome'[c] # "pending" => Settle(c)
  <1>1. ASSUME NEW d \in Callers, NEW s \in Sources, createSquonk(d, s)
        PROVE  promise'[c] = promise[c] /\ outcome'[c] = outcome[c]
    <2>1. d # c
      BY <1>1 DEF createSquonk
    <2> QED
      BY <1>1, <2>1 DEF createSquonk, Inv, TypeOK
  <1>2. ASSUME NEW k \in 1..Len(loads),
               InitResolves(k) \/ InitRejects(k) \/ RunThen(k) \/ RunCatch(k)
        PROVE  promise'[c] = promise[c] /\ outcome'[c] = outcome[c]
    BY <1>2 DEF InitResolves, InitRejects, RunThen, RunCatch
  <1>3. ASSUME NEW d \in Callers, Settle(d)
        PROVE  promise'[c] = promise[c] /\ (d = c \/ outcome'[c] = outcome[c])
    BY <1>3 DEF Settle, Inv, TypeOK
  <1> QED
    BY <1>1, <1>2, <1>3 DEF Next

(***************************************************************************)
(* Whoever calls, fails and retries meanwhile, no caller of createSquonk   *)
(* is forgotten: while it waits it keeps the promise it was given, that    *)
(* promise is a load whose initWasm is out or that has a job ready for the *)
(* caller, no step takes that load back, and the caller stops waiting only *)
(* by its own await.  What is left to EveryCallerAnswered is that the      *)
(* event loop runs its jobs.                                               *)
(***************************************************************************)
THEOREM NoCallerForgotten ==
    Spec => /\ [](\A c \in Callers : outcome[c] = "pending" =>
                     /\ promise[c] \in 1..Len(loads)
                     /\ loads[promise[c]].stage = "init" \/ JobReady(c))
            /\ [][\A c \in Callers : outcome[c] = "pending" =>
                     \/ Settle(c)
                     \/ /\ outcome'[c] = "pending" /\ promise'[c] = promise[c]
                        /\ \/ loads'[promise[c]] = loads[promise[c]]
                           \/ Progress(promise[c])' = Progress(promise[c]) + 1]_vars
  <1>1. Inv => \A c \in Callers : outcome[c] = "pending" =>
                  /\ promise[c] \in 1..Len(loads)
                  /\ loads[promise[c]].stage = "init" \/ JobReady(c)
    BY WaiterHasJob
  <1>2. ASSUME Inv, Next, NEW c \in Callers, outcome[c] = "pending", ~Settle(c)
        PROVE  /\ outcome'[c] = "pending" /\ promise'[c] = promise[c]
               /\ \/ loads'[promise[c]] = loads[promise[c]]
                  \/ Progress(promise[c])' = Progress(promise[c]) + 1
    <2>1. outcome'[c] = "pending" /\ promise'[c] = promise[c] /\ promise[c] \in 1..Len(loads)
      BY <1>2, PromiseKept, WaiterHasJob
    <2> QED
      BY <1>2, <2>1, ChainsAdvance DEF Progress
  <1>3. Inv /\ [Next]_vars =>
          [\A c \in Callers : outcome[c] = "pending" =>
              \/ Settle(c)
              \/ /\ outcome'[c] = "pending" /\ promise'[c] = promise[c]
                 /\ \/ loads'[promise[c]] = loads[promise[c]]
                    \/ Progress(promise[c])' = Progress(promise[c]) + 1]_vars
    BY <1>2
  <1>4. Spec => []Inv
    BY InitInv, NextInv, PTL DEF Spec
  <1> QED
    BY <1>1, <1>3, <1>4, PTL DEF Spec
=============================================================================
