----------------------------- MODULE LoopProofs ------------------------------
(***************************************************************************)
(* Proofs about LoopRun for any number of runs, steps, clients' calls,     *)
(* events, crashes and store errors.                                       *)
(***************************************************************************)
EXTENDS LoopRun, TLAPS

\* A typed run whose state agrees with its steps.
Sound(run) ==
  /\ run \in RunRecord
  /\ run.state = "running" =>
       run.current \in DOMAIN run.steps /\ run.steps[run.current] = "running"
  /\ run.state = "failed" <=> \E i \in DOMAIN run.steps : run.steps[i] = "failed"
  /\ run.state = "final" /\ run.steps # <<>> => run.steps[Len(run.steps)] = "final"

\* The inductive invariant: types, and every stored run sound.
RunsInv == TypeOK /\ \A r \in Runs : Sound(store[r])

-----------------------------------------------------------------------------
\* The run StartRun builds (service.go:84-104) is sound.
LEMMA NewRunSound == ASSUME NEW n \in Nat PROVE Sound(NewRun(n))
<1> DEFINE run == NewRun(n)
<1>1. run.steps \in Seq(StepStates) /\ Len(run.steps) = n /\ DOMAIN run.steps = 1..n
  BY DEF NewRun, StepStates
<1>2. \A i \in 1..n : run.steps[i] = IF i = 1 THEN "running" ELSE "queued"
  BY DEF NewRun
<1>3. run \in RunRecord
  BY <1>1 DEF NewRun, RunRecord, Settled
<1>4. CASE n = 0
  BY <1>1, <1>3, <1>4 DEF NewRun, Sound
<1>5. CASE n # 0
  BY <1>1, <1>2, <1>3, <1>5 DEF NewRun, Sound
<1> QED BY <1>4, <1>5

\* Setting one step keeps a list of steps one.
LEMMA SetStep ==
  ASSUME NEW steps \in Seq(StepStates), NEW i \in DOMAIN steps, NEW st \in StepStates
  PROVE  /\ [steps EXCEPT ![i] = st] \in Seq(StepStates)
         /\ Len([steps EXCEPT ![i] = st]) = Len(steps)
         /\ DOMAIN [steps EXCEPT ![i] = st] = 1..Len(steps)
  OBVIOUS

LEMMA StepFailedSound ==
  ASSUME NEW run, Sound(run), NEW i \in DOMAIN run.steps, NEW it \in Nat
  PROVE  Sound(StepFailed(run, i, it))
<1> DEFINE new == StepFailed(run, i, it)
<1>1. run \in RunRecord /\ run.steps \in Seq(StepStates)
  BY DEF Sound, RunRecord
<1>2. new.state = "failed" /\ new.steps = [run.steps EXCEPT ![i] = "failed"]
  BY <1>1 DEF StepFailed, RunRecord
<1>3. new.steps \in Seq(StepStates) /\ DOMAIN new.steps = DOMAIN run.steps
  BY <1>1, <1>2, SetStep DEF StepStates
<1>4. new \in RunRecord
  BY <1>1, <1>2, <1>3 DEF StepFailed, RunRecord, Settled
<1> QED BY <1>1, <1>2, <1>3, <1>4 DEF Sound

LEMMA StepFinalSound ==
  ASSUME NEW run, Sound(run), run.state = "running",
         NEW i \in DOMAIN run.steps, NEW it \in Nat
  PROVE  Sound(StepFinal(run, i, it))
<1> DEFINE new == StepFinal(run, i, it)
           done == [run.steps EXCEPT ![i] = "final"]
<1>1. run \in RunRecord /\ run.steps \in Seq(StepStates) /\ i \in 1..Len(run.steps)
  BY DEF Sound, RunRecord
<1>2. done \in Seq(StepStates) /\ DOMAIN done = 1..Len(run.steps)
      /\ Len(done) = Len(run.steps)
  BY <1>1, SetStep DEF StepStates
<1>3. \A k \in DOMAIN run.steps : run.steps[k] # "failed"
  BY DEF Sound
<1>4. CASE i < Len(run.steps)
  <2>1. i + 1 \in DOMAIN done
    BY <1>1, <1>2, <1>4
  <2>2. new = [state |-> "running", current |-> i + 1, iteration |-> it,
               steps |-> [done EXCEPT ![i + 1] = "running"]]
    BY <1>1, <1>4 DEF StepFinal, RunRecord
  <2>3. new.steps \in Seq(StepStates) /\ DOMAIN new.steps = 1..Len(run.steps)
    BY <1>2, <2>1, <2>2, SetStep DEF StepStates
  <2>4. new \in RunRecord
    BY <1>1, <2>2, <2>3 DEF RunRecord
  <2>5. \A k \in DOMAIN new.steps : new.steps[k] # "failed"
    BY <1>1, <1>2, <1>3, <2>2, <2>3
  <2>6. new.steps[new.current] = "running" /\ new.current \in DOMAIN new.steps
    BY <1>1, <1>2, <2>1, <2>2, <2>3
  <2> QED BY <2>2, <2>4, <2>5, <2>6 DEF Sound
<1>5. CASE ~(i < Len(run.steps))
  <2>1. new = [state |-> "final", current |-> 0, iteration |-> it, steps |-> done]
    BY <1>1, <1>5 DEF StepFinal, RunRecord
  <2>2. new \in RunRecord
    BY <1>1, <1>2, <2>1 DEF RunRecord, Settled
  <2>3. \A k \in DOMAIN new.steps : new.steps[k] # "failed"
    BY <1>1, <1>2, <1>3, <2>1
  <2>4. new.steps[Len(new.steps)] = "final"
    BY <1>1, <1>2, <1>5, <2>1
  <2> QED BY <2>1, <2>2, <2>3, <2>4 DEF Sound
<1> QED BY <1>4, <1>5

LEMMA StepRunningSound ==
  ASSUME NEW run, Sound(run), run.state = "running",
         NEW i \in DOMAIN run.steps, NEW it \in Nat
  PROVE  Sound([run EXCEPT !.steps[i] = "running", !.iteration = it])
<1> DEFINE new == [run EXCEPT !.steps[i] = "running", !.iteration = it]
<1>1. run \in RunRecord /\ run.steps \in Seq(StepStates)
  BY DEF Sound, RunRecord
<1>2. /\ new.state = "running" /\ new.current = run.current
      /\ new.steps = [run.steps EXCEPT ![i] = "running"]
  BY <1>1 DEF RunRecord
<1>3. new.steps \in Seq(StepStates) /\ DOMAIN new.steps = DOMAIN run.steps
  BY <1>1, <1>2, SetStep DEF StepStates
<1>4. new \in RunRecord
  BY <1>1, <1>2, <1>3 DEF RunRecord
<1> QED BY <1>1, <1>2, <1>3, <1>4 DEF Sound

\* AdvanceStep keeps a run sound, whichever step it is told to advance.
LEMMA AdvancedSound ==
  ASSUME NEW run, Sound(run), run.state = "running", NEW i \in DOMAIN run.steps,
         NEW st \in {"running"} \cup Ended, NEW it \in Nat
  PROVE  Sound(Advanced(run, i, st, it))
<1>1. CASE Limit > 0 /\ it > Limit
  BY <1>1, StepFailedSound DEF Advanced
<1>2. CASE ~(Limit > 0 /\ it > Limit)
  <2>1. CASE st = "running"
    BY <1>2, <2>1, StepRunningSound DEF Advanced
  <2>2. CASE st = "failed"
    BY <1>2, <2>2, StepFailedSound DEF Advanced
  <2>3. CASE st = "final"
    BY <1>2, <2>3, StepFinalSound DEF Advanced
  <2> QED BY <2>1, <2>2, <2>3 DEF Ended
<1> QED BY <1>1, <1>2

LEMMA CancelledSound ==
  ASSUME NEW run, Sound(run), run.state = "running" PROVE Sound(Cancelled(run))
<1>1. run \in RunRecord
  BY DEF Sound
<1>2. Cancelled(run) = [state |-> "cancelled", current |-> run.current,
                        iteration |-> run.iteration, steps |-> run.steps]
  BY <1>1 DEF Cancelled, RunRecord
<1> QED BY <1>1, <1>2 DEF Sound, RunRecord, Settled

LEMMA ChangeableRuns ==
  ASSUME NEW run, Sound(run) PROVE Changeable(run) <=> run.state = "running"
  BY DEF Sound, RunRecord, Changeable, Settled

LEMMA ProjectionSound ==
  ASSUME NEW run, Sound(run), NEW event \in AgentEvent
  PROVE  Sound(Projection(run, event))
<1>1. CASE event.state = "running" \/ ~Changeable(run)
  BY <1>1 DEF Projection
<1>2. CASE ~(event.state = "running" \/ ~Changeable(run))
  <2> DEFINE st == IF event.state \in Ended THEN event.state ELSE "running"
  <2>1. run.state = "running"
    BY <1>2, ChangeableRuns
  <2>2. run.steps \in Seq(StepStates) /\ run.current \in DOMAIN run.steps
    BY <2>1 DEF Sound, RunRecord
  <2>3. 1 \in DOMAIN run.steps
    BY <2>2
  <2>4. st \in {"running"} \cup Ended /\ event.iteration \in Nat
    BY DEF AgentEvent
  <2>5. Sound(Advanced(run, 1, st, event.iteration))
    BY <2>1, <2>3, <2>4, AdvancedSound
  <2> QED BY <1>2, <2>5 DEF Projection
<1> QED BY <1>1, <1>2

-----------------------------------------------------------------------------
\* A change of one run's record to a sound one keeps every record sound.
LEMMA StoreOne ==
  ASSUME store \in [Runs -> RunRecord], \A r \in Runs : Sound(store[r]),
         NEW q \in Runs, NEW run, Sound(run), store' = [store EXCEPT ![q] = run]
  PROVE  store' \in [Runs -> RunRecord] /\ \A r \in Runs : Sound(store'[r])
  BY DEF Sound

LEMMA AbsentSound == Sound(Absent)
  BY DEF Sound, Absent, RunRecord, Settled, StepStates

LEMMA InitRuns == Init => RunsInv
  BY AbsentSound, LoopAssumption
  DEF Init, RunsInv, TypeOK, Sound, BridgeSteps, AgentEvent, StepStates

\* Spending takes one from a bound that is not used up.
LEMMA SpendType ==
  ASSUME budget \in [calls : Nat, faults : Nat, breaks : Nat],
         NEW kind \in {"calls", "faults", "breaks"}, Spend(kind)
  PROVE  /\ budget' \in [calls : Nat, faults : Nat, breaks : Nat]
         /\ budget[kind] > 0
         /\ budget'.faults <= budget.faults
         /\ kind = "faults" => budget'.faults # budget.faults
  BY DEF Spend

\* The actions one by one: each keeps the types and the soundness of the runs.
LEMMA CalledRuns ==
  ASSUME RunsInv, NEW r \in Runs, NEW run, Sound(run), Called(r, run)
  PROVE  RunsInv'
<1>1. store' \in [Runs -> RunRecord] /\ \A q \in Runs : Sound(store'[q])
  BY StoreOne DEF RunsInv, TypeOK, Called
<1>2. budget' \in [calls : Nat, faults : Nat, breaks : Nat]
  BY SpendType DEF RunsInv, TypeOK, Called
<1> QED BY <1>1, <1>2 DEF RunsInv, TypeOK, Called, bridgeVars, agentVars, Sound

LEMMA StartRunRuns ==
  ASSUME RunsInv, NEW r \in Runs, NEW n \in 0..MaxSteps, StartRun(r, n)
  PROVE  RunsInv'
  BY CalledRuns, NewRunSound, LoopAssumption DEF StartRun

LEMMA AdvanceStepRuns ==
  ASSUME RunsInv, NEW r \in Runs, NEW i \in DOMAIN store[r].steps,
         NEW state \in {"running"} \cup Ended, NEW iteration \in Iterations,
         AdvanceStep(r, i, state, iteration)
  PROVE  RunsInv'
<1>1. Sound(store[r]) /\ store[r].state = "running" /\ iteration \in Nat
  BY ChangeableRuns, LoopAssumption DEF RunsInv, AdvanceStep
<1>2. Sound(Advanced(store[r], i, state, iteration))
  BY <1>1, AdvancedSound
<1> QED BY <1>2, CalledRuns DEF AdvanceStep

LEMMA CancelRunRuns ==
  ASSUME RunsInv, NEW r \in Runs, CancelRun(r) PROVE RunsInv'
<1>1. Sound(store[r]) /\ store[r].state = "running"
  BY ChangeableRuns DEF RunsInv, CancelRun
<1> QED BY <1>1, CancelledSound, CalledRuns DEF CancelRun

LEMMA BridgeStartRuns ==
  ASSUME RunsInv, NEW r \in Runs, BridgeStart(r) PROVE RunsInv'
<1>1. Sound(NewRun(1))
  BY NewRunSound
<1>2. store' \in [Runs -> RunRecord] /\ \A q \in Runs : Sound(store'[q])
  BY <1>1, StoreOne DEF RunsInv, TypeOK, BridgeStart
<1>3. budget' \in [calls : Nat, faults : Nat, breaks : Nat]
  BY SpendType DEF RunsInv, TypeOK, BridgeStart
<1>4. bridge' \in [Runs -> BridgeSteps] /\ receiver' \in Runs \cup {NoRun}
  BY DEF RunsInv, TypeOK, BridgeStart, BridgeTo, Refuse, BridgeSteps
<1> QED BY <1>2, <1>3, <1>4 DEF RunsInv, TypeOK, BridgeStart, agentVars

LEMMA ProjectRuns ==
  ASSUME RunsInv, NEW r \in Runs, Project(r) PROVE RunsInv'
<1> DEFINE event == log[r][cursor[r] + 1]
<1>1. event \in AgentEvent
  BY DEF RunsInv, TypeOK, Project
<1>2. Sound(Projection(store[r], event))
  BY <1>1, ProjectionSound DEF RunsInv
<1>3. \/ store' = [store EXCEPT ![r] = Projection(store[r], event)]
      \/ store' = store
  BY DEF Project
<1>4. store' \in [Runs -> RunRecord] /\ \A q \in Runs : Sound(store'[q])
  BY <1>2, <1>3, StoreOne DEF RunsInv, TypeOK
<1>5. budget' \in [calls : Nat, faults : Nat, breaks : Nat]
  BY SpendType DEF RunsInv, TypeOK, Project
<1>6. bridge' \in [Runs -> BridgeSteps] /\ cursor' \in [Runs -> Nat]
  BY DEF RunsInv, TypeOK, Project, BridgeTo, BridgeSteps
<1> QED BY <1>4, <1>5, <1>6 DEF RunsInv, TypeOK, Project, agentVars

LEMMA BridgeRuns ==
  ASSUME RunsInv, NEW r \in Runs,
         Receive(r) \/ Ingest(r) \/ Subscribe(r) \/ StreamBreaks(r)
  PROVE  RunsInv'
<1>1. store' = store /\ log' = log /\ cursor' = cursor
  BY DEF Receive, Ingest, Subscribe, StreamBreaks, agentVars
<1>2. budget' \in [calls : Nat, faults : Nat, breaks : Nat]
  BY SpendType
  DEF RunsInv, TypeOK, Receive, Ingest, Subscribe, StreamBreaks, agentVars
<1>3. bridge' \in [Runs -> BridgeSteps] /\ receiver' \in Runs \cup {NoRun}
      /\ accepted' \subseteq Runs
  BY DEF RunsInv, TypeOK, Receive, Ingest, Subscribe, StreamBreaks, BridgeTo,
         Refuse, BridgeSteps, agentVars
<1> QED BY <1>1, <1>2, <1>3 DEF RunsInv, TypeOK, Sound

LEMMA CrashRuns == ASSUME RunsInv, Crash PROVE RunsInv'
<1>1. store' \in [Runs -> RunRecord] /\ \A q \in Runs : Sound(store'[q])
  BY AbsentSound DEF RunsInv, TypeOK, Crash, Sound
<1>2. budget' \in [calls : Nat, faults : Nat, breaks : Nat]
  BY SpendType DEF RunsInv, TypeOK, Crash
<1>3. bridge' \in [Runs -> BridgeSteps]
  BY DEF RunsInv, TypeOK, Crash, BridgeSteps
<1> QED BY <1>1, <1>2, <1>3 DEF RunsInv, TypeOK, Crash, agentVars

LEMMA AgentRuns ==
  ASSUME RunsInv, NEW r \in Runs, NEW event \in AgentEvent, AgentReports(r, event)
  PROVE  RunsInv'
  BY DEF RunsInv, TypeOK, AgentReports, bridgeVars, Sound

LEMMA NextRuns == RunsInv /\ [Next]_vars => RunsInv'
<1> SUFFICES ASSUME RunsInv, [Next]_vars PROVE RunsInv'
  OBVIOUS
<1>1. ASSUME NEW r \in Runs, BridgeStep(r) \/ StreamBreaks(r) PROVE RunsInv'
  BY <1>1, BridgeRuns, BridgeStartRuns, ProjectRuns DEF BridgeStep
<1>2. ASSUME NEW r \in Runs, CancelRun(r) PROVE RunsInv'
  BY <1>2, CancelRunRuns
<1>3. ASSUME NEW r \in Runs, NEW n \in 0..MaxSteps, StartRun(r, n) PROVE RunsInv'
  BY <1>3, StartRunRuns
<1>4. ASSUME NEW r \in Runs, NEW i \in DOMAIN store[r].steps,
             NEW state \in {"running"} \cup Ended, NEW iteration \in Iterations,
             AdvanceStep(r, i, state, iteration)
      PROVE  RunsInv'
  BY <1>4, AdvanceStepRuns
<1>5. ASSUME NEW r \in Runs, NEW state \in {"running"} \cup Ended,
             AgentReports(r, [state |-> state, iteration |-> 0])
      PROVE  RunsInv'
  <2>1. [state |-> state, iteration |-> 0] \in AgentEvent
    BY DEF AgentEvent
  <2> QED BY <1>5, <2>1, AgentRuns
<1>6. ASSUME NEW r \in Runs, NEW iteration \in Iterations,
             AgentReports(r, [state |-> "progress", iteration |-> iteration])
      PROVE  RunsInv'
  <2>1. [state |-> "progress", iteration |-> iteration] \in AgentEvent
    BY LoopAssumption DEF AgentEvent
  <2> QED BY <1>6, <2>1, AgentRuns
<1>7. CASE Crash
  BY <1>7, CrashRuns
<1>8. CASE UNCHANGED vars
  BY <1>8 DEF vars, RunsInv, TypeOK, Sound
<1> QED BY <1>1, <1>2, <1>3, <1>4, <1>5, <1>6, <1>7, <1>8 DEF Next

LEMMA RunsInvariant == Spec => []RunsInv
  BY InitRuns, NextRuns, PTL DEF Spec

\* Every reachable state of LoopCore is well typed.
THEOREM LoopTypeCorrect == Spec => []TypeOK
<1>1. RunsInv => TypeOK
  BY DEF RunsInv
<1> QED BY <1>1, RunsInvariant, PTL

\* Whatever order clients and the bridge advance a run's steps in, and whatever
\* fails meanwhile, a run's state agrees with its steps (service.go:135-204).
THEOREM LoopStepsTellRun == Spec => []StepsTellRun
<1>1. RunsInv => StepsTellRun
  BY DEF RunsInv, StepsTellRun, Sound
<1> QED BY <1>1, RunsInvariant, PTL

-----------------------------------------------------------------------------
\* With PostgreSQL a run is written only by a handler that found it unsettled.
LEMMA WhoWrites ==
  ASSUME Durable, RunsInv, [Next]_vars, NEW q \in Runs, store'[q] # store[q]
  PROVE  \/ store[q].state = "none" /\ \E n \in Nat : store'[q] = NewRun(n)
         \/ /\ store[q].state = "running"
            /\ \/ store'[q] = Cancelled(store[q])
               \/ \E i \in DOMAIN store[q].steps, st \in {"running"} \cup Ended,
                     it \in Nat : store'[q] = Advanced(store[q], i, st, it)
<1> DEFINE Made    == store[q].state = "none" /\ \E n \in Nat : store'[q] = NewRun(n)
           Moved   == \E i \in DOMAIN store[q].steps, st \in {"running"} \cup Ended,
                        it \in Nat : store'[q] = Advanced(store[q], i, st, it)
           Stopped == store'[q] = Cancelled(store[q])
           Goal    == Made \/ (store[q].state = "running" /\ (Stopped \/ Moved))
<1>0. store \in [Runs -> RunRecord] /\ Sound(store[q])
  BY DEF RunsInv, TypeOK
<1>1. ASSUME NEW r \in Runs, NEW n \in 0..MaxSteps, StartRun(r, n) PROVE Goal
  BY <1>0, <1>1, LoopAssumption DEF StartRun, Called
<1>2. ASSUME NEW r \in Runs, NEW i \in DOMAIN store[r].steps,
             NEW st \in {"running"} \cup Ended, NEW it \in Iterations,
             AdvanceStep(r, i, st, it)
      PROVE  Goal
  <2>1. r = q /\ store'[q] = Advanced(store[q], i, st, it)
    BY <1>0, <1>2 DEF AdvanceStep, Called
  <2>2. store[q].state = "running" /\ it \in Nat
    BY <1>0, <1>2, <2>1, ChangeableRuns, LoopAssumption DEF AdvanceStep
  <2> QED BY <2>1, <2>2
<1>3. ASSUME NEW r \in Runs, CancelRun(r) PROVE Goal
  <2>1. r = q /\ store'[q] = Cancelled(store[q])
    BY <1>0, <1>3 DEF CancelRun, Called
  <2> QED BY <1>0, <1>3, <2>1, ChangeableRuns DEF CancelRun
<1>4. ASSUME NEW r \in Runs, BridgeStart(r) PROVE Goal
  <2>1. store' = [store EXCEPT ![r] = NewRun(1)] /\ store[r].state = "none"
    BY <1>4 DEF BridgeStart
  <2>2. r = q
    BY <1>0, <2>1
  <2>3. store'[q] = NewRun(1) /\ store[q].state = "none"
    BY <1>0, <2>1, <2>2
  <2> QED BY <2>3
<1>5. ASSUME NEW r \in Runs, Project(r) PROVE Goal
  <2> DEFINE event == log[r][cursor[r] + 1]
             st    == IF event.state \in Ended THEN event.state ELSE "running"
  <2>1. event \in AgentEvent
    BY <1>5 DEF RunsInv, TypeOK, Project
  <2>2. store' = [store EXCEPT ![r] = Projection(store[r], event)]
    BY <1>5 DEF Project
  <2>3. r = q /\ store'[q] = Projection(store[q], event)
    BY <1>0, <2>2
  <2>4. Changeable(store[q])
        /\ store'[q] = Advanced(store[q], 1, st, event.iteration)
    BY <2>3 DEF Projection
  <2>5. store[q].state = "running"
    BY <1>0, <2>4, ChangeableRuns
  <2>6. 1 \in DOMAIN store[q].steps
    BY <1>0, <2>5 DEF Sound, RunRecord
  <2>7. st \in {"running"} \cup Ended /\ event.iteration \in Nat
    BY <2>1 DEF AgentEvent
  <2> QED BY <2>4, <2>5, <2>6, <2>7
<1>6. ASSUME NEW r \in Runs, Receive(r) \/ Ingest(r) \/ Subscribe(r) \/ StreamBreaks(r)
      PROVE  FALSE
  BY <1>6 DEF Receive, Ingest, Subscribe, StreamBreaks
<1>7. ASSUME NEW r \in Runs, NEW event, AgentReports(r, event) PROVE FALSE
  BY <1>7 DEF AgentReports
<1>8. CASE Crash \/ UNCHANGED vars
  BY <1>8 DEF Crash, vars
<1> QED BY <1>1, <1>2, <1>3, <1>4, <1>5, <1>6, <1>7, <1>8 DEF Next, BridgeStep

\* With PostgreSQL a settled run stays as it is, through any interleaving of
\* clients, bridge, crashes and store errors (service.go:151-154, 220).
THEOREM LoopSettledStays == ASSUME Durable PROVE Spec => SettledStays
<1>1. ASSUME RunsInv, [Next]_vars
      PROVE  [\A r \in Runs : store[r].state \in Settled => store'[r] = store[r]]_vars
  BY <1>1, WhoWrites DEF Settled
<1> QED BY <1>1, RunsInvariant, PTL DEF Spec, SettledStays

-----------------------------------------------------------------------------
\* AdvanceStep keeps the number of steps, and ends a run of one step with it.
LEMMA AdvancedShape ==
  ASSUME NEW run, Sound(run), run.state = "running", NEW i \in DOMAIN run.steps,
         NEW st \in {"running"} \cup Ended, NEW it \in Nat
  PROVE  /\ Len(Advanced(run, i, st, it).steps) = Len(run.steps)
         /\ Advanced(run, i, st, it).state # "none"
         /\ Len(run.steps) = 1 /\ st \in Ended =>
              Advanced(run, i, st, it).state \in Settled
<1> DEFINE new == Advanced(run, i, st, it)
<1>0. run \in RunRecord /\ run.steps \in Seq(StepStates) /\ i \in 1..Len(run.steps)
  BY DEF Sound, RunRecord
<1>1. ASSUME new = StepFailed(run, i, it)
      PROVE  Len(new.steps) = Len(run.steps) /\ new.state = "failed"
  <2>1. new.steps = [run.steps EXCEPT ![i] = "failed"] /\ new.state = "failed"
    BY <1>0, <1>1 DEF StepFailed, RunRecord
  <2> QED BY <1>0, <2>1, SetStep DEF StepStates
<1>2. CASE (Limit > 0 /\ it > Limit) \/ st = "failed"
  BY <1>1, <1>2 DEF Advanced, Settled
<1>3. CASE ~(Limit > 0 /\ it > Limit) /\ st = "running"
  <2>1. new = [run EXCEPT !.steps[i] = "running", !.iteration = it]
    BY <1>3 DEF Advanced
  <2>2. new.steps = [run.steps EXCEPT ![i] = "running"] /\ new.state = run.state
    BY <1>0, <2>1 DEF RunRecord
  <2> QED BY <1>0, <1>3, <2>2, SetStep DEF StepStates, Ended
<1>4. CASE ~(Limit > 0 /\ it > Limit) /\ st = "final"
  <2> DEFINE done == [run.steps EXCEPT ![i] = "final"]
  <2>1. new = StepFinal(run, i, it)
    BY <1>4 DEF Advanced
  <2>2. done \in Seq(StepStates) /\ Len(done) = Len(run.steps)
        /\ DOMAIN done = 1..Len(run.steps)
    BY <1>0, SetStep DEF StepStates
  <2>3. CASE i < Len(run.steps)
    <3>1. new.steps = [done EXCEPT ![i + 1] = "running"] /\ new.state = run.state
      BY <1>0, <2>1, <2>3 DEF StepFinal, RunRecord
    <3>2. i + 1 \in DOMAIN done
      BY <1>0, <2>2, <2>3
    <3>3. Len(new.steps) = Len(run.steps)
      BY <2>2, <3>1, <3>2, SetStep DEF StepStates
    <3> QED BY <1>0, <2>3, <3>1, <3>3
  <2>4. CASE ~(i < Len(run.steps))
    <3>1. new.steps = done /\ new.state = "final"
      BY <1>0, <2>1, <2>4 DEF StepFinal, RunRecord
    <3> QED BY <2>2, <3>1 DEF Settled
  <2> QED BY <2>3, <2>4
<1> QED BY <1>2, <1>3, <1>4 DEF Ended

\* A started run stays started, and keeps its number of steps.
LEMMA ShapeStays ==
  ASSUME Durable, RunsInv, [Next]_vars, NEW q \in Runs, store[q].state # "none"
  PROVE  store'[q].state # "none" /\ Len(store'[q].steps) = Len(store[q].steps)
<1>0. store[q] \in RunRecord /\ Sound(store[q])
  BY DEF RunsInv, TypeOK
<1>1. CASE store'[q] = store[q]
  BY <1>1
<1>2. CASE store'[q] = Cancelled(store[q])
  BY <1>0, <1>2 DEF Cancelled, RunRecord
<1>3. ASSUME store[q].state = "running",
             NEW i \in DOMAIN store[q].steps, NEW st \in {"running"} \cup Ended,
             NEW it \in Nat, store'[q] = Advanced(store[q], i, st, it)
      PROVE  store'[q].state # "none" /\ Len(store'[q].steps) = Len(store[q].steps)
  BY <1>0, <1>3, AdvancedShape
<1> QED BY <1>1, <1>2, <1>3, WhoWrites

\* The strengthening of BridgeSettles: while a projector is at work its run
\* exists and has the single step "agent", so a terminal event ends it.  It holds
\* up to the first store error.
BridgeHolds ==
  \A r \in Runs :
    /\ bridge[r] \in {"subscribe", "project"} =>
         store[r].state # "none" /\ Len(store[r].steps) = 1
    /\ bridge[r] = "done" => store[r].state \in Settled

BridgeInv == budget.faults <= MaxFaults /\ (StoreFailed \/ BridgeHolds)

\* Where a projector comes from and where it goes to.
LEMMA BridgeMoves ==
  ASSUME RunsInv, [Next]_vars, NEW q \in Runs,
         budget'.faults = budget.faults,
         bridge'[q] \in {"subscribe", "project", "done"}
  PROVE  \/ bridge'[q] = "subscribe" /\ store'[q] = NewRun(1)
         \/ bridge[q] \in {"subscribe", "project"} /\ bridge'[q] # "done"
         \/ bridge[q] = "project" /\ Project(q)
         \/ bridge[q] = "done" /\ bridge'[q] = "done"
<1> DEFINE Goal == \/ bridge'[q] = "subscribe" /\ store'[q] = NewRun(1)
                   \/ bridge[q] \in {"subscribe", "project"} /\ bridge'[q] # "done"
                   \/ bridge[q] = "project" /\ Project(q)
                   \/ bridge[q] = "done" /\ bridge'[q] = "done"
<1>0. store \in [Runs -> RunRecord] /\ bridge \in [Runs -> BridgeSteps]
      /\ budget \in [calls : Nat, faults : Nat, breaks : Nat]
  BY DEF RunsInv, TypeOK
<1>1. CASE bridge' = bridge
  BY <1>1
<1>2. ASSUME NEW r \in Runs, BridgeStart(r) PROVE Goal
  <2>1. ~Spend("faults")
    BY <1>0, SpendType
  <2>2. CASE bridge' = [bridge EXCEPT ![r] = "refused"]
    BY <1>0, <2>2
  <2>3. CASE /\ bridge' = [bridge EXCEPT ![r] = "subscribe"]
             /\ store' = [store EXCEPT ![r] = NewRun(1)]
    BY <1>0, <1>2, <2>3 DEF BridgeStart
  <2> QED BY <1>2, <2>1, <2>2, <2>3 DEF BridgeStart, BridgeTo, Refuse
<1>3. ASSUME NEW r \in Runs, Project(r) PROVE Goal
  BY <1>0, <1>3 DEF Project, BridgeTo
<1>4. ASSUME NEW r \in Runs, Receive(r) \/ Ingest(r) \/ Subscribe(r) \/ StreamBreaks(r)
      PROVE  Goal
  BY <1>0, <1>4 DEF Receive, Ingest, Subscribe, StreamBreaks, BridgeTo, Refuse
<1>5. CASE Crash
  BY <1>0, <1>5 DEF Crash
<1>6. ASSUME NEW r \in Runs, NEW event, AgentReports(r, event) PROVE Goal
  BY <1>1, <1>6 DEF AgentReports, bridgeVars
<1>7. ASSUME NEW r \in Runs, NEW run, Called(r, run) PROVE Goal
  BY <1>1, <1>7 DEF Called, bridgeVars
<1>8. CASE UNCHANGED vars
  BY <1>1, <1>8 DEF vars
<1> QED BY <1>2, <1>3, <1>4, <1>5, <1>6, <1>7, <1>8
        DEF Next, BridgeStep, StartRun, AdvanceStep, CancelRun

LEMMA FaultsOnlyFall ==
  ASSUME RunsInv, [Next]_vars PROVE budget'.faults <= budget.faults
<1>0. budget \in [calls : Nat, faults : Nat, breaks : Nat]
  BY DEF RunsInv, TypeOK
<1>1. ASSUME NEW kind \in {"calls", "faults", "breaks"}, Spend(kind)
      PROVE  budget'.faults <= budget.faults
  BY <1>0, <1>1, SpendType
<1>2. CASE budget' = budget
  BY <1>0, <1>2
<1> QED BY <1>1, <1>2
        DEF Next, BridgeStep, Receive, Ingest, BridgeStart, Subscribe, Project,
            StreamBreaks, Crash, AgentReports, StartRun, AdvanceStep, CancelRun,
            Called, vars

\* A terminal event settles a run of one step.
LEMMA ProjectSettles ==
  ASSUME RunsInv, NEW q \in Runs, Project(q), budget'.faults = budget.faults,
         store[q].state # "none", Len(store[q].steps) = 1, bridge'[q] = "done"
  PROVE  store'[q].state \in Settled
<1> DEFINE event == log[q][cursor[q] + 1]
<1>0. /\ store \in [Runs -> RunRecord] /\ bridge \in [Runs -> BridgeSteps]
      /\ budget \in [calls : Nat, faults : Nat, breaks : Nat]
      /\ Sound(store[q])
  BY DEF RunsInv, TypeOK
<1>1. event \in AgentEvent
  BY DEF RunsInv, TypeOK, Project
<1>2. event.state \in Ended
  BY <1>0 DEF Project, BridgeTo
<1>3. store'[q] = Projection(store[q], event)
  <2>1. ~Spend("faults")
    BY <1>0, SpendType
  <2> QED BY <1>0, <2>1 DEF Project
<1>4. CASE store[q].state \in Settled
  BY <1>3, <1>4 DEF Projection, Changeable
<1>5. CASE store[q].state \notin Settled
  <2>1. Changeable(store[q]) /\ store[q].state = "running"
    BY <1>0, <1>5, ChangeableRuns DEF Changeable
  <2>2. store'[q] = Advanced(store[q], 1, event.state, event.iteration)
    BY <1>2, <1>3, <2>1 DEF Projection, Ended
  <2>3. 1 \in DOMAIN store[q].steps
    BY <1>0 DEF Sound, RunRecord
  <2>4. event.iteration \in Nat /\ event.state \in {"running"} \cup Ended
    BY <1>1, <1>2 DEF AgentEvent
  <2>5. Advanced(store[q], 1, event.state, event.iteration).state \in Settled
    <3> HIDE DEF event
    <3> QED BY <1>0, <1>2, <2>1, <2>3, <2>4, AdvancedShape
  <2> QED BY <2>2, <2>5
<1> QED BY <1>4, <1>5

LEMMA NextBridge ==
  ASSUME Durable, RunsInv, BridgeInv, [Next]_vars PROVE BridgeInv'
<1>0. /\ budget'.faults <= budget.faults
      /\ budget.faults \in Nat /\ budget'.faults \in Nat /\ MaxFaults \in Nat
  BY FaultsOnlyFall, NextRuns, LoopAssumption DEF RunsInv, TypeOK
<1>1. CASE StoreFailed \/ StoreFailed'
  BY <1>0, <1>1 DEF BridgeInv, StoreFailed
<1>2. CASE ~StoreFailed /\ ~StoreFailed'
  <2>1. BridgeHolds /\ budget'.faults = budget.faults
    BY <1>0, <1>2 DEF BridgeInv, StoreFailed
  <2>2. ASSUME NEW q \in Runs, bridge'[q] \in {"subscribe", "project"}
        PROVE  store'[q].state # "none" /\ Len(store'[q].steps) = 1
    <3>1. CASE store'[q] = NewRun(1)
      BY <3>1 DEF NewRun
    <3>2. CASE bridge[q] \in {"subscribe", "project"}
      BY <2>1, <3>2, ShapeStays DEF BridgeHolds
    <3> QED BY <2>1, <2>2, <3>1, <3>2, BridgeMoves
  <2>3. ASSUME NEW q \in Runs, bridge'[q] = "done"
        PROVE  store'[q].state \in Settled
    <3>1. CASE bridge[q] = "done"
      BY <2>1, <3>1, WhoWrites DEF BridgeHolds, Settled
    <3>2. CASE bridge[q] = "project" /\ Project(q)
      BY <2>1, <2>3, <3>2, ProjectSettles DEF BridgeHolds
    <3> QED BY <2>1, <2>3, <3>1, <3>2, BridgeMoves
  <2> QED BY <1>0, <2>1, <2>2, <2>3 DEF BridgeInv, BridgeHolds
<1> QED BY <1>1, <1>2

\* With PostgreSQL a run whose projector has seen the agent's terminal event is
\* settled, whatever clients, broken streams and crashes did meanwhile, up to the
\* first store error, which the bridge drops (bridge.go:134-162).
THEOREM LoopBridgeSettles ==
  ASSUME Durable PROVE Spec => []BridgeSettles
<1>1. Init => BridgeInv
  BY LoopAssumption DEF Init, BridgeInv, BridgeHolds
<1>2. RunsInv /\ BridgeInv /\ [Next]_vars => BridgeInv'
  BY NextBridge
<1>3. BridgeInv => BridgeSettles
  BY DEF BridgeInv, BridgeHolds, BridgeSettles
<1> QED BY <1>1, <1>2, <1>3, RunsInvariant, PTL DEF Spec
=============================================================================
