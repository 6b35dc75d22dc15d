------------------------------- MODULE LoopRun -------------------------------
(***************************************************************************)
(* LoopCore: the runs and steps kept by its service                        *)
(* (internal/application/loop/service.go) and the bridge that starts a run *)
(* for every inbound message and advances it from the agent's events       *)
(* (internal/bootstrap/loopcore/bridge.go).                                *)
(*                                                                         *)
(* Every handler holds Service.mu from its Get to its Put, so it is one    *)
(* step here; what interleaves are the handlers, the bridge's receiver and *)
(* its projectors, the agent, and clients that advance or cancel a run.    *)
(* Outputs, errors' texts and the message's content are left out.          *)
(***************************************************************************)
EXTENDS Naturals, Sequences, FiniteSets

CONSTANTS
  Runs,          \* run ids: the bridge uses the inbound message's id
  NoRun,
  MaxSteps,      \* bound: steps of a run a client starts
  Limit,         \* the steps' MaxIterations, 0 for no limit (the bridge's is 1)
  Iterations,    \* iterations that clients and the agent report
  Durable,       \* PostgreSQL store, or memory
  MaxEvents,     \* bound: events in a task's log
  MaxCalls,      \* bound: AdvanceStep and CancelRun calls of clients
  MaxFaults,     \* bound: failed or half-failed stores
  MaxBreaks      \* bound: broken streams and calls, and crashes

ASSUME LoopAssumption ==
  /\ NoRun \notin Runs
  /\ MaxSteps \in Nat /\ Limit \in Nat /\ Iterations \subseteq Nat
  /\ Durable \in BOOLEAN
  /\ MaxEvents \in Nat /\ MaxCalls \in Nat /\ MaxFaults \in Nat /\ MaxBreaks \in Nat

VARIABLES
  store,         \* store[r]: the stored run
  receiver,      \* the message the bridge's receiver is working on, or NoRun
  bridge,        \* bridge[r]: what the bridge has done for message r
  cursor,        \* cursor[r]: events of the agent the projector has received
  accepted,      \* tasks GateCore has accepted
  log,           \* log[r]: the agent's events for the task of message r
  budget         \* what is left of the bounds

vars == <<store, receiver, bridge, cursor, accepted, log, budget>>
bridgeVars == <<receiver, bridge, cursor>>
agentVars  == <<accepted, log>>

StepStates == {"queued", "running", "final", "failed"}
Settled    == {"final", "failed", "cancelled"}
Ended      == {"final", "failed"}
RunRecord  == [state : {"none", "running"} \cup Settled, current : Nat,
               iteration : Nat, steps : Seq(StepStates)]
AgentEvent == [state : {"running", "progress"} \cup Ended, iteration : Nat]

\* "refused": the user was told that the message failed; "lost": the stream broke.
BridgeSteps == {"off", "ingest", "start", "subscribe", "project", "done",
                "refused", "lost"}

TypeOK ==
  /\ store \in [Runs -> RunRecord]
  /\ receiver \in Runs \cup {NoRun}
  /\ bridge \in [Runs -> BridgeSteps]
  /\ cursor \in [Runs -> Nat]
  /\ accepted \subseteq Runs
  /\ log \in [Runs -> Seq(AgentEvent)]
  /\ budget \in [calls : Nat, faults : Nat, breaks : Nat]

Absent == [state |-> "none", current |-> 0, iteration |-> 0, steps |-> <<>>]

Init ==
  /\ store = [r \in Runs |-> Absent]
  /\ receiver = NoRun
  /\ bridge = [r \in Runs |-> "off"]
  /\ cursor = [r \in Runs |-> 0]
  /\ accepted = {}
  /\ log = [r \in Runs |-> <<>>]
  /\ budget = [calls |-> MaxCalls, faults |-> MaxFaults, breaks |-> MaxBreaks]

Spend(kind) ==
  /\ budget[kind] > 0
  /\ budget' = [budget EXCEPT ![kind] = @ - 1]

-----------------------------------------------------------------------------
\* The service.

NewRun(n) ==
  [state |-> IF n = 0 THEN "final" ELSE "running",
   current |-> IF n = 0 THEN 0 ELSE 1,
   iteration |-> 0,
   steps |-> [i \in 1..n |-> IF i = 1 THEN "running" ELSE "queued"]]

StepFailed(run, i, iteration) ==
  [run EXCEPT !.steps[i] = "failed", !.state = "failed", !.iteration = iteration]

\* Mutant: the next step is not set running.
StepFinalAlone(run, i, iteration) ==
  IF i < Len(run.steps)
  THEN [run EXCEPT !.steps[i] = "final", !.current = i + 1, !.iteration = iteration]
  ELSE [run EXCEPT !.steps[i] = "final", !.current = 0, !.state = "final",
                   !.iteration = iteration]

StepFinal(run, i, iteration) ==
  IF i < Len(run.steps)
  THEN [run EXCEPT !.steps[i] = "final", !.steps[i + 1] = "running",
                   !.current = i + 1, !.iteration = iteration]
  ELSE [run EXCEPT !.steps[i] = "final", !.current = 0, !.state = "final",
                   !.iteration = iteration]

\* What AdvanceStep makes of a run that is not settled: any step may be
\* advanced, the current one or not, a finished one too.
Advanced(run, i, state, iteration) ==
  IF Limit > 0 /\ iteration > Limit THEN StepFailed(run, i, iteration)
  ELSE CASE state = "running" ->
              [run EXCEPT !.steps[i] = "running", !.iteration = iteration]
         [] state = "failed" -> StepFailed(run, i, iteration)
         [] state = "final"  -> StepFinal(run, i, iteration)

\* Mutant: another spelling than the one the other handlers look for.
CancelledMisspelt(run) == [run EXCEPT !.state = "canceled"]

Cancelled(run) == [run EXCEPT !.state = "cancelled"]

\* Mutant: a finished run may still be changed.
ChangeableUnlessCancelled(run) == run.state \notin {"none", "cancelled"}

\* A settled run answers with its state and is not written.
Changeable(run) == run.state \notin {"none"} \cup Settled

\* Calls of a client.  When the store fails in one, the run is as if the call had
\* not been made, or as if it had (the reply to the write was lost).
Called(r, run) ==
  /\ Spend("calls")
  /\ store' = [store EXCEPT ![r] = run]
  /\ UNCHANGED <<bridgeVars, agentVars>>

StartRun(r, n) == store[r].state = "none" /\ Called(r, NewRun(n))

AdvanceStep(r, i, state, iteration) ==
  Changeable(store[r]) /\ Called(r, Advanced(store[r], i, state, iteration))

CancelRun(r) == Changeable(store[r]) /\ Called(r, Cancelled(store[r]))

-----------------------------------------------------------------------------
\* The bridge: one receiver for all messages, one projector per started run.

BridgeTo(r, step) == bridge' = [bridge EXCEPT ![r] = step]

\* The receiver gives up on a message: the placeholder says so.
Refuse(r) == BridgeTo(r, "refused") /\ receiver' = NoRun

\* stream.Recv and PrepareInbound, whose failure changes nothing here; when Recv
\* fails the receiver returns, and no further message is received.
Receive(r) ==
  /\ receiver = NoRun
  /\ bridge[r] = "off"
  /\ receiver' = r
  /\ BridgeTo(r, "ingest")
  /\ UNCHANGED <<store, cursor, agentVars, budget>>

\* GateCore accepts the message as a task, or its answer is an error: with the
\* task refused or, the answer lost, accepted.
Ingest(r) ==
  /\ bridge[r] = "ingest"
  /\ \/ /\ accepted' = accepted \cup {r}
        /\ BridgeTo(r, "start")
        /\ UNCHANGED <<receiver, budget>>
     \/ /\ Spend("breaks")
        /\ accepted' \in {accepted, accepted \cup {r}}
        /\ Refuse(r)
  /\ UNCHANGED <<store, cursor, log>>

\* StartRun with the single step "agent"; the run may exist already.
BridgeStart(r) ==
  /\ bridge[r] = "start"
  /\ \/ /\ store[r].state = "none"
        /\ store' = [store EXCEPT ![r] = NewRun(1)]
        /\ BridgeTo(r, "subscribe")
        /\ receiver' = NoRun
        /\ UNCHANGED budget
     \/ /\ store[r].state # "none"
        /\ Refuse(r)
        /\ UNCHANGED <<store, budget>>
     \/ /\ Durable
        /\ Spend("faults")
        /\ \/ UNCHANGED store
           \/ /\ store[r].state = "none"
              /\ store' = [store EXCEPT ![r] = NewRun(1)]
        /\ Refuse(r)
  /\ UNCHANGED <<cursor, agentVars>>

Subscribe(r) ==
  /\ bridge[r] = "subscribe"
  /\ BridgeTo(r, "project")
  /\ UNCHANGED <<store, receiver, cursor, agentVars, budget>>

\* Mutant: a failed event counts as progress.
ProjectionOfFinalOnly(run, event) ==
  IF event.state = "running" \/ ~Changeable(run) THEN run
  ELSE Advanced(run, 1, IF event.state = "final" THEN "final" ELSE "running",
                event.iteration)

\* What an event of the agent makes of the run: "running" is skipped, progress is
\* a running step.
Projection(run, event) ==
  IF event.state = "running" \/ ~Changeable(run) THEN run
  ELSE Advanced(run, 1, IF event.state \in Ended THEN event.state ELSE "running",
                event.iteration)

\* An error of AdvanceStep is dropped; a terminal event ends the projector.
Project(r) ==
  LET event == log[r][cursor[r] + 1]
      run   == Projection(store[r], event) IN
  /\ bridge[r] = "project"
  /\ cursor[r] < Len(log[r])
  /\ cursor' = [cursor EXCEPT ![r] = @ + 1]
  /\ BridgeTo(r, IF event.state \in Ended THEN "done" ELSE "project")
  /\ \/ store' = [store EXCEPT ![r] = run] /\ UNCHANGED budget
     \/ /\ Durable
        /\ Spend("faults")
        /\ UNCHANGED store
  /\ UNCHANGED <<receiver, agentVars>>

\* Subscribing fails or the stream breaks; nobody subscribes again.
StreamBreaks(r) ==
  /\ bridge[r] \in {"subscribe", "project"}
  /\ Spend("breaks")
  /\ BridgeTo(r, "lost")
  /\ UNCHANGED <<store, receiver, cursor, agentVars>>

\* LoopCore dies and is started again: a message it was working on is not
\* delivered again, and no projector is started for a run it finds.
Crash ==
  /\ Spend("breaks")
  /\ store' = IF Durable THEN store ELSE [r \in Runs |-> Absent]
  /\ receiver' = NoRun
  /\ bridge' = [r \in Runs |->
                  IF bridge[r] \in {"ingest", "start", "subscribe", "project"}
                  THEN "lost" ELSE bridge[r]]
  /\ UNCHANGED <<cursor, agentVars>>

-----------------------------------------------------------------------------
\* The agent, for tasks GateCore has accepted; a resumed task goes on after
\* its failure.
AgentReports(r, event) ==
  /\ r \in accepted
  /\ Len(log[r]) < MaxEvents
  /\ log[r] = <<>> => event.state = "running"
  /\ log' = [log EXCEPT ![r] = Append(@, event)]
  /\ UNCHANGED <<store, bridgeVars, accepted, budget>>

BridgeStep(r) ==
  Receive(r) \/ Ingest(r) \/ BridgeStart(r) \/ Subscribe(r) \/ Project(r)

Next ==
  \/ \E r \in Runs :
       \/ BridgeStep(r) \/ StreamBreaks(r) \/ CancelRun(r)
       \/ \E n \in 0..MaxSteps : StartRun(r, n)
       \/ \E i \in DOMAIN store[r].steps, state \in {"running"} \cup Ended,
             iteration \in Iterations : AdvanceStep(r, i, state, iteration)
       \/ \E state \in {"running"} \cup Ended :
             AgentReports(r, [state |-> state, iteration |-> 0])
       \/ \E iteration \in Iterations :
             AgentReports(r, [state |-> "progress", iteration |-> iteration])
  \/ Crash

Spec == Init /\ [][Next]_vars

\* The bridge's goroutines run; messages, clients and the agent owe nothing.
FairSpec ==
  /\ Spec
  /\ \A r \in Runs : WF_vars(Project(r) \/ Subscribe(r))

-----------------------------------------------------------------------------
(***************************************************************************)
(* Properties.                                                             *)
(***************************************************************************)

\* A run's state and its steps tell the same story, although AdvanceStep takes
\* the steps in any order and more than once (service.go:135-204): a running
\* run's current step runs, a run failed exactly when one of its steps did,
\* and a final run's last step is final.
StepsTellRun ==
  \A r \in Runs :
    LET run == store[r] IN
    /\ run.state = "running" =>
         run.current \in DOMAIN run.steps /\ run.steps[run.current] = "running"
    /\ run.state = "failed" <=> \E i \in DOMAIN run.steps : run.steps[i] = "failed"
    /\ run.state = "final" /\ run.steps # <<>> => run.steps[Len(run.steps)] = "final"

\* A settled run stays as it is, whoever still advances, cancels or projects
\* (service.go:151-154, 220).
SettledStays ==
  [][\A r \in Runs : store[r].state \in Settled => store'[r] = store[r]]_vars

\* The bridge drops the errors of AdvanceStep, so what it promises of a run ends
\* with the first store error.
StoreFailed == budget.faults < MaxFaults

\* When the projector has seen the agent's terminal event, the run is settled,
\* whatever the clients did to it meanwhile (bridge.go:134-162).
BridgeSettles ==
  \A r \in Runs : bridge[r] = "done" => store[r].state \in Settled \/ StoreFailed

\* A run whose agent has ended is settled, unless its stream broke: nothing
\* opens it again (bridge.go:133-142).
RunEnds ==
  \A r \in Runs :
    (bridge[r] = "project" /\ \E i \in DOMAIN log[r] : log[r][i].state \in Ended)
      ~> (store[r].state \in Settled \/ bridge[r] = "lost" \/ StoreFailed)
=============================================================================
