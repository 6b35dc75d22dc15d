------------------------------ MODULE GateCore -------------------------------
(***************************************************************************)
(* GateCore's task service (internal/application/gate/service.go) with the *)
(* AgentRuntime client it executes tasks through                           *)
(* (internal/infrastructure/agentclient/client.go) and the agent's side of *)
(* ExecuteTask (internal/application/agent/service.go).                    *)
(*                                                                         *)
(* Actors, each running its handler one store access at a time:            *)
(*   Callers  RPC goroutines: DispatchTask/IngestInbound, ApproveTask,     *)
(*            ResumeTask and CancelTask;                                   *)
(*   Execs    execution goroutines, each started once by startExecution;   *)
(*   Boot     the gate.recovery start-up component (RecoverPending), which *)
(*            has to return before the RPC servers accept calls.           *)
(* Between two steps of an actor any other actor may run.                  *)
(***************************************************************************)
EXTENDS GateStore

CONSTANTS
  Callers, Execs, Boot, NoExec,
  MaxResumes,   \* bound: ResumeTask calls that find a failed task
  MaxCrashes,   \* bound: crashes or restarts of the process
  MaxFaults     \* bound: store errors, lost commit replies and broken RPCs

ASSUME CoreAssumption ==
  /\ Callers \cap Execs = {}
  /\ Boot \notin Callers \cup Execs
  /\ NoExec \notin Execs
  /\ MaxResumes \in Nat /\ MaxCrashes \in Nat /\ MaxFaults \in Nat

Actors == Callers \cup Execs \cup {Boot}

VARIABLES
  actor,    \* actor[a]: program counter, task and the record it last read
  owed,     \* owed[a]: audit event a has still to append (memory build)
  seen,     \* seen[e]: sequence of the last event e received
  erred,    \* erred[e]: progressErr of e is set
  stopped,  \* executions whose context is done
  cancels,  \* cancels[t]: the execution CancelTask would stop
  listed,   \* entries RecoverPending has listed and not handled yet
  agent,    \* agent[e]: how far the agent is with e's ExecuteTask
  log,      \* log[t]: the agent's events for t; an event's sequence is its index
  budget    \* what is left of the bounds

vars == <<task, audit, outbox, actor, owed, seen, erred, stopped, cancels,
          listed, agent, log, budget>>
execVars  == <<seen, erred, stopped>>
agentVars == <<agent, log>>

\* States of a handler.  "apply", "save", "start", "fail" and "finish" hold a
\* snapshot they are about to write back, so do the callers' and Boot's writes.
CallerSteps == {"off", "approve", "resume", "cancel", "launch", "stop"}
BootSteps   == {"list", "recover", "requeue", "launch", "off", "halt"}
ExecSteps   == {"off", "spawned", "start", "subscribe", "receive", "project",
                "apply", "progress", "save", "dispatchProgress", "progressFailed",
                "respond", "failRead", "fail", "finishRead", "finish", "deliver",
                "exit", "done"}
\* The steps that run under the execution's context.
UnderContext == {"subscribe", "receive", "project", "apply", "progress", "save",
                 "dispatchProgress", "progressFailed", "respond"}

AgentStates == {"idle", "called", "running", "progress", "final", "failed"}
AgentEvent  == [kind : {"running", "progress", "final", "failed"}, run : Execs]

ActorState == [pc : CallerSteps \cup BootSteps \cup ExecSteps,
               task : Tasks \cup {NoTask}, rec : TaskRecord]
Entry == [task : Tasks, rec : TaskRecord]

Idle == [pc |-> "off", task |-> NoTask, rec |-> Blank]

TypeOK ==
  /\ task \in [Tasks -> TaskRecord]
  /\ audit \in [Tasks -> Seq(AuditEvent)]
  /\ outbox \in [Tasks -> Seq({"final", "progress"})]
  /\ actor \in [Actors -> ActorState]
  /\ owed \in [Actors -> AuditEvent]
  /\ seen \in [Execs -> Nat]
  /\ erred \in [Execs -> BOOLEAN]
  /\ stopped \subseteq Execs
  /\ cancels \in [Tasks -> Execs \cup {NoExec}]
  /\ listed \subseteq Entry
  /\ agent \in [Execs -> AgentStates]
  /\ log \in [Tasks -> Seq(AgentEvent)]
  /\ budget \in [resume : Nat, crash : Nat, fault : Nat]

Init ==
  /\ StoreInit
  /\ actor = [a \in Actors |-> IF a = Boot THEN [Idle EXCEPT !.pc = "list"] ELSE Idle]
  /\ owed = [a \in Actors |-> NoEvent]
  /\ seen = [e \in Execs |-> 0]
  /\ erred = [e \in Execs |-> FALSE]
  /\ stopped = {}
  /\ cancels = [t \in Tasks |-> NoExec]
  /\ listed = {}
  /\ agent = [e \in Execs |-> "idle"]
  /\ log = [t \in Tasks |-> <<>>]
  /\ budget = [resume |-> MaxResumes, crash |-> MaxCrashes, fault |-> MaxFaults]

------------------------------------------------------------------------------
\* Control of a handler.

\* A handler with an audit event to append does nothing else first.
At(a, pc) == actor[a].pc = pc /\ owed[a] = NoEvent
Serving == actor[Boot].pc = "off"

\* "launch" still needs the record: startExecution gets it as its entry.
Goto(a, pc) ==
  actor' = [actor EXCEPT ![a] =
    [pc |-> pc,
     task |-> IF pc \in {"off", "recover"} THEN NoTask ELSE @.task,
     rec |-> IF pc = "launch" THEN @.rec ELSE Blank]]

Hold(a, pc, t, record) ==
  actor' = [actor EXCEPT ![a] = [pc |-> pc, task |-> t, rec |-> record]]

Fault ==
  /\ budget.fault > 0
  /\ budget' = [budget EXCEPT !.fault = @ - 1]
StoreFault == Durable /\ Fault

\* transitionWithAudit and transitionWithAuditAndFinalDelivery, once the
\* compare succeeded: a transaction, or a swap and a debt of an audit event.
Persist(a, record, action, mail) ==
  LET event == [task |-> actor[a].task, action |-> action,
                from |-> actor[a].rec.state, to |-> record.state]
  IN IF Durable
     THEN CommitTx(record, event, mail) /\ UNCHANGED owed
     ELSE /\ PutRecord(event.task, record)
          /\ owed' = [owed EXCEPT ![a] = event]
          /\ UNCHANGED <<audit, outbox>>

\* Write back a record read earlier, if the state is still the one read.
\* The handler goes on to hit, miss or err; after a store error the commit may
\* or may not have happened.
Write(a, record, action, mail, hit, miss, err) ==
  \/ /\ Matches(actor[a].task, actor[a].rec.state)
     /\ Persist(a, record, action, mail)
     /\ \/ Goto(a, hit) /\ UNCHANGED budget
        \/ Goto(a, err) /\ StoreFault
  \/ /\ ~Matches(actor[a].task, actor[a].rec.state)
     /\ Goto(a, miss)
     /\ UNCHANGED <<task, audit, outbox, owed, budget>>
  \/ /\ StoreFault
     /\ Goto(a, err)
     /\ UNCHANGED <<task, audit, outbox, owed>>

\* recordAudit of the memory build.
FlushAudit(a) ==
  /\ owed[a] # NoEvent
  /\ AppendAudit(owed[a])
  /\ owed' = [owed EXCEPT ![a] = NoEvent]
  /\ UNCHANGED <<task, outbox, actor, execVars, cancels, listed, agentVars, budget>>

------------------------------------------------------------------------------
\* startExecution and the RPC handlers.

\* The cancel function replaces the one registered for the task, if any.
RegisterNothing(t, e) == UNCHANGED cancels   \* mutant: not registered
Register(t, e) == cancels' = [cancels EXCEPT ![t] = e]

\* A goroutine is born with a live context.
Launch(a, then) ==
  \E e \in Execs :
    /\ actor[e].pc = "off"
    /\ Register(actor[a].task, e)
    /\ actor' = [actor EXCEPT
         ![a] = IF then = "off" THEN Idle ELSE [Idle EXCEPT !.pc = then],
         ![e] = [pc |-> "spawned", task |-> actor[a].task, rec |-> Blank]]
    /\ seen' = [seen EXCEPT ![e] = actor[a].rec.lastSequence]
    /\ UNCHANGED <<storeVars, owed, erred, stopped, listed, agentVars, budget>>

StartExecution(a) ==
  /\ At(a, "launch")
  /\ Launch(a, IF a = Boot THEN "recover" ELSE "off")

\* The state a task is created in.
InitialStateUnapproved(t) == "queued"   \* mutant: require_approval is ignored
InitialState(t) == IF t \in NeedsApproval THEN "waiting_approval" ELSE "queued"

\* accept: s.mu is held from the lookup to the creation, so the two are one
\* step.  A known task is acknowledged and nothing changes.
Accept(c, t) ==
  LET state == InitialState(t)
      next  == IF state = "queued" THEN "launch" ELSE "off"
      event == [task |-> t, action |-> "created", from |-> "none", to |-> state]
      record == [Blank EXCEPT !.state = state]
  IN /\ At(c, "off") /\ Serving
     /\ task[t].state = "none"
     /\ IF Durable THEN CommitTx(record, event, <<>>) /\ UNCHANGED owed
                   ELSE /\ PutRecord(t, record)
                        /\ owed' = [owed EXCEPT ![c] = event]
                        /\ UNCHANGED <<audit, outbox>>
     /\ \/ Hold(c, next, IF next = "off" THEN NoTask ELSE t, Blank) /\ UNCHANGED budget
        \/ Goto(c, "off") /\ StoreFault
     /\ UNCHANGED <<execVars, cancels, listed, agentVars>>

\* Terminal for cancellation, projection and progress.
IsTerminalButCancelled(record) == record.state \in {"final", "failed"}   \* mutant
IsTerminal(record) == record.state \in Terminal

\* The lookup of a handler that found the task in a state it may change.
Lookup(c, t, pc) ==
  /\ At(c, "off") /\ Serving
  /\ Hold(c, pc, t, task[t])
  /\ UNCHANGED <<storeVars, owed, execVars, cancels, listed, agentVars>>

ApproveLookup(c, t) ==
  /\ t \in NeedsApproval /\ task[t].state = "waiting_approval"
  /\ Lookup(c, t, "approve")
  /\ UNCHANGED budget

ApproveWrite(c) ==
  /\ At(c, "approve")
  /\ Write(c, [actor[c].rec EXCEPT !.state = "queued", !.approved = TRUE],
           "approved", <<>>, "launch", "off", "off")
  /\ UNCHANGED <<execVars, cancels, listed, agentVars>>

ResumableSettled(t) == task[t].state \in {"failed", "final"}   \* mutant: final too
Resumable(t) == task[t].state = "failed"

ResumeLookup(c, t) ==
  /\ Resumable(t)
  /\ budget.resume > 0
  /\ budget' = [budget EXCEPT !.resume = @ - 1]
  /\ Lookup(c, t, "resume")

\* Mutant: the resumed task is not started.
ResumeWriteOnly(c) ==
  /\ At(c, "resume")
  /\ Write(c, [actor[c].rec EXCEPT !.state = "queued"],
           "resumed", <<>>, "off", "off", "off")
  /\ UNCHANGED <<execVars, cancels, listed, agentVars>>

ResumeWrite(c) ==
  /\ At(c, "resume")
  /\ Write(c, [actor[c].rec EXCEPT !.state = "queued"],
           "resumed", <<>>, "launch", "off", "off")
  /\ UNCHANGED <<execVars, cancels, listed, agentVars>>

CancelLookup(c, t) ==
  /\ task[t].state # "none" /\ ~IsTerminal(task[t])
  /\ Lookup(c, t, "cancel")
  /\ UNCHANGED budget

CancelWrite(c) ==
  /\ At(c, "cancel")
  /\ Write(c, [actor[c].rec EXCEPT !.state = "cancelled"],
           "cancelled", <<>>, "stop", "off", "off")
  /\ UNCHANGED <<execVars, cancels, listed, agentVars>>

\* The registered cancel function is called, whichever execution it belongs to.
CancelStop(c) ==
  LET t == actor[c].task
  IN /\ At(c, "stop")
     /\ Goto(c, "off")
     /\ stopped' = stopped \cup ({cancels[t]} \ {NoExec})
     /\ cancels' = [cancels EXCEPT ![t] = NoExec]
     /\ UNCHANGED <<storeVars, owed, seen, erred, listed, agentVars, budget>>

------------------------------------------------------------------------------
\* RecoverPending, before any RPC is served.  The executions it starts run while
\* it handles the entries that are left.  An error ends the process.

RecoverableQueued(t) == task[t].state = "queued"   \* mutant: interrupted runs are left
Recoverable(t) ==
  /\ task[t].state \in {"queued", "running"}
  /\ t \in NeedsApproval => task[t].approved

RecoverList ==
  /\ At(Boot, "list")
  /\ Goto(Boot, "recover")
  /\ listed' = {[task |-> t, rec |-> task[t]] : t \in {u \in Tasks : Recoverable(u)}}
  /\ UNCHANGED <<storeVars, owed, execVars, cancels, agentVars, budget>>

RecoverNext(entry) ==
  /\ At(Boot, "recover")
  /\ listed' = listed \ {entry}
  /\ Hold(Boot, "requeue", entry.task, entry.rec)
  /\ UNCHANGED <<storeVars, owed, execVars, cancels, agentVars, budget>>

RecoverWrite ==
  /\ At(Boot, "requeue")
  /\ Write(Boot, [actor[Boot].rec EXCEPT !.state = "queued"],
           "recovered", <<>>, "launch", "recover", "halt")
  /\ UNCHANGED <<execVars, cancels, listed, agentVars>>

RecoverDone ==
  /\ At(Boot, "recover") /\ listed = {}
  /\ Goto(Boot, "off")
  /\ UNCHANGED <<storeVars, owed, execVars, cancels, listed, agentVars, budget>>

------------------------------------------------------------------------------
\* execute: the start of an attempt.

\* A store call under a finished context fails; the memory store has no context.
ContextFails(e) == Durable /\ e \in stopped

TaskOf(e)   == actor[e].task
Received(e) == log[TaskOf(e)][seen[e]]
Progressive == <<"progress">>
Final       == <<"final">>

Spawned(e) ==
  /\ At(e, "spawned")
  /\ \/ /\ ~ContextFails(e) /\ task[TaskOf(e)].state = "queued"
        /\ Hold(e, "start", TaskOf(e), task[TaskOf(e)])
        /\ UNCHANGED budget
     \/ /\ ContextFails(e) \/ task[TaskOf(e)].state # "queued"
        /\ Goto(e, "exit") /\ UNCHANGED budget
     \/ Goto(e, "exit") /\ StoreFault
  /\ UNCHANGED <<storeVars, owed, execVars, cancels, listed, agentVars>>

AttemptsExhausted(t, attempt) == MaxAttempts[t] > 0 /\ attempt > MaxAttempts[t]

Start(e) ==
  LET attempt == actor[e].rec.attempt + 1
      record  == [actor[e].rec EXCEPT !.attempt = attempt]
  IN /\ At(e, "start")
     /\ IF ContextFails(e)
        THEN Goto(e, "exit") /\ UNCHANGED <<storeVars, owed, budget>>
        ELSE IF AttemptsExhausted(TaskOf(e), attempt)
        THEN Write(e, [record EXCEPT !.state = "failed"], "failed", <<>>, "exit", "exit", "exit")
        ELSE Write(e, [record EXCEPT !.state = "running"], "started", <<>>, "subscribe", "exit", "exit")
     /\ UNCHANGED <<execVars, cancels, listed, agentVars>>

\* The deadline of the attempt's context passes.
Timeout(e) ==
  /\ actor[e].pc \in UnderContext /\ TaskOf(e) \in HasDeadline
  /\ stopped' = stopped \cup {e}
  /\ UNCHANGED <<storeVars, actor, owed, seen, erred, cancels, listed, agentVars, budget>>

------------------------------------------------------------------------------
\* ExecuteResultWithProgress: one stream of the task's events, one call.

\* The stream starts after the LastSequence of the record the execution was
\* launched with; ExecuteTask is called from a goroutine of its own.
Subscribe(e) ==
  /\ At(e, "subscribe")
  /\ \/ /\ e \notin stopped
        /\ agent' = [agent EXCEPT ![e] = "called"]
        /\ Goto(e, "receive") /\ UNCHANGED budget
     \/ e \in stopped /\ Goto(e, "failRead") /\ UNCHANGED <<agent, budget>>
     \/ Fault /\ Goto(e, "failRead") /\ UNCHANGED agent
  /\ UNCHANGED <<storeVars, owed, execVars, cancels, listed, log>>

Receive(e) ==
  /\ At(e, "receive")
  /\ seen[e] < Len(log[TaskOf(e)])
  /\ seen' = [seen EXCEPT ![e] = @ + 1]
  /\ Goto(e, "project")
  /\ UNCHANGED <<storeVars, owed, erred, stopped, cancels, listed, agentVars, budget>>

\* Recv fails; the client then waits for the reply of ExecuteTask.
StreamLost(e) ==
  /\ At(e, "receive")
  /\ \/ e \in stopped /\ UNCHANGED budget
     \/ Fault
  /\ Goto(e, "respond")
  /\ UNCHANGED <<storeVars, owed, execVars, cancels, listed, agentVars>>

\* Where the receive loop goes once the event is projected.
AfterProjection(e) ==
  CASE Received(e).kind = "running" -> "receive"
    [] Received(e).kind = "progress" -> IF erred[e] THEN "receive" ELSE "progress"
    [] OTHER -> "respond"

\* ProjectTaskEvent up to its lookup: duplicates are skipped, an event for a
\* terminal task is rejected, which ends the execution with an error.
Project(e) ==
  LET record == task[TaskOf(e)]
      known  == seen[e] <= record.lastSequence
  IN /\ At(e, "project")
     /\ \/ /\ ~ContextFails(e) /\ known
           /\ Goto(e, AfterProjection(e)) /\ UNCHANGED budget
        \/ /\ ~ContextFails(e) /\ ~known /\ ~IsTerminal(record)
           /\ Hold(e, "apply", TaskOf(e), record) /\ UNCHANGED budget
        \/ /\ ContextFails(e) \/ (~known /\ IsTerminal(record))
           /\ Goto(e, "failRead") /\ UNCHANGED budget
        \/ Goto(e, "failRead") /\ StoreFault
     /\ UNCHANGED <<storeVars, owed, execVars, cancels, listed, agentVars>>

\* Mutant: a progress event is taken for a state.
ProjectionOfState(record, kind, sequence) ==
  [record EXCEPT !.lastSequence = sequence, !.state = kind]

Projection(record, kind, sequence) ==
  [record EXCEPT !.lastSequence = sequence,
                 !.state = IF kind = "progress" THEN @ ELSE kind]

AgentAction == [running |-> "agent_running", progress |-> "agent_progress",
                final |-> "agent_final", failed |-> "agent_failed"]

Apply(e) ==
  LET kind == Received(e).kind
  IN /\ At(e, "apply")
     /\ IF ContextFails(e)
        THEN Goto(e, "failRead") /\ UNCHANGED <<storeVars, owed, budget>>
        ELSE Write(e, Projection(actor[e].rec, kind, seen[e]), AgentAction[kind], <<>>,
                   AfterProjection(e), "failRead", "failRead")
     /\ UNCHANGED <<execVars, cancels, listed, agentVars>>

\* persistProgress up to its lookup.
Progress(e) ==
  LET record == task[TaskOf(e)]
  IN /\ At(e, "progress")
     /\ \/ /\ ~ContextFails(e) /\ IsTerminal(record)
           /\ Goto(e, "receive") /\ UNCHANGED budget
        \/ /\ ~ContextFails(e) /\ ~IsTerminal(record)
           /\ Hold(e, "save", TaskOf(e), record) /\ UNCHANGED budget
        \/ ContextFails(e) /\ Goto(e, "progressFailed") /\ UNCHANGED budget
        \/ Goto(e, "progressFailed") /\ StoreFault
     /\ UNCHANGED <<storeVars, owed, execVars, cancels, listed, agentVars>>

\* Durable: compare-and-set with the progress delivery, a lost race is ignored.
\* Memory: an unconditional Put of the record read before, no audit event.
Save(e) ==
  /\ At(e, "save")
  /\ IF ContextFails(e)
     THEN Goto(e, "progressFailed") /\ UNCHANGED <<storeVars, owed, budget>>
     ELSE IF Durable
     THEN Write(e, actor[e].rec, "agent_progress", Progressive,
                "receive", "receive", "progressFailed")
     ELSE /\ PutRecord(TaskOf(e), actor[e].rec)
          /\ Goto(e, "dispatchProgress")
          /\ UNCHANGED <<audit, outbox, owed, budget>>
  /\ UNCHANGED <<execVars, cancels, listed, agentVars>>

DispatchProgress(e) ==
  /\ At(e, "dispatchProgress") /\ ~Durable
  /\ \/ Enqueue(TaskOf(e), Progressive) /\ Goto(e, "receive") /\ UNCHANGED budget
     \/ e \in stopped /\ Goto(e, "progressFailed") /\ UNCHANGED <<outbox, budget>>
     \/ Fault /\ Goto(e, "progressFailed") /\ UNCHANGED outbox
  /\ UNCHANGED <<task, audit, owed, execVars, cancels, listed, agentVars>>

\* The first progress error is kept and fails the attempt at its end.
ProgressFailed(e) ==
  /\ At(e, "progressFailed")
  /\ erred' = [erred EXCEPT ![e] = TRUE]
  /\ Goto(e, "receive")
  /\ UNCHANGED <<storeVars, owed, seen, stopped, cancels, listed, agentVars, budget>>

\* The reply of ExecuteTask, or its failure once the context is done.
Respond(e) ==
  /\ At(e, "respond")
  /\ \/ agent[e] = "final" /\ ~erred[e] /\ Goto(e, "finishRead") /\ UNCHANGED budget
     \/ /\ agent[e] = "failed" \/ (agent[e] = "final" /\ erred[e]) \/ e \in stopped
        /\ Goto(e, "failRead") /\ UNCHANGED budget
     \/ Fault /\ Goto(e, "failRead")
  /\ UNCHANGED <<storeVars, owed, execVars, cancels, listed, agentVars>>

------------------------------------------------------------------------------
\* execute: the end of an attempt, under a context that is never done.

AbandonsNever(record) == FALSE   \* mutant: a cancelled task is settled all the same
AbandonsSettled(record) ==       \* mutant: a projected final event ends the attempt
  record.state \in {"cancelled", "final"}
Abandons(record) == record.state = "cancelled"

ResultLookup(e, read, write) ==
  /\ At(e, read)
  /\ \/ Abandons(task[TaskOf(e)]) /\ Goto(e, "exit") /\ UNCHANGED budget
     \/ /\ ~Abandons(task[TaskOf(e)])
        /\ Hold(e, write, TaskOf(e), task[TaskOf(e)]) /\ UNCHANGED budget
     \/ Goto(e, "exit") /\ StoreFault
  /\ UNCHANGED <<storeVars, owed, execVars, cancels, listed, agentVars>>

FailRead(e)   == ResultLookup(e, "failRead", "fail")
FinishRead(e) == ResultLookup(e, "finishRead", "finish")

Fail(e) ==
  /\ At(e, "fail")
  /\ Write(e, [actor[e].rec EXCEPT !.state = "failed"], "failed", <<>>, "exit", "exit", "exit")
  /\ UNCHANGED <<execVars, cancels, listed, agentVars>>

Finish(e) ==
  /\ At(e, "finish")
  /\ Write(e, [actor[e].rec EXCEPT !.state = "final"], "finished", Final,
           IF Durable THEN "exit" ELSE "deliver", "exit", "exit")
  /\ UNCHANGED <<execVars, cancels, listed, agentVars>>

\* Mutant: a failed dispatch is tried once more although it may have arrived.
DeliverTwice(e) ==
  /\ At(e, "deliver") /\ ~Durable
  /\ Goto(e, "exit")
  /\ \/ Enqueue(TaskOf(e), Final) /\ UNCHANGED budget
     \/ Enqueue(TaskOf(e), Final \o Final) /\ Fault
  /\ UNCHANGED <<task, audit, owed, execVars, cancels, listed, agentVars>>

\* Memory build: the reply is sent after the task is final; an error is dropped.
Deliver(e) ==
  /\ At(e, "deliver") /\ ~Durable
  /\ Goto(e, "exit")
  /\ \/ Enqueue(TaskOf(e), Final) /\ UNCHANGED budget
     \/ UNCHANGED outbox /\ Fault
  /\ UNCHANGED <<task, audit, owed, execVars, cancels, listed, agentVars>>

\* The deferred calls: the task's cancel function is forgotten, even if a newer
\* execution registered it, and a deadline's context is released.
Exit(e) ==
  /\ At(e, "exit")
  /\ Goto(e, "done")
  /\ cancels' = [cancels EXCEPT ![TaskOf(e)] = NoExec]
  /\ seen' = [seen EXCEPT ![e] = 0]
  /\ erred' = [erred EXCEPT ![e] = FALSE]
  /\ stopped' = IF TaskOf(e) \in HasDeadline THEN stopped \cup {e} ELSE stopped
  /\ UNCHANGED <<storeVars, owed, listed, agentVars, budget>>

------------------------------------------------------------------------------
\* The agent's ExecuteTask: a running event, a progress event from the backend,
\* a terminal event, each appended to the task's log before the reply.  An
\* attempt the gate has forgotten goes on, and may be aborted by the end of its
\* context without a terminal event.

AgentEmit(e, from, kind) ==
  /\ agent[e] = from
  /\ agent' = [agent EXCEPT ![e] = kind]
  /\ log' = [log EXCEPT ![TaskOf(e)] = Append(@, [kind |-> kind, run |-> e])]
  /\ UNCHANGED <<storeVars, actor, owed, execVars, cancels, listed, budget>>

AgentRun(e) ==
  \/ AgentEmit(e, "called", "running")
  \/ AgentEmit(e, "running", "progress")
  \/ AgentEmit(e, "progress", "final")
  \/ AgentEmit(e, "progress", "failed")

AgentAbort(e) ==
  /\ agent[e] \in {"called", "running", "progress"} /\ e \in stopped
  /\ agent' = [agent EXCEPT ![e] = "failed"]
  /\ UNCHANGED <<storeVars, actor, owed, execVars, cancels, listed, log, budget>>

------------------------------------------------------------------------------
\* The process dies and is started again: goroutines, cancel functions and
\* contexts are gone, the database and the agent are not.
Crash ==
  /\ Durable
  /\ budget.crash > 0
  /\ budget' = [budget EXCEPT !.crash = @ - 1]
  /\ actor' = [a \in Actors |->
       IF a = Boot THEN [Idle EXCEPT !.pc = "list"]
       ELSE IF a \in Execs /\ actor[a].pc # "off"
       THEN [actor[a] EXCEPT !.pc = "done", !.rec = Blank]
       ELSE Idle]
  /\ stopped' = stopped \cup {e \in Execs : actor[e].pc \notin {"off", "done"}}
  /\ cancels' = [t \in Tasks |-> NoExec]
  /\ seen' = [e \in Execs |-> 0]
  /\ erred' = [e \in Execs |-> FALSE]
  /\ listed' = {}
  /\ UNCHANGED <<storeVars, owed, agentVars>>

Request(c) ==
  \E t \in Tasks : \/ Accept(c, t) \/ ApproveLookup(c, t)
                   \/ ResumeLookup(c, t) \/ CancelLookup(c, t)

CallerStep(c) ==
  ApproveWrite(c) \/ ResumeWrite(c) \/ CancelWrite(c) \/ CancelStop(c)

BootStep ==
  \/ RecoverList \/ RecoverWrite \/ RecoverDone
  \/ \E entry \in listed : RecoverNext(entry)

ExecStep(e) ==
  \/ Spawned(e) \/ Start(e) \/ Subscribe(e) \/ Receive(e) \/ StreamLost(e)
  \/ Project(e) \/ Apply(e) \/ Progress(e) \/ Save(e) \/ DispatchProgress(e)
  \/ ProgressFailed(e) \/ Respond(e) \/ FailRead(e) \/ Fail(e)
  \/ FinishRead(e) \/ Finish(e) \/ Deliver(e) \/ Exit(e)

AgentStep(e) == AgentRun(e) \/ AgentAbort(e)

Next ==
  \/ \E c \in Callers : Request(c) \/ CallerStep(c)
  \/ BootStep
  \/ \E e \in Execs : ExecStep(e) \/ Timeout(e) \/ AgentStep(e)
  \/ \E a \in Callers \cup {Boot} : StartExecution(a)
  \/ \E a \in Actors : FlushAudit(a)
  \/ Crash

Spec == Init /\ [][Next]_vars

\* Goroutines are scheduled and the agent answers in the end.  Nobody has to
\* send a request, and neither a crash nor a deadline has to come.
Fairness ==
  /\ \A c \in Callers : WF_vars(CallerStep(c))
  /\ WF_vars(BootStep)
  /\ \A e \in Execs : WF_vars(ExecStep(e)) /\ WF_vars(AgentRun(e))
  /\ \A a \in Callers \cup {Boot} : WF_vars(StartExecution(a))
  /\ \A a \in Actors : WF_vars(FlushAudit(a))

FairSpec == Spec /\ Fairness

==============================================================================
