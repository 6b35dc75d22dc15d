--------------------------- MODULE GateProperties ----------------------------
(***************************************************************************)
(* What has to be true of GateCore.  GateCore's type invariant, TypeOK, is *)
(* stated there; everything here relates the stored task to its history,   *)
(* to the deliveries it caused or to the goroutines at work on it.         *)
(***************************************************************************)
EXTENDS GateCore

IsStarted(event)  == event.action = "started"
IsFinished(event) == event.action = "finished"
IsFinal(kind)     == kind = "final"

\* Durable build.  The audit trail of a task tells its whole history: it starts
\* with the creation, each event leaves from the state the one before it went
\* to, and the last one went to the stored state.  (Compare-and-set, row and
\* audit event in one transaction, postgres_repository.go:59-96.)
AuditChain ==
  \A t \in Tasks :
    LET trail == audit[t]
    IN IF task[t].state = "none" THEN trail = <<>>
       ELSE /\ trail # <<>>
            /\ trail[1].from = "none"
            /\ trail[Len(trail)].to = task[t].state
            /\ \A i \in 1..(Len(trail) - 1) : trail[i].to = trail[i + 1].from

\* Durable build.  Each success of an attempt posts exactly one reply, in the
\* transaction that makes the task final: none is posted without the task being
\* finished, none is lost by an error or a crash (service.go:152-171).
FinishPostsOnce ==
  \A t \in Tasks : Count(outbox[t], IsFinal) = Count(audit[t], IsFinished)

\* A task submitted with require_approval is never executed, requeued or
\* recovered before ApproveTask granted it, however requests, recovery and
\* stale executions interleave (service.go:311-313, 396-398, 502).
ApprovalFirst ==
  \A t \in NeedsApproval :
    /\ task[t].state \in {"queued", "running", "failed", "final"} => task[t].approved
    /\ \A e \in Execs : actor[e].task = t => task[t].approved

\* No step takes a cancelled or final task back to a state in which it runs:
\* "terminal task cannot be reopened" (service.go:245), step by step.
NotReopened ==
  [][\A t \in Tasks : task[t].state \in {"cancelled", "final"} =>
       task'[t].state \notin {"waiting_approval", "queued", "running"}]_task

\* The same over the history: a task that was final once never runs again
\* ("only failed tasks can be resumed", service.go:285).
FinalIsForever ==
  \A t \in Tasks : \A i, j \in 1..Len(audit[t]) :
    i < j /\ audit[t][i].to = "final" => audit[t][j].to \notin {"queued", "running"}

\* Durable build.  A cancelled task is left alone: no racing request, stale
\* execution or recovery changes its row, its audit trail or its deliveries any
\* more (service.go:332-348, 576-596).
CancelledIsFrozen ==
  [][\A t \in Tasks : task[t].state = "cancelled" =>
       task'[t] = task[t] /\ audit'[t] = audit[t] /\ outbox'[t] = outbox[t]]_storeVars

\* CancelTask stops the work, not only the row: when it has returned, the sole
\* execution of the task is not left running under a live context, wherever in
\* its start-up the cancellation met it (service.go:349-354, 508-528).  A task
\* that was resumed is excluded: an older execution's exit may have dropped the
\* newer one's cancel function (service.go:522-526).
CancelReaches ==
  \A t \in Tasks, e \in Execs :
    ( /\ task[t].state = "cancelled"
      /\ \A f \in Execs : actor[f].task = t <=> f = e
      /\ \A c \in Callers : actor[c].task = t => actor[c].pc # "stop"
      /\ actor[e].pc \in UnderContext )
    => e \in stopped

\* Memory build.  A reply is sent at most once per success, and only after the
\* success is on the audit trail (service.go:158-169).
RepliesFollowFinish ==
  \A t \in Tasks : Count(outbox[t], IsFinal) <= Count(audit[t], IsFinished)

\* Without crashes, faults and deadlines, a task that comes to rest as final has
\* had its reply posted: the projected "final" event, which shows the result to
\* GetTask first, never stands in for the delivery (service.go:253-255, 585-596).
AtRest(t) == \A a \in Actors : actor[a].task = t => actor[a].pc = "done"
FinalIsDelivered ==
  \A t \in Tasks :
    task[t].state = "final" /\ AtRest(t) => Count(outbox[t], IsFinal) > 0

\* Attempts are bounded by max_attempts ("maximum attempts exceeded",
\* service.go:541-546).
WithinMaxAttempts ==
  \A t \in Tasks :
    MaxAttempts[t] > 0 => Count(audit[t], IsStarted) <= MaxAttempts[t]

\* While the store answers, a live task is never orphaned: a queued task has a
\* goroutine about to start it, a running one an execution that will settle it,
\* whichever executions, resumes and recoveries raced before (service.go:391-410,
\* 508-606).  Nothing but a restart would pick an orphan up again.
Starting(a, t) ==
  /\ actor[a].task = t
  /\ \/ actor[a].pc \in {"launch", "spawned"}
     \/ actor[a].pc = "start" /\ actor[a].rec.state = task[t].state
Working(e, t) ==
  /\ actor[e].task = t
  /\ \/ actor[e].pc \in UnderContext \cup {"failRead", "finishRead"}
     \/ actor[e].pc \in {"fail", "finish"} /\ actor[e].rec.state = task[t].state

NoOrphan ==
  Serving => \A t \in Tasks :
    /\ task[t].state = "queued" => \E a \in Actors : Starting(a, t)
    /\ task[t].state = "running" => \E e \in Execs : Working(e, t)

\* A queued or running task is settled in the end.
Settles ==
  \A t \in Tasks : task[t].state \in {"queued", "running"} ~> task[t].state \in Terminal

------------------------------------------------------------------------------
\* The inductive invariant behind CancelledIsFrozen and AuditChain.

\* A handler at work is at work on a task that exists.
Free == {"off", "list", "recover"}
Busy(a) ==
  actor[a].pc \notin Free =>
    actor[a].task \in Tasks /\ task[actor[a].task].state # "none"

\* The states a handler may have read in the record it is about to write back.
ReadFor(pc, state) ==
  /\ pc = "approve" => state = "waiting_approval"
  /\ pc = "resume" => state = "failed"
  /\ pc = "start" => state = "queued"
  /\ pc = "requeue" => state \in {"queued", "running"}
  /\ pc \in {"cancel", "apply", "save"} =>
       state \in {"waiting_approval", "queued", "running"}
  /\ pc \in {"fail", "finish"} => state \notin {"none", "cancelled"}

Snapshot(a) == ReadFor(actor[a].pc, actor[a].rec.state)

\* The event an execution projects is one the agent published.
InHand(e) ==
  actor[e].pc \in {"project", "apply"} => seen[e] \in 1..Len(log[actor[e].task])

Listed == \A entry \in listed :
  entry.rec.state \in {"queued", "running"} /\ task[entry.task].state # "none"

\* Nobody calls an agent for an execution that was never started, and executions
\* have no part in recovery.
Called(e) ==
  /\ agent[e] # "idle" => actor[e].pc # "off"
  /\ actor[e].pc \notin {"list", "recover"}

StoreInv ==
  /\ task \in [Tasks -> TaskRecord]
  /\ audit \in [Tasks -> Seq(AuditEvent)]
  /\ outbox \in [Tasks -> Seq({"final", "progress"})]
  /\ owed \in [Actors -> AuditEvent]
  /\ Durable => owed = [a \in Actors |-> NoEvent]
  /\ budget \in [resume : Nat, crash : Nat, fault : Nat]

ActorInv ==
  /\ actor \in [Actors -> ActorState]
  /\ \A a \in Actors : Busy(a) /\ Snapshot(a)

AttemptInv ==
  /\ seen \in [Execs -> Nat]
  /\ erred \in [Execs -> BOOLEAN]
  /\ stopped \subseteq Execs
  /\ cancels \in [Tasks -> Execs \cup {NoExec}]
  /\ listed \subseteq Entry
  /\ agent \in [Execs -> AgentStates]
  /\ log \in [Tasks -> Seq(AgentEvent)]
  /\ \A e \in Execs : InHand(e) /\ Called(e)
  /\ Listed

IInv == StoreInv /\ ActorInv /\ AttemptInv

------------------------------------------------------------------------------
\* The durable gate implements TaskLifecycle.
Abstract == INSTANCE TaskLifecycle WITH
  status  <- [t \in Tasks |-> task[t].state],
  granted <- [t \in Tasks |-> task[t].approved],
  posted  <- [t \in Tasks |-> Count(outbox[t], IsFinal)]

Lifecycle     == Abstract!LifecycleSpec
FairLifecycle == Abstract!FairLifecycleSpec

==============================================================================
