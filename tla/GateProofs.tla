----------------------------- MODULE GateProofs ------------------------------
(***************************************************************************)
(* Proofs about GateCore for every value of its constants.                 *)
(*                                                                         *)
(* IInv (GateProperties) is inductive: which states the record in each     *)
(* handler's hand can carry, that handlers work on tasks that exist, that  *)
(* a durable gate owes no audit event.  TypeOK follows from it; then, that *)
(* a durable step is one transaction of which the audit event tells, and   *)
(* with it cancellation, the audit trail and the single post.              *)
(*                                                                         *)
(* Each part after that adds an invariant of its own to IInv: GrantInv for *)
(* ApprovalFirst, whose step also maps to TaskLifecycle; ReachInv for      *)
(* CancelReaches; FinalInv for FinalIsDelivered; ReplyInv for              *)
(* RepliesFollowFinish; OrphanInv for NoOrphan.                            *)
(***************************************************************************)
EXTENDS GateProperties, FiniteSetTheorems, TLAPS

\* A step never deletes a task.
Kept == \A t \in Tasks : task[t].state # "none" => task'[t].state # "none"

Steps == CallerSteps \cup BootSteps \cup ExecSteps
WriteSteps == {"approve", "resume", "start", "requeue", "cancel", "apply",
               "save", "fail", "finish"}

\* The initial state satisfies the invariant.
LEMMA InitInv == Init => IInv
<1> SUFFICES ASSUME Init PROVE IInv
  OBVIOUS
<1>1. Blank \in TaskRecord /\ NoEvent \in AuditEvent
  BY DEF Blank, NoEvent, TaskRecord, AuditEvent, States, Actions, Terminal
<1>2. StoreInv
  <2>1. task \in [Tasks -> TaskRecord]
    BY <1>1 DEF Init, StoreInit
  <2>2. audit \in [Tasks -> Seq(AuditEvent)] /\ outbox \in [Tasks -> Seq({"final", "progress"})]
    BY DEF Init, StoreInit
  <2>3. owed \in [Actors -> AuditEvent] /\ (Durable => owed = [a \in Actors |-> NoEvent])
    BY <1>1 DEF Init
  <2>4. budget \in [resume : Nat, crash : Nat, fault : Nat]
    BY CoreAssumption DEF Init
  <2>5. QED BY <2>1, <2>2, <2>3, <2>4 DEF StoreInv
<1>3. ActorInv
  <2>1. ASSUME NEW a \in Actors
        PROVE  actor[a] \in ActorState /\ actor[a].pc \in Free
    BY <1>1 DEF Init, Idle, ActorState, CallerSteps, BootSteps, Free
  <2>2. actor \in [Actors -> ActorState]
    BY <2>1 DEF Init
  <2>3. QED BY <2>1, <2>2 DEF ActorInv, Busy, Snapshot, ReadFor, Free
<1>4. AttemptInv
  BY CoreAssumption
  DEF Init, AttemptInv, InHand, Listed, Called, AgentStates, Idle, Actors
<1>5. QED BY <1>2, <1>3, <1>4 DEF IInv

\* A fault is taken from the budget.
LEMMA BudgetInv ==
  ASSUME IInv, UNCHANGED budget \/ Fault
  PROVE  budget' \in [resume : Nat, crash : Nat, fault : Nat]
<1>1. budget \in [resume : Nat, crash : Nat, fault : Nat]
  BY DEF IInv, StoreInv
<1>2. CASE UNCHANGED budget
  BY <1>1, <1>2
<1>3. CASE Fault
  BY <1>1, <1>3 DEF Fault
<1>4. QED BY <1>2, <1>3

\* Moving on to a step that writes nothing.
LEMMA GotoInv ==
  ASSUME IInv, NEW a \in Actors, NEW pc \in Steps, pc \notin WriteSteps,
         Goto(a, pc), Kept, pc \in Free \/ actor[a].pc \notin Free
  PROVE  ActorInv'
<1>1. actor' \in [Actors -> ActorState]
  BY DEF IInv, ActorInv, Goto, ActorState, Steps, Blank, TaskRecord, States, CallerSteps, BootSteps, ExecSteps, Terminal
<1>2. ASSUME NEW b \in Actors PROVE Busy(b)' /\ Snapshot(b)'
  <2>1. CASE b = a
    BY <2>1 DEF IInv, ActorInv, Goto, Busy, Snapshot, ReadFor, WriteSteps, Kept, ActorState, Free
  <2>2. CASE b # a
    BY <2>2 DEF IInv, ActorInv, Goto, Busy, Snapshot, ReadFor, Kept, ActorState
  <2>3. QED BY <2>1, <2>2
<1>3. QED BY <1>1, <1>2 DEF ActorInv

\* Taking a record in hand.
LEMMA HoldInv ==
  ASSUME IInv, NEW a \in Actors, NEW pc \in Steps, NEW t \in Tasks \cup {NoTask},
         NEW record \in TaskRecord, Hold(a, pc, t, record), Kept,
         pc \notin Free => t \in Tasks /\ task'[t].state # "none",
         ReadFor(pc, record.state)
  PROVE  ActorInv'
<1>1. actor' \in [Actors -> ActorState]
  BY DEF IInv, ActorInv, Hold, ActorState, Steps
<1>2. ASSUME NEW b \in Actors PROVE Busy(b)' /\ Snapshot(b)'
  <2>1. CASE b = a
    BY <2>1 DEF IInv, ActorInv, Hold, Busy, Snapshot, ActorState
  <2>2. CASE b # a
    BY <2>2 DEF IInv, ActorInv, Hold, Busy, Snapshot, Kept, ActorState
  <2>3. QED BY <2>1, <2>2
<1>3. QED BY <1>1, <1>2 DEF ActorInv

\* A step of one handler that leaves the attempts alone.
LEMMA AttemptKept ==
  ASSUME IInv, Kept, NEW a \in Actors, NEW new \in ActorState,
         actor' = [actor EXCEPT ![a] = new],
         a \in Execs => new.pc \notin Free,
         new.pc \in {"project", "apply"} =>
           actor[a].pc = "project" /\ new.task = actor[a].task,
         UNCHANGED <<execVars, cancels, listed, agentVars>>
  PROVE  AttemptInv'
<1> USE DEF IInv, ActorInv, AttemptInv, execVars, agentVars
<1>1. ASSUME NEW e \in Execs PROVE InHand(e)' /\ Called(e)'
  BY DEF InHand, Called, Free, Actors
<1>2. Listed'
  BY DEF Listed, Kept, Entry
<1>3. QED BY <1>1, <1>2

\* Moving one handler on, without a record, leaves the attempts alone too.
LEMMA GotoAttempt ==
  ASSUME IInv, Kept, NEW a \in Actors, NEW pc \in Steps \ {"apply", "project"},
         Goto(a, pc), a \in Execs => pc \notin Free,
         UNCHANGED <<execVars, cancels, listed, agentVars>>
  PROVE  AttemptInv'
<1> DEFINE new == [pc |-> pc,
                   task |-> IF pc \in {"off", "recover"} THEN NoTask ELSE actor[a].task,
                   rec |-> IF pc = "launch" THEN actor[a].rec ELSE Blank]
<1>1. new \in ActorState
  BY DEF IInv, ActorInv, ActorState, Steps, Blank, TaskRecord, States
<1>2. actor' = [actor EXCEPT ![a] = new]
  BY DEF Goto, IInv, ActorInv
<1>3. QED BY <1>1, <1>2, AttemptKept

\* A compare-and-set, in both builds.
LEMMA WriteStore ==
  ASSUME IInv, NEW a \in Actors, actor[a].pc \notin Free,
         NEW record \in TaskRecord, record.state # "none",
         NEW action \in Actions, NEW mail \in Seq({"final", "progress"}),
         Persist(a, record, action, mail)
  PROVE  /\ task' \in [Tasks -> TaskRecord] /\ audit' \in [Tasks -> Seq(AuditEvent)]
         /\ outbox' \in [Tasks -> Seq({"final", "progress"})]
         /\ owed' \in [Actors -> AuditEvent]
         /\ Durable => owed' = [b \in Actors |-> NoEvent]
         /\ Kept
<1> DEFINE event == [task |-> actor[a].task, action |-> action,
                     from |-> actor[a].rec.state, to |-> record.state]
<1>1. event \in AuditEvent /\ event.task \in Tasks
  BY DEF IInv, ActorInv, Busy, ActorState, AuditEvent, TaskRecord
<1>2. CASE Durable
  <2>1. CommitTx(record, event, mail) /\ UNCHANGED owed
    BY <1>2 DEF Persist
  <2>2. task' \in [Tasks -> TaskRecord] /\ Kept
    BY <2>1, <1>1 DEF CommitTx, PutRecord, IInv, StoreInv, Kept, TaskRecord
  <2>3. audit' \in [Tasks -> Seq(AuditEvent)]
    BY <2>1, <1>1 DEF CommitTx, AppendAudit, IInv, StoreInv
  <2>4. outbox' \in [Tasks -> Seq({"final", "progress"})]
    BY <2>1, <1>1 DEF CommitTx, Enqueue, IInv, StoreInv
  <2>5. QED BY <2>1, <2>2, <2>3, <2>4, <1>2 DEF IInv, StoreInv
<1>3. CASE ~Durable
  <2>1. PutRecord(event.task, record) /\ owed' = [owed EXCEPT ![a] = event]
        /\ UNCHANGED <<audit, outbox>>
    BY <1>3 DEF Persist
  <2>2. task' \in [Tasks -> TaskRecord] /\ Kept
    BY <2>1, <1>1 DEF PutRecord, IInv, StoreInv, Kept, TaskRecord
  <2>3. owed' \in [Actors -> AuditEvent]
    BY <2>1, <1>1 DEF IInv, StoreInv
  <2>4. QED BY <2>1, <2>2, <2>3, <1>3 DEF IInv, StoreInv
<1>4. QED BY <1>2, <1>3

\* Write, whatever comes of it, keeps the whole invariant.
Resting == Steps \ (WriteSteps \cup Free \cup {"project"})

LEMMA WriteInv ==
  ASSUME IInv, NEW a \in Actors, actor[a].pc \notin Free,
         NEW record \in TaskRecord, record.state # "none",
         NEW action \in Actions, NEW mail \in Seq({"final", "progress"}),
         NEW hit \in Resting \cup Free, NEW miss \in Resting \cup Free,
         NEW err \in Resting \cup Free,
         a \in Execs => hit \in Resting /\ miss \in Resting /\ err \in Resting,
         Write(a, record, action, mail, hit, miss, err),
         UNCHANGED <<execVars, cancels, listed, agentVars>>
  PROVE  IInv'
<1> DEFINE Quiet == UNCHANGED <<task, audit, outbox, owed>>
           Moved == Goto(a, hit) \/ Goto(a, miss) \/ Goto(a, err)
<1>1. Moved /\ (Quiet \/ Persist(a, record, action, mail))
  BY DEF Write
<1>2. budget' \in [resume : Nat, crash : Nat, fault : Nat]
  BY BudgetInv DEF Write, StoreFault
<1>3. Kept /\ StoreInv'
  <2>1. CASE Quiet
    BY <2>1, <1>2 DEF IInv, StoreInv, Kept
  <2>2. CASE Persist(a, record, action, mail)
    BY <2>2, <1>2, WriteStore DEF StoreInv
  <2>3. QED BY <1>1, <2>1, <2>2
<1>4. PICK pc \in Resting \cup Free : Goto(a, pc) /\ (a \in Execs => pc \notin Free)
  BY <1>1 DEF Resting
<1>5. pc \in Steps /\ pc \notin WriteSteps /\ pc \notin {"apply", "project"}
  BY DEF Resting, Steps, WriteSteps, Free, CallerSteps, BootSteps, ExecSteps
<1>6. ActorInv'
  BY <1>3, <1>4, <1>5, GotoInv
<1>7. AttemptInv'
  BY <1>3, <1>4, <1>5, GotoAttempt
<1>8. QED BY <1>3, <1>6, <1>7 DEF IInv

\* A handler moves on without touching the stores.
LEMMA MoveInv ==
  ASSUME IInv, NEW a \in Actors, NEW pc \in Resting \cup Free,
         Goto(a, pc), a \in Execs => pc \in Resting,
         pc \in Free \/ actor[a].pc \notin Free,
         UNCHANGED <<task, audit, owed, execVars, cancels, listed, agentVars>>,
         outbox' \in [Tasks -> Seq({"final", "progress"})],
         UNCHANGED budget \/ Fault
  PROVE  IInv'
<1>1. Kept /\ StoreInv'
  <2>1. budget' \in [resume : Nat, crash : Nat, fault : Nat]
    BY BudgetInv
  <2>2. QED BY <2>1 DEF IInv, StoreInv, Kept
<1>2. pc \in Steps /\ pc \notin WriteSteps /\ pc \notin {"apply", "project"}
  BY DEF Resting, Steps, WriteSteps, Free, CallerSteps, BootSteps, ExecSteps
<1>3. ActorInv'
  BY <1>1, <1>2, GotoInv
<1>4. AttemptInv'
  BY <1>1, <1>2, GotoAttempt DEF Resting
<1>5. QED BY <1>1, <1>3, <1>4 DEF IInv

\* A handler takes the stored record in hand.
LEMMA ReadInv ==
  ASSUME IInv, NEW a \in Actors, NEW pc \in Steps \ (Free \cup {"project"}),
         NEW t \in Tasks, Hold(a, pc, t, task[t]),
         task[t].state # "none", ReadFor(pc, task[t].state),
         pc = "apply" => actor[a].pc = "project" /\ actor[a].task = t,
         UNCHANGED <<storeVars, owed, execVars, cancels, listed, agentVars>>,
         budget' \in [resume : Nat, crash : Nat, fault : Nat]
  PROVE  IInv'
<1> DEFINE new == [pc |-> pc, task |-> t, rec |-> task[t]]
<1>1. Kept /\ StoreInv'
  BY DEF IInv, StoreInv, Kept, storeVars
<1>2. task[t] \in TaskRecord
  BY DEF IInv, StoreInv
<1>3. ActorInv'
  BY <1>1, <1>2, HoldInv DEF storeVars
<1>4. AttemptInv'
  <2>1. new \in ActorState
    BY <1>2 DEF ActorState, Steps
  <2>2. actor' = [actor EXCEPT ![a] = new]
    BY DEF Hold
  <2>3. QED BY <1>1, <2>1, <2>2, AttemptKept DEF Free
<1>5. QED BY <1>1, <1>3, <1>4 DEF IInv

------------------------------------------------------------------------------
\* The requests.

LEMMA AcceptInv ==
  ASSUME IInv, NEW c \in Callers, NEW t \in Tasks, Accept(c, t)
  PROVE  IInv'
<1> DEFINE state == InitialState(t)
           next  == IF state = "queued" THEN "launch" ELSE "off"
           event == [task |-> t, action |-> "created", from |-> "none", to |-> state]
           record == [Blank EXCEPT !.state = state]
           new == [pc |-> next, task |-> IF next = "off" THEN NoTask ELSE t, rec |-> Blank]
<1>1. /\ record \in TaskRecord /\ record.state # "none" /\ event \in AuditEvent
      /\ Blank \in TaskRecord /\ <<>> \in Seq({"final", "progress"})
  <2>1. state \in States /\ state # "none"
    BY DEF InitialState, States
  <2>2. Blank \in TaskRecord
    BY DEF Blank, TaskRecord, States
  <2>3. record \in TaskRecord /\ record.state = state
    BY <2>1, <2>2 DEF TaskRecord
  <2>4. event \in AuditEvent
    BY <2>1 DEF AuditEvent, Actions, States
  <2>5. QED BY <2>1, <2>2, <2>3, <2>4
<1>2. /\ task' = [task EXCEPT ![t] = record]
      /\ \/ audit' = [audit EXCEPT ![t] = Append(@, event)] /\ UNCHANGED owed
         \/ UNCHANGED audit /\ ~Durable /\ owed' = [owed EXCEPT ![c] = event]
      /\ \/ outbox' = [outbox EXCEPT ![t] = @ \o <<>>]
         \/ UNCHANGED outbox
  BY DEF Accept, CommitTx, PutRecord, AppendAudit, Enqueue
<1>3. budget' \in [resume : Nat, crash : Nat, fault : Nat]
  BY BudgetInv DEF Accept, StoreFault
<1>4. Kept /\ task'[t].state # "none" /\ task' \in [Tasks -> TaskRecord]
  BY <1>1, <1>2 DEF IInv, StoreInv, Kept, TaskRecord
<1>5. StoreInv'
  <2>1. audit' \in [Tasks -> Seq(AuditEvent)]
    <3>1. audit \in [Tasks -> Seq(AuditEvent)]
      BY DEF IInv, StoreInv
    <3>2. Append(audit[t], event) \in Seq(AuditEvent)
      BY <1>1, <3>1
    <3>3. CASE audit' = [audit EXCEPT ![t] = Append(@, event)]
      BY <3>1, <3>2, <3>3
    <3>4. CASE UNCHANGED audit
      BY <3>1, <3>4
    <3>5. QED BY <1>2, <3>3, <3>4
  <2>2. outbox' \in [Tasks -> Seq({"final", "progress"})]
    <3>1. outbox \in [Tasks -> Seq({"final", "progress"})]
      BY DEF IInv, StoreInv
    <3>2. outbox[t] \o <<>> \in Seq({"final", "progress"})
      BY <3>1
    <3>3. QED BY <3>1, <3>2, <1>2
  <2>3. owed' \in [Actors -> AuditEvent] /\ (Durable => owed' = [b \in Actors |-> NoEvent])
    BY <1>1, <1>2 DEF IInv, StoreInv
  <2>4. QED BY <2>1, <2>2, <2>3, <1>3, <1>4 DEF StoreInv
<1>6. /\ UNCHANGED <<execVars, cancels, listed, agentVars>>
      /\ c \in Actors /\ c \notin Execs
  BY CoreAssumption DEF Accept, Actors
<1>7. CASE Hold(c, next, IF next = "off" THEN NoTask ELSE t, Blank)
  <2>1. new \in ActorState /\ actor' = [actor EXCEPT ![c] = new]
    BY <1>1, <1>7 DEF Hold, ActorState, CallerSteps
  <2>2. ActorInv'
    BY <1>1, <1>4, <1>6, <1>7, HoldInv DEF Steps, CallerSteps, ReadFor, Free
  <2>3. AttemptInv'
    BY <1>4, <1>6, <2>1, AttemptKept
  <2>4. QED BY <1>5, <2>2, <2>3 DEF IInv
<1>8. CASE Goto(c, "off")
  <2>1. ActorInv'
    BY <1>4, <1>6, <1>8, GotoInv DEF Steps, CallerSteps, Free, WriteSteps
  <2>2. AttemptInv'
    BY <1>4, <1>6, <1>8, GotoAttempt DEF Steps, CallerSteps
  <2>3. QED BY <1>5, <2>1, <2>2 DEF IInv
<1>9. QED BY <1>7, <1>8 DEF Accept

\* The lookups of ApproveTask, ResumeTask and CancelTask.
LEMMA RequestInv ==
  ASSUME IInv, NEW c \in Callers, Request(c)
  PROVE  IInv'
<1>1. PICK t \in Tasks : \/ Accept(c, t) \/ ApproveLookup(c, t)
                         \/ ResumeLookup(c, t) \/ CancelLookup(c, t)
  BY DEF Request
<1>2. c \in Actors /\ task[t] \in TaskRecord
  BY DEF Actors, IInv, StoreInv
<1>3. budget \in [resume : Nat, crash : Nat, fault : Nat]
  BY DEF IInv, StoreInv
<1>4. CASE ApproveLookup(c, t)
  BY <1>2, <1>3, <1>4, ReadInv
  DEF ApproveLookup, Lookup, ReadFor, Steps, CallerSteps, Free
<1>5. CASE ResumeLookup(c, t)
  <2>1. budget' \in [resume : Nat, crash : Nat, fault : Nat]
    BY <1>3, <1>5 DEF ResumeLookup
  <2>2. QED BY <1>2, <2>1, <1>5, ReadInv
            DEF ResumeLookup, Resumable, Lookup, ReadFor, Steps, CallerSteps, Free
<1>6. CASE CancelLookup(c, t)
  BY <1>2, <1>3, <1>6, ReadInv
  DEF CancelLookup, Lookup, IsTerminal, Terminal, ReadFor, Steps, CallerSteps, Free,
      TaskRecord, States
<1>7. QED BY <1>1, <1>4, <1>5, <1>6, AcceptInv

LEMMA CallerInv ==
  ASSUME IInv, NEW c \in Callers, CallerStep(c)
  PROVE  IInv'
<1>1. c \in Actors /\ c \notin Execs
  BY CoreAssumption DEF Actors
<1>2. actor[c].rec \in TaskRecord /\ <<>> \in Seq({"final", "progress"})
  BY <1>1 DEF IInv, ActorInv, ActorState
<1>3. {"launch", "stop", "off"} \subseteq Resting \cup Free
  BY DEF Resting, Steps, WriteSteps, Free, CallerSteps
<1>4. CASE ApproveWrite(c)
  <2> DEFINE record == [actor[c].rec EXCEPT !.state = "queued", !.approved = TRUE]
  <2>1. record \in TaskRecord /\ record.state # "none" /\ "approved" \in Actions
    BY <1>2 DEF TaskRecord, States, Actions
  <2>2. QED BY <1>1, <1>2, <1>3, <1>4, <2>1, WriteInv DEF ApproveWrite, At, Free
<1>5. CASE ResumeWrite(c)
  <2> DEFINE record == [actor[c].rec EXCEPT !.state = "queued"]
  <2>1. record \in TaskRecord /\ record.state # "none" /\ "resumed" \in Actions
    BY <1>2 DEF TaskRecord, States, Actions
  <2>2. QED BY <1>1, <1>2, <1>3, <1>5, <2>1, WriteInv DEF ResumeWrite, At, Free
<1>6. CASE CancelWrite(c)
  <2> DEFINE record == [actor[c].rec EXCEPT !.state = "cancelled"]
  <2>1. record \in TaskRecord /\ record.state # "none" /\ "cancelled" \in Actions
    BY <1>2 DEF TaskRecord, States, Actions, Terminal
  <2>2. QED BY <1>1, <1>2, <1>3, <1>6, <2>1, WriteInv DEF CancelWrite, At, Free
<1>7. CASE CancelStop(c)
  <2>1. Kept /\ StoreInv'
    BY <1>7 DEF CancelStop, storeVars, IInv, StoreInv, Kept
  <2>2. ActorInv'
    BY <1>1, <1>7, <2>1, GotoInv DEF CancelStop, Steps, CallerSteps, WriteSteps, Free
  <2>3. actor[c].task \in Tasks
    BY <1>1, <1>7 DEF CancelStop, At, IInv, ActorInv, Busy, Free
  <2>4. stopped' \subseteq Execs /\ cancels' \in [Tasks -> Execs \cup {NoExec}]
    BY <1>7, <2>3 DEF CancelStop, IInv, AttemptInv
  <2>5. ASSUME NEW e \in Execs PROVE InHand(e)' /\ Called(e)'
    BY <1>1, <1>7 DEF CancelStop, Goto, IInv, ActorInv, AttemptInv, InHand, Called, agentVars, Actors
  <2>6. AttemptInv'
    BY <1>7, <2>1, <2>4, <2>5
    DEF CancelStop, IInv, AttemptInv, Listed, Called, agentVars, storeVars
  <2>7. QED BY <2>1, <2>2, <2>6 DEF IInv
<1>8. QED BY <1>4, <1>5, <1>6, <1>7 DEF CallerStep

------------------------------------------------------------------------------
\* Recovery, the start of an execution, the audit debt and the crash.

LEMMA BootInv ==
  ASSUME IInv, BootStep
  PROVE  IInv'
<1>1. Boot \in Actors /\ Boot \notin Execs
  BY CoreAssumption DEF Actors
<1>2. CASE RecoverList
  <2>1. Kept /\ StoreInv'
    BY <1>2 DEF RecoverList, storeVars, IInv, StoreInv, Kept
  <2>2. ActorInv'
    BY <1>1, <1>2, <2>1, GotoInv DEF RecoverList, Steps, BootSteps, WriteSteps, Free
  <2>3. listed' \subseteq Entry /\ Listed'
    BY <1>2 DEF RecoverList, Recoverable, Entry, Listed, IInv, StoreInv, storeVars
  <2>4. ASSUME NEW e \in Execs PROVE InHand(e)' /\ Called(e)'
    BY <1>1, <1>2 DEF RecoverList, Goto, IInv, ActorInv, AttemptInv, InHand, Called, agentVars, execVars, Actors
  <2>5. AttemptInv'
    BY <1>2, <2>3, <2>4 DEF RecoverList, IInv, AttemptInv, Called, agentVars, execVars
  <2>6. QED BY <2>1, <2>2, <2>5 DEF IInv
<1>3. ASSUME NEW entry \in listed, RecoverNext(entry) PROVE IInv'
  <2>1. Kept /\ StoreInv'
    BY <1>3 DEF RecoverNext, storeVars, IInv, StoreInv, Kept
  <2>2. /\ entry.task \in Tasks /\ entry.rec \in TaskRecord
        /\ entry.rec.state \in {"queued", "running"} /\ task[entry.task].state # "none"
    BY DEF IInv, AttemptInv, Listed, Entry
  <2>3. ActorInv'
    BY <1>1, <1>3, <2>1, <2>2, HoldInv
    DEF RecoverNext, Steps, BootSteps, ReadFor, storeVars
  <2>4. listed' \subseteq Entry /\ Listed'
    BY <1>3 DEF RecoverNext, IInv, AttemptInv, Listed, storeVars
  <2>5. ASSUME NEW e \in Execs PROVE InHand(e)' /\ Called(e)'
    BY <1>1, <1>3 DEF RecoverNext, Hold, IInv, ActorInv, AttemptInv, InHand, Called, agentVars, execVars, Actors
  <2>6. AttemptInv'
    BY <1>3, <2>4, <2>5 DEF RecoverNext, IInv, AttemptInv, Called, agentVars, execVars
  <2>7. QED BY <2>1, <2>3, <2>6 DEF IInv
<1>4. CASE RecoverWrite
  <2> DEFINE record == [actor[Boot].rec EXCEPT !.state = "queued"]
  <2>1. /\ record \in TaskRecord /\ record.state # "none" /\ "recovered" \in Actions
        /\ <<>> \in Seq({"final", "progress"})
        /\ {"launch", "recover", "halt"} \subseteq Resting \cup Free
    BY <1>1 DEF TaskRecord, States, Actions, IInv, ActorInv, ActorState,
                Resting, Steps, WriteSteps, Free, CallerSteps, BootSteps
  <2>2. QED BY <1>1, <1>4, <2>1, WriteInv DEF RecoverWrite, At, Free
<1>5. CASE RecoverDone
  <2>1. outbox' \in [Tasks -> Seq({"final", "progress"})]
    BY <1>5 DEF RecoverDone, storeVars, IInv, StoreInv
  <2>2. QED BY <1>1, <1>5, <2>1, MoveInv DEF RecoverDone, storeVars, Free
<1>6. QED BY <1>2, <1>3, <1>4, <1>5 DEF BootStep

LEMMA StartExecutionInv ==
  ASSUME IInv, NEW a \in Callers \cup {Boot}, StartExecution(a)
  PROVE  IInv'
<1> DEFINE then == IF a = Boot THEN "recover" ELSE "off"
           old == IF then = "off" THEN Idle ELSE [Idle EXCEPT !.pc = then]
           t == actor[a].task
           young == [pc |-> "spawned", task |-> t, rec |-> Blank]
<1>1. a \in Actors /\ a \notin Execs /\ actor[a].pc = "launch"
  BY CoreAssumption DEF Actors, StartExecution, At
<1>2. PICK e \in Execs :
        /\ actor[e].pc = "off"
        /\ cancels' = [cancels EXCEPT ![t] = e]
        /\ actor' = [actor EXCEPT ![a] = old, ![e] = young]
        /\ seen' = [seen EXCEPT ![e] = actor[a].rec.lastSequence]
        /\ UNCHANGED <<storeVars, owed, erred, stopped, listed, agentVars, budget>>
  BY DEF StartExecution, Launch, Register
<1>3. t \in Tasks /\ task[t].state # "none" /\ actor[a].rec.lastSequence \in Nat
  BY <1>1 DEF IInv, ActorInv, Busy, Free, ActorState, TaskRecord
<1>4. old \in ActorState /\ old.pc \in Free /\ young \in ActorState
  <2>1. Blank \in TaskRecord
    BY DEF Blank, TaskRecord, States
  <2>2. Idle \in ActorState /\ [Idle EXCEPT !.pc = "recover"] \in ActorState
    BY <2>1 DEF Idle, ActorState, CallerSteps, BootSteps
  <2>3. young \in ActorState
    BY <1>3, <2>1 DEF ActorState, ExecSteps
  <2>4. QED BY <2>2, <2>3 DEF Idle, Free
<1>5. Kept /\ StoreInv'
  BY <1>2 DEF storeVars, IInv, StoreInv, Kept
<1>6. ActorInv'
  <2>1. actor' \in [Actors -> ActorState]
    BY <1>1, <1>2, <1>4 DEF IInv, ActorInv
  <2>2. ASSUME NEW b \in Actors PROVE Busy(b)' /\ Snapshot(b)'
    <3>0. e \in Actors /\ e # a
      BY <1>1 DEF Actors
    <3>1. CASE b = a
      BY <1>1, <1>2, <1>4, <3>0, <3>1 DEF Busy, Snapshot, ReadFor, Free, IInv, ActorInv
    <3>2. CASE b = e
      BY <1>2, <1>3, <3>0, <3>2 DEF Busy, Snapshot, ReadFor, IInv, ActorInv, storeVars
    <3>3. CASE b # a /\ b # e
      BY <1>2, <3>3 DEF Busy, Snapshot, IInv, ActorInv, storeVars
    <3>4. QED BY <3>1, <3>2, <3>3
  <2>3. QED BY <2>1, <2>2 DEF ActorInv
<1>7. AttemptInv'
  <2>1. ASSUME NEW f \in Execs PROVE InHand(f)' /\ Called(f)'
    <3>1. CASE f = e
      BY <1>1, <1>2, <3>1 DEF InHand, Called, IInv, ActorInv, Actors
    <3>2. CASE f # e
      BY <1>1, <1>2, <3>2 DEF InHand, Called, IInv, ActorInv, AttemptInv, Actors, agentVars
    <3>3. QED BY <3>1, <3>2
  <2>2. QED BY <1>2, <1>3, <2>1 DEF IInv, AttemptInv, Listed, Called, storeVars, agentVars
<1>8. QED BY <1>5, <1>6, <1>7 DEF IInv

LEMMA FlushAuditInv ==
  ASSUME IInv, NEW a \in Actors, FlushAudit(a)
  PROVE  IInv'
<1>1. owed[a] \in AuditEvent /\ NoEvent \in AuditEvent /\ ~Durable
  BY DEF IInv, StoreInv, FlushAudit, NoEvent, AuditEvent, States, Actions
<1>2. audit' \in [Tasks -> Seq(AuditEvent)]
  <2>1. audit \in [Tasks -> Seq(AuditEvent)]
    BY DEF IInv, StoreInv
  <2>2. audit' = [audit EXCEPT ![owed[a].task] = Append(@, owed[a])]
    BY DEF FlushAudit, AppendAudit
  <2>3. ASSUME NEW t \in Tasks PROVE audit'[t] \in Seq(AuditEvent)
    BY <1>1, <2>1, <2>2, <2>3
  <2>4. QED BY <2>1, <2>2, <2>3
<1>3. StoreInv'
  BY <1>1, <1>2 DEF IInv, StoreInv, FlushAudit
<1>4. ActorInv' /\ AttemptInv'
  BY DEF IInv, ActorInv, Busy, Snapshot, AttemptInv, InHand, Listed, Called,
         FlushAudit, execVars, agentVars
<1>5. QED BY <1>3, <1>4 DEF IInv

LEMMA CrashInv ==
  ASSUME IInv, Crash
  PROVE  IInv'
<1>1. Kept /\ StoreInv'
  <2>1. budget' \in [resume : Nat, crash : Nat, fault : Nat]
    <3>1. budget \in [resume : Nat, crash : Nat, fault : Nat]
      BY DEF IInv, StoreInv
    <3>2. budget.crash > 0 /\ budget' = [budget EXCEPT !.crash = @ - 1]
      BY DEF Crash
    <3>3. QED BY <3>1, <3>2
  <2>2. QED BY <2>1 DEF Crash, IInv, StoreInv, Kept, storeVars
<1>2. ASSUME NEW b \in Actors
      PROVE  actor'[b] \in ActorState /\ (actor'[b].pc \in Free \/ actor'[b].pc = "done")
  <2>1. Blank \in TaskRecord
    BY DEF Blank, TaskRecord, States
  <2>2. QED BY <2>1 DEF Crash, Idle, IInv, ActorInv, ActorState, CallerSteps, BootSteps, ExecSteps, Free
<1>3. ActorInv'
  <2>1. actor' \in [Actors -> ActorState]
    BY <1>2 DEF Crash
  <2>2. ASSUME NEW b \in Actors PROVE Busy(b)' /\ Snapshot(b)'
    <3>1. Snapshot(b)'
      BY <1>2 DEF Snapshot, ReadFor, Free
    <3>2. actor'[b].pc \notin Free => actor'[b].task = actor[b].task /\ actor[b].pc # "off"
      BY DEF Crash, Idle, Free, IInv, ActorInv, ActorState
    <3>3. actor'[b].pc \notin Free => actor[b].pc \notin Free
      BY <3>2 DEF Crash, Idle, Free, IInv, AttemptInv, Called, Actors
    <3>4. QED BY <3>1, <3>2, <3>3, <1>1 DEF Busy, IInv, ActorInv, Kept
  <2>3. QED BY <2>1, <2>2 DEF ActorInv
<1>4. AttemptInv'
  <2>1. ASSUME NEW e \in Execs PROVE InHand(e)' /\ Called(e)'
    <3>1. e \in Actors /\ e # Boot
      BY CoreAssumption DEF Actors
    <3>2. /\ actor[e].pc # "off" => actor'[e] = [actor[e] EXCEPT !.pc = "done", !.rec = Blank]
          /\ actor[e].pc = "off" => actor'[e] = Idle
      BY <3>1 DEF Crash
    <3>3. actor[e] \in ActorState
      BY <3>1 DEF IInv, ActorInv
    <3>4. actor'[e].pc \in {"off", "done"} /\ (actor[e].pc # "off" => actor'[e].pc = "done")
      <4>1. CASE actor[e].pc = "off"
        BY <3>2, <4>1 DEF Idle
      <4>2. CASE actor[e].pc # "off"
        BY <3>2, <3>3, <4>2 DEF ActorState
      <4>3. QED BY <4>1, <4>2
    <3>5. InHand(e)'
      BY <3>4 DEF InHand
    <3>6. Called(e) /\ agent' = agent
      BY DEF Crash, IInv, AttemptInv, agentVars
    <3>7. Called(e)'
      BY <3>4, <3>6 DEF Called
    <3>8. QED BY <3>5, <3>7
  <2>2. /\ seen' \in [Execs -> Nat] /\ erred' \in [Execs -> BOOLEAN] /\ stopped' \subseteq Execs
        /\ cancels' \in [Tasks -> Execs \cup {NoExec}]
        /\ listed' = {}
    BY DEF Crash, IInv, AttemptInv
  <2>3. QED BY <2>1, <2>2 DEF Crash, IInv, AttemptInv, Listed, agentVars
<1>5. QED BY <1>1, <1>3, <1>4 DEF IInv

------------------------------------------------------------------------------
\* An execution: the steps that write a record back.

\* What an execution at work may rely on.
LEMMA AtWork ==
  ASSUME IInv, NEW e \in Execs, actor[e].pc \notin Free
  PROVE  /\ e \in Actors /\ TaskOf(e) \in Tasks /\ task[TaskOf(e)].state # "none"
         /\ task[TaskOf(e)] \in TaskRecord /\ actor[e].rec \in TaskRecord
         /\ actor[e].pc \in {"project", "apply"} => Received(e) \in AgentEvent
<1>1. e \in Actors
  BY DEF Actors
<1>2. TaskOf(e) \in Tasks /\ task[TaskOf(e)].state # "none"
  BY <1>1 DEF IInv, ActorInv, Busy, TaskOf
<1>3. task[TaskOf(e)] \in TaskRecord /\ actor[e].rec \in TaskRecord
  BY <1>1, <1>2 DEF IInv, StoreInv, ActorInv, ActorState
<1>4. ASSUME actor[e].pc \in {"project", "apply"} PROVE Received(e) \in AgentEvent
  <2>1. seen[e] \in 1..Len(log[TaskOf(e)]) /\ log[TaskOf(e)] \in Seq(AgentEvent)
    BY <1>2, <1>4 DEF IInv, AttemptInv, InHand, TaskOf
  <2>2. QED BY <2>1 DEF Received
<1>5. QED BY <1>1, <1>2, <1>3, <1>4

LEMMA StartInv ==
  ASSUME IInv, NEW e \in Execs, Start(e)
  PROVE  IInv'
<1> DEFINE attempt == actor[e].rec.attempt + 1
           record  == [actor[e].rec EXCEPT !.attempt = attempt]
<1>1. actor[e].pc \notin Free /\ e \in Actors /\ actor[e].rec \in TaskRecord
  BY AtWork DEF Start, At, Free
<1>2. attempt \in Nat
  BY <1>1 DEF TaskRecord
<1>3. record \in TaskRecord
  BY <1>1, <1>2 DEF TaskRecord
<1>4. /\ "failed" \in States /\ "running" \in States
      /\ "failed" \in Actions /\ "started" \in Actions
      /\ "exit" \in Resting /\ "subscribe" \in Resting
      /\ <<>> \in Seq({"final", "progress"})
  BY DEF States, Terminal, Actions, Resting, Steps, WriteSteps, Free, ExecSteps
<1>5. CASE ContextFails(e)
  <2>1. outbox' \in [Tasks -> Seq({"final", "progress"})]
    BY <1>5 DEF Start, storeVars, IInv, StoreInv
  <2>2. QED BY <1>1, <1>4, <1>5, <2>1, MoveInv DEF Start, storeVars
<1>6. CASE Write(e, [record EXCEPT !.state = "failed"], "failed", <<>>, "exit", "exit", "exit")
  <2> DEFINE new == [record EXCEPT !.state = "failed"]
  <2>1. new \in TaskRecord /\ new.state # "none"
    BY <1>3, <1>4 DEF TaskRecord
  <2>2. UNCHANGED <<execVars, cancels, listed, agentVars>>
    BY DEF Start
  <2>3. QED BY <1>1, <1>4, <1>6, <2>1, <2>2, WriteInv
<1>7. CASE Write(e, [record EXCEPT !.state = "running"], "started", <<>>,
                 "subscribe", "exit", "exit")
  <2> DEFINE new == [record EXCEPT !.state = "running"]
  <2>1. new \in TaskRecord /\ new.state # "none"
    BY <1>3, <1>4 DEF TaskRecord
  <2>2. UNCHANGED <<execVars, cancels, listed, agentVars>>
    BY DEF Start
  <2>3. QED BY <1>1, <1>4, <1>7, <2>1, <2>2, WriteInv
<1>8. QED BY <1>5, <1>6, <1>7 DEF Start

LEMMA ApplyInv ==
  ASSUME IInv, NEW e \in Execs, Apply(e)
  PROVE  IInv'
<1> DEFINE kind == Received(e).kind
           record == Projection(actor[e].rec, kind, seen[e])
<1>1. /\ actor[e].pc = "apply" /\ actor[e].pc \notin Free /\ e \in Actors
      /\ actor[e].rec \in TaskRecord /\ Received(e) \in AgentEvent
  BY AtWork DEF Apply, At, Free
<1>2. /\ kind \in {"running", "progress", "final", "failed"} /\ seen[e] \in Nat
      /\ actor[e].rec.state \in States \ {"none"}
  BY <1>1 DEF AgentEvent, IInv, AttemptInv, ActorInv, Snapshot, ReadFor, States
<1>3. record \in TaskRecord /\ record.state # "none"
  <2>1. CASE kind = "progress"
    BY <1>1, <1>2, <2>1 DEF Projection, TaskRecord
  <2>2. CASE kind # "progress"
    <3>1. kind \in States \ {"none"}
      BY <1>2, <2>2 DEF States, Terminal
    <3>2. QED BY <1>1, <1>2, <2>2, <3>1 DEF Projection, TaskRecord
  <2>3. QED BY <2>1, <2>2
<1>4. AgentAction[kind] \in Actions /\ <<>> \in Seq({"final", "progress"})
  BY <1>2 DEF AgentAction, Actions
<1>5. AfterProjection(e) \in Resting /\ "failRead" \in Resting
  BY DEF AfterProjection, Resting, Steps, WriteSteps, Free, ExecSteps
<1>6. CASE ContextFails(e)
  <2>1. outbox' \in [Tasks -> Seq({"final", "progress"})]
    BY <1>6 DEF Apply, storeVars, IInv, StoreInv
  <2>2. QED BY <1>1, <1>5, <1>6, <2>1, MoveInv DEF Apply, storeVars
<1>7. CASE ~ContextFails(e)
  <2>1. /\ Write(e, record, AgentAction[kind], <<>>, AfterProjection(e), "failRead", "failRead")
        /\ UNCHANGED <<execVars, cancels, listed, agentVars>>
    BY <1>7 DEF Apply
  <2>2. QED BY <1>1, <1>3, <1>4, <1>5, <2>1, WriteInv
<1>8. QED BY <1>6, <1>7

LEMMA SaveInv ==
  ASSUME IInv, NEW e \in Execs, Save(e)
  PROVE  IInv'
<1>1. /\ actor[e].pc = "save" /\ actor[e].pc \notin Free /\ e \in Actors
      /\ actor[e].rec \in TaskRecord /\ TaskOf(e) \in Tasks
  BY AtWork DEF Save, At, Free
<1>2. actor[e].rec.state # "none"
  BY <1>1 DEF IInv, ActorInv, Snapshot, ReadFor
<1>3. /\ "progressFailed" \in Resting /\ "receive" \in Resting /\ "dispatchProgress" \in Resting
      /\ "agent_progress" \in Actions /\ Progressive \in Seq({"final", "progress"})
  BY DEF Progressive, Actions, Resting, Steps, WriteSteps, Free, ExecSteps
<1>4. CASE ContextFails(e)
  <2>1. outbox' \in [Tasks -> Seq({"final", "progress"})]
    BY <1>4 DEF Save, storeVars, IInv, StoreInv
  <2>2. QED BY <1>1, <1>3, <1>4, <2>1, MoveInv DEF Save, storeVars
<1>5. CASE ~ContextFails(e) /\ Durable
  BY <1>1, <1>2, <1>3, <1>5, WriteInv DEF Save
<1>6. CASE ~ContextFails(e) /\ ~Durable
  <2>1. /\ task' = [task EXCEPT ![TaskOf(e)] = actor[e].rec] /\ Goto(e, "dispatchProgress")
        /\ UNCHANGED <<audit, outbox, owed, budget, execVars, cancels, listed, agentVars>>
    BY <1>6 DEF Save, PutRecord
  <2>2. Kept /\ StoreInv'
    BY <1>1, <1>2, <1>6, <2>1 DEF IInv, StoreInv, Kept
  <2>3. /\ "dispatchProgress" \in Steps \ {"apply", "project"}
        /\ "dispatchProgress" \notin WriteSteps /\ "dispatchProgress" \notin Free
    BY DEF Steps, ExecSteps, WriteSteps, Free
  <2>4. ActorInv' /\ AttemptInv'
    BY <1>1, <2>1, <2>2, <2>3, GotoInv, GotoAttempt
  <2>5. QED BY <2>2, <2>4 DEF IInv
<1>7. QED BY <1>4, <1>5, <1>6

LEMMA SettleInv ==
  ASSUME IInv, NEW e \in Execs, Fail(e) \/ Finish(e)
  PROVE  IInv'
<1>1. /\ actor[e].pc \notin Free /\ e \in Actors /\ actor[e].rec \in TaskRecord
  BY AtWork DEF Fail, Finish, At, Free
<1>2. /\ "failed" \in States /\ "final" \in States
      /\ "failed" \in Actions /\ "finished" \in Actions
      /\ "exit" \in Resting /\ "deliver" \in Resting
      /\ <<>> \in Seq({"final", "progress"}) /\ Final \in Seq({"final", "progress"})
  BY DEF Final, States, Terminal, Actions, Resting, Steps, WriteSteps, Free, ExecSteps
<1>3. CASE Fail(e)
  <2> DEFINE new == [actor[e].rec EXCEPT !.state = "failed"]
  <2>1. new \in TaskRecord /\ new.state # "none"
    BY <1>1, <1>2 DEF TaskRecord
  <2>2. /\ Write(e, new, "failed", <<>>, "exit", "exit", "exit")
        /\ UNCHANGED <<execVars, cancels, listed, agentVars>>
    BY <1>3 DEF Fail
  <2>3. QED BY <1>1, <1>2, <2>1, <2>2, WriteInv
<1>4. CASE Finish(e)
  <2> DEFINE new == [actor[e].rec EXCEPT !.state = "final"]
             hit == IF Durable THEN "exit" ELSE "deliver"
  <2>1. new \in TaskRecord /\ new.state # "none"
    BY <1>1, <1>2 DEF TaskRecord
  <2>2. /\ Write(e, new, "finished", Final, hit, "exit", "exit")
        /\ UNCHANGED <<execVars, cancels, listed, agentVars>>
    BY <1>4 DEF Finish
  <2>3. hit \in {"exit", "deliver"}
    OBVIOUS
  <2> HIDE DEF hit
  <2>4. QED BY <1>1, <1>2, <2>1, <2>2, <2>3, WriteInv
<1>5. QED BY <1>3, <1>4

------------------------------------------------------------------------------
\* An execution: the other steps.

\* One execution moves on; what it knows of its attempt may change.
LEMMA ExecMove ==
  ASSUME IInv, NEW e \in Execs, actor[e].pc \notin Free,
         NEW pc \in Resting \cup {"project"}, Goto(e, pc),
         pc = "project" => seen'[e] \in 1..Len(log[TaskOf(e)]),
         UNCHANGED <<storeVars, owed, listed, log>>,
         UNCHANGED budget \/ Fault,
         seen' \in [Execs -> Nat], erred' \in [Execs -> BOOLEAN], stopped' \subseteq Execs,
         cancels' \in [Tasks -> Execs \cup {NoExec}], agent' \in [Execs -> AgentStates],
         \A f \in Execs \ {e} : seen'[f] = seen[f] /\ agent'[f] = agent[f]
  PROVE  IInv'
<1>1. e \in Actors /\ pc \in Steps /\ pc \notin WriteSteps /\ pc \notin Free
  BY AtWork DEF Resting, Steps, ExecSteps, WriteSteps, Free
<1>2. Kept /\ StoreInv'
  BY BudgetInv DEF IInv, StoreInv, Kept, storeVars
<1>3. ActorInv'
  BY <1>1, <1>2, GotoInv
<1>4. ASSUME NEW f \in Execs PROVE InHand(f)' /\ Called(f)'
  <2>1. CASE f = e
    <3>1. /\ actor'[e].pc = pc /\ actor'[e].task = actor[e].task
      BY <1>1 DEF Goto, Free, IInv, ActorInv
    <3>2. QED BY <1>1, <2>1, <3>1 DEF InHand, Called, Resting, WriteSteps, Free, TaskOf
  <2>2. CASE f # e
    BY <1>1, <2>2 DEF Goto, InHand, Called, IInv, ActorInv, AttemptInv, Actors
  <2>3. QED BY <2>1, <2>2
<1>5. AttemptInv'
  BY <1>4 DEF IInv, AttemptInv, Listed, storeVars
<1>6. QED BY <1>2, <1>3, <1>5 DEF IInv

\* The commonest case: nothing is known that was not known before.
LEMMA ExecGoto ==
  ASSUME IInv, NEW e \in Execs, actor[e].pc \notin Free, NEW pc \in Resting, Goto(e, pc),
         UNCHANGED <<storeVars, owed, execVars, cancels, listed, agentVars>>,
         UNCHANGED budget \/ Fault
  PROVE  IInv'
<1>1. outbox' \in [Tasks -> Seq({"final", "progress"})]
  BY DEF storeVars, IInv, StoreInv
<1>2. e \in Actors
  BY DEF Actors
<1>3. QED BY <1>1, <1>2, MoveInv DEF storeVars

\* A lookup of an execution, followed by the write of what it read.
LEMMA ExecHold ==
  ASSUME IInv, NEW e \in Execs, actor[e].pc \notin Free,
         NEW pc \in {"start", "apply", "save", "fail", "finish"},
         Hold(e, pc, TaskOf(e), task[TaskOf(e)]),
         ReadFor(pc, task[TaskOf(e)].state),
         pc = "apply" => actor[e].pc = "project",
         UNCHANGED <<storeVars, owed, execVars, cancels, listed, agentVars, budget>>
  PROVE  IInv'
<1>1. e \in Actors /\ TaskOf(e) \in Tasks /\ task[TaskOf(e)].state # "none"
  BY AtWork
<1>2. pc \in Steps \ (Free \cup {"project"})
  BY DEF Steps, ExecSteps, Free
<1>3. budget' \in [resume : Nat, crash : Nat, fault : Nat]
  BY BudgetInv
<1>4. QED BY <1>1, <1>2, <1>3, ReadInv DEF TaskOf

\* The states in which a handler may have found a task that is not terminal.
LEMMA NotTerminal ==
  ASSUME NEW record \in TaskRecord, record.state # "none", ~IsTerminal(record)
  PROVE  ReadFor("apply", record.state) /\ ReadFor("save", record.state)
BY DEF IsTerminal, ReadFor, TaskRecord, States, Terminal

LEMMA Halts == /\ "exit" \in Resting /\ "failRead" \in Resting /\ "finishRead" \in Resting
               /\ "respond" \in Resting /\ "receive" \in Resting /\ "progress" \in Resting
               /\ "dispatchProgress" \in Resting /\ "progressFailed" \in Resting
               /\ "done" \in Resting
BY DEF Resting, Steps, WriteSteps, Free, ExecSteps

\* The steps of an execution that only read the stores or the agent.
LEMMA ExecReadInv ==
  ASSUME IInv, NEW e \in Execs,
         \/ Spawned(e) \/ StreamLost(e) \/ Project(e) \/ Progress(e) \/ Respond(e)
         \/ FailRead(e) \/ FinishRead(e)
  PROVE  IInv'
<1>1. actor[e].pc \notin Free
  BY DEF Spawned, StreamLost, Project, Progress, Respond, FailRead, FinishRead,
         ResultLookup, At, Free
<1>2. /\ UNCHANGED <<storeVars, owed, execVars, cancels, listed, agentVars>>
      /\ UNCHANGED budget \/ Fault
  BY DEF Spawned, StreamLost, Project, Progress, Respond, FailRead, FinishRead,
         ResultLookup, StoreFault
<1>3. task[TaskOf(e)] \in TaskRecord /\ task[TaskOf(e)].state # "none"
  BY <1>1, AtWork
<1>4. AfterProjection(e) \in Resting
  BY Halts DEF AfterProjection
<1>5. \/ \E pc \in Resting : Goto(e, pc)
      \/ \E pc \in {"start", "apply", "save", "fail", "finish"} :
           /\ Hold(e, pc, TaskOf(e), task[TaskOf(e)])
           /\ ReadFor(pc, task[TaskOf(e)].state)
           /\ pc = "apply" => actor[e].pc = "project"
           /\ UNCHANGED budget
  <2>1. CASE Spawned(e)
    BY <2>1, Halts DEF Spawned, ReadFor
  <2>2. CASE StreamLost(e)
    BY <2>2, Halts DEF StreamLost
  <2>3. CASE Project(e)
    BY <1>3, <1>4, <2>3, Halts, NotTerminal DEF Project, At
  <2>4. CASE Progress(e)
    BY <1>3, <2>4, Halts, NotTerminal DEF Progress
  <2>5. CASE Respond(e)
    BY <2>5, Halts DEF Respond
  <2>6. CASE FailRead(e)
    BY <1>3, <2>6, Halts DEF FailRead, ResultLookup, Abandons, ReadFor
  <2>7. CASE FinishRead(e)
    BY <1>3, <2>7, Halts DEF FinishRead, ResultLookup, Abandons, ReadFor
  <2>8. QED BY <2>1, <2>2, <2>3, <2>4, <2>5, <2>6, <2>7
<1>6. QED BY <1>1, <1>2, <1>5, ExecGoto, ExecHold

\* The steps of an execution that change what it knows of its attempt.
LEMMA AttemptStepInv ==
  ASSUME IInv, NEW e \in Execs,
         Subscribe(e) \/ Receive(e) \/ ProgressFailed(e) \/ Exit(e)
  PROVE  IInv'
<1>1. actor[e].pc \notin Free
  BY DEF Subscribe, Receive, ProgressFailed, Exit, At, Free
<1>2. TaskOf(e) \in Tasks
  BY <1>1, AtWork
<1>3. /\ seen \in [Execs -> Nat] /\ erred \in [Execs -> BOOLEAN] /\ stopped \subseteq Execs
      /\ cancels \in [Tasks -> Execs \cup {NoExec}] /\ agent \in [Execs -> AgentStates]
      /\ log \in [Tasks -> Seq(AgentEvent)]
  BY DEF IInv, AttemptInv
<1>4. CASE Subscribe(e)
  <2>1. /\ UNCHANGED <<storeVars, owed, listed, log, seen, erred, stopped, cancels>>
        /\ UNCHANGED budget \/ Fault
        /\ agent' = [agent EXCEPT ![e] = "called"] \/ UNCHANGED agent
    BY <1>4 DEF Subscribe, execVars
  <2>2. /\ agent' \in [Execs -> AgentStates]
        /\ \A f \in Execs \ {e} : agent'[f] = agent[f]
    BY <1>3, <2>1 DEF AgentStates
  <2>3. Goto(e, "receive") \/ Goto(e, "failRead")
    BY <1>4 DEF Subscribe
  <2>4. QED BY <1>1, <1>3, <2>1, <2>2, <2>3, Halts, ExecMove
<1>5. CASE Receive(e)
  <2>1. /\ UNCHANGED <<storeVars, owed, listed, log, erred, stopped, cancels, agent, budget>>
        /\ seen' = [seen EXCEPT ![e] = @ + 1] /\ Goto(e, "project")
        /\ seen[e] < Len(log[TaskOf(e)])
    BY <1>5 DEF Receive, agentVars
  <2>2. /\ seen' \in [Execs -> Nat] /\ \A f \in Execs \ {e} : seen'[f] = seen[f]
        /\ seen'[e] \in 1..Len(log[TaskOf(e)])
    BY <1>2, <1>3, <2>1
  <2>3. QED BY <1>1, <1>3, <2>1, <2>2, ExecMove
<1>6. CASE ProgressFailed(e)
  <2>1. /\ UNCHANGED <<storeVars, owed, listed, log, seen, stopped, cancels, agent, budget>>
        /\ erred' = [erred EXCEPT ![e] = TRUE] /\ Goto(e, "receive")
    BY <1>6 DEF ProgressFailed, agentVars
  <2>2. erred' \in [Execs -> BOOLEAN]
    BY <1>3, <2>1
  <2>3. QED BY <1>1, <1>3, <2>1, <2>2, Halts, ExecMove
<1>7. CASE Exit(e)
  <2>1. /\ UNCHANGED <<storeVars, owed, listed, log, agent, budget>>
        /\ seen' = [seen EXCEPT ![e] = 0] /\ erred' = [erred EXCEPT ![e] = FALSE]
        /\ stopped' \in {stopped, stopped \cup {e}}
        /\ cancels' = [cancels EXCEPT ![TaskOf(e)] = NoExec] /\ Goto(e, "done")
    BY <1>7 DEF Exit, agentVars
  <2>2. /\ seen' \in [Execs -> Nat] /\ \A f \in Execs \ {e} : seen'[f] = seen[f]
        /\ erred' \in [Execs -> BOOLEAN] /\ stopped' \subseteq Execs
        /\ cancels' \in [Tasks -> Execs \cup {NoExec}]
    BY <1>2, <1>3, <2>1
  <2>3. QED BY <1>1, <1>3, <2>1, <2>2, Halts, ExecMove
<1>8. QED BY <1>4, <1>5, <1>6, <1>7

\* The memory build's calls of ChannelCore.
LEMMA DispatchInv ==
  ASSUME IInv, NEW e \in Execs, DispatchProgress(e) \/ Deliver(e)
  PROVE  IInv'
<1>1. actor[e].pc \notin Free
  BY DEF DispatchProgress, Deliver, At, Free
<1>2. e \in Actors /\ TaskOf(e) \in Tasks
  BY <1>1, AtWork
<1>3. /\ UNCHANGED <<task, audit, owed, execVars, cancels, listed, agentVars>>
      /\ UNCHANGED budget \/ Fault
      /\ UNCHANGED outbox \/ \E kind \in {"final", "progress"} : Enqueue(TaskOf(e), <<kind>>)
  BY DEF DispatchProgress, Deliver, Progressive, Final
<1>4. outbox' \in [Tasks -> Seq({"final", "progress"})]
  <2>1. outbox \in [Tasks -> Seq({"final", "progress"})]
    BY DEF IInv, StoreInv
  <2>2. ASSUME NEW kind \in {"final", "progress"}, Enqueue(TaskOf(e), <<kind>>)
        PROVE  outbox' \in [Tasks -> Seq({"final", "progress"})]
    <3>1. outbox[TaskOf(e)] \o <<kind>> \in Seq({"final", "progress"})
      BY <1>2, <2>1
    <3>2. QED BY <2>1, <2>2, <3>1 DEF Enqueue
  <2>3. QED BY <1>3, <2>1, <2>2
<1>5. \E pc \in Resting : Goto(e, pc)
  BY Halts DEF DispatchProgress, Deliver
<1>6. QED BY <1>1, <1>2, <1>3, <1>4, <1>5, MoveInv

\* The deadline of an attempt and the agent's own steps.
LEMMA AgentInv ==
  ASSUME IInv, NEW e \in Execs, Timeout(e) \/ AgentStep(e)
  PROVE  IInv'
<1>1. /\ UNCHANGED <<storeVars, actor, owed, seen, erred, cancels, listed, budget>>
      /\ stopped' \in {stopped, stopped \cup {e}}
  BY DEF Timeout, AgentStep, AgentRun, AgentEmit, AgentAbort, agentVars, execVars
<1>2. StoreInv' /\ ActorInv'
  BY <1>1 DEF IInv, StoreInv, ActorInv, Busy, Snapshot, storeVars
<1>3. /\ agent' \in [Execs -> AgentStates]
      /\ \A f \in Execs : agent'[f] # "idle" => agent[f] # "idle"
  BY DEF Timeout, AgentStep, AgentRun, AgentEmit, AgentAbort, agentVars, IInv,
         AttemptInv, AgentStates
<1>4. /\ log' \in [Tasks -> Seq(AgentEvent)]
      /\ \A t \in Tasks : Len(log[t]) <= Len(log'[t])
  <2>1. log \in [Tasks -> Seq(AgentEvent)]
    BY DEF IInv, AttemptInv
  <2>2. CASE UNCHANGED log
    BY <2>1, <2>2
  <2>3. ASSUME NEW from, NEW kind \in {"running", "progress", "final", "failed"},
               AgentEmit(e, from, kind)
        PROVE  /\ log' \in [Tasks -> Seq(AgentEvent)]
               /\ \A t \in Tasks : Len(log[t]) <= Len(log'[t])
    <3> DEFINE event == [kind |-> kind, run |-> e]
    <3>1. event \in AgentEvent
      BY DEF AgentEvent
    <3>2. log' = [log EXCEPT ![TaskOf(e)] = Append(@, event)]
      BY <2>3 DEF AgentEmit
    <3> HIDE DEF event
    <3>3. ASSUME NEW t \in Tasks
          PROVE  log'[t] \in Seq(AgentEvent) /\ Len(log[t]) <= Len(log'[t])
      BY <2>1, <3>1, <3>2
    <3>4. QED BY <2>1, <3>2, <3>3
  <2>4. QED BY <2>2, <2>3 DEF Timeout, AgentStep, AgentRun, AgentAbort, agentVars
<1>5. ASSUME NEW f \in Execs PROVE InHand(f)' /\ Called(f)'
  <2>1. InHand(f)'
    <3>1. CASE actor[f].pc \in {"project", "apply"}
      <4>1. actor[f].task \in Tasks /\ actor[f].pc \notin Free
        BY <3>1, AtWork DEF Free, TaskOf
      <4>2. QED BY <1>1, <1>4, <3>1, <4>1 DEF InHand, IInv, AttemptInv
    <3>2. CASE actor[f].pc \notin {"project", "apply"}
      BY <1>1, <3>2 DEF InHand
    <3>3. QED BY <3>1, <3>2
  <2>2. Called(f)'
    BY <1>1, <1>3 DEF Called, IInv, AttemptInv
  <2>3. QED BY <2>1, <2>2
<1>6. AttemptInv'
  BY <1>1, <1>3, <1>4, <1>5 DEF IInv, AttemptInv, Listed, storeVars
<1>7. QED BY <1>2, <1>6 DEF IInv

------------------------------------------------------------------------------
\* The invariant is inductive.
LEMMA NextInv == IInv /\ [Next]_vars => IInv'
<1> SUFFICES ASSUME IInv, [Next]_vars PROVE IInv'
  OBVIOUS
<1>1. CASE UNCHANGED vars
  BY <1>1 DEF vars, IInv, StoreInv, ActorInv, Busy, Snapshot, AttemptInv, InHand,
              Listed, Called
<1>2. ASSUME NEW c \in Callers, Request(c) \/ CallerStep(c) PROVE IInv'
  BY <1>2, RequestInv, CallerInv
<1>3. ASSUME NEW e \in Execs, ExecStep(e) PROVE IInv'
  BY <1>3, StartInv, ApplyInv, SaveInv, SettleInv, ExecReadInv, AttemptStepInv, DispatchInv
  DEF ExecStep
<1>4. ASSUME NEW e \in Execs, Timeout(e) \/ AgentStep(e) PROVE IInv'
  BY <1>4, AgentInv
<1>5. QED
  BY <1>1, <1>2, <1>3, <1>4, BootInv, StartExecutionInv, FlushAuditInv, CrashInv DEF Next

LEMMA Invariance == Spec => []IInv
<1>1. Init => IInv
  BY InitInv
<1>2. IInv /\ [Next]_vars => IInv'
  BY NextInv
<1>3. QED BY <1>1, <1>2, PTL DEF Spec

\* Every reachable state is well typed, in both builds.
THEOREM TypeCorrect == Spec => []TypeOK
<1>1. IInv => TypeOK
  BY DEF IInv, StoreInv, ActorInv, AttemptInv, TypeOK
<1>2. QED BY <1>1, Invariance, PTL

------------------------------------------------------------------------------
\* The durable build: every step that changes a store is one transaction of a
\* known shape.  The theorems below rest on this alone.

Mails == {<<>>, Progressive, Final}

Transaction(record, event, mail) ==
  /\ CommitTx(record, event, mail)
  /\ event.task \in Tasks
  /\ event.from = task[event.task].state /\ event.to = record.state
  /\ record.state # "none" /\ event.from # "cancelled"
  /\ event.from = "none" => record.state \in {"waiting_approval", "queued"}
  /\ event.from = "final" => record.state \in {"failed", "final"}
  /\ mail = Final <=> event.action = "finished"

Transacted == \E record \in TaskRecord, event \in AuditEvent, mail \in Mails :
                Transaction(record, event, mail)

\* The part of a write that the durable store sees.
LEMMA WriteTransacts ==
  ASSUME Durable, IInv, NEW a \in Actors, actor[a].pc \notin Free,
         NEW record \in TaskRecord, record.state # "none",
         NEW action \in Actions, NEW mail \in Mails, mail = Final <=> action = "finished",
         actor[a].rec.state # "cancelled",
         actor[a].rec.state = "final" => record.state \in {"failed", "final"},
         NEW hit, NEW miss, NEW err,
         Write(a, record, action, mail, hit, miss, err)
  PROVE  Transacted \/ UNCHANGED storeVars
<1> DEFINE event == [task |-> actor[a].task, action |-> action,
                     from |-> actor[a].rec.state, to |-> record.state]
<1>1. CASE Matches(actor[a].task, actor[a].rec.state) /\ Persist(a, record, action, mail)
  <2>1. CommitTx(record, event, mail)
    BY <1>1 DEF Persist
  <2>2. /\ event.task \in Tasks /\ task[event.task].state # "none"
        /\ event.from = task[event.task].state /\ event \in AuditEvent
    BY <1>1 DEF Matches, IInv, ActorInv, Busy, ActorState, AuditEvent, TaskRecord
  <2>3. Transaction(record, event, mail)
    BY <2>1, <2>2 DEF Transaction
  <2>4. QED BY <2>2, <2>3 DEF Transacted
<1>2. CASE UNCHANGED <<task, audit, outbox>>
  BY <1>2 DEF storeVars
<1>3. QED BY <1>1, <1>2 DEF Write

LEMMA NextTransacts ==
  ASSUME Durable, IInv, [Next]_vars
  PROVE  Transacted \/ UNCHANGED storeVars
<1> DEFINE Done == Transacted \/ UNCHANGED storeVars
<1>0. /\ {"approved", "resumed", "cancelled", "recovered", "failed", "started",
          "finished", "agent_progress", "created"} \subseteq Actions
      /\ <<>> \in Mails /\ Progressive \in Mails /\ Final \in Mails
      /\ <<>> # Final /\ Progressive # Final
  BY DEF Actions, Mails, Progressive, Final
<1>1. ASSUME NEW c \in Callers, NEW t \in Tasks, Accept(c, t) PROVE Done
  <2> DEFINE state == InitialState(t)
             record == [Blank EXCEPT !.state = state]
             event == [task |-> t, action |-> "created", from |-> "none", to |-> state]
  <2>1. state \in {"waiting_approval", "queued"}
    BY DEF InitialState
  <2>2. /\ record \in TaskRecord /\ record.state = state
    <3>1. Blank \in TaskRecord
      BY DEF Blank, TaskRecord, States
    <3>2. QED BY <2>1, <3>1 DEF TaskRecord, States
  <2>3. event \in AuditEvent
    BY <2>1, <1>0 DEF AuditEvent, States
  <2>4. CommitTx(record, event, <<>>) /\ task[t].state = "none"
    BY <1>1 DEF Accept
  <2>5. Transaction(record, event, <<>>)
    BY <1>0, <2>1, <2>2, <2>4 DEF Transaction
  <2>6. QED BY <1>0, <2>2, <2>3, <2>5 DEF Transacted
<1>2. ASSUME NEW a \in Actors, NEW state \in {"queued", "cancelled"},
             actor[a].pc \in {"approve", "resume", "cancel", "requeue"},
             NEW action \in {"approved", "resumed", "cancelled", "recovered"},
             NEW new \in {[actor[a].rec EXCEPT !.state = state],
                          [actor[a].rec EXCEPT !.state = state, !.approved = TRUE]},
             NEW hit, NEW miss, NEW err, Write(a, new, action, <<>>, hit, miss, err)
      PROVE  Done
  <2>1. /\ actor[a].rec \in TaskRecord
        /\ actor[a].rec.state \in {"waiting_approval", "failed", "queued", "running"}
    BY <1>2 DEF IInv, ActorInv, ActorState, Snapshot, ReadFor
  <2>2. new \in TaskRecord /\ new.state # "none"
    BY <2>1 DEF TaskRecord, States, Terminal
  <2>3. QED BY <1>0, <1>2, <2>1, <2>2, WriteTransacts DEF Free
<1>3. ASSUME NEW c \in Callers, Request(c) \/ CallerStep(c) PROVE Done
  <2>1. c \in Actors
    BY DEF Actors
  <2>2. CASE ApproveWrite(c)
    BY <1>2, <2>1, <2>2 DEF ApproveWrite, At
  <2>3. CASE ResumeWrite(c)
    BY <1>2, <2>1, <2>3 DEF ResumeWrite, At
  <2>4. CASE CancelWrite(c)
    BY <1>2, <2>1, <2>4 DEF CancelWrite, At
  <2>5. CASE CancelStop(c)
    BY <2>5 DEF CancelStop
  <2>6. CASE Request(c)
    BY <1>1, <2>6 DEF Request, ApproveLookup, ResumeLookup, CancelLookup, Lookup
  <2>7. QED BY <1>3, <2>2, <2>3, <2>4, <2>5, <2>6 DEF CallerStep
<1>4. ASSUME BootStep PROVE Done
  <2>1. CASE RecoverWrite
    BY <1>2, <2>1 DEF RecoverWrite, At, Actors
  <2>2. QED BY <1>4, <2>1 DEF BootStep, RecoverList, RecoverNext, RecoverDone
<1>5. ASSUME NEW e \in Execs, ExecStep(e) PROVE Done
  <2>1. CASE Start(e) \/ Apply(e) \/ Save(e) \/ Fail(e) \/ Finish(e)
    <3>1. /\ e \in Actors /\ actor[e].pc \notin Free /\ actor[e].rec \in TaskRecord
          /\ actor[e].rec.state \notin {"none", "cancelled"}
      BY <2>1, AtWork DEF Start, Apply, Save, Fail, Finish, At, Free, IInv, ActorInv, Snapshot, ReadFor
    <3>2. CASE Start(e)
      <4> DEFINE record == [actor[e].rec EXCEPT !.attempt = actor[e].rec.attempt + 1]
      <4>1. record \in TaskRecord /\ actor[e].rec.state = "queued"
        BY <3>1, <3>2 DEF TaskRecord, Start, At, IInv, ActorInv, Snapshot, ReadFor
      <4>2. ASSUME NEW state \in {"failed", "running"}, NEW action \in {"failed", "started"},
                   NEW hit, Write(e, [record EXCEPT !.state = state], action, <<>>,
                                  hit, "exit", "exit")
            PROVE  Done
        <5> DEFINE new == [record EXCEPT !.state = state]
        <5>1. new \in TaskRecord /\ new.state # "none"
          BY <4>1 DEF TaskRecord, States, Terminal
        <5>2. QED BY <1>0, <3>1, <4>1, <4>2, <5>1, WriteTransacts
      <4>3. QED BY <3>2, <4>2 DEF Start
    <3>3. CASE Apply(e)
      <4> DEFINE kind == Received(e).kind
                 new  == Projection(actor[e].rec, kind, seen[e])
      <4>1. /\ Received(e) \in AgentEvent /\ seen[e] \in Nat
            /\ actor[e].rec.state \in {"waiting_approval", "queued", "running"}
        BY <3>1, <3>3, AtWork
        DEF Apply, At, IInv, AttemptInv, ActorInv, Snapshot, ReadFor
      <4>2. /\ AgentAction[kind] \in Actions /\ AgentAction[kind] # "finished"
            /\ kind \in States \cup {"progress"} /\ kind # "none"
        BY <4>1 DEF AgentEvent, AgentAction, Actions, States, Terminal
      <4>3. new \in TaskRecord /\ new.state # "none"
        BY <3>1, <4>1, <4>2 DEF Projection, TaskRecord
      <4>4. CASE ContextFails(e)
        BY <3>3, <4>4 DEF Apply
      <4>5. CASE ~ContextFails(e)
        <5>1. Write(e, new, AgentAction[kind], <<>>, AfterProjection(e), "failRead", "failRead")
          BY <3>3, <4>5 DEF Apply
        <5>2. QED BY <1>0, <3>1, <4>1, <4>2, <4>3, <5>1, WriteTransacts
      <4>6. QED BY <4>4, <4>5
    <3>4. CASE Save(e)
      <4>1. actor[e].rec.state # "final"
        BY <3>1, <3>4 DEF Save, At, IInv, ActorInv, Snapshot, ReadFor
      <4>2. QED BY <1>0, <3>1, <3>4, <4>1, WriteTransacts DEF Save
    <3>5. CASE Fail(e)
      <4> DEFINE new == [actor[e].rec EXCEPT !.state = "failed"]
      <4>1. new \in TaskRecord /\ new.state = "failed"
        BY <3>1 DEF TaskRecord, States, Terminal
      <4>2. Write(e, new, "failed", <<>>, "exit", "exit", "exit")
        BY <3>5 DEF Fail
      <4>3. QED BY <1>0, <3>1, <4>1, <4>2, WriteTransacts
    <3>6. CASE Finish(e)
      <4> DEFINE new == [actor[e].rec EXCEPT !.state = "final"]
      <4>1. new \in TaskRecord /\ new.state = "final"
        BY <3>1 DEF TaskRecord, States, Terminal
      <4>2. Write(e, new, "finished", Final, "exit", "exit", "exit")
        BY <3>6 DEF Finish
      <4>3. QED BY <1>0, <3>1, <4>1, <4>2, WriteTransacts
    <3>7. QED BY <2>1, <3>2, <3>3, <3>4, <3>5, <3>6
  <2>2. CASE ~(Start(e) \/ Apply(e) \/ Save(e) \/ Fail(e) \/ Finish(e))
    BY <1>5, <2>2
    DEF ExecStep, Spawned, Subscribe, Receive, StreamLost, Project, Progress,
        DispatchProgress, ProgressFailed, Respond, FailRead, FinishRead, ResultLookup,
        Deliver, Exit
  <2>3. QED BY <2>1, <2>2
<1>6. ASSUME NEW e \in Execs, Timeout(e) \/ AgentStep(e) PROVE Done
  BY <1>6 DEF Timeout, AgentStep, AgentRun, AgentEmit, AgentAbort
<1>7. ASSUME NEW a \in Actors, StartExecution(a) \/ FlushAudit(a) PROVE Done
  BY <1>7 DEF StartExecution, Launch, FlushAudit, IInv, StoreInv
<1>8. CASE Crash
  BY <1>8 DEF Crash
<1>9. CASE UNCHANGED vars
  BY <1>9 DEF vars, storeVars
<1>10. QED
  BY <1>3, <1>4, <1>5, <1>6, <1>7, <1>8, <1>9 DEF Next, Actors

------------------------------------------------------------------------------
\* What the durable store promises.

\* A cancelled task is left alone: no racing request, stale execution, recovery
\* or restart touches its row, its audit trail or its deliveries again
\* (service.go:332-348, 576-596).
THEOREM DurableCancelIsFinal ==
  ASSUME Durable
  PROVE  Spec => CancelledIsFrozen
<1> DEFINE Frozen == \A t \in Tasks : task[t].state = "cancelled" =>
             task'[t] = task[t] /\ audit'[t] = audit[t] /\ outbox'[t] = outbox[t]
<1>1. IInv /\ [Next]_vars => [Frozen]_storeVars
  <2> SUFFICES ASSUME IInv, [Next]_vars PROVE [Frozen]_storeVars
    OBVIOUS
  <2>1. CASE UNCHANGED storeVars
    BY <2>1
  <2>2. ASSUME NEW record \in TaskRecord, NEW event \in AuditEvent, NEW mail \in Mails,
               Transaction(record, event, mail)
        PROVE  Frozen
    BY <2>2 DEF Transaction, CommitTx, PutRecord, AppendAudit, Enqueue, IInv, StoreInv
  <2>3. QED BY <2>1, <2>2, NextTransacts DEF Transacted
<1>2. QED BY <1>1, Invariance, PTL DEF Spec, CancelledIsFrozen

\* A final or cancelled task is not put back to work by any one step
\* (service.go:245, 285).
THEOREM DurableNotReopened ==
  ASSUME Durable
  PROVE  Spec => NotReopened
<1> DEFINE Closed == \A t \in Tasks : task[t].state \in {"cancelled", "final"} =>
             task'[t].state \notin {"waiting_approval", "queued", "running"}
<1>1. IInv /\ [Next]_vars => [Closed]_task
  <2> SUFFICES ASSUME IInv, [Next]_vars PROVE [Closed]_task
    OBVIOUS
  <2>1. CASE UNCHANGED storeVars
    BY <2>1 DEF storeVars
  <2>2. ASSUME NEW record \in TaskRecord, NEW event \in AuditEvent, NEW mail \in Mails,
               Transaction(record, event, mail)
        PROVE  Closed
    BY <2>2 DEF Transaction, CommitTx, PutRecord, IInv, StoreInv
  <2>3. QED BY <2>1, <2>2, NextTransacts DEF Transacted
<1>2. QED BY <1>1, Invariance, PTL DEF Spec, NotReopened

\* The audit trail of a task is its history, without a gap, up to the stored
\* state (postgres_repository.go:59-96).
THEOREM DurableAuditChain ==
  ASSUME Durable
  PROVE  Spec => []AuditChain
<1>1. Init => AuditChain
  BY DEF Init, StoreInit, AuditChain, Blank
<1>2. IInv /\ AuditChain /\ [Next]_vars => AuditChain'
  <2> SUFFICES ASSUME IInv, AuditChain, [Next]_vars PROVE AuditChain'
    OBVIOUS
  <2>1. CASE UNCHANGED storeVars
    BY <2>1 DEF storeVars, AuditChain
  <2>2. ASSUME NEW record \in TaskRecord, NEW event \in AuditEvent, NEW mail \in Mails,
               Transaction(record, event, mail), NEW t \in Tasks
        PROVE  LET trail == audit'[t]
               IN IF task'[t].state = "none" THEN trail = <<>>
                  ELSE /\ trail # <<>>
                       /\ trail[1].from = "none"
                       /\ trail[Len(trail)].to = task'[t].state
                       /\ \A i \in 1..(Len(trail) - 1) : trail[i].to = trail[i + 1].from
    <3> DEFINE old == audit[t]
    <3>1. audit[t] \in Seq(AuditEvent)
      BY DEF IInv, StoreInv
    <3>2. CASE t = event.task
      <4>1. task'[t] = record /\ audit'[t] = Append(old, event)
        BY <2>2, <3>2 DEF Transaction, CommitTx, PutRecord, AppendAudit, IInv, StoreInv
      <4>2. record.state # "none" /\ event.to = record.state /\ event.from = task[t].state
        BY <2>2, <3>2 DEF Transaction
      <4>3. CASE task[t].state = "none"
        BY <4>1, <4>2, <4>3 DEF AuditChain
      <4>4. CASE task[t].state # "none"
        <5>1. /\ old # <<>> /\ old[1].from = "none" /\ old[Len(old)].to = event.from
              /\ \A i \in 1..(Len(old) - 1) : old[i].to = old[i + 1].from
          BY <4>2, <4>4 DEF AuditChain
        <5> HIDE DEF old
        <5>2. Len(old) \in Nat \ {0}
          BY <3>1, <5>1 DEF old
        <5>3. QED BY <3>1, <4>1, <4>2, <5>1, <5>2 DEF old
      <4>5. QED BY <4>3, <4>4
    <3>3. CASE t # event.task
      <4>1. task'[t] = task[t] /\ audit'[t] = audit[t]
        BY <2>2, <3>3 DEF Transaction, CommitTx, PutRecord, AppendAudit, IInv, StoreInv
      <4>2. QED BY <4>1 DEF AuditChain
    <3>4. QED BY <3>2, <3>3
  <2>3. QED BY <2>1, <2>2, NextTransacts DEF Transacted, AuditChain
<1>3. QED BY <1>1, <1>2, Invariance, PTL DEF Spec

\* Counting the elements of a sequence that lie in a set, one append later.
Tally(seq, T) == Cardinality({i \in 1..Len(seq) : seq[i] \in T})

LEMMA TallyAppend ==
  ASSUME NEW S, NEW seq \in Seq(S), NEW x \in S, NEW T
  PROVE  /\ Tally(seq, T) \in Nat
         /\ x \in T => Tally(Append(seq, x), T) = Tally(seq, T) + 1
         /\ x \notin T => Tally(Append(seq, x), T) = Tally(seq, T)
<1> DEFINE new == Append(seq, x)
           old == {i \in 1..Len(seq) : seq[i] \in T}
<1>1. /\ Len(seq) \in Nat /\ Len(new) = Len(seq) + 1 /\ new[Len(seq) + 1] = x
      /\ \A i \in 1..Len(seq) : new[i] = seq[i]
  OBVIOUS
<1>2. IsFiniteSet(old) /\ Len(seq) + 1 \notin old
  <2>1. IsFiniteSet(1..Len(seq))
    BY <1>1, FS_Interval
  <2>2. QED BY <1>1, <2>1, FS_Subset
<1>3. /\ x \in T => {i \in 1..Len(new) : new[i] \in T} = old \cup {Len(seq) + 1}
      /\ x \notin T => {i \in 1..Len(new) : new[i] \in T} = old
  BY <1>1
<1>4. Cardinality(old \cup {Len(seq) + 1}) = Cardinality(old) + 1 /\ Cardinality(old) \in Nat
  BY <1>2, FS_AddElement, FS_CardinalityType
<1>5. QED BY <1>3, <1>4 DEF Tally

LEMMA TallyMail ==
  ASSUME NEW seq \in Seq({"final", "progress"})
  PROVE  /\ Tally(Append(seq, "final"), {"final"}) = Tally(seq, {"final"}) + 1
         /\ Tally(Append(seq, "progress"), {"final"}) = Tally(seq, {"final"})
<1> DEFINE Kinds == {"final", "progress"}
           Finals == {"final"}
<1>1. /\ seq \in Seq(Kinds) /\ "final" \in Kinds /\ "progress" \in Kinds
      /\ "final" \in Finals /\ "progress" \notin Finals
  OBVIOUS
<1> HIDE DEF Kinds, Finals
<1>2. /\ Tally(Append(seq, "final"), Finals) = Tally(seq, Finals) + 1
      /\ Tally(Append(seq, "progress"), Finals) = Tally(seq, Finals)
  BY <1>1, TallyAppend
<1>3. QED BY <1>2 DEF Finals

\* Each finished attempt posts exactly one reply, in the transaction that makes
\* the task final (service.go:152-171).
THEOREM DurableFinishPostsOnce ==
  ASSUME Durable
  PROVE  Spec => []FinishPostsOnce
<1> DEFINE Finals(mails) == Tally(mails, {"final"})
           Finishes == {event \in AuditEvent : event.action = "finished"}
           Finished(trail) == Tally(trail, Finishes)
           Balanced == \A t \in Tasks : Finals(outbox[t]) = Finished(audit[t])
<1>1. IInv => (Balanced <=> FinishPostsOnce)
  <2> SUFFICES ASSUME IInv, NEW t \in Tasks
               PROVE  /\ Count(outbox[t], IsFinal) = Finals(outbox[t])
                      /\ Count(audit[t], IsFinished) = Finished(audit[t])
    BY DEF FinishPostsOnce
  <2>1. Count(outbox[t], IsFinal) = Finals(outbox[t])
    BY DEF Count, IsFinal, Tally
  <2>2. \A i \in 1..Len(audit[t]) : audit[t][i] \in AuditEvent
    <3>1. audit[t] \in Seq(AuditEvent)
      BY DEF IInv, StoreInv
    <3>2. QED BY <3>1
  <2>3. {i \in 1..Len(audit[t]) : audit[t][i].action = "finished"}
          = {i \in 1..Len(audit[t]) : audit[t][i] \in Finishes}
    BY <2>2
  <2>4. QED BY <2>1, <2>3 DEF Count, IsFinished, Tally
<1>2. Init => Balanced
  <2>1. Init => \A t \in Tasks : outbox[t] = <<>> /\ audit[t] = <<>>
    BY DEF Init, StoreInit
  <2>2. Finals(<<>>) = 0 /\ Finished(<<>>) = 0
    BY FS_EmptySet DEF Tally
  <2>3. QED BY <2>1, <2>2
<1>3. IInv /\ Balanced /\ [Next]_vars => Balanced'
  <2> SUFFICES ASSUME IInv, Balanced, [Next]_vars PROVE Balanced'
    OBVIOUS
  <2>1. CASE UNCHANGED storeVars
    BY <2>1 DEF storeVars
  <2>2. ASSUME NEW record \in TaskRecord, NEW event \in AuditEvent, NEW mail \in Mails,
               Transaction(record, event, mail), NEW t \in Tasks
        PROVE  Finals(outbox'[t]) = Finished(audit'[t])
    <3>1. audit[t] \in Seq(AuditEvent) /\ outbox[t] \in Seq({"final", "progress"})
      BY DEF IInv, StoreInv
    <3>2. CASE t = event.task
      <4>1. audit'[t] = Append(audit[t], event) /\ outbox'[t] = outbox[t] \o mail
        BY <2>2, <3>2 DEF Transaction, CommitTx, AppendAudit, Enqueue, IInv, StoreInv
      <4>2. /\ event \in Finishes => Finished(audit'[t]) = Finished(audit[t]) + 1
            /\ event \notin Finishes => Finished(audit'[t]) = Finished(audit[t])
        BY <3>1, <4>1, TallyAppend
      <4>3. /\ mail = Final => Finals(outbox'[t]) = Finals(outbox[t]) + 1
            /\ mail # Final => Finals(outbox'[t]) = Finals(outbox[t])
        <5>1. CASE mail = <<>>
          <6>1. outbox'[t] = outbox[t] /\ mail # Final
            BY <3>1, <4>1, <5>1 DEF Final
          <6>2. QED BY <6>1
        <5>2. CASE mail = Progressive
          <6>1. outbox'[t] = Append(outbox[t], "progress") /\ mail # Final
            BY <3>1, <4>1, <5>2 DEF Progressive, Final
          <6>2. QED BY <3>1, <6>1, TallyMail
        <5>3. CASE mail = Final
          <6>1. outbox'[t] = Append(outbox[t], "final")
            BY <3>1, <4>1, <5>3 DEF Final
          <6>2. QED BY <3>1, <5>3, <6>1, TallyMail
        <5>4. QED BY <5>1, <5>2, <5>3 DEF Mails
      <4>4. mail = Final <=> event \in Finishes
        BY <2>2 DEF Transaction
      <4>5. QED BY <4>2, <4>3, <4>4
    <3>3. CASE t # event.task
      <4>1. outbox'[t] = outbox[t] /\ audit'[t] = audit[t]
        BY <2>2, <3>3 DEF Transaction, CommitTx, AppendAudit, Enqueue, IInv, StoreInv
      <4>2. QED BY <4>1
    <3>4. QED BY <3>2, <3>3
  <2>3. QED BY <2>1, <2>2, NextTransacts DEF Transacted
<1>4. QED BY <1>1, <1>2, <1>3, Invariance, PTL DEF Spec

------------------------------------------------------------------------------
\* Approval: what the rows, and the records in hand, tell of it.

\* What the state of a record tells of its approval.
Granted(t, record) ==
  /\ record.approved => t \in NeedsApproval
  /\ record.state = "none" => ~record.approved
  /\ record.state = "waiting_approval" => t \in NeedsApproval /\ ~record.approved
  /\ t \in NeedsApproval /\ record.state \in {"queued", "running", "failed", "final"}
       => record.approved

\* A record about to be written back, and a goroutine that has been started.
HoldsGranted(a) ==
  actor[a].pc \in WriteSteps =>
    /\ Granted(actor[a].task, actor[a].rec)
    /\ a \in Execs /\ actor[a].task \in NeedsApproval => actor[a].rec.approved
WorksGranted(a) ==
  (a \in Execs \/ actor[a].pc = "launch") /\ actor[a].task \in NeedsApproval =>
    task[actor[a].task].approved

GrantInv ==
  /\ \A t \in Tasks : Granted(t, task[t])
  /\ \A a \in Actors : HoldsGranted(a) /\ WorksGranted(a)
  /\ \A entry \in listed : Granted(entry.task, entry.rec)

\* The step keeps what the rows tell, and takes no approval back.
RowsGranted ==
  \A t \in Tasks : Granted(t, task'[t]) /\ (task[t].approved => task'[t].approved)

LEMMA GrantInitially == Init => GrantInv
<1> SUFFICES ASSUME Init PROVE GrantInv
  OBVIOUS
<1>1. \A t \in Tasks : Granted(t, task[t])
  BY DEF Init, StoreInit, Blank, Granted
<1>2. ASSUME NEW a \in Actors PROVE HoldsGranted(a) /\ WorksGranted(a)
  <2>1. actor[a].task = NoTask /\ actor[a].pc \in {"off", "list"}
    BY DEF Init, Idle
  <2>2. QED BY <2>1, StoreAssumption DEF HoldsGranted, WorksGranted, WriteSteps
<1>3. QED BY <1>1, <1>2 DEF GrantInv, Init

\* Those that do not move keep what they hold.
LEMMA GrantStep ==
  ASSUME IInv, GrantInv, NEW a \in Actors, NEW new \in ActorState,
         actor' = [actor EXCEPT ![a] = new], RowsGranted,
         new.pc \in WriteSteps =>
           /\ Granted(new.task, new.rec)
           /\ a \in Execs /\ new.task \in NeedsApproval => new.rec.approved,
         (a \in Execs \/ new.pc = "launch") /\ new.task \in NeedsApproval =>
           task'[new.task].approved,
         \A entry \in listed' : Granted(entry.task, entry.rec)
  PROVE  GrantInv'
<1>1. actor \in [Actors -> ActorState] /\ NeedsApproval \subseteq Tasks
  BY StoreAssumption DEF IInv, ActorInv
<1>2. ASSUME NEW b \in Actors PROVE HoldsGranted(b)' /\ WorksGranted(b)'
  <2>1. CASE b = a
    BY <1>1, <2>1 DEF HoldsGranted, WorksGranted
  <2>2. CASE b # a
    <3>1. actor'[b] = actor[b] /\ HoldsGranted(b) /\ WorksGranted(b)
      BY <1>1, <2>2 DEF GrantInv
    <3>2. QED BY <1>1, <3>1 DEF HoldsGranted, WorksGranted, RowsGranted
  <2>3. QED BY <2>1, <2>2
<1>3. \A t \in Tasks : Granted(t, task'[t])
  BY DEF RowsGranted
<1>4. QED BY <1>2, <1>3 DEF GrantInv, Granted

LEMMA RowsRest ==
  ASSUME GrantInv, UNCHANGED task
  PROVE  RowsGranted
BY DEF GrantInv, RowsGranted

\* A handler that moves on without a record.
LEMMA GrantGoto ==
  ASSUME IInv, GrantInv, NEW a \in Actors, NEW pc \in Steps \ WriteSteps, Goto(a, pc),
         RowsGranted,
         pc = "launch" /\ actor[a].task \in NeedsApproval => task'[actor[a].task].approved,
         UNCHANGED listed
  PROVE  GrantInv'
<1> DEFINE new == [pc |-> pc,
                   task |-> IF pc \in {"off", "recover"} THEN NoTask ELSE actor[a].task,
                   rec |-> IF pc = "launch" THEN actor[a].rec ELSE Blank]
<1>1. actor[a] \in ActorState /\ Blank \in TaskRecord
  BY DEF IInv, ActorInv, Blank, TaskRecord, States
<1>2. new \in ActorState /\ new.pc = pc /\ new.task \in {NoTask, actor[a].task}
  BY <1>1 DEF ActorState, Steps
<1>3. actor' = [actor EXCEPT ![a] = new]
  BY DEF Goto, IInv, ActorInv
<1>4. new.task \in NeedsApproval => new.task = actor[a].task /\ new.task \in Tasks
  BY <1>2, StoreAssumption
<1>5. a \in Execs /\ new.task \in NeedsApproval => task'[new.task].approved
  BY <1>4 DEF GrantInv, WorksGranted, RowsGranted
<1>6. \A entry \in listed' : Granted(entry.task, entry.rec)
  BY DEF GrantInv
<1> HIDE DEF new
<1>7. QED BY <1>2, <1>3, <1>4, <1>5, <1>6, GrantStep

\* A handler that takes the stored record in hand.
LEMMA GrantHold ==
  ASSUME IInv, GrantInv, NEW a \in Actors, NEW pc \in Steps \ {"launch"}, NEW t \in Tasks,
         Hold(a, pc, t, task[t]), a \in Execs => actor[a].task = t,
         UNCHANGED <<task, listed>>
  PROVE  GrantInv'
<1> DEFINE new == [pc |-> pc, task |-> t, rec |-> task[t]]
<1>1. new \in ActorState
  BY DEF ActorState, Steps, IInv, StoreInv
<1>2. actor' = [actor EXCEPT ![a] = new] /\ new.pc = pc /\ new.task = t /\ new.rec = task[t]
  BY DEF Hold
<1>3. Granted(t, task[t]) /\ (a \in Execs /\ t \in NeedsApproval => task[t].approved)
  BY DEF GrantInv, WorksGranted
<1>4. \A entry \in listed' : Granted(entry.task, entry.rec)
  BY DEF GrantInv
<1> HIDE DEF new
<1>5. QED BY <1>1, <1>2, <1>3, <1>4, RowsRest, GrantStep

\* A record that changes its state keeps its approval.
LEMMA StateGranted ==
  ASSUME NEW t, NEW record \in TaskRecord, Granted(t, record),
         NEW state \in States \ {"none", "waiting_approval"},
         state = "cancelled" \/ (t \in NeedsApproval => record.approved)
  PROVE  /\ Granted(t, [record EXCEPT !.state = state])
         /\ [record EXCEPT !.state = state].state = state
         /\ [record EXCEPT !.state = state].approved = record.approved
BY DEF Granted, TaskRecord, States

\* A write of a record whose state is still the stored one.
LEMMA RowsWritten ==
  ASSUME IInv, GrantInv, NEW a \in Actors, actor[a].pc \in WriteSteps,
         NEW record \in TaskRecord, Granted(actor[a].task, record),
         actor[a].rec.approved => record.approved,
         Matches(actor[a].task, actor[a].rec.state) \/ a \in Execs,
         PutRecord(actor[a].task, record)
  PROVE  RowsGranted
<1> DEFINE u == actor[a].task
           read == actor[a].rec
<1>1. /\ u \in Tasks /\ read \in TaskRecord /\ task \in [Tasks -> TaskRecord]
      /\ read.state \notin {"none", "cancelled"}
  BY DEF IInv, ActorInv, StoreInv, ActorState, Busy, Snapshot, ReadFor, WriteSteps, Free
<1>2. Granted(u, read) /\ (a \in Execs /\ u \in NeedsApproval => read.approved)
  BY DEF GrantInv, HoldsGranted
<1>3. Granted(u, task[u])
  BY <1>1 DEF GrantInv
<1>4. task[u].approved => record.approved
  <2>1. CASE a \in Execs
    BY <1>2, <1>3, <2>1 DEF Granted
  <2>2. CASE task[u].state = read.state
    BY <1>1, <1>2, <1>3, <2>2 DEF Granted, TaskRecord, States, Terminal
  <2>3. QED BY <2>1, <2>2 DEF Matches
<1>5. task'[u] = record /\ \A t \in Tasks \ {u} : task'[t] = task[t]
  BY <1>1 DEF PutRecord
<1>6. QED BY <1>4, <1>5 DEF RowsGranted, GrantInv

LEMMA GrantWrite ==
  ASSUME IInv, GrantInv, NEW a \in Actors, actor[a].pc \in WriteSteps,
         NEW record \in TaskRecord, Granted(actor[a].task, record),
         actor[a].rec.approved => record.approved,
         NEW action, NEW mail,
         NEW hit \in Steps \ WriteSteps, NEW miss \in Steps \ (WriteSteps \cup {"launch"}),
         NEW err \in Steps \ (WriteSteps \cup {"launch"}),
         hit = "launch" => record.state = "queued",
         Write(a, record, action, mail, hit, miss, err), UNCHANGED listed
  PROVE  GrantInv'
<1>1. actor[a].task \in Tasks /\ task \in [Tasks -> TaskRecord]
  BY DEF IInv, ActorInv, StoreInv, Busy, WriteSteps, Free
<1>2. CASE UNCHANGED task /\ (Goto(a, miss) \/ Goto(a, err))
  BY <1>2, RowsRest, GrantGoto
<1>3. CASE Matches(actor[a].task, actor[a].rec.state) /\ Persist(a, record, action, mail)
           /\ (Goto(a, hit) \/ Goto(a, err))
  <2>1. PutRecord(actor[a].task, record)
    BY <1>3 DEF Persist, CommitTx
  <2>2. RowsGranted /\ task'[actor[a].task] = record
    BY <1>1, <1>3, <2>1, RowsWritten DEF PutRecord
  <2>3. hit = "launch" /\ actor[a].task \in NeedsApproval => task'[actor[a].task].approved
    BY <2>2 DEF Granted
  <2>4. QED BY <1>3, <2>2, <2>3, GrantGoto
<1>4. QED BY <1>2, <1>3 DEF Write

LEMMA GrantRequest ==
  ASSUME IInv, GrantInv, NEW c \in Callers, Request(c)
  PROVE  GrantInv'
<1>0. c \in Actors /\ c \notin Execs
  BY CoreAssumption DEF Actors
<1>1. PICK t \in Tasks : \/ Accept(c, t) \/ ApproveLookup(c, t)
                         \/ ResumeLookup(c, t) \/ CancelLookup(c, t)
  BY DEF Request
<1>2. CASE ApproveLookup(c, t) \/ ResumeLookup(c, t) \/ CancelLookup(c, t)
  <2>1. /\ \E pc \in {"approve", "resume", "cancel"} : Hold(c, pc, t, task[t])
        /\ UNCHANGED <<task, listed>>
    BY <1>2 DEF ApproveLookup, ResumeLookup, CancelLookup, Lookup, storeVars
  <2>2. QED BY <1>0, <2>1, GrantHold DEF Steps, CallerSteps
<1>3. CASE Accept(c, t)
  <2> DEFINE state == InitialState(t)
             next == IF state = "queued" THEN "launch" ELSE "off"
             record == [Blank EXCEPT !.state = state]
             new == [pc |-> next, task |-> IF next = "off" THEN NoTask ELSE t, rec |-> Blank]
  <2>1. /\ Granted(t, record) /\ (state = "queued" => t \notin NeedsApproval)
        /\ Blank \in TaskRecord
    BY DEF Granted, InitialState, Blank, TaskRecord, States
  <2>2. task' = [task EXCEPT ![t] = record] /\ ~task[t].approved /\ UNCHANGED listed
    BY <1>3 DEF Accept, CommitTx, PutRecord, GrantInv, Granted
  <2>3. RowsGranted
    BY <2>1, <2>2 DEF RowsGranted, GrantInv, IInv, StoreInv
  <2>4. CASE Goto(c, "off")
    BY <1>0, <2>2, <2>3, <2>4, GrantGoto DEF Steps, CallerSteps, WriteSteps
  <2>5. CASE Hold(c, next, IF next = "off" THEN NoTask ELSE t, Blank)
    <3>1. actor' = [actor EXCEPT ![c] = new]
      BY <2>5 DEF Hold
    <3>2. /\ new \in ActorState /\ new.pc \notin WriteSteps
          /\ new.pc = "launch" => new.task \notin NeedsApproval
      BY <2>1 DEF ActorState, CallerSteps, WriteSteps
    <3>3. \A entry \in listed' : Granted(entry.task, entry.rec)
      BY <2>2 DEF GrantInv
    <3> HIDE DEF new
    <3>4. QED BY <1>0, <2>3, <3>1, <3>2, <3>3, GrantStep
  <2>6. QED BY <1>3, <2>4, <2>5 DEF Accept
<1>4. QED BY <1>1, <1>2, <1>3

LEMMA GrantCaller ==
  ASSUME IInv, GrantInv, NEW c \in Callers, CallerStep(c)
  PROVE  GrantInv'
<1> DEFINE read == actor[c].rec
           t == actor[c].task
<1>0. /\ c \in Actors /\ c \notin Execs
      /\ {"launch", "stop", "off"} \subseteq Steps \ WriteSteps
      /\ {"approve", "resume", "cancel"} \subseteq WriteSteps
      /\ {"queued", "cancelled"} \subseteq States \ {"none", "waiting_approval"}
  BY CoreAssumption DEF Actors, Steps, CallerSteps, WriteSteps, States, Terminal
<1>1. /\ read \in TaskRecord
      /\ actor[c].pc \in WriteSteps => Granted(t, read) /\ Snapshot(c)
  BY <1>0 DEF IInv, ActorInv, ActorState, GrantInv, HoldsGranted
<1>2. CASE ApproveWrite(c)
  <2> DEFINE record == [read EXCEPT !.state = "queued", !.approved = TRUE]
  <2>1. /\ actor[c].pc = "approve" /\ UNCHANGED listed
        /\ Write(c, record, "approved", <<>>, "launch", "off", "off")
    BY <1>2 DEF ApproveWrite, At
  <2>2. record \in TaskRecord /\ record.state = "queued" /\ record.approved
    BY <1>0, <1>1 DEF TaskRecord
  <2>3. Granted(t, record)
    BY <1>0, <1>1, <2>1, <2>2 DEF Granted, Snapshot, ReadFor
  <2> HIDE DEF record
  <2>4. QED BY <1>0, <2>1, <2>2, <2>3, GrantWrite
<1>3. CASE ResumeWrite(c)
  <2> DEFINE record == [read EXCEPT !.state = "queued"]
  <2>1. /\ actor[c].pc = "resume" /\ UNCHANGED listed
        /\ Write(c, record, "resumed", <<>>, "launch", "off", "off")
    BY <1>3 DEF ResumeWrite, At
  <2>2. t \in NeedsApproval => read.approved
    BY <1>0, <1>1, <2>1 DEF Granted, Snapshot, ReadFor
  <2>3. /\ record \in TaskRecord /\ record.state = "queued"
        /\ record.approved = read.approved /\ Granted(t, record)
    BY <1>0, <1>1, <2>1, <2>2, StateGranted DEF TaskRecord
  <2> HIDE DEF record
  <2>4. QED BY <1>0, <2>1, <2>3, GrantWrite
<1>4. CASE CancelWrite(c)
  <2> DEFINE record == [read EXCEPT !.state = "cancelled"]
  <2>1. /\ actor[c].pc = "cancel" /\ UNCHANGED listed
        /\ Write(c, record, "cancelled", <<>>, "stop", "off", "off")
    BY <1>4 DEF CancelWrite, At
  <2>2. /\ record \in TaskRecord
        /\ record.approved = read.approved /\ Granted(t, record)
    BY <1>0, <1>1, <2>1, StateGranted DEF TaskRecord
  <2> HIDE DEF record
  <2>3. QED BY <1>0, <2>1, <2>2, GrantWrite
<1>5. CASE CancelStop(c)
  <2>1. Goto(c, "off") /\ UNCHANGED <<task, listed>>
    BY <1>5 DEF CancelStop, storeVars
  <2>2. QED BY <1>0, <2>1, RowsRest, GrantGoto
<1>6. QED BY <1>2, <1>3, <1>4, <1>5 DEF CallerStep

LEMMA GrantBoot ==
  ASSUME IInv, GrantInv, BootStep
  PROVE  GrantInv'
<1>0. /\ Boot \in Actors /\ Boot \notin Execs
      /\ {"launch", "recover", "off", "halt"} \subseteq Steps \ WriteSteps
      /\ "queued" \in States \ {"none", "waiting_approval"} /\ "requeue" \in WriteSteps
  BY CoreAssumption DEF Actors, Steps, CallerSteps, BootSteps, WriteSteps, States
<1>1. CASE RecoverList
  <2> DEFINE new == [pc |-> "recover", task |-> NoTask, rec |-> Blank]
  <2>1. actor' = [actor EXCEPT ![Boot] = new] /\ UNCHANGED task
    BY <1>1, <1>0 DEF RecoverList, Goto, storeVars
  <2>2. new \in ActorState /\ new.pc = "recover"
    BY DEF ActorState, BootSteps, Blank, TaskRecord, States
  <2>3. \A entry \in listed' : Granted(entry.task, entry.rec)
    BY <1>1 DEF RecoverList, GrantInv
  <2> HIDE DEF new
  <2>4. QED BY <1>0, <2>1, <2>2, <2>3, RowsRest, GrantStep
<1>2. ASSUME NEW entry \in listed, RecoverNext(entry) PROVE GrantInv'
  <2> DEFINE new == [pc |-> "requeue", task |-> entry.task, rec |-> entry.rec]
  <2>1. /\ actor' = [actor EXCEPT ![Boot] = new] /\ UNCHANGED task
        /\ listed' \subseteq listed
    BY <1>2 DEF RecoverNext, Hold, storeVars
  <2>2. /\ new \in ActorState /\ new.pc = "requeue"
        /\ new.task = entry.task /\ new.rec = entry.rec
    BY DEF ActorState, BootSteps, IInv, AttemptInv, Entry
  <2>3. \A other \in listed : Granted(other.task, other.rec)
    BY DEF GrantInv
  <2> HIDE DEF new
  <2>4. QED BY <1>0, <2>1, <2>2, <2>3, RowsRest, GrantStep
<1>3. CASE RecoverWrite
  <2> DEFINE read == actor[Boot].rec
             t == actor[Boot].task
             record == [read EXCEPT !.state = "queued"]
  <2>1. /\ actor[Boot].pc = "requeue" /\ UNCHANGED listed
        /\ Write(Boot, record, "recovered", <<>>, "launch", "recover", "halt")
    BY <1>3 DEF RecoverWrite, At
  <2>2. read \in TaskRecord /\ Granted(t, read) /\ (t \in NeedsApproval => read.approved)
    BY <1>0, <2>1 DEF IInv, ActorInv, ActorState, GrantInv, HoldsGranted, Granted,
                      Snapshot, ReadFor
  <2>3. /\ record \in TaskRecord /\ record.state = "queued"
        /\ record.approved = read.approved /\ Granted(t, record)
    BY <1>0, <2>2, StateGranted DEF TaskRecord
  <2> HIDE DEF record
  <2>4. QED BY <1>0, <2>1, <2>3, GrantWrite
<1>4. CASE RecoverDone
  <2>1. Goto(Boot, "off") /\ UNCHANGED <<task, listed>>
    BY <1>4 DEF RecoverDone, storeVars
  <2>2. QED BY <1>0, <2>1, RowsRest, GrantGoto
<1>5. QED BY <1>1, <1>2, <1>3, <1>4 DEF BootStep

LEMMA GrantLaunch ==
  ASSUME IInv, GrantInv, NEW a \in Callers \cup {Boot}, StartExecution(a)
  PROVE  GrantInv'
<1> DEFINE then == IF a = Boot THEN "recover" ELSE "off"
           old == IF then = "off" THEN Idle ELSE [Idle EXCEPT !.pc = then]
           t == actor[a].task
           young == [pc |-> "spawned", task |-> t, rec |-> Blank]
<1>1. a \in Actors /\ a \notin Execs /\ actor[a].pc = "launch"
  BY CoreAssumption DEF Actors, StartExecution, At
<1>2. PICK e \in Execs :
        /\ actor' = [actor EXCEPT ![a] = old, ![e] = young]
        /\ UNCHANGED <<task, listed>>
  BY DEF StartExecution, Launch, storeVars
<1>3. old.pc \in Free /\ old.task = NoTask /\ e \in Actors /\ e # a
  BY <1>1 DEF Idle, Free, Actors
<1>4. t \in NeedsApproval => task[t].approved
  BY <1>1 DEF GrantInv, WorksGranted
<1>5. ASSUME NEW b \in Actors PROVE HoldsGranted(b)' /\ WorksGranted(b)'
  <2>0. actor \in [Actors -> ActorState]
    BY DEF IInv, ActorInv
  <2>1. CASE b = a
    <3>1. actor'[b] = old
      BY <1>1, <1>2, <1>3, <2>0, <2>1
    <3> HIDE DEF old
    <3>2. QED BY <1>1, <1>3, <2>1, <3>1, StoreAssumption
              DEF HoldsGranted, WorksGranted, WriteSteps, Free
  <2>2. CASE b = e
    <3>1. actor'[b].pc = "spawned" /\ actor'[b].task = t
      BY <1>2, <1>3, <2>0, <2>2
    <3>2. QED BY <1>2, <1>4, <3>1 DEF HoldsGranted, WorksGranted, WriteSteps
  <2>3. CASE b # a /\ b # e
    BY <1>2, <2>0, <2>3 DEF HoldsGranted, WorksGranted, GrantInv
  <2>4. QED BY <2>1, <2>2, <2>3
<1>6. QED BY <1>2, <1>5 DEF GrantInv, Granted

\* The steps of an execution that do not write a record back.
LEMMA GrantExecMoves ==
  ASSUME IInv, GrantInv, NEW e \in Execs, ExecStep(e),
         ~(Start(e) \/ Apply(e) \/ Save(e) \/ Fail(e) \/ Finish(e))
  PROVE  GrantInv'
<1>0. e \in Actors
  BY DEF Actors
<1>1. /\ UNCHANGED <<task, listed>>
      /\ \/ \E pc \in Resting \cup {"project"} : Goto(e, pc)
         \/ \E pc \in {"start", "apply", "save", "fail", "finish"} :
              Hold(e, pc, TaskOf(e), task[TaskOf(e)])
      /\ actor[e].pc \notin Free
  BY Halts DEF ExecStep, Spawned, Subscribe, Receive, StreamLost, Project, AfterProjection,
        Progress, DispatchProgress, ProgressFailed, Respond, FailRead, FinishRead,
        ResultLookup, Deliver, Exit, storeVars, At, Free
<1>2. TaskOf(e) \in Tasks
  BY <1>1, AtWork
<1>3. ASSUME NEW pc \in Resting \cup {"project"}, Goto(e, pc) PROVE GrantInv'
  <2>1. pc \in Steps \ WriteSteps
    BY DEF Resting, Steps, WriteSteps, ExecSteps
  <2>2. actor[e].task \in NeedsApproval => task'[actor[e].task].approved
    BY <1>0, <1>1 DEF GrantInv, WorksGranted
  <2>3. QED BY <1>0, <1>1, <1>3, <2>1, <2>2, RowsRest, GrantGoto
<1>4. ASSUME NEW pc \in {"start", "apply", "save", "fail", "finish"},
             Hold(e, pc, TaskOf(e), task[TaskOf(e)])
      PROVE  GrantInv'
  <2>1. pc \in Steps \ {"launch"}
    BY DEF Steps, ExecSteps
  <2>2. QED BY <1>0, <1>1, <1>2, <1>4, <2>1, GrantHold DEF TaskOf
<1>5. QED BY <1>1, <1>3, <1>4

LEMMA GrantExecWrites ==
  ASSUME IInv, GrantInv, NEW e \in Execs, Start(e) \/ Apply(e) \/ Save(e) \/ Fail(e) \/ Finish(e)
  PROVE  GrantInv'
<1> DEFINE read == actor[e].rec
           t == actor[e].task
<1>0. /\ e \in Actors /\ actor[e].pc \in WriteSteps
      /\ {"exit", "subscribe", "receive", "progressFailed", "dispatchProgress", "failRead",
          "deliver", "respond", "progress"} \subseteq Steps \ (WriteSteps \cup {"launch"})
      /\ {"failed", "running", "final"} \subseteq States \ {"none", "waiting_approval"}
  BY DEF Actors, Steps, ExecSteps, WriteSteps, States, Terminal, Start, Apply, Save, Fail,
         Finish, At
<1>1. /\ read \in TaskRecord /\ t \in Tasks /\ Granted(t, read)
      /\ t \in NeedsApproval => read.approved
  BY <1>0, AtWork DEF GrantInv, HoldsGranted, TaskOf, WriteSteps, Free
<1>2. ASSUME NEW pc \in {"exit", "failRead", "progressFailed"}, Goto(e, pc),
             UNCHANGED <<task, listed>>
      PROVE  GrantInv'
  BY <1>0, <1>2, RowsRest, GrantGoto
<1>3. ASSUME NEW record \in TaskRecord, NEW state \in {"failed", "running", "final"},
             record.approved = read.approved, Granted(t, record),
             NEW action, NEW mail, NEW hit \in {"exit", "subscribe", "deliver"},
             Write(e, [record EXCEPT !.state = state], action, mail, hit, "exit", "exit"),
             UNCHANGED listed
      PROVE  GrantInv'
  <2> DEFINE new == [record EXCEPT !.state = state]
  <2>1. new \in TaskRecord /\ new.approved = read.approved /\ Granted(t, new)
    BY <1>0, <1>1, <1>3, StateGranted DEF TaskRecord
  <2>2. Write(e, new, action, mail, hit, "exit", "exit")
    BY <1>3
  <2> HIDE DEF new
  <2>3. QED BY <1>0, <1>3, <2>1, <2>2, GrantWrite
<1>4. CASE Start(e)
  <2> DEFINE attempt == read.attempt + 1
             record == [read EXCEPT !.attempt = attempt]
  <2>1. attempt \in Nat
    BY <1>1 DEF TaskRecord
  <2> HIDE DEF attempt
  <2>2. record \in TaskRecord /\ record.approved = read.approved /\ record.state = read.state
    BY <1>1, <2>1 DEF TaskRecord
  <2>3. Granted(t, record)
    BY <1>1, <2>2 DEF Granted
  <2>4. \/ Goto(e, "exit") /\ UNCHANGED <<task, listed>>
        \/ /\ \/ Write(e, [record EXCEPT !.state = "failed"], "failed", <<>>, "exit", "exit", "exit")
              \/ Write(e, [record EXCEPT !.state = "running"], "started", <<>>,
                       "subscribe", "exit", "exit")
           /\ UNCHANGED listed
    BY <1>4 DEF Start, storeVars, attempt
  <2> HIDE DEF record
  <2>5. QED BY <1>2, <1>3, <2>2, <2>3, <2>4
<1>5. CASE Fail(e)
  BY <1>1, <1>3, <1>5 DEF Fail
<1>6. CASE Finish(e)
  <2>1. (IF Durable THEN "exit" ELSE "deliver") \in {"exit", "subscribe", "deliver"}
    OBVIOUS
  <2>2. QED BY <1>1, <1>3, <1>6, <2>1 DEF Finish
<1>7. CASE Apply(e)
  <2> DEFINE kind == Received(e).kind
             record == Projection(read, kind, seen[e])
             next == AfterProjection(e)
  <2>1. CASE ContextFails(e)
    BY <1>2, <1>7, <2>1 DEF Apply, storeVars
  <2>2. CASE ~ContextFails(e)
    <3>1. /\ Write(e, record, AgentAction[kind], <<>>, next, "failRead", "failRead")
          /\ UNCHANGED listed
      BY <1>7, <2>2 DEF Apply
    <3>2. kind \in {"running", "progress", "final", "failed"} /\ seen[e] \in Nat
      BY <1>7, AtWork DEF Apply, At, Free, AgentEvent, IInv, AttemptInv
    <3>3. /\ record \in TaskRecord /\ record.approved = read.approved
          /\ record.state = read.state \/ record.state \in {"running", "final", "failed"}
      BY <1>0, <1>1, <3>2 DEF Projection, TaskRecord
    <3>4. Granted(t, record)
      BY <1>1, <3>3 DEF Granted
    <3>5. next \in {"receive", "progress", "respond"}
      BY DEF AfterProjection
    <3> HIDE DEF record, next
    <3>6. QED BY <1>0, <3>1, <3>3, <3>4, <3>5, GrantWrite
  <2>3. QED BY <2>1, <2>2
<1>8. CASE Save(e)
  <2>1. CASE ContextFails(e)
    BY <1>2, <1>8, <2>1 DEF Save, storeVars
  <2>2. CASE ~ContextFails(e) /\ Durable
    <3>1. /\ Write(e, read, "agent_progress", Progressive, "receive", "receive", "progressFailed")
          /\ UNCHANGED listed
      BY <1>8, <2>2 DEF Save
    <3>2. QED BY <1>0, <1>1, <3>1, GrantWrite
  <2>3. CASE ~ContextFails(e) /\ ~Durable
    <3>1. PutRecord(t, read) /\ Goto(e, "dispatchProgress") /\ UNCHANGED listed
      BY <1>8, <2>3 DEF Save, TaskOf
    <3>2. RowsGranted
      BY <1>0, <1>1, <3>1, RowsWritten
    <3>3. QED BY <1>0, <3>1, <3>2, GrantGoto
  <2>4. QED BY <2>1, <2>2, <2>3
<1>9. QED BY <1>4, <1>5, <1>6, <1>7, <1>8

LEMMA GrantCrash ==
  ASSUME IInv, GrantInv, Crash
  PROVE  GrantInv'
<1>1. UNCHANGED task /\ listed' = {}
  BY DEF Crash, storeVars
<1>2. ASSUME NEW b \in Actors PROVE HoldsGranted(b)' /\ WorksGranted(b)'
  <2>1. actor[b] \in ActorState
    BY DEF IInv, ActorInv
  <2>2. \/ actor'[b].pc \in {"list", "off"} /\ actor'[b].task = NoTask
        \/ b \in Execs /\ actor'[b].pc = "done" /\ actor'[b].task = actor[b].task
    BY <2>1 DEF Crash, Idle, ActorState
  <2>3. QED BY <1>1, <2>2, StoreAssumption
            DEF GrantInv, HoldsGranted, WorksGranted, WriteSteps
<1>3. QED BY <1>1, <1>2 DEF GrantInv, Granted

LEMMA GrantNext == IInv /\ GrantInv /\ [Next]_vars => GrantInv'
<1> SUFFICES ASSUME IInv, GrantInv, [Next]_vars PROVE GrantInv'
  OBVIOUS
<1>1. CASE UNCHANGED <<task, actor, listed>>
  BY <1>1 DEF GrantInv, HoldsGranted, WorksGranted
<1>2. CASE UNCHANGED vars
  BY <1>1, <1>2 DEF vars
<1>3. ASSUME NEW e \in Execs, Timeout(e) \/ AgentStep(e) PROVE GrantInv'
  BY <1>1, <1>3 DEF Timeout, AgentStep, AgentRun, AgentEmit, AgentAbort, storeVars
<1>4. ASSUME NEW a \in Actors, FlushAudit(a) PROVE GrantInv'
  BY <1>1, <1>4 DEF FlushAudit
<1>5. QED
  BY <1>2, <1>3, <1>4, GrantRequest, GrantCaller, GrantBoot, GrantLaunch, GrantExecMoves,
     GrantExecWrites, GrantCrash DEF Next

LEMMA GrantInvariant == Spec => []GrantInv
BY GrantInitially, GrantNext, Invariance, PTL DEF Spec

\* A task submitted with require_approval is never executed, requeued or recovered
\* before ApproveTask granted it, in either build (service.go:311-313, 396-398, 502).
THEOREM ApprovedFirst == Spec => []ApprovalFirst
<1>1. GrantInv => ApprovalFirst
  BY StoreAssumption DEF GrantInv, Granted, WorksGranted, ApprovalFirst, Actors
<1>2. QED BY <1>1, GrantInvariant, PTL

------------------------------------------------------------------------------
\* A durable gate implements TaskLifecycle.

\* What a write may make of the record it read, and of the mail it sends along.
Live == {"queued", "running"}
Lawful(t, old, new, mail) ==
  \/ /\ old.state = "none" /\ mail # Final /\ old.approved = new.approved
     /\ new.state = IF t \in NeedsApproval THEN "waiting_approval" ELSE "queued"
  \/ old.state = "waiting_approval" /\ new.state = "queued" /\ new.approved /\ mail # Final
  \/ /\ old.approved = new.approved /\ mail # Final
     /\ \/ new.state = old.state
        \/ old.state \in {"waiting_approval"} \cup Live /\ new.state = "cancelled"
        \/ old.state = "queued" /\ new.state = "running"
        \/ old.state \in {"failed"} \cup Live /\ new.state = "queued"
        \/ old.state \in {"failed", "final"} \cup Live /\ new.state = "failed"
        \/ old.state \in Live /\ new.state = "final"
  \/ /\ old.approved = new.approved /\ mail = Final
     /\ old.state \in {"failed", "final"} \cup Live /\ new.state = "final"

Lawfully ==
  \E record \in TaskRecord, event \in AuditEvent, mail \in Mails :
    /\ event.task \in Tasks /\ CommitTx(record, event, mail)
    /\ Lawful(event.task, task[event.task], record, mail)

LEMMA WriteLawful ==
  ASSUME Durable, IInv, GrantInv, NEW a \in Actors, actor[a].pc \in WriteSteps,
         NEW record \in TaskRecord, NEW action \in Actions, NEW mail \in Mails,
         Lawful(actor[a].task, actor[a].rec, record, mail),
         NEW hit, NEW miss, NEW err,
         Write(a, record, action, mail, hit, miss, err)
  PROVE  Lawfully \/ UNCHANGED storeVars
<1> DEFINE t == actor[a].task
           event == [task |-> t, action |-> action,
                     from |-> actor[a].rec.state, to |-> record.state]
<1>1. CASE Matches(t, actor[a].rec.state) /\ Persist(a, record, action, mail)
  <2>1. CommitTx(record, event, mail) /\ event.task = t
    BY <1>1 DEF Persist
  <2>2. /\ t \in Tasks /\ task[t] \in TaskRecord /\ actor[a].rec \in TaskRecord
        /\ task[t].state = actor[a].rec.state /\ event \in AuditEvent
        /\ task[t].state \notin {"none", "cancelled"}
    BY <1>1 DEF Matches, IInv, ActorInv, StoreInv, Busy, ActorState, AuditEvent, TaskRecord,
                Snapshot, ReadFor, WriteSteps, Free
  <2>3. task[t].approved = actor[a].rec.approved
    BY <2>2 DEF GrantInv, HoldsGranted, Granted, TaskRecord, States, Terminal
  <2>4. Lawful(t, task[t], record, mail)
    BY <2>2, <2>3 DEF Lawful
  <2>5. QED BY <2>1, <2>2, <2>4 DEF Lawfully
<1>2. CASE UNCHANGED <<task, audit, outbox>>
  BY <1>2 DEF storeVars
<1>3. QED BY <1>1, <1>2 DEF Write

\* What an execution reads is never waiting for its approval.
LEMMA ExecReads ==
  ASSUME IInv, GrantInv, NEW e \in Execs, actor[e].pc \in WriteSteps
  PROVE  /\ e \in Actors /\ actor[e].rec \in TaskRecord
         /\ actor[e].rec.state \in Live \cup {"failed", "final"}
         /\ actor[e].pc = "start" => actor[e].rec.state = "queued"
         /\ actor[e].pc \in {"apply", "save"} => actor[e].rec.state \in Live
<1>1. e \in Actors
  BY DEF Actors
<1>2. actor[e].rec.state \notin {"none", "cancelled", "waiting_approval"}
  BY <1>1 DEF IInv, ActorInv, Snapshot, ReadFor, WriteSteps, GrantInv, HoldsGranted, Granted
<1>3. QED BY <1>1, <1>2 DEF IInv, ActorInv, ActorState, Snapshot, ReadFor, TaskRecord, States, Terminal, Live

LEMMA NextLawful ==
  ASSUME Durable, IInv, GrantInv, [Next]_vars
  PROVE  Lawfully \/ UNCHANGED storeVars
<1> DEFINE Done == Lawfully \/ UNCHANGED storeVars
<1>0. /\ {"approved", "resumed", "cancelled", "recovered", "failed", "started",
          "finished", "agent_progress", "created"} \subseteq Actions
      /\ <<>> \in Mails /\ Progressive \in Mails /\ Final \in Mails
      /\ <<>> # Final /\ Progressive # Final
      /\ {"approve", "resume", "cancel", "requeue", "start", "apply", "save", "fail",
          "finish"} = WriteSteps
  BY DEF Actions, Mails, Progressive, Final, WriteSteps
<1>1. ASSUME NEW c \in Callers, NEW t \in Tasks, Accept(c, t) PROVE Done
  <2> DEFINE state == InitialState(t)
             record == [Blank EXCEPT !.state = state]
             event == [task |-> t, action |-> "created", from |-> "none", to |-> state]
  <2>1. state \in {"waiting_approval", "queued"}
    BY DEF InitialState
  <2>2. record \in TaskRecord /\ record.state = state /\ ~record.approved
    BY <2>1 DEF Blank, TaskRecord, States
  <2>3. event \in AuditEvent
    BY <2>1, <1>0 DEF AuditEvent, States
  <2>4. CommitTx(record, event, <<>>) /\ task[t].state = "none"
    BY <1>1 DEF Accept
  <2>5. task[t].approved = record.approved
    BY <2>2, <2>4 DEF GrantInv, Granted, IInv, StoreInv, TaskRecord
  <2>6. Lawful(t, task[t], record, <<>>)
    BY <1>0, <2>2, <2>4, <2>5 DEF Lawful, InitialState
  <2> HIDE DEF record
  <2>7. QED BY <1>0, <2>2, <2>3, <2>4, <2>6 DEF Lawfully
<1>2. ASSUME NEW c \in Callers, CallerStep(c) PROVE Done
  <2> DEFINE read == actor[c].rec
  <2>1. c \in Actors /\ read \in TaskRecord /\ Snapshot(c)
    BY DEF Actors, IInv, ActorInv, ActorState
  <2>2. CASE ApproveWrite(c)
    <3> DEFINE record == [read EXCEPT !.state = "queued", !.approved = TRUE]
    <3>1. /\ actor[c].pc = "approve" /\ read.state = "waiting_approval"
          /\ Write(c, record, "approved", <<>>, "launch", "off", "off")
      BY <2>1, <2>2 DEF ApproveWrite, At, Snapshot, ReadFor
    <3>2. record \in TaskRecord /\ Lawful(actor[c].task, read, record, <<>>)
      BY <1>0, <2>1, <3>1 DEF Lawful, TaskRecord, States
    <3> HIDE DEF record
    <3>3. QED BY <1>0, <2>1, <3>1, <3>2, WriteLawful
  <2>3. CASE ResumeWrite(c)
    <3> DEFINE record == [read EXCEPT !.state = "queued"]
    <3>1. /\ actor[c].pc = "resume" /\ read.state = "failed"
          /\ Write(c, record, "resumed", <<>>, "launch", "off", "off")
      BY <2>1, <2>3 DEF ResumeWrite, At, Snapshot, ReadFor
    <3>2. record \in TaskRecord /\ Lawful(actor[c].task, read, record, <<>>)
      BY <1>0, <2>1, <3>1 DEF Lawful, Live, TaskRecord, States
    <3> HIDE DEF record
    <3>3. QED BY <1>0, <2>1, <3>1, <3>2, WriteLawful
  <2>4. CASE CancelWrite(c)
    <3> DEFINE record == [read EXCEPT !.state = "cancelled"]
    <3>1. /\ actor[c].pc = "cancel" /\ read.state \in {"waiting_approval", "queued", "running"}
          /\ Write(c, record, "cancelled", <<>>, "stop", "off", "off")
      BY <2>1, <2>4 DEF CancelWrite, At, Snapshot, ReadFor
    <3>2. record \in TaskRecord /\ Lawful(actor[c].task, read, record, <<>>)
      BY <1>0, <2>1, <3>1 DEF Lawful, Live, TaskRecord, States, Terminal
    <3> HIDE DEF record
    <3>3. QED BY <1>0, <2>1, <3>1, <3>2, WriteLawful
  <2>5. CASE CancelStop(c)
    BY <2>5 DEF CancelStop
  <2>6. QED BY <1>2, <2>2, <2>3, <2>4, <2>5 DEF CallerStep
<1>3. ASSUME NEW c \in Callers, Request(c) PROVE Done
  BY <1>1, <1>3 DEF Request, ApproveLookup, ResumeLookup, CancelLookup, Lookup
<1>4. ASSUME BootStep PROVE Done
  <2> DEFINE read == actor[Boot].rec
             record == [read EXCEPT !.state = "queued"]
  <2>1. CASE RecoverWrite
    <3>1. Boot \in Actors /\ read \in TaskRecord /\ Snapshot(Boot)
      BY DEF Actors, IInv, ActorInv, ActorState
    <3>2. /\ actor[Boot].pc = "requeue" /\ read.state \in Live
          /\ Write(Boot, record, "recovered", <<>>, "launch", "recover", "halt")
      BY <2>1, <3>1 DEF RecoverWrite, At, Snapshot, ReadFor, Live
    <3>3. record \in TaskRecord /\ Lawful(actor[Boot].task, read, record, <<>>)
      BY <1>0, <3>1, <3>2 DEF Lawful, TaskRecord, States
    <3> HIDE DEF record
    <3>4. QED BY <1>0, <3>1, <3>2, <3>3, WriteLawful
  <2>2. QED BY <1>4, <2>1 DEF BootStep, RecoverList, RecoverNext, RecoverDone
<1>5. ASSUME NEW e \in Execs, ExecStep(e) PROVE Done
  <2> DEFINE read == actor[e].rec
  <2>1. ASSUME NEW record \in TaskRecord, record.state = read.state,
               record.approved = read.approved, actor[e].pc \in WriteSteps,
               NEW state \in {"failed", "running", "final"},
               NEW action \in Actions, NEW mail \in Mails,
               Lawful(actor[e].task, record, [record EXCEPT !.state = state], mail),
               NEW hit, NEW miss, NEW err,
               Write(e, [record EXCEPT !.state = state], action, mail, hit, miss, err)
        PROVE  Done
    <3> DEFINE new == [record EXCEPT !.state = state]
    <3>1. new \in TaskRecord /\ e \in Actors
      BY DEF TaskRecord, States, Terminal, Actors
    <3>2. Lawful(actor[e].task, read, new, mail)
      BY <2>1 DEF Lawful
    <3>3. Write(e, new, action, mail, hit, miss, err)
      BY <2>1
    <3> HIDE DEF new
    <3>4. QED BY <2>1, <3>1, <3>2, <3>3, WriteLawful
  <2>2. CASE Start(e)
    <3> DEFINE attempt == read.attempt + 1
               record == [read EXCEPT !.attempt = attempt]
    <3>1. actor[e].pc \in WriteSteps /\ read \in TaskRecord /\ read.state = "queued"
      BY <1>0, <2>2, ExecReads DEF Start, At
    <3>2. attempt \in Nat
      BY <3>1 DEF TaskRecord
    <3>3. \/ UNCHANGED storeVars
          \/ Write(e, [record EXCEPT !.state = "failed"], "failed", <<>>, "exit", "exit", "exit")
          \/ Write(e, [record EXCEPT !.state = "running"], "started", <<>>, "subscribe",
                   "exit", "exit")
      BY <2>2 DEF Start
    <3> HIDE DEF attempt
    <3>4. record \in TaskRecord /\ record.state = "queued" /\ record.approved = read.approved
      BY <3>1, <3>2 DEF TaskRecord
    <3> HIDE DEF record
    <3>5. ASSUME NEW state \in {"failed", "running"}
          PROVE  Lawful(actor[e].task, record, [record EXCEPT !.state = state], <<>>)
      BY <1>0, <3>4 DEF Lawful, Live, TaskRecord
    <3>6. QED BY <1>0, <2>1, <3>1, <3>3, <3>4, <3>5
  <2>3. CASE Fail(e)
    <3>1. /\ actor[e].pc \in WriteSteps /\ read \in TaskRecord
          /\ read.state \in Live \cup {"failed", "final"}
      BY <1>0, <2>3, ExecReads DEF Fail, At
    <3>2. Lawful(actor[e].task, read, [read EXCEPT !.state = "failed"], <<>>)
      BY <1>0, <3>1 DEF Lawful, TaskRecord
    <3>3. QED BY <1>0, <2>1, <2>3, <3>1, <3>2 DEF Fail
  <2>4. CASE Finish(e)
    <3>1. /\ actor[e].pc \in WriteSteps /\ read \in TaskRecord
          /\ read.state \in Live \cup {"failed", "final"}
      BY <1>0, <2>4, ExecReads DEF Finish, At
    <3>2. Lawful(actor[e].task, read, [read EXCEPT !.state = "final"], Final)
      BY <3>1 DEF Lawful, TaskRecord
    <3>3. QED BY <1>0, <2>1, <2>4, <3>1, <3>2 DEF Finish
  <2>5. CASE Apply(e)
    <3> DEFINE kind == Received(e).kind
               record == Projection(read, kind, seen[e])
    <3>1. /\ actor[e].pc \in WriteSteps /\ read \in TaskRecord /\ read.state \in Live
          /\ e \in Actors
      BY <1>0, <2>5, ExecReads DEF Apply, At
    <3>2. kind \in {"running", "progress", "final", "failed"} /\ seen[e] \in Nat
      BY <2>5, AtWork DEF Apply, At, Free, AgentEvent, IInv, AttemptInv
    <3>3. AgentAction[kind] \in Actions
      BY <3>2 DEF AgentAction, Actions
    <3>4. /\ record \in TaskRecord /\ record.approved = read.approved
          /\ record.state = read.state \/ record.state \in {"running", "final", "failed"}
      BY <3>1, <3>2 DEF Projection, TaskRecord, States, Terminal
    <3>5. \/ UNCHANGED storeVars
          \/ Write(e, record, AgentAction[kind], <<>>, AfterProjection(e), "failRead", "failRead")
      BY <2>5 DEF Apply
    <3> HIDE DEF record
    <3>6. Lawful(actor[e].task, read, record, <<>>)
      BY <1>0, <3>1, <3>4 DEF Lawful, Live
    <3>7. QED BY <1>0, <3>1, <3>3, <3>4, <3>5, <3>6, WriteLawful
  <2>6. CASE Save(e)
    <3>1. actor[e].pc \in WriteSteps /\ read \in TaskRecord /\ e \in Actors
      BY <1>0, <2>6, ExecReads DEF Save, At
    <3>2. Lawful(actor[e].task, read, read, Progressive)
      BY <1>0 DEF Lawful
    <3>3. QED BY <1>0, <2>6, <3>1, <3>2, WriteLawful DEF Save
  <2>7. CASE ~(Start(e) \/ Apply(e) \/ Save(e) \/ Fail(e) \/ Finish(e))
    BY <1>5, <2>7
    DEF ExecStep, Spawned, Subscribe, Receive, StreamLost, Project, Progress,
        DispatchProgress, ProgressFailed, Respond, FailRead, FinishRead, ResultLookup,
        Deliver, Exit
  <2>8. QED BY <2>2, <2>3, <2>4, <2>5, <2>6, <2>7
<1>6. ASSUME NEW e \in Execs, Timeout(e) \/ AgentStep(e) PROVE Done
  BY <1>6 DEF Timeout, AgentStep, AgentRun, AgentEmit, AgentAbort
<1>7. ASSUME NEW a \in Actors, StartExecution(a) \/ FlushAudit(a) PROVE Done
  BY <1>7 DEF StartExecution, Launch, FlushAudit, IInv, StoreInv
<1>8. CASE Crash
  BY <1>8 DEF Crash
<1>9. CASE UNCHANGED vars
  BY <1>9 DEF vars, storeVars
<1>10. QED
  BY <1>2, <1>3, <1>4, <1>5, <1>6, <1>7, <1>8, <1>9 DEF Next, Actors

\* The replies among a task's deliveries after one more batch.
LEMMA MailPosts ==
  ASSUME NEW seq \in Seq({"final", "progress"}), NEW mail \in Mails
  PROVE  Count(seq \o mail, IsFinal)
           = IF mail = Final THEN Count(seq, IsFinal) + 1 ELSE Count(seq, IsFinal)
<1>0. ASSUME NEW any PROVE Count(any, IsFinal) = Tally(any, {"final"})
  BY DEF Count, IsFinal, Tally
<1>1. CASE mail = <<>>
  <2>1. seq \o mail = seq /\ mail # Final
    BY <1>1 DEF Final
  <2>2. QED BY <2>1
<1>2. CASE mail = Progressive
  <2>1. seq \o mail = Append(seq, "progress") /\ mail # Final
    BY <1>2 DEF Progressive, Final
  <2>2. QED BY <1>0, <2>1, TallyMail
<1>3. CASE mail = Final
  <2>1. seq \o mail = Append(seq, "final")
    BY <1>3 DEF Final
  <2>2. QED BY <1>0, <1>3, <2>1, TallyMail
<1>4. QED BY <1>1, <1>2, <1>3 DEF Mails

\* A gate backed by PostgreSQL shows nobody more than TaskLifecycle: no snapshot,
\* goroutine, fault or crash can be told from the rows and the outbox
\* (service.go:136-606).
THEOREM ImplementsLifecycle ==
  ASSUME Durable
  PROVE  Spec => Lifecycle
<1> DEFINE stateOf == [t \in Tasks |-> task[t].state]
           grantOf == [t \in Tasks |-> task[t].approved]
           mailOf == [t \in Tasks |-> Count(outbox[t], IsFinal)]
<1>1. Init => Abstract!LifecycleInit
  <2> SUFFICES ASSUME Init PROVE Abstract!LifecycleInit
    OBVIOUS
  <2>1. \A t \in Tasks : task[t] = Blank /\ outbox[t] = <<>>
    BY DEF Init, StoreInit
  <2>2. Count(<<>>, IsFinal) = 0
    BY FS_EmptySet DEF Count
  <2>3. /\ [t \in Tasks |-> task[t].state] = [t \in Tasks |-> "none"]
        /\ [t \in Tasks |-> task[t].approved] = [t \in Tasks |-> FALSE]
    <3>1. \A t \in Tasks : task[t].state = "none" /\ task[t].approved = FALSE
      BY <2>1 DEF Blank
    <3> HIDE DEF stateOf, grantOf, mailOf
    <3>2. QED BY <3>1
  <2>4. \A t \in Tasks : Count(outbox[t], IsFinal) = 0
    <3> SUFFICES ASSUME NEW t \in Tasks PROVE Count(outbox[t], IsFinal) = 0
      OBVIOUS
    <3>1. outbox[t] = <<>>
      BY <2>1
    <3>2. Count(outbox[t], IsFinal) = Count(<<>>, IsFinal)
      BY <3>1, Zenon
    <3>3. QED BY <2>2, <3>2
  <2>5. mailOf = [t \in Tasks |-> 0]
    BY <2>4
  <2>6. QED BY <2>3, <2>5 DEF Abstract!LifecycleInit
<1>2. IInv /\ GrantInv /\ [Next]_vars => [Abstract!LifecycleNext]_(Abstract!lifecycleVars)
  <2> SUFFICES ASSUME IInv, GrantInv, [Next]_vars
               PROVE  [Abstract!LifecycleNext]_(Abstract!lifecycleVars)
    OBVIOUS
  <2>1. CASE UNCHANGED storeVars
    BY <2>1 DEF storeVars, Abstract!lifecycleVars
  <2>2. ASSUME NEW record \in TaskRecord, NEW event \in AuditEvent, NEW mail \in Mails,
               event.task \in Tasks, CommitTx(record, event, mail),
               Lawful(event.task, task[event.task], record, mail)
        PROVE  [Abstract!LifecycleNext]_(Abstract!lifecycleVars)
    <3> DEFINE t == event.task
    <3>1. /\ task \in [Tasks -> TaskRecord] /\ task' = [task EXCEPT ![t] = record]
          /\ outbox \in [Tasks -> Seq({"final", "progress"})]
          /\ outbox' = [outbox EXCEPT ![t] = @ \o mail]
      BY <2>2 DEF CommitTx, PutRecord, Enqueue, IInv, StoreInv
    <3>2. stateOf' = [stateOf EXCEPT ![t] = record.state]
      BY <2>2, <3>1
    <3>3. grantOf' = [grantOf EXCEPT ![t] = record.approved]
      BY <2>2, <3>1
    <3>4. outbox'[t] = outbox[t] \o mail /\ \A u \in Tasks \ {t} : outbox'[u] = outbox[u]
      BY <2>2, <3>1
    <3>5. mailOf' = [mailOf EXCEPT ![t] = IF mail = Final THEN @ + 1 ELSE @]
      BY <2>2, <3>1, <3>4, MailPosts
    <3>6. stateOf[t] = task[t].state /\ grantOf[t] = task[t].approved
      BY <2>2
    <3>7. /\ record.approved = task[t].approved => grantOf' = grantOf
          /\ record.state = task[t].state => stateOf' = stateOf
          /\ mail # Final => mailOf' = mailOf
      BY <2>2, <3>2, <3>3, <3>5, <3>6
    <3>8. CASE /\ task[t].state = "none" /\ mail # Final /\ record.approved = task[t].approved
               /\ record.state = IF t \in NeedsApproval THEN "waiting_approval" ELSE "queued"
      <4>1. stateOf' = [stateOf EXCEPT ![t] = IF t \in NeedsApproval THEN "waiting_approval"
                                                                    ELSE "queued"]
        BY <3>2, <3>8
      <4>2. Abstract!Submit(t)
        BY <3>6, <3>7, <3>8, <4>1 DEF Abstract!Submit, Abstract!Move
      <4>3. QED BY <2>2, <4>2 DEF Abstract!LifecycleNext
    <3>9. CASE task[t].state = "waiting_approval" /\ record.state = "queued" /\ record.approved
               /\ mail # Final
      <4>1. record.approved = TRUE
        BY <3>9 DEF TaskRecord
      <4>2. stateOf' = [stateOf EXCEPT ![t] = "queued"] /\ grantOf' = [grantOf EXCEPT ![t] = TRUE]
        BY <3>2, <3>3, <3>9, <4>1
      <4>3. Abstract!Approve(t)
        BY <3>6, <3>7, <3>9, <4>2 DEF Abstract!Approve, Abstract!Move
      <4>4. QED BY <2>2, <4>3 DEF Abstract!LifecycleNext
    <3>10. CASE mail = Final
      BY <2>2, <3>2, <3>5, <3>6, <3>7, <3>10
      DEF Lawful, Live, Abstract!Finish, Abstract!Live, Abstract!Move, Abstract!LifecycleNext
    <3>11. CASE record.state = task[t].state /\ record.approved = task[t].approved /\ mail # Final
      BY <3>7, <3>11 DEF Abstract!lifecycleVars
    <3>12. ASSUME record.approved = task[t].approved, mail # Final
           PROVE  grantOf' = grantOf /\ mailOf' = mailOf
      BY <3>7, <3>12
    <3>13. ASSUME record.approved = task[t].approved, mail # Final,
                  NEW from, stateOf[t] \in from, NEW to, record.state = to
           PROVE  /\ Abstract!Move(t, from, to) /\ grantOf' = grantOf /\ mailOf' = mailOf
      BY <3>2, <3>12, <3>13 DEF Abstract!Move
    <3>14. CASE /\ record.approved = task[t].approved /\ mail # Final
                /\ task[t].state \in {"waiting_approval"} \cup Live /\ record.state = "cancelled"
      <4>1. Abstract!Cancel(t)
        BY <3>6, <3>13, <3>14 DEF Live, Abstract!Live, Abstract!Cancel
      <4>2. QED BY <2>2, <4>1 DEF Abstract!LifecycleNext
    <3>15. CASE /\ record.approved = task[t].approved /\ mail # Final
                /\ task[t].state = "queued" /\ record.state = "running"
      <4>1. Abstract!Begin(t)
        BY <3>6, <3>13, <3>15 DEF Abstract!Begin
      <4>2. QED BY <2>2, <4>1 DEF Abstract!LifecycleNext
    <3>16. CASE /\ record.approved = task[t].approved /\ mail # Final
                /\ task[t].state \in {"failed"} \cup Live /\ record.state = "queued"
      <4>1. Abstract!Requeue(t)
        BY <3>6, <3>13, <3>16 DEF Live, Abstract!Live, Abstract!Requeue
      <4>2. QED BY <2>2, <4>1 DEF Abstract!LifecycleNext
    <3>17. CASE /\ record.approved = task[t].approved /\ mail # Final
                /\ task[t].state \in {"failed", "final"} \cup Live /\ record.state = "failed"
      <4>1. Abstract!Fail(t)
        BY <3>6, <3>13, <3>17 DEF Live, Abstract!Live, Abstract!Fail
      <4>2. QED BY <2>2, <4>1 DEF Abstract!LifecycleNext
    <3>18. CASE /\ record.approved = task[t].approved /\ mail # Final
                /\ task[t].state \in Live /\ record.state = "final"
      <4>1. Abstract!Report(t)
        BY <3>6, <3>13, <3>18 DEF Live, Abstract!Live, Abstract!Report
      <4>2. QED BY <2>2, <4>1 DEF Abstract!LifecycleNext
    <3>19. QED
      BY <2>2, <3>8, <3>9, <3>10, <3>11, <3>14, <3>15, <3>16, <3>17, <3>18 DEF Lawful
  <2>3. QED BY <2>1, <2>2, NextLawful DEF Lawfully
<1>3. QED BY <1>1, <1>2, Invariance, GrantInvariant, PTL DEF Spec, Lifecycle, Abstract!LifecycleSpec

------------------------------------------------------------------------------
\* Who moves in a step, and where to.

LEMMA GotoMoves ==
  ASSUME IInv, NEW a \in Actors, NEW pc, Goto(a, pc)
  PROVE  /\ \A b \in Actors \ {a} : actor'[b] = actor[b]
         /\ actor'[a].pc = pc
         /\ pc \notin {"off", "recover"} => actor'[a].task = actor[a].task
         /\ pc \in {"off", "recover"} => actor'[a].task = NoTask
BY DEF Goto, IInv, ActorInv

LEMMA HoldMoves ==
  ASSUME IInv, NEW a \in Actors, NEW pc, NEW t, NEW record, Hold(a, pc, t, record)
  PROVE  /\ \A b \in Actors \ {a} : actor'[b] = actor[b]
         /\ actor'[a].pc = pc /\ actor'[a].task = t /\ actor'[a].rec = record
BY DEF Hold, IInv, ActorInv

\* What is left of the bounds shrinks by a fault, a crash or a resume.
LEMMA BudgetMoves ==
  ASSUME [Next]_vars
  PROVE  \/ UNCHANGED budget \/ Fault \/ Crash
         \/ \E c \in Callers, t \in Tasks : ResumeLookup(c, t)
<1>1. ASSUME NEW c \in Callers, NEW t \in Tasks,
             Accept(c, t) \/ ApproveLookup(c, t) \/ CancelLookup(c, t)
      PROVE  UNCHANGED budget \/ Fault
  BY <1>1 DEF Accept, ApproveLookup, CancelLookup, StoreFault
<1>2. ASSUME NEW c \in Callers, CallerStep(c) PROVE UNCHANGED budget \/ Fault
  BY <1>2 DEF CallerStep, ApproveWrite, ResumeWrite, CancelWrite, CancelStop, Write,
              StoreFault
<1>3. ASSUME BootStep PROVE UNCHANGED budget \/ Fault
  BY <1>3 DEF BootStep, RecoverList, RecoverNext, RecoverWrite, RecoverDone, Write,
              StoreFault
<1>4. ASSUME NEW e \in Execs, ExecStep(e) PROVE UNCHANGED budget \/ Fault
  <2>1. CASE Start(e) \/ Apply(e) \/ Save(e) \/ Fail(e) \/ Finish(e)
    BY <2>1 DEF Start, Apply, Save, Fail, Finish, Write, StoreFault
  <2>2. CASE ~(Start(e) \/ Apply(e) \/ Save(e) \/ Fail(e) \/ Finish(e))
    BY <1>4, <2>2 DEF ExecStep, Spawned, Subscribe, Receive, StreamLost, Project,
       Progress, DispatchProgress, ProgressFailed, Respond, FailRead, FinishRead,
       ResultLookup, Deliver, Exit, StoreFault
  <2>3. QED BY <2>1, <2>2
<1>5. ASSUME NEW e \in Execs, Timeout(e) \/ AgentStep(e) PROVE UNCHANGED budget
  BY <1>5 DEF Timeout, AgentStep, AgentRun, AgentEmit, AgentAbort
<1>6. ASSUME NEW a \in Actors, StartExecution(a) \/ FlushAudit(a) PROVE UNCHANGED budget
  BY <1>6 DEF StartExecution, Launch, FlushAudit
<1>7. QED
  BY <1>1, <1>2, <1>3, <1>4, <1>5, <1>6 DEF Next, Request, Actors, vars

\* While the store answers, a compare-and-set comes out one way or the other.
Sure == Durable => budget.fault = 0

LEMMA SureNext == IInv /\ Sure /\ [Next]_vars => Sure'
<1> SUFFICES ASSUME IInv, Sure, Durable, [Next]_vars PROVE budget'.fault = 0
  BY DEF Sure
<1>1. budget \in [resume : Nat, crash : Nat, fault : Nat] /\ budget.fault = 0
  BY DEF IInv, StoreInv, Sure
<1>2. CASE UNCHANGED budget
  BY <1>1, <1>2
<1>3. CASE Fault
  BY <1>1, <1>3 DEF Fault
<1>4. CASE Crash
  BY <1>1, <1>4 DEF Crash
<1>5. ASSUME NEW c \in Callers, NEW t \in Tasks, ResumeLookup(c, t) PROVE budget'.fault = 0
  BY <1>1, <1>5 DEF ResumeLookup
<1>6. QED BY <1>2, <1>3, <1>4, <1>5, BudgetMoves

LEMMA SureWrite ==
  ASSUME IInv, Sure, NEW a \in Actors, actor[a].pc \notin Free,
         NEW record, NEW action, NEW mail, NEW hit, NEW miss, NEW err,
         Write(a, record, action, mail, hit, miss, err)
  PROVE  LET t == actor[a].task
         IN \/ /\ Matches(t, actor[a].rec.state) /\ Goto(a, hit)
               /\ task'[t] = record /\ \A u \in Tasks \ {t} : task'[u] = task[u]
               /\ Durable => Enqueue(t, mail)
               /\ ~Durable => UNCHANGED outbox
            \/ /\ ~Matches(t, actor[a].rec.state) /\ Goto(a, miss)
               /\ UNCHANGED <<task, outbox>>
<1>1. ~StoreFault
  BY DEF StoreFault, Fault, Sure, IInv, StoreInv
<1>2. task \in [Tasks -> TaskRecord] /\ actor[a].task \in Tasks
  BY DEF IInv, StoreInv, ActorInv, Busy
<1>3. CASE Matches(actor[a].task, actor[a].rec.state) /\ Persist(a, record, action, mail)
           /\ Goto(a, hit)
  <2>1. PutRecord(actor[a].task, record) /\ (Durable => Enqueue(actor[a].task, mail))
        /\ (~Durable => UNCHANGED outbox)
    BY <1>3 DEF Persist, CommitTx
  <2>2. QED BY <1>2, <1>3, <2>1 DEF PutRecord
<1>4. QED BY <1>1, <1>3 DEF Write

\* A compare-and-set writes the record or nothing, and its handler moves on.
LEMMA WriteMoves ==
  ASSUME IInv, NEW a \in Actors, actor[a].pc \notin Free,
         NEW record, NEW action, NEW mail, NEW hit, NEW miss, NEW err,
         Write(a, record, action, mail, hit, miss, err)
  PROVE  /\ \/ UNCHANGED task
            \/ /\ task'[actor[a].task] = record
               /\ \A u \in Tasks \ {actor[a].task} : task'[u] = task[u]
         /\ \E pc \in {hit, miss, err} : Goto(a, pc)
         /\ task'[actor[a].task] = record \/ Goto(a, miss) \/ Goto(a, err)
<1>1. task \in [Tasks -> TaskRecord] /\ actor[a].task \in Tasks
  BY DEF IInv, StoreInv, ActorInv, Busy
<1>2. ASSUME Persist(a, record, action, mail)
      PROVE  /\ task'[actor[a].task] = record
             /\ \A u \in Tasks \ {actor[a].task} : task'[u] = task[u]
  BY <1>1, <1>2 DEF Persist, CommitTx, PutRecord
<1>3. QED BY <1>2 DEF Write

\* The steps of an execution under its context, and those that read a result.
Inside == UnderContext \cup {"exit", "failRead", "finishRead", "fail", "finish", "deliver"}

\* An execution moves alone and keeps its task; only its start brings it under
\* its context, only its exit drops a cancel function, and it cancels nothing.
LEMMA ExecFacts ==
  ASSUME IInv, NEW e \in Execs, ExecStep(e)
  PROVE  /\ \A b \in Actors \ {e} : actor'[b] = actor[b]
         /\ actor'[e].task = actor[e].task /\ actor'[e].pc \notin Free
         /\ actor[e].pc \notin Free \cup {"done"} /\ stopped \subseteq stopped'
         /\ \/ UNCHANGED cancels
            \/ /\ actor'[e].pc = "done"
               /\ cancels' = [cancels EXCEPT ![actor[e].task] = NoExec]
         /\ actor'[e].pc \in UnderContext =>
              actor[e].pc \in UnderContext \/ task'[actor[e].task].state # "cancelled"
         /\ \A t \in Tasks : task'[t].state = "cancelled" => task[t].state = "cancelled"
<1> DEFINE t == actor[e].task
           read == actor[e].rec
           Facts == /\ \A b \in Actors \ {e} : actor'[b] = actor[b]
                    /\ actor'[e].task = t /\ actor'[e].pc \notin Free
                    /\ actor'[e].pc \in UnderContext =>
                         actor[e].pc \in UnderContext \/ task'[t].state # "cancelled"
                    /\ \A u \in Tasks : task'[u].state = "cancelled" => task[u].state = "cancelled"
<1>1. /\ actor[e].pc \notin Free \cup {"done"} /\ stopped \subseteq stopped'
      /\ \/ UNCHANGED cancels
         \/ Goto(e, "done") /\ cancels' = [cancels EXCEPT ![t] = NoExec]
  BY DEF ExecStep, Spawned, Start, Subscribe, Receive, StreamLost, Project, Apply, Progress,
         Save, DispatchProgress, ProgressFailed, Respond, FailRead, Fail, FinishRead, Finish,
         ResultLookup, Deliver, Exit, At, Free, execVars, TaskOf
<1>2. e \in Actors /\ t \in Tasks /\ read \in TaskRecord /\ task \in [Tasks -> TaskRecord]
  BY <1>1, AtWork DEF TaskOf, IInv, StoreInv
<1>3. ASSUME NEW pc \in Inside \cup {"done"}, Goto(e, pc), UNCHANGED task,
             pc \in UnderContext => actor[e].pc \in UnderContext
      PROVE  Facts
  BY <1>2, <1>3, GotoMoves DEF Inside, UnderContext, Free
<1>4. ASSUME NEW pc \in {"start", "apply", "save", "fail", "finish"},
             Hold(e, pc, t, task[t]), UNCHANGED task,
             pc \in {"apply", "save"} => actor[e].pc \in UnderContext
      PROVE  Facts
  BY <1>2, <1>4, HoldMoves DEF UnderContext, Free
<1>5. ASSUME NEW record, NEW action, NEW mail, NEW hit \in Inside, NEW miss \in Inside,
             Write(e, record, action, mail, hit, miss, miss), record.state # "cancelled",
             miss \in UnderContext => actor[e].pc \in UnderContext
      PROVE  Facts
  <2>1. PICK pc \in {hit, miss} : Goto(e, pc)
    BY <1>1, <1>2, <1>5, WriteMoves
  <2>2. \/ UNCHANGED task
        \/ task'[t] = record /\ \A u \in Tasks \ {t} : task'[u] = task[u]
    BY <1>1, <1>2, <1>5, WriteMoves
  <2>3. /\ \A b \in Actors \ {e} : actor'[b] = actor[b]
        /\ actor'[e].task = t /\ actor'[e].pc = pc /\ pc \notin Free
    BY <1>2, <1>5, <2>1, GotoMoves DEF Inside, UnderContext, Free
  <2>4. \A u \in Tasks : task'[u].state = "cancelled" => task[u].state = "cancelled"
    BY <1>5, <2>2
  <2>5. pc \in UnderContext => actor[e].pc \in UnderContext \/ task'[t].state # "cancelled"
    <3>1. task'[t] = record \/ Goto(e, miss)
      BY <1>1, <1>2, <1>5, WriteMoves
    <3>2. Goto(e, miss) => actor'[e].pc = miss
      BY <1>2, GotoMoves
    <3>3. QED BY <1>5, <2>3, <3>1, <3>2
  <2>6. QED BY <2>3, <2>4, <2>5
<1> HIDE DEF Facts
<1>6. ASSUME Start(e) PROVE Facts
  <2> DEFINE attempt == read.attempt + 1
             record == [read EXCEPT !.attempt = attempt]
  <2>1. \A state \in {"failed", "running"} : [record EXCEPT !.state = state].state # "cancelled"
    BY <1>2 DEF TaskRecord
  <2>2. \/ Goto(e, "exit") /\ UNCHANGED task
        \/ Write(e, [record EXCEPT !.state = "failed"], "failed", <<>>, "exit", "exit", "exit")
        \/ Write(e, [record EXCEPT !.state = "running"], "started", <<>>,
                 "subscribe", "exit", "exit")
    BY <1>6 DEF Start, storeVars
  <2> HIDE DEF record
  <2>3. {"exit", "subscribe"} \subseteq Inside /\ "exit" \notin UnderContext
    BY DEF Inside, UnderContext
  <2>4. CASE Goto(e, "exit") /\ UNCHANGED task
    BY <1>3, <2>3, <2>4
  <2>5. CASE Write(e, [record EXCEPT !.state = "failed"], "failed", <<>>, "exit", "exit", "exit")
    BY <1>5, <2>1, <2>3, <2>5
  <2>6. CASE Write(e, [record EXCEPT !.state = "running"], "started", <<>>,
                   "subscribe", "exit", "exit")
    BY <1>5, <2>1, <2>3, <2>6
  <2>7. QED BY <1>1, <2>2, <2>4, <2>5, <2>6
<1>7. ASSUME Fail(e) \/ Finish(e) PROVE Facts
  <2>1. \A state \in {"failed", "final"} : [read EXCEPT !.state = state].state # "cancelled"
    BY <1>2 DEF TaskRecord
  <2>2. \/ Write(e, [read EXCEPT !.state = "failed"], "failed", <<>>, "exit", "exit", "exit")
        \/ Write(e, [read EXCEPT !.state = "final"], "finished", Final,
                 IF Durable THEN "exit" ELSE "deliver", "exit", "exit")
    BY <1>7 DEF Fail, Finish
  <2>3. /\ {"exit", IF Durable THEN "exit" ELSE "deliver"} \subseteq Inside
        /\ "exit" \notin UnderContext
    BY DEF Inside, UnderContext
  <2>4. CASE Write(e, [read EXCEPT !.state = "failed"], "failed", <<>>, "exit", "exit", "exit")
    BY <1>5, <2>1, <2>3, <2>4
  <2>5. CASE Write(e, [read EXCEPT !.state = "final"], "finished", Final,
                   IF Durable THEN "exit" ELSE "deliver", "exit", "exit")
    BY <1>5, <2>1, <2>3, <2>5
  <2>6. QED BY <2>2, <2>4, <2>5
<1>8. ASSUME Apply(e) PROVE Facts
  <2> DEFINE kind == Received(e).kind
             record == Projection(read, kind, seen[e])
             next == AfterProjection(e)
  <2>1. actor[e].pc = "apply" /\ "apply" \in UnderContext /\ "failRead" \in Inside
        /\ next \in Inside /\ "failRead" \notin UnderContext
    BY <1>8 DEF Apply, At, UnderContext, Inside, AfterProjection
  <2>2. record.state # "cancelled"
    <3>1. kind \in {"running", "progress", "final", "failed"}
      BY <1>1, <2>1, AtWork DEF Free, AgentEvent
    <3>2. read.state # "cancelled"
      BY <1>2, <2>1 DEF IInv, ActorInv, Snapshot, ReadFor
    <3>3. QED BY <1>2, <3>1, <3>2 DEF Projection, TaskRecord
  <2>3. \/ Goto(e, "failRead") /\ UNCHANGED task
        \/ Write(e, record, AgentAction[kind], <<>>, next, "failRead", "failRead")
    BY <1>8 DEF Apply, storeVars
  <2> HIDE DEF record, next
  <2>4. QED BY <1>1, <1>3, <1>5, <2>1, <2>2, <2>3
<1>9. ASSUME Save(e) PROVE Facts
  <2>1. /\ actor[e].pc = "save" /\ "save" \in UnderContext
        /\ {"receive", "progressFailed", "dispatchProgress"} \subseteq Inside
    BY <1>9 DEF Save, At, UnderContext, Inside
  <2>2. read.state # "cancelled"
    BY <1>2, <2>1 DEF IInv, ActorInv, Snapshot, ReadFor
  <2>3. CASE Goto(e, "progressFailed") /\ UNCHANGED task
    BY <1>3, <2>1, <2>3
  <2>4. CASE Write(e, read, "agent_progress", Progressive, "receive", "receive", "progressFailed")
    <3>1. PICK pc \in {"receive", "progressFailed"} : Goto(e, pc)
      BY <1>1, <1>2, <2>4, WriteMoves
    <3>2. \A u \in Tasks : task'[u].state = "cancelled" => task[u].state = "cancelled"
      BY <1>1, <1>2, <2>2, <2>4, WriteMoves
    <3>3. QED BY <1>2, <2>1, <3>1, <3>2, GotoMoves DEF Free, Facts
  <2>5. CASE PutRecord(t, read) /\ Goto(e, "dispatchProgress")
    <3>1. \A u \in Tasks : task'[u].state = "cancelled" => task[u].state = "cancelled"
      BY <1>2, <2>2, <2>5 DEF PutRecord
    <3>2. QED BY <1>2, <2>1, <2>5, <3>1, GotoMoves DEF Free, Facts
  <2>6. QED BY <1>9, <2>3, <2>4, <2>5 DEF Save, storeVars, TaskOf
<1>10. ASSUME ~(Start(e) \/ Apply(e) \/ Save(e) \/ Fail(e) \/ Finish(e)) PROVE Facts
  <2>1. /\ UNCHANGED task
        /\ \/ \E pc \in Inside \cup {"done"} :
                Goto(e, pc) /\ (pc \in UnderContext => actor[e].pc \in UnderContext)
           \/ \E pc \in {"start", "apply", "save", "fail", "finish"} :
                /\ Hold(e, pc, t, task[t])
                /\ pc \in {"apply", "save"} => actor[e].pc \in UnderContext
    BY <1>10 DEF ExecStep, Spawned, Subscribe, Receive, StreamLost, Project, AfterProjection,
        Progress, DispatchProgress, ProgressFailed, Respond, FailRead, FinishRead,
        ResultLookup, Deliver, Exit, storeVars, At, Inside, UnderContext, TaskOf
  <2>2. QED BY <1>3, <1>4, <2>1
<1>11. Facts
  BY <1>6, <1>7, <1>8, <1>9, <1>10
<1>12. Goto(e, "done") => actor'[e].pc = "done"
  BY <1>2, GotoMoves
<1>13. QED BY <1>1, <1>11, <1>12 DEF Facts

------------------------------------------------------------------------------
\* Cancellation: the sole live execution of a task is the one CancelTask stops.

Alone(e) == \A f \in Execs \ {e} : actor[f].task # actor[e].task

Reached(e) ==
  actor[e].pc \notin {"off", "done"} /\ Alone(e) /\ e \notin stopped =>
    /\ cancels[actor[e].task] = e
    /\ actor[e].pc \in UnderContext /\ task[actor[e].task].state = "cancelled" =>
         \E c \in Callers : actor[c].task = actor[e].task /\ actor[c].pc = "stop"

ReachInv ==
  /\ Sure
  /\ \A a \in Actors : actor[a].pc = "off" => actor[a].task = NoTask
  /\ \A e \in Execs : Reached(e)

\* A caller or Boot moves and no execution does.
LEMMA ReachStep ==
  ASSUME IInv, ReachInv, Sure', NEW a \in Actors \ Execs,
         \A b \in Actors \ {a} : actor'[b] = actor[b],
         actor'[a].pc = "off" => actor'[a].task = NoTask,
         stopped \subseteq stopped',
         \A e \in Execs :
           e \notin stopped' /\ cancels[actor[e].task] = e => cancels'[actor[e].task] = e,
         \A t \in Tasks : task'[t].state = "cancelled" =>
           \/ task[t].state = "cancelled" /\ ~(actor[a].pc = "stop" /\ actor[a].task = t)
           \/ a \in Callers /\ actor'[a].pc = "stop" /\ actor'[a].task = t
           \/ \A e \in Execs : actor[e].task = t /\ cancels[t] = e => e \in stopped'
  PROVE  ReachInv'
<1>1. ASSUME NEW e \in Execs PROVE Reached(e)'
  <2> SUFFICES ASSUME actor'[e].pc \notin {"off", "done"}, Alone(e)', e \notin stopped'
               PROVE  /\ cancels'[actor'[e].task] = e
                      /\ actor'[e].pc \in UnderContext /\ task'[actor'[e].task].state = "cancelled" =>
                           \E c \in Callers : actor'[c].task = actor'[e].task /\ actor'[c].pc = "stop"
    BY DEF Reached
  <2>1. \A f \in Execs : f \in Actors \ {a} /\ actor'[f] = actor[f]
    BY DEF Actors
  <2>2. Alone(e) /\ e \notin stopped /\ actor[e].pc \notin {"off", "done"}
    BY <2>1 DEF Alone
  <2>3. cancels[actor[e].task] = e /\ cancels'[actor'[e].task] = e
    BY <2>1, <2>2 DEF ReachInv, Reached
  <2>4. ASSUME actor[e].pc \in UnderContext, task'[actor[e].task].state = "cancelled"
        PROVE  \E c \in Callers : actor'[c].task = actor[e].task /\ actor'[c].pc = "stop"
    <3>1. actor[e].task \in Tasks
      BY <2>4 DEF IInv, ActorInv, Busy, UnderContext, Free, Actors
    <3>2. CASE task[actor[e].task].state = "cancelled" /\ ~(actor[a].pc = "stop" /\ actor[a].task = actor[e].task)
      <4>1. PICK c \in Callers : actor[c].task = actor[e].task /\ actor[c].pc = "stop"
        BY <2>2, <2>4, <3>2 DEF ReachInv, Reached
      <4>2. c \in Actors \ {a}
        BY <3>2, <4>1 DEF Actors
      <4>3. QED BY <4>1, <4>2
    <3>3. QED BY <2>1, <2>3, <2>4, <3>1, <3>2
  <2>5. QED BY <2>1, <2>3, <2>4
<1>2. \A b \in Actors : actor'[b].pc = "off" => actor'[b].task = NoTask
  BY DEF ReachInv
<1>3. QED BY <1>1, <1>2 DEF ReachInv

LEMMA ReachInitially == Init /\ (Durable => MaxFaults = 0) => ReachInv
<1> SUFFICES ASSUME Init, Durable => MaxFaults = 0 PROVE ReachInv
  OBVIOUS
<1>1. \A e \in Execs : e \in Actors /\ e # Boot /\ actor[e].pc = "off"
  BY CoreAssumption DEF Init, Idle, Actors
<1>2. \A a \in Actors : actor[a].task = NoTask
  BY DEF Init, Idle
<1>3. Sure
  BY DEF Init, Sure
<1>4. QED BY <1>1, <1>2, <1>3 DEF ReachInv, Reached

LEMMA ReachExec ==
  ASSUME IInv, ReachInv, Sure', NEW e \in Execs, ExecStep(e)
  PROVE  ReachInv'
<1>0. e \in Actors /\ e \notin Callers /\ Execs \subseteq Actors /\ Callers \subseteq Actors \ {e}
  BY CoreAssumption DEF Actors
<1>1. /\ \A b \in Actors \ {e} : actor'[b] = actor[b]
      /\ actor'[e].task = actor[e].task /\ actor'[e].pc \notin Free
      /\ actor[e].pc \notin Free \cup {"done"} /\ stopped \subseteq stopped'
      /\ \/ UNCHANGED cancels
         \/ /\ actor'[e].pc = "done"
            /\ cancels' = [cancels EXCEPT ![actor[e].task] = NoExec]
      /\ actor'[e].pc \in UnderContext =>
           actor[e].pc \in UnderContext \/ task'[actor[e].task].state # "cancelled"
      /\ \A t \in Tasks : task'[t].state = "cancelled" => task[t].state = "cancelled"
  BY ExecFacts
<1>2. \A f \in Execs : actor'[f].task = actor[f].task
  BY <1>0, <1>1
<1>3. \A c \in Callers : actor'[c] = actor[c]
  BY <1>0, <1>1
<1>4. ASSUME NEW f \in Execs PROVE Reached(f)'
  <2> SUFFICES ASSUME actor'[f].pc \notin {"off", "done"}, Alone(f)', f \notin stopped'
               PROVE  /\ cancels'[actor'[f].task] = f
                      /\ actor'[f].pc \in UnderContext /\ task'[actor'[f].task].state = "cancelled" =>
                           \E c \in Callers : actor'[c].task = actor'[f].task /\ actor'[c].pc = "stop"
    BY DEF Reached
  <2>1. /\ Alone(f) /\ f \notin stopped /\ actor[f].pc \notin {"off", "done"}
        /\ actor'[f].task = actor[f].task
    BY <1>0, <1>1, <1>2 DEF Alone, Free
  <2>2. actor[f].task \in Tasks
    BY <1>0, <1>1, <2>1 DEF IInv, ActorInv, Busy, Called, AttemptInv, Free
  <2>3. cancels[actor[f].task] = f
    BY <2>1 DEF ReachInv, Reached
  <2>4. cancels'[actor[f].task] = f
    <3>1. CASE UNCHANGED cancels
      BY <2>3, <3>1
    <3>2. CASE actor'[e].pc = "done" /\ cancels' = [cancels EXCEPT ![actor[e].task] = NoExec]
      <4>1. f # e
        BY <3>2
      <4>2. actor[e].task # actor[f].task
        BY <2>1, <4>1 DEF Alone
      <4>3. QED BY <2>2, <2>3, <3>2, <4>2 DEF IInv, AttemptInv
    <3>3. QED BY <1>1, <3>1, <3>2
  <2>5. ASSUME actor'[f].pc \in UnderContext, task'[actor[f].task].state = "cancelled"
        PROVE  actor[f].pc \in UnderContext /\ task[actor[f].task].state = "cancelled"
    BY <1>0, <1>1, <2>2, <2>5
  <2>6. QED BY <1>3, <2>1, <2>4, <2>5 DEF ReachInv, Reached
<1>5. \A b \in Actors : actor'[b].pc = "off" => actor'[b].task = NoTask
  BY <1>1 DEF ReachInv, Free
<1>6. QED BY <1>4, <1>5 DEF ReachInv

\* A caller's or Boot's write that is no cancellation.
LEMMA ReachWrite ==
  ASSUME IInv, ReachInv, Sure', NEW a \in Actors \ Execs,
         actor[a].pc \notin Free \cup {"stop"},
         NEW record, NEW action, NEW mail, NEW hit, NEW miss, NEW err,
         Write(a, record, action, mail, hit, miss, err), record.state # "cancelled",
         UNCHANGED <<execVars, cancels>>
  PROVE  ReachInv'
<1>1. PICK pc : Goto(a, pc)
  BY WriteMoves
<1>2. /\ \A b \in Actors \ {a} : actor'[b] = actor[b]
      /\ actor'[a].pc = "off" => actor'[a].task = NoTask
  BY <1>1, GotoMoves
<1>3. \A t \in Tasks : task'[t].state = "cancelled" => task[t].state = "cancelled"
  BY WriteMoves
<1>4. QED BY <1>2, <1>3, ReachStep DEF execVars

LEMMA ReachRequest ==
  ASSUME IInv, ReachInv, Sure', NEW c \in Callers, Request(c)
  PROVE  ReachInv'
<1>0. c \in Actors \ Execs
  BY CoreAssumption DEF Actors
<1>1. PICK t \in Tasks :
        Accept(c, t) \/ ApproveLookup(c, t) \/ ResumeLookup(c, t) \/ CancelLookup(c, t)
  BY DEF Request
<1>2. actor[c].pc = "off" /\ UNCHANGED <<execVars, cancels>>
  BY <1>1 DEF Accept, ApproveLookup, ResumeLookup, CancelLookup, Lookup, At
<1>3. \A u \in Tasks : task'[u].state = "cancelled" => task[u].state = "cancelled"
  <2>1. CASE Accept(c, t)
    <3> DEFINE record == [Blank EXCEPT !.state = InitialState(t)]
    <3>1. record.state # "cancelled" /\ task \in [Tasks -> TaskRecord]
      BY DEF InitialState, Blank, IInv, StoreInv
    <3>2. PutRecord(t, record)
      BY <2>1 DEF Accept, CommitTx
    <3> HIDE DEF record
    <3>3. QED BY <3>1, <3>2 DEF PutRecord
  <2>2. CASE ~Accept(c, t)
    BY <1>1, <2>2 DEF ApproveLookup, ResumeLookup, CancelLookup, Lookup, storeVars
  <2>3. QED BY <2>1, <2>2
<1>4. \/ \E pc \in {"launch", "off"} : Hold(c, pc, IF pc = "off" THEN NoTask ELSE t, Blank)
      \/ Goto(c, "off")
      \/ \E pc \in {"approve", "resume", "cancel"} : Hold(c, pc, t, task[t])
  BY <1>1 DEF Accept, ApproveLookup, ResumeLookup, CancelLookup, Lookup
<1> DEFINE Moves == /\ \A b \in Actors \ {c} : actor'[b] = actor[b]
                    /\ actor'[c].pc = "off" => actor'[c].task = NoTask
<1>5. Moves
  <2>1. CASE Goto(c, "off")
    BY <1>0, <2>1, GotoMoves
  <2>2. ASSUME NEW pc \in {"launch", "off"},
               Hold(c, pc, IF pc = "off" THEN NoTask ELSE t, Blank)
        PROVE  Moves
    BY <1>0, <2>2, HoldMoves
  <2>3. ASSUME NEW pc \in {"approve", "resume", "cancel"}, Hold(c, pc, t, task[t])
        PROVE  Moves
    BY <1>0, <2>3, HoldMoves
  <2>4. QED BY <1>4, <2>1, <2>2, <2>3
<1>6. QED BY <1>0, <1>2, <1>3, <1>5, ReachStep DEF execVars

LEMMA ReachCaller ==
  ASSUME IInv, ReachInv, Sure', NEW c \in Callers, CallerStep(c)
  PROVE  ReachInv'
<1> DEFINE read == actor[c].rec
           t == actor[c].task
<1>0. c \in Actors \ Execs /\ read \in TaskRecord
  BY CoreAssumption DEF Actors, IInv, ActorInv, ActorState
<1>1. CASE ApproveWrite(c) \/ ResumeWrite(c)
  <2>1. /\ actor[c].pc \notin Free \cup {"stop"} /\ UNCHANGED <<execVars, cancels>>
        /\ \E record, action :
             /\ Write(c, record, action, <<>>, "launch", "off", "off")
             /\ record \in {[read EXCEPT !.state = "queued", !.approved = TRUE],
                            [read EXCEPT !.state = "queued"]}
    BY <1>1 DEF ApproveWrite, ResumeWrite, At, Free
  <2>2. /\ [read EXCEPT !.state = "queued", !.approved = TRUE].state # "cancelled"
        /\ [read EXCEPT !.state = "queued"].state # "cancelled"
    BY <1>0 DEF TaskRecord
  <2>3. PICK record, action : /\ Write(c, record, action, <<>>, "launch", "off", "off")
                              /\ record.state # "cancelled"
    BY <2>1, <2>2
  <2>4. QED BY <1>0, <2>1, <2>3, ReachWrite
<1>2. CASE CancelWrite(c)
  <2> DEFINE record == [read EXCEPT !.state = "cancelled"]
  <2>1. /\ actor[c].pc = "cancel" /\ actor[c].pc \notin Free /\ UNCHANGED <<execVars, cancels>>
        /\ Write(c, record, "cancelled", <<>>, "stop", "off", "off")
    BY <1>2 DEF CancelWrite, At, Free
  <2> HIDE DEF record
  <2>2. \/ Goto(c, "stop") /\ \A u \in Tasks \ {t} : task'[u] = task[u]
        \/ Goto(c, "off") /\ UNCHANGED task
    BY <1>0, <2>1, SureWrite DEF ReachInv
  <2>3. \/ /\ actor'[c].pc = "stop" /\ actor'[c].task = t
           /\ \A u \in Tasks \ {t} : task'[u] = task[u]
        \/ actor'[c].pc = "off" /\ actor'[c].task = NoTask /\ UNCHANGED task
    BY <1>0, <2>2, GotoMoves
  <2>4. \A b \in Actors \ {c} : actor'[b] = actor[b]
    BY <1>0, <2>2, GotoMoves
  <2>5. QED BY <1>0, <2>1, <2>3, <2>4, ReachStep DEF execVars
<1>3. CASE CancelStop(c)
  <2>1. /\ Goto(c, "off") /\ UNCHANGED task
        /\ stopped' = stopped \cup ({cancels[t]} \ {NoExec})
        /\ cancels' = [cancels EXCEPT ![t] = NoExec]
    BY <1>3 DEF CancelStop, storeVars
  <2>2. /\ \A b \in Actors \ {c} : actor'[b] = actor[b]
        /\ actor'[c].pc = "off" /\ actor'[c].task = NoTask
    BY <1>0, <2>1, GotoMoves
  <2>3. t \in Tasks /\ cancels \in [Tasks -> Execs \cup {NoExec}]
    BY <1>0, <1>3 DEF CancelStop, At, IInv, ActorInv, Busy, Free, AttemptInv
  <2>4. ASSUME NEW e \in Execs, actor[e].task = t, cancels[t] = e PROVE e \in stopped'
    BY <2>1, <2>4, CoreAssumption
  <2>5. ASSUME NEW e \in Execs, e \notin stopped', cancels[actor[e].task] = e
        PROVE  cancels'[actor[e].task] = e
    BY <2>1, <2>3, <2>4, <2>5
  <2>6. QED BY <1>0, <2>1, <2>2, <2>4, <2>5, ReachStep
<1>4. QED BY <1>1, <1>2, <1>3 DEF CallerStep

LEMMA ReachBoot ==
  ASSUME IInv, ReachInv, Sure', BootStep
  PROVE  ReachInv'
<1>0. Boot \in Actors \ Execs /\ actor[Boot].rec \in TaskRecord
  BY CoreAssumption DEF Actors, IInv, ActorInv, ActorState
<1>1. CASE RecoverWrite
  <2>1. /\ actor[Boot].pc \notin Free \cup {"stop"} /\ UNCHANGED <<execVars, cancels>>
        /\ Write(Boot, [actor[Boot].rec EXCEPT !.state = "queued"],
                 "recovered", <<>>, "launch", "recover", "halt")
    BY <1>1 DEF RecoverWrite, At, Free
  <2>2. [actor[Boot].rec EXCEPT !.state = "queued"].state # "cancelled"
    BY <1>0 DEF TaskRecord
  <2>3. QED BY <1>0, <2>1, <2>2, ReachWrite
<1>2. CASE ~RecoverWrite
  <2>1. /\ UNCHANGED <<task, execVars, cancels>> /\ actor[Boot].pc # "stop"
        /\ \/ \E pc \in {"recover", "off"} : Goto(Boot, pc)
           \/ \E entry \in listed : Hold(Boot, "requeue", entry.task, entry.rec)
    BY <1>2 DEF BootStep, RecoverList, RecoverNext, RecoverDone, At, storeVars
  <2>2. /\ \A b \in Actors \ {Boot} : actor'[b] = actor[b]
        /\ actor'[Boot].pc = "off" => actor'[Boot].task = NoTask
    BY <1>0, <2>1, GotoMoves, HoldMoves
  <2>3. QED BY <1>0, <2>1, <2>2, ReachStep DEF execVars
<1>3. QED BY <1>1, <1>2

\* The execution that is started registers itself, and its siblings are no longer
\* alone.
LEMMA ReachLaunch ==
  ASSUME IInv, ReachInv, Sure', NEW a \in Callers \cup {Boot}, StartExecution(a)
  PROVE  ReachInv'
<1> DEFINE then == IF a = Boot THEN "recover" ELSE "off"
           old == IF then = "off" THEN Idle ELSE [Idle EXCEPT !.pc = then]
           t == actor[a].task
           young == [pc |-> "spawned", task |-> t, rec |-> Blank]
<1>1. a \in Actors /\ a \notin Execs /\ actor[a].pc = "launch" /\ Execs \subseteq Actors
      /\ actor \in [Actors -> ActorState]
  BY CoreAssumption DEF Actors, StartExecution, At, IInv, ActorInv
<1>2. t \in Tasks /\ cancels \in [Tasks -> Execs \cup {NoExec}]
  BY <1>1 DEF IInv, ActorInv, Busy, Free, AttemptInv
<1>3. PICK e \in Execs :
        /\ actor[e].pc = "off"
        /\ actor' = [actor EXCEPT ![a] = old, ![e] = young]
        /\ cancels' = [cancels EXCEPT ![t] = e]
        /\ UNCHANGED <<task, stopped>>
  BY DEF StartExecution, Launch, storeVars, Register
<1>4. old.task = NoTask /\ old.pc \in {"off", "recover"}
  BY DEF Idle
<1> HIDE DEF old
<1>5. /\ actor'[a] = old /\ actor'[e].pc = "spawned" /\ actor'[e].task = t
      /\ \A b \in Actors \ {a, e} : actor'[b] = actor[b]
  BY <1>1, <1>3
<1>6. ASSUME NEW f \in Execs PROVE Reached(f)'
  <2> SUFFICES ASSUME actor'[f].pc \notin {"off", "done"}, Alone(f)', f \notin stopped'
               PROVE  /\ cancels'[actor'[f].task] = f
                      /\ actor'[f].pc \in UnderContext /\ task'[actor'[f].task].state = "cancelled" =>
                           \E c \in Callers : actor'[c].task = actor'[f].task /\ actor'[c].pc = "stop"
    BY DEF Reached
  <2>1. CASE f = e
    BY <1>2, <1>3, <1>5, <2>1 DEF UnderContext
  <2>2. CASE f # e
    <3>1. actor'[f] = actor[f] /\ actor[f].task # t
      BY <1>1, <1>5, <2>2 DEF Alone
    <3>2. actor[f].task \in Tasks
      BY <1>1, <3>1 DEF IInv, ActorInv, Busy, Called, AttemptInv, Free
    <3>3. actor[e].task = NoTask
      BY <1>1, <1>3 DEF ReachInv
    <3>4. Alone(f)
      <4>1. ASSUME NEW g \in Execs \ {f} PROVE actor[g].task # actor[f].task
        <5>1. CASE g = e
          BY <3>2, <3>3, <5>1, StoreAssumption
        <5>2. CASE g # e
          <6>1. actor'[g] = actor[g]
            BY <1>1, <1>5, <5>2
          <6>2. QED BY <3>1, <6>1 DEF Alone
        <5>3. QED BY <5>1, <5>2
      <4>2. QED BY <4>1 DEF Alone
    <3>5. cancels'[actor[f].task] = f
      BY <1>2, <1>3, <3>1, <3>2, <3>4 DEF ReachInv, Reached
    <3>6. ASSUME NEW c \in Callers, actor[c].pc = "stop" PROVE actor'[c] = actor[c]
      BY <1>1, <1>3, <1>5, <3>6, CoreAssumption DEF Actors
    <3>7. ASSUME actor[f].pc \in UnderContext, task[actor[f].task].state = "cancelled"
          PROVE  \E c \in Callers : actor'[c].task = actor[f].task /\ actor'[c].pc = "stop"
      <4>1. PICK c \in Callers : actor[c].task = actor[f].task /\ actor[c].pc = "stop"
        BY <1>3, <3>1, <3>4, <3>7 DEF ReachInv, Reached
      <4>2. QED BY <3>6, <4>1
    <3>8. QED BY <1>3, <3>1, <3>5, <3>7
  <2>3. QED BY <2>1, <2>2
<1>7. ASSUME NEW b \in Actors, actor'[b].pc = "off" PROVE actor'[b].task = NoTask
  BY <1>4, <1>5, <1>7 DEF ReachInv
<1>8. QED BY <1>6, <1>7 DEF ReachInv

LEMMA ReachNext == IInv /\ ReachInv /\ [Next]_vars => ReachInv'
<1> SUFFICES ASSUME IInv, ReachInv, [Next]_vars PROVE ReachInv'
  OBVIOUS
<1>0. Sure'
  BY SureNext DEF ReachInv
<1>1. ASSUME UNCHANGED <<task, actor, cancels>>, stopped \subseteq stopped' PROVE ReachInv'
  BY <1>0, <1>1 DEF ReachInv, Reached, Alone
<1>2. CASE UNCHANGED vars
  BY <1>1, <1>2 DEF vars
<1>3. ASSUME NEW e \in Execs, Timeout(e) \/ AgentStep(e) PROVE ReachInv'
  BY <1>1, <1>3 DEF Timeout, AgentStep, AgentRun, AgentEmit, AgentAbort, storeVars, execVars
<1>4. ASSUME NEW a \in Actors, FlushAudit(a) PROVE ReachInv'
  BY <1>1, <1>4 DEF FlushAudit, execVars
<1>5. CASE Crash
  <2>1. ASSUME NEW a \in Actors
        PROVE  /\ actor'[a].pc = "off" => actor'[a].task = NoTask
               /\ a \in Execs => actor'[a].pc \in {"off", "done"}
    <3>1. actor[a] \in ActorState
      BY DEF IInv, ActorInv
    <3>2. QED BY <1>5, <3>1, CoreAssumption DEF Crash, Idle, ActorState
  <2>2. QED BY <1>0, <2>1 DEF ReachInv, Reached, Actors
<1>6. QED
  BY <1>0, <1>2, <1>3, <1>4, <1>5, ReachExec, ReachRequest, ReachCaller, ReachBoot, ReachLaunch
  DEF Next, Actors

\* CancelTask stops the work, not only the row: when it has returned, the sole
\* execution of the task is not left running under a live context
\* (service.go:349-354, 508-528).  The in-memory store does not fail; PostgreSQL may
\* report an error for a commit that took place, and the handler then stops nothing.
THEOREM CancelReachesTheWork ==
  ASSUME Durable => MaxFaults = 0
  PROVE  Spec => []CancelReaches
<1>1. IInv /\ ReachInv => CancelReaches
  <2> SUFFICES ASSUME IInv, ReachInv, NEW t \in Tasks, NEW e \in Execs,
                      task[t].state = "cancelled",
                      \A f \in Execs : actor[f].task = t <=> f = e,
                      \A c \in Callers : actor[c].task = t => actor[c].pc # "stop",
                      actor[e].pc \in UnderContext, e \notin stopped
               PROVE  FALSE
    BY DEF CancelReaches
  <2>1. Alone(e) /\ actor[e].task = t /\ actor[e].pc \notin {"off", "done"}
    BY DEF Alone, UnderContext
  <2>2. QED BY <2>1 DEF ReachInv, Reached
<1>2. Init => ReachInv
  BY ReachInitially
<1>3. QED BY <1>1, <1>2, ReachNext, Invariance, PTL DEF Spec

------------------------------------------------------------------------------
\* Delivery: the execution that projected the final event has the reply in hand
\* until it is posted, or the task is failed.

Finishing(e, t) ==
  /\ actor[e].task = t
  /\ \/ actor[e].pc \in {"respond", "failRead", "finishRead"}
     \/ actor[e].pc \in {"fail", "finish"} /\ actor[e].rec.state = "final"

Posted(t) == \E i \in 1..Len(outbox[t]) : outbox[t][i] = "final"

FinalInv ==
  /\ Sure /\ budget.crash = 0
  /\ \A t \in Tasks : task[t].state = "final" => Posted(t) \/ \E e \in Execs : Finishing(e, t)

LEMMA FinalInitially == Init /\ (Durable => MaxFaults = 0) /\ MaxCrashes = 0 => FinalInv
<1> SUFFICES ASSUME Init, Durable => MaxFaults = 0, MaxCrashes = 0 PROVE FinalInv
  OBVIOUS
<1>1. Sure /\ budget.crash = 0
  BY DEF Init, Sure
<1>2. \A t \in Tasks : task[t].state # "final"
  BY DEF Init, StoreInit, Blank
<1>3. QED BY <1>1, <1>2 DEF FinalInv

\* What was posted stays posted.
LEMMA MailStays ==
  ASSUME NEW seq \in Seq({"final", "progress"}), NEW mail \in Mails
  PROVE  /\ \A i \in 1..Len(seq) : i \in 1..Len(seq \o mail) /\ (seq \o mail)[i] = seq[i]
         /\ mail = Final => \E i \in 1..Len(seq \o mail) : (seq \o mail)[i] = "final"
<1>1. CASE mail = <<>>
  <2>1. seq \o mail = seq /\ mail # Final
    BY <1>1 DEF Final
  <2>2. QED BY <2>1
<1>2. ASSUME NEW kind \in {"final", "progress"}, mail = <<kind>>
      PROVE  /\ \A i \in 1..Len(seq) : i \in 1..Len(seq \o mail) /\ (seq \o mail)[i] = seq[i]
             /\ (seq \o mail)[Len(seq) + 1] = kind /\ Len(seq) + 1 \in 1..Len(seq \o mail)
  <2>1. seq \o mail = Append(seq, kind)
    BY <1>2
  <2>2. QED BY <2>1
<1>3. CASE mail = Progressive
  BY <1>2, <1>3 DEF Progressive, Final
<1>4. CASE mail = Final
  BY <1>2, <1>4 DEF Final
<1>5. QED BY <1>1, <1>3, <1>4 DEF Mails

LEMMA PostedStays ==
  ASSUME Durable, IInv, [Next]_vars, NEW t \in Tasks, Posted(t)
  PROVE  Posted(t)'
<1>1. CASE UNCHANGED storeVars
  BY <1>1 DEF storeVars, Posted
<1>2. ASSUME NEW record \in TaskRecord, NEW event \in AuditEvent, NEW mail \in Mails,
             event.task \in Tasks, CommitTx(record, event, mail)
      PROVE  Posted(t)'
  <2>1. outbox[t] \in Seq({"final", "progress"})
    BY DEF IInv, StoreInv
  <2>2. outbox'[t] = outbox[t] \/ outbox'[t] = outbox[t] \o mail
    BY <1>2 DEF CommitTx, Enqueue, IInv, StoreInv
  <2>3. QED BY <2>1, <2>2, MailStays DEF Posted
<1>3. QED BY <1>1, <1>2, NextTransacts DEF Transacted, Transaction

\* A caller or Boot moves.
LEMMA FinalOther ==
  ASSUME Durable, IInv, FinalInv, [Next]_vars, Sure', budget'.crash = 0,
         \A b \in Execs : actor[b].pc # "off" => actor'[b] = actor[b],
         \A t \in Tasks : task'[t].state = "final" => task[t].state = "final"
  PROVE  FinalInv'
<1>1. ASSUME NEW t \in Tasks, task'[t].state = "final"
      PROVE  Posted(t)' \/ \E e \in Execs : Finishing(e, t)'
  <2>1. CASE Posted(t)
    BY <2>1, PostedStays
  <2>2. ASSUME NEW e \in Execs, Finishing(e, t) PROVE Finishing(e, t)'
    BY <2>2 DEF Finishing
  <2>3. QED BY <1>1, <2>1, <2>2 DEF FinalInv
<1>2. QED BY <1>1 DEF FinalInv

\* An execution moves, on its own task.
LEMMA FinalOwn ==
  ASSUME Durable, IInv, FinalInv, [Next]_vars, Sure', budget'.crash = 0,
         NEW e \in Execs, \A b \in Actors \ {e} : actor'[b] = actor[b],
         actor'[e].task = actor[e].task,
         \A u \in Tasks \ {actor[e].task} : task'[u] = task[u],
         LET t == actor[e].task
         IN task'[t].state = "final" =>
              \/ Posted(t)' \/ Finishing(e, t)'
              \/ task[t].state = "final" /\ ~Finishing(e, t)
  PROVE  FinalInv'
<1>1. ASSUME NEW t \in Tasks, task'[t].state = "final",
             task[t].state = "final", ~Finishing(e, t)
      PROVE  Posted(t)' \/ \E f \in Execs : Finishing(f, t)'
  <2>1. CASE Posted(t)
    BY <2>1, PostedStays
  <2>2. ASSUME NEW f \in Execs, Finishing(f, t) PROVE Finishing(f, t)'
    <3>1. f \in Actors \ {e}
      BY <1>1, <2>2 DEF Actors
    <3>2. QED BY <2>2, <3>1 DEF Finishing
  <2>3. QED BY <1>1, <2>1, <2>2 DEF FinalInv
<1>2. ASSUME NEW t \in Tasks, task'[t].state = "final"
      PROVE  Posted(t)' \/ \E f \in Execs : Finishing(f, t)'
  <2>1. CASE t # actor[e].task
    <3>1. task[t].state = "final" /\ ~Finishing(e, t)
      BY <1>2, <2>1 DEF Finishing
    <3>2. QED BY <1>1, <1>2, <3>1
  <2>2. CASE t = actor[e].task
    BY <1>1, <1>2, <2>2
  <2>3. QED BY <2>1, <2>2
<1>3. QED BY <1>2 DEF FinalInv

LEMMA FinalExec ==
  ASSUME Durable, IInv, FinalInv, [Next]_vars, Sure', budget'.crash = 0,
         NEW e \in Execs, ExecStep(e)
  PROVE  FinalInv'
<1> DEFINE t == actor[e].task
           read == actor[e].rec
           Rest == \A u \in Tasks \ {t} : task'[u] = task[u]
           Held == task'[t].state = "final" =>
                     \/ Posted(t)' \/ Finishing(e, t)'
                     \/ task[t].state = "final" /\ ~Finishing(e, t)
<1>1. /\ \A b \in Actors \ {e} : actor'[b] = actor[b]
      /\ actor'[e].task = t /\ actor[e].pc \notin Free
  BY ExecFacts
<1>2. /\ e \in Actors /\ t \in Tasks /\ read \in TaskRecord /\ task \in [Tasks -> TaskRecord]
      /\ outbox \in [Tasks -> Seq({"final", "progress"})]
  BY <1>1, AtWork DEF TaskOf, IInv, StoreInv
<1>3. Rest /\ Held => FinalInv'
  BY <1>1, FinalOwn
<1> HIDE DEF Rest, Held
<1>4. ~StoreFault
  BY DEF StoreFault, Fault, FinalInv, Sure, IInv, StoreInv
<1>5. ASSUME ~Finishing(e, t), NEW record, record.state # "final",
             NEW action, NEW mail, NEW hit, NEW miss, NEW err,
             Write(e, record, action, mail, hit, miss, err)
      PROVE  Rest /\ Held
  BY <1>1, <1>2, <1>5, WriteMoves DEF Rest, Held
<1>6. ASSUME ~Finishing(e, t), UNCHANGED task PROVE Rest /\ Held
  BY <1>6 DEF Rest, Held
<1>7. ASSUME Start(e) PROVE Rest /\ Held
  <2> DEFINE attempt == read.attempt + 1
             record == [read EXCEPT !.attempt = attempt]
  <2>1. \A state \in {"failed", "running"} : [record EXCEPT !.state = state].state # "final"
    BY <1>2 DEF TaskRecord
  <2>2. \/ UNCHANGED task
        \/ Write(e, [record EXCEPT !.state = "failed"], "failed", <<>>, "exit", "exit", "exit")
        \/ Write(e, [record EXCEPT !.state = "running"], "started", <<>>,
                 "subscribe", "exit", "exit")
    BY <1>7 DEF Start, storeVars
  <2>3. ~Finishing(e, t)
    BY <1>7 DEF Start, At, Finishing
  <2> HIDE DEF record
  <2>4. QED BY <1>5, <1>6, <2>1, <2>2, <2>3
<1>8. ASSUME Apply(e) PROVE Rest /\ Held
  <2> DEFINE kind == Received(e).kind
             record == Projection(read, kind, seen[e])
             next == AfterProjection(e)
  <2>1. actor[e].pc = "apply" /\ ~Finishing(e, t)
    BY <1>8 DEF Apply, At, Finishing
  <2>2. \/ UNCHANGED task
        \/ Write(e, record, AgentAction[kind], <<>>, next, "failRead", "failRead")
    BY <1>8 DEF Apply, storeVars
  <2>3. record.state = "final" => next = "respond"
    <3>1. kind \in {"running", "progress", "final", "failed"}
      BY <1>1, <2>1, AtWork DEF Free, AgentEvent
    <3>2. read.state # "final"
      BY <1>2, <2>1 DEF IInv, ActorInv, Snapshot, ReadFor
    <3>3. record.state = IF kind = "progress" THEN read.state ELSE kind
      BY <1>2 DEF Projection, TaskRecord
    <3>4. QED BY <3>1, <3>2, <3>3 DEF AfterProjection
  <2> HIDE DEF record, next
  <2>4. CASE Write(e, record, AgentAction[kind], <<>>, next, "failRead", "failRead")
    <3>1. CASE /\ Goto(e, next) /\ task'[t] = record
               /\ \A u \in Tasks \ {t} : task'[u] = task[u]
      <4>1. record.state = "final" => actor'[e].pc = "respond"
        BY <1>2, <2>3, <3>1, GotoMoves
      <4>2. QED BY <1>1, <3>1, <4>1 DEF Rest, Held, Finishing
    <3>2. CASE UNCHANGED task
      BY <1>6, <2>1, <3>2
    <3>3. QED BY <1>1, <1>2, <2>4, <3>1, <3>2, SureWrite DEF FinalInv
  <2>5. QED BY <1>6, <2>1, <2>2, <2>4
<1>9. ASSUME Save(e) PROVE Rest /\ Held
  <2>1. actor[e].pc = "save" /\ ~Finishing(e, t)
    BY <1>9 DEF Save, At, Finishing
  <2>2. read.state # "final"
    BY <1>2, <2>1 DEF IInv, ActorInv, Snapshot, ReadFor
  <2>3. \/ UNCHANGED task
        \/ Write(e, read, "agent_progress", Progressive, "receive", "receive", "progressFailed")
    BY <1>9 DEF Save, storeVars
  <2>4. QED BY <1>5, <1>6, <2>1, <2>2, <2>3
<1>10. ASSUME NEW record, NEW action, NEW mail \in Mails,
              Write(e, record, action, mail, "exit", "exit", "exit"),
              actor[e].pc \in {"fail", "finish"}, record.state = "final" => mail = Final
       PROVE  Rest /\ Held
  <2>1. CASE /\ task'[t] = record /\ \A u \in Tasks \ {t} : task'[u] = task[u]
             /\ Enqueue(t, mail)
    <3>1. outbox'[t] = outbox[t] \o mail
      BY <1>2, <2>1 DEF Enqueue
    <3>2. outbox[t] \in Seq({"final", "progress"})
      BY <1>2
    <3>3. mail = Final => Posted(t)'
      <4>1. mail \in Mails
        BY <1>10
      <4>2. ASSUME mail = Final
            PROVE  \E i \in 1..Len(outbox[t] \o mail) : (outbox[t] \o mail)[i] = "final"
        BY <3>2, <4>1, <4>2, MailStays
      <4>3. QED BY <1>1, <3>1, <4>2 DEF Posted
    <3>4. QED BY <1>10, <2>1, <3>3 DEF Rest, Held
  <2>2. CASE ~Matches(t, read.state) /\ UNCHANGED task
    BY <1>10, <2>2 DEF Rest, Held, Finishing, Matches
  <2>3. QED BY <1>1, <1>2, <1>10, <2>1, <2>2, SureWrite DEF FinalInv
<1>11. ASSUME Fail(e) \/ Finish(e) PROVE Rest /\ Held
  <2>1. [read EXCEPT !.state = "failed"].state # "final" /\ <<>> \in Mails /\ Final \in Mails
    BY <1>2 DEF TaskRecord, Mails
  <2>2. CASE Fail(e)
    <3>1. /\ Write(e, [read EXCEPT !.state = "failed"], "failed", <<>>, "exit", "exit", "exit")
          /\ actor[e].pc = "fail"
      BY <2>2 DEF Fail, At
    <3>2. QED BY <1>10, <2>1, <3>1
  <2>3. CASE Finish(e)
    <3>1. /\ Write(e, [read EXCEPT !.state = "final"], "finished", Final, "exit", "exit", "exit")
          /\ actor[e].pc = "finish"
      BY <2>3 DEF Finish, At
    <3>2. QED BY <1>10, <2>1, <3>1
  <2>4. QED BY <1>11, <2>2, <2>3
<1>12. ASSUME Respond(e) PROVE Rest /\ Held
  <2>1. UNCHANGED task /\ \E pc \in {"failRead", "finishRead"} : Goto(e, pc)
    BY <1>12 DEF Respond, storeVars
  <2>2. actor'[e].pc \in {"failRead", "finishRead"}
    BY <1>2, <2>1, GotoMoves
  <2>3. QED BY <1>1, <2>1, <2>2 DEF Rest, Held, Finishing
<1>13. ASSUME FailRead(e) \/ FinishRead(e) PROVE Rest /\ Held
  <2>1. /\ UNCHANGED task
        /\ \/ task[t].state = "cancelled"
           \/ \E pc \in {"fail", "finish"} : Hold(e, pc, t, task[t])
    BY <1>4, <1>13 DEF FailRead, FinishRead, ResultLookup, Abandons, storeVars, TaskOf
  <2>2. ASSUME NEW pc \in {"fail", "finish"}, Hold(e, pc, t, task[t])
        PROVE  actor'[e].pc \in {"fail", "finish"} /\ actor'[e].rec = task[t]
    BY <1>2, <2>2, HoldMoves
  <2>3. QED BY <1>1, <2>1, <2>2 DEF Rest, Held, Finishing
<1>14. ASSUME ~(Start(e) \/ Apply(e) \/ Save(e) \/ Fail(e) \/ Finish(e)),
              ~(Respond(e) \/ FailRead(e) \/ FinishRead(e))
       PROVE  Rest /\ Held
  <2>1. UNCHANGED task /\ ~Finishing(e, t)
    BY <1>14 DEF ExecStep, Spawned, Subscribe, Receive, StreamLost, Project, Progress,
       DispatchProgress, ProgressFailed, Deliver, Exit, storeVars, At, Finishing
  <2>2. QED BY <1>6, <2>1
<1>15. QED BY <1>3, <1>7, <1>8, <1>9, <1>11, <1>12, <1>13, <1>14

LEMMA FinalNext == Durable /\ IInv /\ FinalInv /\ [Next]_vars => FinalInv'
<1> SUFFICES ASSUME Durable, IInv, FinalInv, [Next]_vars PROVE FinalInv'
  OBVIOUS
<1>0. Sure' /\ ~Crash /\ ~StoreFault
  BY SureNext DEF FinalInv, Crash, StoreFault, Fault, IInv, StoreInv, Sure
<1>1. budget'.crash = 0
  <2>1. budget \in [resume : Nat, crash : Nat, fault : Nat] /\ budget.crash = 0
    BY DEF IInv, StoreInv, FinalInv
  <2>2. UNCHANGED budget \/ (\E c \in Callers, t \in Tasks : ResumeLookup(c, t)) \/ Fault
    BY <1>0, BudgetMoves
  <2>3. QED BY <2>1, <2>2 DEF ResumeLookup, Fault
<1>2. ASSUME UNCHANGED actor, UNCHANGED task PROVE FinalInv'
  BY <1>0, <1>1, <1>2, FinalOther
<1>3. CASE UNCHANGED vars
  BY <1>2, <1>3 DEF vars
<1>4. ASSUME NEW e \in Execs, Timeout(e) \/ AgentStep(e) PROVE FinalInv'
  BY <1>2, <1>4 DEF Timeout, AgentStep, AgentRun, AgentEmit, AgentAbort, storeVars
<1>5. ASSUME NEW a \in Actors, FlushAudit(a) PROVE FinalInv'
  BY <1>2, <1>5 DEF FlushAudit
<1>6. ASSUME NEW a \in Callers \cup {Boot},
             NEW state \in {"queued", "cancelled"}, NEW record, record.state = state,
             actor[a].pc \notin Free,
             NEW action, NEW hit, NEW miss, NEW err,
             Write(a, record, action, <<>>, hit, miss, err)
      PROVE  FinalInv'
  <2>1. a \in Actors /\ Execs \subseteq Actors \ {a}
    BY CoreAssumption DEF Actors
  <2>2. PICK pc : Goto(a, pc)
    BY <1>6, <2>1, WriteMoves
  <2>3. \A b \in Execs : actor'[b] = actor[b]
    BY <2>1, <2>2, GotoMoves
  <2>4. \A t \in Tasks : task'[t].state = "final" => task[t].state = "final"
    BY <1>6, <2>1, WriteMoves
  <2>5. QED BY <1>0, <1>1, <2>3, <2>4, FinalOther
<1>7. ASSUME NEW a \in Callers \cup {Boot}, UNCHANGED task,
             \/ \E pc : Goto(a, pc)
             \/ \E pc, t, record : Hold(a, pc, t, record)
      PROVE  FinalInv'
  <2>1. a \in Actors /\ Execs \subseteq Actors \ {a}
    BY CoreAssumption DEF Actors
  <2>2. \A b \in Execs : actor'[b] = actor[b]
    BY <1>7, <2>1, GotoMoves, HoldMoves
  <2>3. QED BY <1>0, <1>1, <1>7, <2>2, FinalOther
<1>8. ASSUME NEW c \in Callers, Request(c) PROVE FinalInv'
  <2>1. PICK t \in Tasks :
          Accept(c, t) \/ ApproveLookup(c, t) \/ ResumeLookup(c, t) \/ CancelLookup(c, t)
    BY <1>8 DEF Request
  <2>2. CASE ~Accept(c, t)
    BY <1>7, <2>1, <2>2 DEF ApproveLookup, ResumeLookup, CancelLookup, Lookup, storeVars
  <2>3. CASE Accept(c, t)
    <3> DEFINE record == [Blank EXCEPT !.state = InitialState(t)]
               next == IF InitialState(t) = "queued" THEN "launch" ELSE "off"
    <3>1. record.state # "final" /\ task \in [Tasks -> TaskRecord]
      BY DEF InitialState, Blank, IInv, StoreInv
    <3>2. PutRecord(t, record)
      BY <2>3 DEF Accept, CommitTx
    <3>3. \/ Hold(c, next, IF next = "off" THEN NoTask ELSE t, Blank)
          \/ Goto(c, "off")
      BY <2>3 DEF Accept
    <3> HIDE DEF record, next
    <3>4. \A u \in Tasks : task'[u].state = "final" => task[u].state = "final"
      BY <3>1, <3>2 DEF PutRecord
    <3>5. c \in Actors /\ Execs \subseteq Actors \ {c}
      BY CoreAssumption DEF Actors
    <3>6. \A b \in Execs : actor'[b] = actor[b]
      BY <3>3, <3>5, GotoMoves, HoldMoves
    <3>7. QED BY <1>0, <1>1, <3>4, <3>6, FinalOther
  <2>4. QED BY <2>2, <2>3
<1>9. ASSUME NEW c \in Callers, CallerStep(c) PROVE FinalInv'
  <2> DEFINE read == actor[c].rec
  <2>1. read \in TaskRecord
    BY DEF IInv, ActorInv, ActorState, Actors
  <2>2. /\ [read EXCEPT !.state = "queued", !.approved = TRUE].state = "queued"
        /\ [read EXCEPT !.state = "queued"].state = "queued"
        /\ [read EXCEPT !.state = "cancelled"].state = "cancelled"
    BY <2>1 DEF TaskRecord
  <2>3. CASE ApproveWrite(c)
    BY <1>6, <2>2, <2>3 DEF ApproveWrite, At, Free
  <2>4. CASE ResumeWrite(c)
    BY <1>6, <2>2, <2>4 DEF ResumeWrite, At, Free
  <2>5. CASE CancelWrite(c)
    BY <1>6, <2>2, <2>5 DEF CancelWrite, At, Free
  <2>6. CASE CancelStop(c)
    BY <1>7, <2>6 DEF CancelStop, storeVars
  <2>7. QED BY <1>9, <2>3, <2>4, <2>5, <2>6 DEF CallerStep
<1>10. CASE BootStep
  <2>1. [actor[Boot].rec EXCEPT !.state = "queued"].state = "queued"
    BY DEF IInv, ActorInv, ActorState, Actors, TaskRecord
  <2>2. CASE RecoverWrite
    BY <1>6, <2>1, <2>2 DEF RecoverWrite, At, Free
  <2>3. CASE ~RecoverWrite
    BY <1>7, <1>10, <2>3 DEF BootStep, RecoverList, RecoverNext, RecoverDone, storeVars
  <2>4. QED BY <2>2, <2>3
<1>11. ASSUME NEW a \in Callers \cup {Boot}, StartExecution(a) PROVE FinalInv'
  <2> DEFINE then == IF a = Boot THEN "recover" ELSE "off"
             old == IF then = "off" THEN Idle ELSE [Idle EXCEPT !.pc = then]
             young == [pc |-> "spawned", task |-> actor[a].task, rec |-> Blank]
  <2>1. PICK e \in Execs : /\ actor[e].pc = "off" /\ UNCHANGED task
                           /\ actor' = [actor EXCEPT ![a] = old, ![e] = young]
    BY <1>11 DEF StartExecution, Launch, storeVars
  <2> HIDE DEF old, young
  <2>2. a \in Actors /\ Execs \subseteq Actors \ {a} /\ actor \in [Actors -> ActorState]
    BY CoreAssumption DEF Actors, IInv, ActorInv
  <2>3. \A b \in Execs : actor[b].pc # "off" => actor'[b] = actor[b]
    BY <2>1, <2>2
  <2>4. QED BY <1>0, <1>1, <2>1, <2>3, FinalOther
<1>12. QED
  BY <1>0, <1>1, <1>3, <1>4, <1>5, <1>8, <1>9, <1>10, <1>11, FinalExec DEF Next

\* While nothing fails and nothing crashes, a task that comes to rest as final has
\* had its reply posted: the projected "final" event, which shows the result to
\* GetTask first, never stands in for the delivery, with or without deadlines
\* (service.go:253-255, 585-596).
THEOREM FinalHasItsReply ==
  ASSUME Durable, MaxFaults = 0, MaxCrashes = 0
  PROVE  Spec => []FinalIsDelivered
<1>1. IInv /\ FinalInv => FinalIsDelivered
  <2> SUFFICES ASSUME IInv, FinalInv, NEW t \in Tasks, task[t].state = "final", AtRest(t)
               PROVE  Count(outbox[t], IsFinal) > 0
    BY DEF FinalIsDelivered
  <2>1. \A e \in Execs : ~Finishing(e, t)
    BY DEF AtRest, Finishing, Actors
  <2>2. Posted(t)
    BY <2>1 DEF FinalInv
  <2>3. Count(outbox[t], IsFinal) = Tally(outbox[t], {"final"})
    BY DEF Count, IsFinal, Tally
  <2> DEFINE posts == {i \in 1..Len(outbox[t]) : outbox[t][i] \in {"final"}}
  <2>4. outbox[t] \in Seq({"final", "progress"})
    BY DEF IInv, StoreInv
  <2>5. IsFiniteSet(posts) /\ posts # {}
    <3>1. IsFiniteSet(1..Len(outbox[t]))
      BY <2>4, FS_Interval
    <3>2. QED BY <2>2, <3>1, FS_Subset DEF Posted
  <2>6. Cardinality(posts) \in Nat \ {0}
    BY <2>5, FS_CardinalityType, FS_EmptySet
  <2>7. QED BY <2>3, <2>6 DEF Tally
<1>2. Init => FinalInv
  BY FinalInitially
<1>3. QED BY <1>1, <1>2, FinalNext, Invariance, PTL DEF Spec

------------------------------------------------------------------------------
\* Replies of the in-memory build: an execution that still has to send its reply
\* has its success on the audit trail first.

Finishes == {event \in AuditEvent : event.action = "finished"}

Delivering(t) == {e \in Execs : actor[e].pc = "deliver" /\ actor[e].task = t /\ owed[e] = NoEvent}

OwesFinish(e) ==
  actor[e].pc = "deliver" /\ owed[e] # NoEvent =>
    owed[e] \in Finishes /\ owed[e].task = actor[e].task

Covered(t) ==
  /\ IsFiniteSet(Delivering(t))
  /\ Tally(outbox[t], {"final"}) + Cardinality(Delivering(t)) <= Tally(audit[t], Finishes)

ReplyInv == (\A e \in Execs : OwesFinish(e)) /\ (\A t \in Tasks : Covered(t))

LEMMA TallyIsNat ==
  ASSUME NEW S, NEW seq \in Seq(S), NEW T
  PROVE  Tally(seq, T) \in Nat
<1>1. IsFiniteSet(1..Len(seq))
  BY FS_Interval
<1>2. IsFiniteSet({i \in 1..Len(seq) : seq[i] \in T})
  BY <1>1, FS_Subset
<1>3. QED BY <1>2, FS_CardinalityType DEF Tally

LEMMA CountsTally ==
  ASSUME IInv, NEW t \in Tasks
  PROVE  /\ Count(outbox[t], IsFinal) = Tally(outbox[t], {"final"})
         /\ Count(audit[t], IsFinished) = Tally(audit[t], Finishes)
<1>1. Count(outbox[t], IsFinal) = Tally(outbox[t], {"final"})
  BY DEF Count, IsFinal, Tally
<1>2. \A i \in 1..Len(audit[t]) : audit[t][i] \in AuditEvent
  <2>1. audit[t] \in Seq(AuditEvent)
    BY DEF IInv, StoreInv
  <2>2. QED BY <2>1
<1>3. {i \in 1..Len(audit[t]) : audit[t][i].action = "finished"}
        = {i \in 1..Len(audit[t]) : audit[t][i] \in Finishes}
  BY <1>2 DEF Finishes
<1>4. QED BY <1>1, <1>3 DEF Count, IsFinished, Tally

LEMMA ReplyInitially == Init => ReplyInv
<1> SUFFICES ASSUME Init PROVE ReplyInv
  OBVIOUS
<1>1. \A e \in Execs : e \in Actors /\ actor[e].pc # "deliver"
  BY DEF Init, Idle, Actors
<1>2. ASSUME NEW t \in Tasks PROVE Covered(t)
  <2>1. Delivering(t) = {}
    BY <1>1 DEF Delivering
  <2>2. outbox[t] = <<>> /\ audit[t] = <<>>
    BY DEF Init, StoreInit
  <2>3. Tally(<<>>, {"final"}) = 0 /\ Tally(<<>>, Finishes) = 0
    BY FS_EmptySet DEF Tally
  <2>4. QED BY <2>1, <2>2, <2>3, FS_EmptySet DEF Covered
<1>3. QED BY <1>1, <1>2 DEF ReplyInv, OwesFinish

\* Nothing is sent or audited, and nobody is newly ready to send.
LEMMA ReplyStep ==
  ASSUME IInv, ReplyInv,
         \A t \in Tasks : Tally(outbox'[t], {"final"}) = Tally(outbox[t], {"final"}),
         UNCHANGED audit,
         \A e \in Execs :
           \/ actor'[e] = actor[e] /\ owed'[e] = owed[e]
           \/ actor'[e].pc # "deliver"
           \/ owed'[e] # NoEvent /\ owed'[e] \in Finishes /\ owed'[e].task = actor'[e].task
  PROVE  ReplyInv'
<1>1. ASSUME NEW e \in Execs PROVE OwesFinish(e)'
  BY DEF ReplyInv, OwesFinish, Finishes
<1>2. ASSUME NEW t \in Tasks PROVE Covered(t)'
  <2>1. Delivering(t)' \subseteq Delivering(t) /\ IsFiniteSet(Delivering(t))
    BY DEF Delivering, ReplyInv, Covered
  <2>2. /\ IsFiniteSet(Delivering(t)') /\ Cardinality(Delivering(t)') \in Nat
        /\ Cardinality(Delivering(t)') <= Cardinality(Delivering(t))
        /\ Cardinality(Delivering(t)) \in Nat
    BY <2>1, FS_Subset, FS_CardinalityType
  <2>3. Tally(outbox[t], {"final"}) \in Nat /\ Tally(audit[t], Finishes) \in Nat
    <3>1. outbox[t] \in Seq({"final", "progress"}) /\ audit[t] \in Seq(AuditEvent)
      BY DEF IInv, StoreInv
    <3>2. QED BY <3>1, TallyIsNat
  <2>4. Tally(outbox[t], {"final"}) + Cardinality(Delivering(t)) <= Tally(audit[t], Finishes)
    BY DEF ReplyInv, Covered
  <2>5. Tally(outbox[t], {"final"}) + Cardinality(Delivering(t)') <= Tally(audit[t], Finishes)
    BY <2>2, <2>3, <2>4
  <2>6. QED BY <2>2, <2>5 DEF Covered, Finishes
<1>3. QED BY <1>1, <1>2 DEF ReplyInv

\* The audit debt of a write.
LEMMA OwedMoves ==
  ASSUME ~Durable, IInv, NEW a \in Actors, actor[a].pc \notin Free,
         NEW record, NEW action, NEW mail, NEW hit, NEW miss, NEW err,
         Write(a, record, action, mail, hit, miss, err)
  PROVE  /\ UNCHANGED <<audit, outbox>> /\ \A b \in Actors \ {a} : owed'[b] = owed[b]
         /\ \/ Goto(a, miss)
            \/ /\ Goto(a, hit)
               /\ owed'[a] = [task |-> actor[a].task, action |-> action,
                              from |-> actor[a].rec.state, to |-> record.state]
<1>1. owed \in [Actors -> AuditEvent] /\ ~StoreFault
  BY DEF IInv, StoreInv, StoreFault
<1>2. QED BY <1>1 DEF Write, Persist

LEMMA ReplyFlush ==
  ASSUME IInv, ReplyInv, NEW a \in Actors, FlushAudit(a)
  PROVE  ReplyInv'
<1> DEFINE event == owed[a]
<1>1. /\ owed \in [Actors -> AuditEvent] /\ event \in AuditEvent /\ event # NoEvent
      /\ owed'[a] = NoEvent /\ \A b \in Actors \ {a} : owed'[b] = owed[b]
      /\ UNCHANGED <<actor, outbox>> /\ audit' = [audit EXCEPT ![event.task] = Append(@, event)]
      /\ audit \in [Tasks -> Seq(AuditEvent)]
  BY DEF FlushAudit, AppendAudit, IInv, StoreInv
<1>2. ASSUME NEW e \in Execs PROVE OwesFinish(e)'
  <2>1. e \in Actors
    BY DEF Actors
  <2>2. QED BY <1>1, <2>1 DEF ReplyInv, OwesFinish, Finishes
<1>3. ASSUME NEW t \in Tasks PROVE Covered(t)'
  <2>0. audit[t] \in Seq(AuditEvent) /\ outbox[t] \in Seq({"final", "progress"})
    BY DEF IInv, StoreInv
  <2>1. /\ audit'[t] = IF event.task = t THEN Append(audit[t], event) ELSE audit[t]
        /\ outbox'[t] = outbox[t]
    BY <1>1
  <2> HIDE DEF event
  <2>2. /\ Tally(audit[t], Finishes) \in Nat /\ Tally(outbox[t], {"final"}) \in Nat
        /\ Tally(audit'[t], Finishes) \in {Tally(audit[t], Finishes), Tally(audit[t], Finishes) + 1}
        /\ event.task = t /\ event \in Finishes =>
             Tally(audit'[t], Finishes) = Tally(audit[t], Finishes) + 1
    BY <1>1, <2>0, <2>1, TallyAppend, TallyIsNat
  <2>3. /\ IsFiniteSet(Delivering(t)) /\ Cardinality(Delivering(t)) \in Nat
        /\ Tally(outbox[t], {"final"}) + Cardinality(Delivering(t)) <= Tally(audit[t], Finishes)
    BY FS_CardinalityType DEF ReplyInv, Covered
  <2>4. CASE a \in Execs /\ actor[a].pc = "deliver" /\ actor[a].task = t
    <3>1. event \in Finishes /\ event.task = t
      BY <1>1, <2>4 DEF ReplyInv, OwesFinish, event
    <3>2. Delivering(t)' = Delivering(t) \cup {a} /\ a \notin Delivering(t)
      BY <1>1, <2>4 DEF Delivering, event, Actors
    <3>3. /\ IsFiniteSet(Delivering(t) \cup {a})
          /\ Cardinality(Delivering(t) \cup {a}) = Cardinality(Delivering(t)) + 1
      BY <2>3, <3>2, FS_AddElement
    <3>4. QED BY <2>1, <2>2, <2>3, <3>1, <3>2, <3>3 DEF Covered, Finishes
  <2>5. CASE ~(a \in Execs /\ actor[a].pc = "deliver" /\ actor[a].task = t)
    <3>1. Delivering(t)' = Delivering(t)
      BY <1>1, <2>5 DEF Delivering, Actors
    <3>2. QED BY <2>1, <2>2, <2>3, <3>1 DEF Covered, Finishes
  <2>6. QED BY <2>4, <2>5
<1>4. QED BY <1>2, <1>3 DEF ReplyInv

LEMMA ReplyDeliver ==
  ASSUME IInv, ReplyInv, NEW e \in Execs, Deliver(e)
  PROVE  ReplyInv'
<1> DEFINE t == actor[e].task
<1>1. /\ actor[e].pc = "deliver" /\ owed[e] = NoEvent /\ Goto(e, "exit")
      /\ UNCHANGED <<audit, owed>>
      /\ UNCHANGED outbox \/ Enqueue(t, Final)
  BY DEF Deliver, At, TaskOf
<1>2. /\ \A b \in Actors \ {e} : actor'[b] = actor[b]
      /\ actor'[e].pc = "exit" /\ e \in Actors /\ Execs \subseteq Actors
  BY <1>1, GotoMoves DEF Actors
<1>3. ASSUME NEW f \in Execs PROVE OwesFinish(f)'
  <2>1. CASE f = e
    BY <1>2, <2>1 DEF OwesFinish
  <2>2. CASE f # e
    <3>1. actor'[f] = actor[f] /\ owed'[f] = owed[f]
      BY <1>1, <1>2, <2>2
    <3>2. QED BY <3>1 DEF ReplyInv, OwesFinish, Finishes
  <2>3. QED BY <2>1, <2>2
<1>4. ASSUME NEW u \in Tasks PROVE Covered(u)'
  <2>0. audit[u] \in Seq(AuditEvent) /\ outbox \in [Tasks -> Seq({"final", "progress"})]
    BY DEF IInv, StoreInv
  <2>1. /\ IsFiniteSet(Delivering(u)) /\ Cardinality(Delivering(u)) \in Nat
        /\ Tally(outbox[u], {"final"}) + Cardinality(Delivering(u)) <= Tally(audit[u], Finishes)
    BY FS_CardinalityType DEF ReplyInv, Covered
  <2>2. Tally(audit[u], Finishes) \in Nat /\ Tally(outbox[u], {"final"}) \in Nat
    BY <2>0, TallyIsNat
  <2>3. CASE u = t
    <3>1. e \in Delivering(u) /\ Delivering(u)' = Delivering(u) \ {e}
      BY <1>1, <1>2, <2>3 DEF Delivering
    <3>2. /\ IsFiniteSet(Delivering(u) \ {e})
          /\ Cardinality(Delivering(u) \ {e}) = Cardinality(Delivering(u)) - 1
      BY <2>1, <3>1, FS_RemoveElement
    <3>3. Tally(outbox'[u], {"final"})
            \in {Tally(outbox[u], {"final"}), Tally(outbox[u], {"final"}) + 1}
      <4>1. CASE UNCHANGED outbox
        BY <4>1
      <4>2. CASE Enqueue(t, Final)
        <5>1. outbox'[u] = Append(outbox[u], "final")
          BY <2>0, <2>3, <4>2 DEF Enqueue, Final
        <5>2. QED BY <2>0, <5>1, TallyMail
      <4>3. QED BY <1>1, <4>1, <4>2
    <3>4. Tally(outbox'[u], {"final"}) + Cardinality(Delivering(u) \ {e})
            <= Tally(audit[u], Finishes)
      BY <2>1, <2>2, <3>2, <3>3
    <3>5. QED BY <1>1, <3>1, <3>2, <3>4 DEF Covered, Finishes
  <2>4. CASE u # t
    <3>1. Delivering(u)' = Delivering(u)
      BY <1>1, <1>2, <2>4 DEF Delivering
    <3>2. outbox'[u] = outbox[u]
      BY <1>1, <2>0, <2>4 DEF Enqueue
    <3>3. QED BY <1>1, <2>1, <3>1, <3>2 DEF Covered, Finishes
  <2>5. QED BY <2>3, <2>4
<1>5. QED BY <1>3, <1>4 DEF ReplyInv

LEMMA ReplyExec ==
  ASSUME ~Durable, IInv, ReplyInv, NEW e \in Execs, ExecStep(e)
  PROVE  ReplyInv'
<1> DEFINE t == actor[e].task
           read == actor[e].rec
           Quiet == UNCHANGED <<audit, outbox>>
           Ready == \/ actor'[e].pc # "deliver"
                    \/ /\ owed'[e] # NoEvent /\ owed'[e] \in Finishes
                       /\ owed'[e].task = actor'[e].task
           Settled == \A b \in Actors \ {e} : owed'[b] = owed[b]
<1>1. /\ \A b \in Actors \ {e} : actor'[b] = actor[b]
      /\ actor'[e].task = t /\ actor[e].pc \notin Free
  BY ExecFacts
<1>2. e \in Actors /\ Execs \subseteq Actors /\ t \in Tasks /\ read \in TaskRecord
  BY <1>1, AtWork DEF Actors, TaskOf
<1>3. ASSUME Quiet \/ /\ UNCHANGED audit
                      /\ \A u \in Tasks : Tally(outbox'[u], {"final"}) = Tally(outbox[u], {"final"}),
             Ready, Settled
      PROVE  ReplyInv'
  <2>1. ASSUME NEW f \in Execs
        PROVE  \/ actor'[f] = actor[f] /\ owed'[f] = owed[f]
               \/ actor'[f].pc # "deliver"
               \/ owed'[f] # NoEvent /\ owed'[f] \in Finishes /\ owed'[f].task = actor'[f].task
    BY <1>1, <1>2, <1>3
  <2>2. /\ UNCHANGED audit
        /\ \A u \in Tasks : Tally(outbox'[u], {"final"}) = Tally(outbox[u], {"final"})
    BY <1>3
  <2>3. QED BY <2>1, <2>2, ReplyStep
<1> HIDE DEF Quiet, Ready, Settled
<1>4. ASSUME NEW record, NEW action, NEW mail, NEW hit, NEW miss,
             Write(e, record, action, mail, hit, miss, miss),
             hit # "deliver", miss # "deliver"
      PROVE  Quiet /\ Ready /\ Settled
  <2>1. PICK pc \in {hit, miss} : Goto(e, pc)
    BY <1>1, <1>2, <1>4, OwedMoves
  <2>2. actor'[e].pc = pc
    BY <1>2, <2>1, GotoMoves
  <2>3. Quiet /\ Settled
    BY <1>1, <1>2, <1>4, OwedMoves DEF Quiet, Settled
  <2>4. QED BY <1>4, <2>2, <2>3 DEF Ready
<1>5. ASSUME NEW pc, Goto(e, pc), pc # "deliver", UNCHANGED <<audit, outbox, owed>>
      PROVE  Quiet /\ Ready /\ Settled
  BY <1>2, <1>5, GotoMoves DEF Quiet, Ready, Settled
<1>6. CASE Start(e) \/ Fail(e)
  <2> DEFINE record == [read EXCEPT !.attempt = read.attempt + 1]
  <2>1. \/ Goto(e, "exit") /\ UNCHANGED <<audit, outbox, owed>>
        \/ Write(e, [record EXCEPT !.state = "failed"], "failed", <<>>, "exit", "exit", "exit")
        \/ Write(e, [record EXCEPT !.state = "running"], "started", <<>>,
                 "subscribe", "exit", "exit")
        \/ Write(e, [read EXCEPT !.state = "failed"], "failed", <<>>, "exit", "exit", "exit")
    BY <1>6 DEF Start, Fail, storeVars
  <2> HIDE DEF record
  <2>2. QED BY <1>3, <1>4, <1>5, <2>1
<1>7. CASE Apply(e)
  <2> DEFINE next == AfterProjection(e)
  <2>1. next # "deliver"
    BY DEF AfterProjection
  <2>2. /\ actor[e].pc = "apply" /\ owed[e] = NoEvent
        /\ \/ Goto(e, "failRead") /\ UNCHANGED <<task, audit, outbox, owed>>
           \/ Write(e, Projection(read, Received(e).kind, seen[e]),
                    AgentAction[Received(e).kind], <<>>, next, "failRead", "failRead")
    BY <1>7 DEF Apply, storeVars, At
  <2> HIDE DEF next
  <2>3. QED BY <1>3, <1>4, <1>5, <2>1, <2>2
<1>8. CASE Save(e)
  <2>1. /\ UNCHANGED <<audit, outbox, owed>>
        /\ \E pc \in {"progressFailed", "dispatchProgress"} : Goto(e, pc)
    BY <1>8 DEF Save, storeVars
  <2>2. QED BY <1>3, <1>5, <2>1
<1>9. CASE Finish(e)
  <2> DEFINE record == [read EXCEPT !.state = "final"]
             event == [task |-> t, action |-> "finished", from |-> read.state,
                       to |-> record.state]
  <2>1. Write(e, record, "finished", Final, "deliver", "exit", "exit")
    BY <1>9 DEF Finish
  <2>2. event \in Finishes /\ event # NoEvent /\ event.task = t
    BY <1>2, StoreAssumption DEF Finishes, AuditEvent, Actions, States, Terminal, NoEvent, TaskRecord
  <2> HIDE DEF record
  <2>3. /\ Quiet /\ Settled
        /\ Goto(e, "exit") \/ owed'[e] = event
    BY <1>1, <1>2, <2>1, OwedMoves DEF Quiet, Settled
  <2> HIDE DEF event
  <2>4. Ready
    BY <1>1, <1>2, <2>2, <2>3, GotoMoves DEF Ready
  <2>5. QED BY <1>3, <2>3, <2>4
<1>10. CASE DispatchProgress(e)
  <2>1. /\ UNCHANGED <<audit, owed>>
        /\ UNCHANGED outbox \/ Enqueue(t, Progressive)
        /\ \E pc \in {"receive", "progressFailed"} : Goto(e, pc)
    BY <1>10 DEF DispatchProgress, TaskOf
  <2>2. actor'[e].pc # "deliver"
    BY <1>2, <2>1, GotoMoves
  <2>3. ASSUME NEW u \in Tasks PROVE Tally(outbox'[u], {"final"}) = Tally(outbox[u], {"final"})
    <3>1. outbox \in [Tasks -> Seq({"final", "progress"})]
      BY DEF IInv, StoreInv
    <3>2. outbox'[u] = outbox[u] \/ outbox'[u] = Append(outbox[u], "progress")
      BY <2>1, <3>1 DEF Enqueue, Progressive
    <3>3. QED BY <3>1, <3>2, TallyMail
  <2>4. QED BY <1>3, <2>1, <2>2, <2>3 DEF Ready, Settled
<1>11. CASE Deliver(e)
  BY <1>11, ReplyDeliver
<1>12. CASE ~(Start(e) \/ Apply(e) \/ Save(e) \/ Fail(e) \/ Finish(e) \/ DispatchProgress(e)
              \/ Deliver(e))
  <2>1. /\ UNCHANGED <<audit, outbox, owed>> /\ actor'[e].pc # "deliver"
    <3>1. /\ UNCHANGED <<audit, outbox, owed>>
          /\ \/ \E pc \in (Inside \cup {"done"}) \ {"deliver"} : Goto(e, pc)
             \/ \E pc \in {"start", "apply", "save", "fail", "finish"} :
                  Hold(e, pc, t, task[t])
      BY <1>12 DEF ExecStep, Spawned, Subscribe, Receive, StreamLost, Project, AfterProjection,
          Progress, ProgressFailed, Respond, FailRead, FinishRead, ResultLookup, Exit,
          storeVars, Inside, UnderContext, TaskOf
    <3>2. QED BY <1>2, <3>1, GotoMoves, HoldMoves
  <2>2. QED BY <1>3, <2>1 DEF Quiet, Ready, Settled
<1>13. QED BY <1>6, <1>7, <1>8, <1>9, <1>10, <1>11, <1>12

LEMMA ReplyNext == ~Durable /\ IInv /\ ReplyInv /\ [Next]_vars => ReplyInv'
<1> SUFFICES ASSUME ~Durable, IInv, ReplyInv, [Next]_vars PROVE ReplyInv'
  OBVIOUS
<1>0. /\ ~Crash /\ ~StoreFault /\ actor \in [Actors -> ActorState]
      /\ Execs \subseteq Actors
  BY DEF Crash, StoreFault, IInv, ActorInv, Actors
<1>1. ASSUME UNCHANGED <<audit, outbox>>,
             \A e \in Execs : /\ owed'[e] = owed[e]
                              /\ actor'[e] = actor[e] \/ actor'[e].pc # "deliver"
      PROVE  ReplyInv'
  BY <1>1, ReplyStep
<1>2. CASE UNCHANGED vars
  BY <1>1, <1>2 DEF vars
<1>3. ASSUME NEW e \in Execs, Timeout(e) \/ AgentStep(e) PROVE ReplyInv'
  BY <1>1, <1>3 DEF Timeout, AgentStep, AgentRun, AgentEmit, AgentAbort, storeVars
<1>4. ASSUME NEW a \in Callers \cup {Boot},
             \/ \E pc : Goto(a, pc)
             \/ \E pc, t, record : Hold(a, pc, t, record),
             UNCHANGED <<audit, outbox>>, \A e \in Execs : owed'[e] = owed[e]
      PROVE  ReplyInv'
  <2>1. a \in Actors /\ Execs \subseteq Actors \ {a}
    BY CoreAssumption DEF Actors
  <2>2. \A b \in Execs : actor'[b] = actor[b]
    BY <1>4, <2>1, GotoMoves, HoldMoves
  <2>3. QED BY <1>1, <1>4, <2>2
<1>5. ASSUME NEW a \in Callers \cup {Boot}, actor[a].pc \notin Free,
             NEW record, NEW action, NEW hit, NEW miss, NEW err,
             Write(a, record, action, <<>>, hit, miss, err)
      PROVE  ReplyInv'
  <2>1. a \in Actors /\ Execs \subseteq Actors \ {a}
    BY CoreAssumption DEF Actors
  <2>2. UNCHANGED <<audit, outbox>> /\ (\A e \in Execs : owed'[e] = owed[e]) /\ \E pc : Goto(a, pc)
    BY <1>5, <2>1, OwedMoves
  <2>3. QED BY <1>4, <2>2
<1>6. ASSUME NEW c \in Callers, Request(c) PROVE ReplyInv'
  <2>1. PICK t \in Tasks :
          Accept(c, t) \/ ApproveLookup(c, t) \/ ResumeLookup(c, t) \/ CancelLookup(c, t)
    BY <1>6 DEF Request
  <2>2. c \notin Execs /\ owed \in [Actors -> AuditEvent]
    BY CoreAssumption DEF IInv, StoreInv
  <2>3. UNCHANGED <<audit, outbox>> /\ \A e \in Execs : owed'[e] = owed[e]
    BY <1>0, <2>1, <2>2 DEF Accept, ApproveLookup, ResumeLookup, CancelLookup, Lookup, storeVars
  <2>4. \/ \E pc : Goto(c, pc)
        \/ \E pc, u, record : Hold(c, pc, u, record)
    BY <2>1 DEF Accept, ApproveLookup, ResumeLookup, CancelLookup, Lookup
  <2>5. QED BY <1>4, <2>3, <2>4
<1>7. ASSUME NEW c \in Callers, CallerStep(c) PROVE ReplyInv'
  BY <1>4, <1>5, <1>7
  DEF CallerStep, ApproveWrite, ResumeWrite, CancelWrite, CancelStop, At, Free, storeVars
<1>8. CASE BootStep
  BY <1>4, <1>5, <1>8
  DEF BootStep, RecoverList, RecoverNext, RecoverWrite, RecoverDone, At, Free, storeVars
<1>9. ASSUME NEW a \in Callers \cup {Boot}, StartExecution(a) PROVE ReplyInv'
  <2> DEFINE then == IF a = Boot THEN "recover" ELSE "off"
             old == IF then = "off" THEN Idle ELSE [Idle EXCEPT !.pc = then]
             young == [pc |-> "spawned", task |-> actor[a].task, rec |-> Blank]
  <2>1. PICK e \in Execs : /\ UNCHANGED <<audit, outbox, owed>>
                           /\ actor' = [actor EXCEPT ![a] = old, ![e] = young]
    BY <1>9 DEF StartExecution, Launch, storeVars
  <2>2. young.pc # "deliver" /\ a \in Actors /\ Execs \subseteq Actors \ {a}
    BY CoreAssumption DEF Actors
  <2> HIDE DEF old, young
  <2>3. \A b \in Execs : actor'[b] = actor[b] \/ actor'[b].pc # "deliver"
    BY <1>0, <2>1, <2>2
  <2>4. QED BY <1>1, <2>1, <2>3
<1>10. QED
  BY <1>0, <1>2, <1>3, <1>6, <1>7, <1>8, <1>9, ReplyExec, ReplyFlush DEF Next

\* A reply is sent at most once per success, and only after the success is on the
\* audit trail, in either build (service.go:152-171).
THEOREM ReplyAfterSuccess == Spec => []RepliesFollowFinish
<1>1. CASE Durable
  <2>1. FinishPostsOnce /\ IInv => RepliesFollowFinish
    <3> SUFFICES ASSUME FinishPostsOnce, IInv, NEW t \in Tasks
                 PROVE  Count(outbox[t], IsFinal) <= Count(audit[t], IsFinished)
      BY DEF RepliesFollowFinish
    <3>1. outbox[t] \in Seq({"final", "progress"})
      BY DEF IInv, StoreInv
    <3>2. Count(outbox[t], IsFinal) \in Nat
      BY <3>1, CountsTally, TallyIsNat
    <3>3. QED BY <3>2 DEF FinishPostsOnce
  <2>2. Spec => []FinishPostsOnce
    BY <1>1, DurableFinishPostsOnce
  <2>3. QED BY <2>1, <2>2, Invariance, PTL
<1>2. CASE ~Durable
  <2>1. IInv /\ ReplyInv => RepliesFollowFinish
    <3> SUFFICES ASSUME IInv, ReplyInv, NEW t \in Tasks
                 PROVE  Count(outbox[t], IsFinal) <= Count(audit[t], IsFinished)
      BY DEF RepliesFollowFinish
    <3>1. /\ Tally(outbox[t], {"final"}) + Cardinality(Delivering(t)) <= Tally(audit[t], Finishes)
          /\ Cardinality(Delivering(t)) \in Nat
      BY FS_CardinalityType DEF ReplyInv, Covered
    <3>2. outbox[t] \in Seq({"final", "progress"}) /\ audit[t] \in Seq(AuditEvent)
      BY DEF IInv, StoreInv
    <3>3. Tally(outbox[t], {"final"}) \in Nat /\ Tally(audit[t], Finishes) \in Nat
      BY <3>2, TallyIsNat
    <3>4. Tally(outbox[t], {"final"}) <= Tally(audit[t], Finishes)
      BY <3>1, <3>3
    <3>5. QED BY <3>4, CountsTally
  <2>2. Init => ReplyInv
    BY ReplyInitially
  <2>3. IInv /\ ReplyInv /\ [Next]_vars => ReplyInv'
    BY <1>2, ReplyNext
  <2>4. QED BY <2>1, <2>2, <2>3, Invariance, PTL DEF Spec
<1>3. QED BY <1>1, <1>2

------------------------------------------------------------------------------
\* Orphans.  Until the gate serves, a live task is on recovery's list or has been
\* started again; from then on, somebody is always at work on it.

\* Nobody is at work on the task.
Quiet(t) == \A a \in Callers \cup Execs : actor[a].task = t => actor[a].pc = "done"

Attended(t) ==
  /\ task[t].state = "queued" => \E a \in Actors : Starting(a, t)
  /\ task[t].state = "running" => \E e \in Execs : Working(e, t)
InRecovery(t) ==
  \/ \E entry \in listed : entry.task = t
  \/ actor[Boot].pc = "requeue" /\ actor[Boot].task = t

\* Recovery runs alone, before any request, and ends with its list.
NoneYet ==
  /\ ~Serving => \A c \in Callers : actor[c].pc = "off"
  /\ Serving => listed = {}
  /\ actor[Boot].pc = "list" => listed = {} /\ \A e \in Execs : actor[e].pc \in {"off", "done"}
  /\ \A a \in Actors : actor[a].pc = "off" => actor[a].task = NoTask
  /\ \A e \in Execs : actor[e].pc = "off" => e \notin stopped

\* What recovery has listed is as it was read.
Untouched(t, record) == task[t].state = record.state /\ Quiet(t)
ListedQuiet ==
  /\ \A one, other \in listed : one.task = other.task => one = other
  /\ \A entry \in listed :
       Untouched(entry.task, entry.rec) /\ entry.task # actor[Boot].task
  /\ actor[Boot].pc = "requeue" => Untouched(actor[Boot].task, actor[Boot].rec)

\* Only the execution of a cancelled task is stopped before its attempt began.
Registered ==
  /\ \A t \in Tasks, e \in Execs : cancels[t] = e => actor[e].task = t /\ actor[e].pc # "off"
  /\ \A c \in Callers : actor[c].pc = "stop" => task[actor[c].task].state = "cancelled"
  /\ \A e \in Execs : actor[e].pc \in {"spawned", "start"} /\ e \in stopped =>
                        task[actor[e].task].state = "cancelled"

AllAttended == actor[Boot].pc # "list" => \A t \in Tasks : Attended(t) \/ InRecovery(t)

OrphanInv ==
  /\ Sure /\ actor[Boot].pc # "halt"
  /\ NoneYet /\ ListedQuiet /\ Registered /\ AllAttended

LEMMA OrphanInitially == Init /\ (Durable => MaxFaults = 0) => OrphanInv
<1> SUFFICES ASSUME Init, Durable => MaxFaults = 0 PROVE OrphanInv
  OBVIOUS
<1>0. Boot \in Actors /\ Boot \notin Execs /\ Boot \notin Callers
      /\ Callers \subseteq Actors /\ Execs \subseteq Actors
  BY CoreAssumption DEF Actors
<1>1. /\ actor[Boot].pc = "list" /\ \A a \in Actors : actor[a].task = NoTask
      /\ \A a \in Actors \ {Boot} : actor[a].pc = "off"
      /\ listed = {} /\ stopped = {} /\ \A t \in Tasks : cancels[t] = NoExec
  BY <1>0 DEF Init, Idle
<1>2. Sure
  BY DEF Init, Sure
<1>3. NoneYet
  BY <1>0, <1>1 DEF NoneYet, Serving
<1>4. ListedQuiet
  BY <1>1 DEF ListedQuiet
<1>5. Registered
  BY <1>0, <1>1, CoreAssumption DEF Registered
<1>6. QED BY <1>1, <1>2, <1>3, <1>4, <1>5 DEF OrphanInv, AllAttended

\* No step takes a cancelled task back.
LEMMA CancelledStays ==
  ASSUME Durable, IInv, [Next]_vars, NEW t \in Tasks, task[t].state = "cancelled"
  PROVE  task'[t].state = "cancelled"
<1>1. CASE UNCHANGED storeVars
  BY <1>1 DEF storeVars
<1>2. ASSUME NEW record \in TaskRecord, NEW event \in AuditEvent, NEW mail \in Mails,
             Transaction(record, event, mail)
      PROVE  task'[t] = task[t]
  BY <1>2 DEF Transaction, CommitTx, PutRecord, IInv, StoreInv
<1>3. QED BY <1>1, <1>2, NextTransacts DEF Transacted

------------------------------------------------------------------------------
\* An execution moves, on its own task.
LEMMA OrphanOwn ==
  ASSUME Durable, IInv, OrphanInv, [Next]_vars, Sure',
         NEW e \in Execs, ExecStep(e), UNCHANGED listed,
         \A u \in Tasks \ {actor[e].task} : task'[u] = task[u],
         stopped' \subseteq stopped \cup {e},
         actor'[e].pc \in {"spawned", "start"} => e \notin stopped',
         LET t == actor[e].task
         IN /\ task'[t].state = "queued" =>
                 task[t].state = "queued" /\ (Starting(e, t) => Starting(e, t)')
            /\ task'[t].state = "running" =>
                 Working(e, t)' \/ (task[t].state = "running" /\ ~Working(e, t))
  PROVE  OrphanInv'
<1> DEFINE t == actor[e].task
<1>0. /\ Boot \in Actors \ Execs /\ e \in Actors \ {Boot} /\ e \notin Callers
      /\ Callers \subseteq Actors \ {e} /\ Execs \subseteq Actors
      /\ listed \subseteq Entry
  BY CoreAssumption DEF Actors, IInv, AttemptInv
<1>1. /\ \A b \in Actors \ {e} : actor'[b] = actor[b]
      /\ actor'[e].task = t /\ actor'[e].pc \notin Free
      /\ actor[e].pc \notin Free \cup {"done"} /\ stopped \subseteq stopped'
      /\ \/ UNCHANGED cancels
         \/ cancels' = [cancels EXCEPT ![t] = NoExec]
  BY ExecFacts
<1>2. actor'[Boot] = actor[Boot] /\ actor[Boot].pc # "list" /\ t \in Tasks
  BY <1>0, <1>1 DEF OrphanInv, NoneYet, Free, IInv, ActorInv, Busy
<1>3. ~Quiet(t)
  BY <1>1 DEF Quiet
<1>4. NoneYet'
  <2>1. \A c \in Callers : actor'[c] = actor[c]
    BY <1>0, <1>1
  <2>2. \A a \in Actors : actor'[a].pc = "off" => actor'[a].task = NoTask
    BY <1>1 DEF OrphanInv, NoneYet, Free
  <2>3. \A f \in Execs : actor'[f].pc = "off" => f \notin stopped'
    BY <1>0, <1>1 DEF OrphanInv, NoneYet, Free
  <2>4. QED BY <1>2, <2>1, <2>2, <2>3 DEF OrphanInv, NoneYet, Serving
<1>5. ASSUME NEW u \in Tasks, NEW record, Untouched(u, record) PROVE Untouched(u, record)'
  <2>1. u # t
    BY <1>3, <1>5 DEF Untouched
  <2>2. \A a \in Callers \cup Execs : actor'[a].task = u => actor'[a].pc = "done"
    BY <1>0, <1>1, <1>5, <2>1 DEF Untouched, Quiet
  <2>3. QED BY <1>5, <2>1, <2>2 DEF Untouched, Quiet
<1>6. ListedQuiet'
  <2>1. actor[Boot].pc = "requeue" => actor[Boot].task \in Tasks
    BY <1>0 DEF IInv, ActorInv, Busy, Free
  <2>2. QED BY <1>0, <1>2, <1>5, <2>1 DEF OrphanInv, ListedQuiet, Entry
<1>7. Registered'
  <2>1. ASSUME NEW u \in Tasks, NEW f \in Execs, cancels'[u] = f
        PROVE  actor'[f].task = u /\ actor'[f].pc # "off"
    <3>1. cancels[u] = f
      BY <1>1, <1>2, <2>1, CoreAssumption DEF IInv, AttemptInv
    <3>2. actor[f].task = u /\ actor[f].pc # "off"
      BY <3>1 DEF OrphanInv, Registered
    <3>3. QED BY <1>0, <1>1, <3>2 DEF Free
  <2>2. ASSUME NEW c \in Callers, actor'[c].pc = "stop"
        PROVE  task'[actor'[c].task].state = "cancelled"
    <3>1. actor'[c] = actor[c] /\ actor[c].task \in Tasks /\ task[actor[c].task].state = "cancelled"
      BY <1>0, <1>1, <2>2 DEF OrphanInv, Registered, IInv, ActorInv, Busy, Free
    <3>2. QED BY <3>1, CancelledStays
  <2>3. ASSUME NEW f \in Execs, actor'[f].pc \in {"spawned", "start"}, f \in stopped'
        PROVE  task'[actor'[f].task].state = "cancelled"
    <3>1. f # e /\ f \in stopped
      BY <2>3
    <3>2. actor'[f] = actor[f]
      BY <1>0, <1>1, <3>1
    <3>3. actor[f].task \in Tasks /\ task[actor[f].task].state = "cancelled"
      BY <1>0, <2>3, <3>1, <3>2 DEF OrphanInv, Registered, IInv, ActorInv, Busy, Free
    <3>4. QED BY <3>2, <3>3, CancelledStays
  <2>4. QED BY <2>1, <2>2, <2>3 DEF Registered
<1>8. ASSUME NEW u \in Tasks PROVE Attended(u)' \/ InRecovery(u)'
  <2>1. InRecovery(u) => InRecovery(u)'
    BY <1>2 DEF InRecovery
  <2>2. Attended(u) \/ InRecovery(u)
    BY <1>2 DEF OrphanInv, AllAttended
  <2>3. ASSUME Attended(u), u # t PROVE Attended(u)'
    <3>1. ASSUME NEW a \in Actors, Starting(a, u) PROVE Starting(a, u)'
      BY <1>1, <2>3, <3>1 DEF Starting
    <3>2. ASSUME NEW f \in Execs, Working(f, u) PROVE Working(f, u)'
      BY <1>0, <1>1, <2>3, <3>2 DEF Working
    <3>3. task'[u] = task[u]
      BY <2>3
    <3>4. QED BY <2>3, <3>1, <3>2, <3>3 DEF Attended
  <2>4. ASSUME Attended(t) PROVE Attended(t)'
    <3> DEFINE w == t
    <3>1. ASSUME task'[t].state = "queued" PROVE \E a \in Actors : Starting(a, t)'
      <4>1. PICK a \in Actors : Starting(a, t)
        BY <2>4, <3>1 DEF Attended
      <4>2. CASE a = e
        BY <3>1, <4>1, <4>2
      <4>3. CASE a # e
        BY <1>1, <3>1, <4>1, <4>3 DEF Starting
      <4>4. QED BY <4>2, <4>3
    <3>2. ASSUME task'[t].state = "running" PROVE \E f \in Execs : Working(f, t)'
      <4>1. CASE Working(e, t)'
        BY <4>1
      <4>2. CASE task[t].state = "running" /\ ~Working(e, t)
        <5>1. PICK f \in Execs : Working(f, t)
          BY <2>4, <4>2 DEF Attended
        <5>2. f # e
          BY <4>2, <5>1
        <5>3. actor'[f] = actor[f]
          BY <1>0, <1>1, <5>2
        <5>4. QED BY <1>1, <3>2, <4>2, <5>1, <5>3 DEF Working
      <4>3. QED BY <3>2, <4>1, <4>2
    <3>3. QED BY <1>1, <3>1, <3>2 DEF Attended
  <2>5. ~InRecovery(t)
    <3>1. \A entry \in listed : entry.task # t
      BY <1>3 DEF OrphanInv, ListedQuiet, Untouched
    <3>2. ~(actor[Boot].pc = "requeue" /\ actor[Boot].task = t)
      BY <1>3 DEF OrphanInv, ListedQuiet, Untouched
    <3>3. QED BY <3>1, <3>2 DEF InRecovery
  <2>6. CASE u = t
    <3>1. Attended(t)'
      BY <2>2, <2>4, <2>5, <2>6
    <3>2. QED BY <1>1, <2>6, <3>1 DEF Attended, Starting, Working
  <2>7. CASE u # t
    BY <2>1, <2>2, <2>3, <2>7
  <2>8. QED BY <2>6, <2>7
<1>9. QED BY <1>2, <1>4, <1>6, <1>7, <1>8 DEF OrphanInv, AllAttended

LEMMA OrphanExec ==
  ASSUME Durable, IInv, OrphanInv, [Next]_vars, Sure', NEW e \in Execs, ExecStep(e)
  PROVE  OrphanInv'
<1> DEFINE t == actor[e].task
           read == actor[e].rec
           Rest == /\ UNCHANGED listed /\ stopped' \subseteq stopped \cup {e}
                   /\ actor'[e].pc \in {"spawned", "start"} => e \notin stopped'
           Rows == \A u \in Tasks \ {t} : task'[u] = task[u]
           Kept1 == task'[t].state = "queued" =>
                      task[t].state = "queued" /\ (Starting(e, t) => Starting(e, t)')
           Kept2 == task'[t].state = "running" =>
                      Working(e, t)' \/ (task[t].state = "running" /\ ~Working(e, t))
<1>1. /\ \A b \in Actors \ {e} : actor'[b] = actor[b]
      /\ actor'[e].task = t /\ actor[e].pc \notin Free
  BY ExecFacts
<1>2. /\ e \in Actors /\ t \in Tasks /\ read \in TaskRecord /\ task \in [Tasks -> TaskRecord]
      /\ actor[e].pc # "off" /\ ~StoreFault
  BY <1>1, AtWork DEF TaskOf, IInv, StoreInv, Free, StoreFault, Fault, OrphanInv, Sure
<1>3. Rest /\ Rows /\ Kept1 /\ Kept2 => OrphanInv'
  BY OrphanOwn
<1> HIDE DEF Rest, Rows, Kept1, Kept2
<1>4. ASSUME UNCHANGED <<stopped, listed>>, actor'[e].pc \notin {"spawned", "start"}
      PROVE  Rest
  BY <1>4 DEF Rest
\* Steps that write nothing, from a step at which the execution is no witness for a
\* queued task, to one at which it is one for a running task, or was none before.
<1>5. ASSUME UNCHANGED task, ~Starting(e, t) \/ task[t].state # "queued",
             actor'[e].pc \in UnderContext \cup {"failRead", "finishRead"} \/ ~Working(e, t)
             \/ task[t].state # "running"
      PROVE  Rows /\ Kept1 /\ Kept2
  BY <1>1, <1>5 DEF Rows, Kept1, Kept2, Working
\* A compare-and-set, from a snapshot that makes the execution a witness or not.
<1>6. ASSUME NEW record, NEW action, NEW mail, NEW hit, NEW miss,
             Write(e, record, action, mail, hit, miss, miss),
             actor[e].pc \notin {"launch", "spawned", "start"},
             record.state = "queued" => read.state = "queued",
             record.state = "running" => hit \in UnderContext \cup {"failRead"},
             \/ miss \in UnderContext \cup {"failRead"}
             \/ actor[e].pc \in {"fail", "finish"}
      PROVE  Rows /\ Kept1 /\ Kept2
  <2>1. ~Starting(e, t)
    BY <1>6 DEF Starting
  <2>2. CASE /\ Matches(t, read.state) /\ Goto(e, hit)
             /\ task'[t] = record /\ \A u \in Tasks \ {t} : task'[u] = task[u]
    <3>1. actor'[e].pc = hit
      BY <1>2, <2>2, GotoMoves
    <3>2. QED BY <1>1, <1>6, <2>1, <2>2, <3>1 DEF Rows, Kept1, Kept2, Working, Matches
  <2>3. CASE ~Matches(t, read.state) /\ Goto(e, miss) /\ UNCHANGED task
    <3>1. actor'[e].pc = miss
      BY <1>2, <2>3, GotoMoves
    <3>2. actor[e].pc \in {"fail", "finish"} => ~Working(e, t)
      BY <2>3 DEF Working, Matches, UnderContext
    <3>3. QED BY <1>5, <1>6, <2>1, <2>3, <3>1, <3>2
  <2>4. QED BY <1>1, <1>2, <1>6, <2>2, <2>3, SureWrite DEF OrphanInv
<1>7. ASSUME actor[e].pc \in {"spawned", "start"}, e \in stopped
      PROVE  task[t].state = "cancelled"
  BY <1>7 DEF OrphanInv, Registered
<1>8. CASE Spawned(e)
  <2>1. /\ actor[e].pc = "spawned" /\ ~Working(e, t) /\ UNCHANGED <<task, stopped, listed>>
        /\ \/ e \notin stopped /\ task[t].state = "queued" /\ Hold(e, "start", t, task[t])
           \/ e \in stopped \/ task[t].state # "queued"
    BY <1>2, <1>8 DEF Spawned, At, ContextFails, TaskOf, storeVars, execVars, Working, UnderContext
  <2>2. CASE e \notin stopped /\ task[t].state = "queued" /\ Hold(e, "start", t, task[t])
    <3>1. actor'[e].pc = "start" /\ actor'[e].rec = task[t]
      BY <1>2, <2>2, HoldMoves
    <3>2. Rest /\ Rows /\ Kept1 /\ Kept2
      BY <1>1, <2>1, <2>2, <3>1 DEF Rest, Rows, Kept1, Kept2, Starting
    <3>3. QED BY <1>3, <3>2
  <2>3. CASE task[t].state # "queued"
    <3>1. Goto(e, "exit")
      BY <1>2, <1>8, <2>3 DEF Spawned, TaskOf
    <3>2. actor'[e].pc = "exit"
      BY <1>2, <3>1, GotoMoves
    <3>3. QED BY <1>3, <1>4, <1>5, <2>1, <2>3, <3>2
  <2>4. QED BY <1>7, <2>1, <2>2, <2>3
<1>9. CASE Start(e)
  <2> DEFINE attempt == read.attempt + 1
             record == [read EXCEPT !.attempt = attempt]
  <2>1. /\ actor[e].pc = "start" /\ ~Working(e, t) /\ UNCHANGED <<stopped, listed>>
        /\ \/ Goto(e, "exit") /\ UNCHANGED task /\ e \in stopped
           \/ Write(e, [record EXCEPT !.state = "failed"], "failed", <<>>, "exit", "exit", "exit")
           \/ Write(e, [record EXCEPT !.state = "running"], "started", <<>>,
                    "subscribe", "exit", "exit")
    BY <1>9 DEF Start, At, ContextFails, storeVars, execVars, Working, UnderContext
  <2>2. /\ [record EXCEPT !.state = "failed"].state = "failed"
        /\ [record EXCEPT !.state = "running"].state = "running"
    BY <1>2 DEF TaskRecord
  <2> HIDE DEF record
  <2>3. CASE Goto(e, "exit") /\ UNCHANGED task /\ e \in stopped
    <3>1. actor'[e].pc = "exit"
      BY <1>2, <2>3, GotoMoves
    <3>2. QED BY <1>3, <1>4, <1>5, <1>7, <2>1, <2>3, <3>1
  <2>4. ASSUME NEW state \in {"failed", "running"}, NEW new, new.state = state,
               NEW action, NEW hit, Write(e, new, action, <<>>, hit, "exit", "exit"),
               hit = IF state = "failed" THEN "exit" ELSE "subscribe"
        PROVE  Rest /\ Rows /\ Kept1 /\ Kept2
    <3>1. CASE /\ Goto(e, hit) /\ task'[t] = new
               /\ \A u \in Tasks \ {t} : task'[u] = task[u]
      <4>1. actor'[e].pc = hit
        BY <1>2, <3>1, GotoMoves
      <4>2. QED BY <1>1, <1>4, <2>1, <2>4, <3>1, <4>1
                DEF Rows, Kept1, Kept2, Working, UnderContext
    <3>2. CASE ~Matches(t, read.state) /\ Goto(e, "exit") /\ UNCHANGED task
      <4>1. actor'[e].pc = "exit" /\ ~Starting(e, t)
        BY <1>2, <2>1, <3>2, GotoMoves DEF Starting, Matches
      <4>2. QED BY <1>4, <1>5, <2>1, <3>2, <4>1
    <3>3. QED BY <1>1, <1>2, <2>4, <3>1, <3>2, SureWrite DEF OrphanInv
  <2>5. QED BY <1>3, <2>1, <2>2, <2>3, <2>4
<1>10. CASE Fail(e) \/ Finish(e)
  <2>1. /\ actor[e].pc \in {"fail", "finish"} /\ UNCHANGED <<stopped, listed>>
        /\ \/ Write(e, [read EXCEPT !.state = "failed"], "failed", <<>>, "exit", "exit", "exit")
           \/ Write(e, [read EXCEPT !.state = "final"], "finished", Final, "exit", "exit", "exit")
    BY <1>10 DEF Fail, Finish, At, execVars
  <2>2. /\ [read EXCEPT !.state = "failed"].state = "failed"
        /\ [read EXCEPT !.state = "final"].state = "final"
    BY <1>2 DEF TaskRecord
  <2>3. Rows /\ Kept1 /\ Kept2
    <3>1. ASSUME NEW record, NEW action, NEW mail, record.state \notin {"queued", "running"},
                 Write(e, record, action, mail, "exit", "exit", "exit")
          PROVE  Rows /\ Kept1 /\ Kept2
      <4>1. actor[e].pc \notin {"launch", "spawned", "start"}
        BY <2>1
      <4>2. QED BY <1>6, <2>1, <3>1, <4>1
    <3>2. QED BY <2>1, <2>2, <3>1
  <2>4. Goto(e, "exit")
    BY <1>1, <1>2, <2>1, WriteMoves
  <2>5. QED BY <1>2, <1>3, <1>4, <2>1, <2>3, <2>4, GotoMoves
<1>11. CASE Apply(e)
  <2> DEFINE kind == Received(e).kind
             record == Projection(read, kind, seen[e])
             next == AfterProjection(e)
  <2>1. /\ actor[e].pc = "apply" /\ UNCHANGED <<stopped, listed>> /\ ~Starting(e, t)
        /\ \/ Goto(e, "failRead") /\ UNCHANGED task
           \/ Write(e, record, AgentAction[kind], <<>>, next, "failRead", "failRead")
    BY <1>11 DEF Apply, At, storeVars, execVars, Starting
  <2>2. /\ record.state = "queued" => read.state = "queued"
        /\ next \in UnderContext
    <3>1. kind \in {"running", "progress", "final", "failed"}
      BY <1>1, <2>1, AtWork DEF Free, AgentEvent
    <3>2. record.state = IF kind = "progress" THEN read.state ELSE kind
      BY <1>2 DEF Projection, TaskRecord
    <3>3. QED BY <3>1, <3>2 DEF AfterProjection, UnderContext
  <2> HIDE DEF record, next
  <2>3. CASE Goto(e, "failRead") /\ UNCHANGED task
    <3>1. actor'[e].pc = "failRead"
      BY <1>2, <2>3, GotoMoves
    <3>2. QED BY <1>3, <1>4, <1>5, <2>1, <2>3, <3>1
  <2>4. CASE Write(e, record, AgentAction[kind], <<>>, next, "failRead", "failRead")
    <3>1. Rows /\ Kept1 /\ Kept2
      <4>1. /\ actor[e].pc \notin {"launch", "spawned", "start"}
            /\ next \in UnderContext \cup {"failRead"}
            /\ "failRead" \in UnderContext \cup {"failRead"}
        BY <2>1, <2>2
      <4>2. QED BY <1>6, <2>2, <2>4, <4>1
    <3>2. \E pc \in UnderContext \cup {"failRead"} : Goto(e, pc)
      BY <1>1, <1>2, <2>2, <2>4, WriteMoves
    <3>3. actor'[e].pc \notin {"spawned", "start"}
      BY <1>2, <3>2, GotoMoves DEF UnderContext
    <3>4. QED BY <1>3, <1>4, <2>1, <3>1, <3>3
  <2>5. QED BY <2>1, <2>3, <2>4
<1>12. CASE Save(e)
  <2>1. /\ actor[e].pc = "save" /\ UNCHANGED <<stopped, listed>> /\ ~Starting(e, t)
        /\ \/ Goto(e, "progressFailed") /\ UNCHANGED task
           \/ Write(e, read, "agent_progress", Progressive, "receive", "receive", "progressFailed")
    BY <1>12 DEF Save, At, storeVars, execVars, Starting
  <2>2. CASE Goto(e, "progressFailed") /\ UNCHANGED task
    <3>1. actor'[e].pc = "progressFailed"
      BY <1>2, <2>2, GotoMoves
    <3>2. QED BY <1>3, <1>4, <1>5, <2>1, <2>2, <3>1 DEF UnderContext
  <2>3. CASE Write(e, read, "agent_progress", Progressive, "receive", "receive", "progressFailed")
    <3>1. /\ Goto(e, "receive")
          /\ \/ UNCHANGED task
             \/ /\ Matches(t, read.state) /\ task'[t] = read
                /\ \A u \in Tasks \ {t} : task'[u] = task[u]
      BY <1>1, <1>2, <2>3, SureWrite DEF OrphanInv
    <3>2. actor'[e].pc = "receive"
      BY <1>2, <3>1, GotoMoves
    <3>3. Rows /\ Kept1 /\ Kept2
      BY <1>1, <2>1, <3>1, <3>2 DEF Rows, Kept1, Kept2, Working, UnderContext, Matches
    <3>4. QED BY <1>3, <1>4, <2>1, <3>2, <3>3
  <2>4. QED BY <2>1, <2>2, <2>3
<1>13. CASE FailRead(e) \/ FinishRead(e)
  <2>1. /\ actor[e].pc \in {"failRead", "finishRead"} /\ UNCHANGED <<task, stopped, listed>>
        /\ ~Starting(e, t)
        /\ \/ task[t].state = "cancelled" /\ Goto(e, "exit")
           \/ \E pc \in {"fail", "finish"} : Hold(e, pc, t, task[t])
    BY <1>2, <1>13 DEF FailRead, FinishRead, ResultLookup, Abandons, At, storeVars, execVars,
                       TaskOf, Starting
  <2>2. CASE task[t].state = "cancelled" /\ Goto(e, "exit")
    <3>1. actor'[e].pc = "exit"
      BY <1>2, <2>2, GotoMoves
    <3>2. QED BY <1>3, <1>4, <1>5, <2>1, <2>2, <3>1
  <2>3. ASSUME NEW pc \in {"fail", "finish"}, Hold(e, pc, t, task[t]) PROVE OrphanInv'
    <3>1. actor'[e].pc = pc /\ actor'[e].rec = task[t]
      BY <1>2, <2>3, HoldMoves
    <3>2. Rows /\ Kept1 /\ Kept2
      BY <1>1, <2>1, <3>1 DEF Rows, Kept1, Kept2, Working
    <3>3. QED BY <1>3, <1>4, <2>1, <3>1, <3>2
  <2>4. QED BY <2>1, <2>2, <2>3
<1>14. CASE Exit(e)
  <2>1. /\ actor[e].pc = "exit" /\ UNCHANGED <<task, listed>> /\ stopped' \subseteq stopped \cup {e}
        /\ Goto(e, "done") /\ ~Starting(e, t) /\ ~Working(e, t)
    BY <1>14 DEF Exit, At, storeVars, Starting, Working, UnderContext
  <2>2. actor'[e].pc = "done"
    BY <1>2, <2>1, GotoMoves
  <2>3. Rest
    BY <2>1, <2>2 DEF Rest
  <2>4. QED BY <1>3, <1>5, <2>1, <2>3
<1>15. CASE ~(\/ Spawned(e) \/ Start(e) \/ Fail(e) \/ Finish(e) \/ Apply(e) \/ Save(e)
              \/ FailRead(e) \/ FinishRead(e) \/ Exit(e))
  <2>1. /\ UNCHANGED <<task, stopped, listed>> /\ ~Starting(e, t)
        /\ \/ \E pc \in UnderContext \cup {"failRead", "finishRead"} : Goto(e, pc)
           \/ \E pc \in {"apply", "save"} : Hold(e, pc, t, task[t])
    BY <1>15 DEF ExecStep, Subscribe, Receive, StreamLost, Project, AfterProjection, Progress,
        DispatchProgress, ProgressFailed, Respond, Deliver, storeVars, execVars, At,
        UnderContext, TaskOf, Starting
  <2>2. actor'[e].pc \in UnderContext \cup {"failRead", "finishRead"}
    BY <1>2, <2>1, GotoMoves, HoldMoves DEF UnderContext
  <2>3. Rest
    BY <1>4, <2>1, <2>2 DEF UnderContext
  <2>4. QED BY <1>3, <1>5, <2>1, <2>2, <2>3
<1>16. QED BY <1>8, <1>9, <1>10, <1>11, <1>12, <1>13, <1>14, <1>15
------------------------------------------------------------------------------
\* A caller moves: recovery is over by then.
LEMMA OrphanCaller ==
  ASSUME Durable, IInv, OrphanInv, [Next]_vars, Sure', NEW c \in Callers, Serving,
         \A b \in Actors \ {c} : actor'[b] = actor[b],
         actor'[c].pc = "off" => actor'[c].task = NoTask,
         UNCHANGED listed,
         \A u \in Tasks : task'[u].state = "queued" =>
           Starting(c, u)' \/ (task[u].state = "queued" /\ ~Starting(c, u)),
         \A u \in Tasks : task'[u].state = "running" => task[u].state = "running",
         actor'[c].pc = "stop" => task'[actor'[c].task].state = "cancelled",
         \A u \in Tasks, f \in Execs : cancels'[u] = f => cancels[u] = f,
         \A f \in Execs : f \in stopped' =>
           f \in stopped \/ (actor[f].pc # "off" /\ task'[actor[f].task].state = "cancelled")
  PROVE  OrphanInv'
<1>0. /\ Boot \in Actors \ {c} /\ c \notin Execs /\ Callers \subseteq Actors /\ c \in Actors
      /\ Execs \subseteq Actors \ {c}
  BY CoreAssumption DEF Actors
<1>1. /\ actor'[Boot] = actor[Boot] /\ actor[Boot].pc = "off" /\ listed = {} /\ listed' = {}
      /\ \A f \in Execs : actor'[f] = actor[f]
  BY <1>0 DEF Serving, OrphanInv, NoneYet
<1>2. NoneYet'
  BY <1>0, <1>1 DEF OrphanInv, NoneYet, Serving
<1>3. ListedQuiet'
  BY <1>1 DEF ListedQuiet
<1>4. Registered'
  <2>1. ASSUME NEW d \in Callers, actor'[d].pc = "stop"
        PROVE  task'[actor'[d].task].state = "cancelled"
    <3>1. CASE d # c
      <4>1. actor'[d] = actor[d] /\ actor[d].task \in Tasks /\ task[actor[d].task].state = "cancelled"
        BY <1>0, <2>1, <3>1 DEF OrphanInv, Registered, IInv, ActorInv, Busy, Free
      <4>2. QED BY <4>1, CancelledStays
    <3>2. QED BY <2>1, <3>1
  <2>2. ASSUME NEW f \in Execs, actor'[f].pc \in {"spawned", "start"}, f \in stopped'
        PROVE  task'[actor'[f].task].state = "cancelled"
    <3>1. CASE f \in stopped
      <4>1. actor[f].task \in Tasks /\ task[actor[f].task].state = "cancelled"
        BY <1>0, <1>1, <2>2, <3>1 DEF OrphanInv, Registered, IInv, ActorInv, Busy, Free
      <4>2. QED BY <1>1, <4>1, CancelledStays
    <3>2. QED BY <1>1, <2>2, <3>1
  <2>3. ASSUME NEW u \in Tasks, NEW f \in Execs, cancels'[u] = f
        PROVE  actor'[f].task = u /\ actor'[f].pc # "off"
    BY <1>1, <2>3 DEF OrphanInv, Registered
  <2>4. QED BY <2>1, <2>2, <2>3 DEF Registered
<1>5. ASSUME NEW u \in Tasks PROVE Attended(u)'
  <2>1. Attended(u)
    BY <1>1 DEF OrphanInv, AllAttended, InRecovery
  <2>2. ASSUME task'[u].state = "queued" PROVE \E a \in Actors : Starting(a, u)'
    <3>1. CASE Starting(c, u)'
      BY <1>0, <3>1
    <3>2. CASE task[u].state = "queued" /\ ~Starting(c, u)
      <4>1. PICK a \in Actors : Starting(a, u)
        BY <2>1, <3>2 DEF Attended
      <4>2. actor'[a] = actor[a]
        BY <3>2, <4>1
      <4>3. QED BY <2>2, <3>2, <4>1, <4>2 DEF Starting
    <3>3. QED BY <2>2, <3>1, <3>2
  <2>3. ASSUME task'[u].state = "running" PROVE \E f \in Execs : Working(f, u)'
    <3>1. task[u].state = "running"
      BY <2>3
    <3>2. PICK f \in Execs : Working(f, u)
      BY <2>1, <3>1 DEF Attended
    <3>3. QED BY <1>1, <2>3, <3>1, <3>2 DEF Working
  <2>4. QED BY <2>2, <2>3 DEF Attended
<1>6. QED BY <1>1, <1>2, <1>3, <1>4, <1>5 DEF OrphanInv, AllAttended

LEMMA OrphanRequest ==
  ASSUME Durable, IInv, OrphanInv, [Next]_vars, Sure', NEW c \in Callers, Request(c)
  PROVE  OrphanInv'
<1>0. c \in Actors /\ c \notin Execs /\ ~StoreFault /\ task \in [Tasks -> TaskRecord]
  BY CoreAssumption DEF Actors, StoreFault, Fault, OrphanInv, Sure, IInv, StoreInv
<1>1. PICK t \in Tasks :
        Accept(c, t) \/ ApproveLookup(c, t) \/ ResumeLookup(c, t) \/ CancelLookup(c, t)
  BY DEF Request
<1>2. Serving /\ actor[c].pc = "off" /\ UNCHANGED <<execVars, cancels, listed>>
  BY <1>1 DEF Accept, ApproveLookup, ResumeLookup, CancelLookup, Lookup, At
<1>3. \A u : ~Starting(c, u)
  BY <1>2 DEF Starting
<1> DEFINE Rows == /\ \A u \in Tasks : task'[u].state = "queued" =>
                        Starting(c, u)' \/ task[u].state = "queued"
                   /\ \A u \in Tasks : task'[u].state = "running" => task[u].state = "running"
           Moves == /\ \A b \in Actors \ {c} : actor'[b] = actor[b]
                    /\ actor'[c].pc = "off" => actor'[c].task = NoTask
                    /\ actor'[c].pc # "stop"
<1>4. Rows /\ Moves
  <2>1. CASE Accept(c, t)
    <3> DEFINE record == [Blank EXCEPT !.state = InitialState(t)]
               next == IF InitialState(t) = "queued" THEN "launch" ELSE "off"
    <3>1. record.state = InitialState(t)
      BY DEF Blank
    <3>2. InitialState(t) \in {"waiting_approval", "queued"}
      BY DEF InitialState
    <3>3. PutRecord(t, record) /\ Hold(c, next, IF next = "off" THEN NoTask ELSE t, Blank)
      BY <1>0, <2>1 DEF Accept, CommitTx
    <3> HIDE DEF record
    <3>4. task'[t] = record /\ \A u \in Tasks \ {t} : task'[u] = task[u]
      BY <1>0, <3>3 DEF PutRecord
    <3>5. /\ \A b \in Actors \ {c} : actor'[b] = actor[b]
          /\ actor'[c].pc = next /\ actor'[c].task = IF next = "off" THEN NoTask ELSE t
      BY <1>0, <3>3, HoldMoves
    <3>6. InitialState(t) = "queued" => Starting(c, t)'
      BY <3>5 DEF Starting
    <3>7. Rows
      BY <3>1, <3>2, <3>4, <3>6
    <3>8. QED BY <3>5, <3>7
  <2>2. CASE ~Accept(c, t)
    <3>1. UNCHANGED task /\ \E pc \in {"approve", "resume", "cancel"} : Hold(c, pc, t, task[t])
      BY <1>1, <2>2 DEF ApproveLookup, ResumeLookup, CancelLookup, Lookup, storeVars
    <3>2. Moves
      BY <1>0, <3>1, HoldMoves
    <3>3. QED BY <3>1, <3>2
  <2>3. QED BY <2>1, <2>2
<1>5. QED BY <1>2, <1>3, <1>4, OrphanCaller DEF execVars

LEMMA OrphanCallerStep ==
  ASSUME Durable, IInv, OrphanInv, [Next]_vars, Sure', NEW c \in Callers, CallerStep(c)
  PROVE  OrphanInv'
<1> DEFINE read == actor[c].rec
           t == actor[c].task
           Moves == /\ \A b \in Actors \ {c} : actor'[b] = actor[b]
                    /\ actor'[c].pc = "off" => actor'[c].task = NoTask
           Rows == /\ \A u \in Tasks : task'[u].state = "queued" =>
                        Starting(c, u)' \/ task[u].state = "queued"
                   /\ \A u \in Tasks : task'[u].state = "running" => task[u].state = "running"
                   /\ actor'[c].pc = "stop" => task'[actor'[c].task].state = "cancelled"
<1>0. /\ c \in Actors /\ c \notin Execs /\ read \in TaskRecord
      /\ actor[c].pc \in {"approve", "resume", "cancel", "stop"}
      /\ \A u : ~Starting(c, u)
  BY CoreAssumption DEF Actors, IInv, ActorInv, ActorState, CallerStep, ApproveWrite,
     ResumeWrite, CancelWrite, CancelStop, At, Starting
<1>1. Serving /\ t \in Tasks
  BY <1>0 DEF OrphanInv, NoneYet, IInv, ActorInv, Busy, Free
<1>2. ASSUME NEW record, NEW action, NEW hit, Write(c, record, action, <<>>, hit, "off", "off"),
             \/ record.state = "queued" /\ hit = "launch"
             \/ record.state = "cancelled" /\ hit = "stop",
             UNCHANGED <<execVars, cancels, listed>>
      PROVE  OrphanInv'
  <2>1. CASE /\ Goto(c, hit) /\ task'[t] = record
             /\ \A u \in Tasks \ {t} : task'[u] = task[u]
    <3>1. /\ \A b \in Actors \ {c} : actor'[b] = actor[b]
          /\ actor'[c].pc = hit /\ actor'[c].task = t
      BY <1>0, <1>2, <2>1, GotoMoves
    <3>2. Moves /\ Rows
      BY <1>1, <1>2, <2>1, <3>1 DEF Starting
    <3>3. QED BY <1>0, <1>1, <1>2, <3>2, OrphanCaller DEF execVars
  <2>2. CASE Goto(c, "off") /\ UNCHANGED task
    <3>1. Moves /\ Rows
      BY <1>0, <2>2, GotoMoves
    <3>2. QED BY <1>0, <1>1, <1>2, <3>1, OrphanCaller DEF execVars
  <2>3. actor[c].pc \notin Free
    BY <1>0 DEF Free
  <2>4. QED BY <1>0, <1>2, <2>1, <2>2, <2>3, SureWrite DEF OrphanInv
<1>3. CASE ApproveWrite(c) \/ ResumeWrite(c) \/ CancelWrite(c)
  <2>1. /\ UNCHANGED <<execVars, cancels, listed>>
        /\ \/ Write(c, [read EXCEPT !.state = "queued", !.approved = TRUE],
                    "approved", <<>>, "launch", "off", "off")
           \/ Write(c, [read EXCEPT !.state = "queued"], "resumed", <<>>, "launch", "off", "off")
           \/ Write(c, [read EXCEPT !.state = "cancelled"], "cancelled", <<>>, "stop", "off", "off")
    BY <1>3 DEF ApproveWrite, ResumeWrite, CancelWrite
  <2>2. /\ [read EXCEPT !.state = "queued", !.approved = TRUE].state = "queued"
        /\ [read EXCEPT !.state = "queued"].state = "queued"
        /\ [read EXCEPT !.state = "cancelled"].state = "cancelled"
    BY <1>0 DEF TaskRecord
  <2>3. QED BY <1>2, <2>1, <2>2
\* The execution it stops may not have begun its attempt: it is the task's own.
<1>4. CASE CancelStop(c)
  <2>1. /\ Goto(c, "off") /\ UNCHANGED <<task, listed>> /\ actor[c].pc = "stop"
        /\ stopped' = stopped \cup ({cancels[t]} \ {NoExec})
        /\ cancels' = [cancels EXCEPT ![t] = NoExec]
    BY <1>4 DEF CancelStop, storeVars, At
  <2>2. Moves /\ Rows
    BY <1>0, <2>1, GotoMoves
  <2>3. cancels \in [Tasks -> Execs \cup {NoExec}]
    BY DEF IInv, AttemptInv
  <2>4. ASSUME NEW u \in Tasks, NEW f \in Execs, cancels'[u] = f PROVE cancels[u] = f
    BY <2>1, <2>3, <2>4, CoreAssumption
  <2>5. ASSUME NEW f \in Execs, f \in stopped', f \notin stopped
        PROVE  actor[f].pc # "off" /\ task'[actor[f].task].state = "cancelled"
    <3>1. cancels[t] = f
      BY <2>1, <2>5
    <3>2. actor[f].task = t /\ actor[f].pc # "off"
      BY <1>1, <3>1 DEF OrphanInv, Registered
    <3>3. QED BY <2>1, <3>2 DEF OrphanInv, Registered
  <2>6. QED BY <1>0, <1>1, <2>1, <2>2, <2>4, <2>5, OrphanCaller
<1>5. QED BY <1>3, <1>4 DEF CallerStep

------------------------------------------------------------------------------
\* Recovery: whatever was live is listed, and is started before the gate serves.
LEMMA OrphanBoot ==
  ASSUME Durable, IInv, GrantInv, OrphanInv, [Next]_vars, Sure', BootStep
  PROVE  OrphanInv'
<1> DEFINE t == actor[Boot].task
           read == actor[Boot].rec
<1>0. /\ Boot \in Actors /\ Boot \notin Execs \cup Callers /\ read \in TaskRecord
      /\ Execs \subseteq Actors \ {Boot} /\ Callers \subseteq Actors \ {Boot}
      /\ listed \subseteq Entry /\ task \in [Tasks -> TaskRecord]
      /\ actor[Boot].pc \in {"list", "recover", "requeue"} /\ ~StoreFault
  BY CoreAssumption DEF Actors, IInv, ActorInv, ActorState, AttemptInv, StoreInv, BootStep,
     RecoverList, RecoverNext, RecoverWrite, RecoverDone, At, StoreFault, Fault, OrphanInv, Sure
<1>1. /\ UNCHANGED <<execVars, cancels>>
      /\ \/ /\ actor[Boot].pc = "list" /\ Goto(Boot, "recover") /\ UNCHANGED task
            /\ listed' = {[task |-> u, rec |-> task[u]] : u \in {v \in Tasks : Recoverable(v)}}
         \/ /\ actor[Boot].pc = "recover" /\ UNCHANGED task
            /\ \E entry \in listed : /\ listed' = listed \ {entry}
                                     /\ Hold(Boot, "requeue", entry.task, entry.rec)
         \/ /\ actor[Boot].pc = "recover" /\ listed = {} /\ Goto(Boot, "off")
            /\ UNCHANGED <<task, listed>>
         \/ /\ actor[Boot].pc = "requeue" /\ UNCHANGED listed
            /\ Write(Boot, [read EXCEPT !.state = "queued"],
                     "recovered", <<>>, "launch", "recover", "halt")
  BY DEF BootStep, RecoverList, RecoverNext, RecoverWrite, RecoverDone, At, storeVars
<1>2. /\ \A c \in Callers : actor[c].pc = "off"
      /\ ~Serving
  BY <1>0 DEF OrphanInv, NoneYet, Serving
\* What holds of every step of recovery.
<1>3. ASSUME \A b \in Actors \ {Boot} : actor'[b] = actor[b],
             actor'[Boot].pc \in {"recover", "requeue", "launch", "off"},
             actor'[Boot].pc = "off" => actor'[Boot].task = NoTask /\ listed' = {}
      PROVE  NoneYet' /\ Registered' /\ \A e \in Execs : actor'[e] = actor[e]
  <2>1. \A a \in Callers \cup Execs : actor'[a] = actor[a]
    BY <1>0, <1>3
  <2>2. NoneYet'
    BY <1>0, <1>1, <1>2, <1>3, <2>1 DEF OrphanInv, NoneYet, Serving, execVars
  <2>3. ASSUME NEW e \in Execs, actor'[e].pc \in {"spawned", "start"}, e \in stopped'
        PROVE  task'[actor'[e].task].state = "cancelled"
    <3>1. actor[e].task \in Tasks /\ task[actor[e].task].state = "cancelled"
      BY <1>0, <1>1, <2>1, <2>3 DEF OrphanInv, Registered, IInv, ActorInv, Busy, Free, execVars
    <3>2. QED BY <2>1, <3>1, CancelledStays
  <2>4. QED BY <1>1, <1>2, <2>1, <2>2, <2>3 DEF OrphanInv, Registered
<1>4. ASSUME NEW u \in Tasks, NEW record, \A e \in Execs : actor'[e] = actor[e],
             \A c \in Callers : actor'[c] = actor[c],
             Untouched(u, record), task'[u] = task[u]
      PROVE  Untouched(u, record)'
  BY <1>4 DEF Untouched, Quiet
<1>5. ASSUME NEW u \in Tasks, Attended(u), \A e \in Execs : actor'[e] = actor[e],
             \A c \in Callers : actor'[c] = actor[c], task'[u] = task[u]
      PROVE  Attended(u)'
  <2>1. ASSUME task'[u].state = "queued" PROVE \E a \in Actors : Starting(a, u)'
    <3>1. PICK a \in Actors : Starting(a, u)
      BY <1>5, <2>1 DEF Attended
    <3>2. a # Boot
      BY <1>0, <3>1 DEF Starting
    <3>3. actor'[a] = actor[a]
      BY <1>5, <3>2 DEF Actors
    <3>4. QED BY <1>5, <3>1, <3>3 DEF Starting
  <2>2. ASSUME task'[u].state = "running" PROVE \E e \in Execs : Working(e, u)'
    BY <1>5, <2>2 DEF Attended, Working
  <2>3. QED BY <2>1, <2>2 DEF Attended
<1> DEFINE Others == \A b \in Actors \ {Boot} : actor'[b] = actor[b]
<1>6. Others => (\A e \in Execs : actor'[e] = actor[e]) /\ (\A c \in Callers : actor'[c] = actor[c])
  BY <1>0
<1>7. CASE /\ actor[Boot].pc = "list" /\ Goto(Boot, "recover") /\ UNCHANGED task
           /\ listed' = {[task |-> u, rec |-> task[u]] : u \in {v \in Tasks : Recoverable(v)}}
  <2>1. Others /\ actor'[Boot].pc = "recover" /\ actor'[Boot].task = NoTask
    BY <1>0, <1>7, GotoMoves
  <2>2. ASSUME NEW u \in Tasks PROVE Untouched(u, task[u])'
    <3>1. Quiet(u)
      BY <1>0, <1>2, <1>7, StoreAssumption DEF OrphanInv, NoneYet, Quiet
    <3>2. QED BY <1>4, <1>6, <1>7, <2>1, <3>1 DEF Untouched
  <2>3. ListedQuiet'
    BY <1>7, <2>1, <2>2, StoreAssumption DEF ListedQuiet
  <2>4. ASSUME NEW u \in Tasks, ~Attended(u)' PROVE InRecovery(u)'
    <3>1. task[u].state \in {"queued", "running"}
      BY <1>7, <2>4 DEF Attended
    <3>2. Recoverable(u)
      BY <3>1 DEF Recoverable, GrantInv, Granted
    <3>3. [task |-> u, rec |-> task[u]] \in listed'
      BY <1>7, <3>2
    <3>4. QED BY <3>3 DEF InRecovery
  <2>5. QED BY <1>3, <2>1, <2>3, <2>4 DEF OrphanInv, AllAttended
<1>8. CASE actor[Boot].pc = "recover" /\ UNCHANGED task
  <2>1. ASSUME NEW entry \in listed, listed' = listed \ {entry},
               Hold(Boot, "requeue", entry.task, entry.rec)
        PROVE  OrphanInv'
    <3>1. /\ Others /\ actor'[Boot].pc = "requeue"
          /\ actor'[Boot].task = entry.task /\ actor'[Boot].rec = entry.rec
      BY <1>0, <2>1, HoldMoves
    <3>2. \A other \in listed : Untouched(other.task, other.rec)'
      BY <1>0, <1>4, <1>6, <1>8, <3>1 DEF OrphanInv, ListedQuiet, Entry
    <3>3. ListedQuiet'
      BY <2>1, <3>1, <3>2 DEF OrphanInv, ListedQuiet, Untouched
    <3>4. ASSUME NEW u \in Tasks PROVE Attended(u)' \/ InRecovery(u)'
      <4>1. CASE Attended(u)
        BY <1>5, <1>6, <1>8, <3>1, <4>1
      <4>2. CASE ~Attended(u)
        <5>1. PICK other \in listed : other.task = u
          BY <1>8, <4>2 DEF OrphanInv, AllAttended, InRecovery
        <5>2. QED BY <2>1, <3>1, <5>1 DEF InRecovery
      <4>3. QED BY <4>1, <4>2
    <3>5. QED BY <1>3, <3>1, <3>3, <3>4 DEF OrphanInv, AllAttended
  <2>2. ASSUME listed = {}, listed' = {}, Goto(Boot, "off") PROVE OrphanInv'
    <3>1. Others /\ actor'[Boot].pc = "off" /\ actor'[Boot].task = NoTask
      BY <1>0, <2>2, GotoMoves
    <3>2. \A u \in Tasks : Attended(u)
      BY <1>8, <2>2 DEF OrphanInv, AllAttended, InRecovery
    <3>3. \A u \in Tasks : Attended(u)'
      BY <1>5, <1>6, <1>8, <3>1, <3>2
    <3>4. ListedQuiet'
      BY <2>2, <3>1 DEF ListedQuiet
    <3>5. QED BY <1>3, <2>2, <3>1, <3>3, <3>4 DEF OrphanInv, AllAttended
  <2>3. QED BY <1>1, <1>8, <2>1, <2>2
\* Nobody touched the task since it was listed, so the compare succeeds.
<1>9. CASE actor[Boot].pc = "requeue"
  <2> DEFINE record == [read EXCEPT !.state = "queued"]
  <2>1. /\ Write(Boot, record, "recovered", <<>>, "launch", "recover", "halt")
        /\ UNCHANGED listed
    BY <1>1, <1>9
  <2>2. t \in Tasks /\ Matches(t, read.state) /\ Quiet(t) /\ actor[Boot].pc \notin Free
    BY <1>0, <1>9 DEF IInv, ActorInv, Busy, Free, OrphanInv, ListedQuiet, Untouched, Matches
  <2> HIDE DEF record
  <2>3. Goto(Boot, "launch") /\ \A u \in Tasks \ {t} : task'[u] = task[u]
    BY <1>0, <2>1, <2>2, SureWrite DEF OrphanInv
  <2>4. Others /\ actor'[Boot].pc = "launch" /\ actor'[Boot].task = t
    BY <1>0, <2>3, GotoMoves
  <2>5. \A entry \in listed : Untouched(entry.task, entry.rec)' /\ entry.task # t
    BY <1>0, <1>4, <1>6, <2>3, <2>4 DEF OrphanInv, ListedQuiet, Entry
  <2>6. ListedQuiet'
    BY <2>1, <2>4, <2>5 DEF OrphanInv, ListedQuiet, Untouched
  <2>7. ASSUME NEW u \in Tasks PROVE Attended(u)' \/ InRecovery(u)'
    <3>1. CASE u = t
      <4>1. task'[t] = record
        BY <1>0, <2>1, <2>2, SureWrite DEF OrphanInv
      <4>2. record.state = "queued"
        BY <1>0 DEF TaskRecord, record
      <4>3. Starting(Boot, u)'
        BY <2>4, <3>1 DEF Starting
      <4>4. QED BY <1>0, <3>1, <4>1, <4>2, <4>3 DEF Attended
    <3>2. CASE u # t /\ Attended(u)
      BY <1>5, <1>6, <2>3, <2>4, <3>2
    <3>3. CASE u # t /\ ~Attended(u)
      <4>1. \E entry \in listed : entry.task = u
        BY <1>9, <3>3 DEF OrphanInv, AllAttended, InRecovery
      <4>2. QED BY <2>1, <4>1 DEF InRecovery
    <3>4. QED BY <3>1, <3>2, <3>3
  <2>8. QED BY <1>3, <2>4, <2>6, <2>7 DEF OrphanInv, AllAttended
<1>10. QED BY <1>0, <1>1, <1>7, <1>8, <1>9

------------------------------------------------------------------------------
\* The execution that is started takes the place of its starter.
LEMMA OrphanLaunch ==
  ASSUME Durable, IInv, OrphanInv, Sure', NEW a \in Callers \cup {Boot}, StartExecution(a)
  PROVE  OrphanInv'
<1> DEFINE then == IF a = Boot THEN "recover" ELSE "off"
           old == IF then = "off" THEN Idle ELSE [Idle EXCEPT !.pc = then]
           t == actor[a].task
           young == [pc |-> "spawned", task |-> t, rec |-> Blank]
<1>1. /\ a \in Actors /\ a \notin Execs /\ actor[a].pc = "launch" /\ Execs \subseteq Actors
      /\ actor \in [Actors -> ActorState] /\ Boot \in Actors \ Execs /\ Boot \notin Callers
      /\ Callers \subseteq Actors \ Execs /\ listed \subseteq Entry
  BY CoreAssumption DEF Actors, StartExecution, At, IInv, ActorInv, AttemptInv
<1>2. t \in Tasks /\ cancels \in [Tasks -> Execs \cup {NoExec}]
  BY <1>1 DEF IInv, ActorInv, Busy, Free, AttemptInv
<1>3. PICK e \in Execs :
        /\ actor[e].pc = "off"
        /\ actor' = [actor EXCEPT ![a] = old, ![e] = young]
        /\ cancels' = [cancels EXCEPT ![t] = e]
        /\ UNCHANGED <<task, stopped, listed>>
  BY DEF StartExecution, Launch, storeVars, Register
<1>4. old.task = NoTask /\ old.pc = then
  BY DEF Idle
<1> HIDE DEF old
<1>5. /\ actor'[a] = old /\ actor'[e].pc = "spawned" /\ actor'[e].task = t
      /\ \A b \in Actors \ {a, e} : actor'[b] = actor[b]
  BY <1>1, <1>3
<1>6. ~Quiet(t) \/ a = Boot
  BY <1>1 DEF Quiet
<1>7. /\ a \in Callers => Serving /\ listed = {}
      /\ a = Boot => ~Serving
      /\ e \notin stopped
  BY <1>1, <1>3 DEF OrphanInv, NoneYet, Serving
<1>8. a = Boot \/ actor'[Boot] = actor[Boot]
  BY <1>1, <1>3, <1>5
<1>9. /\ a = Boot => actor'[Boot].pc = "recover" /\ actor'[Boot].task = NoTask
      /\ a # Boot => actor'[Boot].pc = "off" /\ actor[Boot].pc = "off"
  BY <1>4, <1>5, <1>7, <1>8 DEF Serving
<1>10. NoneYet'
  <2>1. ASSUME NEW b \in Actors, actor'[b].pc = "off" PROVE actor'[b].task = NoTask
    BY <1>4, <1>5, <2>1 DEF OrphanInv, NoneYet
  <2>2. ASSUME NEW f \in Execs, actor'[f].pc = "off" PROVE f \notin stopped'
    <3>1. f # e /\ f # a
      BY <1>1, <1>5, <2>2
    <3>2. actor'[f] = actor[f]
      BY <1>1, <1>5, <3>1
    <3>3. QED BY <1>3, <2>2, <3>2 DEF OrphanInv, NoneYet
  <2>3. ASSUME ~Serving', NEW c \in Callers PROVE actor'[c].pc = "off"
    <3>1. a = Boot
      BY <1>9, <2>3 DEF Serving
    <3>2. actor'[c] = actor[c]
      BY <1>1, <1>3, <1>5, <3>1
    <3>3. QED BY <1>7, <3>1, <3>2 DEF OrphanInv, NoneYet
  <2>4. Serving' => listed' = {}
    BY <1>3, <1>7, <1>9 DEF Serving
  <2>5. actor'[Boot].pc # "list"
    BY <1>9
  <2>6. QED BY <2>1, <2>2, <2>3, <2>4, <2>5 DEF NoneYet
<1>11. ListedQuiet'
  <2>1. CASE a # Boot
    BY <1>3, <1>7, <1>9, <2>1 DEF ListedQuiet
  <2>2. CASE a = Boot
    <3>1. ASSUME NEW entry \in listed PROVE Untouched(entry.task, entry.rec)' /\ entry.task # NoTask
      <4>1. entry.task \in Tasks /\ entry.task # t /\ Untouched(entry.task, entry.rec)
        BY <1>1, <2>2 DEF OrphanInv, ListedQuiet, Entry
      <4>2. ASSUME NEW b \in Callers \cup Execs, actor'[b].task = entry.task
            PROVE  actor'[b].pc = "done"
        <5>1. b # a /\ b # e
          BY <1>1, <1>5, <2>2, <4>1, <4>2
        <5>2. actor'[b] = actor[b]
          BY <1>1, <1>5, <5>1
        <5>3. QED BY <4>1, <4>2, <5>2 DEF Untouched, Quiet
      <4>3. QED BY <1>3, <4>1, <4>2, StoreAssumption DEF Untouched, Quiet
    <3>2. QED BY <1>3, <1>9, <2>2, <3>1 DEF OrphanInv, ListedQuiet
  <2>3. QED BY <2>1, <2>2
<1>12. Registered'
  <2>1. ASSUME NEW u \in Tasks, NEW f \in Execs, cancels'[u] = f
        PROVE  actor'[f].task = u /\ actor'[f].pc # "off"
    <3>1. CASE u = t
      BY <1>2, <1>3, <1>5, <2>1, <3>1
    <3>2. CASE u # t
      <4>1. cancels[u] = f
        BY <1>2, <1>3, <2>1, <3>2
      <4>2. actor[f].task = u /\ actor[f].pc # "off"
        BY <4>1 DEF OrphanInv, Registered
      <4>3. f # e /\ f # a
        BY <1>1, <1>3, <4>2
      <4>4. QED BY <1>1, <1>5, <4>2, <4>3
    <3>3. QED BY <3>1, <3>2
  <2>2. ASSUME NEW c \in Callers, actor'[c].pc = "stop"
        PROVE  task'[actor'[c].task].state = "cancelled"
    <3>1. c # a
      BY <1>4, <1>5, <2>2
    <3>2. actor'[c] = actor[c]
      BY <1>1, <1>3, <1>5, <3>1
    <3>3. QED BY <1>3, <2>2, <3>2 DEF OrphanInv, Registered
  <2>3. ASSUME NEW f \in Execs, actor'[f].pc \in {"spawned", "start"}, f \in stopped'
        PROVE  task'[actor'[f].task].state = "cancelled"
    <3>1. f # e /\ f # a
      BY <1>1, <1>3, <1>7, <2>3
    <3>2. actor'[f] = actor[f]
      BY <1>1, <1>5, <3>1
    <3>3. QED BY <1>3, <2>3, <3>2 DEF OrphanInv, Registered
  <2>4. QED BY <2>1, <2>2, <2>3 DEF Registered
<1>13. ASSUME NEW u \in Tasks PROVE Attended(u)' \/ InRecovery(u)'
  <2>1. InRecovery(u) => InRecovery(u)'
    BY <1>1, <1>3, <1>8 DEF InRecovery
  <2>2. ASSUME Attended(u) PROVE Attended(u)'
    <3>1. ASSUME task'[u].state = "queued" PROVE \E b \in Actors : Starting(b, u)'
      <4>1. PICK b \in Actors : Starting(b, u)
        BY <1>3, <2>2, <3>1 DEF Attended
      <4>2. CASE b = a
        <5>1. u = t
          BY <4>1, <4>2 DEF Starting
        <5>2. Starting(e, u)'
          BY <1>5, <5>1 DEF Starting
        <5>3. QED BY <1>1, <5>2
      <4>3. CASE b # a
        <5>1. actor'[b] = actor[b]
          BY <1>3, <1>5, <4>1, <4>3 DEF Starting
        <5>2. QED BY <1>3, <4>1, <5>1 DEF Starting
      <4>4. QED BY <4>2, <4>3
    <3>2. ASSUME task'[u].state = "running" PROVE \E f \in Execs : Working(f, u)'
      <4>1. PICK f \in Execs : Working(f, u)
        BY <1>3, <2>2, <3>2 DEF Attended
      <4>2. f # e /\ f # a
        BY <1>1, <1>3, <4>1 DEF Working, UnderContext
      <4>3. actor'[f] = actor[f]
        BY <1>1, <1>5, <4>2
      <4>4. QED BY <1>3, <4>1, <4>3 DEF Working
    <3>3. QED BY <3>1, <3>2 DEF Attended
  <2>3. actor[Boot].pc # "list"
    BY <1>1, <1>9
  <2>4. QED BY <2>1, <2>2, <2>3 DEF OrphanInv, AllAttended
<1>14. actor'[Boot].pc # "halt"
  BY <1>9
<1>15. QED BY <1>10, <1>11, <1>12, <1>13, <1>14 DEF OrphanInv, AllAttended

\* A crash leaves nobody at work, and recovery to begin.
LEMMA CrashMoves ==
  ASSUME IInv, Crash
  PROVE  /\ actor'[Boot].pc = "list" /\ actor'[Boot].task = NoTask
         /\ \A c \in Callers : actor'[c].pc = "off" /\ actor'[c].task = NoTask
         /\ \A e \in Execs :
              \/ actor[e].pc = "off" /\ actor'[e].pc = "off" /\ actor'[e].task = NoTask
              \/ actor[e].pc # "off" /\ actor'[e].pc = "done"
         /\ listed' = {} /\ cancels' = [t \in Tasks |-> NoExec]
         /\ stopped' = stopped \cup {e \in Execs : actor[e].pc \notin {"off", "done"}}
<1>1. /\ listed' = {} /\ cancels' = [t \in Tasks |-> NoExec]
      /\ stopped' = stopped \cup {e \in Execs : actor[e].pc \notin {"off", "done"}}
  BY DEF Crash
<1>2. ASSUME NEW e \in Execs
      PROVE  \/ actor[e].pc = "off" /\ actor'[e].pc = "off" /\ actor'[e].task = NoTask
             \/ actor[e].pc # "off" /\ actor'[e].pc = "done"
  <2>1. e \in Actors /\ e # Boot
    BY CoreAssumption DEF Actors
  <2>2. /\ actor[e].pc # "off" => actor'[e] = [actor[e] EXCEPT !.pc = "done", !.rec = Blank]
        /\ actor[e].pc = "off" => actor'[e] = Idle
    BY <2>1 DEF Crash
  <2>3. actor[e] \in ActorState
    BY <2>1 DEF IInv, ActorInv
  <2>4. CASE actor[e].pc # "off"
    BY <2>2, <2>3, <2>4 DEF ActorState
  <2>5. CASE actor[e].pc = "off"
    BY <2>2, <2>5 DEF Idle
  <2>6. QED BY <2>4, <2>5
<1>3. actor'[Boot].pc = "list" /\ actor'[Boot].task = NoTask
  <2>1. Boot \in Actors
    BY DEF Actors
  <2>2. QED BY <2>1 DEF Crash, Idle
<1>4. ASSUME NEW c \in Callers PROVE actor'[c].pc = "off" /\ actor'[c].task = NoTask
  <2>1. c \in Actors /\ c # Boot /\ c \notin Execs
    BY CoreAssumption DEF Actors
  <2>2. QED BY <2>1 DEF Crash, Idle
<1>5. QED BY <1>1, <1>2, <1>3, <1>4

LEMMA OrphanCrash ==
  ASSUME Durable, IInv, OrphanInv, Sure', Crash
  PROVE  OrphanInv'
<1>0. /\ Boot \in Actors /\ Boot \notin Execs /\ Boot \notin Callers
      /\ Callers \subseteq Actors /\ Execs \subseteq Actors /\ Callers \cap Execs = {}
      /\ NoExec \notin Execs
  BY CoreAssumption DEF Actors
<1>1. /\ listed' = {} /\ cancels' = [t \in Tasks |-> NoExec]
      /\ stopped' = stopped \cup {e \in Execs : actor[e].pc \notin {"off", "done"}}
  BY CrashMoves
<1>2. \A e \in Execs :
        \/ actor[e].pc = "off" /\ actor'[e].pc = "off" /\ actor'[e].task = NoTask
        \/ actor[e].pc # "off" /\ actor'[e].pc = "done"
  BY CrashMoves
<1>3. /\ actor'[Boot].pc = "list" /\ actor'[Boot].task = NoTask
      /\ \A c \in Callers : actor'[c].pc = "off" /\ actor'[c].task = NoTask
  BY CrashMoves
<1>4. NoneYet'
  BY <1>0, <1>1, <1>2, <1>3 DEF OrphanInv, NoneYet, Serving, Actors
<1>5. ListedQuiet'
  BY <1>1, <1>3 DEF ListedQuiet
<1>6. Registered'
  BY <1>0, <1>1, <1>2, <1>3 DEF Registered
<1>7. QED BY <1>3, <1>4, <1>5, <1>6 DEF OrphanInv, AllAttended

LEMMA OrphanNext ==
  ASSUME Durable
  PROVE  IInv /\ GrantInv /\ OrphanInv /\ [Next]_vars => OrphanInv'
<1> SUFFICES ASSUME IInv, GrantInv, OrphanInv, [Next]_vars PROVE OrphanInv'
  OBVIOUS
<1>0. Sure'
  BY SureNext DEF OrphanInv
<1>1. ASSUME UNCHANGED <<task, actor, cancels, listed>>, stopped \subseteq stopped',
             \A e \in Execs : e \in stopped' => e \in stopped \/ actor[e].pc \in UnderContext
      PROVE  OrphanInv'
  <2>1. NoneYet'
    BY <1>1 DEF OrphanInv, NoneYet, Serving, UnderContext
  <2>2. Registered'
    BY <1>1 DEF OrphanInv, Registered, UnderContext
  <2>3. ListedQuiet' /\ AllAttended' /\ actor'[Boot].pc # "halt"
    BY <1>1 DEF OrphanInv, ListedQuiet, AllAttended, Untouched, Quiet, Attended, InRecovery,
                Starting, Working
  <2>4. QED BY <1>0, <2>1, <2>2, <2>3 DEF OrphanInv
<1>2. CASE UNCHANGED vars
  BY <1>1, <1>2 DEF vars
<1>3. ASSUME NEW e \in Execs, Timeout(e) PROVE OrphanInv'
  BY <1>1, <1>3 DEF Timeout, storeVars
<1>4. ASSUME NEW e \in Execs, AgentStep(e) PROVE OrphanInv'
  BY <1>1, <1>4 DEF AgentStep, AgentRun, AgentEmit, AgentAbort, storeVars, execVars
<1>5. ASSUME NEW a \in Actors, FlushAudit(a) PROVE FALSE
  BY <1>5 DEF FlushAudit, IInv, StoreInv
<1>6. QED
  BY <1>0, <1>2, <1>3, <1>4, <1>5, OrphanExec, OrphanRequest, OrphanCallerStep, OrphanBoot,
     OrphanLaunch, OrphanCrash
  DEF Next

\* Durable build, while the store answers: a live task is never orphaned.  Whatever
\* executions, cancellations, resumes, crashes and recoveries raced before, a queued
\* task has a goroutine about to start it and a running one an execution that will
\* settle it (service.go:391-410, 508-606).
THEOREM LiveTasksAreAttended ==
  ASSUME Durable, MaxFaults = 0
  PROVE  Spec => []NoOrphan
<1>1. OrphanInv => NoOrphan
  <2> SUFFICES ASSUME OrphanInv, Serving, NEW t \in Tasks PROVE Attended(t)
    BY DEF NoOrphan, Attended
  <2>1. QED BY DEF OrphanInv, NoneYet, AllAttended, InRecovery, Serving
<1>2. Init => OrphanInv
  BY OrphanInitially
<1>3. QED BY <1>1, <1>2, OrphanNext, GrantInvariant, Invariance, PTL DEF Spec

==============================================================================
