---------------------------- MODULE TaskLifecycle ----------------------------
(***************************************************************************)
(* What GateCore, backed by PostgreSQL, promises of a task: an abstract    *)
(* state machine with no snapshots, no goroutines and no process to crash. *)
(* GateCore.tla is shown to implement it (GateCore!Lifecycle).             *)
(*                                                                         *)
(* The promise is weaker than the one a reader of the six state names      *)
(* would guess: a late error turns "final" into "failed", and a late       *)
(* success turns "failed" into "final".  Both are in the code              *)
(* (service.go:575-596 excludes only "cancelled"), so both are here.       *)
(***************************************************************************)
EXTENDS Naturals

CONSTANTS Tasks,          \* task ids
          NeedsApproval   \* the tasks submitted with require_approval

VARIABLES status,         \* status[t]: the task's state, "none" before it exists
          granted,        \* granted[t]: has an operator approved t?
          posted          \* posted[t]: final deliveries handed to the outbox

lifecycleVars == <<status, granted, posted>>

Live    == {"queued", "running"}
Settled == {"final", "failed", "cancelled"}

LifecycleInit ==
  /\ status = [t \in Tasks |-> "none"]
  /\ granted = [t \in Tasks |-> FALSE]
  /\ posted = [t \in Tasks |-> 0]

Move(t, from, to) ==
  /\ status[t] \in from
  /\ status' = [status EXCEPT ![t] = to]

Submit(t) ==
  /\ Move(t, {"none"}, IF t \in NeedsApproval THEN "waiting_approval" ELSE "queued")
  /\ UNCHANGED <<granted, posted>>

Approve(t) ==
  /\ Move(t, {"waiting_approval"}, "queued")
  /\ granted' = [granted EXCEPT ![t] = TRUE]
  /\ UNCHANGED posted

Cancel(t) ==
  /\ Move(t, {"waiting_approval"} \cup Live, "cancelled")
  /\ UNCHANGED <<granted, posted>>

Begin(t) ==
  /\ Move(t, {"queued"}, "running")
  /\ UNCHANGED <<granted, posted>>

\* An operator resumes a failed task; a restart requeues an interrupted one.
Requeue(t) ==
  /\ Move(t, {"failed"} \cup Live, "queued")
  /\ UNCHANGED <<granted, posted>>

Fail(t) ==
  /\ Move(t, Live \cup {"failed", "final"}, "failed")
  /\ UNCHANGED <<granted, posted>>

\* The agent's "final" event is recorded; the reply is not posted yet.
Report(t) ==
  /\ Move(t, Live, "final")
  /\ UNCHANGED <<granted, posted>>

\* The only step that posts a reply: it makes the task final in the same step.
Finish(t) ==
  /\ Move(t, Live \cup {"failed", "final"}, "final")
  /\ posted' = [posted EXCEPT ![t] = @ + 1]
  /\ UNCHANGED granted

LifecycleNext ==
  \E t \in Tasks :
    \/ Submit(t) \/ Approve(t) \/ Cancel(t) \/ Begin(t) \/ Requeue(t)
    \/ Fail(t) \/ Report(t) \/ Finish(t)

LifecycleSpec == LifecycleInit /\ [][LifecycleNext]_lifecycleVars

\* A live task is settled in the end: the liveness half of the promise.
Settle(t) == status[t] \in Live /\ (Fail(t) \/ Report(t) \/ Finish(t) \/ Cancel(t))

FairLifecycleSpec ==
  LifecycleSpec /\ \A t \in Tasks : WF_lifecycleVars(Settle(t))

==============================================================================
