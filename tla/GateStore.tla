------------------------------ MODULE GateStore ------------------------------
(***************************************************************************)
(* GateCore's stores: the task table, its audit trail and the delivery     *)
(* outbox, in the two builds the bootstrap chooses between                 *)
(* (bootstrap/gatecore/run.go:57-91):                                      *)
(*                                                                         *)
(*   Durable = TRUE   PostgreSQL: a state change, its audit event and the  *)
(*                    delivery it causes are one transaction;              *)
(*   Durable = FALSE  the in-memory repository: a compare-and-set on the   *)
(*                    state, an unconditional Put, a separate audit store, *)
(*                    and direct calls to ChannelCore for deliveries.      *)
(*                                                                         *)
(* A record keeps the fields the properties tell apart.  Error and result  *)
(* texts, the progress snapshot and the routing fields are left out;       *)
(* LastEventID travels with LastSequence and adds nothing to it.           *)
(***************************************************************************)
EXTENDS Naturals, Sequences, FiniteSets

CONSTANTS
  Tasks,          \* task ids
  NoTask,         \* no task id
  NeedsApproval,  \* SUBSET Tasks: submitted with require_approval
  MaxAttempts,    \* [Tasks -> Nat]: max_attempts of the request, 0 is no limit
  HasDeadline,    \* SUBSET Tasks: submitted with max_wall_time_ms > 0
  Durable         \* BOOLEAN: which build

ASSUME StoreAssumption ==
  /\ NoTask \notin Tasks
  /\ NeedsApproval \subseteq Tasks
  /\ HasDeadline \subseteq Tasks
  /\ MaxAttempts \in [Tasks -> Nat]
  /\ Durable \in BOOLEAN

VARIABLES
  task,    \* task[t]: the stored TaskRecord, Blank while there is no row
  audit,   \* audit[t]: the audit events of t, oldest first
  outbox   \* outbox[t]: deliveries enqueued (durable) or sent (memory)

storeVars == <<task, audit, outbox>>

Terminal == {"final", "failed", "cancelled"}
States   == {"none", "waiting_approval", "queued", "running"} \cup Terminal
Actions  == {"none", "created", "approved", "resumed", "cancelled", "recovered",
             "started", "failed", "finished", "agent_running", "agent_progress",
             "agent_final", "agent_failed"}

TaskRecord == [state : States, attempt : Nat, lastSequence : Nat, approved : BOOLEAN]
AuditEvent == [task : Tasks \cup {NoTask}, action : Actions, from : States, to : States]

Blank   == [state |-> "none", attempt |-> 0, lastSequence |-> 0, approved |-> FALSE]
NoEvent == [task |-> NoTask, action |-> "none", from |-> "none", to |-> "none"]

StoreInit ==
  /\ task = [t \in Tasks |-> Blank]
  /\ audit = [t \in Tasks |-> <<>>]
  /\ outbox = [t \in Tasks |-> <<>>]

\* The compare of the compare-and-set: on the state only, no version.
MatchesAnyRow(t, expected) == task[t].state # "none"   \* mutant: no state check
Matches(t, expected) == task[t].state = expected

\* The swap: the whole record read earlier is written back.
PutRecord(t, record) == task' = [task EXCEPT ![t] = record]

AppendAudit(event) == audit' = [audit EXCEPT ![event.task] = Append(@, event)]

Enqueue(t, mail) == outbox' = [outbox EXCEPT ![t] = @ \o mail]

\* Mutant: the delivery is left out of the transaction.
CommitTxWithoutMail(record, event, mail) ==
  /\ PutRecord(event.task, record)
  /\ AppendAudit(event)
  /\ UNCHANGED outbox

\* One PostgreSQL transaction: row, audit event and deliveries together.
CommitTx(record, event, mail) ==
  /\ PutRecord(event.task, record)
  /\ AppendAudit(event)
  /\ Enqueue(event.task, mail)

Count(seq, P(_)) == Cardinality({i \in 1..Len(seq) : P(seq[i])})

==============================================================================
