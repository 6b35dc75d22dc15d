----------------------------- MODULE ReplyRelay ------------------------------
(***************************************************************************)
(* How a task's progress and its answer reach the placeholder message that *)
(* the user sees.  GateCore's outbox relay publishes one row at a time     *)
(* through DeliveryPublisher and channelclient; ChannelCore serves each    *)
(* call with Repository.EditMessage, which checks the lifecycle of the     *)
(* message, calls the adapter and records the new lifecycle without        *)
(* holding the lock in between.  LoopCore's bridge edits the same message  *)
(* when it believes that GateCore refused the inbound message, and a       *)
(* client may stream into it.                                              *)
(*                                                                         *)
(* The relay itself (koutbox) and the platform are external.               *)
(***************************************************************************)
EXTENDS Integers, FiniteSets

CONSTANTS
  ProgressRows,  \* channelcore.delivery.progress rows of the task
  FinalRow,      \* its channelcore.delivery.final row
  FailNotice,    \* the bridge's edit with state "failed"
  Updates,       \* calls of UpdateStreamingMessage
  Finishes,      \* calls of FinishStreamingMessage
  NoEdit,
  Slots,         \* bound: edits that ChannelCore serves at one time
  NoSlot,
  MaxAttempts    \* RuntimeConfig.MaxAttempts of the outbox

Rows == ProgressRows \cup {FinalRow}
Streams == Updates \cup Finishes
Edits == Rows \cup Streams \cup {FailNotice}

ASSUME RelayAssumption ==
  /\ FinalRow \notin ProgressRows /\ FailNotice \notin Rows
  /\ Streams \cap (Rows \cup {FailNotice}) = {} /\ NoEdit \notin Edits
  /\ Updates \cap Finishes = {}
  /\ NoSlot \notin Slots
  /\ MaxAttempts \in Nat \ {0}

VARIABLES
  row,        \* the outbox: where each row is
  tries,      \* and how often its publication failed
  relay,      \* the row the relay publishes, and the slot that serves it
  bridge,     \* where LoopCore's bridge is with the inbound message
  accepted,   \* GateCore has the task
  slot,       \* ChannelCore: the edits being served
  lifecycle,  \* Repository.lifecycle of the message
  shown,      \* the platform: the edit whose content the user sees
  overlapped, \* history: two edits were past their checks at one time
  forgotten   \* history: ChannelCore lost the lifecycle

outboxVars == <<row, tries, relay>>
channelVars == <<slot, lifecycle, shown, overlapped, forgotten>>
relayVars == <<outboxVars, bridge, accepted, channelVars>>
-----------------------------------------------------------------------------
\* The request's state field; a finished stream is recorded as "final".
StateOf(e) ==
  CASE e \in {FinalRow} \cup Finishes -> "final"
    [] e = FailNotice -> "failed"
    [] OTHER -> "progress"

Verdicts == {"final", "failed"}
SlotSteps == {"free", "check", "apply", "record", "ok", "error"}
RowStates == {"none", "pending", "leased", "published", "dead"}

FreeSlot == [pc |-> "free", edit |-> NoEdit]
NoRow == [row |-> NoEdit, slot |-> NoSlot]

RelayInit ==
  /\ row = [r \in Rows |-> "none"] /\ tries = [r \in Rows |-> 0]
  /\ relay = NoRow
  /\ bridge = "ingest" /\ accepted = FALSE
  /\ slot = [s \in Slots |-> FreeSlot]
  /\ lifecycle = "none" /\ shown = NoEdit
  /\ overlapped = FALSE /\ forgotten = FALSE
-----------------------------------------------------------------------------
(* ChannelCore: EditMessage, UpdateStreamingMessage and                    *)
(* FinishStreamingMessage.                                                 *)

Call(s, e) ==
  /\ slot[s].pc = "free"
  /\ slot' = [slot EXCEPT ![s] = [pc |-> "check", edit |-> e]]

Step(s, pc) == slot' = [slot EXCEPT ![s].pc = pc]

\* The answer waits for the relay; any other caller ignores it, or is gone.
Answered(s, answer) ==
  IF relay.slot = s THEN [slot[s] EXCEPT !.pc = answer] ELSE FreeSlot

Answer(s, answer) == slot' = [slot EXCEPT ![s] = Answered(s, answer)]

\* Mutant: only a finished message is protected.
RefusedByFinalOnly(e) == lifecycle = "final" /\ StateOf(e) # lifecycle

\* An edit may repeat the recorded verdict, a stream may not.
Refused(e) ==
  \/ lifecycle # "none" /\ StateOf(e) # lifecycle
  \/ lifecycle # "none" /\ e \in Streams

PastCheck(s) == slot[s].pc \in {"apply", "record"}

\* Mutant: an edit that may not be made waits instead of failing.
CheckLifecycleWaits(s) ==
  /\ slot[s].pc = "check" /\ ~Refused(slot[s].edit)
  /\ Step(s, "apply")
  /\ overlapped' = (overlapped \/ \E o \in Slots \ {s} : PastCheck(o))
  /\ UNCHANGED <<lifecycle, shown, forgotten, outboxVars, bridge, accepted>>

CheckLifecycle(s) ==
  /\ slot[s].pc = "check"
  /\ IF Refused(slot[s].edit)
     THEN Answer(s, "error") /\ UNCHANGED overlapped
     ELSE /\ Step(s, "apply")
          /\ overlapped' = (overlapped \/ \E o \in Slots \ {s} : PastCheck(o))
  /\ UNCHANGED <<lifecycle, shown, forgotten, outboxVars, bridge, accepted>>

\* Unknown channel, no editor, a refused or an unanswered platform call: the
\* platform may have taken the edit although the adapter reports an error.
ApplyFails(s) ==
  /\ slot[s].pc = "apply"
  /\ Answer(s, "error")
  /\ shown' \in {shown, slot[s].edit}
  /\ UNCHANGED <<lifecycle, overlapped, forgotten, outboxVars, bridge, accepted>>

\* Mutant: the state of a progress edit is recorded as well.
ApplyRecordsAll(s) ==
  /\ slot[s].pc = "apply"
  /\ shown' = slot[s].edit
  /\ Step(s, "record")
  /\ UNCHANGED <<lifecycle, overlapped, forgotten, outboxVars, bridge, accepted>>

Apply(s) ==
  /\ slot[s].pc = "apply"
  /\ shown' = slot[s].edit
  /\ IF StateOf(slot[s].edit) \in Verdicts THEN Step(s, "record") ELSE Answer(s, "ok")
  /\ UNCHANGED <<lifecycle, overlapped, forgotten, outboxVars, bridge, accepted>>

\* Mutant: the verdict is not recorded.
RecordNothing(s) ==
  /\ slot[s].pc = "record"
  /\ Answer(s, "ok")
  /\ UNCHANGED <<lifecycle, shown, overlapped, forgotten, outboxVars, bridge, accepted>>

RecordLifecycle(s) ==
  /\ slot[s].pc = "record"
  /\ lifecycle' = StateOf(slot[s].edit)
  /\ Answer(s, "ok")
  /\ UNCHANGED <<shown, overlapped, forgotten, outboxVars, bridge, accepted>>

\* The janitor drops an entry after 30 minutes; no edit takes that long.
ForgetLifecycle ==
  /\ lifecycle # "none" /\ \A s \in Slots : ~PastCheck(s)
  /\ lifecycle' = "none" /\ forgotten' = TRUE
  /\ UNCHANGED <<slot, shown, overlapped, outboxVars, bridge, accepted>>

\* The repository is in memory, and the calls it serves break off.
ChannelRestart ==
  /\ slot' = [s \in Slots |->
       IF slot[s].pc = "free" THEN FreeSlot ELSE Answered(s, "error")]
  /\ lifecycle' = "none" /\ forgotten' = TRUE
  /\ UNCHANGED <<shown, overlapped, outboxVars, bridge, accepted>>

Stream(s, e) ==
  /\ e \in Streams
  /\ Call(s, e)
  /\ UNCHANGED <<lifecycle, shown, overlapped, forgotten, outboxVars, bridge, accepted>>
-----------------------------------------------------------------------------
(* GateCore: the rows and the relay.                                       *)

\* Progress is refused once the task is settled, in the same transaction.
EnqueueRow(r) ==
  /\ accepted /\ row[r] = "none"
  /\ r \in ProgressRows => row[FinalRow] = "none"
  /\ row' = [row EXCEPT ![r] = "pending"]
  /\ UNCHANGED <<tries, relay, bridge, accepted, channelVars>>

\* Any due row may be next: a row that failed waits for its backoff.
PublishRow(r, s) ==
  /\ relay = NoRow /\ row[r] = "pending"
  /\ Call(s, r)
  /\ relay' = [row |-> r, slot |-> s]
  /\ row' = [row EXCEPT ![r] = "leased"]
  /\ UNCHANGED <<tries, bridge, accepted, lifecycle, shown, overlapped, forgotten>>

Published ==
  /\ relay # NoRow /\ slot[relay.slot].pc = "ok"
  /\ row' = [row EXCEPT ![relay.row] = "published"]
  /\ slot' = [slot EXCEPT ![relay.slot] = FreeSlot]
  /\ relay' = NoRow
  /\ UNCHANGED <<tries, bridge, accepted, lifecycle, shown, overlapped, forgotten>>

\* The row is due again after its backoff, MaxAttempts times.
PutBack ==
  /\ tries' = [tries EXCEPT ![relay.row] = @ + 1]
  /\ row' = [row EXCEPT ![relay.row] =
       IF tries[relay.row] + 1 = MaxAttempts THEN "dead" ELSE "pending"]
  /\ relay' = NoRow

PublishFailed ==
  /\ relay # NoRow /\ slot[relay.slot].pc = "error"
  /\ PutBack
  /\ slot' = [slot EXCEPT ![relay.slot] = FreeSlot]
  /\ UNCHANGED <<bridge, accepted, lifecycle, shown, overlapped, forgotten>>

\* PublishTimeout, or the lease of a relay that died ran out: ChannelCore
\* goes on with the call that nobody waits for any more.
PublishTimeout ==
  /\ relay # NoRow
  /\ PutBack
  /\ slot' = [slot EXCEPT ![relay.slot] = IF @.pc \in {"ok", "error"} THEN FreeSlot ELSE @]
  /\ UNCHANGED <<bridge, accepted, lifecycle, shown, overlapped, forgotten>>
-----------------------------------------------------------------------------
(* LoopCore's bridge.                                                      *)

GateAccepts ==
  /\ bridge = "ingest" /\ ~accepted
  /\ accepted' = TRUE
  /\ UNCHANGED <<outboxVars, bridge, channelVars>>

\* GateCore refused, or its answer got lost after it accepted.
IngestFails ==
  /\ bridge = "ingest"
  /\ bridge' = "failing"
  /\ UNCHANGED <<outboxVars, accepted, channelVars>>

Ingested ==
  /\ bridge = "ingest" /\ accepted
  /\ bridge' = "start"
  /\ UNCHANGED <<outboxVars, accepted, channelVars>>

StartRunAnswered ==
  /\ bridge = "start"
  /\ bridge' \in {"failing", "done"}
  /\ UNCHANGED <<outboxVars, accepted, channelVars>>

FailInbound(s) ==
  /\ bridge = "failing"
  /\ Call(s, FailNotice)
  /\ bridge' = "done"
  /\ UNCHANGED <<outboxVars, accepted, lifecycle, shown, overlapped, forgotten>>

ServeStep(s) ==
  \/ CheckLifecycle(s) \/ ApplyFails(s) \/ Apply(s) \/ RecordLifecycle(s)

RelayStep ==
  \/ \E r \in Rows, s \in Slots : PublishRow(r, s)
  \/ Published \/ PublishFailed

BridgeStep ==
  \/ GateAccepts \/ IngestFails \/ Ingested \/ StartRunAnswered
  \/ \E s \in Slots : FailInbound(s)

RelayNext ==
  \/ \E s \in Slots : ServeStep(s)
  \/ \E s \in Slots, e \in Streams : Stream(s, e)
  \/ \E r \in Rows : EnqueueRow(r)
  \/ RelayStep \/ PublishTimeout \/ BridgeStep
  \/ ForgetLifecycle \/ ChannelRestart

RelaySpec == RelayInit /\ [][RelayNext]_relayVars
-----------------------------------------------------------------------------
(* What must hold.                                                         *)

(* Every variable keeps its type; the relay holds the leased row, and the  *)
(* slot it waits for serves that row.                                      *)
RelayTypeOK ==
  /\ row \in [Rows -> RowStates] /\ tries \in [Rows -> 0 .. MaxAttempts]
  /\ relay \in [row : Rows, slot : Slots] \cup {NoRow}
  /\ bridge \in {"ingest", "start", "failing", "done"} /\ accepted \in BOOLEAN
  /\ slot \in [Slots -> [pc : SlotSteps, edit : Edits \cup {NoEdit}]]
  /\ lifecycle \in Verdicts \cup {"none"}
  /\ shown \in Edits \cup {NoEdit}
  /\ overlapped \in BOOLEAN /\ forgotten \in BOOLEAN
  /\ \A s \in Slots : slot[s].pc = "free" <=> slot[s].edit = NoEdit
  /\ \A r \in Rows : row[r] = "leased" <=> relay.row = r
  /\ relay # NoRow => slot[relay.slot].edit = relay.row

(* When the outbox counts the answer as published, a final text is what    *)
(* the user sees: no progress row that is retried later, no notice of the  *)
(* bridge and no stream replaces it or stands in its place, unless two     *)
(* edits were under way at one time or ChannelCore forgot the message.     *)
FinalShown ==
  row[FinalRow] = "published" /\ ~overlapped /\ ~forgotten
    => lifecycle = "final" /\ StateOf(shown) = "final"

(* A recorded verdict is what the user goes on seeing: the answer is never *)
(* replaced by the failure notice nor the notice by the answer, except by  *)
(* an edit that was already past its check.                                *)
VerdictStays ==
  [][lifecycle # "none" /\ StateOf(shown) = lifecycle /\ ~overlapped
       => StateOf(shown') = lifecycle]_relayVars

(* Every row the task enqueues is published or given up in the end, also   *)
(* when its edit is refused for good because the bridge marked the message *)
(* as failed.  (Each row is enqueued once, so at last none is live.)       *)
RowsSettle == []<>(\A r \in Rows : row[r] \notin {"pending", "leased"})
=============================================================================
