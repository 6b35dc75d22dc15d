--------------------------- MODULE ChannelOutbound ---------------------------
(***************************************************************************)
(* The way out of ChannelCore: Repository.Send and SendMedia, the queues   *)
(* and the worker goroutine of one started channel, and Stop.              *)
(*                                                                         *)
(* A call of SendMessage, SendNotification or SendMedia is one element of  *)
(* Calls and the message it carries.  Each step of a caller or of the      *)
(* worker is what the code does between two releases of Repository.mu or   *)
(* two channel operations.  The platform behind the adapter is external:   *)
(* the adapter's call succeeds, or fails in a way that is retried or not.   *)
(***************************************************************************)
EXTENDS Integers, Sequences, FiniteSets

CONSTANTS
  Calls,       \* calls of Send and SendMedia, and the messages they carry
  NoCall,      \* the worker has no message in hand
  Key,         \* the idempotency key of each call
  NoKey,       \* no key was given
  Media,       \* the calls that are SendMedia
  Chunks,      \* into how many messages splitOutbound cuts each text
  QueueSize,   \* capacity of the text queue and of the media queue
  MaxRetries   \* Definition().MaxRetries

ASSUME CallsAssumption ==
  /\ NoCall \notin Calls
  /\ DOMAIN Key = Calls
  /\ \A c \in Calls : Key[c] \notin Calls \cup {NoCall}
  /\ Media \subseteq Calls
  /\ Chunks \in [Calls -> Nat \ {0}]
  /\ QueueSize \in Nat \ {0} /\ MaxRetries \in Nat

VARIABLES
  call,        \* where each call is
  receipt,     \* what each call returned
  deliveries,  \* Repository.deliveries: the state under a message id
  reserved,    \* Repository.idempotency: the keys that have an entry
  expired,     \* history: the keys whose entry grew older than 30 minutes
  registered,  \* Repository.workers has the channel's worker
  cancelled,   \* the runtime's context is cancelled
  text,        \* worker.text
  media,       \* worker.media
  worker,      \* the worker goroutine
  platform     \* history: the parts the platform acknowledged

callVars == <<call, receipt, reserved, expired>>
queueVars == <<text, media>>
stopVars == <<registered, cancelled>>
vars == <<callVars, queueVars, stopVars, deliveries, worker, platform>>
-----------------------------------------------------------------------------
(* The RPC handlers make the key the id of the message; without a key the  *)
(* repository makes up an id of its own.                                   *)
Keyed(c) == Key[c] # NoKey
Id(c) == IF Keyed(c) THEN Key[c] ELSE c
Ids == {Id(c) : c \in Calls}
Keys == {Key[c] : c \in Calls} \ {NoKey}

States == {"none", "queued", "sending", "acknowledged", "failed", "cancelled"}
Final == {"acknowledged", "failed", "cancelled"}
CallSteps == {"idle", "reserve", "find", "record", "enqueue", "forget", "unreserve", "done"}
Receipts == {"none", "queued", "duplicate", "refused"}
WorkerSteps == {"select", "mark", "wait", "send", "backoff", "exited"}

\* One part of a message as the platform sees it; part 0 is an unsplit text.
Part == [msg : Calls, part : Nat]

Idle == [pc |-> "select", msg |-> NoCall, part |-> 0, attempt |-> 0, drain |-> FALSE]

Init ==
  /\ call = [c \in Calls |-> "idle"]
  /\ receipt = [c \in Calls |-> "none"]
  /\ deliveries = [i \in Ids |-> "none"]
  /\ reserved = {} /\ expired = {}
  /\ registered = TRUE /\ cancelled = FALSE
  /\ text = <<>> /\ media = <<>>
  /\ worker = Idle
  /\ platform = {}
-----------------------------------------------------------------------------
(* Send and SendMedia.                                                     *)

Goto(c, step) == call' = [call EXCEPT ![c] = step]

Return(c, answer) ==
  /\ call' = [call EXCEPT ![c] = "done"]
  /\ receipt' = [receipt EXCEPT ![c] = answer]

\* An invalid message, an unknown or disabled channel, or GateCore's refusal.
Reject(c) ==
  /\ call[c] = "idle"
  /\ Return(c, "refused")
  /\ UNCHANGED <<reserved, expired, queueVars, stopVars, deliveries, worker, platform>>

\* SendMedia asks no authorizer and reserves no key.
Authorize(c) ==
  /\ call[c] = "idle"
  /\ Goto(c, IF Keyed(c) /\ c \notin Media THEN "reserve" ELSE "find")
  /\ UNCHANGED <<receipt, reserved, expired, queueVars, stopVars, deliveries, worker, platform>>

\* Mutant: an answered duplicate falls through and is recorded again.
ReserveThenRecord(c) ==
  /\ call[c] = "reserve"
  /\ Goto(c, IF Key[c] \in reserved THEN "record" ELSE "find")
  /\ reserved' = reserved \cup {Key[c]}
  /\ UNCHANGED <<receipt, expired, queueVars, stopVars, deliveries, worker, platform>>

\* Mutant: the earlier entry is not looked at.
ReserveAlways(c) ==
  /\ call[c] = "reserve"
  /\ Goto(c, "find")
  /\ reserved' = reserved \cup {Key[c]}
  /\ UNCHANGED <<receipt, expired, queueVars, stopVars, deliveries, worker, platform>>

\* The check of the key and its reservation are one critical section.
Reserve(c) ==
  /\ call[c] = "reserve"
  /\ IF Key[c] \in reserved
     THEN Return(c, "duplicate") /\ UNCHANGED reserved
     ELSE /\ Goto(c, "find")
          /\ reserved' = reserved \cup {Key[c]}
          /\ UNCHANGED receipt
  /\ UNCHANGED <<expired, queueVars, stopVars, deliveries, worker, platform>>

\* Mutant: the key is kept when the call fails.
FailKeepsKey(c) == Return(c, "refused")

\* A call that reserved a key gives it back before it fails.
Fail(c) ==
  IF Keyed(c) /\ c \notin Media
  THEN Goto(c, "unreserve") /\ UNCHANGED receipt
  ELSE Return(c, "refused")

\* The worker is read here and used in Enqueue: Stop may run in between.
FindWorker(c) ==
  /\ call[c] = "find"
  /\ IF registered THEN Goto(c, "record") /\ UNCHANGED receipt ELSE Fail(c)
  /\ UNCHANGED <<reserved, expired, queueVars, stopVars, deliveries, worker, platform>>

RecordQueued(c) ==
  /\ call[c] = "record"
  /\ deliveries' = [deliveries EXCEPT ![Id(c)] = "queued"]
  /\ Goto(c, "enqueue")
  /\ UNCHANGED <<receipt, reserved, expired, queueVars, stopVars, worker, platform>>

QueueOf(c) == IF c \in Media THEN media ELSE text

Enqueue(c) ==
  /\ call[c] = "enqueue"
  /\ Len(QueueOf(c)) < QueueSize
  /\ text' = IF c \in Media THEN text ELSE Append(text, c)
  /\ media' = IF c \in Media THEN Append(media, c) ELSE media
  /\ Return(c, "queued")
  /\ UNCHANGED <<reserved, expired, stopVars, deliveries, worker, platform>>

\* Mutant: the key is given back before the delivery is deleted.
QueueFullFreesFirst(c) ==
  /\ call[c] = "enqueue"
  /\ Len(QueueOf(c)) = QueueSize
  /\ reserved' = reserved \ {Key[c]}
  /\ Goto(c, "forget")
  /\ UNCHANGED <<receipt, expired, queueVars, stopVars, deliveries, worker, platform>>

QueueFull(c) ==
  /\ call[c] = "enqueue"
  /\ Len(QueueOf(c)) = QueueSize
  /\ Goto(c, "forget")
  /\ UNCHANGED <<receipt, reserved, expired, queueVars, stopVars, deliveries, worker, platform>>

\* deleteDelivery comes before the reservation is given back.
Forget(c) ==
  /\ call[c] = "forget"
  /\ deliveries' = [deliveries EXCEPT ![Id(c)] = "none"]
  /\ Fail(c)
  /\ UNCHANGED <<reserved, expired, queueVars, stopVars, worker, platform>>

Unreserve(c) ==
  /\ call[c] = "unreserve"
  /\ reserved' = reserved \ {Key[c]}
  /\ Return(c, "refused")
  /\ UNCHANGED <<expired, queueVars, stopVars, deliveries, worker, platform>>

\* Thirty minutes later the entry counts as absent, and the janitor drops it.
\* A call takes far less: an entry that old belongs to no call under way.
InCall(c) == call[c] \notin {"idle", "done"}

Expire(k) ==
  /\ k \in reserved
  /\ \A c \in Calls : Key[c] = k => ~InCall(c)
  /\ reserved' = reserved \ {k}
  /\ expired' = expired \cup {k}
  /\ UNCHANGED <<call, receipt, queueVars, stopVars, deliveries, worker, platform>>
-----------------------------------------------------------------------------
(* runWorker, sendWithRetry, sendMediaWithRetry and drainWorker.           *)

workerKeeps == <<callVars, stopVars>>

\* A text is cut into parts 1..Chunks, unless the worker is draining.
Splits(c, drain) == c \notin Media /\ Chunks[c] > 1 /\ ~drain

Take(c, drain) ==
  worker' = [pc |-> "mark", msg |-> c, part |-> IF Splits(c, drain) THEN 1 ELSE 0,
             attempt |-> 0, drain |-> drain]

TakeText ==
  /\ worker.pc = "select" /\ text # <<>>
  /\ Take(Head(text), worker.drain)
  /\ text' = Tail(text)
  /\ UNCHANGED <<workerKeeps, media, deliveries, platform>>

TakeMedia ==
  /\ worker.pc = "select" /\ media # <<>>
  /\ Take(Head(media), worker.drain)
  /\ media' = Tail(media)
  /\ UNCHANGED <<workerKeeps, text, deliveries, platform>>

\* worker.stop is closed or the context is done: empty the queues and leave.
StartDraining ==
  /\ worker.pc = "select" /\ ~worker.drain
  /\ cancelled
  /\ worker' = [worker EXCEPT !.drain = TRUE]
  /\ UNCHANGED <<workerKeeps, text, media, deliveries, platform>>

\* Mutant: the worker leaves what is queued.
ExitAtOnce ==
  /\ worker.pc = "select" /\ worker.drain
  /\ worker' = [worker EXCEPT !.pc = "exited"]
  /\ UNCHANGED <<workerKeeps, text, media, deliveries, platform>>

Exit ==
  /\ worker.pc = "select" /\ worker.drain
  /\ text = <<>> /\ media = <<>>
  /\ worker' = [worker EXCEPT !.pc = "exited"]
  /\ UNCHANGED <<workerKeeps, text, media, deliveries, platform>>

\* Mutant: the attempt is recorded, not the message's state.
RecordAttempt(state) == deliveries' = [deliveries EXCEPT ![Id(worker.msg)] = worker.pc]

Record(state) == deliveries' = [deliveries EXCEPT ![Id(worker.msg)] = state]

\* sendWithRetry starts: once for every part of a split text.
MarkSending ==
  /\ worker.pc = "mark"
  /\ Record("sending")
  /\ worker' = [worker EXCEPT !.pc = "wait", !.attempt = 0]
  /\ UNCHANGED <<workerKeeps, text, media, platform>>

\* The limiter hands out a token without a look at the context.
TokenTaken ==
  /\ worker.pc = "wait"
  /\ worker' = [worker EXCEPT !.pc = "send"]
  /\ UNCHANGED <<workerKeeps, text, media, deliveries, platform>>

Rest(w) == [w EXCEPT !.pc = "select", !.msg = NoCall, !.part = 0, !.attempt = 0]

\* Mutant: the parts that follow an error are sent all the same.
SettleEachPart(state) ==
  /\ Record(state)
  /\ worker' = IF worker.part \in 1 .. Chunks[worker.msg] - 1
               THEN [worker EXCEPT !.pc = "mark", !.part = @ + 1]
               ELSE Rest(worker)

\* The parts that follow an error are not sent.
Settle(state) ==
  /\ Record(state)
  /\ worker' = IF state = "acknowledged" /\ worker.part \in 1 .. Chunks[worker.msg] - 1
               THEN [worker EXCEPT !.pc = "mark", !.part = @ + 1]
               ELSE Rest(worker)

Acknowledged ==
  /\ worker.pc = "send"
  /\ platform' = platform \cup {[msg |-> worker.msg, part |-> worker.part]}
  /\ Settle("acknowledged")
  /\ UNCHANGED <<workerKeeps, text, media>>

\* Not retryable (the context's error is not), or the last attempt.
Failed ==
  /\ worker.pc = "send"
  /\ Settle("failed")
  /\ UNCHANGED <<workerKeeps, text, media, platform>>

Retryable ==
  /\ worker.pc = "send" /\ worker.attempt < MaxRetries
  /\ worker' = [worker EXCEPT !.pc = "backoff"]
  /\ UNCHANGED <<workerKeeps, text, media, deliveries, platform>>

BackedOff ==
  /\ worker.pc = "backoff"
  /\ worker' = [worker EXCEPT !.pc = "wait", !.attempt = @ + 1]
  /\ UNCHANGED <<workerKeeps, text, media, deliveries, platform>>

\* The context ends while the worker waits for a token or backs off.
Interrupted ==
  /\ worker.pc \in {"wait", "backoff"} /\ cancelled
  /\ Settle("cancelled")
  /\ UNCHANGED <<workerKeeps, text, media, platform>>
-----------------------------------------------------------------------------
(* The end of the runtime.                                                 *)

\* The context that Start was given ends; the worker stays registered.
ContextDone ==
  /\ ~cancelled
  /\ cancelled' = TRUE
  /\ UNCHANGED <<callVars, queueVars, registered, deliveries, worker, platform>>

\* Stop cancels, closes worker.stop and unregisters in one critical section.
Stop ==
  /\ registered
  /\ registered' = FALSE /\ cancelled' = TRUE
  /\ UNCHANGED <<callVars, queueVars, deliveries, worker, platform>>

SendStep(c) ==
  \/ Reject(c) \/ Authorize(c) \/ Reserve(c) \/ FindWorker(c)
  \/ RecordQueued(c) \/ Enqueue(c) \/ QueueFull(c) \/ Forget(c) \/ Unreserve(c)

WorkerStep ==
  \/ TakeText \/ TakeMedia \/ StartDraining \/ Exit \/ MarkSending
  \/ TokenTaken \/ Acknowledged \/ Failed \/ Retryable \/ BackedOff \/ Interrupted

Next ==
  \/ \E c \in Calls : SendStep(c)
  \/ \E k \in Keys : Expire(k)
  \/ WorkerStep \/ ContextDone \/ Stop

Spec == Init /\ [][Next]_vars

(* The worker is a goroutine that is never blocked for good: the limiter   *)
(* refills, timers fire, and an adapter's call ends with its HTTP timeout. *)
(* Nobody has to call Send, and nobody has to stop the runtime.            *)
FairSpec == Spec /\ WF_vars(WorkerStep)
-----------------------------------------------------------------------------
(* What must hold.                                                         *)

(* Every variable keeps its type; the queues keep their capacity           *)
(* (start.go: make(chan, queueSize)).                                      *)
TypeOK ==
  /\ call \in [Calls -> CallSteps]
  /\ receipt \in [Calls -> Receipts]
  /\ deliveries \in [Ids -> States]
  /\ reserved \subseteq Keys /\ expired \subseteq Keys
  /\ registered \in BOOLEAN /\ cancelled \in BOOLEAN
  /\ text \in Seq(Calls) /\ Len(text) <= QueueSize
  /\ media \in Seq(Calls) /\ Len(media) <= QueueSize
  /\ worker \in [pc : WorkerSteps, msg : Calls \cup {NoCall}, part : Nat,
                 attempt : Nat, drain : BOOLEAN]
  /\ (worker.msg = NoCall) <=> (worker.pc \in {"select", "exited"})
  /\ platform \subseteq Part

\* No other call has used the id: the texts of an unexpired key are one
\* message, but SendMedia does not look at the key.
Alone(c) ==
  \A d \in Calls \ {c} : Id(d) = Id(c) => {c, d} \cap Media = {} /\ Key[c] \notin expired

(* Two calls of Send with one idempotency key never both queue a message   *)
(* while the key's entry is younger than 30 minutes, whatever failed, was  *)
(* given back and was tried again in between.                              *)
OneQueuedPerKey ==
  \A c, d \in Calls \ Media :
     c # d /\ Keyed(c) /\ Key[c] = Key[d] /\ receipt[c] = "queued" /\ receipt[d] = "queued"
       => Key[c] \in expired

(* A failed Send leaves nothing behind that could answer for it: a key is  *)
(* reserved, and a delivery recorded, only for a call under way or a       *)
(* message that was queued, so the next call with the key is served.       *)
NoTrace ==
  /\ \A k \in reserved :
       \E c \in Calls \ Media : Key[c] = k /\ (InCall(c) \/ receipt[c] = "queued")
  /\ \A i \in Ids : deliveries[i] # "none" =>
       \E c \in Calls : Id(c) = i /\ (InCall(c) \/ receipt[c] = "queued")

(* GetDeliveryStatus knows every message a caller was told is queued: the  *)
(* clean-up of a refused call with the same id never deletes its status.   *)
AcceptedIsTracked ==
  \A c \in Calls : receipt[c] = "queued" /\ Alone(c) => deliveries[Id(c)] # "none"

Waiting(c) == c \in {text[i] : i \in 1 .. Len(text)} \cup {media[i] : i \in 1 .. Len(media)}
Handled(c) == receipt[c] = "queued" /\ ~Waiting(c) /\ worker.msg # c

\* The platform has the whole message, or every part of it.
Whole(c) ==
  \/ [msg |-> c, part |-> 0] \in platform
  \/ \A p \in 1 .. Chunks[c] : [msg |-> c, part |-> p] \in platform

(* What the worker has done with is settled, and "acknowledged" speaks for *)
(* the whole message: no part of a split text is missing on the platform.  *)
HandledIsSettled ==
  \A c \in Calls : Handled(c) /\ Alone(c) =>
     /\ deliveries[Id(c)] \in Final
     /\ deliveries[Id(c)] = "acknowledged" => Whole(c)

(* The state a message settled in is never changed again, neither by a     *)
(* late duplicate of the call nor by the worker or by Stop.                *)
SettledStays ==
  [][\A c \in Calls : Handled(c) /\ Alone(c) /\ Alone(c)' => deliveries'[Id(c)] = deliveries[Id(c)]]_vars

(* The worker empties the queues and takes its hands off every message,    *)
(* also when Stop cancels the context before they are drained, and then    *)
(* exits.  (A message queued later still, by a caller that had read the    *)
(* worker before, stays queued.)                                           *)
Drained ==
  /\ worker.pc # "exited" ~> (text = <<>> /\ media = <<>> /\ worker.msg = NoCall)
  /\ cancelled ~> (worker.pc = "exited")

(* The calls, the queues and the worker are a MessageDelivery: no caller,  *)
(* full queue, retry, expired key or end of the runtime makes the worker   *)
(* take a message out of turn, hand over a part after one that failed, or  *)
(* give a message a second outcome (Send, runWorker, sendWithRetry).       *)
Delivery == INSTANCE MessageDelivery WITH
  hand    <- [msg |-> worker.msg, part |-> worker.part],
  outcome <- [c \in Calls |-> IF Handled(c) /\ Alone(c) THEN deliveries[Id(c)] ELSE "none"]

DeliversAsPromised == Delivery!DeliverySpec
=============================================================================
