--------------------------- MODULE OutboundProofs ---------------------------
(***************************************************************************)
(* Proofs about ChannelOutbound, for any calls, keys, queue size and       *)
(* number of parts.  OutboundInv is the inductive invariant: which call    *)
(* has a key in its hands, which calls a recorded delivery stands for, and *)
(* what the worker has brought to the platform.  With LinesOnce it shows   *)
(* that ChannelOutbound implements MessageDelivery.                        *)
(***************************************************************************)
EXTENDS ChannelOutbound, TLAPS

\* Between the check of its key and its return a call has the key in hand.
Holding == {"find", "record", "enqueue", "forget", "unreserve"}

Texts == {c \in Calls : c \notin Media /\ Keyed(c)}
Holds(c) == c \in Texts /\ call[c] \in Holding
Queued(c) == receipt[c] = "queued"

\* A call returns at its end, and only a text with a key deals with the key.
CallInv ==
  \A c \in Calls :
    /\ (call[c] = "done") <=> (receipt[c] # "none")
    /\ call[c] \in {"reserve", "unreserve"} => c \in Texts

\* A key in hand is reserved, and one that queued a message is or was.
HeldIsReserved ==
  \A c \in Texts :
    /\ Holds(c) => Key[c] \in reserved
    /\ Queued(c) => Key[c] \in reserved \cup expired

\* Whoever has a key in hand is alone with it, and what an earlier call
\* queued under the key has an entry that expired.
HolderIsAlone ==
  \A c, d \in Texts : c # d /\ Key[c] = Key[d] /\ Holds(c) =>
     /\ ~Holds(d)
     /\ Queued(d) => Key[c] \in expired

QueuedIsAlone ==
  \A c, d \in Texts : c # d /\ Key[c] = Key[d] /\ Queued(c) /\ Queued(d)
                         => Key[c] \in expired

ReservedForOne ==
  \A k \in reserved : \E c \in Texts : Key[c] = k /\ (Holds(c) \/ Queued(c))

KeyInv == HeldIsReserved /\ HolderIsAlone /\ QueuedIsAlone /\ ReservedForOne

\* The calls whose delivery is in the map.
Tracked(c) == call[c] \in {"enqueue", "forget"} \/ Queued(c)

TrackedForOne == \A i \in Ids : deliveries[i] # "none" => \E c \in Calls : Id(c) = i /\ Tracked(c)
TrackedIsThere == \A c \in Calls : Tracked(c) /\ Alone(c) => deliveries[Id(c)] # "none"

\* What the worker has in hand was queued, and the parts before the one in
\* hand are with the platform.
InHandIsQueued == \A c \in Calls : Waiting(c) \/ worker.msg = c => Queued(c)
PartsBefore ==
  worker.msg # NoCall =>
    /\ worker.part <= Chunks[worker.msg]
    /\ \A p \in 1 .. worker.part - 1 : [msg |-> worker.msg, part |-> p] \in platform

OutboundInv ==
  /\ TypeOK /\ CallInv /\ KeyInv
  /\ TrackedForOne /\ TrackedIsThere
  /\ InHandIsQueued /\ PartsBefore
  /\ HandledIsSettled
-----------------------------------------------------------------------------
USE CallsAssumption

LEMMA IdType == ASSUME NEW c \in Calls PROVE Id(c) \in Ids
  BY DEF Ids

\* Two calls with one id were given one key.
LEMMA SameId ==
  ASSUME NEW c \in Calls, NEW d \in Calls, c # d, Id(c) = Id(d)
  PROVE  Keyed(c) /\ Keyed(d) /\ Key[c] = Key[d] /\ Id(c) = Key[c]
  BY DEF Id, Keyed

ItemsOf(s) == {s[i] : i \in 1 .. Len(s)}

LEMMA ItemsAppended ==
  ASSUME NEW s \in Seq(Calls), NEW e \in Calls
  PROVE  ItemsOf(Append(s, e)) = ItemsOf(s) \cup {e}
<1>1. Len(Append(s, e)) = Len(s) + 1
  OBVIOUS
<1>2. \A i \in 1 .. Len(s) : Append(s, e)[i] = s[i] /\ i \in 1 .. Len(s) + 1
  OBVIOUS
<1>3. Append(s, e)[Len(s) + 1] = e /\ Len(s) + 1 \in 1 .. Len(s) + 1
  OBVIOUS
<1>4. \A i \in 1 .. Len(s) + 1 : i \in 1 .. Len(s) \/ i = Len(s) + 1
  OBVIOUS
<1> QED BY <1>1, <1>2, <1>3, <1>4, Zenon DEF ItemsOf

LEMMA ItemsTaken ==
  ASSUME NEW s \in Seq(Calls), s # <<>>
  PROVE  /\ Head(s) \in Calls
         /\ Tail(s) \in Seq(Calls)
         /\ Len(Tail(s)) = Len(s) - 1
         /\ ItemsOf(s) = ItemsOf(Tail(s)) \cup {Head(s)}
<1>1. Head(s) \in Calls /\ Tail(s) \in Seq(Calls) /\ Len(Tail(s)) = Len(s) - 1 /\ Head(s) = s[1]
  OBVIOUS
<1>2. Len(s) \in Nat /\ 1 \in 1 .. Len(s)
  OBVIOUS
<1>3. \A i \in 1 .. Len(s) - 1 : Tail(s)[i] = s[i + 1] /\ i + 1 \in 1 .. Len(s)
  OBVIOUS
<1>4. \A i \in 1 .. Len(s) : i = 1 \/ (i - 1 \in 1 .. Len(s) - 1 /\ s[i] = Tail(s)[i - 1])
  OBVIOUS
<1> DEFINE R == {s[i] : i \in 1 .. Len(s)}
           T == {Tail(s)[i] : i \in 1 .. Len(Tail(s))}
<1>5. R \subseteq T \cup {Head(s)}
  <2> SUFFICES ASSUME NEW i \in 1 .. Len(s) PROVE s[i] \in T \cup {Head(s)}
    BY Zenon
  <2>1. CASE i = 1
    BY <1>1, <2>1
  <2>2. CASE i # 1
    <3>1. i - 1 \in 1 .. Len(s) - 1 /\ s[i] = Tail(s)[i - 1]
      BY <1>4, <2>2
    <3> QED BY <1>1, <3>1, Zenon
  <2> QED BY <2>1, <2>2
<1>6. T \subseteq R
  BY <1>1, <1>3
<1>7. Head(s) \in R
  BY <1>1, <1>2, Zenon
<1> QED BY <1>1, <1>5, <1>6, <1>7, Zenon DEF ItemsOf
-----------------------------------------------------------------------------
WorkerType == [pc : WorkerSteps, msg : Calls \cup {NoCall}, part : Nat,
               attempt : Nat, drain : BOOLEAN]
WorkerOK == /\ worker \in WorkerType
            /\ (worker.msg = NoCall) <=> (worker.pc \in {"select", "exited"})

LEMMA TypeInit == Init => TypeOK
<1> SUFFICES ASSUME Init PROVE TypeOK
  OBVIOUS
<1>1. <<>> \in Seq(Calls) /\ Len(<<>>) = 0
  OBVIOUS
<1>2. text \in Seq(Calls) /\ Len(text) <= QueueSize /\ media \in Seq(Calls) /\ Len(media) <= QueueSize
  BY <1>1 DEF Init
<1>3. worker \in WorkerType /\ worker.msg = NoCall /\ worker.pc = "select"
  BY DEF Init, Idle, WorkerType, WorkerSteps
<1>4. call \in [Calls -> CallSteps] /\ receipt \in [Calls -> Receipts] /\ deliveries \in [Ids -> States]
  BY DEF Init, CallSteps, Receipts, States
<1>5. reserved = {} /\ expired = {} /\ registered \in BOOLEAN /\ cancelled \in BOOLEAN /\ platform = {}
  BY DEF Init
<1> QED BY <1>2, <1>3, <1>4, <1>5 DEF TypeOK, WorkerType

\* The steps of a caller.
LEMMA TypeSend == ASSUME TypeOK, CallInv, NEW c \in Calls, SendStep(c) PROVE TypeOK'
<1> USE IdType DEF TypeOK, CallSteps, Receipts, States, Return, Goto, Fail, Keys, Keyed
<1>1. CASE Reject(c)
  BY <1>1 DEF Reject, queueVars, stopVars
<1>2. CASE Authorize(c)
  BY <1>2 DEF Authorize, queueVars, stopVars
<1>3. CASE Reserve(c)
  <2>1. reserved' \subseteq reserved \cup {Key[c]} /\ UNCHANGED <<expired, queueVars, stopVars, deliveries, worker, platform>>
    BY <1>3 DEF Reserve
  <2>2. Keyed(c)
    BY <1>3 DEF Reserve, CallInv, Texts
  <2>3. call' \in [Calls -> CallSteps] /\ receipt' \in [Calls -> Receipts]
    BY <1>3 DEF Reserve
  <2> QED BY <2>1, <2>2, <2>3 DEF queueVars, stopVars
<1>4. CASE FindWorker(c)
  BY <1>4 DEF FindWorker, queueVars, stopVars
<1>5. CASE RecordQueued(c)
  BY <1>5 DEF RecordQueued, queueVars, stopVars
<1>6. CASE Enqueue(c)
  <2>1. \A s \in Seq(Calls) : Append(s, c) \in Seq(Calls) /\ Len(Append(s, c)) = Len(s) + 1 /\ Len(s) \in Nat
    OBVIOUS
  <2>2. text' \in Seq(Calls) /\ Len(text') <= QueueSize
    BY <1>6, <2>1 DEF Enqueue, QueueOf
  <2>3. media' \in Seq(Calls) /\ Len(media') <= QueueSize
    BY <1>6, <2>1 DEF Enqueue, QueueOf
  <2> QED BY <1>6, <2>2, <2>3 DEF Enqueue, stopVars
<1>7. CASE QueueFull(c)
  BY <1>7 DEF QueueFull, queueVars, stopVars
<1>8. CASE Forget(c)
  BY <1>8 DEF Forget, queueVars, stopVars
<1>9. CASE Unreserve(c)
  BY <1>9 DEF Unreserve, queueVars, stopVars
<1> QED BY <1>1, <1>2, <1>3, <1>4, <1>5, <1>6, <1>7, <1>8, <1>9 DEF SendStep

LEMMA RangeType ==
  ASSUME TypeOK, worker.msg # NoCall
  PROVE  worker.msg \in Calls /\ Id(worker.msg) \in Ids
         /\ worker.part \in Nat /\ Chunks[worker.msg] \in Nat \ {0}
  BY IdType DEF TypeOK

LEMMA WorkerExcept ==
  ASSUME worker \in WorkerType, NEW step \in WorkerSteps, NEW n \in Nat
  PROVE  /\ [worker EXCEPT !.pc = step, !.part = n] \in WorkerType
         /\ [worker EXCEPT !.pc = step, !.attempt = n] \in WorkerType
  BY DEF WorkerType

\* What the worker does next with the message in hand, or without one.
LEMMA TypeSettle ==
  ASSUME TypeOK, worker.msg # NoCall, NEW state \in Final, Settle(state)
  PROVE  WorkerOK' /\ deliveries' \in [Ids -> States]
<1>1. worker \in WorkerType
  BY DEF TypeOK, WorkerType
<1>2. [worker EXCEPT !.pc = "mark", !.part = worker.part + 1] \in WorkerType
  <2>1. worker.part + 1 \in Nat /\ "mark" \in WorkerSteps
    BY RangeType DEF WorkerSteps
  <2> QED BY <1>1, <2>1, WorkerExcept
<1>3. Rest(worker) \in WorkerType /\ Rest(worker).pc = "select" /\ Rest(worker).msg = NoCall
  BY <1>1 DEF WorkerType, WorkerSteps, Rest
<1>4. deliveries' \in [Ids -> States]
  BY RangeType DEF Settle, Record, TypeOK, States, Final
<1>5. CASE worker' = Rest(worker)
  BY <1>3, <1>4, <1>5 DEF WorkerOK, WorkerType
<1>6. CASE worker' = [worker EXCEPT !.pc = "mark", !.part = worker.part + 1]
  <2>1. worker'.pc = "mark" /\ worker'.msg = worker.msg
    BY <1>1, <1>6 DEF WorkerType
  <2> QED BY <1>2, <1>4, <1>6, <2>1 DEF WorkerOK, WorkerType
<1> QED BY <1>5, <1>6 DEF Settle

LEMMA TypeWorker == ASSUME TypeOK, WorkerStep PROVE TypeOK'
<1> USE DEF TypeOK, workerKeeps, callVars, stopVars
<1>0. worker \in WorkerType /\ WorkerType' = WorkerType
  BY DEF WorkerType
<1>a. call' = call /\ receipt' = receipt /\ reserved' = reserved /\ expired' = expired
      /\ registered' = registered /\ cancelled' = cancelled
  BY DEF WorkerStep, TakeText, TakeMedia, StartDraining, Exit, MarkSending, TokenTaken,
         Acknowledged, Failed, Retryable, BackedOff, Interrupted
<1>b. SUFFICES /\ WorkerOK' /\ deliveries' \in [Ids -> States] /\ platform' \subseteq Part
               /\ text' \in Seq(Calls) /\ Len(text') <= QueueSize
               /\ media' \in Seq(Calls) /\ Len(media') <= QueueSize
  BY <1>a DEF WorkerOK, WorkerType
<1>1. CASE TakeText
  <2>1. Head(text) \in Calls /\ Tail(text) \in Seq(Calls) /\ Len(Tail(text)) = Len(text) - 1
    BY <1>1, ItemsTaken DEF TakeText
  <2>2. WorkerOK'
    BY <1>0, <1>1, <2>1 DEF TakeText, Take, WorkerOK, WorkerType, WorkerSteps
  <2> QED BY <1>1, <2>1, <2>2 DEF TakeText
<1>2. CASE TakeMedia
  <2>1. Head(media) \in Calls /\ Tail(media) \in Seq(Calls) /\ Len(Tail(media)) = Len(media) - 1
    BY <1>2, ItemsTaken DEF TakeMedia
  <2>2. WorkerOK'
    BY <1>0, <1>2, <2>1 DEF TakeMedia, Take, WorkerOK, WorkerType, WorkerSteps
  <2> QED BY <1>2, <2>1, <2>2 DEF TakeMedia
<1>3. CASE StartDraining
  BY <1>0, <1>3 DEF StartDraining, WorkerOK, WorkerType
<1>4. CASE Exit
  BY <1>0, <1>4 DEF Exit, WorkerOK, WorkerType, WorkerSteps
<1>5. CASE MarkSending
  <2>1. WorkerOK'
    BY <1>0, <1>5 DEF MarkSending, WorkerOK, WorkerType, WorkerSteps
  <2>2. deliveries' \in [Ids -> States]
    BY <1>5, RangeType DEF MarkSending, Record, States
  <2> QED BY <1>5, <2>1, <2>2 DEF MarkSending
<1>6. CASE TokenTaken
  BY <1>0, <1>6 DEF TokenTaken, WorkerOK, WorkerType, WorkerSteps
<1>7. CASE Acknowledged
  <2>1. WorkerOK' /\ deliveries' \in [Ids -> States]
    BY <1>7, TypeSettle DEF Acknowledged, Final
  <2>2. platform' \subseteq Part
    BY <1>0, <1>7, RangeType DEF Acknowledged, Part
  <2> QED BY <1>7, <2>1, <2>2 DEF Acknowledged
<1>8. CASE Failed
  <2>1. WorkerOK' /\ deliveries' \in [Ids -> States]
    BY <1>8, TypeSettle DEF Failed, Final
  <2> QED BY <1>8, <2>1 DEF Failed
<1>9. CASE Retryable
  BY <1>0, <1>9 DEF Retryable, WorkerOK, WorkerType, WorkerSteps
<1>10. CASE BackedOff
  <2>1. worker.attempt + 1 \in Nat /\ worker' = [worker EXCEPT !.pc = "wait", !.attempt = worker.attempt + 1]
    BY <1>10 DEF BackedOff
  <2>2. worker' \in WorkerType
    BY <1>0, <2>1, WorkerExcept DEF WorkerSteps
  <2>3. worker'.pc = "wait" /\ worker'.msg = worker.msg /\ worker.pc = "backoff"
    BY <1>0, <1>10, <2>1 DEF WorkerType, BackedOff
  <2> QED BY <1>10, <2>2, <2>3, <1>0 DEF BackedOff, WorkerOK
<1>11. CASE Interrupted
  <2>1. WorkerOK' /\ deliveries' \in [Ids -> States]
    BY <1>11, TypeSettle DEF Interrupted, Final
  <2> QED BY <1>11, <2>1 DEF Interrupted
<1> QED BY <1>1, <1>2, <1>3, <1>4, <1>5, <1>6, <1>7, <1>8, <1>9, <1>10, <1>11 DEF WorkerStep

LEMMA TypeStep == ASSUME TypeOK, CallInv, [Next]_vars PROVE TypeOK'
<1>1. CASE \E c \in Calls : SendStep(c)
  BY <1>1, TypeSend
<1>2. CASE \E k \in Keys : Expire(k)
  BY <1>2 DEF TypeOK, Expire, queueVars, stopVars
<1>3. CASE WorkerStep
  BY <1>3, TypeWorker
<1>4. CASE ContextDone \/ Stop
  BY <1>4 DEF TypeOK, ContextDone, Stop, callVars, queueVars
<1>5. CASE UNCHANGED vars
  BY <1>5 DEF TypeOK, vars, callVars, queueVars, stopVars, Part
<1> QED BY <1>1, <1>2, <1>3, <1>4, <1>5 DEF Next
-----------------------------------------------------------------------------
(* The keys.                                                               *)

\* What a step of the call c leaves of the other calls.
LEMMA OthersKept ==
  ASSUME TypeOK, NEW c \in Calls, SendStep(c)
  PROVE  /\ expired' = expired
         /\ \A d \in Calls : d # c => call'[d] = call[d] /\ receipt'[d] = receipt[d]
<1> USE DEF TypeOK, Goto, Return, Fail
<1> QED BY DEF SendStep, Reject, Authorize, Reserve, FindWorker, RecordQueued, Enqueue,
               QueueFull, Forget, Unreserve

LEMMA CallSend == ASSUME TypeOK, CallInv, NEW c \in Calls, SendStep(c) PROVE CallInv'
<1>1. /\ (call'[c] = "done") <=> (receipt'[c] # "none")
      /\ call'[c] \in {"reserve", "unreserve"} => c \in Texts
  BY DEF TypeOK, CallInv, Texts, Goto, Return, Fail, SendStep, Reject, Authorize, Reserve,
         FindWorker, RecordQueued, Enqueue, QueueFull, Forget, Unreserve
<1> QED BY <1>1, OthersKept DEF CallInv, Texts, Keyed

\* The other calls hold and have queued what they did.
OthersHold(c) ==
  /\ expired' = expired
  /\ \A d \in Calls : d # c => (Holds(d)' <=> Holds(d)) /\ (Queued(d)' <=> Queued(d))

LEMMA OthersHoldOn == ASSUME TypeOK, NEW c \in Calls, SendStep(c) PROVE OthersHold(c)
  BY OthersKept DEF OthersHold, Holds, Queued, Texts, Keyed

\* A step that neither takes nor gives back a key and queues no text.
LEMMA KeyKept ==
  ASSUME KeyInv, NEW c \in Calls, OthersHold(c), reserved' = reserved,
         Holds(c)' <=> Holds(c), c \in Texts => (Queued(c)' <=> Queued(c))
  PROVE  KeyInv'
<1> USE DEF OthersHold, Texts, Keyed
<1>1. HeldIsReserved' BY DEF KeyInv, HeldIsReserved
<1>2. HolderIsAlone' BY DEF KeyInv, HolderIsAlone
<1>3. QueuedIsAlone' BY DEF KeyInv, QueuedIsAlone
<1>4. ReservedForOne' BY DEF KeyInv, ReservedForOne
<1> QED BY <1>1, <1>2, <1>3, <1>4 DEF KeyInv

\* A key that is not reserved is in nobody's hands.
LEMMA KeyTaken ==
  ASSUME KeyInv, NEW c \in Texts, OthersHold(c), Key[c] \notin reserved,
         reserved' = reserved \cup {Key[c]}, ~Queued(c), Holds(c)', ~Queued(c)'
  PROVE  KeyInv'
<1> USE DEF OthersHold, Texts, Keyed
<1>0. \A d \in Texts : Key[d] = Key[c] => ~Holds(d) /\ (Queued(d) => Key[c] \in expired)
  BY DEF KeyInv, HeldIsReserved
<1>1. HeldIsReserved' BY DEF KeyInv, HeldIsReserved
<1>2. HolderIsAlone' BY <1>0 DEF KeyInv, HolderIsAlone
<1>3. QueuedIsAlone' BY DEF KeyInv, QueuedIsAlone
<1>4. ReservedForOne' BY <1>0 DEF KeyInv, ReservedForOne
<1> QED BY <1>1, <1>2, <1>3, <1>4 DEF KeyInv

LEMMA KeyQueued ==
  ASSUME KeyInv, NEW c \in Texts, OthersHold(c), reserved' = reserved,
         Holds(c), ~Holds(c)', Queued(c)'
  PROVE  KeyInv'
<1> USE DEF OthersHold, Texts, Keyed
<1>1. HeldIsReserved' BY DEF KeyInv, HeldIsReserved
<1>2. HolderIsAlone' BY DEF KeyInv, HolderIsAlone
<1>3. QueuedIsAlone' BY DEF KeyInv, QueuedIsAlone, HolderIsAlone
<1>4. ReservedForOne' BY DEF KeyInv, ReservedForOne
<1> QED BY <1>1, <1>2, <1>3, <1>4 DEF KeyInv

LEMMA KeyGivenBack ==
  ASSUME KeyInv, NEW c \in Texts, OthersHold(c), reserved' = reserved \ {Key[c]},
         Holds(c), ~Queued(c), ~Holds(c)', ~Queued(c)'
  PROVE  KeyInv'
<1> USE DEF OthersHold, Texts, Keyed
<1>1. HeldIsReserved' BY DEF KeyInv, HeldIsReserved, HolderIsAlone
<1>2. HolderIsAlone' BY DEF KeyInv, HolderIsAlone
<1>3. QueuedIsAlone' BY DEF KeyInv, QueuedIsAlone
<1>4. ReservedForOne' BY DEF KeyInv, ReservedForOne
<1> QED BY <1>1, <1>2, <1>3, <1>4 DEF KeyInv

\* An entry expires when nobody has the key in hand.
LEMMA KeyExpires == ASSUME TypeOK, KeyInv, NEW k \in Keys, Expire(k) PROVE KeyInv'
<1>0. \A d \in Calls : (Holds(d)' <=> Holds(d)) /\ (Queued(d)' <=> Queued(d))
  BY DEF Expire, Holds, Queued, Texts, Keyed
<1>a. \A d \in Calls : Holds(d) => Key[d] # k
  BY DEF Expire, Holds, Holding, InCall
<1>b. reserved' = reserved \ {k} /\ expired' = expired \cup {k}
  BY DEF Expire
<1> USE DEF Texts, Keyed
<1>1. HeldIsReserved' BY <1>0, <1>a, <1>b DEF KeyInv, HeldIsReserved
<1>2. HolderIsAlone' BY <1>0, <1>b DEF KeyInv, HolderIsAlone
<1>3. QueuedIsAlone' BY <1>0, <1>b DEF KeyInv, QueuedIsAlone
<1>4. ReservedForOne' BY <1>0, <1>b DEF KeyInv, ReservedForOne
<1> QED BY <1>1, <1>2, <1>3, <1>4 DEF KeyInv

LEMMA KeySend == ASSUME TypeOK, CallInv, KeyInv, NEW c \in Calls, SendStep(c) PROVE KeyInv'
<1> DEFINE Same == /\ reserved' = reserved /\ (Holds(c)' <=> Holds(c))
                   /\ c \in Texts => (Queued(c)' <=> Queued(c))
<1>0. Same => KeyInv'
  BY OthersHoldOn, KeyKept
<1> USE DEF TypeOK, CallInv, Holds, Queued, Texts, Keyed, Holding, Goto, Return, Fail
<1>1. CASE Reject(c)
  <2>1. Same BY <1>1 DEF Reject
  <2> QED BY <1>0, <2>1
<1>2. CASE Authorize(c)
  <2>1. Same BY <1>2 DEF Authorize
  <2> QED BY <1>0, <2>1
<1>3. CASE Reserve(c)
  <2>0. call[c] = "reserve" /\ receipt[c] = "none" /\ c \in Texts
    BY <1>3 DEF Reserve
  <2>1. CASE Key[c] \in reserved
    <3>1. reserved' = reserved /\ call'[c] = "done" /\ receipt'[c] = "duplicate"
      BY <1>3, <2>1 DEF Reserve
    <3>2. Same
      BY <2>0, <3>1
    <3> QED BY <1>0, <3>2
  <2>2. CASE Key[c] \notin reserved
    <3>1. reserved' = reserved \cup {Key[c]} /\ call'[c] = "find" /\ receipt'[c] = "none"
      BY <1>3, <2>0, <2>2 DEF Reserve
    <3>2. ~Queued(c) /\ Holds(c)' /\ ~Queued(c)'
      BY <2>0, <3>1
    <3> QED BY <2>0, <2>2, <3>1, <3>2, OthersHoldOn, KeyTaken
  <2> QED BY <2>1, <2>2
<1>4. CASE FindWorker(c)
  <2>1. Same BY <1>4 DEF FindWorker
  <2> QED BY <1>0, <2>1
<1>5. CASE RecordQueued(c)
  <2>1. Same BY <1>5 DEF RecordQueued
  <2> QED BY <1>0, <2>1
<1>6. CASE Enqueue(c)
  <2>0. call[c] = "enqueue" /\ call'[c] = "done" /\ receipt'[c] = "queued" /\ reserved' = reserved
    BY <1>6 DEF Enqueue
  <2>1. CASE c \in Texts
    <3>1. Holds(c) /\ ~Holds(c)' /\ Queued(c)'
      BY <2>0, <2>1
    <3> QED BY <2>0, <2>1, <3>1, OthersHoldOn, KeyQueued
  <2>2. CASE c \notin Texts
    <3>1. Same BY <2>0, <2>2
    <3> QED BY <1>0, <3>1
  <2> QED BY <2>1, <2>2
<1>7. CASE QueueFull(c)
  <2>1. Same BY <1>7 DEF QueueFull
  <2> QED BY <1>0, <2>1
<1>8. CASE Forget(c)
  <2>1. Same BY <1>8 DEF Forget
  <2> QED BY <1>0, <2>1
<1>9. CASE Unreserve(c)
  <2>1. /\ call[c] = "unreserve" /\ receipt[c] = "none" /\ c \in Texts
        /\ call'[c] = "done" /\ receipt'[c] = "refused" /\ reserved' = reserved \ {Key[c]}
    BY <1>9 DEF Unreserve
  <2>2. Holds(c) /\ ~Queued(c) /\ ~Holds(c)' /\ ~Queued(c)'
    BY <2>1
  <2> QED BY <2>1, <2>2, OthersHoldOn, KeyGivenBack
<1> QED BY <1>1, <1>2, <1>3, <1>4, <1>5, <1>6, <1>7, <1>8, <1>9 DEF SendStep

LEMMA CallsKept ==
  ASSUME UNCHANGED callVars
  PROVE  (CallInv => CallInv') /\ (KeyInv => KeyInv')
  BY DEF callVars, CallInv, KeyInv, HeldIsReserved, HolderIsAlone, QueuedIsAlone, ReservedForOne,
         Holds, Queued, Texts, Keyed
-----------------------------------------------------------------------------
(* The deliveries.                                                         *)

\* Nobody else has, or has queued, the id of a call that is alone with it.
LEMMA OthersLeave ==
  ASSUME KeyInv, NEW c \in Calls, NEW d \in Calls, c # d, Id(c) = Id(d),
         Alone(c), Tracked(c)
  PROVE  call[d] \notin Holding /\ ~Queued(d)
<1>1. Keyed(c) /\ Keyed(d) /\ Key[c] = Key[d] /\ c \notin Media /\ d \notin Media /\ Key[c] \notin expired
  BY SameId DEF Alone
<1>2. c \in Texts /\ d \in Texts
  BY <1>1 DEF Texts
<1>3. Holds(c) \/ Queued(c)
  BY <1>2 DEF Tracked, Holds, Holding
<1> QED BY <1>1, <1>2, <1>3 DEF KeyInv, HolderIsAlone, QueuedIsAlone, Holds

\* Being alone is lost, never gained.
LEMMA AloneBefore == ASSUME NEW c \in Calls, Alone(c)', expired \subseteq expired' PROVE Alone(c)
  BY DEF Alone, Id, Keyed

LEMMA ExpiredGrows == ASSUME TypeOK, [Next]_vars PROVE expired \subseteq expired'
<1>1. CASE \E c \in Calls : SendStep(c)
  BY <1>1, OthersKept
<1>2. CASE WorkerStep
  BY <1>2 DEF WorkerStep, TakeText, TakeMedia, StartDraining, Exit, MarkSending, TokenTaken,
     Acknowledged, Failed, Retryable, BackedOff, Interrupted, workerKeeps, callVars
<1>3. CASE \E k \in Keys : Expire(k)
  BY <1>3 DEF Expire
<1>4. CASE ContextDone \/ Stop \/ UNCHANGED vars
  BY <1>4 DEF ContextDone, Stop, vars, callVars
<1> QED BY <1>1, <1>2, <1>3, <1>4 DEF Next

TrackInv == TrackedForOne /\ TrackedIsThere

\* A step that writes no delivery and leaves every call tracked or not as it was.
LEMMA TrackKept ==
  ASSUME TrackInv, deliveries' = deliveries, expired \subseteq expired',
         \A d \in Calls : Tracked(d)' <=> Tracked(d)
  PROVE  TrackInv'
<1>1. TrackedForOne'
  BY DEF TrackInv, TrackedForOne, Ids, Id, Keyed
<1>2. TrackedIsThere'
  BY AloneBefore DEF TrackInv, TrackedIsThere, Id, Keyed
<1> QED BY <1>1, <1>2 DEF TrackInv

\* A state is recorded for a call that is tracked from now on.
LEMMA TrackRecorded ==
  ASSUME TypeOK, TrackInv, NEW c \in Calls, NEW state \in States \ {"none"},
         deliveries' = [deliveries EXCEPT ![Id(c)] = state],
         expired \subseteq expired', Tracked(c)',
         \A d \in Calls : d # c => (Tracked(d)' <=> Tracked(d))
  PROVE  TrackInv'
<1>0. deliveries'[Id(c)] = state /\ \A i \in Ids \ {Id(c)} : deliveries'[i] = deliveries[i]
  BY IdType DEF TypeOK
<1>1. TrackedForOne'
  <2> SUFFICES ASSUME NEW i \in Ids, deliveries'[i] # "none"
               PROVE  \E d \in Calls : Id(d) = i /\ Tracked(d)'
    BY DEF TrackedForOne, Ids, Id, Keyed
  <2>1. CASE i = Id(c)
    BY <2>1
  <2>2. CASE i # Id(c)
    <3>1. PICK d \in Calls : Id(d) = i /\ Tracked(d)
      BY <1>0, <2>2 DEF TrackInv, TrackedForOne
    <3> QED BY <2>2, <3>1
  <2> QED BY <2>1, <2>2
<1>2. TrackedIsThere'
  <2> SUFFICES ASSUME NEW d \in Calls, Tracked(d)', Alone(d)'
               PROVE  deliveries'[Id(d)] # "none"
    BY DEF TrackedIsThere, Id, Keyed
  <2>1. CASE Id(d) = Id(c)
    BY <1>0, <2>1
  <2>2. CASE Id(d) # Id(c)
    BY <1>0, <2>2, IdType, AloneBefore DEF TrackInv, TrackedIsThere
  <2> QED BY <2>1, <2>2
<1> QED BY <1>1, <1>2 DEF TrackInv

\* A delivery is deleted for a call that held the id alone.
LEMMA TrackForgotten ==
  ASSUME TypeOK, KeyInv, TrackInv, NEW c \in Calls, call[c] = "forget", ~Tracked(c)',
         deliveries' = [deliveries EXCEPT ![Id(c)] = "none"],
         expired \subseteq expired',
         \A d \in Calls : d # c => (Tracked(d)' <=> Tracked(d))
  PROVE  TrackInv'
<1>0. deliveries'[Id(c)] = "none" /\ \A i \in Ids \ {Id(c)} : deliveries'[i] = deliveries[i]
  BY IdType DEF TypeOK
<1>1. TrackedForOne'
  <2> SUFFICES ASSUME NEW i \in Ids, deliveries'[i] # "none"
               PROVE  \E d \in Calls : Id(d) = i /\ Tracked(d)'
    BY DEF TrackedForOne, Ids, Id, Keyed
  <2>1. PICK d \in Calls : Id(d) = i /\ Tracked(d)
    BY <1>0 DEF TrackInv, TrackedForOne
  <2> QED BY <1>0, <2>1
<1>2. TrackedIsThere'
  <2> SUFFICES ASSUME NEW d \in Calls, Tracked(d)', Alone(d)'
               PROVE  deliveries'[Id(d)] # "none"
    BY DEF TrackedIsThere, Id, Keyed
  <2>1. d # c /\ Tracked(d) /\ Alone(d)
    BY AloneBefore
  <2>2. Id(d) # Id(c)
    BY <2>1, OthersLeave DEF Holding
  <2> QED BY <1>0, <2>1, <2>2, IdType DEF TrackInv, TrackedIsThere
<1> QED BY <1>1, <1>2 DEF TrackInv

LEMMA TrackSend ==
  ASSUME TypeOK, CallInv, KeyInv, TrackInv, NEW c \in Calls, SendStep(c)
  PROVE  TrackInv'
<1>0. \A d \in Calls : d # c => (Tracked(d)' <=> Tracked(d))
  BY OthersKept DEF Tracked, Queued
<1>a. expired \subseteq expired'
  BY OthersKept
<1>b. ASSUME deliveries' = deliveries, Tracked(c)' <=> Tracked(c) PROVE TrackInv'
  BY <1>0, <1>a, <1>b, TrackKept
<1> USE DEF TypeOK, CallInv, Tracked, Queued, Goto, Return, Fail
<1>1. CASE Reject(c)
  <2>1. deliveries' = deliveries /\ (Tracked(c)' <=> Tracked(c)) BY <1>1 DEF Reject
  <2> QED BY <1>b, <2>1
<1>2. CASE Authorize(c)
  <2>1. deliveries' = deliveries /\ (Tracked(c)' <=> Tracked(c)) BY <1>2 DEF Authorize
  <2> QED BY <1>b, <2>1
<1>3. CASE Reserve(c)
  <2>1. deliveries' = deliveries /\ (Tracked(c)' <=> Tracked(c)) BY <1>3 DEF Reserve
  <2> QED BY <1>b, <2>1
<1>4. CASE FindWorker(c)
  <2>1. deliveries' = deliveries /\ (Tracked(c)' <=> Tracked(c)) BY <1>4 DEF FindWorker
  <2> QED BY <1>b, <2>1
<1>5. CASE RecordQueued(c)
  <2>1. Tracked(c)' /\ deliveries' = [deliveries EXCEPT ![Id(c)] = "queued"] /\ "queued" \in States \ {"none"}
    BY <1>5 DEF RecordQueued, States
  <2> QED BY <1>0, <1>a, <2>1, TrackRecorded
<1>6. CASE Enqueue(c)
  <2>1. deliveries' = deliveries /\ (Tracked(c)' <=> Tracked(c)) BY <1>6 DEF Enqueue
  <2> QED BY <1>b, <2>1
<1>7. CASE QueueFull(c)
  <2>1. deliveries' = deliveries /\ (Tracked(c)' <=> Tracked(c)) BY <1>7 DEF QueueFull
  <2> QED BY <1>b, <2>1
<1>8. CASE Forget(c)
  <2>1. call[c] = "forget" /\ ~Tracked(c)' /\ deliveries' = [deliveries EXCEPT ![Id(c)] = "none"]
    BY <1>8 DEF Forget
  <2> QED BY <1>0, <1>a, <2>1, TrackForgotten
<1>9. CASE Unreserve(c)
  <2>1. deliveries' = deliveries /\ (Tracked(c)' <=> Tracked(c)) BY <1>9 DEF Unreserve
  <2> QED BY <1>b, <2>1
<1> QED BY <1>1, <1>2, <1>3, <1>4, <1>5, <1>6, <1>7, <1>8, <1>9 DEF SendStep
-----------------------------------------------------------------------------
(* The queues and the worker.                                              *)

\* What the worker may do to the deliveries and the platform: nothing, or
\* record a state for the message in hand.
LEMMA WorkerFrame ==
  ASSUME TypeOK, WorkerStep
  PROVE  /\ UNCHANGED callVars /\ platform \subseteq platform'
         /\ \/ deliveries' = deliveries
            \/ /\ worker.msg # NoCall
               /\ \E state \in States \ {"none"} :
                     deliveries' = [deliveries EXCEPT ![Id(worker.msg)] = state]
<1>1. "acknowledged" \in States \ {"none"} /\ "failed" \in States \ {"none"}
      /\ "cancelled" \in States \ {"none"} /\ "sending" \in States \ {"none"}
  BY DEF States
<1>2. CASE MarkSending
  BY <1>1, <1>2 DEF MarkSending, Record, TypeOK, workerKeeps
<1>3. CASE Acknowledged
  BY <1>1, <1>3 DEF Acknowledged, Settle, Record, TypeOK, workerKeeps
<1>4. CASE Failed
  BY <1>1, <1>4 DEF Failed, Settle, Record, TypeOK, workerKeeps
<1>5. CASE Interrupted
  BY <1>1, <1>5 DEF Interrupted, Settle, Record, TypeOK, workerKeeps
<1>6. CASE TakeText \/ TakeMedia \/ StartDraining \/ Exit \/ TokenTaken \/ Retryable \/ BackedOff
  BY <1>6 DEF TakeText, TakeMedia, StartDraining, Exit, TokenTaken, Retryable, BackedOff, workerKeeps
<1> QED BY <1>2, <1>3, <1>4, <1>5, <1>6 DEF WorkerStep

LEMMA TrackWorker ==
  ASSUME TypeOK, TrackInv, InHandIsQueued, WorkerStep
  PROVE  TrackInv'
<1>0. \A d \in Calls : (Tracked(d)' <=> Tracked(d))
  BY WorkerFrame DEF Tracked, Queued, callVars
<1>1. expired' = expired
  BY WorkerFrame DEF callVars
<1>2. CASE deliveries' = deliveries
  BY <1>0, <1>1, <1>2, TrackKept
<1>3. ASSUME worker.msg # NoCall, NEW state \in States \ {"none"},
             deliveries' = [deliveries EXCEPT ![Id(worker.msg)] = state]
      PROVE  TrackInv'
  <2>1. worker.msg \in Calls /\ Tracked(worker.msg)
    BY <1>3, RangeType DEF InHandIsQueued, Tracked
  <2> QED BY <1>0, <1>1, <1>3, <2>1, TrackRecorded
<1> QED BY <1>2, <1>3, WorkerFrame

LEMMA WaitingKept ==
  ASSUME NEW c \in Calls, UNCHANGED queueVars PROVE Waiting(c)' <=> Waiting(c)
  BY DEF Waiting, queueVars

LEMMA WaitingItems == \A c \in Calls : Waiting(c) <=> c \in ItemsOf(text) \/ c \in ItemsOf(media)
  BY DEF Waiting, ItemsOf

LEMMA WaitingEnqueued ==
  ASSUME TypeOK, NEW c \in Calls, Enqueue(c), NEW d \in Calls
  PROVE  Waiting(d)' <=> (Waiting(d) \/ d = c)
<1>0. Waiting(d)' <=> d \in ItemsOf(text') \/ d \in ItemsOf(media')
  BY DEF Waiting, ItemsOf
<1>1. CASE c \in Media
  <2>1. media' = Append(media, c) /\ text' = text /\ media \in Seq(Calls)
    BY <1>1 DEF Enqueue, TypeOK
  <2> QED BY <1>0, <2>1, ItemsAppended, WaitingItems
<1>2. CASE c \notin Media
  <2>1. text' = Append(text, c) /\ media' = media /\ text \in Seq(Calls)
    BY <1>2 DEF Enqueue, TypeOK
  <2> QED BY <1>0, <2>1, ItemsAppended, WaitingItems
<1> QED BY <1>1, <1>2

LEMMA WaitingTaken ==
  ASSUME TypeOK, TakeText \/ TakeMedia
  PROVE  /\ worker.msg = NoCall /\ worker'.msg \in Calls /\ worker'.part \in {0, 1}
         /\ \A d \in Calls : Waiting(d) <=> (Waiting(d)' \/ worker'.msg = d)
<1>0. \A d \in Calls : Waiting(d)' <=> d \in ItemsOf(text') \/ d \in ItemsOf(media')
  BY DEF Waiting, ItemsOf
<1>1. CASE TakeText
  <2>1. /\ text \in Seq(Calls) /\ text # <<>> /\ text' = Tail(text) /\ media' = media
        /\ worker'.msg = Head(text) /\ worker.msg = NoCall /\ worker'.part \in {0, 1}
    BY <1>1 DEF TakeText, Take, TypeOK
  <2> QED BY <1>0, <2>1, ItemsTaken, WaitingItems
<1>2. CASE TakeMedia
  <2>1. /\ media \in Seq(Calls) /\ media # <<>> /\ media' = Tail(media) /\ text' = text
        /\ worker'.msg = Head(media) /\ worker.msg = NoCall /\ worker'.part \in {0, 1}
    BY <1>2 DEF TakeMedia, Take, TypeOK
  <2> QED BY <1>0, <2>1, ItemsTaken, WaitingItems
<1> QED BY <1>1, <1>2

\* A step of the worker that settles the message in hand or its part, takes
\* a message, or leaves its hands and the queues as they are.
Settling ==
  \E state \in Final :
    /\ Settle(state)
    /\ platform \subseteq platform'
    /\ state = "acknowledged" => [msg |-> worker.msg, part |-> worker.part] \in platform'
Carrying == worker'.msg = worker.msg /\ worker'.part = worker.part

LEMMA WorkerCases ==
  ASSUME TypeOK, WorkerStep
  PROVE  \/ TakeText \/ TakeMedia
         \/ Carrying /\ UNCHANGED <<queueVars, platform>>
         \/ worker.msg # NoCall /\ Settling /\ UNCHANGED queueVars
<1> USE DEF queueVars
<1>1. CASE Acknowledged
  BY <1>1 DEF Acknowledged, Settling, Final, TypeOK
<1>2. CASE Failed
  BY <1>2 DEF Failed, Settling, Final, TypeOK
<1>3. CASE Interrupted
  BY <1>3 DEF Interrupted, Settling, Final, TypeOK
<1>4. CASE StartDraining \/ Exit \/ MarkSending \/ TokenTaken \/ Retryable \/ BackedOff
  BY <1>4 DEF StartDraining, Exit, MarkSending, TokenTaken, Retryable, BackedOff, Carrying, TypeOK
<1> QED BY <1>1, <1>2, <1>3, <1>4 DEF WorkerStep

\* Where the worker is after it settled: at the next part, or at rest.
LEMMA SettleHands ==
  ASSUME TypeOK, worker.msg # NoCall, NEW state \in Final, Settle(state)
  PROVE  \/ worker'.msg = NoCall /\ ~(state = "acknowledged" /\ worker.part \in 1 .. Chunks[worker.msg] - 1)
         \/ /\ worker'.msg = worker.msg /\ worker'.part = worker.part + 1
            /\ state = "acknowledged" /\ worker.part \in 1 .. Chunks[worker.msg] - 1
  BY DEF Settle, Rest, TypeOK

LEMMA HandsWorker ==
  ASSUME TypeOK, InHandIsQueued, PartsBefore, WorkerStep
  PROVE  InHandIsQueued' /\ PartsBefore'
<1>0. \A c \in Calls : Queued(c)' <=> Queued(c)
  BY WorkerFrame DEF Queued, callVars
<1>1. CASE TakeText \/ TakeMedia
  <2>1. InHandIsQueued'
    BY <1>0, <1>1, WaitingTaken DEF InHandIsQueued
  <2>2. worker'.part <= Chunks[worker'.msg] /\ 1 .. worker'.part - 1 = {}
    BY <1>1, WaitingTaken
  <2> QED BY <2>1, <2>2 DEF PartsBefore
<1>2. CASE Carrying /\ UNCHANGED <<queueVars, platform>>
  BY <1>0, <1>2, WaitingKept DEF InHandIsQueued, PartsBefore, Carrying
<1>3. CASE worker.msg # NoCall /\ Settling /\ UNCHANGED queueVars
  <2>1. PICK state \in Final :
           /\ Settle(state) /\ platform \subseteq platform'
           /\ state = "acknowledged" => [msg |-> worker.msg, part |-> worker.part] \in platform'
    BY <1>3 DEF Settling
  <2>2. CASE worker'.msg = NoCall
    BY <1>0, <1>3, <2>2, WaitingKept DEF InHandIsQueued, PartsBefore
  <2>3. CASE worker'.msg # NoCall
    <3>1. /\ worker'.msg = worker.msg /\ worker'.part = worker.part + 1
          /\ state = "acknowledged" /\ worker.part \in 1 .. Chunks[worker.msg] - 1
      BY <1>3, <2>1, <2>3, SettleHands
    <3>2. [msg |-> worker.msg, part |-> worker.part] \in platform'
      BY <2>1, <3>1
    <3>3. InHandIsQueued'
      BY <1>0, <1>3, <3>1, WaitingKept DEF InHandIsQueued
    <3>4. worker'.part <= Chunks[worker'.msg]
      BY <1>3, <3>1, RangeType
    <3>5. \A p \in 1 .. worker'.part - 1 : p = worker.part \/ p \in 1 .. worker.part - 1
      BY <1>3, <3>1, RangeType
    <3> QED BY <1>3, <2>1, <3>1, <3>2, <3>3, <3>4, <3>5 DEF PartsBefore
  <2> QED BY <2>2, <2>3
<1> QED BY <1>1, <1>2, <1>3, WorkerCases

LEMMA SendHands == ASSUME NEW c \in Calls, SendStep(c)
                   PROVE  /\ worker' = worker /\ platform' = platform
                          /\ UNCHANGED queueVars \/ Enqueue(c)
  BY DEF SendStep, Reject, Authorize, Reserve, FindWorker, RecordQueued, Enqueue, QueueFull,
         Forget, Unreserve

LEMMA HandsSend ==
  ASSUME TypeOK, CallInv, InHandIsQueued, PartsBefore, NEW c \in Calls, SendStep(c)
  PROVE  InHandIsQueued' /\ PartsBefore'
<1>0. \A d \in Calls : Queued(d) => Queued(d)'
  <2>1. Queued(c) => call[c] = "done"
    BY DEF CallInv, Queued
  <2>2. call[c] # "done"
    BY DEF SendStep, Reject, Authorize, Reserve, FindWorker, RecordQueued, Enqueue, QueueFull,
           Forget, Unreserve
  <2> QED BY <2>1, <2>2, OthersKept DEF Queued
<1>1. PartsBefore'
  BY SendHands DEF PartsBefore
<1>2. CASE UNCHANGED queueVars
  BY <1>0, <1>1, <1>2, SendHands, WaitingKept DEF InHandIsQueued
<1>3. CASE Enqueue(c)
  <2>1. Queued(c)'
    BY <1>3 DEF Enqueue, Return, Queued, TypeOK
  <2> QED BY <1>0, <1>1, <1>3, <2>1, SendHands, WaitingEnqueued DEF InHandIsQueued
<1> QED BY <1>2, <1>3, SendHands

\* A message settles when the worker takes its hands off it, and in no other
\* way; what is settled nobody touches.
LEMMA HandledBefore ==
  ASSUME TypeOK, WorkerStep, NEW c \in Calls, Handled(c)'
  PROVE  Handled(c) \/ (worker.msg = c /\ worker'.msg = NoCall /\ Settling)
<1>0. receipt[c] = "queued" /\ ~Waiting(c)' /\ worker'.msg # c
  BY WorkerFrame DEF Handled, callVars
<1>1. CASE TakeText \/ TakeMedia
  BY <1>0, <1>1, WaitingTaken DEF Handled
<1>2. CASE Carrying /\ UNCHANGED <<queueVars, platform>>
  BY <1>0, <1>2, WaitingKept DEF Handled, Carrying
<1>3. CASE worker.msg # NoCall /\ Settling /\ UNCHANGED queueVars
  <2>1. ~Waiting(c)
    BY <1>0, <1>3, WaitingKept
  <2>2. worker'.msg \in {NoCall, worker.msg}
    BY <1>3, SettleHands DEF Settling
  <2> QED BY <1>0, <1>3, <2>1, <2>2 DEF Handled
<1> QED BY <1>1, <1>2, <1>3, WorkerCases

LEMMA SettledKept ==
  ASSUME TypeOK, CallInv, KeyInv, InHandIsQueued, [Next]_vars,
         NEW c \in Calls, Handled(c), Alone(c)
  PROVE  deliveries'[Id(c)] = deliveries[Id(c)]
<1>0. Queued(c) /\ Tracked(c) /\ call[c] = "done" /\ worker.msg # c
  BY DEF Handled, Queued, Tracked, CallInv
<1>1. ASSUME NEW d \in Calls, SendStep(d) PROVE deliveries'[Id(c)] = deliveries[Id(c)]
  <2>1. CASE deliveries' = deliveries
    BY <2>1
  <2>2. CASE deliveries' # deliveries
    <3>1. RecordQueued(d) \/ Forget(d)
      BY <1>1, <2>2 DEF SendStep, Reject, Authorize, Reserve, FindWorker, Enqueue, QueueFull, Unreserve
    <3>2. call[d] \in Holding /\ d # c
      BY <1>0, <3>1 DEF RecordQueued, Forget, Holding
    <3>3. Id(d) # Id(c)
      BY <1>0, <3>2, OthersLeave
    <3> QED BY <3>1, <3>3, IdType DEF RecordQueued, Forget, TypeOK
  <2> QED BY <2>1, <2>2
<1>2. CASE WorkerStep
  <2>1. CASE deliveries' = deliveries
    BY <2>1
  <2>2. CASE deliveries' # deliveries
    <3>1. worker.msg \in Calls /\ Queued(worker.msg)
      BY <1>2, <2>2, WorkerFrame, RangeType DEF InHandIsQueued
    <3>2. Id(worker.msg) # Id(c)
      BY <1>0, <3>1, OthersLeave
    <3>3. PICK state \in States \ {"none"} : deliveries' = [deliveries EXCEPT ![Id(worker.msg)] = state]
      BY <1>2, <2>2, WorkerFrame
    <3> QED BY <3>2, <3>3, IdType DEF TypeOK
  <2> QED BY <2>1, <2>2
<1>3. CASE (\E k \in Keys : Expire(k)) \/ ContextDone \/ Stop \/ UNCHANGED vars
  BY <1>3 DEF Expire, ContextDone, Stop, vars
<1> QED BY <1>1, <1>2, <1>3 DEF Next

\* What the worker has just settled.
LEMMA JustSettled ==
  ASSUME TypeOK, PartsBefore, WorkerStep, NEW c \in Calls,
         worker.msg = c, worker'.msg = NoCall, Settling
  PROVE  /\ deliveries'[Id(c)] \in Final
         /\ deliveries'[Id(c)] = "acknowledged" => Whole(c)'
<1>1. PICK state \in Final :
         /\ Settle(state) /\ platform \subseteq platform'
         /\ state = "acknowledged" => [msg |-> c, part |-> worker.part] \in platform'
  BY DEF Settling
<1>2. deliveries'[Id(c)] = state
  BY <1>1, IdType DEF Settle, Record, TypeOK
<1>3. ASSUME state = "acknowledged" PROVE Whole(c)'
  <2>1. worker.part \notin 1 .. Chunks[c] - 1
    BY <1>1, <1>3, SettleHands
  <2>2. worker.part \in Nat /\ Chunks[c] \in Nat \ {0} /\ worker.part <= Chunks[c]
    BY RangeType DEF PartsBefore
  <2>3. CASE worker.part = 0
    BY <1>1, <1>3, <2>3 DEF Whole
  <2>4. CASE worker.part = Chunks[c]
    <3>1. \A p \in 1 .. Chunks[c] : p = worker.part \/ p \in 1 .. worker.part - 1
      BY <2>2, <2>4
    <3> QED BY <1>1, <1>3, <3>1 DEF PartsBefore, Whole
  <2> QED BY <2>1, <2>2, <2>3, <2>4
<1> QED BY <1>1, <1>2, <1>3

LEMMA SettledStep ==
  ASSUME OutboundInv, [Next]_vars
  PROVE  HandledIsSettled'
<1> USE DEF OutboundInv
<1> SUFFICES ASSUME NEW c \in Calls, Handled(c)', Alone(c)'
             PROVE  /\ deliveries'[Id(c)] \in Final
                    /\ deliveries'[Id(c)] = "acknowledged" => Whole(c)'
  BY DEF HandledIsSettled, Id, Keyed
<1>0. Alone(c)
  BY AloneBefore, ExpiredGrows
<1>1. ASSUME Handled(c), platform \subseteq platform'
      PROVE  /\ deliveries'[Id(c)] \in Final
             /\ deliveries'[Id(c)] = "acknowledged" => Whole(c)'
  <2>1. Whole(c) => Whole(c)'
    BY <1>1 DEF Whole
  <2> QED BY <1>0, <1>1, <2>1, SettledKept DEF HandledIsSettled
<1>2. ASSUME NEW d \in Calls, SendStep(d)
      PROVE  Handled(c) /\ platform \subseteq platform'
  <2>1. CASE UNCHANGED queueVars
    <3>1. ~Enqueue(d)
      <4>1. \A s \in Seq(Calls) : Append(s, d) # s
        <5> SUFFICES ASSUME NEW s \in Seq(Calls) PROVE Append(s, d) # s
          OBVIOUS
        <5>1. Len(Append(s, d)) = Len(s) + 1 /\ Len(s) \in Nat
          OBVIOUS
        <5> QED BY <5>1
      <4> QED BY <2>1, <4>1 DEF Enqueue, queueVars, TypeOK
    <3>2. receipt'[c] = "queued" => receipt[c] = "queued"
      BY <1>2, <3>1 DEF TypeOK, SendStep, Reject, Authorize, Reserve, FindWorker, RecordQueued,
         QueueFull, Forget, Unreserve, Return, Fail
    <3> QED BY <1>2, <2>1, <3>2, SendHands, WaitingKept DEF Handled
  <2>2. CASE Enqueue(d)
    <3>1. d # c /\ ~Waiting(c)
      BY <2>2, WaitingEnqueued DEF Handled
    <3>2. receipt[c] = "queued"
      BY <1>2, <3>1, OthersKept DEF Handled
    <3> QED BY <1>2, <3>1, <3>2, SendHands DEF Handled
  <2> QED BY <1>2, <2>1, <2>2, SendHands
<1>3. CASE WorkerStep
  <2>1. CASE Handled(c)
    BY <1>1, <1>3, <2>1, WorkerFrame
  <2>2. CASE worker.msg = c /\ worker'.msg = NoCall /\ Settling
    BY <1>3, <2>2, JustSettled
  <2> QED BY <1>3, <2>1, <2>2, HandledBefore
<1>4. CASE (\E k \in Keys : Expire(k)) \/ ContextDone \/ Stop \/ UNCHANGED vars
  <2>1. receipt' = receipt /\ UNCHANGED queueVars /\ worker' = worker /\ platform' = platform
    BY <1>4 DEF Expire, ContextDone, Stop, vars, callVars
  <2>2. Handled(c)
    BY <2>1, WaitingKept DEF Handled
  <2> QED BY <1>1, <2>1, <2>2
<1> QED BY <1>1, <1>2, <1>3, <1>4 DEF Next
-----------------------------------------------------------------------------
LEMMA OutboundInit == Init => OutboundInv
<1> SUFFICES ASSUME Init PROVE OutboundInv
  OBVIOUS
<1>1. \A c \in Calls : call[c] = "idle" /\ receipt[c] = "none"
  BY DEF Init
<1>2. CallInv /\ KeyInv
  BY <1>1 DEF Init, CallInv, KeyInv, HeldIsReserved, HolderIsAlone, QueuedIsAlone, ReservedForOne,
     Holds, Holding, Queued, Texts
<1>3. TrackedForOne /\ TrackedIsThere
  BY <1>1 DEF Init, TrackedForOne, TrackedIsThere, Tracked, Queued
<1>4. Len(text) = 0 /\ Len(media) = 0 /\ worker.msg = NoCall
  BY DEF Init, Idle
<1>5. \A c \in Calls : ~Waiting(c) /\ worker.msg # c /\ ~Handled(c)
  BY <1>1, <1>4 DEF Waiting, Handled
<1>6. InHandIsQueued /\ PartsBefore /\ HandledIsSettled
  BY <1>4, <1>5 DEF InHandIsQueued, PartsBefore, HandledIsSettled
<1> QED BY <1>2, <1>3, <1>6, TypeInit DEF OutboundInv

LEMMA OutboundStep == OutboundInv /\ [Next]_vars => OutboundInv'
<1> SUFFICES ASSUME OutboundInv, [Next]_vars PROVE OutboundInv'
  OBVIOUS
<1> USE DEF OutboundInv
<1>1. TypeOK' /\ HandledIsSettled'
  BY TypeStep, SettledStep
<1>2. CASE \E c \in Calls : SendStep(c)
  BY <1>1, <1>2, CallSend, KeySend, TrackSend, HandsSend DEF TrackInv
<1>3. CASE WorkerStep
  BY <1>1, <1>3, WorkerFrame, CallsKept, TrackWorker, HandsWorker DEF TrackInv
<1>4. CASE \E k \in Keys : Expire(k)
  <2>1. CallInv'
    BY <1>4 DEF Expire, CallInv, Texts, Keyed
  <2>2. KeyInv'
    BY <1>4, KeyExpires
  <2>3. TrackInv'
    <3>1. \A d \in Calls : Tracked(d)' <=> Tracked(d)
      BY <1>4 DEF Expire, Tracked, Queued
    <3>2. deliveries' = deliveries
      BY <1>4 DEF Expire
    <3> QED BY <3>1, <3>2, ExpiredGrows, TrackKept DEF TrackInv
  <2>4. InHandIsQueued' /\ PartsBefore'
    BY <1>4, WaitingKept DEF Expire, InHandIsQueued, PartsBefore, Queued
  <2> QED BY <1>1, <2>1, <2>2, <2>3, <2>4 DEF TrackInv
<1>5. CASE ContextDone \/ Stop \/ UNCHANGED vars
  <2>1. UNCHANGED callVars /\ UNCHANGED queueVars /\ UNCHANGED <<deliveries, worker, platform>>
    BY <1>5 DEF ContextDone, Stop, vars
  <2>2. CallInv' /\ KeyInv'
    BY <2>1, CallsKept
  <2>3. TrackInv'
    BY <2>1, ExpiredGrows, TrackKept DEF TrackInv, Tracked, Queued, callVars
  <2>4. InHandIsQueued' /\ PartsBefore'
    BY <2>1, WaitingKept DEF InHandIsQueued, PartsBefore, Queued, callVars
  <2> QED BY <1>1, <2>2, <2>3, <2>4 DEF TrackInv
<1> QED BY <1>2, <1>3, <1>4, <1>5 DEF Next

LEMMA OutboundInductive == Spec => []OutboundInv
  BY OutboundInit, OutboundStep, PTL DEF Spec
-----------------------------------------------------------------------------
(* Every variable keeps its type, and the two queues of the worker their   *)
(* capacity: a full queue refuses (start.go: select with default).         *)
THEOREM OutboundTypes == Spec => []TypeOK
<1>1. OutboundInv => TypeOK
  BY DEF OutboundInv
<1> QED BY <1>1, OutboundInductive, PTL

(* Of the calls of Send with one idempotency key at most one queues a      *)
(* message while the entry of the key is young, for any number of calls,   *)
(* however they interleave, fail and give the key back.                    *)
THEOREM KeyQueuesOnce == Spec => []OneQueuedPerKey
<1>1. OutboundInv => OneQueuedPerKey
  <2> SUFFICES ASSUME OutboundInv, NEW c \in Calls \ Media, NEW d \in Calls \ Media,
                      c # d, Keyed(c), Key[c] = Key[d], receipt[c] = "queued", receipt[d] = "queued"
               PROVE  Key[c] \in expired
    BY DEF OneQueuedPerKey
  <2>1. c \in Texts /\ d \in Texts /\ Queued(c) /\ Queued(d)
    BY DEF Texts, Keyed, Queued
  <2> QED BY <2>1 DEF OutboundInv, KeyInv, QueuedIsAlone
<1> QED BY <1>1, OutboundInductive, PTL

(* A Send that failed leaves neither a reserved key nor a recorded         *)
(* delivery: each belongs to a call under way or to a queued message.      *)
THEOREM FailureLeavesNoTrace == Spec => []NoTrace
<1>1. OutboundInv => NoTrace
  <2> SUFFICES ASSUME OutboundInv PROVE NoTrace
    OBVIOUS
  <2>1. \A k \in reserved : \E c \in Calls \ Media : Key[c] = k /\ (InCall(c) \/ receipt[c] = "queued")
    BY DEF OutboundInv, KeyInv, ReservedForOne, Holds, Holding, Queued, Texts, InCall
  <2>2. \A i \in Ids : deliveries[i] # "none" =>
          \E c \in Calls : Id(c) = i /\ (InCall(c) \/ receipt[c] = "queued")
    BY DEF OutboundInv, TrackedForOne, Tracked, Queued, InCall
  <2> QED BY <2>1, <2>2 DEF NoTrace
<1> QED BY <1>1, OutboundInductive, PTL

(* The status of a message whose caller was told it is queued is never     *)
(* deleted, by no clean-up of another call with its id.                    *)
THEOREM QueuedIsTracked == Spec => []AcceptedIsTracked
<1>1. OutboundInv => AcceptedIsTracked
  BY DEF OutboundInv, TrackedIsThere, Tracked, Queued, AcceptedIsTracked
<1> QED BY <1>1, OutboundInductive, PTL

(* What the worker has done with is settled, and "acknowledged" is only    *)
(* said of a message all of whose parts the platform has, whatever the     *)
(* number of its parts and of its retries.                                 *)
THEOREM WorkerSettles == Spec => []HandledIsSettled
<1>1. OutboundInv => HandledIsSettled
  BY DEF OutboundInv
<1> QED BY <1>1, OutboundInductive, PTL

(* The state a message settled in never changes again: no late duplicate,  *)
(* no clean-up and no later step of the worker writes it.                  *)
THEOREM SettledForGood == Spec => SettledStays
<1>1. OutboundInv /\ [Next]_vars =>
        [\A c \in Calls : Handled(c) /\ Alone(c) /\ Alone(c)'
                            => deliveries'[Id(c)] = deliveries[Id(c)]]_vars
  <2> SUFFICES ASSUME OutboundInv, [Next]_vars, NEW c \in Calls, Handled(c), Alone(c)
               PROVE  deliveries'[Id(c)] = deliveries[Id(c)]
    OBVIOUS
  <2> QED BY SettledKept DEF OutboundInv
<1> QED BY <1>1, OutboundInductive, PTL DEF Spec, SettledStays
-----------------------------------------------------------------------------
(* The abstract specification.                                             *)

OnceIn(s) == \A i, j \in 1 .. Len(s) : s[i] = s[j] => i = j

\* A call is on one line, there once, and not in the worker's hands as well;
\* empty hands are at part 0.
LinesOnce ==
  /\ OnceIn(text) /\ OnceIn(media)
  /\ ItemsOf(media) \subseteq Media /\ ItemsOf(text) \cap Media = {}
  /\ \A c \in Calls : worker.msg = c => ~Waiting(c)
  /\ worker.msg = NoCall => worker.part = 0

LEMMA OnceAppended ==
  ASSUME NEW s \in Seq(Calls), NEW e \in Calls, OnceIn(s), e \notin ItemsOf(s)
  PROVE  OnceIn(Append(s, e))
<1>1. Len(Append(s, e)) = Len(s) + 1 /\ Append(s, e)[Len(s) + 1] = e
  OBVIOUS
<1>2. \A i \in 1 .. Len(s) : Append(s, e)[i] = s[i]
  OBVIOUS
<1>3. \A i \in 1 .. Len(s) + 1 : i \in 1 .. Len(s) \/ i = Len(s) + 1
  OBVIOUS
<1>4. \A i \in 1 .. Len(s) : s[i] # e
  BY DEF ItemsOf
<1> QED BY <1>1, <1>2, <1>3, <1>4, Zenon DEF OnceIn

LEMMA OnceTaken ==
  ASSUME NEW s \in Seq(Calls), s # <<>>, OnceIn(s)
  PROVE  OnceIn(Tail(s)) /\ Head(s) \notin ItemsOf(Tail(s))
<1>1. Len(Tail(s)) = Len(s) - 1 /\ Head(s) = s[1] /\ Len(s) \in Nat /\ 1 \in 1 .. Len(s)
  OBVIOUS
<1>2. \A i \in 1 .. Len(s) - 1 : Tail(s)[i] = s[i + 1] /\ i + 1 \in 1 .. Len(s)
  OBVIOUS
<1>3. OnceIn(Tail(s))
  <2> SUFFICES ASSUME NEW i \in 1 .. Len(s) - 1, NEW j \in 1 .. Len(s) - 1,
                      Tail(s)[i] = Tail(s)[j]
               PROVE  i = j
    BY <1>1 DEF OnceIn
  <2>1. i + 1 = j + 1
    BY <1>2, Zenon DEF OnceIn
  <2> QED BY <2>1
<1>4. \A i \in 1 .. Len(s) - 1 : Tail(s)[i] # Head(s)
  <2> SUFFICES ASSUME NEW i \in 1 .. Len(s) - 1, Tail(s)[i] = Head(s) PROVE FALSE
    OBVIOUS
  <2>1. i + 1 = 1
    BY <1>1, <1>2, Zenon DEF OnceIn
  <2> QED BY <2>1
<1> QED BY <1>1, <1>3, <1>4 DEF ItemsOf

LEMMA LinesKept ==
  ASSUME LinesOnce, UNCHANGED queueVars, worker'.msg \in {NoCall, worker.msg},
         worker'.msg = NoCall => worker'.part = 0
  PROVE  LinesOnce'
<1>1. text' = text /\ media' = media
  BY DEF queueVars
<1>2. \A c \in Calls : worker'.msg = c => ~Waiting(c)'
  BY <1>1 DEF LinesOnce, Waiting
<1> QED BY <1>1, <1>2 DEF LinesOnce, OnceIn, ItemsOf

LEMMA LinesQueued ==
  ASSUME OutboundInv, LinesOnce, NEW c \in Calls, Enqueue(c)
  PROVE  LinesOnce'
<1>1. ~Queued(c) /\ worker' = worker
  BY DEF OutboundInv, CallInv, Queued, Enqueue
<1>2. ~Waiting(c) /\ worker.msg # c
  BY <1>1 DEF OutboundInv, InHandIsQueued
<1>3. \A d \in Calls : worker'.msg = d => ~Waiting(d)'
  BY <1>1, <1>2, WaitingEnqueued DEF OutboundInv, LinesOnce
<1>4. c \notin ItemsOf(text) /\ c \notin ItemsOf(media)
  BY <1>2, WaitingItems
<1>5. text \in Seq(Calls) /\ media \in Seq(Calls)
  BY DEF OutboundInv, TypeOK
<1>6. CASE c \in Media
  <2>1. media' = Append(media, c) /\ text' = text
    BY <1>6 DEF Enqueue
  <2>2. OnceIn(media') /\ ItemsOf(media') = ItemsOf(media) \cup {c}
    BY <1>4, <1>5, <2>1, OnceAppended, ItemsAppended DEF LinesOnce
  <2>3. OnceIn(media)' /\ ItemsOf(media)' \subseteq Media
    BY <1>6, <2>2 DEF LinesOnce, OnceIn, ItemsOf
  <2>4. OnceIn(text)' /\ ItemsOf(text)' \cap Media = {}
    BY <2>1 DEF LinesOnce, OnceIn, ItemsOf
  <2> QED BY <1>1, <1>3, <2>3, <2>4 DEF LinesOnce
<1>7. CASE c \notin Media
  <2>1. text' = Append(text, c) /\ media' = media
    BY <1>7 DEF Enqueue
  <2>2. OnceIn(text') /\ ItemsOf(text') = ItemsOf(text) \cup {c}
    BY <1>4, <1>5, <2>1, OnceAppended, ItemsAppended DEF LinesOnce
  <2>a. ItemsOf(text') \cap Media = {}
    BY <1>7, <2>2 DEF LinesOnce
  <2>3. OnceIn(text)' /\ ItemsOf(text)' \cap Media = {}
    BY <2>2, <2>a DEF OnceIn, ItemsOf
  <2>4. OnceIn(media)' /\ ItemsOf(media)' \subseteq Media
    BY <2>1 DEF LinesOnce, OnceIn, ItemsOf
  <2> QED BY <1>1, <1>3, <2>3, <2>4 DEF LinesOnce
<1> QED BY <1>6, <1>7

\* Taking the head of a line leaves the rest in order; the head is in hand.
LEMMA LinesTaken ==
  ASSUME OutboundInv, LinesOnce, TakeText \/ TakeMedia
  PROVE  LinesOnce'
<1>0. text \in Seq(Calls) /\ media \in Seq(Calls)
  BY DEF OutboundInv, TypeOK
<1>1. CASE TakeText
  <2>1. text # <<>> /\ text' = Tail(text) /\ media' = media /\ worker'.msg = Head(text)
    BY <1>1 DEF TakeText, Take
  <2>2. /\ OnceIn(text') /\ Head(text) \notin ItemsOf(text')
        /\ ItemsOf(text) = ItemsOf(text') \cup {Head(text)}
    BY <1>0, <2>1, OnceTaken, ItemsTaken DEF LinesOnce
  <2>3. Head(text) \notin Media
    BY <2>2 DEF LinesOnce
  <2>4. OnceIn(text)' /\ OnceIn(media)' /\ ItemsOf(text)' \cap Media = {} /\ ItemsOf(media)' \subseteq Media
    BY <2>1, <2>2 DEF LinesOnce, OnceIn, ItemsOf
  <2>5. Head(text) \notin ItemsOf(text') /\ Head(text) \notin ItemsOf(media')
    BY <2>1, <2>2, <2>3 DEF LinesOnce
  <2>6. \A c \in Calls : worker'.msg = c => ~Waiting(c)'
    BY <2>1, <2>5 DEF Waiting, ItemsOf
  <2>7. worker'.msg # NoCall
    BY <2>1, <1>0, ItemsTaken
  <2> QED BY <2>4, <2>6, <2>7 DEF LinesOnce
<1>2. CASE TakeMedia
  <2>1. media # <<>> /\ media' = Tail(media) /\ text' = text /\ worker'.msg = Head(media)
    BY <1>2 DEF TakeMedia, Take
  <2>2. /\ OnceIn(media') /\ Head(media) \notin ItemsOf(media')
        /\ ItemsOf(media) = ItemsOf(media') \cup {Head(media)}
    BY <1>0, <2>1, OnceTaken, ItemsTaken DEF LinesOnce
  <2>3. Head(media) \in Media
    BY <2>2 DEF LinesOnce
  <2>4. OnceIn(text)' /\ OnceIn(media)' /\ ItemsOf(text)' \cap Media = {} /\ ItemsOf(media)' \subseteq Media
    BY <2>1, <2>2 DEF LinesOnce, OnceIn, ItemsOf
  <2>5. Head(media) \notin ItemsOf(text') /\ Head(media) \notin ItemsOf(media')
    BY <2>1, <2>2, <2>3 DEF LinesOnce
  <2>6. \A c \in Calls : worker'.msg = c => ~Waiting(c)'
    BY <2>1, <2>5 DEF Waiting, ItemsOf
  <2>7. worker'.msg # NoCall
    BY <2>1, <1>0, ItemsTaken
  <2> QED BY <2>4, <2>6, <2>7 DEF LinesOnce
<1> QED BY <1>1, <1>2

\* The calls that stand in a line, or are in hand, after a step were there
\* before, except the one that was queued.
LEMMA LinesStep == ASSUME OutboundInv, LinesOnce, [Next]_vars PROVE LinesOnce'
<1>1. ASSUME NEW c \in Calls, SendStep(c) PROVE LinesOnce'
  <2>1. CASE Enqueue(c)
    BY <2>1, LinesQueued
  <2>2. CASE UNCHANGED queueVars
    BY <1>1, <2>2, SendHands, LinesKept DEF LinesOnce
  <2> QED BY <1>1, <2>1, <2>2, SendHands
<1>2. CASE WorkerStep
  <2>1. CASE TakeText \/ TakeMedia
    BY <2>1, LinesTaken
  <2>2. CASE Carrying /\ UNCHANGED <<queueVars, platform>>
    BY <2>2, LinesKept DEF Carrying, LinesOnce
  <2>3. CASE worker.msg # NoCall /\ Settling /\ UNCHANGED queueVars
    <3>1. worker'.msg \in {NoCall, worker.msg}
      BY <2>3, SettleHands DEF Settling, OutboundInv
    <3>2. worker'.msg = NoCall => worker'.part = 0
      BY <2>3 DEF Settling, Settle, Rest, OutboundInv, TypeOK
    <3> QED BY <2>3, <3>1, <3>2, LinesKept
  <2> QED BY <1>2, <2>1, <2>2, <2>3, WorkerCases DEF OutboundInv
<1>3. CASE (\E k \in Keys : Expire(k)) \/ ContextDone \/ Stop \/ UNCHANGED vars
  <2>1. UNCHANGED queueVars /\ worker' = worker
    BY <1>3 DEF Expire, ContextDone, Stop, vars
  <2> QED BY <2>1, LinesKept DEF LinesOnce
<1> QED BY <1>1, <1>2, <1>3 DEF Next
-----------------------------------------------------------------------------
Hand == [msg |-> worker.msg, part |-> worker.part]
Outcome == [c \in Calls |-> IF Handled(c) /\ Alone(c) THEN deliveries[Id(c)] ELSE "none"]

LEMMA AloneIsUnshared ==
  /\ \A c \in Calls : Delivery!Unshared(c, expired) <=> Alone(c)
  /\ \A c \in Calls : Delivery!Unshared(c, expired') <=> Alone(c)'
<1>1. \A c, d \in Calls : c # d => (Delivery!SameKey(c, d) <=> Id(d) = Id(c))
  BY SameId DEF Delivery!SameKey, Id, Keyed
<1> QED BY <1>1 DEF Delivery!Unshared, Alone, Id, Keyed

\* The outcomes stay where no message becomes handled and no key expires.
LEMMA OutcomeKept ==
  ASSUME OutboundInv, [Next]_vars, expired' = expired,
         \A c \in Calls : Handled(c)' <=> Handled(c)
  PROVE  Outcome' = Outcome
<1>1. \A c \in Calls : Alone(c)' <=> Alone(c)
  BY DEF Alone, Id, Keyed
<1>2. \A c \in Calls : Id(c)' = Id(c)
  BY DEF Id, Keyed
<1>3. \A c \in Calls : Handled(c) /\ Alone(c) => deliveries'[Id(c)] = deliveries[Id(c)]
  BY SettledKept DEF OutboundInv
<1> QED BY <1>1, <1>2, <1>3 DEF Outcome

\* What the abstract specification sees of a step.
Shown == <<receipt, text, media, Hand, Outcome, expired, platform>>

LEMMA ShownKept == ASSUME UNCHANGED Shown PROVE UNCHANGED Delivery!deliveryVars
  BY DEF Shown, Hand, Outcome, Delivery!deliveryVars

LEMMA HandledKept ==
  ASSUME UNCHANGED <<receipt, queueVars>>, worker'.msg = worker.msg
  PROVE  \A c \in Calls : Handled(c)' <=> Handled(c)
  BY WaitingKept DEF Handled

\* A call is turned down, or keeps its answer for later.
LEMMA AnswerCases ==
  ASSUME TypeOK, CallInv, NEW c \in Calls, SendStep(c), ~Enqueue(c)
  PROVE  /\ UNCHANGED <<queueVars, expired, worker, platform>>
         /\ \/ receipt' = receipt
            \/ /\ receipt[c] = "none"
               /\ \E answer \in {"refused", "duplicate"} : receipt' = [receipt EXCEPT ![c] = answer]
<1> USE DEF TypeOK, CallInv, Return, Goto, Fail
<1> QED BY DEF SendStep, Reject, Authorize, Reserve, FindWorker, RecordQueued, QueueFull, Forget, Unreserve

LEMMA SendDelivers ==
  ASSUME OutboundInv, LinesOnce, NEW c \in Calls, SendStep(c)
  PROVE  [Delivery!DeliveryNext]_Delivery!deliveryVars
<1>0. [Next]_vars /\ TypeOK /\ CallInv
  BY DEF Next, OutboundInv
<1>1. CASE Enqueue(c)
  <2>1. /\ receipt[c] = "none" /\ call[c] = "enqueue" /\ receipt' = [receipt EXCEPT ![c] = "queued"]
        /\ text' = IF c \in Media THEN text ELSE Append(text, c)
        /\ media' = IF c \in Media THEN Append(media, c) ELSE media
        /\ UNCHANGED <<expired, worker, platform>>
    BY <1>0, <1>1 DEF Enqueue, Return, CallInv
  <2>2. \A d \in Calls : Handled(d)' <=> Handled(d)
    <3>1. \A d \in Calls : Waiting(d)' <=> (Waiting(d) \/ d = c)
      BY <1>0, <1>1, WaitingEnqueued
    <3>2. ~Handled(c) /\ ~Handled(c)'
      BY <2>1, <3>1 DEF Handled
    <3>3. \A d \in Calls : d # c => receipt'[d] = receipt[d]
      BY <1>0, OthersKept
    <3> QED BY <2>1, <3>1, <3>2, <3>3 DEF Handled
  <2>3. Outcome' = Outcome /\ Hand' = Hand
    BY <1>0, <2>1, <2>2, OutcomeKept DEF Hand
  <2>4. ASSUME NEW d \in Calls \ {c}, Delivery!SameKey(c, d), {c, d} \cap Media = {},
               receipt[d] = "queued"
        PROVE  Key[c] \in expired
    <3>1. c \in Texts /\ d \in Texts /\ Key[c] = Key[d]
      BY <2>4 DEF Texts, Keyed, Delivery!SameKey
    <3>2. Holds(c) /\ Queued(d)
      BY <2>1, <2>4, <3>1 DEF Holds, Holding, Queued
    <3> QED BY <3>1, <3>2 DEF OutboundInv, KeyInv, HolderIsAlone
  <2>5. Delivery!Accept(c)
    BY <2>1, <2>3, <2>4 DEF Delivery!Accept, Hand, Outcome
  <2> QED BY <2>5 DEF Delivery!DeliveryNext
<1>2. CASE ~Enqueue(c)
  <2>1. UNCHANGED <<queueVars, expired, worker, platform>>
    BY <1>0, <1>2, AnswerCases
  <2>2. \A d \in Calls : (receipt'[d] = "queued") <=> (receipt[d] = "queued")
    BY <1>0, <1>2, AnswerCases DEF TypeOK
  <2>3. Outcome' = Outcome /\ Hand' = Hand
    <3>1. \A d \in Calls : Handled(d)' <=> Handled(d)
      BY <2>1, <2>2, WaitingKept DEF Handled
    <3> QED BY <1>0, <2>1, <3>1, OutcomeKept DEF Hand
  <2>4. text' = text /\ media' = media
    BY <2>1 DEF queueVars
  <2>5. CASE receipt' = receipt
    <3>1. UNCHANGED Shown
      BY <2>1, <2>3, <2>4, <2>5 DEF Shown
    <3> QED BY <3>1, ShownKept
  <2>6. CASE /\ receipt[c] = "none"
             /\ \E answer \in {"refused", "duplicate"} : receipt' = [receipt EXCEPT ![c] = answer]
    <3>1. Delivery!TurnDown(c)
      BY <2>1, <2>3, <2>4, <2>6 DEF Delivery!TurnDown, Hand, Outcome
    <3> QED BY <3>1 DEF Delivery!DeliveryNext
  <2> QED BY <1>0, <1>2, <2>5, <2>6, AnswerCases
<1> QED BY <1>1, <1>2

LEMMA TakeDelivers ==
  ASSUME OutboundInv, LinesOnce, TakeText \/ TakeMedia
  PROVE  Delivery!Take
<1>0. [Next]_vars /\ TypeOK
  BY DEF Next, WorkerStep, OutboundInv
<1>1. UNCHANGED <<receipt, expired, platform>>
  BY DEF TakeText, TakeMedia, workerKeeps, callVars
<1>2. Outcome' = Outcome
  <2>1. \A c \in Calls : Handled(c)' <=> Handled(c)
    BY <1>0, <1>1, WaitingTaken DEF Handled
  <2> QED BY <1>0, <1>1, <2>1, OutcomeKept
<1>3. worker.msg = NoCall /\ worker.part = 0
  BY DEF TakeText, TakeMedia, OutboundInv, TypeOK, LinesOnce
<1>4. Hand = Delivery!Nothing
  BY <1>3 DEF Hand, Delivery!Nothing
<1>5. CASE TakeText
  <2>1. text # <<>> /\ text' = Tail(text) /\ media' = media
    BY <1>5 DEF TakeText
  <2>2. Head(text) \in Calls /\ Head(text) \notin Media
    BY <2>1, ItemsTaken DEF OutboundInv, TypeOK, LinesOnce
  <2>3. \/ Hand' = [msg |-> Head(text), part |-> 0]
        \/ Chunks[Head(text)] > 1 /\ Hand' = [msg |-> Head(text), part |-> 1]
    BY <1>5, <2>2 DEF TakeText, Take, Splits, Hand
  <2> QED BY <1>1, <1>2, <1>4, <2>1, <2>3 DEF Delivery!Take, Hand, Outcome
<1>6. CASE TakeMedia
  <2>1. media # <<>> /\ media' = Tail(media) /\ text' = text
    BY <1>6 DEF TakeMedia
  <2>2. Head(media) \in Media
    BY <2>1, ItemsTaken DEF OutboundInv, TypeOK, LinesOnce
  <2>3. Hand' = [msg |-> Head(media), part |-> 0]
    BY <1>6, <2>2 DEF TakeMedia, Take, Splits, Hand
  <2> QED BY <1>1, <1>2, <1>4, <2>1, <2>3 DEF Delivery!Take, Hand, Outcome
<1> QED BY <1>5, <1>6

\* What a part that arrived, or one that failed, does to the message in hand.
LEMMA SettleDelivers ==
  ASSUME OutboundInv, LinesOnce, [Next]_vars, worker.msg # NoCall,
         UNCHANGED <<callVars, queueVars>>, NEW state \in Final, Settle(state)
  PROVE  IF state = "acknowledged" /\ worker.part \in 1 .. Chunks[worker.msg] - 1
         THEN Hand' = [Hand EXCEPT !.part = @ + 1] /\ Outcome' = Outcome
         ELSE /\ Hand' = Delivery!Nothing
              /\ Outcome' = [Outcome EXCEPT ![worker.msg] =
                               IF Delivery!Unshared(worker.msg, expired) THEN state ELSE "none"]
<1>a. PICK m \in Calls : m = worker.msg
  BY RangeType DEF OutboundInv
<1>0. /\ TypeOK /\ expired' = expired /\ receipt' = receipt
      /\ \A c \in Calls : (Waiting(c)' <=> Waiting(c)) /\ (Alone(c)' <=> Alone(c)) /\ Id(c)' = Id(c)
  BY WaitingKept DEF OutboundInv, callVars, Alone, Id, Keyed
<1>1. CASE state = "acknowledged" /\ worker.part \in 1 .. Chunks[m] - 1
  <2>1. worker'.msg = m /\ worker'.part = worker.part + 1
    BY <1>a, <1>0, <1>1 DEF Settle, TypeOK
  <2>2. Outcome' = Outcome
    BY <1>a, <1>0, <2>1, HandledKept, OutcomeKept DEF callVars
  <2> QED BY <1>a, <1>1, <2>1, <2>2 DEF Hand
<1>2. CASE ~(state = "acknowledged" /\ worker.part \in 1 .. Chunks[m] - 1)
  <2>1. worker'.msg = NoCall /\ worker'.part = 0
    BY <1>a, <1>0, <1>2 DEF Settle, Rest, TypeOK
  <2>2. Handled(m)' /\ deliveries'[Id(m)] = state
    <3>1. receipt[m] = "queued" /\ ~Waiting(m)
      BY <1>a, <1>0 DEF OutboundInv, InHandIsQueued, Queued, LinesOnce
    <3>2. deliveries'[Id(m)] = state
      BY <1>a, <1>0, IdType DEF Settle, Record, TypeOK
    <3> QED BY <1>0, <2>1, <3>1, <3>2 DEF Handled
  <2>3. \A c \in Calls : c # m => (Handled(c)' <=> Handled(c))
    BY <1>a, <1>0, <2>1 DEF Handled
  <2>4. \A c \in Calls : Handled(c) /\ Alone(c) => deliveries'[Id(c)] = deliveries[Id(c)]
    BY SettledKept DEF OutboundInv
  <2>5. Outcome' = [Outcome EXCEPT ![m] = IF Alone(m) THEN state ELSE "none"]
    <3>1. ASSUME NEW c \in Calls
          PROVE  (IF Handled(c)' /\ Alone(c)' THEN deliveries'[Id(c)] ELSE "none")
                   = IF c = m THEN IF Alone(m) THEN state ELSE "none"
                     ELSE IF Handled(c) /\ Alone(c) THEN deliveries[Id(c)] ELSE "none"
      BY <1>0, <2>2, <2>3, <2>4
    <3>2. Outcome' = [c \in Calls |-> IF Handled(c)' /\ Alone(c)' THEN deliveries'[Id(c)] ELSE "none"]
      BY <1>0 DEF Outcome
    <3> QED BY <1>0, <3>1, <3>2 DEF Outcome
  <2>6. Delivery!Unshared(m, expired) <=> Alone(m)
    BY AloneIsUnshared
  <2>7. Hand' = Delivery!Nothing
    BY <2>1 DEF Hand, Delivery!Nothing
  <2> QED BY <1>a, <1>2, <2>5, <2>6, <2>7
<1> QED BY <1>1, <1>2

LEMMA WorkerDelivers ==
  ASSUME OutboundInv, LinesOnce, WorkerStep
  PROVE  [Delivery!DeliveryNext]_Delivery!deliveryVars
<1>0. [Next]_vars /\ TypeOK
  BY DEF Next, OutboundInv
<1>1. CASE TakeText \/ TakeMedia
  BY <1>1, TakeDelivers DEF Delivery!DeliveryNext
<1>2. CASE StartDraining \/ Exit \/ MarkSending \/ TokenTaken \/ Retryable \/ BackedOff
  <2>1. Carrying /\ UNCHANGED <<callVars, queueVars, platform>>
    BY <1>0, <1>2 DEF StartDraining, Exit, MarkSending, TokenTaken, Retryable, BackedOff, Carrying,
       TypeOK, workerKeeps, queueVars
  <2>2. Outcome' = Outcome
    BY <1>0, <2>1, HandledKept, OutcomeKept DEF callVars, Carrying
  <2>3. UNCHANGED Shown
    BY <2>1, <2>2 DEF Shown, Carrying, Hand, callVars, queueVars
  <2> QED BY <2>3, ShownKept
<1>3. CASE Acknowledged
  <2>1. /\ worker.msg # NoCall /\ Settle("acknowledged") /\ UNCHANGED <<callVars, queueVars>>
        /\ platform' = platform \cup {Hand}
    BY <1>0, <1>3 DEF Acknowledged, TypeOK, workerKeeps, queueVars, Hand
  <2>2. Hand.msg = worker.msg /\ Hand.part = worker.part
    BY DEF Hand
  <2>3. UNCHANGED <<receipt, text, media, expired>>
    BY <2>1 DEF callVars, queueVars
  <2>4. IF Hand.part \in 1 .. Chunks[Hand.msg] - 1
        THEN Hand' = [Hand EXCEPT !.part = @ + 1] /\ Outcome' = Outcome
        ELSE /\ Hand' = Delivery!Nothing
             /\ Outcome' = [Outcome EXCEPT ![Hand.msg] =
                     IF Delivery!Unshared(Hand.msg, expired) THEN "acknowledged" ELSE "none"]
    BY <1>0, <2>1, <2>2, SettleDelivers DEF Final
  <2>5. Delivery!HandOver
    BY <2>1, <2>2, <2>3, <2>4 DEF Delivery!HandOver, Delivery!Settle, Hand, Outcome
  <2> QED BY <2>5 DEF Delivery!DeliveryNext
<1>4. CASE Failed \/ Interrupted
  <2>1. PICK result \in {"failed", "cancelled"} : Settle(result)
    BY <1>4 DEF Failed, Interrupted
  <2>2. worker.msg # NoCall /\ UNCHANGED <<callVars, queueVars, platform>>
    BY <1>0, <1>4 DEF Failed, Interrupted, TypeOK, workerKeeps, queueVars
  <2>3. Hand.msg = worker.msg /\ UNCHANGED <<receipt, text, media, expired>>
    BY <2>2 DEF Hand, callVars, queueVars
  <2>4. /\ Hand' = Delivery!Nothing
        /\ Outcome' = [Outcome EXCEPT ![Hand.msg] =
                     IF Delivery!Unshared(Hand.msg, expired) THEN result ELSE "none"]
    BY <1>0, <2>1, <2>2, <2>3, SettleDelivers DEF Final
  <2>5. Delivery!GiveUp
    BY <2>1, <2>2, <2>3, <2>4 DEF Delivery!GiveUp, Delivery!Settle, Hand, Outcome
  <2> QED BY <2>5 DEF Delivery!DeliveryNext
<1> QED BY <1>1, <1>2, <1>3, <1>4 DEF WorkerStep

LEMMA ExpiryDelivers ==
  ASSUME OutboundInv, NEW k \in Keys, Expire(k)
  PROVE  Delivery!Expire(k)
<1>1. /\ expired' = expired \cup {k} /\ UNCHANGED <<receipt, text, media, deliveries, worker, platform>>
      /\ UNCHANGED queueVars
  BY DEF Expire, queueVars
<1>2. \A c \in Calls : (Handled(c)' <=> Handled(c)) /\ Id(c)' = Id(c)
  BY <1>1, HandledKept DEF Id, Keyed
<1>3. \A c \in Calls : Alone(c)' => Alone(c)
  BY <1>1, AloneBefore
<1>4. Outcome' = [c \in Calls |-> IF Delivery!Unshared(c, expired') THEN Outcome[c] ELSE "none"]
  BY <1>1, <1>2, <1>3, AloneIsUnshared DEF Outcome
<1> QED BY <1>1, <1>4 DEF Delivery!Expire, Hand, Outcome

LEMMA DeliveryStep ==
  ASSUME OutboundInv, LinesOnce, [Next]_vars
  PROVE  [Delivery!DeliveryNext]_Delivery!deliveryVars
<1>1. CASE \E c \in Calls : SendStep(c)
  BY <1>1, SendDelivers
<1>2. CASE WorkerStep
  BY <1>2, WorkerDelivers
<1>3. ASSUME NEW k \in Keys, Expire(k) PROVE [Delivery!DeliveryNext]_Delivery!deliveryVars
  BY <1>3, ExpiryDelivers DEF Delivery!DeliveryNext, Keys
<1>4. CASE ContextDone \/ Stop \/ UNCHANGED vars
  <2>1. UNCHANGED <<callVars, queueVars, worker, platform>>
    BY <1>4 DEF ContextDone, Stop, vars
  <2>2. Outcome' = Outcome
    BY <2>1, HandledKept, OutcomeKept DEF callVars
  <2>3. UNCHANGED Shown
    BY <2>1, <2>2 DEF Shown, Hand, callVars, queueVars
  <2> QED BY <2>3, ShownKept
<1> QED BY <1>1, <1>2, <1>3, <1>4 DEF Next

LEMMA DeliveryBegins == Init => LinesOnce /\ Delivery!DeliveryInit
<1> SUFFICES ASSUME Init PROVE LinesOnce /\ Delivery!DeliveryInit
  OBVIOUS
<1>1. text = <<>> /\ media = <<>> /\ Len(text) = 0 /\ Len(media) = 0
      /\ worker.msg = NoCall /\ worker.part = 0
  BY DEF Init, Idle
<1>2. 1 .. 0 = {}
  OBVIOUS
<1>3. LinesOnce
  BY <1>1, <1>2 DEF LinesOnce, OnceIn, ItemsOf
<1>4. Hand = Delivery!Nothing
  BY <1>1 DEF Hand, Delivery!Nothing
<1>5. Outcome = [c \in Calls |-> "none"]
  BY DEF Init, Outcome, Handled
<1> QED BY <1>1, <1>3, <1>4, <1>5 DEF Init, Delivery!DeliveryInit, Hand, Outcome

(* What ChannelCore promises those who send: every step of the callers,    *)
(* the worker, the clean-up after a full queue, the expiry of keys and     *)
(* Stop is a step of MessageDelivery or leaves what it shows alone.  So a  *)
(* message is taken in its turn, its parts are handed over one after       *)
(* another up to the first that fails, and it has one outcome for good.    *)
THEOREM ImplementsDelivery == Spec => DeliversAsPromised
<1>1. OutboundInv /\ LinesOnce /\ [Next]_vars => LinesOnce'
  BY LinesStep
<1>2. OutboundInv /\ LinesOnce /\ [Next]_vars => [Delivery!DeliveryNext]_Delivery!deliveryVars
  BY DeliveryStep
<1> QED BY <1>1, <1>2, DeliveryBegins, OutboundInductive, PTL
        DEF Spec, DeliversAsPromised, Delivery!DeliverySpec
=============================================================================
