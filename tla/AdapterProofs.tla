---------------------------- MODULE AdapterProofs -----------------------------
(***************************************************************************)
(* What the adapters promise around a crash, a broken session and a stop:  *)
(* Telegram's loop loses no update, and no adapter says that it runs when  *)
(* it does not.                                                            *)
(***************************************************************************)
EXTENDS TelegramPoll, ChannelStart, TLAPS

(***************************************************************************)
(* That the Telegram adapter loses no update and repeats none between two  *)
(* crashes, for any number of updates and crashes.  UpdatesHandled is not  *)
(* inductive: what a question confirms is decided by the offset, so the    *)
(* invariant must say that everything below the offset has been sunk or is *)
(* in hand, and that a batch leaves no gap above the offset.               *)
(***************************************************************************)
USE PollAssumption

PollTypes ==
  /\ arrived \in Nat /\ confirmed \in Nat /\ offset \in Nat
  /\ batch \subseteq UpdateIds /\ hand \subseteq UpdateIds
  /\ seenUpdates \subseteq UpdateIds
  /\ arrived <= MaxUpdates
  /\ restarts \in Nat
  /\ sunk \in [UpdateIds -> Nat]

\* Below the offset, and among the updates seen, nothing has been left out.
NothingSkipped ==
  \A u \in UpdateIds : u < offset \/ u \in seenUpdates => sunk[u] > 0 \/ u \in hand

ConfirmedSunk == \A u \in UpdateIds : u <= confirmed => sunk[u] > 0

\* The batch begins at the offset or above it, and has no gap from there on.
BatchIsNext ==
  \A u \in batch :
    /\ u >= offset
    /\ \A v \in UpdateIds : v < u => v \in batch \/ v < offset \/ v <= confirmed

\* An update that may still be sunk has not been sunk since the last crash.
SunkOnce ==
  \A u \in UpdateIds :
    sunk[u] <= IF u \in seenUpdates \ hand THEN restarts + 1 ELSE restarts

OneInHand == hand \subseteq seenUpdates /\ \A u, v \in hand : u = v

PollInv ==
  /\ PollTypes /\ NothingSkipped /\ ConfirmedSunk /\ BatchIsNext /\ SunkOnce /\ OneInHand

LEMMA PollInitially == PollInit => PollInv
BY DEF PollInit, PollInv, PollTypes, NothingSkipped, ConfirmedSunk, BatchIsNext, SunkOnce,
       OneInHand, UpdateIds

(* A question is asked with nothing in hand, so what it confirms is sunk.  *)
LEMMA ConfirmKeeps ==
  ASSUME PollInv, Confirm, batch = {}, hand = {}, UNCHANGED sunk
  PROVE  /\ confirmed' \in Nat /\ confirmed' >= offset - 1 /\ confirmed' >= confirmed
         /\ ConfirmedSunk'
BY DEF PollInv, PollTypes, Confirm, Larger, NothingSkipped, ConfirmedSunk, UpdateIds

LEMMA PollSteps == PollInv /\ [PollNext]_pollVars => PollInv'
<1> SUFFICES ASSUME PollInv, [PollNext]_pollVars PROVE PollInv'
  OBVIOUS
<1> USE DEF PollInv
<1>1. CASE UpdateArrives
  BY <1>1 DEF UpdateArrives, PollTypes, NothingSkipped, ConfirmedSunk, BatchIsNext, SunkOnce,
              OneInHand, UpdateIds
<1>2. CASE Poll
  <2>1. ConfirmedSunk' /\ confirmed' \in Nat /\ confirmed' >= offset - 1
    BY <1>2, ConfirmKeeps DEF Poll
  <2>2. PICK last \in confirmed' .. arrived : batch' = confirmed' + 1 .. last
    BY <1>2 DEF Poll
  <2>3. last \in Nat /\ last <= MaxUpdates /\ arrived' = arrived /\ offset' = offset
    BY <1>2, <2>1, <2>2 DEF Poll, PollTypes
  <2>4. \A u : u \in batch' <=> u \in Nat /\ confirmed' < u /\ u <= last
    BY <2>1, <2>2, <2>3
  <2>5. PollTypes'
    <3>1. batch' \subseteq UpdateIds
      <4> SUFFICES ASSUME NEW u \in batch' PROVE u \in UpdateIds
        OBVIOUS
      <4>1. u \in Nat /\ confirmed' < u /\ u <= last
        BY <2>4
      <4> QED
        BY <4>1, <2>1, <2>3 DEF UpdateIds
    <3>2. UNCHANGED <<arrived, offset, hand, seenUpdates, restarts, sunk, UpdateIds>>
      BY <1>2 DEF Poll, UpdateIds
    <3> QED
      BY <2>1, <3>1, <3>2 DEF PollTypes
  <2>6. BatchIsNext'
    BY <2>1, <2>3, <2>4 DEF PollTypes, BatchIsNext, UpdateIds
  <2>7. NothingSkipped' /\ SunkOnce' /\ OneInHand'
    BY <1>2 DEF Poll, NothingSkipped, SunkOnce, OneInHand
  <2> QED
    BY <2>1, <2>5, <2>6, <2>7
<1>3. CASE PollError
  <2>1. ConfirmedSunk' /\ confirmed' \in Nat
    BY <1>3, ConfirmKeeps DEF PollError, ConfirmedSunk, PollTypes
  <2> QED
    BY <1>3, <2>1 DEF PollError, PollTypes, NothingSkipped, BatchIsNext, SunkOnce, OneInHand
<1>4. CASE Awake
  BY <1>4 DEF Awake, platformVars, PollTypes, NothingSkipped, ConfirmedSunk, BatchIsNext,
              SunkOnce, OneInHand
<1>5. ASSUME NEW u \in UpdateIds, TakeUpdate(u) PROVE PollInv'
  <2>1. PollTypes'
    BY <1>5 DEF TakeUpdate, platformVars, PollTypes, UpdateIds
  <2>2. \A v \in UpdateIds : v < u => sunk[v] > 0
    BY <1>5 DEF TakeUpdate, PollTypes, BatchIsNext, NothingSkipped, ConfirmedSunk, UpdateIds
  <2>3. NothingSkipped'
    BY <1>5, <2>2 DEF TakeUpdate, PollTypes, NothingSkipped, UpdateIds
  <2>4. BatchIsNext'
    BY <1>5 DEF TakeUpdate, platformVars, PollTypes, BatchIsNext, UpdateIds
  <2>5. ConfirmedSunk'
    BY <1>5 DEF TakeUpdate, platformVars, ConfirmedSunk
  <2>6. SunkOnce'
    BY <1>5 DEF TakeUpdate, PollTypes, SunkOnce
  <2>7. OneInHand'
    BY <1>5 DEF TakeUpdate, OneInHand
  <2> QED
    BY <2>1, <2>3, <2>4, <2>5, <2>6, <2>7
<1>6. ASSUME NEW u \in UpdateIds, Sink(u) PROVE PollInv'
  <2>1. sunk' \in [UpdateIds -> Nat] /\ \A v \in UpdateIds : sunk'[v] >= sunk[v]
    BY <1>6 DEF Sink, PollTypes
  <2>2. PollTypes'
    BY <1>6, <2>1 DEF Sink, platformVars, PollTypes
  <2>3. NothingSkipped'
    BY <1>6, <2>1 DEF Sink, PollTypes, NothingSkipped, OneInHand
  <2>4. ConfirmedSunk'
    BY <1>6, <2>1 DEF Sink, platformVars, PollTypes, ConfirmedSunk
  <2>5. SunkOnce'
    BY <1>6 DEF Sink, PollTypes, SunkOnce, OneInHand, NothingSkipped
  <2> QED
    BY <1>6, <2>2, <2>3, <2>4, <2>5 DEF Sink, platformVars, BatchIsNext, OneInHand
<1>7. CASE PollStops
  BY <1>7 DEF PollStops, platformVars, PollTypes, NothingSkipped, ConfirmedSunk, BatchIsNext,
              SunkOnce, OneInHand
<1>8. CASE PollRestart
  BY <1>8 DEF PollRestart, platformVars, PollTypes, NothingSkipped, ConfirmedSunk, BatchIsNext,
              SunkOnce, OneInHand, UpdateIds
<1>9. CASE UNCHANGED pollVars
  BY <1>9 DEF pollVars, platformVars, PollTypes, NothingSkipped, ConfirmedSunk, BatchIsNext,
              SunkOnce, OneInHand
<1> QED
  BY <1>1, <1>2, <1>3, <1>4, <1>5, <1>6, <1>7, <1>8, <1>9 DEF PollNext, LoopStep

(* The platform forgets no update that the adapter has not given to its    *)
(* sink (poll, handleUpdate), and none is sunk twice between two crashes.  *)
THEOREM PollLosesNothing == PollSpec => []UpdatesHandled
<1>1. PollInv => UpdatesHandled
  BY DEF PollInv, PollTypes, ConfirmedSunk, SunkOnce, UpdatesHandled
<1> QED
  BY PollInitially, PollSteps, <1>1, PTL DEF PollSpec

(* The offset is never more than one ahead of what the platform has.       *)
LEMMA PollTypesKept == PollTypeOK /\ [PollNext]_pollVars => PollTypeOK'
<1> SUFFICES ASSUME PollTypeOK, [PollNext]_pollVars PROVE PollTypeOK'
  OBVIOUS
<1>1. CASE UpdateArrives
  BY <1>1 DEF UpdateArrives, PollTypeOK, UpdateIds
<1>2. CASE Poll
  <2>1. confirmed' \in 0 .. arrived
    BY <1>2 DEF Poll, Confirm, Larger, PollTypeOK
  <2>2. PICK last \in confirmed' .. arrived : batch' = confirmed' + 1 .. last
    BY <1>2 DEF Poll
  <2>3. batch' \subseteq 1 .. arrived
    <3>1. arrived \in Nat /\ confirmed' \in Nat /\ last \in Nat /\ last <= arrived
      BY <2>1, <2>2 DEF PollTypeOK
    <3>2. \A i : i \in batch' <=> i \in Nat /\ confirmed' < i /\ i <= last
      BY <2>2, <3>1
    <3>3. \A i \in batch' : i \in 1 .. arrived
      BY <3>1, <3>2
    <3> QED
      BY <3>3
  <2> QED
    BY <1>2, <2>1, <2>3 DEF Poll, PollTypeOK, UpdateIds
<1>3. CASE PollError
  <2>1. confirmed' \in 0 .. arrived
    BY <1>3 DEF PollError, Confirm, Larger, PollTypeOK
  <2> QED
    BY <1>3, <2>1 DEF PollError, PollTypeOK, UpdateIds
<1>4. ASSUME NEW u \in UpdateIds, TakeUpdate(u) PROVE PollTypeOK'
  <2>1. /\ u \in 1 .. arrived /\ batch' = batch \ {u} /\ offset' = u + 1
        /\ hand' = {u} \ seenUpdates /\ seenUpdates' = seenUpdates \cup {u}
        /\ UNCHANGED <<arrived, confirmed, polling, sunk, restarts>>
    BY <1>4 DEF TakeUpdate, platformVars, PollTypeOK
  <2>2. offset' \in 0 .. arrived' + 1
    BY <2>1 DEF PollTypeOK
  <2> QED
    BY <2>1, <2>2 DEF PollTypeOK, UpdateIds
<1>5. ASSUME NEW u \in UpdateIds, Sink(u) PROVE PollTypeOK'
  BY <1>5 DEF Sink, platformVars, PollTypeOK, UpdateIds
<1>6. CASE Awake \/ PollStops
  BY <1>6 DEF Awake, PollStops, platformVars, PollTypeOK
<1>7. CASE PollRestart
  <2>1. /\ restarts' \in 0 .. MaxRestarts /\ offset' = 0 /\ polling' = "poll"
        /\ seenUpdates' = {} /\ batch' = {} /\ hand' = {}
        /\ UNCHANGED <<arrived, confirmed, sunk>>
    BY <1>7 DEF PollRestart, platformVars, PollTypeOK
  <2>2. offset' \in 0 .. arrived' + 1
    BY <2>1 DEF PollTypeOK
  <2> QED
    BY <2>1, <2>2 DEF PollTypeOK, UpdateIds
<1>8. CASE UNCHANGED pollVars
  BY <1>8 DEF pollVars, platformVars, PollTypeOK, UpdateIds
<1> QED
  BY <1>1, <1>2, <1>3, <1>4, <1>5, <1>6, <1>7, <1>8 DEF PollNext, LoopStep

LEMMA PollTypesInitially == PollInit => PollTypeOK
BY DEF PollInit, PollTypeOK, UpdateIds

HIDE PollAssumption
-----------------------------------------------------------------------------
(***************************************************************************)
(* That Start and Stop leave no adapter that says it runs, for any number  *)
(* of channels and sessions that end whenever they like.  NoneRunsAfter is *)
(* about the end only: the invariant says how far Start, the rollback and  *)
(* Stop have come, and that nothing has been started beyond that.          *)
(***************************************************************************)

USE StartAssumption

\* Nothing is started yet from channel c on.
Untouched(c) == \A d \in Channels : d >= c => ~running[d] /\ ~session[d]

StartProgress ==
  /\ starting.pc \in {"idle", "adapter"} => Untouched(starting.at)
  /\ starting.pc = "idle" => starting.at = 1
  /\ starting.pc \in {"flag", "worker"} => Untouched(starting.at + 1)
  /\ starting.pc = "flag" =>
       /\ starting.at \in Late
       /\ session[starting.at] \/ starting.at \in diedEarly
  /\ starting.pc = "rollback" => \A d \in Channels : d > starting.at => ~running[d]
  /\ starting.pc = "failed" => \A d \in Channels : ~running[d]
  /\ starting.pc \in {"rollback", "failed"} => contextDone

StopProgress ==
  /\ ending.pc # "no" => starting.pc \in {"started", "failed"} /\ contextDone
  /\ ending.pc = "workers" => ending.at = 1
  /\ ending.pc = "adapters" => \A d \in Channels : d < ending.at => ~running[d]
  /\ ending.pc = "returned" => \A d \in Channels : ~running[d]

StartInv == StartTypeOK /\ StartProgress /\ StopProgress /\ FlagTells

LEMMA ChannelsNat ==
  /\ Channels \subseteq Nat /\ 1 \in Channels /\ Last \in Channels
  /\ \A c \in Channels : c >= 1 /\ c <= Last /\ (c # Last => c + 1 \in Channels)
                         /\ (c # 1 => c - 1 \in Channels)
BY DEF Channels

LEMMA StartInitially == StartInit => StartInv
<1> SUFFICES ASSUME StartInit PROVE StartInv
  OBVIOUS
<1> USE ChannelsNat DEF StartInit
<1>1. \A c \in Channels : ~running[c] /\ ~session[c]
  OBVIOUS
<1>2. StartTypeOK
  BY <1>1 DEF StartTypeOK, StartSteps
<1>3. StartProgress /\ StopProgress
  BY <1>1 DEF StartProgress, StopProgress, Untouched
<1>4. FlagTells
  BY <1>1 DEF FlagTells, Channels
<1> QED
  BY <1>2, <1>3, <1>4 DEF StartInv

LEMMA StartStepKeeps ==
  ASSUME StartInv, NEW c \in Channels, StartStep(c)
  PROVE  StartInv'
<1> USE ChannelsNat DEF StartInv
<1>0. starting = [pc |-> starting.pc, at |-> starting.at]
      /\ starting.pc \in StartSteps /\ starting.at \in Channels
  BY DEF StartTypeOK
<1>1. CASE StartAdapter(c)
  <2>1. starting.pc = "adapter" /\ starting.at = c
    BY <1>1 DEF StartAdapter, At
  <2>2. starting' = [pc |-> IF c \in Late THEN "flag" ELSE "worker", at |-> c]
    BY <1>1 DEF StartAdapter, GoTo
  <2>3. StartTypeOK'
    BY <1>1, <2>2 DEF StartAdapter, StartTypeOK, StartSteps, Channels
  <2>4. StartProgress'
    <3>1. Untouched(c) /\ contextDone' = contextDone /\ diedEarly' = diedEarly
      BY <1>1, <2>1 DEF StartAdapter, StartProgress
    <3>2. \A d \in Channels : d > c => ~running'[d] /\ ~session'[d]
      BY <1>1, <3>1 DEF StartAdapter, StartTypeOK, Untouched
    <3>3. c \in Late => session'[c]
      BY <1>1 DEF StartAdapter, StartTypeOK
    <3> QED
      BY <2>2, <3>1, <3>2, <3>3 DEF StartProgress, Untouched
  <2>5. StopProgress' /\ FlagTells'
    BY <1>1, <2>1, <2>2 DEF StartAdapter, StartTypeOK, StopProgress, FlagTells
  <2> QED
    BY <2>3, <2>4, <2>5
<1>2. CASE SetFlag(c)
  <2>1. starting.pc = "flag" /\ starting.at = c /\ starting' = [pc |-> "worker", at |-> c]
    BY <1>2 DEF SetFlag, At, GoTo
  <2>2. StartTypeOK'
    BY <1>2, <2>1 DEF SetFlag, StartTypeOK, StartSteps, Channels
  <2>3. StartProgress'
    BY <1>2, <2>1 DEF SetFlag, StartTypeOK, StartProgress, Untouched
  <2>4. StopProgress' /\ FlagTells'
    BY <1>2, <2>1 DEF SetFlag, StartTypeOK, StartProgress, StopProgress, FlagTells
  <2> QED
    BY <2>2, <2>3, <2>4
<1>3. CASE StartWorker(c)
  <2>1. starting.pc = "worker" /\ starting.at = c
        /\ starting' = IF c = Last THEN [pc |-> "started", at |-> c]
                                   ELSE [pc |-> "adapter", at |-> c + 1]
    BY <1>3 DEF StartWorker, At, GoTo
  <2>2. StartTypeOK'
    BY <1>3, <2>1 DEF StartWorker, adapterVars, StartTypeOK, StartSteps
  <2>3. StartProgress'
    BY <1>3, <2>1 DEF StartWorker, adapterVars, StartProgress, Untouched
  <2>4. StopProgress' /\ FlagTells'
    BY <1>3, <2>1 DEF StartWorker, adapterVars, StopProgress, FlagTells
  <2> QED
    BY <2>2, <2>3, <2>4
<1>4. CASE AdapterFails(c)
  <2>1. starting.pc = "adapter" /\ starting.at = c
        /\ starting' = IF c = 1 THEN [pc |-> "failed", at |-> c]
                                ELSE [pc |-> "rollback", at |-> c - 1]
    BY <1>4 DEF AdapterFails, At, GoTo
  <2>2. StartTypeOK'
    BY <1>4, <2>1 DEF AdapterFails, adapterVars, StartTypeOK, StartSteps
  <2>3. StartProgress'
    BY <1>4, <2>1 DEF AdapterFails, adapterVars, StartProgress, Untouched
  <2>4. StopProgress' /\ FlagTells'
    BY <1>4, <2>1 DEF AdapterFails, adapterVars, StopProgress, FlagTells
  <2> QED
    BY <2>2, <2>3, <2>4
<1>5. CASE Rollback(c)
  <2>1. starting.pc = "rollback" /\ starting.at = c
        /\ starting' = IF c = 1 THEN [pc |-> "failed", at |-> c]
                                ELSE [pc |-> "rollback", at |-> c - 1]
    BY <1>5 DEF Rollback, At, GoTo
  <2>2. StartTypeOK'
    BY <1>5, <2>1 DEF Rollback, StartTypeOK, StartSteps
  <2>3. StartProgress'
    BY <1>5, <2>1 DEF Rollback, StartTypeOK, StartProgress
  <2>4. StopProgress' /\ FlagTells'
    BY <1>5, <2>1 DEF Rollback, StartTypeOK, StartProgress, StopProgress, FlagTells
  <2> QED
    BY <2>2, <2>3, <2>4
<1> QED
  BY <1>1, <1>2, <1>3, <1>4, <1>5 DEF StartStep

(* What happens around Start: sessions that end, contexts that end, Stop.  *)
LEMMA AroundStartKeeps ==
  ASSUME StartInv, NEW c \in Channels,
         \/ SessionDies(c) \/ EndStep(c)
         \/ BeginStart \/ RunContextDone \/ BeginStop \/ WorkersGone
  PROVE  StartInv'
<1> USE ChannelsNat DEF StartInv
<1>1. CASE SessionDies(c)
  <2>1. StartTypeOK'
    BY <1>1 DEF SessionDies, At, StartTypeOK, StartProgress
  <2>2. StartProgress'
    BY <1>1 DEF SessionDies, At, StartTypeOK, StartProgress, Untouched
  <2>3. StopProgress' /\ FlagTells'
    BY <1>1 DEF SessionDies, StartTypeOK, StopProgress, FlagTells
  <2> QED
    BY <2>1, <2>2, <2>3
<1>2. CASE SessionEnds(c)
  BY <1>2 DEF SessionEnds, StartTypeOK, StartProgress, StopProgress, FlagTells, Untouched
<1>3. CASE WorkerExits(c)
  BY <1>3 DEF WorkerExits, adapterVars, StartTypeOK, StartProgress, StopProgress, FlagTells,
              Untouched
<1>4. CASE StopAdapter(c)
  <2>1. ending.pc = "adapters" /\ ending.at = c
        /\ ending' = IF c = Last THEN [pc |-> "returned", at |-> c]
                                 ELSE [pc |-> "adapters", at |-> c + 1]
    BY <1>4 DEF StopAdapter
  <2>2. StartTypeOK'
    BY <1>4, <2>1 DEF StopAdapter, StartTypeOK
  <2>3. StartProgress' /\ FlagTells'
    BY <1>4, <2>1 DEF StopAdapter, StartTypeOK, StartProgress, StopProgress, FlagTells, Untouched
  <2>4. StopProgress'
    BY <1>4, <2>1 DEF StopAdapter, StartTypeOK, StopProgress
  <2> QED
    BY <2>2, <2>3, <2>4
<1>5. CASE BeginStart
  BY <1>5 DEF BeginStart, GoTo, adapterVars, StartTypeOK, StartSteps, StartProgress,
              StopProgress, FlagTells, Untouched
<1>6. CASE RunContextDone
  BY <1>6 DEF RunContextDone, adapterVars, StartTypeOK, StartProgress, StopProgress, FlagTells,
              Untouched
<1>7. CASE BeginStop
  BY <1>7 DEF BeginStop, adapterVars, StartTypeOK, StartProgress, StopProgress, FlagTells,
              Untouched
<1>8. CASE WorkersGone
  BY <1>8 DEF WorkersGone, adapterVars, StartTypeOK, StartProgress, StopProgress, FlagTells,
              Untouched
<1> QED
  BY <1>1, <1>2, <1>3, <1>4, <1>5, <1>6, <1>7, <1>8 DEF EndStep

LEMMA StartNextKeeps == StartInv /\ [StartNext]_startVars => StartInv'
<1> SUFFICES ASSUME StartInv, [StartNext]_startVars PROVE StartInv'
  OBVIOUS
<1>1. CASE UNCHANGED startVars
  BY <1>1 DEF startVars, adapterVars, StartInv, StartTypeOK, StartProgress, StopProgress,
              FlagTells, Untouched
<1> QED
  BY <1>1, StartStepKeeps, AroundStartKeeps, ChannelsNat DEF StartNext

LEMMA StartInvariant == StartSpec => []StartInv
BY StartInitially, StartNextKeeps, PTL DEF StartSpec

(* Start, its rollback and Stop (Repository.Start, Stop) leave no adapter  *)
(* whose running flag is set, however its session ended.                   *)
THEOREM NothingRunsAfterStop == StartSpec => []NoneRunsAfter
<1>1. StartInv => NoneRunsAfter
  BY DEF StartInv, StartProgress, StopProgress, NoneRunsAfter
<1> QED
  BY StartInvariant, <1>1, PTL

(* A running flag (base.running) has a session behind it while the runtime *)
(* is up, unless the session died before the adapter set the flag.         *)
THEOREM RunningFlagTells == StartSpec => []FlagTells
<1>1. StartInv => FlagTells
  BY DEF StartInv
<1> QED
  BY StartInvariant, <1>1, PTL
=============================================================================
