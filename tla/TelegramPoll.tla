---------------------------- MODULE TelegramPoll -----------------------------
(***************************************************************************)
(* The receiving loop of the Telegram adapter.  It asks the platform for   *)
(* the updates from its offset on; the question confirms every earlier     *)
(* update, which the platform then forgets.  Offset and seen map live in   *)
(* memory: after a crash the platform delivers again what was not          *)
(* confirmed.                                                              *)
(*                                                                         *)
(* The platform is external: updates arrive in order, an answer holds a    *)
(* prefix of the unconfirmed ones, and a question may be heard although    *)
(* its answer is lost.                                                     *)
(***************************************************************************)
EXTENDS Integers

CONSTANTS
  MaxUpdates,  \* bound: updates that arrive
  MaxRestarts  \* bound: crashes of ChannelCore

ASSUME PollAssumption == MaxUpdates \in Nat /\ MaxRestarts \in Nat

VARIABLES
  arrived,    \* the platform: updates 1..arrived have come in
  confirmed,  \* the platform: updates 1..confirmed are forgotten
  offset,     \* Channel.offset
  seenUpdates,\* Channel.seen
  batch,      \* the updates of the last answer that are still to be handled
  hand,       \* handleUpdate: the update on its way to the sink, or none
  polling,    \* the loop: polling, sleeping after an error, or gone
  sunk,       \* history: how often each update was given to the sink
  restarts    \* history: crashes so far

platformVars == <<arrived, confirmed>>
pollVars == <<platformVars, offset, seenUpdates, batch, hand, polling, sunk, restarts>>
-----------------------------------------------------------------------------
UpdateIds == 1 .. MaxUpdates

PollInit ==
  /\ arrived = 0 /\ confirmed = 0
  /\ offset = 0 /\ seenUpdates = {} /\ batch = {} /\ hand = {}
  /\ polling = "poll"
  /\ sunk = [u \in UpdateIds |-> 0] /\ restarts = 0

UpdateArrives ==
  /\ arrived < MaxUpdates
  /\ arrived' = arrived + 1
  /\ UNCHANGED <<confirmed, offset, seenUpdates, batch, hand, polling, sunk, restarts>>

\* The platform hears getUpdates with the offset of the adapter.
Larger(i, j) == IF i > j THEN i ELSE j
Confirm == confirmed' = Larger(confirmed, offset - 1)

\* Mutant: the next question does not wait for the update in hand.
PollAhead ==
  /\ polling = "poll" /\ batch = {}
  /\ Confirm
  /\ \E last \in confirmed' .. arrived : batch' = confirmed' + 1 .. last
  /\ UNCHANGED <<arrived, offset, seenUpdates, hand, polling, sunk, restarts>>

\* An answer may be empty: the platform waits 30 seconds for updates.
Poll ==
  /\ polling = "poll" /\ batch = {} /\ hand = {}
  /\ Confirm
  /\ \E last \in confirmed' .. arrived : batch' = confirmed' + 1 .. last
  /\ UNCHANGED <<arrived, offset, seenUpdates, hand, polling, sunk, restarts>>

\* The call fails, perhaps after the platform heard it.
PollError ==
  /\ polling = "poll" /\ batch = {} /\ hand = {}
  /\ Confirm \/ UNCHANGED confirmed
  /\ polling' = "sleep"
  /\ UNCHANGED <<arrived, offset, seenUpdates, batch, hand, sunk, restarts>>

Awake ==
  /\ polling = "sleep"
  /\ polling' = "poll"
  /\ UNCHANGED <<platformVars, offset, seenUpdates, batch, hand, sunk, restarts>>

\* The offset is advanced and the update marked before it is handled; the
\* rest of the batch is handled although the context is done.
TakeUpdate(u) ==
  /\ hand = {} /\ u \in batch /\ \A v \in batch : u <= v
  /\ batch' = batch \ {u}
  /\ offset' = u + 1
  /\ hand' = {u} \ seenUpdates
  /\ seenUpdates' = seenUpdates \cup {u}
  /\ UNCHANGED <<platformVars, polling, sunk, restarts>>

\* The media of the message have been fetched, or left out after an error.
Sink(u) ==
  /\ u \in hand
  /\ hand' = {}
  /\ sunk' = [sunk EXCEPT ![u] = @ + 1]
  /\ UNCHANGED <<platformVars, offset, seenUpdates, batch, polling, restarts>>

\* The context is done: the loop looks at it between two questions.
PollStops ==
  /\ polling = "poll" /\ batch = {} /\ hand = {}
  /\ polling' = "gone"
  /\ UNCHANGED <<platformVars, offset, seenUpdates, batch, hand, sunk, restarts>>

PollRestart ==
  /\ restarts < MaxRestarts
  /\ restarts' = restarts + 1
  /\ offset' = 0 /\ seenUpdates' = {} /\ batch' = {} /\ hand' = {}
  /\ polling' = "poll"
  /\ UNCHANGED <<platformVars, sunk>>

LoopStep == Awake \/ \E u \in UpdateIds : TakeUpdate(u) \/ Sink(u)

PollNext == UpdateArrives \/ Poll \/ PollError \/ LoopStep \/ PollStops \/ PollRestart

PollSpec == PollInit /\ [][PollNext]_pollVars
-----------------------------------------------------------------------------
(* What must hold.                                                         *)

(* Every variable keeps its type, and nothing is confirmed early.          *)
PollTypeOK ==
  /\ arrived \in 0 .. MaxUpdates /\ confirmed \in 0 .. arrived
  /\ offset \in 0 .. arrived + 1
  /\ seenUpdates \subseteq 1 .. arrived /\ batch \subseteq 1 .. arrived
  /\ hand \subseteq seenUpdates
  /\ polling \in {"poll", "sleep", "gone"}
  /\ sunk \in [UpdateIds -> Nat] /\ restarts \in 0 .. MaxRestarts

(* The platform forgets an update only after the adapter gave it to the    *)
(* sink, however crashes, failed questions and lost answers fall; and      *)
(* between two crashes no update is given to the sink twice.               *)
UpdatesHandled ==
  \A u \in UpdateIds :
    /\ u <= confirmed => sunk[u] > 0
    /\ sunk[u] <= restarts + 1
=============================================================================
