--------------------------- MODULE MessageActions ----------------------------
(***************************************************************************)
(* Typing indicators and reactions.  StartTyping and ReactToMessage start  *)
(* something on the platform and register the callbacks that end it under  *)
(* an id; PrepareInbound does both and sends a placeholder, and undoes     *)
(* what it started when a later step fails.  StopTyping, CompleteReaction, *)
(* ExpireReaction, the janitor and that clean-up all take an entry out of  *)
(* the map under Repository.mu and call its callback afterwards.           *)
(*                                                                         *)
(* The adapters are external: what they start succeeds, fails, or is not   *)
(* supported.                                                              *)
(***************************************************************************)
EXTENDS Integers, FiniteSets

CONSTANTS
  Starters,   \* calls of StartTyping
  Reactors,   \* calls of ReactToMessage
  Preparers   \* calls of PrepareInbound

Requests == Starters \cup Reactors \cup Preparers

ASSUME ActionsAssumption ==
  /\ Starters \cap (Reactors \cup Preparers) = {}
  /\ Reactors \cap Preparers = {}

VARIABLES
  request,  \* where each call is
  held,     \* the cleanup list of a PrepareInbound: the handles it registered
  entries,  \* Repository.actions and Repository.reactions
  aged,     \* the entries older than 5 minutes (typing), 30 (a reaction)
  claims,   \* callbacks that were taken out of the map and are not called yet
  ended,    \* history: how often a callback of a handle was called
  janitor,  \* the janitor goroutine runs, and the batch of the tick at hand
  stop      \* Repository.Stop

requestVars == <<request, held>>
actionsVars == <<requestVars, entries, aged, claims, ended, janitor, stop>>
-----------------------------------------------------------------------------
Typing(q) == [of |-> q, kind |-> "typing"]
Reaction(q) == [of |-> q, kind |-> "reaction"]
Handles == {Typing(q) : q \in Starters \cup Preparers}
             \cup {Reaction(q) : q \in Reactors \cup Preparers}

RequestSteps ==
  {"idle", "typing", "addTyping", "react", "addReaction", "placeholder", "clean",
   "ok", "refused"}

\* How a handle ends: the RPCs, the janitor, or the request's own clean-up.
Enders == {"StopTyping", "CompleteReaction", "ExpireReaction", "janitor", "cleanup"}

ActionsInit ==
  /\ request = [q \in Requests |-> "idle"] /\ held = [q \in Requests |-> {}]
  /\ entries = {} /\ aged = {} /\ claims = {}
  /\ ended = [h \in Handles |-> 0]
  /\ janitor = [up |-> TRUE, batch |-> {}]
  /\ stop = "no"
-----------------------------------------------------------------------------
(* The requests.                                                           *)

Become(q, step) == request' = [request EXCEPT ![q] = step]

Begin(q) ==
  /\ request[q] = "idle"
  /\ Become(q, IF q \in Reactors THEN "react" ELSE "typing")
  /\ UNCHANGED <<held, entries, aged, claims, ended, janitor, stop>>

\* The adapter's call.  PrepareInbound goes on when there is no target, no
\* reaction to set, or the channel does not support the action.
AdapterCall(q, step, onSuccess, onSkip, onError) ==
  /\ request[q] = step
  /\ request' \in {[request EXCEPT ![q] = next] :
                     next \in {onSuccess, onError} \cup IF q \in Preparers THEN {onSkip} ELSE {}}
  /\ UNCHANGED <<held, entries, aged, claims, ended, janitor, stop>>

CallTyping(q) == AdapterCall(q, "typing", "addTyping", "react", "refused")

\* Mutant: the typing indicator is left on when the reaction fails.
CallReactionOnly(q) == AdapterCall(q, "react", "addReaction", "placeholder", "refused")

CallReaction(q) ==
  AdapterCall(q, "react", "addReaction", "placeholder",
              IF q \in Preparers THEN "clean" ELSE "refused")

CallPlaceholder(q) == AdapterCall(q, "placeholder", "ok", "ok", "clean")

Register(q, h, then) ==
  /\ entries' = entries \cup {h}
  /\ held' = [held EXCEPT ![q] = IF q \in Preparers THEN @ \cup {h} ELSE @]
  /\ Become(q, IF q \in Preparers THEN then ELSE "ok")
  /\ UNCHANGED <<aged, claims, ended, janitor, stop>>

AddTyping(q) == request[q] = "addTyping" /\ Register(q, Typing(q), "react")

AddReaction(q) == request[q] = "addReaction" /\ Register(q, Reaction(q), "placeholder")

\* Mutant: the entry is read in one critical section and deleted later.
TakeAndKeep(h, by) ==
  /\ entries' = entries
  /\ claims' = claims \cup {[handle |-> h, by |-> by]}

\* Read and delete under one lock: whoever comes next finds nothing.
TakeEntry(h, by) ==
  /\ entries' = entries \ {h}
  /\ claims' = IF h \in entries THEN claims \cup {[handle |-> h, by |-> by]} ELSE claims

\* The typing indicator first, then the reaction, each callback in turn.
Clean(q, h) ==
  /\ request[q] = "clean" /\ h \in held[q]
  /\ h = Reaction(q) => Typing(q) \notin held[q]
  /\ \A c \in claims : c.by = "cleanup" => c.handle.of # q
  /\ TakeEntry(h, "cleanup")
  /\ held' = [held EXCEPT ![q] = @ \ {h}]
  /\ UNCHANGED <<request, aged, ended, janitor, stop>>

Cleaned(q) ==
  /\ request[q] = "clean" /\ held[q] = {}
  /\ \A c \in claims : c.by = "cleanup" => c.handle.of # q
  /\ Become(q, "refused")
  /\ UNCHANGED <<held, entries, aged, claims, ended, janitor, stop>>
-----------------------------------------------------------------------------
(* The ends.                                                               *)

\* The id is known to the client that got it in an answer; it may use the
\* wrong moment or use it twice.
EndByCall(h, by) ==
  /\ request[h.of] = "ok" /\ h \in entries
  /\ by \in IF h.kind = "typing" THEN {"StopTyping"} ELSE {"CompleteReaction", "ExpireReaction"}
  /\ TakeEntry(h, by)
  /\ UNCHANGED <<requestVars, aged, ended, janitor, stop>>

\* Every claim but the janitor's is called by the goroutine that took it.
CallBack(c) ==
  /\ c \in claims /\ c.by # "janitor"
  /\ claims' = claims \ {c}
  /\ ended' = [ended EXCEPT ![c.handle] = @ + 1]
  /\ UNCHANGED <<requestVars, entries, aged, janitor, stop>>

GrowOld(h) ==
  /\ h \in entries \ aged
  /\ aged' = aged \cup {h}
  /\ UNCHANGED <<requestVars, entries, claims, ended, janitor, stop>>

\* Mutant: the callbacks of the reactions are deleted but never called.
JanitorTickTypingOnly ==
  /\ janitor.up /\ janitor.batch = {} /\ stop = "no"
  /\ entries \cap aged # {}
  /\ entries' = entries \ aged
  /\ claims' = claims \cup {[handle |-> h, by |-> "janitor"] : h \in entries \cap aged}
  /\ janitor' = [janitor EXCEPT !.batch = {h \in entries \cap aged : h.kind = "typing"}]
  /\ UNCHANGED <<requestVars, aged, ended, stop>>

\* One tick takes everything that is old in one critical section.
JanitorTick ==
  /\ janitor.up /\ janitor.batch = {} /\ stop = "no"
  /\ entries \cap aged # {}
  /\ entries' = entries \ aged
  /\ claims' = claims \cup {[handle |-> h, by |-> "janitor"] : h \in entries \cap aged}
  /\ janitor' = [janitor EXCEPT !.batch = entries \cap aged]
  /\ UNCHANGED <<requestVars, aged, ended, stop>>

\* It calls the typing callbacks first and then those of the reactions.
JanitorCallBack(h) ==
  /\ h \in janitor.batch
  /\ h.kind = "reaction" => \A o \in janitor.batch : o.kind = "reaction"
  /\ janitor' = [janitor EXCEPT !.batch = @ \ {h}]
  /\ claims' = claims \ {[handle |-> h, by |-> "janitor"]}
  /\ ended' = [ended EXCEPT ![h] = @ + 1]
  /\ UNCHANGED <<requestVars, entries, aged, stop>>

StopBegins ==
  /\ stop = "no"
  /\ stop' = "waiting"
  /\ UNCHANGED <<requestVars, entries, aged, claims, ended, janitor>>

\* The goroutine looks at the context only between two ticks.
JanitorExits ==
  /\ janitor.up /\ janitor.batch = {} /\ stop = "waiting"
  /\ janitor' = [janitor EXCEPT !.up = FALSE]
  /\ UNCHANGED <<requestVars, entries, aged, claims, ended, stop>>

\* Mutant: Stop does not wait for janitorDone.
StopReturnsAtOnce ==
  /\ stop = "waiting"
  /\ stop' = "returned"
  /\ UNCHANGED <<requestVars, entries, aged, claims, ended, janitor>>

StopReturns ==
  /\ stop = "waiting" /\ ~janitor.up
  /\ stop' = "returned"
  /\ UNCHANGED <<requestVars, entries, aged, claims, ended, janitor>>

RequestStep(q) ==
  \/ CallTyping(q) \/ AddTyping(q) \/ CallReaction(q) \/ AddReaction(q)
  \/ CallPlaceholder(q) \/ \E h \in Handles : Clean(q, h)
  \/ Cleaned(q)

JanitorStep == JanitorTick \/ JanitorExits \/ \E h \in Handles : JanitorCallBack(h)

ActionsNext ==
  \/ \E q \in Requests : Begin(q) \/ RequestStep(q)
  \/ \E h \in Handles, by \in Enders : EndByCall(h, by)
  \/ \E c \in claims : CallBack(c)
  \/ \E h \in Handles : GrowOld(h)
  \/ JanitorStep \/ StopBegins \/ StopReturns

ActionsSpec == ActionsInit /\ [][ActionsNext]_actionsVars
-----------------------------------------------------------------------------
(* What must hold.                                                         *)

(* Every variable keeps its type, and the janitor's batch is what it took  *)
(* out of the maps.                                                        *)
ActionsTypeOK ==
  /\ request \in [Requests -> RequestSteps]
  /\ held \in [Requests -> SUBSET Handles]
  /\ entries \subseteq Handles /\ aged \subseteq Handles
  /\ claims \subseteq [handle : Handles, by : Enders]
  /\ ended \in [Handles -> Nat]
  /\ janitor \in [up : BOOLEAN, batch : SUBSET Handles]
  /\ stop \in {"no", "waiting", "returned"}
  /\ {c.handle : c \in {d \in claims : d.by = "janitor"}} = janitor.batch

(* Whoever ends a handle, and however many try at one time, its callback   *)
(* is called once: a reaction is never both completed and expired.         *)
EndedOnce ==
  \A h \in Handles : ended[h] + Cardinality({c \in claims : c.handle = h}) <= 1

(* A PrepareInbound that fails has ended all that it started: nothing that *)
(* the caller cannot name stays in the maps, also when the janitor is at   *)
(* work on the same entries.                                               *)
FailedLeavesNothing ==
  \A q \in Requests : request[q] = "refused" => \A h \in entries : h.of # q

(* When Stop has returned no callback of the janitor runs any more: it has *)
(* ended the batch it had taken out of the maps.                           *)
StopAwaitsJanitor == stop = "returned" => janitor.batch = {} /\ ~janitor.up

(* A typing indicator or a reaction that was registered ends, also when    *)
(* the client forgets it, unless the runtime is stopped.                   *)
HandlesEnd ==
  \A h \in Handles : h \in entries ~> (ended[h] > 0 \/ stop # "no")
=============================================================================
