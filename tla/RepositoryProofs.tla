--------------------------- MODULE RepositoryProofs ---------------------------
(***************************************************************************)
(* What Repository promises about the messages that pass it, for any       *)
(* numbers of edits, calls, subscribers and deliveries: what it starts on  *)
(* a message is ended once, the answer is what the user goes on seeing,    *)
(* and what comes in is handed on once, in order, and accounted for.       *)
(***************************************************************************)
EXTENDS MessageActions, ReplyRelay, ChannelInbound, FiniteSetTheorems, SequenceTheorems, TLAPS

(***************************************************************************)
(* That whatever is started on a message is ended once, for any number of  *)
(* calls.  EndedOnce counts claims; the invariant says why there is never  *)
(* a second one: an entry of the map has no claim and has not been ended,  *)
(* and neither has a handle whose request has not come to register it.     *)
(***************************************************************************)

USE ActionsAssumption

JanitorTook(h) == [handle |-> h, by |-> "janitor"]

ActionTypes ==
  /\ request \in [Requests -> RequestSteps]
  /\ held \in [Requests -> SUBSET Handles]
  /\ entries \subseteq Handles /\ aged \subseteq Handles
  /\ claims \subseteq [handle : Handles, by : Enders]
  /\ ended \in [Handles -> Nat]
  /\ janitor \in [up : BOOLEAN, batch : SUBSET Handles]
  /\ stop \in {"no", "waiting", "returned"}

BatchIsClaimed == \A h \in Handles : h \in janitor.batch <=> JanitorTook(h) \in claims

\* The request of h has not come to the point where it registers h.
Unregistered(h) ==
  request[h.of] \in {"idle", "typing", "addTyping"}
    \cup IF h.kind = "typing" THEN {} ELSE {"react", "addReaction"}

Unclaimed(h) == ended[h] = 0 /\ \A c \in claims : c.handle # h

ClaimedOnce(h) ==
  /\ h \in entries => Unclaimed(h)
  /\ Unregistered(h) => h \notin entries /\ Unclaimed(h)
  /\ \A c \in claims : c.handle = h => ended[h] = 0
  /\ \A c, d \in claims : c.handle = h /\ d.handle = h => c = d
  /\ ended[h] <= 1

\* What a request has in the map: nothing after it was refused, and nothing
\* that a PrepareInbound does not hold.
Tidy(q) ==
  /\ q \in Starters => request[q] \in {"idle", "typing", "addTyping", "ok", "refused"}
  /\ q \in Reactors => request[q] \in {"idle", "react", "addReaction", "ok", "refused"}
  /\ q \in Preparers => \A h \in entries : h.of = q => h \in held[q]
  /\ request[q] = "refused" => \A h \in entries : h.of # q

JanitorAwaited ==
  /\ stop = "returned" => ~janitor.up
  /\ ~janitor.up => janitor.batch = {} /\ stop # "no"

ActionsInv ==
  /\ ActionTypes /\ BatchIsClaimed /\ JanitorAwaited
  /\ \A h \in Handles : ClaimedOnce(h)
  /\ \A q \in Requests : Tidy(q)

LEMMA HandleFacts ==
  ASSUME NEW h \in Handles
  PROVE  /\ h.of \in Requests /\ h.kind \in {"typing", "reaction"}
         /\ h.kind = "typing" => h = Typing(h.of) /\ h.of \notin Reactors
         /\ h.kind = "reaction" => h = Reaction(h.of) /\ h.of \notin Starters
BY DEF Handles, Typing, Reaction, Requests

LEMMA TypingFacts ==
  ASSUME NEW q \in Requests
  PROVE  /\ Typing(q).of = q /\ Typing(q).kind = "typing"
         /\ Reaction(q).of = q /\ Reaction(q).kind = "reaction"
         /\ q \notin Reactors => Typing(q) \in Handles
         /\ q \notin Starters => Reaction(q) \in Handles
BY DEF Handles, Typing, Reaction, Requests

LEMMA ActionsInitially == ActionsInit => ActionsInv
<1> SUFFICES ASSUME ActionsInit PROVE ActionsInv
  OBVIOUS
<1> USE DEF ActionsInit
<1>1. ActionTypes
  BY DEF ActionTypes, RequestSteps
<1>2. BatchIsClaimed /\ JanitorAwaited
  BY DEF BatchIsClaimed, JanitorAwaited
<1>3. ASSUME NEW h \in Handles PROVE ClaimedOnce(h)
  BY DEF ClaimedOnce, Unclaimed
<1>4. ASSUME NEW q \in Requests PROVE Tidy(q)
  BY DEF Tidy
<1> QED
  BY <1>1, <1>2, <1>3, <1>4 DEF ActionsInv

(* A request that goes on without touching the map stays tidy, when it is  *)
(* not refused before it has registered, or after it has ended, its own.   *)
LEMMA GoesOn ==
  ASSUME ActionsInv, NEW q \in Requests, NEW next \in RequestSteps,
         request' = [request EXCEPT ![q] = next],
         UNCHANGED <<held, entries, aged, claims, ended, janitor, stop>>,
         q \in Starters => next \in {"idle", "typing", "addTyping", "ok", "refused"},
         q \in Reactors => next \in {"idle", "react", "addReaction", "ok", "refused"},
         next = "refused" => \A h \in entries : h.of # q,
         \A h \in Handles : h.of = q /\ Unregistered(h)' => Unregistered(h)
  PROVE  ActionsInv'
<1>1. ActionTypes'
  BY DEF ActionsInv, ActionTypes
<1>2. BatchIsClaimed' /\ JanitorAwaited'
  BY DEF ActionsInv, BatchIsClaimed, JanitorAwaited
<1>3. ASSUME NEW h \in Handles PROVE ClaimedOnce(h)'
  <2>1. Unregistered(h)' => Unregistered(h)
    BY HandleFacts DEF ActionsInv, ActionTypes, Unregistered
  <2> QED
    BY <2>1 DEF ActionsInv, ClaimedOnce, Unclaimed
<1>4. ASSUME NEW p \in Requests PROVE Tidy(p)'
  BY DEF ActionsInv, ActionTypes, Tidy
<1> QED
  BY <1>1, <1>2, <1>3, <1>4 DEF ActionsInv

LEMMA UnregisteredNotHeld ==
  ASSUME ActionsInv, NEW q \in Requests,
         \/ request[q] \in {"idle", "typing", "addTyping"}
         \/ q \in Reactors /\ request[q] \in {"react", "addReaction"}
  PROVE  \A h \in entries : h.of # q
<1> SUFFICES ASSUME NEW h \in entries, h.of = q PROVE FALSE
  OBVIOUS
<1>1. h \in Handles
  BY DEF ActionsInv, ActionTypes
<1>2. Unregistered(h)
  BY <1>1, HandleFacts DEF Unregistered
<1> QED
  BY <1>1, <1>2 DEF ActionsInv, ClaimedOnce

LEMMA RequestKeeps ==
  ASSUME ActionsInv, NEW q \in Requests,
         Begin(q) \/ CallTyping(q) \/ CallReaction(q) \/ CallPlaceholder(q) \/ Cleaned(q)
  PROVE  ActionsInv'
<1>0. Tidy(q) /\ request \in [Requests -> RequestSteps] /\ q \in Starters \cup Reactors \cup Preparers
  BY DEF ActionsInv, ActionTypes, Requests
<1>1. CASE Begin(q)
  <2> DEFINE next == IF q \in Reactors THEN "react" ELSE "typing"
  <2>1. next \in RequestSteps /\ request' = [request EXCEPT ![q] = next]
        /\ request[q] = "idle" /\ request'[q] = next
    BY <1>0, <1>1 DEF Begin, Become, RequestSteps
  <2>2. \A h \in Handles : h.of = q /\ Unregistered(h)' => Unregistered(h)
    BY <2>1 DEF Unregistered
  <2> HIDE DEF next
  <2>3. UNCHANGED <<held, entries, aged, claims, ended, janitor, stop>>
    BY <1>1 DEF Begin
  <2> QED
    BY <2>1, <2>2, <2>3, GoesOn DEF next
<1>2. CASE CallTyping(q)
  <2>1. PICK next \in {"addTyping", "refused"} \cup IF q \in Preparers THEN {"react"} ELSE {} :
          request' = [request EXCEPT ![q] = next]
    BY <1>2 DEF CallTyping, AdapterCall
  <2>2. request[q] = "typing" /\ UNCHANGED <<held, entries, aged, claims, ended, janitor, stop>>
    BY <1>2 DEF CallTyping, AdapterCall
  <2>3. next \in RequestSteps /\ request'[q] = next /\ q \notin Reactors
    BY <1>0, <2>1, <2>2 DEF RequestSteps, Tidy
  <2>4. \A h \in entries : h.of # q
    BY <2>2, UnregisteredNotHeld
  <2>5. \A h \in Handles : h.of = q /\ Unregistered(h)' => Unregistered(h)
    BY <2>2 DEF Unregistered
  <2> QED
    BY <2>1, <2>2, <2>3, <2>4, <2>5, GoesOn
<1>3. CASE CallReaction(q)
  <2>1. PICK next \in {"addReaction", IF q \in Preparers THEN "clean" ELSE "refused"}
                        \cup IF q \in Preparers THEN {"placeholder"} ELSE {} :
          request' = [request EXCEPT ![q] = next]
    BY <1>3 DEF CallReaction, AdapterCall
  <2>2. request[q] = "react" /\ UNCHANGED <<held, entries, aged, claims, ended, janitor, stop>>
    BY <1>3 DEF CallReaction, AdapterCall
  <2>3. next \in RequestSteps /\ request'[q] = next /\ q \notin Starters
    BY <1>0, <2>1, <2>2 DEF RequestSteps, Tidy
  <2>4. next = "refused" => \A h \in entries : h.of # q
    BY <1>0, <2>1, <2>2, <2>3, UnregisteredNotHeld
  <2>5. \A h \in Handles : h.of = q /\ Unregistered(h)' => Unregistered(h)
    BY <2>1, <2>2, <2>3 DEF Unregistered
  <2> QED
    BY <1>0, <2>1, <2>2, <2>3, <2>4, <2>5, GoesOn
<1>4. CASE CallPlaceholder(q)
  <2>1. PICK next \in {"ok", "clean"} : request' = [request EXCEPT ![q] = next]
    BY <1>4 DEF CallPlaceholder, AdapterCall
  <2>2. request[q] = "placeholder"
        /\ UNCHANGED <<held, entries, aged, claims, ended, janitor, stop>>
    BY <1>4 DEF CallPlaceholder, AdapterCall
  <2>3. next \in RequestSteps /\ request'[q] = next /\ q \notin Starters /\ q \notin Reactors
    BY <1>0, <2>1, <2>2 DEF RequestSteps, Tidy
  <2>4. \A h \in Handles : h.of = q /\ Unregistered(h)' => Unregistered(h)
    BY <2>1, <2>2, <2>3 DEF Unregistered
  <2> QED
    BY <2>1, <2>2, <2>3, <2>4, GoesOn
<1>5. CASE Cleaned(q)
  <2>1. request' = [request EXCEPT ![q] = "refused"] /\ request[q] = "clean" /\ held[q] = {}
        /\ UNCHANGED <<held, entries, aged, claims, ended, janitor, stop>>
    BY <1>5 DEF Cleaned, Become
  <2>2. request'[q] = "refused" /\ "refused" \in RequestSteps /\ q \in Preparers
    BY <1>0, <2>1 DEF RequestSteps, Tidy
  <2>3. \A h \in entries : h.of # q
    BY <1>0, <2>1, <2>2 DEF Tidy
  <2>4. \A h \in Handles : h.of = q /\ Unregistered(h)' => Unregistered(h)
    BY <2>1, <2>2 DEF Unregistered
  <2> QED
    BY <2>1, <2>2, <2>3, <2>4, GoesOn
<1> QED
  BY <1>1, <1>2, <1>3, <1>4, <1>5

(* Registering: the handle had no claim, because its request had not come  *)
(* to this point before.                                                   *)
LEMMA RegisterKeeps ==
  ASSUME ActionsInv, NEW q \in Requests, NEW h \in Handles, h.of = q, Unregistered(h),
         NEW then \in RequestSteps, Register(q, h, then),
         request[q] \in {"addTyping", "addReaction"},
         q \in Preparers => then # "refused",
         \A o \in Handles : o.of = q /\ Unregistered(o)' => Unregistered(o) /\ o # h
  PROVE  ActionsInv'
<1> DEFINE next == IF q \in Preparers THEN then ELSE "ok"
<1>0. /\ request' = [request EXCEPT ![q] = next] /\ entries' = entries \cup {h}
      /\ held' = [held EXCEPT ![q] = IF q \in Preparers THEN held[q] \cup {h} ELSE held[q]]
      /\ UNCHANGED <<aged, claims, ended, janitor, stop>>
  BY DEF Register, Become, ActionsInv, ActionTypes
<1>1. next \in RequestSteps /\ next # "refused"
      /\ (q \notin Preparers => next = "ok") /\ (q \in Starters \cup Reactors => next = "ok")
  BY DEF RequestSteps
<1> HIDE DEF next
<1>2. ActionTypes'
  BY <1>0, <1>1 DEF ActionsInv, ActionTypes
<1>3. BatchIsClaimed' /\ JanitorAwaited'
  BY <1>0 DEF ActionsInv, BatchIsClaimed, JanitorAwaited
<1>4. ASSUME NEW o \in Handles PROVE ClaimedOnce(o)'
  <2>1. Unregistered(o)' => Unregistered(o) /\ o # h
    BY <1>0, HandleFacts DEF ActionsInv, ActionTypes, Unregistered
  <2>2. Unclaimed(h)
    BY DEF ActionsInv, ClaimedOnce
  <2> QED
    BY <1>0, <2>1, <2>2 DEF ActionsInv, ClaimedOnce, Unclaimed
<1>5. ASSUME NEW p \in Requests PROVE Tidy(p)'
  BY <1>0, <1>1 DEF ActionsInv, ActionTypes, Tidy
<1> QED
  BY <1>2, <1>3, <1>4, <1>5 DEF ActionsInv

LEMMA AddKeeps ==
  ASSUME ActionsInv, NEW q \in Requests, AddTyping(q) \/ AddReaction(q)
  PROVE  ActionsInv'
<1>0. Tidy(q) /\ request \in [Requests -> RequestSteps]
  BY DEF ActionsInv, ActionTypes
<1>1. CASE AddTyping(q)
  <2>1. request[q] = "addTyping" /\ Register(q, Typing(q), "react")
    BY <1>1 DEF AddTyping
  <2>2. Typing(q) \in Handles /\ q \notin Reactors
    BY <1>0, <2>1, TypingFacts DEF Tidy
  <2>3. request'[q] = IF q \in Preparers THEN "react" ELSE "ok"
    BY <1>0, <2>1 DEF Register, Become
  <2>4. Unregistered(Typing(q)) /\ "react" \in RequestSteps
    BY <2>1, TypingFacts DEF Unregistered, RequestSteps
  <2>5. \A o \in Handles : o.of = q /\ Unregistered(o)' => Unregistered(o) /\ o # Typing(q)
    BY <2>1, <2>3, TypingFacts DEF Unregistered
  <2> QED
    BY <2>1, <2>2, <2>4, <2>5, TypingFacts, RegisterKeeps
<1>2. CASE AddReaction(q)
  <2>1. request[q] = "addReaction" /\ Register(q, Reaction(q), "placeholder")
    BY <1>2 DEF AddReaction
  <2>2. Reaction(q) \in Handles
    BY <1>0, <2>1, TypingFacts DEF Tidy
  <2>3. request'[q] = IF q \in Preparers THEN "placeholder" ELSE "ok"
    BY <1>0, <2>1 DEF Register, Become
  <2>4. Unregistered(Reaction(q)) /\ "placeholder" \in RequestSteps
    BY <2>1, TypingFacts DEF Unregistered, RequestSteps
  <2>5. \A o \in Handles : o.of = q /\ Unregistered(o)' => Unregistered(o) /\ o # Reaction(q)
    BY <2>1, <2>3, TypingFacts DEF Unregistered
  <2> QED
    BY <2>1, <2>2, <2>4, <2>5, TypingFacts, RegisterKeeps
<1> QED
  BY <1>1, <1>2

(* Taking an entry out of the map claims it, and nobody else can.          *)
LEMMA TakeKeeps ==
  ASSUME ActionsInv, NEW h \in Handles, NEW by \in Enders \ {"janitor"}, TakeEntry(h, by),
         UNCHANGED <<request, aged, ended, janitor, stop>>,
         held' \in [Requests -> SUBSET Handles],
         \A q \in Requests : held[q] \ {h} \subseteq held'[q]
  PROVE  ActionsInv'
<1> DEFINE new == [handle |-> h, by |-> by]
<1>0. /\ entries' = entries \ {h} /\ claims \subseteq claims'
      /\ \A c \in claims' : c \in claims \/ (h \in entries /\ c = new)
      /\ new.handle = h /\ new \in [handle : Handles, by : Enders]
      /\ \A o \in Handles : JanitorTook(o) # new
  BY DEF TakeEntry, JanitorTook
<1> HIDE DEF new
<1>1. ActionTypes'
  BY <1>0 DEF ActionsInv, ActionTypes
<1>2. BatchIsClaimed' /\ JanitorAwaited'
  BY <1>0 DEF ActionsInv, BatchIsClaimed, JanitorAwaited
<1>3. ASSUME NEW o \in Handles PROVE ClaimedOnce(o)'
  BY <1>0 DEF ActionsInv, ClaimedOnce, Unclaimed, Unregistered
<1>4. ASSUME NEW p \in Requests PROVE Tidy(p)'
  BY <1>0 DEF ActionsInv, Tidy
<1> QED
  BY <1>1, <1>2, <1>3, <1>4 DEF ActionsInv

LEMMA EndKeeps ==
  ASSUME ActionsInv, NEW h \in Handles,
         \/ \E q \in Requests : Clean(q, h)
         \/ \E by \in Enders : EndByCall(h, by)
  PROVE  ActionsInv'
<1>0. held \in [Requests -> SUBSET Handles]
  BY DEF ActionsInv, ActionTypes
<1>1. ASSUME NEW q \in Requests, Clean(q, h) PROVE ActionsInv'
  <2>1. TakeEntry(h, "cleanup") /\ UNCHANGED <<request, aged, ended, janitor, stop>>
        /\ held' = [held EXCEPT ![q] = held[q] \ {h}]
    BY <1>0, <1>1 DEF Clean
  <2>2. held' \in [Requests -> SUBSET Handles] /\ \A p \in Requests : held[p] \ {h} \subseteq held'[p]
    BY <1>0, <2>1
  <2>3. "cleanup" \in Enders \ {"janitor"}
    BY DEF Enders
  <2> QED
    BY <2>1, <2>2, <2>3, TakeKeeps
<1>2. ASSUME NEW by \in Enders, EndByCall(h, by) PROVE ActionsInv'
  <2>1. TakeEntry(h, by) /\ UNCHANGED <<request, held, aged, ended, janitor, stop>>
        /\ by # "janitor"
    BY <1>2 DEF EndByCall, requestVars
  <2> QED
    BY <1>0, <2>1, TakeKeeps
<1> QED
  BY <1>1, <1>2

LEMMA CallBackKeeps ==
  ASSUME ActionsInv, NEW c \in claims, CallBack(c)
  PROVE  ActionsInv'
<1>0. /\ claims' = claims \ {c} /\ c.by # "janitor" /\ c.handle \in Handles
      /\ ended' = [ended EXCEPT ![c.handle] = ended[c.handle] + 1]
      /\ UNCHANGED <<request, held, entries, aged, janitor, stop>>
      /\ \A o \in Handles : JanitorTook(o) # c
  BY DEF CallBack, requestVars, ActionsInv, ActionTypes, JanitorTook
<1>1. ActionTypes' /\ \A o \in Handles : ended'[o] = IF o = c.handle THEN ended[o] + 1 ELSE ended[o]
  BY <1>0 DEF ActionsInv, ActionTypes
<1>2. BatchIsClaimed' /\ JanitorAwaited'
  BY <1>0 DEF ActionsInv, BatchIsClaimed, JanitorAwaited
<1>3. ASSUME NEW o \in Handles PROVE ClaimedOnce(o)'
  BY <1>0, <1>1 DEF ActionsInv, ClaimedOnce, Unclaimed, Unregistered
<1>4. ASSUME NEW p \in Requests PROVE Tidy(p)'
  BY <1>0 DEF ActionsInv, Tidy
<1> QED
  BY <1>1, <1>2, <1>3, <1>4 DEF ActionsInv

LEMMA JanitorKeeps ==
  ASSUME ActionsInv, JanitorStep
  PROVE  ActionsInv'
<1>0. janitor \in [up : BOOLEAN, batch : SUBSET Handles]
  BY DEF ActionsInv, ActionTypes
<1>1. CASE JanitorTick
  <2> DEFINE old == entries \cap aged
             taken == {JanitorTook(h) : h \in old}
  <2>1. /\ janitor.up /\ janitor.batch = {}
        /\ entries' = entries \ aged /\ claims' = claims \cup taken
        /\ janitor' = [janitor EXCEPT !.batch = old]
        /\ UNCHANGED <<request, held, aged, ended, stop>>
    BY <1>1 DEF JanitorTick, requestVars, JanitorTook
  <2>2. janitor'.batch = old /\ janitor'.up = janitor.up
        /\ janitor' \in [up : BOOLEAN, batch : SUBSET Handles] /\ old \subseteq Handles
    BY <1>0, <2>1 DEF ActionsInv, ActionTypes
  <2>3. \A c \in taken : c \in [handle : Handles, by : Enders] /\ c.handle \in old
                          /\ c = JanitorTook(c.handle)
    BY <2>2 DEF JanitorTook, Enders
  <2>4. \A h \in Handles : JanitorTook(h) \in taken <=> h \in old
    <3> SUFFICES ASSUME NEW h \in Handles, JanitorTook(h) \in taken PROVE h \in old
      OBVIOUS
    <3>1. JanitorTook(h).handle \in old /\ JanitorTook(h).handle = h
      BY <2>3 DEF JanitorTook
    <3> QED
      BY <3>1
  <2>5. \A h \in old : h \in entries /\ h \notin entries'
    BY <2>1
  <2> HIDE DEF taken, old
  <2>6. ActionTypes'
    BY <2>1, <2>2, <2>3 DEF ActionsInv, ActionTypes
  <2>7. BatchIsClaimed' /\ JanitorAwaited'
    BY <2>1, <2>2, <2>4 DEF ActionsInv, BatchIsClaimed, JanitorAwaited
  <2>8. ASSUME NEW o \in Handles PROVE ClaimedOnce(o)'
    BY <2>1, <2>3, <2>5 DEF ActionsInv, ClaimedOnce, Unclaimed, Unregistered
  <2>9. ASSUME NEW p \in Requests PROVE Tidy(p)'
    BY <2>1 DEF ActionsInv, Tidy
  <2> QED
    BY <2>6, <2>7, <2>8, <2>9 DEF ActionsInv
<1>2. CASE JanitorExits
  <2>1. janitor.batch = {} /\ stop = "waiting" /\ janitor' = [janitor EXCEPT !.up = FALSE]
        /\ UNCHANGED <<request, held, entries, aged, claims, ended, stop>>
    BY <1>2 DEF JanitorExits, requestVars
  <2>2. janitor'.batch = {} /\ ~janitor'.up /\ janitor' \in [up : BOOLEAN, batch : SUBSET Handles]
    BY <1>0, <2>1
  <2> QED
    BY <2>1, <2>2 DEF ActionsInv, ActionTypes, BatchIsClaimed, JanitorAwaited, ClaimedOnce,
                      Unclaimed, Unregistered, Tidy
<1>3. ASSUME NEW h \in Handles, JanitorCallBack(h) PROVE ActionsInv'
  <2>1. /\ h \in janitor.batch /\ janitor' = [janitor EXCEPT !.batch = janitor.batch \ {h}]
        /\ claims' = claims \ {JanitorTook(h)}
        /\ ended' = [ended EXCEPT ![h] = ended[h] + 1]
        /\ UNCHANGED <<request, held, entries, aged, stop>>
    BY <1>3 DEF JanitorCallBack, requestVars, JanitorTook
  <2>2. janitor'.batch = janitor.batch \ {h} /\ janitor'.up = janitor.up
        /\ janitor' \in [up : BOOLEAN, batch : SUBSET Handles]
    BY <1>0, <2>1
  <2>3. JanitorTook(h) \in claims /\ JanitorTook(h).handle = h
    BY <2>1 DEF ActionsInv, BatchIsClaimed, JanitorTook
  <2>4. \A o \in Handles : JanitorTook(o) = JanitorTook(h) => o = h
    BY DEF JanitorTook
  <2>5. ActionTypes' /\ \A o \in Handles : ended'[o] = IF o = h THEN ended[o] + 1 ELSE ended[o]
    BY <2>1, <2>2 DEF ActionsInv, ActionTypes
  <2>6. BatchIsClaimed' /\ JanitorAwaited'
    BY <2>1, <2>2, <2>4 DEF ActionsInv, BatchIsClaimed, JanitorAwaited
  <2>7. ASSUME NEW o \in Handles PROVE ClaimedOnce(o)'
    BY <2>1, <2>3, <2>5 DEF ActionsInv, ClaimedOnce, Unclaimed, Unregistered
  <2>8. ASSUME NEW p \in Requests PROVE Tidy(p)'
    BY <2>1 DEF ActionsInv, Tidy
  <2> QED
    BY <2>5, <2>6, <2>7, <2>8 DEF ActionsInv
<1> QED
  BY <1>1, <1>2, <1>3 DEF JanitorStep

LEMMA ActionsNextKeeps == ActionsInv /\ [ActionsNext]_actionsVars => ActionsInv'
<1> SUFFICES ASSUME ActionsInv, [ActionsNext]_actionsVars PROVE ActionsInv'
  OBVIOUS
<1>1. CASE \/ UNCHANGED actionsVars \/ StopBegins \/ StopReturns
           \/ \E h \in Handles : GrowOld(h)
  <2>1. /\ UNCHANGED <<request, held, entries, claims, ended, janitor>>
        /\ aged' \subseteq Handles /\ stop' \in {"no", "waiting", "returned"}
        /\ stop' = stop \/ (stop = "no" /\ stop' = "waiting") \/ (stop' = "returned" /\ ~janitor.up)
    BY <1>1 DEF actionsVars, requestVars, StopBegins, StopReturns, GrowOld, ActionsInv, ActionTypes
  <2> QED
    BY <2>1 DEF ActionsInv, ActionTypes, BatchIsClaimed, JanitorAwaited, ClaimedOnce,
                Unclaimed, Unregistered, Tidy
<1> QED
  BY <1>1, RequestKeeps, AddKeeps, EndKeeps, CallBackKeeps, JanitorKeeps DEF ActionsNext, RequestStep

LEMMA ActionsTyped == ActionsInv => ActionsTypeOK
<1> SUFFICES ASSUME ActionsInv PROVE ActionsTypeOK
  OBVIOUS
<1> DEFINE taken == {c.handle : c \in {d \in claims : d.by = "janitor"}}
<1>1. ASSUME NEW h \in taken PROVE h \in janitor.batch
  <2>1. PICK c \in claims : c.by = "janitor" /\ h = c.handle
    OBVIOUS
  <2>2. c = JanitorTook(h) /\ h \in Handles
    BY <2>1 DEF JanitorTook, ActionsInv, ActionTypes
  <2> QED
    BY <2>1, <2>2 DEF ActionsInv, BatchIsClaimed
<1>2. ASSUME NEW h \in janitor.batch PROVE h \in taken
  <2>1. h \in Handles /\ JanitorTook(h) \in claims
    BY DEF ActionsInv, ActionTypes, BatchIsClaimed
  <2>2. JanitorTook(h).by = "janitor" /\ JanitorTook(h).handle = h
    BY DEF JanitorTook
  <2> QED
    BY <2>1, <2>2
<1>3. taken = janitor.batch
  BY <1>1, <1>2
<1> QED
  BY <1>3 DEF ActionsInv, ActionTypes, ActionsTypeOK

LEMMA ActionsInvariant == ActionsSpec => []ActionsInv
BY ActionsInitially, ActionsNextKeeps, PTL DEF ActionsSpec

(* However a typing indicator or a reaction ends, by the RPCs, the janitor *)
(* or PrepareInbound's clean-up, its callback is called once.              *)
THEOREM HandlesEndOnce == ActionsSpec => []EndedOnce
<1>1. ActionsInv => EndedOnce
  <2> SUFFICES ASSUME ActionsInv, NEW h \in Handles
               PROVE  ended[h] + Cardinality({c \in claims : c.handle = h}) <= 1
    BY DEF EndedOnce
  <2> DEFINE mine == {c \in claims : c.handle = h}
  <2>1. ended[h] \in Nat /\ ended[h] <= 1 /\ (mine # {} => ended[h] = 0)
        /\ \A c, d \in mine : c = d
    BY DEF ActionsInv, ActionTypes, ClaimedOnce
  <2>2. CASE mine = {}
    BY <2>1, <2>2, FS_EmptySet
  <2>3. CASE mine # {}
    <3>1. PICK c \in mine : mine = {c}
      BY <2>1, <2>3
    <3>2. Cardinality(mine) = 1
      BY <3>1, FS_Singleton
    <3> QED
      BY <2>1, <2>3, <3>2
  <2> QED
    BY <2>2, <2>3
<1> QED
  BY ActionsInvariant, <1>1, PTL

(* A PrepareInbound that was refused has nothing in the maps, and a Stop   *)
(* that has returned no callback of the janitor.                           *)
THEOREM RefusedLeaveNothing == ActionsSpec => [](FailedLeavesNothing /\ StopAwaitsJanitor)
<1>1. ActionsInv => FailedLeavesNothing /\ StopAwaitsJanitor
  BY DEF ActionsInv, Tidy, JanitorAwaited, FailedLeavesNothing, StopAwaitsJanitor
<1> QED
  BY ActionsInvariant, <1>1, PTL

HIDE ActionsAssumption
-----------------------------------------------------------------------------
(***************************************************************************)
(* That the answer is what the user sees when the outbox says so.          *)
(* FinalShown is about the row of the answer only; the invariant follows   *)
(* every edit through ChannelCore: as long as no two are past their checks *)
(* at one time, one that is agrees with the recorded verdict, and one that *)
(* is about to record its verdict is what the platform shows.              *)
(***************************************************************************)

USE RelayAssumption

\* An outbox row that is given up after MaxAttempts has one try left before.
TriesLeft == \A r \in Rows : row[r] \notin {"published", "dead"} => tries[r] < MaxAttempts

RecordsVerdict ==
  \A s \in Slots : slot[s].pc = "record" => StateOf(slot[s].edit) \in Verdicts

OnePastCheck == ~overlapped => \A s, o \in Slots : PastCheck(s) /\ PastCheck(o) => s = o

\* What an edit in slot s may rely on.
EditAgrees(s) ==
  /\ slot[s].pc = "record" => shown = slot[s].edit
  /\ PastCheck(s) /\ lifecycle # "none" => StateOf(slot[s].edit) = lifecycle
  /\ slot[s].pc = "ok" /\ slot[s].edit = FinalRow /\ ~forgotten => lifecycle = "final"

VerdictShown ==
  /\ lifecycle # "none" => StateOf(shown) = lifecycle
  /\ row[FinalRow] = "published" /\ ~forgotten => lifecycle = "final"

Basics == RelayTypeOK /\ TriesLeft /\ RecordsVerdict

RelayInv ==
  /\ Basics /\ OnePastCheck
  /\ ~overlapped => VerdictShown /\ \A s \in Slots : EditAgrees(s)

LEMMA States ==
  /\ \A e : StateOf(e) \in {"final", "failed", "progress"}
  /\ StateOf(FinalRow) = "final"
  /\ FinalRow \in Rows /\ NoEdit \notin Rows /\ Rows \subseteq Edits /\ NoEdit \notin Edits
  /\ FailNotice \in Edits /\ Streams \subseteq Edits
BY DEF StateOf, Rows, Edits

LEMMA RelayInitially == RelayInit => RelayInv
<1> SUFFICES ASSUME RelayInit PROVE RelayInv
  OBVIOUS
<1> USE States DEF RelayInit
<1>1. RelayTypeOK
  <2>1. /\ row \in [Rows -> RowStates] /\ tries \in [Rows -> 0 .. MaxAttempts]
        /\ slot \in [Slots -> [pc : SlotSteps, edit : Edits \cup {NoEdit}]]
    BY DEF RowStates, FreeSlot, SlotSteps
  <2>2. \A r \in Rows : row[r] = "leased" <=> relay.row = r
    BY DEF NoRow
  <2>3. \A s \in Slots : slot[s].pc = "free" <=> slot[s].edit = NoEdit
    BY DEF FreeSlot
  <2> QED
    BY <2>1, <2>2, <2>3 DEF RelayTypeOK
<1>2. TriesLeft /\ RecordsVerdict /\ OnePastCheck
  BY DEF TriesLeft, RecordsVerdict, OnePastCheck, PastCheck, FreeSlot
<1>3. VerdictShown /\ \A s \in Slots : EditAgrees(s)
  BY DEF VerdictShown, EditAgrees, PastCheck, FreeSlot
<1> QED
  BY <1>1, <1>2, <1>3 DEF RelayInv, Basics

SlotRecords == [pc : SlotSteps, edit : Edits \cup {NoEdit}]

LEMMA SlotTyped ==
  ASSUME RelayTypeOK, NEW s \in Slots
  PROVE  /\ slot[s] \in SlotRecords /\ slot[s].pc \in SlotSteps
         /\ slot[s].edit \in Edits \cup {NoEdit}
         /\ slot[s] = [pc |-> slot[s].pc, edit |-> slot[s].edit]
         /\ slot[s].pc # "free" => slot[s].edit \in Edits
         /\ relay.slot = s => relay # NoRow /\ slot[s].edit = relay.row /\ slot[s].pc # "free"
BY States DEF RelayTypeOK, SlotRecords, NoRow

LEMMA SlotChanges ==
  ASSUME RelayTypeOK, NEW s \in Slots, NEW new \in SlotRecords,
         slot' = [slot EXCEPT ![s] = new]
  PROVE  /\ slot' \in [Slots -> SlotRecords] /\ slot'[s] = new
         /\ \A o \in Slots : o # s => slot'[o] = slot[o]
BY DEF RelayTypeOK, SlotRecords

LEMMA StepChanges ==
  ASSUME RelayTypeOK, NEW s \in Slots, NEW pc, Step(s, pc)
  PROVE  slot' = [slot EXCEPT ![s] = [pc |-> pc, edit |-> slot[s].edit]]
<1>1. slot \in [Slots -> SlotRecords]
  BY DEF RelayTypeOK, SlotRecords
<1>2. [slot[s] EXCEPT !.pc = pc] = [pc |-> pc, edit |-> slot[s].edit]
  BY <1>1 DEF SlotRecords
<1>3. slot' = [slot EXCEPT ![s] = [slot[s] EXCEPT !.pc = pc]]
  BY <1>1 DEF Step
<1> QED
  BY <1>2, <1>3

(* A served edit takes a step, or is answered; the relay still finds its   *)
(* answer in the slot it waits for.                                        *)
LEMMA ServedTyped ==
  ASSUME RelayInv, NEW s \in Slots, NEW new \in SlotRecords,
         slot' = [slot EXCEPT ![s] = new],
         new.pc = "free" <=> new.edit = NoEdit,
         relay.slot = s => new.edit = slot[s].edit,
         new.pc = "record" => StateOf(new.edit) \in Verdicts,
         UNCHANGED <<outboxVars, bridge, accepted>>,
         lifecycle' \in Verdicts \cup {"none"}, shown' \in Edits \cup {NoEdit},
         overlapped' \in BOOLEAN, forgotten' \in BOOLEAN
  PROVE  Basics'
<1>1. RelayTypeOK /\ TriesLeft /\ RecordsVerdict
  BY DEF RelayInv, Basics
<1>2. slot' \in [Slots -> SlotRecords] /\ slot'[s] = new
      /\ \A o \in Slots : o # s => slot'[o] = slot[o]
  BY <1>1, SlotChanges
<1>3. relay # NoRow => relay.slot \in Slots
  BY <1>1 DEF RelayTypeOK
<1> QED
  BY <1>1, <1>2, <1>3 DEF Basics, RelayTypeOK, TriesLeft, RecordsVerdict, SlotRecords, outboxVars

LEMMA AnswerTyped ==
  ASSUME RelayTypeOK, NEW s \in Slots, slot[s].pc # "free", NEW answer \in {"ok", "error"}
  PROVE  /\ Answered(s, answer) \in SlotRecords
         /\ Answered(s, answer).pc = "free" <=> Answered(s, answer).edit = NoEdit
         /\ relay.slot = s => Answered(s, answer).edit = slot[s].edit
         /\ Answered(s, answer).pc \in {answer, "free"}
         /\ Answered(s, answer).pc = answer => Answered(s, answer).edit = slot[s].edit
BY SlotTyped, States DEF Answered, SlotRecords, SlotSteps, FreeSlot

LEMMA CheckKeeps ==
  ASSUME RelayInv, NEW s \in Slots, CheckLifecycle(s)
  PROVE  RelayInv'
<1>0. RelayTypeOK /\ slot[s].pc = "check" /\ slot[s].edit \in Edits /\ slot[s].edit # NoEdit
      /\ UNCHANGED <<lifecycle, shown, forgotten, outboxVars, bridge, accepted>>
  BY SlotTyped, States DEF RelayInv, Basics, CheckLifecycle
<1>1. CASE Refused(slot[s].edit)
  <2> DEFINE new == Answered(s, "error")
  <2>1. slot' = [slot EXCEPT ![s] = new] /\ UNCHANGED overlapped
    BY <1>1 DEF CheckLifecycle, Answer
  <2>2. /\ new \in SlotRecords /\ (new.pc = "free" <=> new.edit = NoEdit)
        /\ (relay.slot = s => new.edit = slot[s].edit) /\ new.pc \in {"error", "free"}
    BY <1>0, AnswerTyped
  <2> HIDE DEF new
  <2>3. Basics'
    BY <1>0, <2>1, <2>2, ServedTyped DEF RelayTypeOK
  <2>4. slot'[s] = new /\ \A o \in Slots : o # s => slot'[o] = slot[o]
    BY <1>0, <2>1, <2>2, SlotChanges
  <2>5. OnePastCheck'
    BY <2>1, <2>2, <2>4 DEF RelayInv, OnePastCheck, PastCheck
  <2>6. ASSUME ~overlapped' PROVE VerdictShown' /\ \A o \in Slots : EditAgrees(o)'
    BY <1>0, <2>1, <2>2, <2>4, <2>6
       DEF RelayInv, VerdictShown, EditAgrees, PastCheck, outboxVars
  <2> QED
    BY <2>3, <2>5, <2>6 DEF RelayInv
<1>2. CASE ~Refused(slot[s].edit)
  <2> DEFINE new == [pc |-> "apply", edit |-> slot[s].edit]
  <2>1. /\ slot' = [slot EXCEPT ![s] = new]
        /\ overlapped' = (overlapped \/ \E o \in Slots \ {s} : PastCheck(o))
    BY <1>0, <1>2, StepChanges DEF CheckLifecycle
  <2>2. /\ new \in SlotRecords /\ (new.pc = "free" <=> new.edit = NoEdit)
        /\ new.edit = slot[s].edit /\ new.pc = "apply"
    BY <1>0 DEF SlotRecords, SlotSteps
  <2> HIDE DEF new
  <2>3. overlapped' \in BOOLEAN /\ (~overlapped' => ~overlapped /\ \A o \in Slots \ {s} : ~PastCheck(o))
    BY <1>0, <2>1 DEF RelayTypeOK
  <2>4. Basics'
    BY <1>0, <2>1, <2>2, <2>3, ServedTyped DEF RelayTypeOK
  <2>5. slot'[s] = new /\ \A o \in Slots : o # s => slot'[o] = slot[o]
    BY <1>0, <2>1, <2>2, SlotChanges
  <2>6. OnePastCheck'
    BY <2>3, <2>5 DEF OnePastCheck, PastCheck
  <2>7. ASSUME ~overlapped' PROVE VerdictShown' /\ \A o \in Slots : EditAgrees(o)'
    BY <1>0, <1>2, <2>2, <2>3, <2>5, <2>7
       DEF RelayInv, VerdictShown, EditAgrees, PastCheck, Refused, outboxVars
  <2> QED
    BY <2>4, <2>6, <2>7 DEF RelayInv
<1> QED
  BY <1>1, <1>2

(* The platform's call: what the edit shows agrees with the verdict.       *)
LEMMA ApplyKeeps ==
  ASSUME RelayInv, NEW s \in Slots, Apply(s) \/ ApplyFails(s)
  PROVE  /\ RelayInv'
         /\ lifecycle # "none" /\ StateOf(shown) = lifecycle /\ ~overlapped
              => StateOf(shown') = lifecycle
<1>0. /\ RelayTypeOK /\ slot[s].pc = "apply" /\ slot[s].edit \in Edits /\ slot[s].edit # NoEdit
      /\ UNCHANGED <<lifecycle, overlapped, forgotten, outboxVars, bridge, accepted>>
      /\ shown' \in {shown, slot[s].edit} /\ PastCheck(s)
  BY SlotTyped, States DEF RelayInv, Basics, Apply, ApplyFails, PastCheck
<1>1. PICK new \in SlotRecords :
        /\ slot' = [slot EXCEPT ![s] = new]
        /\ new.pc = "free" <=> new.edit = NoEdit
        /\ relay.slot = s => new.edit = slot[s].edit
        /\ new.pc \in {"record", "ok", "error", "free"}
        /\ new.pc \in {"record", "ok"} => new.edit = slot[s].edit
        /\ new.pc = "record" => shown' = slot[s].edit /\ StateOf(slot[s].edit) \in Verdicts
        /\ new.pc = "ok" => StateOf(slot[s].edit) \notin Verdicts
  <2>1. CASE ApplyFails(s) \/ (Apply(s) /\ StateOf(slot[s].edit) \notin Verdicts)
    <3>1. PICK answer \in {"ok", "error"} :
            Answer(s, answer) /\ (answer = "ok" => StateOf(slot[s].edit) \notin Verdicts)
      BY <2>1 DEF Apply, ApplyFails
    <3> QED
      BY <1>0, <3>1, AnswerTyped DEF Answer
  <2>2. CASE Apply(s) /\ StateOf(slot[s].edit) \in Verdicts
    <3> DEFINE new == [pc |-> "record", edit |-> slot[s].edit]
    <3>1. slot' = [slot EXCEPT ![s] = new] /\ shown' = slot[s].edit
      BY <1>0, <2>2, StepChanges DEF Apply
    <3>2. new \in SlotRecords /\ new.pc = "record" /\ new.edit = slot[s].edit
      BY <1>0 DEF SlotRecords, SlotSteps
    <3> HIDE DEF new
    <3> QED
      BY <1>0, <2>2, <3>1, <3>2
  <2> QED
    BY <2>1, <2>2
<1>2. Basics'
  BY <1>0, <1>1, ServedTyped DEF RelayTypeOK
<1>3. slot'[s] = new /\ \A o \in Slots : o # s => slot'[o] = slot[o]
  BY <1>0, <1>1, SlotChanges
<1>4. OnePastCheck'
  BY <1>0, <1>1, <1>3 DEF RelayInv, OnePastCheck, PastCheck
<1>5. ~overlapped => \A o \in Slots \ {s} : ~PastCheck(o)
  BY <1>0 DEF RelayInv, OnePastCheck
<1>6. ~overlapped /\ lifecycle # "none" => StateOf(slot[s].edit) = lifecycle /\ StateOf(shown) = lifecycle
  BY <1>0 DEF RelayInv, EditAgrees, VerdictShown
<1>7. ASSUME ~overlapped' PROVE VerdictShown' /\ \A o \in Slots : EditAgrees(o)'
  <2>1. ~overlapped /\ \A o \in Slots \ {s} : ~PastCheck(o)
    BY <1>0, <1>5, <1>7
  <2>2. VerdictShown'
    BY <1>0, <1>6, <2>1 DEF RelayInv, VerdictShown, outboxVars
  <2>3. EditAgrees(s)'
    BY <1>0, <1>1, <1>3, <1>6, <2>1, States DEF EditAgrees, PastCheck, Verdicts
  <2>4. ASSUME NEW o \in Slots \ {s} PROVE EditAgrees(o)'
    BY <1>0, <1>3, <2>1, <2>4 DEF RelayInv, EditAgrees, PastCheck
  <2> QED
    BY <2>2, <2>3, <2>4
<1> QED
  BY <1>0, <1>2, <1>4, <1>6, <1>7 DEF RelayInv

LEMMA RecordKeeps ==
  ASSUME RelayInv, NEW s \in Slots, RecordLifecycle(s)
  PROVE  RelayInv'
<1> DEFINE new == Answered(s, "ok")
<1>0. /\ RelayTypeOK /\ slot[s].pc = "record" /\ slot[s].edit \in Edits /\ slot[s].edit # NoEdit
      /\ UNCHANGED <<shown, overlapped, forgotten, outboxVars, bridge, accepted>>
      /\ lifecycle' = StateOf(slot[s].edit) /\ slot' = [slot EXCEPT ![s] = new] /\ PastCheck(s)
  BY SlotTyped, States DEF RelayInv, Basics, RecordLifecycle, Answer, PastCheck
<1>1. /\ new \in SlotRecords /\ (new.pc = "free" <=> new.edit = NoEdit)
      /\ (relay.slot = s => new.edit = slot[s].edit) /\ new.pc \in {"ok", "free"}
      /\ new.pc = "ok" => new.edit = slot[s].edit
  BY <1>0, AnswerTyped
<1> HIDE DEF new
<1>2. slot'[s] = new /\ \A o \in Slots : o # s => slot'[o] = slot[o]
  BY <1>0, <1>1, SlotChanges
<1>3. OnePastCheck'
  BY <1>0, <1>1, <1>2 DEF RelayInv, OnePastCheck, PastCheck
<1>4. lifecycle' \in Verdicts
  BY <1>0 DEF RelayInv, Basics, RecordsVerdict
<1>5. Basics'
  BY <1>0, <1>1, <1>4, ServedTyped DEF RelayTypeOK
<1>6. ASSUME ~overlapped PROVE VerdictShown' /\ \A o \in Slots : EditAgrees(o)'
  <2>1. /\ \A o \in Slots \ {s} : ~PastCheck(o)
        /\ shown = slot[s].edit
        /\ lifecycle # "none" => lifecycle' = lifecycle
    BY <1>0, <1>6 DEF RelayInv, OnePastCheck, EditAgrees
  <2>2. VerdictShown'
    BY <1>0, <1>6, <2>1 DEF RelayInv, VerdictShown, outboxVars, Verdicts
  <2>3. EditAgrees(s)'
    BY <1>0, <1>1, <1>2, States DEF EditAgrees, PastCheck
  <2>4. ASSUME NEW o \in Slots \ {s} PROVE EditAgrees(o)'
    BY <1>0, <1>2, <1>6, <2>1, <2>4 DEF RelayInv, EditAgrees, PastCheck, Verdicts
  <2> QED
    BY <2>2, <2>3, <2>4
<1> QED
  BY <1>0, <1>3, <1>5, <1>6 DEF RelayInv

(* What is not an edit under way leaves the edits alone.                   *)
LEMMA CallTyped ==
  ASSUME RelayInv, NEW s \in Slots, NEW e \in Edits, Call(s, e)
  PROVE  /\ slot' \in [Slots -> SlotRecords] /\ slot'[s] = [pc |-> "check", edit |-> e]
         /\ slot[s].pc = "free" /\ relay.slot # s
         /\ \A o \in Slots : o # s => slot'[o] = slot[o]
<1>1. [pc |-> "check", edit |-> e] \in SlotRecords /\ RelayTypeOK
  BY DEF SlotRecords, SlotSteps, RelayInv, Basics
<1> QED
  BY <1>1, SlotTyped, SlotChanges DEF Call

LEMMA CallKeepsEdits ==
  ASSUME RelayInv, NEW s \in Slots, NEW e \in Edits, Call(s, e),
         UNCHANGED <<lifecycle, shown, overlapped, forgotten>>,
         row'[FinalRow] = "published" => row[FinalRow] = "published"
  PROVE  /\ RecordsVerdict' /\ OnePastCheck'
         /\ ~overlapped' => VerdictShown' /\ \A o \in Slots : EditAgrees(o)'
<1>1. /\ slot'[s].pc = "check" /\ \A o \in Slots : o # s => slot'[o] = slot[o]
  <2>1. /\ slot'[s] = [pc |-> "check", edit |-> e]
        /\ \A o \in Slots : o # s => slot'[o] = slot[o]
    BY CallTyped
  <2> QED
    BY <2>1
<1>2. RecordsVerdict' /\ OnePastCheck'
  BY <1>1 DEF RelayInv, Basics, RecordsVerdict, OnePastCheck, PastCheck
<1>3. ASSUME ~overlapped PROVE VerdictShown' /\ \A o \in Slots : EditAgrees(o)'
  BY <1>1, <1>3 DEF RelayInv, VerdictShown, EditAgrees, PastCheck
<1> QED
  BY <1>2, <1>3

LEMMA CallKeeps ==
  ASSUME RelayInv, NEW s \in Slots,
         \/ FailInbound(s) \/ \E e \in Streams : Stream(s, e)
         \/ \E r \in Rows : PublishRow(r, s)
  PROVE  RelayInv'
<1>0. RelayTypeOK /\ TriesLeft
  BY DEF RelayInv, Basics
<1>1. CASE FailInbound(s) \/ \E e \in Streams : Stream(s, e)
  <2>1. PICK e \in Edits : Call(s, e)
    BY <1>1, States DEF FailInbound, Stream
  <2>2. /\ UNCHANGED <<row, tries, relay, accepted, lifecycle, shown, overlapped, forgotten>>
        /\ bridge' \in {"ingest", "start", "failing", "done"}
    BY <1>0, <1>1 DEF FailInbound, Stream, outboxVars, RelayTypeOK
  <2>3. /\ slot' \in [Slots -> SlotRecords] /\ slot'[s] = [pc |-> "check", edit |-> e]
        /\ relay.slot # s /\ \A o \in Slots : o # s => slot'[o] = slot[o]
    BY <2>1, CallTyped
  <2>4. relay # NoRow => relay.slot \in Slots
    BY <1>0 DEF RelayTypeOK
  <2>5. RelayTypeOK' /\ TriesLeft'
    BY <1>0, <2>2, <2>3, <2>4, States DEF RelayTypeOK, TriesLeft, SlotRecords
  <2> QED
    BY <2>1, <2>2, <2>5, CallKeepsEdits DEF RelayInv, Basics
<1>2. ASSUME NEW r \in Rows, PublishRow(r, s) PROVE RelayInv'
  <2>1. /\ Call(s, r) /\ r \in Edits /\ relay = NoRow /\ row[r] = "pending"
        /\ relay' = [row |-> r, slot |-> s] /\ row' = [row EXCEPT ![r] = "leased"]
        /\ UNCHANGED <<tries, bridge, accepted, lifecycle, shown, overlapped, forgotten>>
    BY <1>2, States DEF PublishRow
  <2>2. /\ slot' \in [Slots -> SlotRecords] /\ slot'[s] = [pc |-> "check", edit |-> r]
        /\ \A o \in Slots : o # s => slot'[o] = slot[o]
    BY <2>1, CallTyped
  <2>3. row' \in [Rows -> RowStates]
        /\ \A o \in Rows : row'[o] = IF o = r THEN "leased" ELSE row[o]
    BY <1>0, <2>1 DEF RelayTypeOK, RowStates
  <2>4. relay' \in [row : Rows, slot : Slots] /\ relay'.row = r /\ relay'.slot = s
        /\ relay.row = NoEdit
    BY <2>1 DEF NoRow
  <2>5. \A o \in Rows : row'[o] = "leased" <=> relay'.row = o
    BY <1>0, <2>3, <2>4, States DEF RelayTypeOK
  <2>6. RelayTypeOK'
    BY <1>0, <2>1, <2>2, <2>3, <2>4, <2>5, States DEF RelayTypeOK, SlotRecords
  <2>7. TriesLeft'
    BY <1>0, <2>1, <2>3 DEF TriesLeft
  <2>8. row'[FinalRow] = "published" => row[FinalRow] = "published"
    BY <2>3, States
  <2> QED
    BY <2>1, <2>6, <2>7, <2>8, CallKeepsEdits DEF RelayInv, Basics
<1> QED
  BY <1>1, <1>2

(* The relay gets its answer, or stops waiting for it.                     *)
LEMMA AnsweredKeeps ==
  ASSUME RelayInv, Published \/ PublishFailed \/ PublishTimeout
  PROVE  RelayInv'
<1> DEFINE r == relay.row
           s == relay.slot
<1>0. /\ RelayTypeOK /\ TriesLeft /\ relay # NoRow /\ relay' = NoRow
      /\ UNCHANGED <<bridge, accepted, lifecycle, shown, overlapped, forgotten>>
  BY DEF RelayInv, Basics, Published, PublishFailed, PublishTimeout, PutBack
<1>1. r \in Rows /\ s \in Slots /\ row[r] = "leased" /\ slot[s].edit = r /\ tries[r] < MaxAttempts
  BY <1>0 DEF RelayTypeOK, TriesLeft
<1>2. PICK new \in SlotRecords :
        /\ slot' = [slot EXCEPT ![s] = new]
        /\ new = FreeSlot \/ new = slot[s]
    BY <1>0, <1>1, SlotTyped, States
       DEF Published, PublishFailed, PublishTimeout, FreeSlot, SlotRecords, SlotSteps
<1>3. slot' \in [Slots -> SlotRecords] /\ slot'[s] = new
      /\ \A o \in Slots : o # s => slot'[o] = slot[o]
  BY <1>0, <1>1, <1>2, SlotChanges
<1>4. \A o \in Slots : slot'[o] = FreeSlot \/ slot'[o] = slot[o]
  BY <1>2, <1>3
<1>5. /\ row' \in [Rows -> RowStates] /\ tries' \in [Rows -> 0 .. MaxAttempts]
      /\ row'[r] # "leased" /\ \A o \in Rows : o # r => row'[o] = row[o] /\ tries'[o] = tries[o]
      /\ row'[r] \notin {"published", "dead"} => tries'[r] < MaxAttempts
      /\ row'[r] = "published" => slot[s].pc = "ok"
  <2>1. CASE Published
    BY <1>0, <1>1, <2>1 DEF Published, RelayTypeOK, RowStates
  <2>2. CASE PublishFailed \/ PublishTimeout
    <3>1. /\ tries' = [tries EXCEPT ![r] = tries[r] + 1]
          /\ row' = [row EXCEPT ![r] = IF tries[r] + 1 = MaxAttempts THEN "dead" ELSE "pending"]
      BY <1>0, <1>1, <2>2 DEF PublishFailed, PublishTimeout, PutBack, RelayTypeOK
    <3>2. tries[r] \in Nat /\ tries[r] + 1 \in 0 .. MaxAttempts
      BY <1>0, <1>1 DEF RelayTypeOK
    <3> QED
      BY <1>0, <1>1, <3>1, <3>2 DEF RelayTypeOK, RowStates
  <2> QED
    BY <2>1, <2>2
<1>6. RelayTypeOK'
  <2>1. \A o \in Rows : row'[o] # "leased" /\ relay'.row # o
    BY <1>0, <1>1, <1>5, States DEF RelayTypeOK, NoRow
  <2>2. \A o \in Slots : slot'[o].pc = "free" <=> slot'[o].edit = NoEdit
    BY <1>0, <1>4 DEF RelayTypeOK, FreeSlot
  <2> QED
    BY <1>0, <1>3, <1>5, <2>1, <2>2 DEF RelayTypeOK, SlotRecords
<1>7. TriesLeft' /\ RecordsVerdict' /\ OnePastCheck'
  BY <1>0, <1>4, <1>5 DEF TriesLeft, RelayInv, Basics, RecordsVerdict, OnePastCheck, PastCheck, FreeSlot
<1>8. ASSUME ~overlapped PROVE VerdictShown' /\ \A o \in Slots : EditAgrees(o)'
  <2>1. row'[FinalRow] = "published" /\ ~forgotten => lifecycle = "final"
    BY <1>1, <1>5, <1>8, States DEF RelayInv, VerdictShown, EditAgrees
  <2>2. VerdictShown'
    BY <1>0, <1>8, <2>1 DEF RelayInv, VerdictShown
  <2>3. ASSUME NEW o \in Slots PROVE EditAgrees(o)'
    BY <1>0, <1>4, <1>8, <2>3 DEF RelayInv, EditAgrees, PastCheck, FreeSlot
  <2> QED
    BY <2>2, <2>3
<1> QED
  BY <1>0, <1>6, <1>7, <1>8 DEF RelayInv, Basics

(* ChannelCore forgets, and the calls it serves break off when it restarts.*)
LEMMA ForgettingKeeps ==
  ASSUME RelayInv, ForgetLifecycle \/ ChannelRestart
  PROVE  RelayInv'
<1>0. /\ RelayTypeOK /\ TriesLeft /\ lifecycle' = "none" /\ forgotten' = TRUE
      /\ UNCHANGED <<row, tries, relay, shown, overlapped, bridge, accepted>>
  BY DEF RelayInv, Basics, ForgetLifecycle, ChannelRestart, outboxVars
<1>1. /\ slot' \in [Slots -> SlotRecords]
      /\ \A s \in Slots : slot'[s].pc = "free" <=> slot'[s].edit = NoEdit
      /\ relay # NoRow => slot'[relay.slot].edit = relay.row
      /\ \A s \in Slots : ~PastCheck(s)' /\ slot'[s].pc # "record"
  <2>1. CASE ForgetLifecycle
    BY <1>0, <2>1 DEF ForgetLifecycle, RelayTypeOK, SlotRecords, PastCheck
  <2>2. CASE ChannelRestart
    <3>1. slot' = [s \in Slots |-> IF slot[s].pc = "free" THEN FreeSlot ELSE Answered(s, "error")]
      BY <2>2 DEF ChannelRestart
    <3>2. ASSUME NEW s \in Slots
          PROVE  /\ slot'[s] \in SlotRecords /\ (slot'[s].pc = "free" <=> slot'[s].edit = NoEdit)
                 /\ slot'[s].pc \in {"error", "free"}
                 /\ relay.slot = s => slot'[s].edit = slot[s].edit
      <4>1. CASE slot[s].pc = "free"
        BY <1>0, <3>1, <4>1, SlotTyped, States DEF FreeSlot, SlotRecords, SlotSteps
      <4>2. CASE slot[s].pc # "free"
        BY <1>0, <3>1, <4>2, AnswerTyped
      <4> QED
        BY <4>1, <4>2
    <3>3. slot' \in [Slots -> SlotRecords]
      BY <3>1, <3>2
    <3>4. relay # NoRow => relay.slot \in Slots /\ slot[relay.slot].edit = relay.row
      BY <1>0 DEF RelayTypeOK
    <3> QED
      BY <3>2, <3>3, <3>4 DEF PastCheck
  <2> QED
    BY <2>1, <2>2
<1>2. RelayTypeOK'
  BY <1>0, <1>1 DEF RelayTypeOK, SlotRecords
<1>3. TriesLeft' /\ RecordsVerdict' /\ OnePastCheck'
  BY <1>0, <1>1 DEF TriesLeft, RecordsVerdict, OnePastCheck
<1>4. VerdictShown' /\ \A s \in Slots : EditAgrees(s)'
  BY <1>0, <1>1 DEF VerdictShown, EditAgrees
<1> QED
  BY <1>2, <1>3, <1>4 DEF RelayInv, Basics

LEMMA AroundEditsKeeps ==
  ASSUME RelayInv,
         \/ GateAccepts \/ IngestFails \/ Ingested \/ StartRunAnswered
         \/ \E r \in Rows : EnqueueRow(r)
         \/ UNCHANGED relayVars
  PROVE  RelayInv'
<1>0. /\ RelayTypeOK /\ TriesLeft /\ UNCHANGED channelVars /\ UNCHANGED <<tries, relay>>
      /\ bridge' \in {"ingest", "start", "failing", "done"} /\ accepted' \in BOOLEAN
  BY DEF RelayInv, Basics, RelayTypeOK, GateAccepts, IngestFails, Ingested, StartRunAnswered,
         EnqueueRow, relayVars, outboxVars
<1>1. UNCHANGED row \/ \E r \in Rows : row[r] = "none" /\ row' = [row EXCEPT ![r] = "pending"]
  BY DEF GateAccepts, IngestFails, Ingested, StartRunAnswered, EnqueueRow, relayVars, outboxVars
<1>2. /\ row' \in [Rows -> RowStates]
      /\ \A r \in Rows : row'[r] = row[r] \/ (row[r] = "none" /\ row'[r] = "pending")
  BY <1>0, <1>1 DEF RelayTypeOK, RowStates
<1>3. RelayTypeOK' /\ TriesLeft'
  BY <1>0, <1>2 DEF RelayTypeOK, TriesLeft, channelVars
<1> QED
  BY <1>0, <1>2, <1>3, States
     DEF RelayInv, Basics, RecordsVerdict, OnePastCheck, VerdictShown, EditAgrees, PastCheck,
         channelVars

LEMMA RelayNextKeeps == RelayInv /\ [RelayNext]_relayVars => RelayInv'
BY CheckKeeps, ApplyKeeps, RecordKeeps, CallKeeps, AnsweredKeeps, ForgettingKeeps,
   AroundEditsKeeps
   DEF RelayNext, ServeStep, RelayStep, BridgeStep

LEMMA RelayInvariant == RelaySpec => []RelayInv
BY RelayInitially, RelayNextKeeps, PTL DEF RelaySpec

(* When the outbox has published the answer (DeliveryPublisher), a final   *)
(* text is what the user sees (Repository.EditMessage).                    *)
THEOREM AnswerIsShown == RelaySpec => []FinalShown
<1>1. RelayInv => FinalShown
  BY DEF RelayInv, VerdictShown, FinalShown
<1> QED
  BY RelayInvariant, <1>1, PTL

(* No edit replaces what a recorded verdict shows, except one that was     *)
(* already past its check.                                                 *)
THEOREM ShownVerdictStays == RelaySpec => VerdictStays
<1>1. RelayInv /\ [RelayNext]_relayVars
        => [lifecycle # "none" /\ StateOf(shown) = lifecycle /\ ~overlapped
              => StateOf(shown') = lifecycle]_relayVars
  <2> SUFFICES ASSUME RelayInv, RelayNext, lifecycle # "none", StateOf(shown) = lifecycle,
                      ~overlapped
               PROVE  StateOf(shown') = lifecycle
    OBVIOUS
  <2>1. CASE \E s \in Slots : Apply(s) \/ ApplyFails(s)
    BY <2>1, ApplyKeeps
  <2>2. CASE ~\E s \in Slots : Apply(s) \/ ApplyFails(s)
    <3>1. UNCHANGED shown
      BY <2>2 DEF RelayNext, ServeStep, RelayStep, BridgeStep, CheckLifecycle, RecordLifecycle,
                  Stream, EnqueueRow, PublishRow, Published, PublishFailed, PublishTimeout,
                  GateAccepts, IngestFails, Ingested, StartRunAnswered, FailInbound,
                  ForgetLifecycle, ChannelRestart, channelVars
    <3> QED
      BY <3>1
  <2> QED
    BY <2>1, <2>2
<1> QED
  BY RelayInvariant, <1>1, PTL DEF RelaySpec, VerdictStays

HIDE RelayAssumption
-----------------------------------------------------------------------------
(***************************************************************************)
(* That nobody gets a message twice or too early.  Why a handler may put   *)
(* its delivery at the end of a line: it is not on the line, it is the     *)
(* only one that passed with its message, and no handler that began        *)
(* earlier waited for it to end, as it has not ended.                      *)
(***************************************************************************)

USE InboundAssumption

On(line) == {line[i] : i \in 1 .. Len(line)}

\* The two promises about a line, with the history as a parameter.
KeepsOrder(line, history) ==
  Once(line) /\ \A i, j \in 1 .. Len(line) : i < j => line[j] \notin history[line[i]]

LEMMA OnLine ==
  ASSUME NEW line \in Seq(Deliveries)
  PROVE  /\ Len(line) \in Nat /\ On(line) \subseteq Deliveries
         /\ \A i \in 1 .. Len(line) : line[i] \in Deliveries /\ line[i] \in On(line)
BY ElementOfSeq, LenProperties DEF On

LEMMA AppendOn ==
  ASSUME NEW line \in Seq(Deliveries), NEW d \in Deliveries
  PROVE  /\ Append(line, d) \in Seq(Deliveries) /\ Len(Append(line, d)) = Len(line) + 1
         /\ \A i \in 1 .. Len(line) : Append(line, d)[i] = line[i]
         /\ Append(line, d)[Len(line) + 1] = d
         /\ On(Append(line, d)) = On(line) \cup {d}
<1>1. /\ Append(line, d) \in Seq(Deliveries) /\ Len(Append(line, d)) = Len(line) + 1
      /\ \A i \in 1 .. Len(line) : Append(line, d)[i] = line[i]
      /\ Append(line, d)[Len(line) + 1] = d
  BY AppendProperties
<1>2. Len(line) \in Nat
  BY LenProperties
<1>3. On(Append(line, d)) = On(line) \cup {d}
  BY <1>1, <1>2 DEF On
<1> QED
  BY <1>1, <1>3

(* A delivery of a message that is not on the line yet may be put at its   *)
(* end, unless another on the line waited for it.                          *)
LEMMA AppendKeepsOrder ==
  ASSUME NEW line \in Seq(Deliveries), NEW d \in Deliveries, NEW history,
         KeepsOrder(line, history),
         \A e \in On(line) : /\ d \notin history[e]
                             /\ Message[d] \in Identified => Message[e] # Message[d]
  PROVE  KeepsOrder(Append(line, d), history)
<1> DEFINE longer == Append(line, d)
<1>1. /\ Len(longer) = Len(line) + 1 /\ Len(line) \in Nat
      /\ \A i \in 1 .. Len(line) : longer[i] = line[i] /\ line[i] \in On(line)
      /\ longer[Len(line) + 1] = d
  BY AppendOn, OnLine
<1> HIDE DEF longer
<1>2. Once(longer)
  <2> SUFFICES ASSUME NEW i \in 1 .. Len(longer), NEW j \in 1 .. Len(longer), i # j,
                      Message[longer[i]] \in Identified
               PROVE  Message[longer[i]] # Message[longer[j]]
    BY DEF Once
  <2>1. CASE i <= Len(line) /\ j <= Len(line)
    BY <1>1, <2>1 DEF KeepsOrder, Once
  <2>2. CASE i = Len(line) + 1 \/ j = Len(line) + 1
    BY <1>1, <2>2
  <2> QED
    BY <1>1, <2>1, <2>2
<1>3. \A i, j \in 1 .. Len(longer) : i < j => longer[j] \notin history[longer[i]]
  <2> SUFFICES ASSUME NEW i \in 1 .. Len(longer), NEW j \in 1 .. Len(longer), i < j
               PROVE  longer[j] \notin history[longer[i]]
    OBVIOUS
  <2>1. CASE j <= Len(line)
    BY <1>1, <2>1 DEF KeepsOrder
  <2>2. CASE j = Len(line) + 1
    BY <1>1, <2>2
  <2> QED
    BY <1>1, <2>1, <2>2
<1> QED
  BY <1>2, <1>3 DEF KeepsOrder, longer

(* A line from which an element is taken keeps its order.                  *)
LEMMA WithoutKeepsOrder ==
  ASSUME NEW l \in Seq(Deliveries), NEW r \in Seq(Deliveries), NEW d \in Deliveries, NEW history,
         KeepsOrder(l \o <<d>> \o r, history)
  PROVE  KeepsOrder(l \o r, history) /\ On(l \o r) \subseteq On(l \o <<d>> \o r)
<1> DEFINE whole == l \o <<d>> \o r
           short == l \o r
           at(i) == IF i <= Len(l) THEN i ELSE i + 1
<1>1. /\ Len(l) \in Nat /\ Len(r) \in Nat /\ <<d>> \in Seq(Deliveries) /\ Len(<<d>>) = 1
      /\ l \o <<d>> \in Seq(Deliveries)
  BY LenProperties, ConcatProperties
<1>2. Len(l \o <<d>>) = Len(l) + 1
      /\ \A i \in 1 .. Len(l) + 1 : (l \o <<d>>)[i] = IF i <= Len(l) THEN l[i] ELSE <<d>>[i - Len(l)]
  BY <1>1, ConcatProperties
<1>3. /\ Len(whole) = Len(l) + 1 + Len(r)
      /\ \A i \in 1 .. Len(l) + 1 + Len(r) :
           whole[i] = IF i <= Len(l) + 1 THEN (l \o <<d>>)[i] ELSE r[i - (Len(l) + 1)]
  BY <1>1, <1>2, ConcatProperties
<1>4. /\ Len(short) = Len(l) + Len(r)
      /\ \A i \in 1 .. Len(l) + Len(r) :
           short[i] = IF i <= Len(l) THEN l[i] ELSE r[i - Len(l)]
  BY ConcatProperties
<1>5. ASSUME NEW i \in 1 .. Len(short)
      PROVE  at(i) \in 1 .. Len(whole) /\ short[i] = whole[at(i)]
  <2>1. CASE i <= Len(l)
    BY <1>1, <1>2, <1>3, <1>4, <2>1
  <2>2. CASE ~(i <= Len(l))
    <3>1. at(i) = i + 1 /\ i \in Nat /\ i + 1 \in 1 .. Len(l) + 1 + Len(r) /\ ~(i + 1 <= Len(l) + 1)
          /\ i + 1 - (Len(l) + 1) = i - Len(l)
      BY <1>1, <1>4, <2>2
    <3>2. whole[i + 1] = r[i - Len(l)]
      BY <1>3, <3>1
    <3> QED
      BY <1>3, <1>4, <2>2, <3>1, <3>2
  <2> QED
    BY <2>1, <2>2
<1>6. \A i, j \in 1 .. Len(short) : (i # j => at(i) # at(j)) /\ (i < j => at(i) < at(j))
  BY <1>1, <1>4
<1> HIDE DEF whole, short, at
<1>7. KeepsOrder(whole, history)
  BY DEF whole
<1>8. KeepsOrder(short, history)
  <2>1. ASSUME NEW i \in 1 .. Len(short), NEW j \in 1 .. Len(short)
        PROVE  /\ i # j /\ Message[short[i]] \in Identified => Message[short[i]] # Message[short[j]]
               /\ i < j => short[j] \notin history[short[i]]
    <3>1. /\ at(i) \in 1 .. Len(whole) /\ at(j) \in 1 .. Len(whole)
          /\ short[i] = whole[at(i)] /\ short[j] = whole[at(j)]
      BY <1>5
    <3>2. (i # j => at(i) # at(j)) /\ (i < j => at(i) < at(j))
      BY <1>6
    <3> QED
      BY <1>7, <3>1, <3>2 DEF KeepsOrder, Once
  <2> QED
    BY <2>1 DEF KeepsOrder, Once
<1>9. On(short) \subseteq On(whole)
  BY <1>5 DEF On
<1> QED
  BY <1>8, <1>9 DEF whole, short

LEMMA ConcatAppend ==
  ASSUME NEW l \in Seq(Deliveries), NEW r \in Seq(Deliveries), NEW d \in Deliveries
  PROVE  l \o Append(r, d) = Append(l \o r, d)
BY AppendIsConcat, ConcatAssociative, ConcatProperties, ElementOfSeq

(* Moving the head of a queue to the end of what was sent leaves the line. *)
LEMMA MoveHead ==
  ASSUME NEW l \in Seq(Deliveries), NEW r \in Seq(Deliveries), r # <<>>
  PROVE  /\ Append(l, Head(r)) \o Tail(r) = l \o r
         /\ l \o <<Head(r)>> \o Tail(r) = l \o r
         /\ Head(r) \in Deliveries /\ Tail(r) \in Seq(Deliveries) /\ Len(Tail(r)) <= Len(r)
         /\ Append(l, Head(r)) \in Seq(Deliveries)
<1>1. /\ Head(r) \in Deliveries /\ Tail(r) \in Seq(Deliveries) /\ Len(Tail(r)) = Len(r) - 1
      /\ Len(r) \in Nat
  BY HeadTailProperties, LenProperties
<1>2. <<Head(r)>> \in Seq(Deliveries) /\ <<Head(r)>> \o Tail(r) = r
  <2> DEFINE h == <<Head(r)>>
  <2>1. h \in Seq(Deliveries) /\ Len(h) = 1 /\ h[1] = r[1]
    BY <1>1
  <2> HIDE DEF h
  <2>2. /\ h \o Tail(r) \in Seq(Deliveries) /\ Len(h \o Tail(r)) = Len(h) + Len(Tail(r))
        /\ \A i \in 1 .. Len(h) + Len(Tail(r)) :
             (h \o Tail(r))[i] = IF i <= Len(h) THEN h[i] ELSE Tail(r)[i - Len(h)]
    BY <1>1, <2>1, ConcatProperties
  <2>3. \A i \in 1 .. Len(Tail(r)) : Tail(r)[i] = r[i + 1]
    BY HeadTailProperties
  <2>4. \A i \in 1 .. Len(r) : (h \o Tail(r))[i] = r[i]
    BY <1>1, <2>1, <2>2, <2>3
  <2>5. h \o Tail(r) = r
    BY <1>1, <2>1, <2>2, <2>4, SeqEqual
  <2> QED
    BY <2>1, <2>5 DEF h
<1>3. Append(l, Head(r)) = l \o <<Head(r)>>
  BY <1>1, AppendIsConcat
<1>4. l \o <<Head(r)>> \o Tail(r) = l \o r
  BY <1>1, <1>2, ConcatAssociative
<1>5. Append(l, Head(r)) \o Tail(r) = l \o r
  BY <1>3, <1>4, Zenon
<1>6. Append(l, Head(r)) \in Seq(Deliveries)
  BY <1>1, AppendProperties
<1> QED
  BY <1>1, <1>4, <1>5, <1>6

InboundTypes ==
  /\ handler \in [Deliveries -> HandlerSteps]
  /\ seen \subseteq Identified
  /\ todo \in [Deliveries -> SUBSET subs] /\ lost \in [Deliveries -> Nat]
  /\ subs \subseteq Subscribers
  /\ queue \in [Subscribers -> Seq(Deliveries)] /\ got \in [Subscribers -> Seq(Deliveries)]
  /\ \A s \in Subscribers : Len(queue[s]) <= Capacity
  /\ stream \in [Subscribers -> {"none", "open", "closed"}]
  /\ owed \subseteq Deliveries \X Subscribers
  /\ began \in [Deliveries -> SUBSET Deliveries]
  /\ forwarded \in Seq(Deliveries) /\ forwardQueue \in Seq(Deliveries)
  /\ forwarder \in Deliveries \cup {NoDelivery}
  /\ Len(forwardQueue) <= Capacity
  /\ dropped \in Nat /\ forwardDropped \in Nat /\ forwardFailures \in Nat
  /\ forwarding \in BOOLEAN /\ stopped \in BOOLEAN

\* The handler of d went on with it, and nobody else with the same message.
Passed(d) == handler[d] \in {"publish", "offer", "forward", "done"}

PassedOnce ==
  /\ \A d \in Deliveries : Passed(d) /\ Message[d] \in Identified => Message[d] \in seen
  /\ \A d, e \in Deliveries :
       Passed(d) /\ Passed(e) /\ Message[d] \in Identified /\ Message[d] = Message[e] => d = e

BeganAfterEnds == \A d \in Deliveries : \A e \in began[d] : Ended(e)

TodoWhileOffered == \A d \in Deliveries : todo[d] # {} => handler[d] = "offer"

\* What is on a line has been put there, and is not to be put there again.
LineInv(s) ==
  /\ \A d \in On(Line(s)) : handler[d] \in {"offer", "forward", "done"} /\ s \notin todo[d]
  /\ KeepsOrder(Line(s), began)

ForwardInv ==
  /\ \A d \in On(ForwardLine) : handler[d] = "done"
  /\ KeepsOrder(ForwardLine, began)

InboundInv ==
  /\ InboundTypes /\ PassedOnce /\ BeganAfterEnds /\ TodoWhileOffered
  /\ ForwardInv /\ \A s \in Subscribers : LineInv(s)

\* The part of the forwarder's line that it holds in its hand.
InHand == IF forwarder = NoDelivery THEN <<>> ELSE <<forwarder>>

LEMMA LinesTyped ==
  ASSUME InboundTypes
  PROVE  /\ \A s \in Subscribers : got[s] \in Seq(Deliveries) /\ queue[s] \in Seq(Deliveries)
                                    /\ Line(s) \in Seq(Deliveries)
         /\ InHand \in Seq(Deliveries) /\ forwarded \o InHand \in Seq(Deliveries)
         /\ ForwardLine = forwarded \o InHand \o forwardQueue
         /\ ForwardLine \in Seq(Deliveries)
<1>1. \A s \in Subscribers : got[s] \in Seq(Deliveries) /\ queue[s] \in Seq(Deliveries)
  BY DEF InboundTypes
<1>2. \A s \in Subscribers : Line(s) \in Seq(Deliveries)
  BY <1>1, ConcatProperties DEF Line
<1>3. InHand \in Seq(Deliveries)
  BY DEF InHand, InboundTypes
<1>4. forwarded \o InHand \in Seq(Deliveries)
  BY <1>3, ConcatProperties DEF InboundTypes
<1>5. ForwardLine = forwarded \o InHand \o forwardQueue
  BY DEF ForwardLine, InHand
<1>6. (forwarded \o InHand) \o forwardQueue \in Seq(Deliveries)
  BY <1>4, ConcatProperties DEF InboundTypes
<1> QED
  BY <1>1, <1>2, <1>3, <1>4, <1>5, <1>6, Zenon

LEMMA EmptyLine == KeepsOrder(<<>>, began) /\ On(<<>>) = {} /\ <<>> \o <<>> = <<>>
BY DEF KeepsOrder, Once, On

LEMMA InboundInitially == InboundInit => InboundInv
<1> SUFFICES ASSUME InboundInit PROVE InboundInv
  OBVIOUS
<1> USE DEF InboundInit
<1>1. InboundTypes
  <2>1. \A s \in Subscribers : queue[s] = <<>>
    OBVIOUS
  <2>2. <<>> \in Seq(Deliveries) /\ Len(<<>>) = 0 /\ 0 <= Capacity
    OBVIOUS
  <2>3. /\ queue \in [Subscribers -> Seq(Deliveries)] /\ got \in [Subscribers -> Seq(Deliveries)]
        /\ \A s \in Subscribers : Len(queue[s]) <= Capacity
    BY <2>1, <2>2
  <2> QED
    BY <2>2, <2>3 DEF InboundTypes, HandlerSteps
<1>2. PassedOnce /\ BeganAfterEnds /\ TodoWhileOffered
  BY DEF PassedOnce, Passed, BeganAfterEnds, TodoWhileOffered
<1>3. ForwardLine = <<>>
  BY EmptyLine DEF ForwardLine
<1>4. ForwardInv
  BY <1>3, EmptyLine DEF ForwardInv
<1>5. ASSUME NEW s \in Subscribers PROVE LineInv(s)
  <2>1. Line(s) = <<>>
    BY EmptyLine DEF Line
  <2> QED
    BY <2>1, EmptyLine DEF LineInv
<1> QED
  BY <1>1, <1>2, <1>4, <1>5 DEF InboundInv

LEMMA LineStays ==
  ASSUME NEW s \in Subscribers, LineInv(s), Line(s)' = Line(s),
         \A d \in On(Line(s)) : /\ began'[d] = began[d] /\ s \notin todo'[d]
                               /\ handler'[d] \in {"offer", "forward", "done"}
  PROVE  LineInv(s)'
<1> DEFINE line == Line(s)
<1>1. /\ KeepsOrder(line, began) /\ line' = line
      /\ \A d \in On(line) : /\ began'[d] = began[d] /\ s \notin todo'[d]
                            /\ handler'[d] \in {"offer", "forward", "done"}
  BY DEF LineInv
<1>2. \A i \in 1 .. Len(line) : line[i] \in On(line)
  BY DEF On
<1> HIDE DEF line
<1>3. KeepsOrder(line, began')
  BY <1>1, <1>2 DEF KeepsOrder
<1> QED
  BY <1>1, <1>3 DEF LineInv, line

LEMMA ForwardLineStays ==
  ASSUME ForwardInv, ForwardLine' = ForwardLine,
         \A d \in On(ForwardLine) : began'[d] = began[d] /\ handler'[d] = "done"
  PROVE  ForwardInv'
<1> DEFINE line == ForwardLine
<1>1. /\ KeepsOrder(line, began) /\ line' = line
      /\ \A d \in On(line) : began'[d] = began[d] /\ handler'[d] = "done"
  BY DEF ForwardInv
<1>2. \A i \in 1 .. Len(line) : line[i] \in On(line)
  BY DEF On
<1> HIDE DEF line
<1>3. KeepsOrder(line, began')
  BY <1>1, <1>2 DEF KeepsOrder
<1> QED
  BY <1>1, <1>3 DEF ForwardInv, line

(* What a handler that is still under way may put at the end of a line.    *)
LEMMA MayFollow ==
  ASSUME InboundInv, NEW d \in Deliveries, NEW e \in Deliveries, d # e,
         handler[d] \in {"offer", "forward"}, Passed(e)
  PROVE  d \notin began[e] /\ (Message[d] \in Identified => Message[e] # Message[d])
BY DEF InboundInv, InboundTypes, BeganAfterEnds, Ended, PassedOnce, Passed

LEMMA HandlerKeeps ==
  ASSUME InboundInv, NEW d \in Deliveries,
         Receive(d) \/ Publish(d) \/ CountDrops(d)
  PROVE  InboundInv'
<1>0. /\ InboundTypes /\ UNCHANGED <<subscriptionVars, forwardVars, stopped>>
      /\ ForwardLine' = ForwardLine /\ \A s \in Subscribers : Line(s)' = Line(s)
  BY DEF InboundInv, Receive, Publish, CountDrops, subscriptionVars, forwardVars, ForwardLine, Line
<1>1. CASE Receive(d)
  <2>1. PICK next \in {"publish", "ignored"} :
          /\ handler[d] = "idle" /\ handler' = [handler EXCEPT ![d] = next]
          /\ began' = [began EXCEPT ![d] = {e \in Deliveries : Ended(e)}]
          /\ seen \subseteq seen' /\ seen' \subseteq Identified
          /\ UNCHANGED <<todo, lost, owed, dropped>>
          /\ next = "publish" /\ Message[d] \in Identified => Message[d] \notin seen /\ Message[d] \in seen'
    BY <1>0, <1>1 DEF Receive, SeenBefore, Store, InboundTypes
  <2>2. /\ handler' \in [Deliveries -> HandlerSteps] /\ handler'[d] = next
        /\ \A e \in Deliveries : e # d => handler'[e] = handler[e] /\ began'[e] = began[e]
        /\ began' \in [Deliveries -> SUBSET Deliveries]
        /\ \A e \in began'[d] : Ended(e) /\ e # d
    BY <1>0, <2>1 DEF InboundTypes, HandlerSteps, Ended
  <2>3. InboundTypes'
    BY <1>0, <2>1, <2>2 DEF InboundTypes, subscriptionVars, forwardVars
  <2>4. PassedOnce'
    BY <2>1, <2>2 DEF InboundInv, PassedOnce, Passed
  <2>5. BeganAfterEnds' /\ TodoWhileOffered'
    BY <1>0, <2>1, <2>2 DEF InboundInv, InboundTypes, BeganAfterEnds, TodoWhileOffered, Ended
  <2>6. ForwardInv'
    <3>1. \A e \in On(ForwardLine) : e \in Deliveries /\ e # d /\ handler[e] = "done"
      BY <1>0, <2>1, LinesTyped, OnLine DEF InboundInv, ForwardInv
    <3> QED
      BY <1>0, <2>2, <3>1, ForwardLineStays DEF InboundInv
  <2>7. ASSUME NEW s \in Subscribers PROVE LineInv(s)'
    <3>1. \A e \in On(Line(s)) : /\ e \in Deliveries /\ e # d /\ s \notin todo[e]
                                /\ handler[e] \in {"offer", "forward", "done"}
      BY <1>0, <2>1, LinesTyped, OnLine DEF InboundInv, LineInv
    <3> QED
      BY <1>0, <2>1, <2>2, <3>1, LineStays DEF InboundInv
  <2> QED
    BY <2>3, <2>4, <2>5, <2>6, <2>7 DEF InboundInv
<1>2. CASE Publish(d)
  <2>1. /\ handler[d] = "publish" /\ handler' = [handler EXCEPT ![d] = "offer"]
        /\ todo' = [todo EXCEPT ![d] = Matching(d)] /\ Matching(d) \subseteq subs
        /\ owed' = owed \cup {<<d, s>> : s \in Matching(d)}
        /\ UNCHANGED <<seen, lost, began, dropped>>
    BY <1>2 DEF Publish, Matching
  <2>2. /\ handler' \in [Deliveries -> HandlerSteps] /\ handler'[d] = "offer"
        /\ todo' \in [Deliveries -> SUBSET subs]
        /\ owed' \subseteq Deliveries \X Subscribers
        /\ \A e \in Deliveries : e # d => handler'[e] = handler[e] /\ todo'[e] = todo[e]
    BY <1>0, <2>1 DEF InboundTypes, HandlerSteps
  <2>3. InboundTypes'
    BY <1>0, <2>1, <2>2 DEF InboundTypes, subscriptionVars, forwardVars
  <2>4. PassedOnce'
    BY <2>1, <2>2 DEF InboundInv, PassedOnce, Passed
  <2>5. BeganAfterEnds' /\ TodoWhileOffered'
    BY <1>0, <2>1, <2>2 DEF InboundInv, InboundTypes, BeganAfterEnds, TodoWhileOffered, Ended
  <2>6. ForwardInv'
    <3>1. \A e \in On(ForwardLine) : e \in Deliveries /\ e # d /\ handler[e] = "done"
      BY <1>0, <2>1, LinesTyped, OnLine DEF InboundInv, ForwardInv
    <3> QED
      BY <1>0, <2>1, <2>2, <3>1, ForwardLineStays DEF InboundInv
  <2>7. ASSUME NEW s \in Subscribers PROVE LineInv(s)'
    <3>1. \A e \in On(Line(s)) : /\ e \in Deliveries /\ e # d /\ s \notin todo[e]
                                /\ handler[e] \in {"offer", "forward", "done"}
      BY <1>0, <2>1, LinesTyped, OnLine DEF InboundInv, LineInv
    <3> QED
      BY <1>0, <2>1, <2>2, <3>1, LineStays DEF InboundInv
  <2> QED
    BY <2>3, <2>4, <2>5, <2>6, <2>7 DEF InboundInv
<1>3. CASE CountDrops(d)
  <2>1. /\ handler[d] = "offer" /\ todo[d] = {} /\ handler' = [handler EXCEPT ![d] = "forward"]
        /\ lost' = [lost EXCEPT ![d] = 0] /\ dropped' = dropped + lost[d]
        /\ UNCHANGED <<seen, todo, owed, began>>
    BY <1>3 DEF CountDrops
  <2>2. /\ handler' \in [Deliveries -> HandlerSteps] /\ handler'[d] = "forward"
        /\ lost' \in [Deliveries -> Nat] /\ dropped' \in Nat
        /\ \A e \in Deliveries : e # d => handler'[e] = handler[e]
    BY <1>0, <2>1 DEF InboundTypes, HandlerSteps
  <2>3. InboundTypes'
    BY <1>0, <2>1, <2>2 DEF InboundTypes, subscriptionVars, forwardVars
  <2>4. PassedOnce'
    BY <2>1, <2>2 DEF InboundInv, PassedOnce, Passed
  <2>5. BeganAfterEnds' /\ TodoWhileOffered'
    BY <1>0, <2>1, <2>2 DEF InboundInv, InboundTypes, BeganAfterEnds, TodoWhileOffered, Ended
  <2>6. ForwardInv'
    <3>1. \A e \in On(ForwardLine) : e \in Deliveries /\ e # d /\ handler[e] = "done"
      BY <1>0, <2>1, LinesTyped, OnLine DEF InboundInv, ForwardInv
    <3> QED
      BY <1>0, <2>1, <2>2, <3>1, ForwardLineStays DEF InboundInv
  <2>7. ASSUME NEW s \in Subscribers PROVE LineInv(s)'
    <3>1. \A e \in On(Line(s)) : /\ e \in Deliveries /\ s \notin todo[e]
                                /\ handler'[e] \in {"offer", "forward", "done"}
      BY <1>0, <2>1, <2>2, LinesTyped, OnLine DEF InboundInv, LineInv
    <3> QED
      BY <1>0, <2>1, <3>1, LineStays DEF InboundInv
  <2> QED
    BY <2>3, <2>4, <2>5, <2>6, <2>7 DEF InboundInv
<1> QED
  BY <1>1, <1>2, <1>3

(* A subscription's queue takes the delivery, or is full.                  *)
LEMMA OfferKeeps ==
  ASSUME InboundInv, NEW d \in Deliveries, NEW s \in Subscribers, Offer(d, s)
  PROVE  InboundInv'
<1>0. /\ InboundTypes /\ handler[d] = "offer" /\ s \in todo[d]
      /\ todo' = [todo EXCEPT ![d] = todo[d] \ {s}]
      /\ UNCHANGED <<handler, seen, owed, began, dropped, subs, stream, got, forwardVars, stopped>>
  BY DEF InboundInv, InboundTypes, Offer
<1>1. /\ todo' \in [Deliveries -> SUBSET subs] /\ todo'[d] = todo[d] \ {s}
      /\ \A e \in Deliveries : e # d => todo'[e] = todo[e]
      /\ \A e \in Deliveries : todo'[e] \subseteq todo[e]
  BY <1>0 DEF InboundTypes
<1>2. PassedOnce' /\ BeganAfterEnds' /\ TodoWhileOffered'
  BY <1>0, <1>1 DEF InboundInv, PassedOnce, Passed, BeganAfterEnds, TodoWhileOffered, Ended
<1>3. ForwardInv'
  <2>1. ForwardLine' = ForwardLine
    BY <1>0 DEF forwardVars, ForwardLine
  <2> QED
    BY <1>0, <2>1, ForwardLineStays DEF InboundInv, ForwardInv
<1>4. ASSUME NEW o \in Subscribers, Line(o)' = Line(o) PROVE LineInv(o)'
  <2>1. \A e \in On(Line(o)) : /\ e \in Deliveries /\ o \notin todo[e]
                              /\ handler[e] \in {"offer", "forward", "done"}
    BY <1>0, LinesTyped, OnLine DEF InboundInv, LineInv
  <2>2. LineInv(o)
    BY DEF InboundInv
  <2> QED
    BY <1>0, <1>1, <1>4, <2>1, <2>2, LineStays
<1>5. CASE Len(queue[s]) < Capacity
  <2>1. queue' = [queue EXCEPT ![s] = Append(queue[s], d)] /\ UNCHANGED lost
    BY <1>0, <1>5 DEF Offer, InboundTypes
  <2>2. /\ queue' \in [Subscribers -> Seq(Deliveries)] /\ queue'[s] = Append(queue[s], d)
        /\ \A o \in Subscribers : o # s => queue'[o] = queue[o]
        /\ Len(queue'[s]) = Len(queue[s]) + 1
    BY <1>0, <2>1, AppendProperties DEF InboundTypes
  <2>3. \A o \in Subscribers : Len(queue'[o]) <= Capacity
    <3>1. Len(queue[s]) \in Nat /\ Capacity \in Nat /\ \A o \in Subscribers : Len(queue[o]) <= Capacity
      BY <1>0, LenProperties DEF InboundTypes
    <3> QED
      BY <1>5, <2>2, <3>1
  <2>4. InboundTypes'
    BY <1>0, <1>1, <2>1, <2>2, <2>3 DEF InboundTypes, forwardVars
  <2> DEFINE line == Line(s)
  <2>5. line \in Seq(Deliveries) /\ Line(s)' = Append(line, d)
    <3>1. got[s] \in Seq(Deliveries) /\ queue[s] \in Seq(Deliveries) /\ line \in Seq(Deliveries)
      BY <1>0, LinesTyped
    <3>2. got[s] \o Append(queue[s], d) = Append(got[s] \o queue[s], d)
      BY <3>1, ConcatAppend
    <3>3. Line(s)' = got[s] \o Append(queue[s], d)
      BY <1>0, <2>2, Zenon DEF Line
    <3> QED
      BY <3>1, <3>2, <3>3, Zenon DEF Line
  <2>6. KeepsOrder(line, began) /\ \A e \in On(line) : e \in Deliveries /\ Passed(e) /\ e # d
                                     /\ s \notin todo[e] /\ handler[e] \in {"offer", "forward", "done"}
    BY <1>0, LinesTyped, OnLine DEF InboundInv, LineInv, Passed
  <2> HIDE DEF line
  <2>7. \A e \in On(line) : d \notin began[e] /\ (Message[d] \in Identified => Message[e] # Message[d])
    BY <1>0, <2>6, MayFollow
  <2>8. KeepsOrder(Append(line, d), began) /\ On(Append(line, d)) = On(line) \cup {d}
    BY <2>5, <2>6, <2>7, AppendKeepsOrder, AppendOn
  <2>9. LineInv(s)'
    BY <1>0, <1>1, <2>5, <2>6, <2>8 DEF LineInv
  <2>10. \A o \in Subscribers : o # s => Line(o)' = Line(o)
    BY <1>0, <2>2 DEF Line
  <2> QED
    BY <1>2, <1>3, <1>4, <2>4, <2>9, <2>10 DEF InboundInv
<1>6. CASE ~(Len(queue[s]) < Capacity)
  <2>1. lost' = [lost EXCEPT ![d] = lost[d] + 1] /\ UNCHANGED queue
    BY <1>0, <1>6 DEF Offer, InboundTypes
  <2>2. lost' \in [Deliveries -> Nat]
    BY <1>0, <2>1 DEF InboundTypes
  <2>3. InboundTypes'
    BY <1>0, <1>1, <2>1, <2>2 DEF InboundTypes, forwardVars
  <2>4. \A o \in Subscribers : Line(o)' = Line(o)
    BY <1>0, <2>1 DEF Line
  <2> QED
    BY <1>2, <1>3, <1>4, <2>3, <2>4 DEF InboundInv
<1> QED
  BY <1>5, <1>6

(* The forwarder's queue takes it, or is full.                             *)
LEMMA ForwardKeeps ==
  ASSUME InboundInv, NEW d \in Deliveries, Forward(d)
  PROVE  InboundInv'
<1>0. /\ InboundTypes /\ handler[d] = "forward" /\ handler' = [handler EXCEPT ![d] = "done"]
      /\ UNCHANGED <<seen, todo, lost, owed, began, dropped, subscriptionVars,
                     forwarder, forwarded, forwardFailures, forwarding, stopped>>
  BY DEF InboundInv, Forward
<1>1. /\ handler' \in [Deliveries -> HandlerSteps] /\ handler'[d] = "done"
      /\ \A e \in Deliveries : e # d => handler'[e] = handler[e]
  BY <1>0 DEF InboundTypes, HandlerSteps
<1>2. PassedOnce' /\ BeganAfterEnds' /\ TodoWhileOffered'
  BY <1>0, <1>1 DEF InboundInv, InboundTypes, PassedOnce, Passed, BeganAfterEnds,
                    TodoWhileOffered, Ended
<1>3. ASSUME NEW s \in Subscribers PROVE LineInv(s)'
  <2>1. Line(s)' = Line(s) /\ LineInv(s)
    BY <1>0 DEF Line, subscriptionVars, InboundInv
  <2>2. \A e \in On(Line(s)) : /\ e \in Deliveries /\ s \notin todo[e]
                              /\ handler'[e] \in {"offer", "forward", "done"}
    BY <1>0, <1>1, <2>1, LinesTyped, OnLine DEF LineInv
  <2> QED
    BY <1>0, <2>1, <2>2, LineStays
<1> DEFINE line == ForwardLine
<1>4. /\ line \in Seq(Deliveries) /\ KeepsOrder(line, began)
      /\ \A e \in On(line) : e \in Deliveries /\ handler[e] = "done" /\ e # d /\ Passed(e)
  BY <1>0, LinesTyped, OnLine DEF InboundInv, ForwardInv, Passed
<1>5. CASE Len(forwardQueue) < Capacity
  <2>1. forwardQueue' = Append(forwardQueue, d) /\ UNCHANGED forwardDropped
    BY <1>5 DEF Forward
  <2>2. InboundTypes'
    <3>1. forwardQueue' \in Seq(Deliveries) /\ Len(forwardQueue') <= Capacity
      BY <1>0, <1>5, <2>1, AppendProperties, LenProperties DEF InboundTypes
    <3> QED
      BY <1>0, <1>1, <2>1, <3>1 DEF InboundTypes, subscriptionVars
  <2>3. ForwardLine' = Append(line, d)
    <3> DEFINE front == forwarded \o InHand
    <3>1. front \in Seq(Deliveries) /\ forwardQueue \in Seq(Deliveries) /\ line = front \o forwardQueue
      BY <1>0, LinesTyped DEF InboundTypes
    <3>2. ForwardLine' = front \o forwardQueue'
      BY <1>0 DEF ForwardLine, InHand
    <3> HIDE DEF front, line
    <3> QED
      BY <2>1, <3>1, <3>2, ConcatAppend
  <2> HIDE DEF line
  <2>4. \A e \in On(line) : d \notin began[e] /\ (Message[d] \in Identified => Message[e] # Message[d])
    BY <1>0, <1>4, MayFollow
  <2>5. KeepsOrder(Append(line, d), began) /\ On(Append(line, d)) = On(line) \cup {d}
    BY <1>4, <2>4, AppendKeepsOrder, AppendOn
  <2>6. ForwardInv'
    BY <1>0, <1>1, <1>4, <2>3, <2>5 DEF ForwardInv
  <2> QED
    BY <1>2, <1>3, <2>2, <2>6 DEF InboundInv
<1>6. CASE ~(Len(forwardQueue) < Capacity)
  <2>1. forwardDropped' = forwardDropped + 1 /\ UNCHANGED forwardQueue
    BY <1>6 DEF Forward
  <2>2. InboundTypes'
    BY <1>0, <1>1, <2>1 DEF InboundTypes, subscriptionVars
  <2>3. ForwardLine' = ForwardLine
    BY <1>0, <2>1 DEF ForwardLine
  <2>4. ForwardInv'
    BY <1>0, <1>1, <1>4, <2>3, ForwardLineStays DEF InboundInv
  <2> QED
    BY <1>2, <1>3, <2>2, <2>4 DEF InboundInv
<1> QED
  BY <1>5, <1>6

(* The streams: subscriptions come and go between two publications.        *)
LEMMA LinesStay ==
  ASSUME InboundInv, (\E s \in Subscribers : StreamStep(s)) \/ StopInbound
  PROVE  \A s \in Subscribers : Line(s)' = Line(s)
<1>0. InboundTypes
  BY DEF InboundInv
<1>1. CASE UNCHANGED <<queue, got>>
  BY <1>1 DEF Line
<1>2. ASSUME NEW s \in Subscribers, StreamMessage(s) PROVE \A o \in Subscribers : Line(o)' = Line(o)
  <2>1. /\ queue[s] # <<>> /\ got' = [got EXCEPT ![s] = Append(got[s], Head(queue[s]))]
        /\ queue' = [queue EXCEPT ![s] = Tail(queue[s])]
    BY <1>0, <1>2 DEF StreamMessage, InboundTypes
  <2>2. /\ got'[s] = Append(got[s], Head(queue[s])) /\ queue'[s] = Tail(queue[s])
        /\ \A o \in Subscribers : o # s => got'[o] = got[o] /\ queue'[o] = queue[o]
        /\ got[s] \in Seq(Deliveries) /\ queue[s] \in Seq(Deliveries)
    BY <1>0, <2>1 DEF InboundTypes
  <2>3. Append(got[s], Head(queue[s])) \o Tail(queue[s]) = got[s] \o queue[s]
    BY <2>1, <2>2, MoveHead
  <2> QED
    BY <2>2, <2>3, Zenon DEF Line
<1> QED
  BY <1>1, <1>2 DEF StreamStep, Subscribe, StreamEnds, Unsubscribe, StopInbound

LEMMA StreamKeeps ==
  ASSUME InboundInv, (\E s \in Subscribers : StreamStep(s)) \/ StopInbound
  PROVE  InboundInv'
<1>0. InboundTypes /\ UNCHANGED <<forwardVars, publishVars>>
  BY DEF InboundInv, StreamStep, Subscribe, StreamMessage, StreamEnds, Unsubscribe, StopInbound
<1>1. \A s \in Subscribers : Line(s)' = Line(s)
  BY LinesStay
<1>2. /\ subs' \subseteq Subscribers
      /\ subs \subseteq subs' \/ ~ReadLocked
      /\ stream' \in [Subscribers -> {"none", "open", "closed"}] /\ stopped' \in BOOLEAN
  BY <1>0 DEF InboundTypes, StreamStep, Subscribe, StreamMessage, StreamEnds, Unsubscribe, StopInbound
<1>3. todo \in [Deliveries -> SUBSET subs']
  <2>1. CASE subs \subseteq subs'
    BY <1>0, <2>1 DEF InboundTypes
  <2>2. CASE ~ReadLocked
    BY <1>0, <2>2 DEF InboundInv, InboundTypes, TodoWhileOffered, ReadLocked
  <2> QED
    BY <1>2, <2>1, <2>2
<1>4. /\ queue' \in [Subscribers -> Seq(Deliveries)] /\ got' \in [Subscribers -> Seq(Deliveries)]
      /\ \A s \in Subscribers : Len(queue'[s]) <= Capacity
  <2>1. CASE UNCHANGED <<queue, got>>
    BY <1>0, <2>1 DEF InboundTypes
  <2>2. ASSUME NEW s \in Subscribers, StreamMessage(s)
        PROVE  /\ queue' \in [Subscribers -> Seq(Deliveries)] /\ got' \in [Subscribers -> Seq(Deliveries)]
               /\ \A o \in Subscribers : Len(queue'[o]) <= Capacity
    <3> DEFINE front == Append(got[s], Head(queue[s]))
               rest == Tail(queue[s])
    <3>1. queue[s] # <<>> /\ got' = [got EXCEPT ![s] = front] /\ queue' = [queue EXCEPT ![s] = rest]
      BY <1>0, <2>2 DEF StreamMessage, InboundTypes
    <3>2. front \in Seq(Deliveries) /\ rest \in Seq(Deliveries) /\ Len(rest) <= Len(queue[s])
      BY <1>0, <3>1, MoveHead DEF InboundTypes
    <3> HIDE DEF front, rest
    <3>3. queue' \in [Subscribers -> Seq(Deliveries)] /\ got' \in [Subscribers -> Seq(Deliveries)]
      BY <1>0, <3>1, <3>2 DEF InboundTypes
    <3>4. \A o \in Subscribers : queue'[o] = IF o = s THEN rest ELSE queue[o]
      BY <1>0, <3>1 DEF InboundTypes
    <3>5. Len(rest) \in Nat /\ Len(queue[s]) \in Nat
      BY <1>0, <3>2, LenProperties DEF InboundTypes
    <3>6. Capacity \in Nat /\ \A o \in Subscribers : Len(queue[o]) <= Capacity
      BY <1>0 DEF InboundTypes
    <3>7. Len(rest) <= Capacity
      BY <3>2, <3>5, <3>6
    <3>8. \A o \in Subscribers : Len(queue'[o]) <= Capacity
      BY <3>4, <3>6, <3>7
    <3> QED
      BY <3>3, <3>8
  <2> QED
    BY <2>1, <2>2 DEF StreamStep, Subscribe, StreamEnds, Unsubscribe, StopInbound
<1>5. InboundTypes'
  BY <1>0, <1>2, <1>3, <1>4 DEF InboundTypes, forwardVars, publishVars
<1>6. PassedOnce' /\ BeganAfterEnds' /\ TodoWhileOffered'
  BY <1>0 DEF InboundInv, PassedOnce, Passed, BeganAfterEnds, TodoWhileOffered, Ended, publishVars
<1>7. ForwardInv'
  <2>1. ForwardLine' = ForwardLine
    BY <1>0 DEF ForwardLine, forwardVars
  <2> QED
    BY <1>0, <2>1, ForwardLineStays DEF InboundInv, ForwardInv, publishVars
<1>8. ASSUME NEW s \in Subscribers PROVE LineInv(s)'
  BY <1>0, <1>1, LineStays DEF InboundInv, LineInv, publishVars
<1> QED
  BY <1>5, <1>6, <1>7, <1>8 DEF InboundInv

(* The forwarder goroutine: a call that failed leaves a gap in its line.   *)
LEMMA ForwarderKeeps ==
  ASSUME InboundInv, ForwarderStep
  PROVE  InboundInv'
<1>0. /\ InboundTypes /\ UNCHANGED <<subscriptionVars, publishVars, stopped>>
      /\ forwarding' \in BOOLEAN /\ forwardDropped' = forwardDropped
  BY DEF InboundInv, InboundTypes, ForwarderStep, TakeForward, Forwarded, ForwardFails, ForwarderExits
<1>1. PassedOnce' /\ BeganAfterEnds' /\ TodoWhileOffered'
  BY <1>0 DEF InboundInv, PassedOnce, Passed, BeganAfterEnds, TodoWhileOffered, Ended, publishVars
<1>2. ASSUME NEW s \in Subscribers PROVE LineInv(s)'
  <2>1. Line(s)' = Line(s)
    BY <1>0 DEF Line, subscriptionVars
  <2> QED
    BY <1>0, <2>1, LineStays DEF InboundInv, LineInv, publishVars
<1>3. CASE TakeForward
  <2>1. /\ forwarder = NoDelivery /\ forwardQueue # <<>> /\ forwarder' = Head(forwardQueue)
        /\ forwardQueue' = Tail(forwardQueue) /\ UNCHANGED <<forwarded, forwardFailures>>
    BY <1>3 DEF TakeForward
  <2>2. /\ forwarder' \in Deliveries /\ forwardQueue' \in Seq(Deliveries)
        /\ Len(forwardQueue') <= Len(forwardQueue)
        /\ forwarded \o <<forwarder'>> \o forwardQueue' = forwarded \o forwardQueue
    BY <1>0, <2>1, MoveHead DEF InboundTypes
  <2>3. InboundTypes'
    <3>1. Len(forwardQueue') <= Capacity
      BY <1>0, <2>2, LenProperties DEF InboundTypes
    <3> QED
      BY <1>0, <2>1, <2>2, <3>1 DEF InboundTypes, subscriptionVars, publishVars
  <2>4. forwarder' # NoDelivery
    BY <2>2
  <2>5. forwarded \o <<>> = forwarded
    BY <1>0, ConcatEmptySeq DEF InboundTypes
  <2>6. ForwardLine = forwarded \o forwardQueue
    BY <2>1, <2>5 DEF ForwardLine
  <2>7. ForwardLine' = forwarded \o <<forwarder'>> \o forwardQueue'
    BY <2>1, <2>4, Zenon DEF ForwardLine
  <2>8. ForwardLine' = ForwardLine
    BY <2>2, <2>6, <2>7, Zenon
  <2>9. ForwardInv'
    BY <1>0, <2>8, ForwardLineStays DEF InboundInv, ForwardInv, publishVars
  <2> QED
    BY <1>1, <1>2, <2>3, <2>9 DEF InboundInv
<1>4. CASE Forwarded
  <2>1. /\ forwarder \in Deliveries /\ forwarder # NoDelivery /\ forwarded' = Append(forwarded, forwarder)
        /\ forwarder' = NoDelivery /\ UNCHANGED <<forwardQueue, forwardFailures>>
    BY <1>0, <1>4 DEF Forwarded, InboundTypes
  <2>2. forwarded' = forwarded \o <<forwarder>> /\ forwarded' \in Seq(Deliveries)
    BY <1>0, <2>1, AppendIsConcat, AppendProperties DEF InboundTypes
  <2>3. forwarded' \o <<>> = forwarded'
    BY <2>2, ConcatEmptySeq
  <2>4. ForwardLine' = forwarded' \o forwardQueue
    BY <2>1, <2>3, Zenon DEF ForwardLine
  <2>5. ForwardLine = forwarded \o <<forwarder>> \o forwardQueue
    BY <2>1, Zenon DEF ForwardLine
  <2>6. ForwardLine' = ForwardLine
    BY <2>2, <2>4, <2>5, Zenon
  <2>7. ForwardInv'
    BY <1>0, <2>6, ForwardLineStays DEF InboundInv, ForwardInv, publishVars
  <2>8. InboundTypes'
    BY <1>0, <2>1, <2>2 DEF InboundTypes, subscriptionVars, publishVars
  <2> QED
    BY <1>1, <1>2, <2>7, <2>8 DEF InboundInv
<1>5. CASE ForwardFails
  <2>1. /\ forwarder \in Deliveries /\ forwarder # NoDelivery /\ forwardFailures' = forwardFailures + 1
        /\ forwarder' = NoDelivery /\ UNCHANGED <<forwardQueue, forwarded>>
    BY <1>0, <1>5 DEF ForwardFails, InboundTypes
  <2>2. InboundTypes'
    BY <1>0, <2>1 DEF InboundTypes, subscriptionVars, publishVars
  <2>3. forwarded \o <<>> = forwarded
    BY <1>0, ConcatEmptySeq DEF InboundTypes
  <2>4. ForwardLine' = forwarded \o forwardQueue
    BY <2>1, <2>3, Zenon DEF ForwardLine
  <2>5. ForwardLine = forwarded \o <<forwarder>> \o forwardQueue
    BY <2>1, Zenon DEF ForwardLine
  <2> DEFINE whole == forwarded \o <<forwarder>> \o forwardQueue
             short == forwarded \o forwardQueue
  <2>6. KeepsOrder(whole, began) /\ \A d \in On(whole) : handler[d] = "done"
    BY <2>5 DEF InboundInv, ForwardInv
  <2>7. KeepsOrder(short, began) /\ On(short) \subseteq On(whole)
    BY <1>0, <2>1, <2>6, WithoutKeepsOrder DEF InboundTypes
  <2> HIDE DEF whole, short
  <2>8. ForwardLine' = short /\ began' = began /\ handler' = handler
    BY <1>0, <2>4 DEF short, publishVars
  <2>9. ForwardInv'
    BY <2>6, <2>7, <2>8 DEF ForwardInv
  <2> QED
    BY <1>1, <1>2, <2>2, <2>9 DEF InboundInv
<1>6. CASE ForwarderExits
  <2>1. UNCHANGED <<forwardQueue, forwarder, forwarded, forwardFailures>>
    BY <1>6 DEF ForwarderExits
  <2>2. InboundTypes'
    BY <1>0, <2>1 DEF InboundTypes, subscriptionVars, publishVars
  <2>3. ForwardLine' = ForwardLine
    BY <2>1 DEF ForwardLine
  <2>4. ForwardInv'
    BY <1>0, <2>3, ForwardLineStays DEF InboundInv, ForwardInv, publishVars
  <2> QED
    BY <1>1, <1>2, <2>2, <2>4 DEF InboundInv
<1> QED
  BY <1>3, <1>4, <1>5, <1>6 DEF ForwarderStep

LEMMA InboundNextKeeps == InboundInv /\ [InboundNext]_inboundVars => InboundInv'
<1> SUFFICES ASSUME InboundInv, [InboundNext]_inboundVars PROVE InboundInv'
  OBVIOUS
<1>1. CASE UNCHANGED inboundVars
  <2>1. UNCHANGED <<subscriptionVars, forwardVars, publishVars, stopped>>
    BY <1>1 DEF inboundVars
  <2>2. InboundTypes' /\ PassedOnce' /\ BeganAfterEnds' /\ TodoWhileOffered'
    BY <2>1 DEF InboundInv, InboundTypes, PassedOnce, Passed, BeganAfterEnds, TodoWhileOffered,
                Ended, subscriptionVars, forwardVars, publishVars
  <2>3. ForwardLine' = ForwardLine /\ \A s \in Subscribers : Line(s)' = Line(s)
    BY <2>1 DEF ForwardLine, Line, subscriptionVars, forwardVars
  <2>4. ForwardInv'
    BY <2>1, <2>3, ForwardLineStays DEF InboundInv, ForwardInv, publishVars
  <2>5. \A s \in Subscribers : LineInv(s)'
    BY <2>1, <2>3, LineStays DEF InboundInv, LineInv, publishVars
  <2> QED
    BY <2>2, <2>4, <2>5 DEF InboundInv
<1> QED
  BY <1>1, HandlerKeeps, OfferKeeps, ForwardKeeps, StreamKeeps, ForwarderKeeps
     DEF InboundNext, HandlerStep

LEMMA InboundTyped == InboundInv => InboundTypeOK
<1> SUFFICES ASSUME InboundInv PROVE InboundTypeOK
  OBVIOUS
<1>1. InboundTypes
  BY DEF InboundInv
<1>2. ForwardLine \in Seq(Deliveries) /\ \A s \in Subscribers : Line(s) \in Seq(Deliveries)
  BY <1>1, LinesTyped
<1> QED
  BY <1>1, <1>2 DEF InboundTypes, InboundTypeOK

LEMMA InboundInvariant == InboundSpec => []InboundInv
BY InboundInitially, InboundNextKeeps, PTL DEF InboundSpec

(* No subscription and not the forwarder gets a message twice, or before   *)
(* one that the adapter had dealt with earlier (Publish, Forward).         *)
THEOREM LinesKeepOrder == InboundSpec => []LinesInOrder
<1>1. InboundInv => LinesInOrder
  BY DEF InboundInv, ForwardInv, LineInv, KeepsOrder, LinesInOrder, Ordered
<1> QED
  BY InboundInvariant, <1>1, PTL

-----------------------------------------------------------------------------
(***************************************************************************)
(* That every message is accounted for.  Accounted compares sizes; the     *)
(* invariant adds that the sets it counts are finite, that what a Publish  *)
(* still has to offer is owed, and that only a Publish that has begun owes *)
(* anything: an offer is made once, so each step moves one to a line or to *)
(* a counter.                                                              *)
(***************************************************************************)

AccountInv ==
  /\ IsFiniteSet(Offered) /\ IsFiniteSet(Placed) /\ IsFiniteSet(Uncounted) /\ IsFiniteSet(Handed)
  /\ \A d \in Deliveries : \A s \in todo[d] : <<d, s>> \in owed
  /\ \A d \in Deliveries, s \in Subscribers :
       <<d, s>> \in owed => handler[d] \in {"offer", "forward", "done"}
  /\ Accounted

\* A heap of h[b] things for every b.
Heaps(S, h) == UNION {{b} \X (1 .. h[b]) : b \in S}
Lengths == [s \in Subscribers |-> Len(Line(s))]

LEMMA InHeaps ==
  ASSUME NEW S, NEW h, NEW x
  PROVE  x \in Heaps(S, h) <=> \E b \in S : \E i \in 1 .. h[b] : x = <<b, i>>
BY DEF Heaps

LEMMA CountedHeaps == Placed = Heaps(Subscribers, Lengths) /\ Uncounted = Heaps(Deliveries, lost)
<1>1. Uncounted = Heaps(Deliveries, lost)
  BY DEF Uncounted, Heaps
<1>2. \A s \in Subscribers : Lengths[s] = Len(Line(s))
  BY DEF Lengths
<1>3. Placed = Heaps(Subscribers, Lengths)
  BY <1>2 DEF Placed, Heaps
<1> QED
  BY <1>1, <1>3

LEMMA HeapsSame ==
  ASSUME NEW S, NEW h, NEW g, \A b \in S : g[b] = h[b]
  PROVE  Heaps(S, g) = Heaps(S, h)
BY DEF Heaps

LEMMA HeapGrows ==
  ASSUME NEW S, NEW h, NEW g, NEW a \in S, h[a] \in Nat, g[a] = h[a] + 1,
         \A b \in S : b # a => g[b] = h[b], IsFiniteSet(Heaps(S, h))
  PROVE  /\ IsFiniteSet(Heaps(S, g))
         /\ Cardinality(Heaps(S, g)) = Cardinality(Heaps(S, h)) + 1
<1> DEFINE new == <<a, h[a] + 1>>
<1>1. new \notin Heaps(S, h)
  <2>1. h[a] + 1 \notin 1 .. h[a]
    OBVIOUS
  <2> QED
    BY <2>1, InHeaps
<1>2. 1 .. g[a] = (1 .. h[a]) \cup {h[a] + 1}
  OBVIOUS
<1>3. Heaps(S, g) = Heaps(S, h) \cup {new}
  <2>1. ASSUME NEW x \in Heaps(S, g) PROVE x \in Heaps(S, h) \cup {new}
    <3>0. PICK b \in S : \E i \in 1 .. g[b] : x = <<b, i>>
      BY <2>1, InHeaps
    <3>1. PICK i \in 1 .. g[b] : x = <<b, i>>
      BY <3>0
    <3>2. CASE b = a
      <4>1. i \in 1 .. h[a] \/ i = h[a] + 1
        BY <1>2, <3>2
      <4> QED
        BY <3>1, <3>2, <4>1, InHeaps
    <3>3. CASE b # a
      BY <3>1, <3>3, InHeaps
    <3> QED
      BY <3>2, <3>3
  <2>2. ASSUME NEW x \in Heaps(S, h) PROVE x \in Heaps(S, g)
    <3>0. PICK b \in S : \E i \in 1 .. h[b] : x = <<b, i>>
      BY <2>2, InHeaps
    <3>1. PICK i \in 1 .. h[b] : x = <<b, i>>
      BY <3>0
    <3>2. i \in 1 .. g[b]
      BY <1>2
    <3> QED
      BY <3>1, <3>2, InHeaps
  <2>3. new \in Heaps(S, g)
    <3>1. h[a] + 1 \in 1 .. g[a]
      BY <1>2
    <3> QED
      BY <3>1, InHeaps
  <2> QED
    BY <2>1, <2>2, <2>3
<1> HIDE DEF new
<1>4. /\ IsFiniteSet(Heaps(S, h) \cup {new})
      /\ Cardinality(Heaps(S, h) \cup {new}) = Cardinality(Heaps(S, h)) + 1
  BY <1>1, FS_AddElement
<1> QED
  BY <1>3, <1>4

LEMMA HeapSize ==
  ASSUME NEW a, NEW n \in Nat
  PROVE  IsFiniteSet({a} \X (1 .. n)) /\ Cardinality({a} \X (1 .. n)) = n
<1>1. IsFiniteSet(1 .. n) /\ Cardinality(1 .. n) = IF 1 > n THEN 0 ELSE n - 1 + 1
  <2>1. 1 \in Int /\ n \in Int
    OBVIOUS
  <2> QED
    BY <2>1, FS_Interval
<1>2. Cardinality(1 .. n) = n
  BY <1>1
<1>3. IsFiniteSet({a}) /\ Cardinality({a}) = 1
  BY FS_Singleton
<1>4. /\ IsFiniteSet({a} \X (1 .. n))
      /\ Cardinality({a} \X (1 .. n)) = Cardinality({a}) * Cardinality(1 .. n)
  BY <1>1, <1>3, FS_Product
<1> QED
  BY <1>2, <1>3, <1>4

LEMMA HeapCleared ==
  ASSUME NEW S, NEW h, NEW g, NEW a \in S, h[a] \in Nat, g[a] = 0,
         \A b \in S : b # a => g[b] = h[b], IsFiniteSet(Heaps(S, h))
  PROVE  /\ IsFiniteSet(Heaps(S, g))
         /\ Cardinality(Heaps(S, h)) = Cardinality(Heaps(S, g)) + h[a]
<1> DEFINE heap == {a} \X (1 .. h[a])
           all == Heaps(S, h)
<1>1. 1 .. g[a] = {}
  OBVIOUS
<1>2. \A x : x \in heap <=> \E i \in 1 .. h[a] : x = <<a, i>>
  OBVIOUS
<1>3. heap \subseteq all
  BY <1>2, InHeaps
<1>4. Heaps(S, g) = all \ heap
  <2>1. ASSUME NEW x \in Heaps(S, g) PROVE x \in all \ heap
    <3>0. PICK b \in S : \E i \in 1 .. g[b] : x = <<b, i>>
      BY <2>1, InHeaps
    <3>1. PICK i \in 1 .. g[b] : x = <<b, i>>
      BY <3>0
    <3>2. b # a
      BY <1>1
    <3>3. x \in all
      BY <3>1, <3>2, InHeaps
    <3> QED
      BY <1>2, <3>1, <3>2, <3>3
  <2>2. ASSUME NEW x \in all \ heap PROVE x \in Heaps(S, g)
    <3>0. PICK b \in S : \E i \in 1 .. h[b] : x = <<b, i>>
      BY <2>2, InHeaps
    <3>1. PICK i \in 1 .. h[b] : x = <<b, i>>
      BY <3>0
    <3>2. b # a
      BY <1>2, <2>2, <3>1
    <3> QED
      BY <3>1, <3>2, InHeaps
  <2> QED
    BY <2>1, <2>2
<1>5. IsFiniteSet(heap) /\ Cardinality(heap) = h[a]
  BY HeapSize
<1> HIDE DEF heap, all
<1>6. all \cap heap = heap
  BY <1>3
<1>7. IsFiniteSet(all \ heap) /\ Cardinality(all \ heap) = Cardinality(all) - h[a]
  <2>1. IsFiniteSet(all)
    BY DEF all
  <2>2. /\ IsFiniteSet(all \ heap)
        /\ Cardinality(all \ heap) = Cardinality(all) - Cardinality(all \cap heap)
    BY <2>1, FS_Difference
  <2> QED
    BY <1>5, <1>6, <2>2
<1>8. Cardinality(all) \in Nat
  BY FS_CardinalityType DEF all
<1>9. IsFiniteSet(Heaps(S, g)) /\ Cardinality(Heaps(S, g)) = Cardinality(all) - h[a]
  BY <1>4, <1>7
<1>10. Cardinality(all) = Cardinality(Heaps(S, g)) + h[a]
  BY <1>8, <1>9
<1> QED
  BY <1>9, <1>10 DEF all

LEMMA HeapsEmpty ==
  ASSUME NEW S, NEW h, \A b \in S : h[b] = 0
  PROVE  Heaps(S, h) = {}
<1>1. \A b \in S : 1 .. h[b] = {}
  OBVIOUS
<1> QED
  BY <1>1, InHeaps

LEMMA CountedNext == Placed' = Heaps(Subscribers, Lengths') /\ Uncounted' = Heaps(Deliveries, lost')
<1>1. Uncounted' = Heaps(Deliveries, lost')
  BY DEF Uncounted, Heaps
<1>2. \A s \in Subscribers : Lengths'[s] = Len(Line(s)')
  BY DEF Lengths
<1>3. Placed' = Heaps(Subscribers, Lengths')
  BY <1>2 DEF Placed, Heaps
<1> QED
  BY <1>1, <1>3

LEMMA PlacedSame == ASSUME \A s \in Subscribers : Line(s)' = Line(s) PROVE Placed' = Placed
<1>1. \A s \in Subscribers : Lengths'[s] = Lengths[s]
  BY DEF Lengths
<1>2. Heaps(Subscribers, Lengths') = Heaps(Subscribers, Lengths)
  BY <1>1, HeapsSame
<1> QED
  BY <1>2, CountedHeaps, CountedNext

LEMMA AccountTypes ==
  ASSUME InboundInv, AccountInv
  PROVE  /\ InboundTypes /\ \A s \in Subscribers : Len(Line(s)) \in Nat
         /\ Len(ForwardLine) \in Nat /\ Cardinality(Offered) \in Nat /\ Cardinality(Placed) \in Nat
         /\ Cardinality(Uncounted) \in Nat /\ Cardinality(Handed) \in Nat
         /\ \A x \in owed : \E d \in Deliveries : \E s \in Subscribers : x = <<d, s>>
<1>1. InboundTypes
  BY DEF InboundInv
<1>2. Len(ForwardLine) \in Nat /\ \A s \in Subscribers : Len(Line(s)) \in Nat
  BY <1>1, LinesTyped, LenProperties
<1>3. /\ Cardinality(Offered) \in Nat /\ Cardinality(Placed) \in Nat
      /\ Cardinality(Uncounted) \in Nat /\ Cardinality(Handed) \in Nat
  BY FS_CardinalityType DEF AccountInv
<1>4. \A x \in owed : \E d \in Deliveries : \E s \in Subscribers : x = <<d, s>>
  BY <1>1 DEF InboundTypes
<1> QED
  BY <1>1, <1>2, <1>3, <1>4

LEMMA InOffered ==
  ASSUME InboundTypes, NEW x
  PROVE  x \in Offered <=> \E d \in Deliveries : \E s \in Subscribers :
                             x = <<d, s>> /\ x \in owed /\ s \notin todo[d]
<1>1. \A y \in owed : \E d \in Deliveries : \E s \in Subscribers : y = <<d, s>>
  BY DEF InboundTypes
<1> QED
  BY <1>1 DEF Offered

LEMMA AccountInitially == InboundInit => AccountInv
<1> SUFFICES ASSUME InboundInit PROVE AccountInv
  OBVIOUS
<1> USE DEF InboundInit
<1>1. Offered = {} /\ Handed = {}
  BY DEF Offered, Handed
<1>2. \A s \in Subscribers : Line(s) = <<>>
  BY EmptyLine DEF Line
<1>3. ForwardLine = <<>>
  BY EmptyLine DEF ForwardLine
<1>4. Len(<<>>) = 0
  OBVIOUS
<1>5. \A s \in Subscribers : Lengths[s] = 0
  BY <1>2, <1>4 DEF Lengths
<1>6. Placed = {} /\ Uncounted = {}
  <2>1. Heaps(Subscribers, Lengths) = {}
    BY <1>5, HeapsEmpty
  <2>2. \A d \in Deliveries : lost[d] = 0
    OBVIOUS
  <2>3. Heaps(Deliveries, lost) = {}
    BY <2>2, HeapsEmpty
  <2> QED
    BY <2>1, <2>3, CountedHeaps
<1>7. Accounted
  BY <1>1, <1>3, <1>4, <1>6, FS_EmptySet DEF Accounted
<1> QED
  BY <1>1, <1>6, <1>7, FS_EmptySet DEF AccountInv

\* Neither a line nor a counter of subscriptions moves.
LEMMA ReceiveAccounts ==
  ASSUME InboundInv, AccountInv, NEW d \in Deliveries, Receive(d)
  PROVE  AccountInv'
<1>0. /\ InboundTypes /\ handler[d] = "idle" /\ UNCHANGED <<todo, lost, owed, dropped, subscriptionVars, forwardVars>>
      /\ handler'[d] \in {"publish", "ignored"}
      /\ \A e \in Deliveries \ {d} : handler'[e] = handler[e]
  BY DEF InboundInv, InboundTypes, Receive
<1>1. Offered' = Offered /\ Uncounted' = Uncounted
  BY <1>0 DEF Offered, Uncounted
<1>2. Placed' = Placed
  <2>1. \A s \in Subscribers : Line(s)' = Line(s)
    BY <1>0 DEF Line, subscriptionVars
  <2> QED
    BY <2>1, PlacedSame
<1>3. Handed' = Handed /\ ForwardLine' = ForwardLine
  BY <1>0 DEF Handed, ForwardLine, forwardVars
<1>4. Accounted'
  BY <1>0, <1>1, <1>2, <1>3 DEF Accounted, AccountInv, forwardVars
<1> QED
  BY <1>0, <1>1, <1>2, <1>3, <1>4 DEF AccountInv

\* What a Publish begins to owe is what it still has to offer.
LEMMA PublishAccounts ==
  ASSUME InboundInv, AccountInv, NEW d \in Deliveries, Publish(d)
  PROVE  AccountInv'
<1>0. /\ InboundTypes /\ handler[d] = "publish" /\ handler'[d] = "offer"
      /\ \A e \in Deliveries \ {d} : handler'[e] = handler[e] /\ todo'[e] = todo[e]
      /\ todo'[d] = Matching(d) /\ owed' = owed \cup {<<d, s>> : s \in Matching(d)}
      /\ Matching(d) \subseteq Subscribers
      /\ UNCHANGED <<lost, dropped, subscriptionVars, forwardVars>>
  BY DEF InboundInv, InboundTypes, Publish, Matching
<1>1. Offered' = Offered
  <2>1. InboundTypes'
    BY HandlerKeeps DEF InboundInv
  <2>2. ASSUME NEW e \in Deliveries, NEW s \in Subscribers
        PROVE  /\ (<<e, s>> \in owed' /\ s \notin todo'[e]) <=> (<<e, s>> \in owed /\ s \notin todo[e])
    <3>1. CASE e = d
      <4>1. <<d, s>> \notin owed
        BY <1>0 DEF AccountInv
      <4>2. <<d, s>> \in owed' <=> s \in todo'[d]
        BY <1>0, <4>1
      <4> QED
        BY <3>1, <4>1, <4>2
    <3>2. CASE e # d
      BY <1>0, <3>2
    <3> QED
      BY <3>1, <3>2
  <2>3. ASSUME NEW x
        PROVE  x \in Offered' <=> \E e \in Deliveries : \E s \in Subscribers :
                                    x = <<e, s>> /\ x \in owed' /\ s \notin todo'[e]
    <3>1. \A y \in owed' : \E e \in Deliveries : \E s \in Subscribers : y = <<e, s>>
      BY <2>1 DEF InboundTypes
    <3> QED
      BY <3>1 DEF Offered
  <2>4. ASSUME NEW x PROVE x \in Offered' <=> x \in Offered
    BY <1>0, <2>2, <2>3, InOffered
  <2> QED
    BY <2>4
<1>2. Uncounted' = Uncounted
  BY <1>0 DEF Uncounted
<1>3. Placed' = Placed
  <2>1. \A s \in Subscribers : Line(s)' = Line(s)
    BY <1>0 DEF Line, subscriptionVars
  <2> QED
    BY <2>1, PlacedSame
<1>4. Handed' = Handed /\ ForwardLine' = ForwardLine
  BY <1>0 DEF Handed, ForwardLine, forwardVars
<1>5. Accounted'
  BY <1>0, <1>1, <1>2, <1>3, <1>4 DEF Accounted, AccountInv, forwardVars
<1>6. \A e \in Deliveries : \A s \in todo'[e] : <<e, s>> \in owed'
  BY <1>0 DEF AccountInv
<1>7. \A e \in Deliveries, s \in Subscribers :
        <<e, s>> \in owed' => handler'[e] \in {"offer", "forward", "done"}
  BY <1>0 DEF AccountInv
<1> QED
  BY <1>1, <1>2, <1>3, <1>4, <1>5, <1>6, <1>7 DEF AccountInv

\* An offer takes a place on the line or is lost and counted.
LEMMA OfferAccounts ==
  ASSUME InboundInv, AccountInv, NEW d \in Deliveries, NEW o \in Subscribers, Offer(d, o)
  PROVE  AccountInv'
<1>0. /\ InboundTypes /\ o \in todo[d]
      /\ todo'[d] = todo[d] \ {o} /\ \A e \in Deliveries \ {d} : todo'[e] = todo[e]
      /\ UNCHANGED <<handler, owed, dropped, got, forwardVars>>
      /\ queue \in [Subscribers -> Seq(Deliveries)] /\ got \in [Subscribers -> Seq(Deliveries)]
      /\ lost \in [Deliveries -> Nat]
  BY DEF InboundInv, InboundTypes, Offer
<1>1. /\ Offered' = Offered \cup {<<d, o>>} /\ <<d, o>> \notin Offered
  <2>1. InboundTypes'
    BY OfferKeeps DEF InboundInv
  <2>2. ASSUME NEW x
        PROVE  x \in Offered' <=> \E e \in Deliveries : \E s \in Subscribers :
                                    x = <<e, s>> /\ x \in owed' /\ s \notin todo'[e]
    <3>1. \A y \in owed' : \E e \in Deliveries : \E s \in Subscribers : y = <<e, s>>
      BY <2>1 DEF InboundTypes
    <3> QED
      BY <3>1 DEF Offered
  <2>3. <<d, o>> \in owed
    BY <1>0 DEF AccountInv
  <2>4. \A e \in Deliveries, s \in Subscribers :
          s \notin todo'[e] <=> s \notin todo[e] \/ (e = d /\ s = o)
    BY <1>0
  <2>5. ASSUME NEW x PROVE x \in Offered' <=> x \in Offered \/ x = <<d, o>>
    <3>1. owed' = owed
      BY <1>0
    <3>2. ASSUME x \in Offered' PROVE x \in Offered \/ x = <<d, o>>
      <4>1. PICK e \in Deliveries, s \in Subscribers : x = <<e, s>> /\ x \in owed' /\ s \notin todo'[e]
        BY <2>2, <3>2
      <4>2. CASE e = d /\ s = o
        BY <4>1, <4>2
      <4>3. CASE s \notin todo[e]
        BY <1>0, <3>1, <4>1, <4>3, InOffered
      <4> QED
        BY <2>4, <4>1, <4>2, <4>3
    <3>3. ASSUME x \in Offered PROVE x \in Offered'
      <4>1. PICK e \in Deliveries, s \in Subscribers : x = <<e, s>> /\ x \in owed /\ s \notin todo[e]
        BY <1>0, <3>3, InOffered
      <4>2. s \notin todo'[e]
        BY <2>4, <4>1
      <4> QED
        BY <2>2, <3>1, <4>1, <4>2
    <3>4. ASSUME x = <<d, o>> PROVE x \in Offered'
      BY <2>2, <2>3, <2>4, <3>1, <3>4
    <3> QED
      BY <3>2, <3>3, <3>4
  <2>6. <<d, o>> \notin Offered
    BY <1>0, InOffered
  <2> QED
    BY <2>5, <2>6
<1>2. /\ IsFiniteSet(Offered') /\ Cardinality(Offered') = Cardinality(Offered) + 1
  BY <1>1, FS_AddElement DEF AccountInv
<1>3. Handed' = Handed /\ ForwardLine' = ForwardLine
  BY <1>0 DEF Handed, ForwardLine, forwardVars
<1>4. /\ \A e \in Deliveries : \A s \in todo'[e] : <<e, s>> \in owed'
      /\ \A e \in Deliveries, s \in Subscribers :
           <<e, s>> \in owed' => handler'[e] \in {"offer", "forward", "done"}
  BY <1>0 DEF AccountInv
<1>5. /\ dropped \in Nat /\ Cardinality(Placed) \in Nat /\ Cardinality(Uncounted) \in Nat
      /\ Cardinality(Offered) \in Nat
      /\ Cardinality(Offered) = dropped + Cardinality(Uncounted) + Cardinality(Placed)
      /\ Cardinality(Handed) = forwardDropped + forwardFailures + Len(ForwardLine)
  BY <1>0, AccountTypes DEF InboundTypes, AccountInv, Accounted
<1>6. CASE Len(queue[o]) < Capacity
  <2>1. queue' = [queue EXCEPT ![o] = Append(queue[o], d)] /\ lost' = lost
    BY <1>0, <1>6 DEF Offer
  <2>2. Uncounted' = Uncounted
    BY <2>1 DEF Uncounted
  <2>3. \A s \in Subscribers \ {o} : Line(s)' = Line(s)
    BY <1>0, <2>1 DEF Line
  <2>4. Len(Line(o)') = Len(Line(o)) + 1
    <3>1. Line(o)' = got[o] \o Append(queue[o], d)
      BY <1>0, <2>1 DEF Line
    <3>2. got[o] \in Seq(Deliveries) /\ queue[o] \in Seq(Deliveries)
      BY <1>0
    <3>3. got[o] \o Append(queue[o], d) = Append(got[o] \o queue[o], d)
      BY <3>2, ConcatAppend
    <3>4. Line(o)' = Append(Line(o), d) /\ Line(o) \in Seq(Deliveries)
      BY <1>0, <3>1, <3>3, LinesTyped DEF Line
    <3> QED
      BY <3>4, AppendProperties
  <2>5. /\ Lengths[o] \in Nat /\ Lengths'[o] = Lengths[o] + 1
        /\ \A s \in Subscribers : s # o => Lengths'[s] = Lengths[s]
    BY <2>3, <2>4, AccountTypes DEF Lengths
  <2>6. /\ IsFiniteSet(Placed') /\ Cardinality(Placed') = Cardinality(Placed) + 1
    <3>1. IsFiniteSet(Heaps(Subscribers, Lengths))
      BY CountedHeaps DEF AccountInv
    <3>2. /\ IsFiniteSet(Heaps(Subscribers, Lengths'))
          /\ Cardinality(Heaps(Subscribers, Lengths')) = Cardinality(Heaps(Subscribers, Lengths)) + 1
      BY <2>5, <3>1, HeapGrows
    <3> QED
      BY <3>2, CountedHeaps, CountedNext
  <2>7. Cardinality(Offered)' = dropped' + Cardinality(Uncounted)' + Cardinality(Placed)'
    BY <1>0, <1>2, <1>5, <2>2, <2>6
  <2>8. Accounted'
    BY <1>0, <1>3, <1>5, <2>7 DEF Accounted, forwardVars
  <2> QED
    BY <1>2, <1>3, <1>4, <2>2, <2>6, <2>8 DEF AccountInv
<1>7. CASE ~(Len(queue[o]) < Capacity)
  <2>1. queue' = queue /\ lost'[d] = lost[d] + 1 /\ lost[d] \in Nat
        /\ \A e \in Deliveries : e # d => lost'[e] = lost[e]
    BY <1>0, <1>7 DEF Offer
  <2>2. Placed' = Placed
    <3>1. \A s \in Subscribers : Line(s)' = Line(s)
      BY <1>0, <2>1 DEF Line
    <3> QED
      BY <3>1, PlacedSame
  <2>3. IsFiniteSet(Uncounted') /\ Cardinality(Uncounted') = Cardinality(Uncounted) + 1
    <3>1. IsFiniteSet(Heaps(Deliveries, lost))
      BY CountedHeaps DEF AccountInv
    <3>2. /\ IsFiniteSet(Heaps(Deliveries, lost'))
          /\ Cardinality(Heaps(Deliveries, lost')) = Cardinality(Heaps(Deliveries, lost)) + 1
      BY <2>1, <3>1, HeapGrows
    <3> QED
      BY <3>2, CountedHeaps, CountedNext
  <2>4. Cardinality(Offered)' = dropped' + Cardinality(Uncounted)' + Cardinality(Placed)'
    BY <1>0, <1>2, <1>5, <2>2, <2>3
  <2>5. Accounted'
    BY <1>0, <1>3, <1>5, <2>4 DEF Accounted, forwardVars
  <2> QED
    BY <1>2, <1>3, <1>4, <2>2, <2>3, <2>5 DEF AccountInv
<1> QED
  BY <1>6, <1>7

\* A handler's drops go to the counter of all, none of them twice.
LEMMA CountAccounts ==
  ASSUME InboundInv, AccountInv, NEW d \in Deliveries, CountDrops(d)
  PROVE  AccountInv'
<1>0. /\ InboundTypes /\ handler[d] = "offer" /\ handler'[d] = "forward"
      /\ \A e \in Deliveries \ {d} : handler'[e] = handler[e] /\ lost'[e] = lost[e]
      /\ lost'[d] = 0 /\ lost[d] \in Nat /\ dropped' = dropped + lost[d] /\ dropped \in Nat
      /\ UNCHANGED <<todo, owed, subscriptionVars, forwardVars>>
  BY DEF InboundInv, InboundTypes, CountDrops
<1>1. Offered' = Offered
  BY <1>0 DEF Offered
<1>2. Placed' = Placed
  <2>1. \A s \in Subscribers : Line(s)' = Line(s)
    BY <1>0 DEF Line, subscriptionVars
  <2> QED
    BY <2>1, PlacedSame
<1>3. Handed' = Handed /\ ForwardLine' = ForwardLine
  BY <1>0 DEF Handed, ForwardLine, forwardVars
<1>4. IsFiniteSet(Uncounted') /\ Cardinality(Uncounted) = Cardinality(Uncounted') + lost[d]
  <2>1. IsFiniteSet(Heaps(Deliveries, lost))
    BY CountedHeaps DEF AccountInv
  <2>2. /\ IsFiniteSet(Heaps(Deliveries, lost'))
        /\ Cardinality(Heaps(Deliveries, lost)) = Cardinality(Heaps(Deliveries, lost')) + lost[d]
    BY <1>0, <2>1, HeapCleared
  <2> QED
    BY <2>2, CountedHeaps, CountedNext
<1>5. /\ Cardinality(Placed) \in Nat /\ Cardinality(Uncounted') \in Nat
      /\ Cardinality(Offered) = dropped + Cardinality(Uncounted) + Cardinality(Placed)
      /\ Cardinality(Handed) = forwardDropped + forwardFailures + Len(ForwardLine)
  BY <1>4, AccountTypes, FS_CardinalityType DEF AccountInv, Accounted
<1>6. Cardinality(Offered)' = dropped' + Cardinality(Uncounted)' + Cardinality(Placed)'
  BY <1>0, <1>1, <1>2, <1>4, <1>5
<1>7. Accounted'
  BY <1>0, <1>3, <1>5, <1>6 DEF Accounted, forwardVars
<1>8. \A e \in Deliveries, s \in Subscribers :
        <<e, s>> \in owed' => handler'[e] \in {"offer", "forward", "done"}
  BY <1>0 DEF AccountInv
<1> QED
  BY <1>0, <1>1, <1>2, <1>3, <1>4, <1>7, <1>8 DEF AccountInv

\* The forwarder's queue takes a delivery, or its counter does.
LEMMA ForwardAccounts ==
  ASSUME InboundInv, AccountInv, NEW d \in Deliveries, Forward(d)
  PROVE  AccountInv'
<1>0. /\ InboundTypes /\ handler[d] = "forward" /\ handler'[d] = "done"
      /\ \A e \in Deliveries \ {d} : handler'[e] = handler[e]
      /\ UNCHANGED <<todo, lost, owed, dropped, subscriptionVars, forwarder, forwarded, forwardFailures>>
      /\ forwardDropped \in Nat /\ forwardFailures \in Nat
  BY DEF InboundInv, InboundTypes, Forward
<1>1. Offered' = Offered /\ Uncounted' = Uncounted
  BY <1>0 DEF Offered, Uncounted
<1>2. Placed' = Placed
  <2>1. \A s \in Subscribers : Line(s)' = Line(s)
    BY <1>0 DEF Line, subscriptionVars
  <2> QED
    BY <2>1, PlacedSame
<1>3. IsFiniteSet(Handed') /\ Cardinality(Handed') = Cardinality(Handed) + 1
  <2>1. Handed' = Handed \cup {d} /\ d \notin Handed
    BY <1>0 DEF Handed
  <2> QED
    BY <2>1, FS_AddElement DEF AccountInv
<1>4. /\ Len(ForwardLine) \in Nat
      /\ Cardinality(Offered) = dropped + Cardinality(Uncounted) + Cardinality(Placed)
      /\ Cardinality(Handed) = forwardDropped + forwardFailures + Len(ForwardLine)
  BY AccountTypes DEF AccountInv, Accounted
<1>5. forwardDropped' + Len(ForwardLine') = forwardDropped + Len(ForwardLine) + 1
      /\ forwardDropped' \in Nat /\ Len(ForwardLine') \in Nat
  <2>1. CASE Len(forwardQueue) < Capacity
    <3> DEFINE front == forwarded \o InHand
    <3>1. forwardQueue' = Append(forwardQueue, d) /\ forwardDropped' = forwardDropped
      BY <2>1 DEF Forward
    <3>2. /\ front \in Seq(Deliveries) /\ forwardQueue \in Seq(Deliveries)
          /\ ForwardLine = front \o forwardQueue /\ ForwardLine \in Seq(Deliveries)
      BY <1>0, LinesTyped DEF InboundTypes
    <3>3. ForwardLine' = front \o forwardQueue'
      BY <1>0 DEF ForwardLine, InHand
    <3> HIDE DEF front
    <3>4. ForwardLine' = Append(ForwardLine, d)
      BY <3>1, <3>2, <3>3, ConcatAppend
    <3>5. Len(ForwardLine') = Len(ForwardLine) + 1
      BY <3>2, <3>4, AppendProperties
    <3> QED
      BY <1>0, <1>4, <3>1, <3>5
  <2>2. CASE ~(Len(forwardQueue) < Capacity)
    <3>1. forwardQueue' = forwardQueue /\ forwardDropped' = forwardDropped + 1
      BY <2>2 DEF Forward
    <3>2. ForwardLine' = ForwardLine
      BY <1>0, <3>1 DEF ForwardLine
    <3> QED
      BY <1>0, <1>4, <3>1, <3>2
  <2> QED
    BY <2>1, <2>2
<1>6. Cardinality(Handed)' = forwardDropped' + forwardFailures' + Len(ForwardLine)'
  BY <1>0, <1>3, <1>4, <1>5
<1>7. Accounted'
  BY <1>0, <1>1, <1>2, <1>4, <1>6 DEF Accounted
<1>8. \A e \in Deliveries, s \in Subscribers :
        <<e, s>> \in owed' => handler'[e] \in {"offer", "forward", "done"}
  BY <1>0 DEF AccountInv
<1> QED
  BY <1>0, <1>1, <1>2, <1>3, <1>7, <1>8 DEF AccountInv

LEMMA ThreeParts ==
  ASSUME NEW l \in Seq(Deliveries), NEW r \in Seq(Deliveries), NEW x \in Deliveries \cup {NoDelivery}
  PROVE  LET m == IF x = NoDelivery THEN <<>> ELSE <<x>>
         IN  /\ l \o m \o r \in Seq(Deliveries)
             /\ Len(l \o m \o r) = Len(l) + (IF x = NoDelivery THEN 0 ELSE 1) + Len(r)
<1> DEFINE m == IF x = NoDelivery THEN <<>> ELSE <<x>>
<1>1. m \in Seq(Deliveries) /\ Len(m) = IF x = NoDelivery THEN 0 ELSE 1
  OBVIOUS
<1> HIDE DEF m
<1>2. l \o m \in Seq(Deliveries) /\ Len(l \o m) = Len(l) + Len(m)
  BY <1>1, ConcatProperties
<1>3. (l \o m) \o r \in Seq(Deliveries) /\ Len((l \o m) \o r) = Len(l \o m) + Len(r)
  BY <1>2, ConcatProperties
<1>4. /\ l \o m \o r \in Seq(Deliveries)
      /\ Len(l \o m \o r) = Len(l) + (IF x = NoDelivery THEN 0 ELSE 1) + Len(r)
  BY <1>1, <1>2, <1>3
<1> QED
  BY <1>4 DEF m

LEMMA ForwardLength ==
  ASSUME InboundTypes
  PROVE  Len(ForwardLine) = Len(forwarded) + (IF forwarder = NoDelivery THEN 0 ELSE 1) + Len(forwardQueue)
<1>1. /\ forwarded \in Seq(Deliveries) /\ forwardQueue \in Seq(Deliveries)
      /\ forwarder \in Deliveries \cup {NoDelivery}
  BY DEF InboundTypes
<1> QED
  BY <1>1, ThreeParts DEF ForwardLine

LEMMA NextForwardLength ==
  ASSUME InboundTypes'
  PROVE  /\ ForwardLine' \in Seq(Deliveries)
         /\ Len(ForwardLine)' = Len(forwarded') + (IF forwarder' = NoDelivery THEN 0 ELSE 1) + Len(forwardQueue')
<1>1. /\ forwarded' \in Seq(Deliveries) /\ forwardQueue' \in Seq(Deliveries)
      /\ forwarder' \in Deliveries \cup {NoDelivery}
  BY DEF InboundTypes
<1> QED
  BY <1>1, ThreeParts DEF ForwardLine

\* Streams and Stop move nothing to or from a line.
LEMMA StreamAccounts ==
  ASSUME InboundInv, AccountInv, (\E s \in Subscribers : StreamStep(s)) \/ StopInbound
  PROVE  AccountInv'
<1>0. InboundTypes /\ UNCHANGED <<forwardVars, publishVars>>
  BY DEF InboundInv, StreamStep, Subscribe, StreamMessage, StreamEnds, Unsubscribe, StopInbound
<1>1. \A s \in Subscribers : Line(s)' = Line(s)
  BY LinesStay
<1>2. Placed' = Placed
  BY <1>1, PlacedSame
<1>3. /\ Offered' = Offered /\ Uncounted' = Uncounted /\ Handed' = Handed /\ ForwardLine' = ForwardLine
      /\ UNCHANGED <<handler, todo, owed, dropped, forwardDropped, forwardFailures>>
  BY <1>0 DEF Offered, Uncounted, Handed, ForwardLine, forwardVars, publishVars
<1>4. Accounted'
  BY <1>2, <1>3 DEF AccountInv, Accounted
<1> QED
  BY <1>2, <1>3, <1>4 DEF AccountInv

\* A failed call leaves the forwarder's line for its counter.
LEMMA ForwarderAccounts ==
  ASSUME InboundInv, AccountInv, ForwarderStep
  PROVE  AccountInv'
<1>0. /\ InboundTypes /\ UNCHANGED <<subscriptionVars, publishVars, forwardDropped>>
      /\ forwardFailures \in Nat
  BY DEF InboundInv, InboundTypes, ForwarderStep, TakeForward, Forwarded, ForwardFails, ForwarderExits
<1>1. \A s \in Subscribers : Line(s)' = Line(s)
  BY <1>0 DEF Line, subscriptionVars
<1>2. Placed' = Placed
  BY <1>1, PlacedSame
<1>3. /\ Offered' = Offered /\ Uncounted' = Uncounted /\ Handed' = Handed
      /\ UNCHANGED <<handler, todo, owed, dropped>>
  BY <1>0 DEF Offered, Uncounted, Handed, publishVars
<1>4. /\ forwarded \in Seq(Deliveries) /\ forwardQueue \in Seq(Deliveries)
      /\ forwarder \in Deliveries \cup {NoDelivery} /\ InHand \in Seq(Deliveries)
      /\ Len(forwarded) \in Nat /\ Len(forwardQueue) \in Nat
  BY <1>0, LinesTyped, LenProperties DEF InboundTypes
<1>5. Len(ForwardLine) = Len(forwarded) + (IF forwarder = NoDelivery THEN 0 ELSE 1) + Len(forwardQueue)
  BY <1>0, ForwardLength
<1>6. InboundTypes'
  BY ForwarderKeeps DEF InboundInv
<1>7. Len(ForwardLine)' = Len(forwarded') + (IF forwarder' = NoDelivery THEN 0 ELSE 1) + Len(forwardQueue')
  BY <1>6, NextForwardLength
<1>8. forwardFailures' + Len(ForwardLine)' = forwardFailures + Len(ForwardLine)
  <2>1. CASE TakeForward
    <3>1. /\ forwarder = NoDelivery /\ forwarder' # NoDelivery /\ forwarded' = forwarded
          /\ forwardFailures' = forwardFailures /\ Len(forwardQueue') = Len(forwardQueue) - 1
      <4>1. forwardQueue # <<>> /\ forwarder = NoDelivery /\ forwarder' = Head(forwardQueue)
            /\ forwardQueue' = Tail(forwardQueue) /\ forwarded' = forwarded /\ forwardFailures' = forwardFailures
        BY <2>1 DEF TakeForward
      <4>2. Head(forwardQueue) \in Deliveries /\ Len(Tail(forwardQueue)) = Len(forwardQueue) - 1
        BY <1>4, <4>1, HeadTailProperties
      <4> QED
        BY <4>1, <4>2
    <3> QED
      BY <1>0, <1>4, <1>5, <1>7, <3>1
  <2>2. CASE Forwarded
    <3>1. /\ forwarder # NoDelivery /\ forwarder' = NoDelivery /\ forwardQueue' = forwardQueue
          /\ forwardFailures' = forwardFailures /\ forwarded' = Append(forwarded, forwarder)
      BY <2>2 DEF Forwarded
    <3>2. Len(forwarded') = Len(forwarded) + 1
      BY <1>4, <3>1, AppendProperties
    <3> QED
      BY <1>0, <1>4, <1>5, <1>7, <3>1, <3>2
  <2>3. CASE ForwardFails
    <3>1. /\ forwarder # NoDelivery /\ forwarder' = NoDelivery /\ forwardQueue' = forwardQueue
          /\ forwardFailures' = forwardFailures + 1 /\ forwarded' = forwarded
      BY <2>3 DEF ForwardFails
    <3> QED
      BY <1>0, <1>4, <1>5, <1>7, <3>1
  <2>4. CASE ForwarderExits
    BY <1>5, <1>7, <2>4 DEF ForwarderExits
  <2> QED
    BY <2>1, <2>2, <2>3, <2>4 DEF ForwarderStep
<1>9. Len(ForwardLine) \in Nat /\ Len(ForwardLine)' \in Nat /\ forwardDropped \in Nat
      /\ forwardFailures' \in Nat
  <2>1. ForwardLine' \in Seq(Deliveries)
    BY <1>6, NextForwardLength
  <2> QED
    BY <1>6, <2>1, AccountTypes, LenProperties DEF InboundTypes
<1>10. Accounted'
  <2>1. /\ Cardinality(Offered) = dropped + Cardinality(Uncounted) + Cardinality(Placed)
        /\ Cardinality(Handed) = forwardDropped + forwardFailures + Len(ForwardLine)
    BY DEF AccountInv, Accounted
  <2>2. Cardinality(Handed) = forwardDropped + forwardFailures' + Len(ForwardLine)'
    BY <1>0, <1>8, <1>9, <2>1
  <2>3. forwardDropped' = forwardDropped
    BY <1>0
  <2> QED
    BY <1>2, <1>3, <2>1, <2>2, <2>3 DEF Accounted
<1> QED
  BY <1>2, <1>3, <1>10 DEF AccountInv

LEMMA AccountStep ==
  InboundInv /\ AccountInv /\ [InboundNext]_inboundVars => AccountInv'
<1> SUFFICES ASSUME InboundInv, AccountInv, [InboundNext]_inboundVars PROVE AccountInv'
  OBVIOUS
<1>1. CASE UNCHANGED inboundVars
  <2>1. \A s \in Subscribers : Line(s)' = Line(s)
    BY <1>1 DEF Line, inboundVars, subscriptionVars
  <2>2. Placed' = Placed
    BY <2>1, PlacedSame
  <2>3. /\ Offered' = Offered /\ Uncounted' = Uncounted /\ Handed' = Handed /\ ForwardLine' = ForwardLine
        /\ UNCHANGED <<handler, todo, owed, dropped, forwardDropped, forwardFailures>>
    BY <1>1 DEF Offered, Uncounted, Handed, ForwardLine, inboundVars, forwardVars, publishVars
  <2>4. Accounted'
    BY <2>2, <2>3 DEF AccountInv, Accounted
  <2> QED
    BY <2>2, <2>3, <2>4 DEF AccountInv
<1> QED
  BY <1>1, ReceiveAccounts, PublishAccounts, OfferAccounts, CountAccounts, ForwardAccounts,
     StreamAccounts, ForwarderAccounts
     DEF InboundNext, HandlerStep

(* No message is lost unnoticed between the adapters and the streams: the  *)
(* offers that Publish makes (publish.go) are on the lines or in           *)
(* inboundDropped, and what the forwarder was handed is on its line or in  *)
(* its two counters, for any subscribers, queues and stops.                *)
THEOREM NothingLostUnnoticed == InboundSpec => []Accounted
<1>1. AccountInv => Accounted
  BY DEF AccountInv
<1> QED
  BY InboundInvariant, AccountInitially, AccountStep, <1>1, PTL DEF InboundSpec
=============================================================================
