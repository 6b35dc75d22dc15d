--------------------------- MODULE ChannelInbound ----------------------------
(***************************************************************************)
(* The way in: an adapter receives what its platform delivers, perhaps     *)
(* more than once, drops what it has seen before, and hands the rest to    *)
(* Repository.Publish, which offers it to every subscription and to the    *)
(* queue of the GateCore forwarder.  Nothing on this way may block the     *)
(* adapter: a full queue drops the message, and the drop is counted.       *)
(*                                                                         *)
(* The platform, the subscribers' clients and GateCore are external.       *)
(***************************************************************************)
EXTENDS Integers, Sequences, FiniteSets

CONSTANTS
  Deliveries,   \* what the platform delivers: one handler runs for each
  Message,      \* the message each of them carries
  Identified,   \* the messages whose adapter keeps a seen map
  Subscribers,  \* calls of SubscribeInbound
  Wants,        \* the messages that pass each subscriber's channel filter
  NoDelivery,
  Capacity      \* of every queue: 64

ASSUME InboundAssumption ==
  /\ DOMAIN Message = Deliveries
  /\ NoDelivery \notin Deliveries
  /\ Capacity \in Nat \ {0}

VARIABLES
  handler,     \* where the handler of each delivery is
  seen,        \* the adapters' seen maps
  todo,        \* the subscriptions a Publish has not come to yet
  lost,        \* its count of full queues
  subs,        \* Repository.subs
  queue,       \* the queue of each subscription
  stream,      \* the RPC that serves it
  got,         \* history: what the stream sent to its client
  owed,        \* history: the subscriptions each Publish saw
  began,       \* history: the deliveries whose handlers ended before this one
  dropped,     \* Repository.inboundDropped
  forwardQueue, forwarder, forwarded, forwardDropped, forwardFailures,
  forwarding,  \* the forwarder goroutine runs
  stopped      \* Repository.Stop ran

subscriptionVars == <<subs, queue, stream, got>>
forwardVars == <<forwardQueue, forwarder, forwarded, forwardDropped, forwardFailures, forwarding>>
publishVars == <<handler, seen, todo, lost, owed, began, dropped>>
inboundVars == <<subscriptionVars, forwardVars, publishVars, stopped>>
-----------------------------------------------------------------------------
HandlerSteps == {"idle", "publish", "offer", "forward", "done", "ignored"}

InboundInit ==
  /\ handler = [d \in Deliveries |-> "idle"]
  /\ seen = {} /\ owed = {} /\ dropped = 0
  /\ todo = [d \in Deliveries |-> {}] /\ lost = [d \in Deliveries |-> 0]
  /\ began = [d \in Deliveries |-> {}]
  /\ subs = {} /\ queue = [s \in Subscribers |-> <<>>]
  /\ stream = [s \in Subscribers |-> "none"] /\ got = [s \in Subscribers |-> <<>>]
  /\ forwardQueue = <<>> /\ forwarder = NoDelivery /\ forwarded = <<>>
  /\ forwardDropped = 0 /\ forwardFailures = 0
  /\ forwarding = TRUE /\ stopped = FALSE
-----------------------------------------------------------------------------
(* The handler of one delivery.                                            *)

Ended(d) == handler[d] \in {"done", "ignored"}

\* LoadOrStore: of two deliveries of one message only one passes.
SeenBefore(d) ==
  /\ Message[d] \in Identified
  /\ Message[d] \in seen

\* Mutant: the message is looked up but never stored.
StoreNothing(d) == seen' = seen

\* The message is stored first: one that is then refused is seen all the same.
Store(d) ==
  seen' = IF Message[d] \in Identified THEN seen \cup {Message[d]} ELSE seen

\* A sender who is not allowed or a group message without its trigger is
\* ignored.
Receive(d) ==
  /\ handler[d] = "idle"
  /\ IF SeenBefore(d)
     THEN handler' = [handler EXCEPT ![d] = "ignored"] /\ UNCHANGED seen
     ELSE /\ \E next \in {"publish", "ignored"} : handler' = [handler EXCEPT ![d] = next]
          /\ Store(d)
  /\ began' = [began EXCEPT ![d] = {e \in Deliveries : Ended(e)}]
  /\ UNCHANGED <<todo, lost, owed, dropped, subscriptionVars, forwardVars, stopped>>

Matching(d) == {s \in subs : Message[d] \in Wants[s]}

\* The read lock: several handlers may hold it, but no Subscribe or cancel.
Publish(d) ==
  /\ handler[d] = "publish"
  /\ handler' = [handler EXCEPT ![d] = "offer"]
  /\ todo' = [todo EXCEPT ![d] = Matching(d)]
  /\ owed' = owed \cup {<<d, s>> : s \in Matching(d)}
  /\ UNCHANGED <<seen, lost, began, dropped, subscriptionVars, forwardVars, stopped>>

\* Mutant: the send waits for room in the queue.
OfferBlocks(d, s) ==
  /\ handler[d] = "offer" /\ s \in todo[d]
  /\ todo' = [todo EXCEPT ![d] = @ \ {s}]
  /\ Len(queue[s]) < Capacity
  /\ queue' = [queue EXCEPT ![s] = Append(@, d)]
  /\ UNCHANGED <<lost, handler, seen, owed, began, dropped, subs, stream, got, forwardVars, stopped>>

\* Mutant: a subscription that is full is passed over without a count.
OfferUncounted(d, s) ==
  /\ handler[d] = "offer" /\ s \in todo[d]
  /\ todo' = [todo EXCEPT ![d] = @ \ {s}]
  /\ queue' = IF Len(queue[s]) < Capacity THEN [queue EXCEPT ![s] = Append(@, d)] ELSE queue
  /\ UNCHANGED <<lost, handler, seen, owed, began, dropped, subs, stream, got, forwardVars, stopped>>

\* The map is walked in any order.
Offer(d, s) ==
  /\ handler[d] = "offer" /\ s \in todo[d]
  /\ todo' = [todo EXCEPT ![d] = @ \ {s}]
  /\ IF Len(queue[s]) < Capacity
     THEN queue' = [queue EXCEPT ![s] = Append(@, d)] /\ UNCHANGED lost
     ELSE lost' = [lost EXCEPT ![d] = @ + 1] /\ UNCHANGED queue
  /\ UNCHANGED <<handler, seen, owed, began, dropped, subs, stream, got, forwardVars, stopped>>

\* The lock is released and the drops are added to the counter.
CountDrops(d) ==
  /\ handler[d] = "offer" /\ todo[d] = {}
  /\ dropped' = dropped + lost[d]
  /\ lost' = [lost EXCEPT ![d] = 0]
  /\ handler' = [handler EXCEPT ![d] = "forward"]
  /\ UNCHANGED <<seen, todo, owed, began, subscriptionVars, forwardVars, stopped>>

Forward(d) ==
  /\ handler[d] = "forward"
  /\ IF Len(forwardQueue) < Capacity
     THEN forwardQueue' = Append(forwardQueue, d) /\ UNCHANGED forwardDropped
     ELSE forwardDropped' = forwardDropped + 1 /\ UNCHANGED forwardQueue
  /\ handler' = [handler EXCEPT ![d] = "done"]
  /\ UNCHANGED <<seen, todo, lost, owed, began, dropped, subscriptionVars,
                 forwarder, forwarded, forwardFailures, forwarding, stopped>>
-----------------------------------------------------------------------------
(* Subscriptions.                                                          *)

ReadLocked == \E d \in Deliveries : handler[d] = "offer"

Subscribe(s) ==
  /\ stream[s] = "none" /\ ~ReadLocked
  /\ subs' = subs \cup {s}
  /\ stream' = [stream EXCEPT ![s] = "open"]
  /\ UNCHANGED <<queue, got, forwardVars, publishVars, stopped>>

StreamMessage(s) ==
  /\ stream[s] = "open" /\ queue[s] # <<>>
  /\ got' = [got EXCEPT ![s] = Append(@, Head(queue[s]))]
  /\ queue' = [queue EXCEPT ![s] = Tail(@)]
  /\ UNCHANGED <<subs, stream, forwardVars, publishVars, stopped>>

\* The client goes away; what is still queued for it is lost.
StreamEnds(s) ==
  /\ stream[s] = "open"
  /\ stream' = [stream EXCEPT ![s] = "closed"]
  /\ UNCHANGED <<subs, queue, got, forwardVars, publishVars, stopped>>

Unsubscribe(s) ==
  /\ stream[s] = "closed" /\ s \in subs /\ ~ReadLocked
  /\ subs' = subs \ {s}
  /\ UNCHANGED <<queue, stream, got, forwardVars, publishVars, stopped>>
-----------------------------------------------------------------------------
(* The forwarder goroutine and Stop.                                       *)

\* With the context done and a message in the queue, select takes either.
TakeForward ==
  /\ forwarding /\ forwarder = NoDelivery /\ forwardQueue # <<>>
  /\ forwarder' = Head(forwardQueue)
  /\ forwardQueue' = Tail(forwardQueue)
  /\ UNCHANGED <<forwarded, forwardDropped, forwardFailures, forwarding,
                 subscriptionVars, publishVars, stopped>>

Forwarded ==
  /\ forwarder # NoDelivery
  /\ forwarded' = Append(forwarded, forwarder)
  /\ forwarder' = NoDelivery
  /\ UNCHANGED <<forwardQueue, forwardDropped, forwardFailures, forwarding,
                 subscriptionVars, publishVars, stopped>>

\* A failed call is counted and not repeated.
ForwardFails ==
  /\ forwarder # NoDelivery
  /\ forwardFailures' = forwardFailures + 1
  /\ forwarder' = NoDelivery
  /\ UNCHANGED <<forwardQueue, forwarded, forwardDropped, forwarding,
                 subscriptionVars, publishVars, stopped>>

ForwarderExits ==
  /\ stopped /\ forwarding /\ forwarder = NoDelivery
  /\ forwarding' = FALSE
  /\ UNCHANGED <<forwardQueue, forwarder, forwarded, forwardDropped, forwardFailures,
                 subscriptionVars, publishVars, stopped>>

\* The subscriptions leave the map; their streams wait for their clients.
StopInbound ==
  /\ ~stopped /\ ~ReadLocked
  /\ stopped' = TRUE
  /\ subs' = {}
  /\ UNCHANGED <<queue, stream, got, forwardVars, publishVars>>

HandlerStep(d) ==
  \/ Publish(d) \/ CountDrops(d) \/ Forward(d)
  \/ \E s \in Subscribers : Offer(d, s)

StreamStep(s) == Subscribe(s) \/ StreamMessage(s) \/ StreamEnds(s) \/ Unsubscribe(s)

ForwarderStep == TakeForward \/ Forwarded \/ ForwardFails \/ ForwarderExits

InboundNext ==
  \/ \E d \in Deliveries : Receive(d) \/ HandlerStep(d)
  \/ \E s \in Subscribers : StreamStep(s)
  \/ ForwarderStep \/ StopInbound

InboundSpec == InboundInit /\ [][InboundNext]_inboundVars
-----------------------------------------------------------------------------
(* What must hold.                                                         *)

Line(s) == got[s] \o queue[s]
ForwardLine == forwarded \o (IF forwarder = NoDelivery THEN <<>> ELSE <<forwarder>>) \o forwardQueue

(* Every variable keeps its type; no queue outgrows its capacity; only the *)
(* subscriptions in the map are still to be offered something.             *)
InboundTypeOK ==
  /\ handler \in [Deliveries -> HandlerSteps]
  /\ seen \subseteq Identified
  /\ todo \in [Deliveries -> SUBSET subs] /\ lost \in [Deliveries -> Nat]
  /\ subs \subseteq Subscribers
  /\ \A s \in Subscribers : Line(s) \in Seq(Deliveries) /\ Len(queue[s]) <= Capacity
  /\ stream \in [Subscribers -> {"none", "open", "closed"}]
  /\ owed \subseteq Deliveries \X Subscribers
  /\ began \in [Deliveries -> SUBSET Deliveries]
  /\ ForwardLine \in Seq(Deliveries) /\ Len(forwardQueue) <= Capacity
  /\ dropped \in Nat /\ forwardDropped \in Nat /\ forwardFailures \in Nat
  /\ forwarding \in BOOLEAN /\ stopped \in BOOLEAN

\* A message that the platform delivers again is on the line once.
Once(line) ==
  \A i, j \in 1 .. Len(line) :
    i # j /\ Message[line[i]] \in Identified => Message[line[i]] # Message[line[j]]

\* A message whose handler ended before another's began is never behind it.
Ordered(line) ==
  \A i, j \in 1 .. Len(line) : i < j => line[j] \notin began[line[i]]

(* However the handlers interleave, no subscriber and not the forwarder    *)
(* gets a message a second time, and each gets the messages in the order   *)
(* in which the adapter took them.  (Two handlers that overlap may reach   *)
(* two subscribers in different orders.)                                   *)
LinesInOrder ==
  /\ Once(ForwardLine) /\ Ordered(ForwardLine)
  /\ \A s \in Subscribers : Once(Line(s)) /\ Ordered(Line(s))

\* The offers made, the places taken on the lines, the drops still to be added
\* to the counter, and the deliveries that the forwarder was offered.
Offered   == {o \in owed : o[2] \notin todo[o[1]]}
Placed    == UNION {{s} \X (1 .. Len(Line(s))) : s \in Subscribers}
Uncounted == UNION {{d} \X (1 .. lost[d]) : d \in Deliveries}
Handed    == {d \in Deliveries : handler[d] = "done"}

(* No message disappears unnoticed between Publish and the streams: what a *)
(* subscription in the map did not get, and what the forwarder did not     *)
(* forward, is in a queue or in a counter of RuntimeStatus.                *)
Accounted ==
  /\ Cardinality(Offered) = dropped + Cardinality(Uncounted) + Cardinality(Placed)
  /\ Cardinality(Handed) = forwardDropped + forwardFailures + Len(ForwardLine)

(* A client that takes nothing, a GateCore that does not answer and a      *)
(* runtime that was stopped never hold up the adapter's handler: once it   *)
(* has begun to publish it can always go on.                               *)
NeverHeldUp ==
  \A d \in Deliveries :
    handler[d] \in {"publish", "offer", "forward"} => ENABLED HandlerStep(d)
=============================================================================
