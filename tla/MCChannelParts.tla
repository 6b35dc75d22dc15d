--------------------------- MODULE MCChannelParts ---------------------------
(***************************************************************************)
(* Nine parts of ChannelCore that share no state, in one instance: every    *)
(* behaviour is one of one part, while the others rest in their initial    *)
(* states.  Fairness is asked for in the parts that have a property of     *)
(* liveness.                                                               *)
(***************************************************************************)
EXTENDS ReplyRelay, MessageActions, ChannelInbound, TelegramPoll, ChannelStart,
        OutboundSplit, MediaSend, RateLimit, TokenCache, TLC

CONSTANTS d1, d2, d3, m1, m2, s1, f2, f3, f4, mm1, mm2, w1, w2

\* The platform delivers the first message twice.
MessageOf == d1 :> m1 @@ d2 :> m1 @@ d3 :> m2
WantsOf == s1 :> {m1, m2}

\* Two messages share a file; the first names a file between two others.
PartsIn == mm1 :> <<f2, f3, f4>> @@ mm2 :> <<f4>>

VARIABLE part

repositoryVars == <<relayVars, actionsVars, inboundVars>>
outerVars == <<pollVars, startVars>>
sendingVars == <<splitVars, mediaVars, limiterVars, tokenVars>>
vars == <<part, repositoryVars, outerVars, sendingVars>>

Init ==
  /\ part \in {"relay", "actions", "inbound", "poll", "start", "split", "media", "rate", "token"}
  /\ RelayInit /\ ActionsInit /\ InboundInit /\ PollInit /\ StartInit /\ MediaInit
  /\ SplitInit /\ LimiterInit /\ TokenInit
  /\ part # "split" => length = 1 /\ limit = 0
  /\ part # "rate" => from = 0

Next ==
  \/ /\ part = "relay" /\ RelayNext
     /\ UNCHANGED <<part, actionsVars, inboundVars, outerVars, sendingVars>>
  \/ /\ part = "actions" /\ ActionsNext
     /\ UNCHANGED <<part, relayVars, inboundVars, outerVars, sendingVars>>
  \/ /\ part = "inbound" /\ InboundNext
     /\ UNCHANGED <<part, relayVars, actionsVars, outerVars, sendingVars>>
  \/ /\ part = "poll" /\ PollNext
     /\ UNCHANGED <<part, repositoryVars, startVars, sendingVars>>
  \/ /\ part = "start" /\ StartNext
     /\ UNCHANGED <<part, repositoryVars, pollVars, sendingVars>>
  \/ /\ part = "split" /\ SplitNext
     /\ UNCHANGED <<part, repositoryVars, outerVars, mediaVars, limiterVars, tokenVars>>
  \/ /\ part = "media" /\ MediaNext
     /\ UNCHANGED <<part, repositoryVars, outerVars, splitVars, limiterVars, tokenVars>>
  \/ /\ part = "rate" /\ LimiterNext
     /\ UNCHANGED <<part, repositoryVars, outerVars, splitVars, mediaVars, tokenVars>>
  \/ /\ part = "token" /\ TokenNext
     /\ UNCHANGED <<part, repositoryVars, outerVars, splitVars, mediaVars, limiterVars>>

(* Calls end, because the adapters' HTTP clients have timeouts; the relay  *)
(* polls for ever, and finds a free slot again and again (Slots bounds     *)
(* only the model).  Nothing is assumed of timeouts, restarts, the bridge  *)
(* and the streaming client.                                               *)
RelayFairness ==
  /\ \A s \in Slots : WF_relayVars(part = "relay" /\ ServeStep(s))
  /\ SF_relayVars(part = "relay" /\ \E r \in Rows, s \in Slots : PublishRow(r, s))
  /\ WF_relayVars(part = "relay" /\ (Published \/ PublishFailed))

(* Goroutines run and time passes; no client has to end what it started.   *)
ActionsFairness ==
  /\ WF_actionsVars(part = "actions" /\ \E q \in Requests : RequestStep(q))
  /\ WF_actionsVars(part = "actions" /\ \E c \in claims : CallBack(c))
  /\ WF_actionsVars(part = "actions" /\ \E h \in Handles : GrowOld(h))
  /\ WF_actionsVars(part = "actions" /\ JanitorStep)

(* A worker is never blocked for good.                                     *)
SendingFairness == WF_mediaVars(part = "media" /\ SenderStep)

FairSpec ==
  Init /\ [][Next]_vars /\ RelayFairness /\ ActionsFairness /\ SendingFairness

(* Every variable of every part keeps its type.                            *)
PartsTypeOK ==
  RelayTypeOK /\ ActionsTypeOK /\ InboundTypeOK /\ PollTypeOK /\ StartTypeOK
  /\ SplitTypeOK /\ MediaTypeOK /\ LimiterTypeOK /\ TokenTypeOK

(* An adapter's handler is never held up by what it hands a message to,    *)
(* and what therefore gets dropped is counted.                             *)
DropsInsteadOfWaiting == NeverHeldUp /\ Accounted

(* What has been ended leaves nothing behind: a PrepareInbound that failed *)
(* no typing indicator or reaction, a Stop that returned no callback of    *)
(* the janitor, a Start that failed no adapter that says it runs.          *)
NothingLeft == FailedLeavesNothing /\ StopAwaitsJanitor /\ NoneRunsAfter /\ FlagTells

(* What leaves ChannelCore is whole: the pieces of a text are the text, a  *)
(* reference leads to the whole file, and an acknowledged message has all  *)
(* its parts with the platform, posted in their order.  It leaves no       *)
(* faster than the channel's rate, with a token that is still accepted.    *)
SentAsPromised ==
  /\ TextKept /\ KnownIsWhole /\ AcknowledgedArrived /\ PostedInOrder
  /\ RateKept /\ TokenAccepted

(* What begins ends: a row of the outbox is published or given up, and     *)
(* what was started on a message is ended, and the worker gets done with   *)
(* every media message.                                                    *)
PartsEnd == RowsSettle /\ HandlesEnd /\ MediaSettles
=============================================================================
