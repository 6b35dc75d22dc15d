--------------------------- MODULE MessageDelivery ----------------------------
(***************************************************************************)
(* What ChannelCore promises those who send messages through one channel.  *)
(* A call is answered once.  What was queued is taken in the order of its  *)
(* line, by one pair of hands, and handed to the platform part by part; it *)
(* gets an outcome when the last part has arrived or one has failed, and   *)
(* the outcome is given once.  While a key is young at most one message is *)
(* queued under it.  Retries, the table of keys, the state "sending", the  *)
(* clean-up after a full queue and the end of the runtime are not seen.    *)
(***************************************************************************)
EXTENDS Integers, Sequences

CONSTANTS Calls, NoCall, Key, NoKey, Media, Chunks

VARIABLES
  receipt,   \* what each call was told
  text,      \* the texts that wait, in order
  media,     \* the media messages that wait, in order
  hand,      \* the message in hand, and its part
  outcome,   \* what became of a message that is through
  expired,   \* the keys that are no longer young
  platform   \* the parts the platform has

deliveryVars == <<receipt, text, media, hand, outcome, expired, platform>>

Nothing == [msg |-> NoCall, part |-> 0]
SameKey(c, d) == Key[c] = Key[d] /\ Key[c] # NoKey

\* Nobody else may have written the outcome under the message's id.
Unshared(c, old) ==
  \A d \in Calls \ {c} : SameKey(c, d) => {c, d} \cap Media = {} /\ Key[c] \notin old

DeliveryInit ==
  /\ receipt = [c \in Calls |-> "none"]
  /\ text = <<>> /\ media = <<>> /\ hand = Nothing
  /\ outcome = [c \in Calls |-> "none"]
  /\ expired = {} /\ platform = {}

TurnDown(c) ==
  /\ receipt[c] = "none"
  /\ \E answer \in {"refused", "duplicate"} : receipt' = [receipt EXCEPT ![c] = answer]
  /\ UNCHANGED <<text, media, hand, outcome, expired, platform>>

\* No other text was queued under the key while it is young.
Accept(c) ==
  /\ receipt[c] = "none"
  /\ \A d \in Calls \ {c} :
       SameKey(c, d) /\ {c, d} \cap Media = {} /\ receipt[d] = "queued" => Key[c] \in expired
  /\ receipt' = [receipt EXCEPT ![c] = "queued"]
  /\ text' = IF c \in Media THEN text ELSE Append(text, c)
  /\ media' = IF c \in Media THEN Append(media, c) ELSE media
  /\ UNCHANGED <<hand, outcome, expired, platform>>

\* A text is handed over whole, as part 0, or in parts from 1 on.
Take ==
  /\ hand = Nothing
  /\ \/ /\ text # <<>> /\ text' = Tail(text) /\ UNCHANGED media
        /\ \/ hand' = [msg |-> Head(text), part |-> 0]
           \/ Chunks[Head(text)] > 1 /\ hand' = [msg |-> Head(text), part |-> 1]
     \/ /\ media # <<>> /\ media' = Tail(media) /\ UNCHANGED text
        /\ hand' = [msg |-> Head(media), part |-> 0]
  /\ UNCHANGED <<receipt, outcome, expired, platform>>

Settle(result) ==
  /\ hand' = Nothing
  /\ outcome' = [outcome EXCEPT ![hand.msg] =
                   IF Unshared(hand.msg, expired) THEN result ELSE "none"]

HandOver ==
  /\ hand.msg # NoCall
  /\ platform' = platform \cup {hand}
  /\ IF hand.part \in 1 .. Chunks[hand.msg] - 1
     THEN hand' = [hand EXCEPT !.part = @ + 1] /\ UNCHANGED outcome
     ELSE Settle("acknowledged")
  /\ UNCHANGED <<receipt, text, media, expired>>

\* What follows the part that failed is not handed over.
GiveUp ==
  /\ hand.msg # NoCall
  /\ \E result \in {"failed", "cancelled"} : Settle(result)
  /\ UNCHANGED <<receipt, text, media, expired, platform>>

\* From now on another message may be queued under the key, and use its id.
Expire(k) ==
  /\ expired' = expired \cup {k}
  /\ outcome' = [c \in Calls |-> IF Unshared(c, expired') THEN outcome[c] ELSE "none"]
  /\ UNCHANGED <<receipt, text, media, hand, platform>>

DeliveryNext ==
  \/ \E c \in Calls : TurnDown(c) \/ Accept(c)
  \/ Take \/ HandOver \/ GiveUp
  \/ \E k \in {Key[c] : c \in Calls} \ {NoKey} : Expire(k)

DeliverySpec == DeliveryInit /\ [][DeliveryNext]_deliveryVars
===============================================================================
