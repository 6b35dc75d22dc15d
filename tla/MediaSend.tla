------------------------------ MODULE MediaSend ------------------------------
(***************************************************************************)
(* Media on their way out of ChannelCore: the files of the media store,    *)
(* and the loop in which an adapter's SendMedia opens and posts the parts  *)
(* of a message, with the worker's retries around it.  The queue and its   *)
(* statuses are in ChannelOutbound; here is what is in the messages.       *)
(*                                                                         *)
(* Feishu, Telegram and WeCom's application upload every part.  WeCom's    *)
(* robots upload the pictures, or nothing, and name the other parts in one *)
(* text at the end.  The platform is external: a call succeeds, fails, or  *)
(* is heard although its answer is lost.                                   *)
(***************************************************************************)
EXTENDS Integers, Sequences

CONSTANTS
  Uploads,       \* the media that clients upload
  MediaMessages, \* calls of SendMedia
  Parts,         \* the references in each message
  Named,         \* the media that the adapter only names in a text
  NoMessage,     \* the worker has no message in hand
  MediaRetries,  \* Definition().MaxRetries
  MaxCrashes     \* bound: crashes of ChannelCore

ASSUME MediaAssumption ==
  /\ Parts \in [MediaMessages -> Seq(Uploads)]
  /\ Named \subseteq Uploads /\ NoMessage \notin MediaMessages
  /\ MediaRetries \in Nat /\ MaxCrashes \in Nat

VARIABLES
  file,     \* what the media root holds under each reference
  upload,   \* where each StoreMedia is
  released, \* history: the references given to ReleaseMedia
  status,   \* the delivery of each message
  sender,   \* the worker, inside sendMediaWithRetry
  posted,   \* history: the parts posted in this attempt
  has,      \* history: the parts of each message that the platform has
  crashes   \* history: crashes so far

storeVars == <<file, upload, released>>
mediaVars == <<storeVars, status, sender, posted, has, crashes>>
-----------------------------------------------------------------------------
UploadSteps == {"idle", "copy", "close", "stored", "failed"}
Statuses == {"none", "queued", "acknowledged", "failed", "forgotten"}
Resting == [msg |-> NoMessage, pc |-> "rest", at |-> 1, attempt |-> 0]

PartsOf(m) == 1 .. Len(Parts[m])
NamedParts(m) == {i \in PartsOf(m) : Parts[m][i] \in Named}

MediaInit ==
  /\ file = [u \in Uploads |-> "absent"]
  /\ upload = [u \in Uploads |-> "idle"]
  /\ released = {}
  /\ status = [m \in MediaMessages |-> "none"]
  /\ sender = Resting
  /\ posted = {}
  /\ has = [m \in MediaMessages |-> {}]
  /\ crashes = 0
-----------------------------------------------------------------------------
(* The store.  Every file has a fresh name.                                *)

StoreStep(u, step, content) ==
  /\ upload' = [upload EXCEPT ![u] = step]
  /\ file' = [file EXCEPT ![u] = content]
  /\ UNCHANGED <<released, status, sender, posted, has, crashes>>

CreateFile(u) == upload[u] = "idle" /\ StoreStep(u, "copy", "partial")

\* Mutant: the reference is returned before the content has been copied.
StoreEarly(u) ==
  \/ upload[u] = "copy" /\ StoreStep(u, "stored", file[u])
  \/ upload[u] = "close" /\ StoreStep(u, "stored", file[u])

CopyContent(u) == upload[u] = "copy" /\ StoreStep(u, "close", "whole")

\* Copying or closing failed: the file is removed, and should that fail as
\* well, nobody knows its name.
StoreFails(u) ==
  /\ upload[u] \in {"copy", "close"}
  /\ \E content \in {"absent", file[u]} : StoreStep(u, "failed", content)

StoreReturns(u) == upload[u] = "close" /\ StoreStep(u, "stored", file[u])

\* Nobody looks whether a queued message still needs the file.
ReleaseMedia(u) ==
  /\ upload[u] = "stored" /\ u \notin released
  /\ released' = released \cup {u}
  /\ file' = [file EXCEPT ![u] = "absent"]
  /\ UNCHANGED <<upload, status, sender, posted, has, crashes>>
-----------------------------------------------------------------------------
(* SendMedia of the repository, the worker and the adapter.                *)

\* A client sends references it was given.
QueueMedia(m) ==
  /\ status[m] = "none"
  /\ \A i \in PartsOf(m) : upload[Parts[m][i]] = "stored"
  /\ status' = [status EXCEPT ![m] = "queued"]
  /\ UNCHANGED <<storeVars, sender, posted, has, crashes>>

TakeMessage(m) ==
  /\ sender = Resting /\ status[m] = "queued"
  /\ sender' = [Resting EXCEPT !.msg = m, !.pc = "open"]
  /\ posted' = {}
  /\ UNCHANGED <<storeVars, status, has, crashes>>

Sending(m, pc) == sender.msg = m /\ sender.pc = pc
Current(m) == Parts[m][sender.at]
SenderAt(pc, i) == sender' = [sender EXCEPT !.pc = pc, !.at = i]

\* An open file is read to its end, also when it is removed meanwhile.
OpenPart(m) ==
  /\ Sending(m, "open") /\ sender.at \in PartsOf(m) \ NamedParts(m)
  /\ file[Current(m)] # "absent"
  /\ SenderAt("post", sender.at)
  /\ UNCHANGED <<storeVars, status, posted, has, crashes>>

NamePart(m) ==
  /\ Sending(m, "open") /\ sender.at \in NamedParts(m)
  /\ SenderAt("open", sender.at + 1)
  /\ UNCHANGED <<storeVars, status, posted, has, crashes>>

PlatformTakes(m, parts) == has' = [has EXCEPT ![m] = @ \cup parts]

PostPart(m) ==
  /\ Sending(m, "post")
  /\ PlatformTakes(m, {sender.at})
  /\ posted' = posted \cup {sender.at}
  /\ SenderAt("open", sender.at + 1)
  /\ UNCHANGED <<storeVars, status, crashes>>

SettleMedia(m, state) ==
  /\ status' = [status EXCEPT ![m] = state]
  /\ sender' = Resting

\* Behind the last part: the text that names the others, if there are any.
FinishMedia(m) ==
  /\ Sending(m, "open") /\ sender.at \notin PartsOf(m)
  /\ PlatformTakes(m, NamedParts(m))
  /\ posted' = posted \cup NamedParts(m)
  /\ SettleMedia(m, "acknowledged")
  /\ UNCHANGED <<storeVars, crashes>>

\* Mutant: the next attempt begins behind the part that failed.
RetryBehind(m) ==
  IF sender.attempt < MediaRetries
  THEN /\ sender' = [sender EXCEPT !.pc = "open", !.at = @ + 1, !.attempt = @ + 1]
       /\ UNCHANGED status
  ELSE SettleMedia(m, "failed")

\* The whole message is tried again, the parts that were posted included.
Retry(m) ==
  IF sender.attempt < MediaRetries
  THEN /\ sender' = [sender EXCEPT !.pc = "open", !.at = 1, !.attempt = @ + 1]
       /\ UNCHANGED status
  ELSE SettleMedia(m, "failed")

\* What the failing call may have posted all the same.
Attempted(m) ==
  IF sender.pc = "post" THEN {sender.at}
  ELSE IF sender.at \notin PartsOf(m) THEN NamedParts(m)
  ELSE {}

\* The file is gone, the upload or the post failed, or its answer was lost.
PartFails(m) ==
  /\ \/ Sending(m, "post")
     \/ Sending(m, "open") /\ sender.at \in PartsOf(m) \ NamedParts(m)
     \/ Sending(m, "open") /\ sender.at \notin PartsOf(m) /\ NamedParts(m) # {}
  /\ PlatformTakes(m, Attempted(m)) \/ UNCHANGED has
  /\ posted' = {}
  /\ Retry(m)
  /\ UNCHANGED <<storeVars, crashes>>

\* The context is done while the worker waits: the message is cancelled, or
\* the call failed with an error that is not retried.
GiveUpMedia(m) ==
  /\ sender.msg = m /\ sender.pc = "open" /\ sender.at = 1
  /\ posted' = {}
  /\ SettleMedia(m, "failed")
  /\ UNCHANGED <<storeVars, has, crashes>>

\* Files survive, and so do the references that clients hold.
MediaCrash ==
  /\ crashes < MaxCrashes
  /\ crashes' = crashes + 1
  /\ upload' = [u \in Uploads |-> IF upload[u] \in {"copy", "close"} THEN "failed" ELSE upload[u]]
  /\ status' = [m \in MediaMessages |-> IF status[m] = "none" THEN "none" ELSE "forgotten"]
  /\ sender' = Resting /\ posted' = {}
  /\ UNCHANGED <<file, released, has>>

MediaClient ==
  \/ \E u \in Uploads :
       CreateFile(u) \/ CopyContent(u) \/ StoreFails(u) \/ StoreReturns(u) \/ ReleaseMedia(u)
  \/ \E m \in MediaMessages : QueueMedia(m)

SenderStep ==
  \E m \in MediaMessages :
    \/ TakeMessage(m) \/ OpenPart(m) \/ NamePart(m) \/ PostPart(m)
    \/ FinishMedia(m) \/ PartFails(m) \/ GiveUpMedia(m)

MediaNext == MediaClient \/ SenderStep \/ MediaCrash

MediaSpec == MediaInit /\ [][MediaNext]_mediaVars
-----------------------------------------------------------------------------
(* What must hold.                                                         *)

(* Every variable keeps its type.                                          *)
MediaTypeOK ==
  /\ file \in [Uploads -> {"absent", "partial", "whole"}]
  /\ upload \in [Uploads -> UploadSteps]
  /\ released \subseteq {u \in Uploads : upload[u] = "stored"}
  /\ status \in [MediaMessages -> Statuses]
  /\ sender \in [msg : MediaMessages \cup {NoMessage}, pc : {"rest", "open", "post"},
                 at : Nat \ {0}, attempt : 0 .. MediaRetries]
  /\ sender.msg # NoMessage =>
       /\ status[sender.msg] = "queued" /\ posted \subseteq PartsOf(sender.msg)
       /\ sender.at <= Len(Parts[sender.msg]) + 1
  /\ \A m \in MediaMessages : has[m] \subseteq PartsOf(m)
  /\ crashes \in 0 .. MaxCrashes

(* A reference that a client was given leads to the whole content until it *)
(* is released, also after a crash in the middle of other uploads.         *)
KnownIsWhole ==
  \A u \in Uploads : upload[u] = "stored" /\ u \notin released => file[u] = "whole"

(* A message of several parts that is acknowledged is with the platform,   *)
(* every part of it, whichever part failed or was released while it was    *)
(* being sent, and in whichever attempt.                                   *)
AcknowledgedArrived ==
  \A m \in MediaMessages : status[m] = "acknowledged" => has[m] = PartsOf(m)

(* Within an attempt the parts are posted in their order.                  *)
PostedInOrder ==
  sender.msg # NoMessage =>
    \A i \in PartsOf(sender.msg) \ NamedParts(sender.msg) :
      i \in posted <=> i < sender.at

(* The worker ends with every message.  (Each is queued once.)             *)
MediaSettles == []<>(\A m \in MediaMessages : status[m] # "queued")
=============================================================================
