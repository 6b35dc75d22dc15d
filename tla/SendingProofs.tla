---------------------------- MODULE SendingProofs -----------------------------
(***************************************************************************)
(* What leaves ChannelCore, for any texts, limits, files, rates and times: *)
(* the cut of a long text, the media store and the loops that post what is *)
(* in it, the token bucket before every post and the token in its header.  *)
(***************************************************************************)
EXTENDS OutboundSplit, MediaSend, RateLimit, TokenCache, TLAPS

(***************************************************************************)
(* That splitOutbound keeps every text, of any length, under any limit.    *)
(* TextKept is not inductive by itself: where the next piece begins must   *)
(* be a letter, which is what trimming achieves, or the text's beginning.  *)
(***************************************************************************)
USE SplitAssumption

BeginsWithLetter == start = 1 \/ start > length \/ characters[start] = "letter"

SplitInv == SplitTypeOK /\ TextKept /\ BeginsWithLetter

LEMMA SplitInitially == SplitInit => SplitInv
BY DEF SplitInit, SplitInv, SplitTypeOK, TextKept, BeginsWithLetter

(* An unsplit text is one piece, which is as long as the limit allows.     *)
LEMMA WholeKept == SplitInv /\ KeepWhole => SplitInv'
<1> SUFFICES ASSUME SplitInv, KeepWhole PROVE SplitInv'
  OBVIOUS
<1>1. SplitTypeOK'
  BY DEF SplitInv, KeepWhole, SplitTypeOK, textVars
<1>2. TextKept'
  BY DEF SplitInv, KeepWhole, SplitTypeOK, textVars, TextKept, Fits
<1> QED
  BY <1>1, <1>2 DEF SplitInv, KeepWhole, BeginsWithLetter, SplitTypeOK, textVars

LEMMA CutKept == SplitInv /\ Cut => SplitInv'
<1> SUFFICES ASSUME SplitInv, Cut PROVE SplitInv'
  OBVIOUS
<1>1. PICK end \in start .. length :
        /\ EndsAt(end)
        /\ pieces' = pieces \cup {[from |-> start, to |-> end]}
        /\ \E next \in end + 1 .. length + 1 : Skips(end, next) /\ start' = next
  BY DEF Cut
<1>2. PICK next \in end + 1 .. length + 1 : Skips(end, next) /\ start' = next
  BY <1>1
<1>3. limit \in Nat /\ limit > 0 /\ start \in Nat /\ length \in Nat /\ UNCHANGED textVars
      /\ start <= length
  BY DEF SplitInv, SplitTypeOK, Cut, Fits
<1>4. end \in Nat /\ start <= end /\ end <= length /\ next \in Nat
      /\ end < next /\ next <= length + 1
  BY <1>1, <1>2, <1>3
<1>5. end - start < limit
  BY <1>1, <1>3, <1>4 DEF EndsAt, Breaks
<1>6. SplitTypeOK'
  <2>1. [from |-> start, to |-> end] \in [from : 1 .. length, to : 1 .. length]
    BY <1>3, <1>4 DEF SplitInv, SplitTypeOK
  <2> QED
    BY <1>1, <1>2, <1>3, <1>4, <2>1 DEF SplitInv, SplitTypeOK, textVars
<1>7. TextKept'
  <2> DEFINE new == [from |-> start, to |-> end]
  <2>1. pieces' = pieces \cup {new} /\ new.from = start /\ new.to = end
    BY <1>1
  <2> HIDE DEF new
  <2>2. \A p \in pieces : p.from \in Nat /\ p.to \in Nat /\ p.from <= p.to /\ p.to < start
    BY DEF SplitInv, SplitTypeOK, TextKept
  <2>3. ASSUME NEW i \in 1 .. next - 1, characters[i] = "letter"
        PROVE  \E p \in pieces' : p.from <= i /\ i <= p.to
    <3>1. i \in Nat /\ 1 <= i /\ i < next
      BY <1>4
    <3>2. CASE i < start
      BY <3>1, <3>2, <2>1, <1>3, <2>3 DEF SplitInv, TextKept
    <3>3. CASE start <= i /\ i <= end
      BY <3>3, <2>1
    <3>4. CASE end < i
      <4>1. i \in end + 1 .. next - 1
        BY <3>1, <3>4, <1>4
      <4> QED
        BY <2>3, <4>1, <1>2 DEF Skips
    <3> QED
      BY <3>1, <3>2, <3>3, <3>4, <1>3, <1>4
  <2>4. \A p, q \in pieces' : p = q \/ p.to < q.from \/ q.to < p.from
    BY <2>1, <2>2, <1>3 DEF SplitInv, TextKept
  <2>5. \A p \in pieces' : p.from <= p.to /\ p.to < next
    BY <2>1, <2>2, <1>3, <1>4
  <2>6. \A p \in pieces' : limit' > 0 => p.to - p.from < limit'
    BY <2>1, <1>3, <1>5 DEF SplitInv, TextKept, textVars
  <2>7. \A p \in pieces' : p.from > 1 => characters'[p.from] = "letter"
    BY <2>1, <1>3 DEF SplitInv, TextKept, BeginsWithLetter, textVars
  <2> QED
    BY <1>2, <1>3, <2>3, <2>4, <2>5, <2>6, <2>7 DEF TextKept, textVars
<1> QED
  BY <1>2, <1>3, <1>4, <1>6, <1>7 DEF SplitInv, BeginsWithLetter, Skips, textVars

LEMMA SplitNextKeeps == SplitInv /\ [SplitNext]_splitVars => SplitInv'
<1>1. SplitInv /\ UNCHANGED splitVars => SplitInv'
  BY DEF SplitInv, SplitTypeOK, TextKept, BeginsWithLetter, splitVars, textVars
<1> QED
  BY WholeKept, CutKept, <1>1 DEF SplitNext

(* No letter of a text that leaves ChannelCore is lost or sent twice by    *)
(* splitOutbound, and no piece is longer than the platform takes.          *)
THEOREM SplitKeepsText == SplitSpec => []TextKept
<1>1. SplitInv => TextKept
  BY DEF SplitInv
<1> QED
  BY SplitInitially, SplitNextKeeps, <1>1, PTL DEF SplitSpec

HIDE SplitAssumption
-----------------------------------------------------------------------------
(***************************************************************************)
(* What the media store and the adapters' loops promise, for any uploads,  *)
(* messages, retries and crashes: a reference leads to the whole file, and *)
(* an acknowledged message is with the platform.                           *)
(***************************************************************************)
USE MediaAssumption

\* The part of the types that the arguments need.
MediaTypes ==
  /\ file \in [Uploads -> {"absent", "partial", "whole"}]
  /\ upload \in [Uploads -> UploadSteps]
  /\ released \subseteq Uploads
  /\ status \in [MediaMessages -> Statuses]
  /\ has \in [MediaMessages -> SUBSET Nat]
  /\ sender \in [msg : MediaMessages \cup {NoMessage}, pc : {"rest", "open", "post"},
                 at : Nat, attempt : Nat]

\* A file whose upload is about to be closed is as whole as a stored one.
FilesWhole ==
  /\ KnownIsWhole
  /\ \A u \in Uploads : upload[u] = "close" => file[u] = "whole"
  /\ \A u \in released : upload[u] = "stored"

\* What the loop has passed has been posted, unless it will only be named.
PassedPosted ==
  /\ \A m \in MediaMessages : has[m] \subseteq PartsOf(m)
  /\ sender.msg # NoMessage =>
       /\ \A i \in PartsOf(sender.msg) \ NamedParts(sender.msg) :
            i < sender.at => i \in has[sender.msg]
       /\ sender.at \in 1 .. Len(Parts[sender.msg]) + 1
       /\ sender.pc = "post" => sender.at \in PartsOf(sender.msg) \ NamedParts(sender.msg)

MediaInv == MediaTypes /\ FilesWhole /\ PassedPosted /\ AcknowledgedArrived

LEMMA PartsNat ==
  ASSUME NEW m \in MediaMessages
  PROVE  Len(Parts[m]) \in Nat /\ PartsOf(m) \subseteq Nat /\ NamedParts(m) \subseteq PartsOf(m)
BY DEF PartsOf, NamedParts

LEMMA MediaInitially == MediaInit => MediaInv
BY PartsNat DEF MediaInit, MediaInv, MediaTypes, UploadSteps, Statuses, Resting, FilesWhole,
                KnownIsWhole, PassedPosted, AcknowledgedArrived

(* The rest of the invariant sees neither the files nor the uploads.       *)
LEMMA OthersKeep ==
  ASSUME MediaInv, UNCHANGED <<status, sender, has>>
  PROVE  PassedPosted' /\ AcknowledgedArrived'
BY DEF MediaInv, PassedPosted, AcknowledgedArrived, PartsOf, NamedParts

(* At the beginning of a message, or with none, nothing has been passed.   *)
LEMMA BeginsKeeps ==
  ASSUME MediaInv, \A n \in MediaMessages : has'[n] \subseteq PartsOf(n),
         sender'.msg \in MediaMessages \cup {NoMessage},
         sender'.at = 1, sender'.pc # "post"
  PROVE  PassedPosted'
<1>1. \A n \in MediaMessages : \A i \in PartsOf(n) : ~ i < 1
  BY PartsNat DEF PartsOf
<1>2. \A n \in MediaMessages : 1 \in 1 .. Len(Parts[n]) + 1
  BY PartsNat
<1> QED
  BY <1>1, <1>2 DEF PassedPosted, PartsOf, NamedParts

(* A step of the store touches one file, and neither worker nor messages.  *)
LEMMA StoreStepKeeps ==
  ASSUME MediaInv, NEW u \in Uploads, NEW step \in UploadSteps,
         NEW content \in {"absent", "partial", "whole"},
         StoreStep(u, step, content), upload[u] # "stored",
         step \in {"close", "stored"} => content = "whole"
  PROVE  MediaInv'
<1>1. PassedPosted' /\ AcknowledgedArrived'
  BY OthersKeep DEF StoreStep
<1>2. /\ file' = [file EXCEPT ![u] = content]
      /\ upload' = [upload EXCEPT ![u] = step]
      /\ UNCHANGED <<released, status, sender, has>>
  BY DEF StoreStep
<1>3. MediaTypes'
  BY <1>2 DEF MediaInv, MediaTypes
<1>4. \A v \in Uploads : v # u => file'[v] = file[v] /\ upload'[v] = upload[v]
  BY <1>2 DEF MediaInv, MediaTypes
<1>5. file'[u] = content /\ upload'[u] = step
  BY <1>2 DEF MediaInv, MediaTypes
<1>6. FilesWhole'
  BY <1>2, <1>4, <1>5 DEF MediaInv, MediaTypes, FilesWhole, KnownIsWhole
<1> QED
  BY <1>1, <1>3, <1>6 DEF MediaInv

LEMMA StoreKeeps ==
  ASSUME MediaInv, NEW u \in Uploads,
         CreateFile(u) \/ CopyContent(u) \/ StoreFails(u) \/ StoreReturns(u)
  PROVE  MediaInv'
<1>1. file[u] \in {"absent", "partial", "whole"}
  BY DEF MediaInv, MediaTypes
<1>2. CASE CreateFile(u)
  BY <1>2, StoreStepKeeps DEF CreateFile, UploadSteps
<1>3. CASE CopyContent(u)
  BY <1>3, StoreStepKeeps DEF CopyContent, UploadSteps
<1>4. CASE StoreFails(u)
  BY <1>1, <1>4, StoreStepKeeps DEF StoreFails, UploadSteps
<1>5. CASE StoreReturns(u)
  <2>1. file[u] = "whole"
    BY <1>5 DEF StoreReturns, MediaInv, FilesWhole
  <2> QED
    BY <1>1, <1>5, <2>1, StoreStepKeeps DEF StoreReturns, UploadSteps
<1> QED
  BY <1>2, <1>3, <1>4, <1>5

LEMMA ReleaseKeeps ==
  ASSUME MediaInv, NEW u \in Uploads, ReleaseMedia(u)
  PROVE  MediaInv'
<1>1. PassedPosted' /\ AcknowledgedArrived'
  BY OthersKeep DEF ReleaseMedia
<1>2. /\ file' = [file EXCEPT ![u] = "absent"]
      /\ released' = released \cup {u}
      /\ UNCHANGED <<upload, status, sender, has>>
      /\ upload[u] = "stored"
  BY DEF ReleaseMedia
<1>3. MediaTypes'
  BY <1>2 DEF MediaInv, MediaTypes
<1>4. \A v \in Uploads : v # u => file'[v] = file[v]
  BY <1>2 DEF MediaInv, MediaTypes
<1>5. FilesWhole'
  BY <1>2, <1>4 DEF MediaInv, MediaTypes, FilesWhole, KnownIsWhole
<1> QED
  BY <1>1, <1>3, <1>5 DEF MediaInv

(* A message is queued, or the worker takes it up.                         *)
LEMMA QueueKeeps ==
  ASSUME MediaInv, NEW m \in MediaMessages, QueueMedia(m)
  PROVE  MediaInv'
<1>1. UNCHANGED <<storeVars, sender, has>> /\ status' = [status EXCEPT ![m] = "queued"]
  BY DEF QueueMedia
<1>2. MediaTypes'
  BY <1>1 DEF MediaInv, MediaTypes, storeVars, Statuses
<1>3. FilesWhole' /\ PassedPosted'
  BY <1>1 DEF MediaInv, FilesWhole, KnownIsWhole, PassedPosted, storeVars, PartsOf, NamedParts
<1>4. AcknowledgedArrived'
  BY <1>1 DEF MediaInv, MediaTypes, AcknowledgedArrived, PartsOf
<1> QED
  BY <1>2, <1>3, <1>4 DEF MediaInv

LEMMA TakeMessageKeeps ==
  ASSUME MediaInv, NEW m \in MediaMessages, TakeMessage(m)
  PROVE  MediaInv'
<1>1. /\ UNCHANGED <<storeVars, status, has>>
      /\ sender' = [msg |-> m, pc |-> "open", at |-> 1, attempt |-> 0]
  BY DEF TakeMessage, Resting
<1>2. MediaTypes'
  BY <1>1 DEF MediaInv, MediaTypes, storeVars
<1>3. FilesWhole' /\ AcknowledgedArrived'
  BY <1>1 DEF MediaInv, FilesWhole, KnownIsWhole, AcknowledgedArrived, storeVars, PartsOf
<1>4. PassedPosted'
  <2>1. /\ sender'.msg \in MediaMessages \cup {NoMessage}
        /\ sender'.at = 1 /\ sender'.pc # "post"
    BY <1>1
  <2>2. \A n \in MediaMessages : has'[n] \subseteq PartsOf(n)
    BY <1>1 DEF MediaInv, PassedPosted
  <2> QED
    BY <2>1, <2>2, BeginsKeeps
<1> QED
  BY <1>2, <1>3, <1>4 DEF MediaInv

(* The worker goes on by one part.                                         *)
LEMMA PartKeeps ==
  ASSUME MediaInv, NEW m \in MediaMessages, OpenPart(m) \/ NamePart(m) \/ PostPart(m)
  PROVE  MediaInv'
<1>1. UNCHANGED <<storeVars, status>> /\ FilesWhole'
  BY DEF OpenPart, NamePart, PostPart, storeVars, MediaInv, FilesWhole, KnownIsWhole
<1>2. m # NoMessage /\ sender.msg = m
  BY DEF OpenPart, NamePart, PostPart, Sending
<1>3. sender.at \in PartsOf(m) /\ sender.at \in Nat /\ sender.at <= Len(Parts[m])
  BY <1>2, PartsNat DEF OpenPart, NamePart, PostPart, Sending, MediaInv, PassedPosted, PartsOf,
                        NamedParts
<1>4. \E pc \in {"open", "post"}, i \in Nat :
        /\ sender' = [sender EXCEPT !.pc = pc, !.at = i]
        /\ \/ i = sender.at /\ pc = "post" /\ UNCHANGED has /\ sender.at \notin NamedParts(m)
           \/ i = sender.at + 1 /\ pc = "open" /\ UNCHANGED has /\ sender.at \in NamedParts(m)
           \/ i = sender.at + 1 /\ pc = "open" /\ has' = [has EXCEPT ![m] = @ \cup {sender.at}]
  <2>1. CASE OpenPart(m)
    BY <1>3, <2>1 DEF OpenPart, SenderAt
  <2>2. CASE NamePart(m) \/ PostPart(m)
    <3> DEFINE next == sender.at + 1
    <3>1. next \in Nat
      BY <1>3
    <3>2. sender' = [sender EXCEPT !.pc = "open", !.at = next]
      BY <2>2 DEF NamePart, PostPart, SenderAt
    <3>3. \/ UNCHANGED has /\ sender.at \in NamedParts(m)
          \/ has' = [has EXCEPT ![m] = @ \cup {sender.at}]
      BY <2>2 DEF NamePart, PostPart, PlatformTakes
    <3>4. next = sender.at + 1
      OBVIOUS
    <3> HIDE DEF next
    <3> QED
      BY <3>1, <3>2, <3>3, <3>4
  <2> QED
    BY <2>1, <2>2
<1>. PICK pc \in {"open", "post"}, i \in Nat :
        /\ sender' = [sender EXCEPT !.pc = pc, !.at = i]
        /\ \/ i = sender.at /\ pc = "post" /\ UNCHANGED has /\ sender.at \notin NamedParts(m)
           \/ i = sender.at + 1 /\ pc = "open" /\ UNCHANGED has /\ sender.at \in NamedParts(m)
           \/ i = sender.at + 1 /\ pc = "open" /\ has' = [has EXCEPT ![m] = @ \cup {sender.at}]
  BY <1>4
<1>5. /\ has' \in [MediaMessages -> SUBSET Nat]
      /\ \A n \in MediaMessages : has[n] \subseteq has'[n] /\ has'[n] \subseteq PartsOf(n)
      /\ i = sender.at + 1 /\ sender.at \notin NamedParts(m) => sender.at \in has'[m]
  <2>1. CASE UNCHANGED has
    BY <1>3, <2>1 DEF MediaInv, MediaTypes, PassedPosted
  <2>2. CASE has' = [has EXCEPT ![m] = @ \cup {sender.at}]
    BY <1>3, <2>2 DEF MediaInv, MediaTypes, PassedPosted
  <2> QED
    BY <2>1, <2>2
<1>6. MediaTypes'
  BY <1>1, <1>5 DEF MediaInv, MediaTypes, storeVars
<1>7. PassedPosted'
  BY <1>2, <1>3, <1>5, PartsNat DEF MediaInv, MediaTypes, PassedPosted, PartsOf, NamedParts
<1>8. AcknowledgedArrived'
  BY <1>1, <1>5 DEF MediaInv, AcknowledgedArrived, PartsOf
<1> QED
  BY <1>1, <1>6, <1>7, <1>8 DEF MediaInv

(* The worker rests or begins again, and the platform has got some parts.  *)
LEMMA AttemptEndKeeps ==
  ASSUME MediaInv, NEW m \in MediaMessages, NEW parts \in SUBSET PartsOf(m),
         UNCHANGED storeVars, has' = [has EXCEPT ![m] = @ \cup parts],
         \/ sender' = Resting
         \/ sender' = [sender EXCEPT !.pc = "open", !.at = 1, !.attempt = @ + 1],
         \/ UNCHANGED status
         \/ status' = [status EXCEPT ![m] = "failed"]
         \/ status' = [status EXCEPT ![m] = "acknowledged"] /\ has'[m] = PartsOf(m)
  PROVE  MediaInv'
<1>1. FilesWhole'
  BY DEF storeVars, MediaInv, FilesWhole, KnownIsWhole
<1>2. /\ has' \in [MediaMessages -> SUBSET Nat]
      /\ \A n \in MediaMessages : has[n] \subseteq has'[n] /\ has'[n] \subseteq PartsOf(n)
  BY PartsNat DEF MediaInv, MediaTypes, PassedPosted
<1>3. /\ sender' \in [msg : MediaMessages \cup {NoMessage}, pc : {"rest", "open", "post"},
                     at : Nat, attempt : Nat]
      /\ sender'.at = 1 /\ sender'.pc # "post"
  <2>1. CASE sender' = Resting
    BY <2>1 DEF Resting
  <2>2. CASE sender' = [sender EXCEPT !.pc = "open", !.at = 1, !.attempt = @ + 1]
    <3>1. sender \in [msg : MediaMessages \cup {NoMessage}, pc : {"rest", "open", "post"},
                     at : Nat, attempt : Nat]
      BY DEF MediaInv, MediaTypes
    <3>2. sender.attempt + 1 \in Nat
      BY <3>1
    <3>3. 1 \in Nat
      OBVIOUS
    <3> QED
      BY <2>2, <3>1, <3>2, <3>3
  <2> QED
    BY <2>1, <2>2
<1>4. MediaTypes'
  <2>1. status' \in [MediaMessages -> Statuses]
    BY DEF MediaInv, MediaTypes, Statuses
  <2> QED
    BY <1>2, <1>3, <2>1 DEF MediaInv, MediaTypes, storeVars
<1>5. PassedPosted'
  <2>1. sender'.msg \in MediaMessages \cup {NoMessage}
    BY <1>3
  <2> QED
    BY <1>2, <1>3, <2>1, BeginsKeeps
<1>6. AcknowledgedArrived'
  <2> SUFFICES ASSUME NEW n \in MediaMessages, status'[n] = "acknowledged"
               PROVE  has'[n] = PartsOf(n)
    BY DEF AcknowledgedArrived, PartsOf
  <2>1. status[n] = "acknowledged" \/ (n = m /\ has'[m] = PartsOf(m))
    BY DEF MediaInv, MediaTypes
  <2> QED
    BY <1>2, <2>1 DEF MediaInv, AcknowledgedArrived
<1> QED
  BY <1>1, <1>4, <1>5, <1>6 DEF MediaInv

(* An attempt fails, and may have posted something all the same.           *)
LEMMA FailKeeps ==
  ASSUME MediaInv, NEW m \in MediaMessages, PartFails(m) \/ GiveUpMedia(m)
  PROVE  MediaInv'
<1>1. UNCHANGED storeVars /\ sender.msg = m /\ m # NoMessage
  BY DEF PartFails, GiveUpMedia, Sending
<1>2. \/ sender' = Resting
      \/ sender' = [sender EXCEPT !.pc = "open", !.at = 1, !.attempt = @ + 1]
  BY DEF PartFails, GiveUpMedia, SettleMedia, Retry
<1>3. UNCHANGED status \/ status' = [status EXCEPT ![m] = "failed"]
  BY DEF PartFails, GiveUpMedia, SettleMedia, Retry
<1>4. CASE UNCHANGED has
  <2>1. has' = [has EXCEPT ![m] = @ \cup {}]
    BY <1>4 DEF MediaInv, MediaTypes
  <2> DEFINE nothing == {}
  <2>2. nothing \in SUBSET PartsOf(m) /\ has' = [has EXCEPT ![m] = @ \cup nothing]
    BY <2>1
  <2> HIDE DEF nothing
  <2> QED
    BY <1>1, <1>2, <1>3, <2>2, AttemptEndKeeps
<1>5. CASE PlatformTakes(m, Attempted(m))
  <2>1. Attempted(m) \subseteq PartsOf(m)
    BY <1>1, PartsNat DEF Attempted, MediaInv, PassedPosted
  <2> QED
    BY <1>1, <1>2, <1>3, <1>5, <2>1, AttemptEndKeeps DEF PlatformTakes
<1> QED
  BY <1>4, <1>5 DEF PartFails, GiveUpMedia

(* Behind the last part everything has been posted or is about to be named.*)
LEMMA FinishKeeps ==
  ASSUME MediaInv, NEW m \in MediaMessages, FinishMedia(m)
  PROVE  MediaInv'
<1>1. /\ UNCHANGED storeVars /\ sender.msg = m /\ m # NoMessage
      /\ sender.at \notin PartsOf(m)
      /\ has' = [has EXCEPT ![m] = @ \cup NamedParts(m)]
      /\ sender' = Resting /\ status' = [status EXCEPT ![m] = "acknowledged"]
  BY DEF FinishMedia, Sending, SettleMedia, PlatformTakes
<1>2. has'[m] = has[m] \cup NamedParts(m)
  BY <1>1 DEF MediaInv, MediaTypes
<1>3. has[m] \subseteq PartsOf(m) /\ NamedParts(m) \subseteq PartsOf(m)
  BY PartsNat DEF MediaInv, PassedPosted
<1>4. ASSUME NEW i \in PartsOf(m), i \notin NamedParts(m)
      PROVE  i \in has[m]
  <2>1. i < sender.at
    BY <1>1, PartsNat DEF MediaInv, PassedPosted, PartsOf
  <2> QED
    BY <1>1, <1>4, <2>1 DEF MediaInv, PassedPosted
<1>5. has'[m] = PartsOf(m)
  BY <1>2, <1>3, <1>4
<1> QED
  BY <1>1, <1>3, <1>5, AttemptEndKeeps

LEMMA CrashKeeps == MediaInv /\ MediaCrash => MediaInv'
<1> SUFFICES ASSUME MediaInv, MediaCrash PROVE MediaInv'
  OBVIOUS
<1>1. MediaTypes'
  <2>1. upload' \in [Uploads -> UploadSteps]
    BY DEF MediaInv, MediaTypes, MediaCrash, UploadSteps
  <2>2. status' \in [MediaMessages -> Statuses]
    BY DEF MediaCrash, Statuses
  <2> QED
    BY <2>1, <2>2 DEF MediaInv, MediaTypes, MediaCrash, Resting
<1>2. FilesWhole'
  <2>1. \A u \in Uploads :
          upload'[u] = IF upload[u] \in {"copy", "close"} THEN "failed" ELSE upload[u]
    BY DEF MediaCrash
  <2>2. UNCHANGED <<file, released>>
    BY DEF MediaCrash
  <2>3. \A u \in Uploads :
          /\ upload'[u] \in {"stored", "close"} => upload'[u] = upload[u]
          /\ upload[u] = "stored" => upload'[u] = "stored"
    BY <2>1
  <2>4. /\ \A u \in Uploads :
             upload[u] = "stored" /\ u \notin released => file[u] = "whole"
        /\ \A u \in Uploads : upload[u] = "close" => file[u] = "whole"
        /\ \A u \in released : upload[u] = "stored"
    BY DEF MediaInv, FilesWhole, KnownIsWhole
  <2>5. released \subseteq Uploads
    BY DEF MediaInv, MediaTypes
  <2> QED
    BY <2>2, <2>3, <2>4, <2>5 DEF FilesWhole, KnownIsWhole
<1>3. PassedPosted' /\ AcknowledgedArrived'
  BY DEF MediaInv, MediaTypes, PassedPosted, AcknowledgedArrived, MediaCrash, Resting, PartsOf,
         NamedParts
<1> QED
  BY <1>1, <1>2, <1>3 DEF MediaInv

LEMMA MediaNextKeeps == MediaInv /\ [MediaNext]_mediaVars => MediaInv'
<1>1. MediaInv /\ UNCHANGED mediaVars => MediaInv'
  BY DEF MediaInv, MediaTypes, FilesWhole, KnownIsWhole, PassedPosted, AcknowledgedArrived,
         mediaVars, storeVars, PartsOf, NamedParts
<1> QED
  BY StoreKeeps, ReleaseKeeps, QueueKeeps, TakeMessageKeeps, PartKeeps, FailKeeps, FinishKeeps, CrashKeeps, <1>1
     DEF MediaNext, MediaClient, SenderStep

LEMMA MediaInvariant == MediaSpec => []MediaInv
BY MediaInitially, MediaNextKeeps, PTL DEF MediaSpec

(* The worker works on a queued message, and has posted in this attempt    *)
(* just the parts that are behind it.                                      *)
WorkerInOrder ==
  /\ sender.msg = NoMessage => sender = Resting
  /\ sender.msg # NoMessage => status[sender.msg] = "queued" /\ posted \subseteq PartsOf(sender.msg)
  /\ sender.attempt <= MediaRetries
  /\ crashes \in 0 .. MaxCrashes
  /\ PostedInOrder

LEMMA OrderInitially == MediaInit => WorkerInOrder
BY DEF MediaInit, WorkerInOrder, Resting, PostedInOrder

(* With nothing posted, a message that is begun is in order.               *)
LEMMA BeginsInOrder ==
  ASSUME MediaInv, WorkerInOrder, UNCHANGED crashes, posted' = {}, sender'.at = 1,
         sender'.msg \in MediaMessages \cup {NoMessage},
         sender'.msg # NoMessage => status'[sender'.msg] = "queued",
         sender'.msg = NoMessage => sender' = Resting,
         sender'.attempt \in 0 .. MediaRetries
  PROVE  WorkerInOrder'
<1>1. \A n \in MediaMessages : \A i \in PartsOf(n) : ~ i < 1
  BY PartsNat DEF PartsOf
<1>2. PostedInOrder'
  BY <1>1 DEF PostedInOrder, PartsOf, NamedParts
<1> QED
  BY <1>2 DEF WorkerInOrder

LEMMA RestsInOrder ==
  ASSUME MediaInv, WorkerInOrder, crashes' \in 0 .. MaxCrashes, sender' = Resting
  PROVE  WorkerInOrder'
BY DEF WorkerInOrder, Resting, PostedInOrder

LEMMA WorkerKeepsOrder ==
  ASSUME MediaInv, WorkerInOrder, NEW m \in MediaMessages,
         OpenPart(m) \/ NamePart(m) \/ PostPart(m)
  PROVE  WorkerInOrder'
<1>0. sender \in [msg : MediaMessages \cup {NoMessage}, pc : {"rest", "open", "post"},
                  at : Nat, attempt : Nat]
  BY DEF MediaInv, MediaTypes
<1>1. /\ m # NoMessage /\ sender.msg = m /\ UNCHANGED <<status, crashes>>
      /\ sender.at \in PartsOf(m) /\ sender.at \in Nat
  BY PartsNat DEF OpenPart, NamePart, PostPart, Sending, MediaInv, PassedPosted, PartsOf, NamedParts
<1>2. PICK pc \in {"open", "post"}, i \in Nat :
        /\ sender' = [sender EXCEPT !.pc = pc, !.at = i]
        /\ \/ i = sender.at /\ UNCHANGED posted
           \/ i = sender.at + 1 /\ UNCHANGED posted /\ sender.at \in NamedParts(m)
           \/ i = sender.at + 1 /\ posted' = posted \cup {sender.at}
  <2>1. CASE OpenPart(m)
    BY <1>1, <2>1 DEF OpenPart, SenderAt
  <2>2. CASE NamePart(m) \/ PostPart(m)
    <3> DEFINE next == sender.at + 1
    <3>1. next \in Nat /\ sender' = [sender EXCEPT !.pc = "open", !.at = next]
      BY <1>1, <2>2 DEF NamePart, PostPart, SenderAt
    <3>2. \/ UNCHANGED posted /\ sender.at \in NamedParts(m)
          \/ posted' = posted \cup {sender.at}
      BY <2>2 DEF NamePart, PostPart
    <3>3. next = sender.at + 1
      OBVIOUS
    <3> HIDE DEF next
    <3> QED
      BY <3>1, <3>2, <3>3
  <2> QED
    BY <2>1, <2>2
<1>3. sender'.msg = m /\ sender'.at = i /\ sender'.attempt = sender.attempt
  BY <1>0, <1>1, <1>2
<1>4. PostedInOrder'
  <2> SUFFICES ASSUME NEW k \in PartsOf(m) \ NamedParts(m)
               PROVE  k \in posted' <=> k < i
    BY <1>1, <1>3 DEF PostedInOrder, PartsOf, NamedParts
  <2>1. k \in Nat /\ (k \in posted <=> k < sender.at)
    BY <1>1, PartsNat DEF WorkerInOrder, PostedInOrder
  <2> QED
    BY <1>1, <1>2, <2>1
<1>5. posted' \subseteq PartsOf(m) /\ status'[m] = "queued"
  BY <1>1, <1>2 DEF WorkerInOrder
<1> QED
  BY <1>1, <1>3, <1>4, <1>5 DEF WorkerInOrder, PartsOf

LEMMA OrderKept == MediaInv /\ WorkerInOrder /\ [MediaNext]_mediaVars => WorkerInOrder'
<1> SUFFICES ASSUME MediaInv, WorkerInOrder, [MediaNext]_mediaVars PROVE WorkerInOrder'
  OBVIOUS
<1>0. /\ sender \in [msg : MediaMessages \cup {NoMessage}, pc : {"rest", "open", "post"},
                    at : Nat, attempt : Nat]
      /\ status \in [MediaMessages -> Statuses]
  BY DEF MediaInv, MediaTypes
<1>1. CASE UNCHANGED <<sender, status, posted, crashes>>
  BY <1>1 DEF WorkerInOrder, PostedInOrder, PartsOf, NamedParts
<1>2. ASSUME NEW m \in MediaMessages, QueueMedia(m) PROVE WorkerInOrder'
  <2>1. UNCHANGED <<sender, posted, crashes>> /\ status' = [status EXCEPT ![m] = "queued"]
    BY <1>2 DEF QueueMedia
  <2>2. sender.msg # NoMessage => status'[sender.msg] = "queued"
    BY <1>0, <2>1 DEF WorkerInOrder
  <2> QED
    BY <2>1, <2>2 DEF WorkerInOrder, PostedInOrder, PartsOf, NamedParts
<1>3. ASSUME NEW m \in MediaMessages, TakeMessage(m) PROVE WorkerInOrder'
  <2>1. /\ sender' = [msg |-> m, pc |-> "open", at |-> 1, attempt |-> 0] /\ posted' = {}
        /\ UNCHANGED <<status, crashes>> /\ status[m] = "queued"
    BY <1>3 DEF TakeMessage, Resting
  <2>2. sender'.msg = m /\ sender'.at = 1 /\ sender'.attempt = 0 /\ 0 \in 0 .. MediaRetries
    BY <2>1
  <2> QED
    BY <2>1, <2>2, BeginsInOrder
<1>4. ASSUME NEW m \in MediaMessages, PartFails(m) \/ GiveUpMedia(m) PROVE WorkerInOrder'
  <2>1. UNCHANGED crashes /\ posted' = {} /\ sender.msg = m
    BY <1>4 DEF PartFails, GiveUpMedia, Sending
  <2>2. CASE sender' = Resting
    BY <2>1, <2>2, RestsInOrder DEF WorkerInOrder
  <2>3. CASE sender' # Resting
    <3>1. /\ UNCHANGED status /\ sender.attempt < MediaRetries
          /\ sender' = [sender EXCEPT !.pc = "open", !.at = 1, !.attempt = sender.attempt + 1]
      BY <1>0, <1>4, <2>3 DEF PartFails, GiveUpMedia, Retry, SettleMedia
    <3>2. sender'.msg = m /\ sender'.at = 1 /\ sender'.attempt = sender.attempt + 1
      BY <1>0, <2>1, <3>1
    <3>3. sender'.attempt \in 0 .. MediaRetries /\ m # NoMessage /\ status[m] = "queued"
      BY <1>0, <2>1, <3>1, <3>2 DEF WorkerInOrder
    <3> QED
      BY <2>1, <3>1, <3>2, <3>3, BeginsInOrder
  <2> QED
    BY <2>2, <2>3
<1>5. CASE MediaCrash \/ \E m \in MediaMessages : FinishMedia(m)
  <2>1. sender' = Resting /\ crashes' \in 0 .. MaxCrashes
    BY <1>5 DEF MediaCrash, FinishMedia, SettleMedia, WorkerInOrder
  <2> QED
    BY <2>1, RestsInOrder
<1>6. CASE UNCHANGED mediaVars \/ \E u \in Uploads :
             CreateFile(u) \/ CopyContent(u) \/ StoreFails(u) \/ StoreReturns(u) \/ ReleaseMedia(u)
  <2>1. UNCHANGED <<sender, status, posted, crashes>>
    BY <1>6 DEF mediaVars, CreateFile, CopyContent, StoreFails, StoreReturns, ReleaseMedia, StoreStep
  <2> QED
    BY <1>1, <2>1
<1> QED
  BY <1>2, <1>3, <1>4, <1>5, <1>6, WorkerKeepsOrder DEF MediaNext, MediaClient, SenderStep

LEMMA MediaTyped == MediaInv /\ WorkerInOrder => MediaTypeOK
<1> SUFFICES ASSUME MediaInv, WorkerInOrder PROVE MediaTypeOK
  OBVIOUS
<1>1. sender \in [msg : MediaMessages \cup {NoMessage}, pc : {"rest", "open", "post"},
                  at : Nat, attempt : Nat]
  BY DEF MediaInv, MediaTypes
<1>2. sender.at \in Nat \ {0} /\ (sender.msg # NoMessage => sender.at <= Len(Parts[sender.msg]) + 1)
  <2>1. CASE sender.msg = NoMessage
    BY <2>1 DEF WorkerInOrder, Resting
  <2>2. CASE sender.msg # NoMessage
    <3>1. sender.msg \in MediaMessages /\ Len(Parts[sender.msg]) \in Nat
      BY <1>1, <2>2, PartsNat
    <3>2. sender.at \in 1 .. Len(Parts[sender.msg]) + 1
      BY <2>2 DEF MediaInv, PassedPosted
    <3> QED
      BY <3>1, <3>2
  <2> QED
    BY <2>1, <2>2
<1>3. sender.attempt \in 0 .. MediaRetries
  BY <1>1 DEF WorkerInOrder
<1>4. sender \in [msg : MediaMessages \cup {NoMessage}, pc : {"rest", "open", "post"},
                  at : Nat \ {0}, attempt : 0 .. MediaRetries]
  BY <1>1, <1>2, <1>3
<1> QED
  BY <1>2, <1>4 DEF MediaInv, MediaTypes, FilesWhole, PassedPosted, WorkerInOrder, MediaTypeOK

(* A reference returned by UploadMedia leads to the whole content until    *)
(* ReleaseMedia, whatever fails or crashes (Store, Release).               *)
THEOREM ReferenceIsWhole == MediaSpec => []KnownIsWhole
<1>1. MediaInv => KnownIsWhole
  BY DEF MediaInv, FilesWhole
<1> QED
  BY MediaInvariant, <1>1, PTL

(* An acknowledged media message is with the platform, all parts of it,    *)
(* however often it was tried again (sendMediaWithRetry, SendMedia).       *)
THEOREM AcknowledgedIsThere == MediaSpec => []AcknowledgedArrived
<1>1. MediaInv => AcknowledgedArrived
  BY DEF MediaInv
<1> QED
  BY MediaInvariant, <1>1, PTL

HIDE MediaAssumption
-----------------------------------------------------------------------------
(***************************************************************************)
(* The token bucket keeps a channel's rate, for any rate, burst and time.  *)
(* The promise is not inductive: what was sent and what the bucket holds   *)
(* have to be counted together.                                            *)
(***************************************************************************)
USE RateAssumption

\* What has been sent since the observer began and what the bucket holds is
\* covered by the burst and by what was earned up to the last look at it.
Balance ==
  /\ last < from => passed = 0
  /\ last >= from => passed * Unit + tokens <= Burst * Unit + (last - from) * Gain

RateInv == LimiterTypeOK /\ Balance

LEMMA BurstNat == Burst \in Nat \ {0} /\ Burst * Unit \in Nat /\ Unit <= Burst * Unit
BY DEF Burst

LEMMA Distributes ==
  ASSUME NEW a \in Int, NEW b \in Int, NEW g \in Int
  PROVE  (a + b) * g = a * g + b * g /\ a * g \in Int
OBVIOUS

LEMMA GrowsWithTime ==
  ASSUME NEW a \in Nat
  PROVE  a * Gain \in Nat
OBVIOUS

(* A look at the bucket adds what was earned, and no more than fits.       *)
LEMMA FilledBounds ==
  ASSUME LimiterTypeOK
  PROVE  /\ Filled \in 0 .. Burst * Unit
         /\ Filled <= tokens + (now - last) * Gain
<1> now - last \in Nat /\ tokens \in 0 .. Burst * Unit
  BY DEF LimiterTypeOK
<1> DEFINE earned == (now - last) * Gain
           full == Burst * Unit
<1>1. earned \in Nat /\ full \in Nat
  BY BurstNat, GrowsWithTime
<1>2. Filled = IF tokens + earned > full THEN full ELSE tokens + earned
  BY DEF Filled, Earned
<1> HIDE DEF earned, full
<1>3. tokens \in 0 .. full
  BY DEF full
<1>4. Filled \in 0 .. full /\ Filled <= tokens + earned
  BY <1>1, <1>2, <1>3
<1> QED BY <1>4 DEF earned, full

LEMMA LimiterInitially == LimiterInit => RateInv
<1> SUFFICES ASSUME LimiterInit PROVE RateInv
  OBVIOUS
<1>1. LimiterTypeOK
  BY BurstNat DEF LimiterInit, LimiterTypeOK
<1>2. Balance
  <2>1. passed * Unit = 0 /\ (last - from) * Gain \in Int
    BY DEF LimiterInit
  <2>2. last >= from => (last - from) * Gain = 0
    BY DEF LimiterInit
  <2> QED BY <2>1, <2>2, BurstNat DEF LimiterInit, Balance
<1> QED BY <1>1, <1>2 DEF RateInv

(* The account after a look at the bucket, before a token is taken.        *)
LEMMA FilledBalance ==
  ASSUME RateInv, now >= from
  PROVE  passed * Unit + Filled <= Burst * Unit + (now - from) * Gain
<1> DEFINE sent == passed * Unit
           full == Burst * Unit
           before == (last - from) * Gain
           since == (now - last) * Gain
           all == (now - from) * Gain
<1>1. /\ now \in Nat /\ last \in 0 .. now /\ from \in Nat
      /\ tokens \in 0 .. full /\ passed \in Nat
  BY DEF RateInv, LimiterTypeOK
<1>2. /\ sent \in Nat /\ full \in Nat /\ before \in Int /\ since \in Nat /\ all \in Nat
      /\ Filled \in 0 .. full /\ Filled <= tokens + since
  <2>1. now - last \in Nat /\ now - from \in Nat /\ last - from \in Int
    BY <1>1
  <2> QED BY <2>1, <1>1, BurstNat, GrowsWithTime, FilledBounds DEF RateInv
<1>3. before + since = all
  <2>1. /\ last - from \in Int /\ now - last \in Int
        /\ (last - from) + (now - last) = now - from
    BY <1>1
  <2> QED BY <2>1, Distributes
<1>4. last < from => sent = 0
  BY DEF RateInv, Balance
<1>5. last >= from => sent + tokens <= full + before
  BY DEF RateInv, Balance
<1> HIDE DEF sent, full, before, since, all
<1>6. sent + Filled <= full + all
  BY <1>1, <1>2, <1>3, <1>4, <1>5
<1> QED BY <1>6 DEF sent, full, all

LEMMA LimiterStep == RateInv /\ [LimiterNext]_limiterVars => RateInv'
<1> SUFFICES ASSUME RateInv, [LimiterNext]_limiterVars PROVE RateInv'
  OBVIOUS
<1> USE DEF RateInv
<1>0. Burst' = Burst
  BY DEF Burst
<1>1. CASE UNCHANGED limiterVars
  BY <1>0, <1>1 DEF limiterVars, LimiterTypeOK, Balance
<1>2. CASE Tick
  BY <1>0, <1>2 DEF Tick, LimiterTypeOK, Balance
<1>3. CASE Wait
  BY <1>0, <1>3 DEF Wait, LimiterTypeOK, Balance
<1>4. CASE TakeToken
  <2>1. Filled \in 0 .. Burst * Unit /\ Filled >= Unit /\ tokens' = Filled - Unit
    BY <1>4, FilledBounds DEF TakeToken
  <2>2. LimiterTypeOK'
    BY <1>0, <1>4, <2>1, BurstNat DEF TakeToken, LimiterTypeOK
  <2>3. ASSUME now >= from PROVE Balance'
    <3>1. (passed + 1) * Unit = passed * Unit + Unit
      BY DEF LimiterTypeOK
    <3>2. passed * Unit + Filled <= Burst * Unit + (now - from) * Gain
      BY <2>3, FilledBalance
    <3>3. passed * Unit \in Int /\ Filled \in Int /\ Burst * Unit \in Int
          /\ (now - from) * Gain \in Int
      BY <2>1, BurstNat DEF LimiterTypeOK
    <3>4. passed * Unit + Unit + (Filled - Unit) <= Burst * Unit + (now - from) * Gain
      BY <3>2, <3>3
    <3>5. passed' = passed + 1 /\ last' = now /\ from' = from
      BY <1>4, <2>3 DEF TakeToken
    <3>6. passed' * Unit + tokens' <= Burst' * Unit + (last' - from') * Gain
      BY <1>0, <2>1, <3>1, <3>4, <3>5
    <3> QED BY <2>3, <3>5, <3>6 DEF Balance, LimiterTypeOK
  <2>4. ASSUME now < from PROVE Balance'
    BY <1>4, <2>4 DEF TakeToken, Balance, LimiterTypeOK
  <2> QED BY <2>2, <2>3, <2>4 DEF LimiterTypeOK
<1>5. CASE Sleep
  <2>1. Filled \in 0 .. Burst * Unit /\ tokens' = Filled /\ last' = now /\ passed' = passed
        /\ from' = from
    BY <1>5, FilledBounds DEF Sleep
  <2>2. due' \in Nat
    <3>1. (Unit - Filled) \div Gain \in Nat
      BY <1>5, <2>1, BurstNat DEF Sleep
    <3> QED BY <1>5, <3>1 DEF Sleep, LimiterTypeOK
  <2>3. LimiterTypeOK'
    BY <1>0, <1>5, <2>1, <2>2 DEF Sleep, LimiterTypeOK
  <2>4. ASSUME now >= from PROVE Balance'
    BY <1>0, <2>1, <2>4, FilledBalance DEF Balance, LimiterTypeOK
  <2>5. ASSUME now < from PROVE Balance'
    BY <2>1, <2>5 DEF Balance, LimiterTypeOK
  <2> QED BY <2>3, <2>4, <2>5 DEF LimiterTypeOK
<1>6. CASE Wake
  BY <1>0, <1>6 DEF Wake, LimiterTypeOK, Balance
<1>7. CASE GiveUpWaiting
  BY <1>0, <1>7 DEF GiveUpWaiting, LimiterTypeOK, Balance
<1> QED BY <1>1, <1>2, <1>3, <1>4, <1>5, <1>6, <1>7 DEF LimiterNext

LEMMA BalanceKeepsRate == RateInv => RateKept
<1> SUFFICES ASSUME RateInv PROVE RateKept
  OBVIOUS
<1>1. ASSUME now < from PROVE passed = 0
  BY <1>1 DEF RateInv, Balance, LimiterTypeOK
<1>2. ASSUME now >= from PROVE passed * Unit <= Burst * Unit + (now - from) * Gain
  <2>1. passed * Unit + Filled <= Burst * Unit + (now - from) * Gain
    BY <1>2, FilledBalance
  <2>2. Filled \in Nat
    BY BurstNat, FilledBounds DEF RateInv
  <2>3. passed * Unit \in Int /\ Burst * Unit \in Int /\ (now - from) * Gain \in Int
    BY BurstNat DEF RateInv, LimiterTypeOK
  <2> QED BY <2>1, <2>2, <2>3
<1> QED BY <1>1, <1>2 DEF RateKept

(* For any rate and burst and at any time: however the worker waits, wakes *)
(* and gives up, the platform gets no more attempts of it since any        *)
(* instant than the burst and what was earned since (rateLimiter.wait).    *)
THEOREM RateIsKept == LimiterSpec => []RateKept
<1>1. LimiterSpec => []RateInv
  BY LimiterInitially, LimiterStep, PTL DEF LimiterSpec
<1> QED BY <1>1, BalanceKeepsRate, PTL

HIDE RateAssumption
-----------------------------------------------------------------------------
(***************************************************************************)
(* WeCom's token is accepted whenever a post may arrive, for any number of *)
(* callers, any lifetime of the token and any margin that covers the fetch *)
(* and the calls that are made with one token (TokenAssumption).           *)
(***************************************************************************)
USE TokenAssumption

\* A token leaves the cache early enough for all the calls made with it.
CacheInv == expire > 0 => expire + MaxCalls * Timeout <= cached

\* What caller c knows: its call is not older than the client's timeout, a
\* granted token is not older than the request, and the token in use
\* outlives the calls that are left.
CallerInv(c) ==
  /\ caller[c].pc # "rest" => clock \in caller[c].begun .. caller[c].begun + Timeout
  /\ caller[c].pc = "granted" => caller[c].token >= caller[c].begun + ExpiresIn
  /\ caller[c].pc = "posts" =>
       /\ caller[c].call \in 1 .. MaxCalls
       /\ caller[c].begun + (MaxCalls - caller[c].call + 1) * Timeout < caller[c].token

TokenInv == TokenTypeOK /\ CacheInv /\ \A c \in Callers : CallerInv(c)

LEMMA Times ==
  ASSUME NEW k \in Nat \ {0}
  PROVE  /\ k * Timeout \in Nat /\ k * Timeout >= Timeout
         /\ (k - 1) * Timeout = k * Timeout - Timeout
         /\ (k + 1) * Timeout = k * Timeout + Timeout
OBVIOUS

LEMMA CallerChanges ==
  ASSUME NEW r \in Caller, NEW t \in Nat, NEW k \in Nat
  PROVE  /\ [r EXCEPT !.pc = "granted", !.token = t] \in Caller
         /\ [r EXCEPT !.call = k, !.begun = t] \in Caller
BY DEF Caller

LEMMA TokenInitially == TokenInit => TokenInv
BY DEF TokenInit, TokenInv, TokenTypeOK, CacheInv, CallerInv, Caller, Idle

(* A token that lasts for all calls may be handed out to anybody.          *)
LEMMA HandedOut ==
  ASSUME TokenInv, NEW c \in Callers, NEW token \in Nat,
         HandOut(c, token), clock + MaxCalls * Timeout < token, clock' = clock
  PROVE  caller' \in [Callers -> Caller] /\ \A d \in Callers : CallerInv(d)'
<1> DEFINE first == [pc |-> "posts", begun |-> clock, token |-> token, call |-> 1]
<1>1. /\ clock \in Nat /\ caller \in [Callers -> Caller]
      /\ MaxCalls * Timeout \in Nat /\ (MaxCalls - 1 + 1) * Timeout = MaxCalls * Timeout
  BY Times DEF TokenInv, TokenTypeOK
<1>2. first \in Caller /\ Idle \in Caller
  BY <1>1 DEF Caller, Idle
<1>3. /\ caller' \in [Callers -> Caller]
      /\ \A d \in Callers \ {c} : caller'[d] = caller[d]
      /\ caller'[c] = first \/ caller'[c] = Idle
  BY <1>1, <1>2 DEF HandOut
<1>4. \A d \in Callers \ {c} : CallerInv(d)'
  BY <1>3 DEF TokenInv, CallerInv
<1>5. CallerInv(c)'
  BY <1>1, <1>3 DEF CallerInv, Idle
<1> QED BY <1>3, <1>4, <1>5

LEMMA CallerStepKeeps ==
  ASSUME TokenInv, NEW c \in Callers, CallerStep(c)
  PROVE  TokenInv'
<1>0. /\ clock \in Nat /\ clock <= MaxTime /\ cached \in Nat /\ expire \in Int
      /\ caller \in [Callers -> Caller] /\ caller[c] \in Caller
      /\ caller[c].begun \in Nat /\ caller[c].token \in Nat /\ caller[c].call \in Nat
      /\ MaxCalls * Timeout \in Nat
      /\ (MaxCalls + 1) * Timeout = MaxCalls * Timeout + Timeout
  BY Times DEF TokenInv, TokenTypeOK, Caller
<1>1. CASE UseCached(c)
  <2>1. clock + MaxCalls * Timeout < cached
    BY <1>0, <1>1 DEF UseCached, TokenInv, CacheInv
  <2>2. HandOut(c, cached) /\ UNCHANGED <<clock, cached, expire>>
    BY <1>1 DEF UseCached
  <2>3. caller' \in [Callers -> Caller] /\ \A d \in Callers : CallerInv(d)'
    BY <1>0, <2>1, <2>2, HandedOut
  <2> QED BY <2>2, <2>3 DEF TokenInv, TokenTypeOK, CacheInv
<1>2. CASE Fetch(c)
  <2>1. caller'[c] = [pc |-> "asks", begun |-> clock, token |-> 0, call |-> 0]
    BY <1>0, <1>2 DEF Fetch, Idle, Caller
  <2>2. caller' \in [Callers -> Caller] /\ \A d \in Callers \ {c} : caller'[d] = caller[d]
    BY <1>0, <1>2 DEF Fetch, Idle, Caller
  <2>3. UNCHANGED <<clock, cached, expire>>
    BY <1>2 DEF Fetch
  <2>4. \A d \in Callers \ {c} : CallerInv(d)'
    BY <2>2, <2>3 DEF TokenInv, CallerInv
  <2>5. CallerInv(c)'
    BY <1>0, <2>1, <2>3 DEF CallerInv
  <2> QED BY <2>2, <2>3, <2>4, <2>5 DEF TokenInv, TokenTypeOK, CacheInv
<1>3. CASE Grant(c)
  <2>1. caller'[c] = [caller[c] EXCEPT !.pc = "granted", !.token = clock + ExpiresIn]
    BY <1>0, <1>3 DEF Grant, Caller
  <2>2. caller' \in [Callers -> Caller] /\ \A d \in Callers \ {c} : caller'[d] = caller[d]
    <3>1. caller' = [caller EXCEPT ![c] = [caller[c] EXCEPT !.pc = "granted",
                                                            !.token = clock + ExpiresIn]]
      BY <1>3 DEF Grant
    <3>2. [caller[c] EXCEPT !.pc = "granted", !.token = clock + ExpiresIn] \in Caller
      <4>1. clock + ExpiresIn \in Nat
        BY <1>0
      <4> QED BY <1>0, <4>1, CallerChanges, Zenon
    <3> QED BY <1>0, <3>1, <3>2
  <2>3. UNCHANGED <<clock, cached, expire>>
    BY <1>3 DEF Grant
  <2>4. \A d \in Callers \ {c} : CallerInv(d)'
    BY <2>2, <2>3 DEF TokenInv, CallerInv
  <2>5. clock \in caller[c].begun .. caller[c].begun + Timeout
    BY <1>3 DEF Grant, TokenInv, CallerInv
  <2>6. /\ caller'[c].pc = "granted" /\ caller'[c].begun = caller[c].begun
        /\ caller'[c].token = clock + ExpiresIn
    BY <1>0, <2>1 DEF Caller
  <2>7. CallerInv(c)'
    BY <1>0, <2>3, <2>5, <2>6 DEF CallerInv
  <2> QED BY <2>2, <2>3, <2>4, <2>7 DEF TokenInv, TokenTypeOK, CacheInv
<1>4. CASE StoreToken(c)
  <2>1. /\ clock \in caller[c].begun .. caller[c].begun + Timeout
        /\ caller[c].token >= caller[c].begun + ExpiresIn
    BY <1>4 DEF StoreToken, TokenInv, CallerInv
  <2>2. /\ HandOut(c, caller[c].token) /\ clock' = clock
        /\ cached' = caller[c].token /\ expire' = clock + ExpiresIn - Margin
    BY <1>4 DEF StoreToken
  <2>3. clock + MaxCalls * Timeout < caller[c].token
    BY <1>0, <2>1
  <2>4. caller' \in [Callers -> Caller] /\ \A d \in Callers : CallerInv(d)'
    BY <1>0, <2>2, <2>3, HandedOut
  <2>5. CacheInv'
    BY <1>0, <2>1, <2>2 DEF CacheInv
  <2> QED BY <1>0, <2>2, <2>4, <2>5 DEF TokenInv, TokenTypeOK
<1>5. CASE NextCall(c)
  <2>1. caller'[c] = [caller[c] EXCEPT !.call = caller[c].call + 1, !.begun = clock]
    BY <1>0, <1>5 DEF NextCall, Caller
  <2>2. caller' \in [Callers -> Caller] /\ \A d \in Callers \ {c} : caller'[d] = caller[d]
    <3>1. caller' = [caller EXCEPT ![c] = [caller[c] EXCEPT !.call = caller[c].call + 1, !.begun = clock]]
      BY <1>5 DEF NextCall
    <3>2. [caller[c] EXCEPT !.call = caller[c].call + 1, !.begun = clock] \in Caller
      <4>1. caller[c].call + 1 \in Nat
        BY <1>0
      <4> QED BY <1>0, <4>1, CallerChanges, Zenon
    <3> QED BY <1>0, <3>1, <3>2
  <2>3. UNCHANGED <<clock, cached, expire>>
    BY <1>5 DEF NextCall
  <2>4. \A d \in Callers \ {c} : CallerInv(d)'
    BY <2>2, <2>3 DEF TokenInv, CallerInv
  <2> DEFINE left == MaxCalls - caller[c].call + 1
  <2>5. /\ clock \in caller[c].begun .. caller[c].begun + Timeout
        /\ caller[c].call \in 1 .. MaxCalls /\ caller[c].call < MaxCalls
        /\ caller[c].begun + left * Timeout < caller[c].token
    BY <1>5 DEF NextCall, TokenInv, CallerInv
  <2>6. left \in Nat \ {0} /\ MaxCalls - (caller[c].call + 1) + 1 = left - 1
    BY <2>5
  <2>7. left * Timeout \in Nat /\ (left - 1) * Timeout = left * Timeout - Timeout
    BY <2>6, Times
  <2> HIDE DEF left
  <2>8. clock + (left - 1) * Timeout < caller[c].token
    BY <1>0, <2>5, <2>7
  <2>9. /\ caller'[c].pc = "posts" /\ caller'[c].begun = clock
        /\ caller'[c].token = caller[c].token /\ caller'[c].call = caller[c].call + 1
    BY <1>0, <1>5, <2>1 DEF NextCall, Caller
  <2>10. CallerInv(c)'
    BY <1>0, <2>3, <2>5, <2>6, <2>8, <2>9 DEF CallerInv
  <2> QED BY <2>2, <2>3, <2>4, <2>10 DEF TokenInv, TokenTypeOK, CacheInv
<1>6. CASE EndCalls(c)
  <2>1. caller' \in [Callers -> Caller] /\ caller'[c] = Idle
        /\ \A d \in Callers \ {c} : caller'[d] = caller[d]
    BY <1>0, <1>6 DEF EndCalls, Idle, Caller
  <2>2. UNCHANGED <<clock, cached, expire>>
    BY <1>6 DEF EndCalls
  <2>3. \A d \in Callers : CallerInv(d)'
    BY <2>1, <2>2 DEF TokenInv, CallerInv, Idle
  <2> QED BY <2>1, <2>2, <2>3 DEF TokenInv, TokenTypeOK, CacheInv
<1> QED BY <1>1, <1>2, <1>3, <1>4, <1>5, <1>6 DEF CallerStep

(* Time passes only as long as no call has reached its timeout.            *)
LEMMA ElapseKeeps == TokenInv /\ Elapse => TokenInv'
<1> SUFFICES ASSUME TokenInv, Elapse PROVE TokenInv'
  OBVIOUS
<1>1. clock \in Nat /\ clock' = clock + 1 /\ clock' \in 0 .. MaxTime
      /\ UNCHANGED <<cached, expire, caller>>
  BY DEF Elapse, TokenInv, TokenTypeOK
<1>2. ASSUME NEW c \in Callers PROVE CallerInv(c)'
  <2>1. caller[c].begun \in Nat
    BY DEF TokenInv, TokenTypeOK, Caller
  <2>2. CallerInv(c) /\ (caller[c].pc # "rest" => clock < caller[c].begun + Timeout)
    BY DEF TokenInv, Elapse
  <2> QED BY <1>1, <2>1, <2>2 DEF CallerInv
<1> QED BY <1>1, <1>2 DEF TokenInv, TokenTypeOK, CacheInv

LEMMA TokenStep == TokenInv /\ [TokenNext]_tokenVars => TokenInv'
<1> SUFFICES ASSUME TokenInv, [TokenNext]_tokenVars PROVE TokenInv'
  OBVIOUS
<1>1. CASE UNCHANGED tokenVars
  BY <1>1 DEF tokenVars, TokenInv, TokenTypeOK, CacheInv, CallerInv
<1>2. CASE Elapse
  BY <1>2, ElapseKeeps
<1>3. ASSUME NEW c \in Callers, CallerStep(c) PROVE TokenInv'
  BY <1>3, CallerStepKeeps
<1> QED BY <1>1, <1>2, <1>3 DEF TokenNext

LEMMA OutlivesCall == TokenInv => TokenAccepted
<1> SUFFICES ASSUME TokenInv, NEW c \in Workers, caller[c].pc = "posts"
             PROVE  clock < caller[c].token
  BY DEF TokenAccepted
<1> DEFINE left == MaxCalls - caller[c].call + 1
<1>1. /\ c \in Callers /\ clock \in Nat
      /\ caller[c].begun \in Nat /\ caller[c].token \in Nat
  BY DEF TokenInv, TokenTypeOK, Caller, Callers
<1>2. /\ clock \in caller[c].begun .. caller[c].begun + Timeout
      /\ caller[c].call \in 1 .. MaxCalls
      /\ caller[c].begun + left * Timeout < caller[c].token
  BY <1>1 DEF TokenInv, CallerInv
<1>3. left \in Nat \ {0}
  BY <1>2
<1>4. left * Timeout \in Nat /\ left * Timeout >= Timeout
  BY <1>3, Times
<1> HIDE DEF left
<1> QED BY <1>1, <1>2, <1>4

(* For any callers and times: a post of a WeCom application reaches the    *)
(* platform with a token that it accepts, as long as the margin of         *)
(* getToken covers the fetch and the calls made with one token.            *)
THEOREM TokensAreAccepted == TokenSpec => []TokenAccepted
<1>1. TokenSpec => []TokenInv
  BY TokenInitially, TokenStep, PTL DEF TokenSpec
<1> QED BY <1>1, OutlivesCall, PTL
=============================================================================
