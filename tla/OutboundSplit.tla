---------------------------- MODULE OutboundSplit ----------------------------
(***************************************************************************)
(* splitOutbound: a text too long for its platform is cut into pieces, at  *)
(* a blank if there is one in the right place.  A text is known by the     *)
(* class of each of its characters; a piece is the stretch of the text it  *)
(* holds.  One action per iteration of the loop.                           *)
(***************************************************************************)
EXTENDS Integers

CONSTANTS
  MaxLength, \* bound: length of the texts
  Limits     \* maxMessageLength of the platforms, 0 for none

ASSUME SplitAssumption == MaxLength \in Nat /\ Limits \subseteq Nat

VARIABLES
  length,     \* how many characters the text has
  characters, \* the class of each
  limit,      \* maxLength
  start,      \* the first character of runes, of what is still to be cut
  pieces      \* chunks

textVars == <<length, characters, limit>>
splitVars == <<textVars, start, pieces>>
-----------------------------------------------------------------------------
\* The code cuts behind a space, tab or newline ("blank"), and leaves out a
\* carriage return as well at the start of what remains.
Classes == {"letter", "blank", "return"}

\* The repository refuses a text that TrimSpace leaves empty.
SplitInit ==
  /\ length \in 1 .. MaxLength
  /\ characters \in [1 .. length -> Classes]
  /\ \E i \in 1 .. length : characters[i] = "letter"
  /\ limit \in Limits /\ start = 1 /\ pieces = {}

Fits == limit = 0 \/ length <= limit

KeepWhole ==
  /\ start = 1 /\ Fits
  /\ pieces' = {[from |-> 1, to |-> length]}
  /\ start' = length + 1
  /\ UNCHANGED textVars

\* Where a piece that may reach to "last" can be cut: behind a blank, unless
\* that would leave a quarter of the limit unused or less.
Breaks(last) ==
  {i \in start .. last : characters[i] = "blank" /\ last - i >= limit \div 4}

EndsAt(end) ==
  LET last == start + limit - 1 IN
  IF last >= length THEN end = length
  ELSE IF Breaks(last) = {} THEN end = last
  ELSE end \in Breaks(last) /\ \A i \in Breaks(last) : i <= end

\* Mutant: the character behind a piece is taken for the blank of the cut.
SkipsOne(end, next) == next = IF end < length THEN end + 2 ELSE end + 1

\* What remains begins with a letter.
Skips(end, next) ==
  /\ \A i \in end + 1 .. next - 1 : characters[i] # "letter"
  /\ next <= length => characters[next] = "letter"

Cut ==
  /\ start <= length /\ ~Fits
  /\ \E end \in start .. length :
       /\ EndsAt(end)
       /\ pieces' = pieces \cup {[from |-> start, to |-> end]}
       /\ \E next \in end + 1 .. length + 1 : Skips(end, next) /\ start' = next
  /\ UNCHANGED textVars

SplitNext == KeepWhole \/ Cut

SplitSpec == SplitInit /\ [][SplitNext]_splitVars
-----------------------------------------------------------------------------
(* What must hold.                                                         *)

(* Every variable keeps its type.                                          *)
SplitTypeOK ==
  /\ length \in 1 .. MaxLength /\ characters \in [1 .. length -> Classes]
  /\ limit \in Limits /\ start \in 1 .. length + 1
  /\ pieces \subseteq [from : 1 .. length, to : 1 .. length]

(* What the platform gets is the text: no letter is left out between two   *)
(* pieces or sent in both, and no piece is longer than the platform takes, *)
(* or blank, which it would refuse (only the first may be: it is not       *)
(* trimmed).                                                               *)
TextKept ==
  /\ \A i \in 1 .. start - 1 :
       characters[i] = "letter" => \E p \in pieces : p.from <= i /\ i <= p.to
  /\ \A p, q \in pieces : p = q \/ p.to < q.from \/ q.to < p.from
  /\ \A p \in pieces :
       /\ p.from <= p.to /\ p.to < start
       /\ limit > 0 => p.to - p.from < limit
       /\ p.from > 1 => characters[p.from] = "letter"
=============================================================================
