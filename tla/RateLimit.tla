------------------------------ MODULE RateLimit ------------------------------
(***************************************************************************)
(* The token bucket between a channel's worker and its platform.  Every    *)
(* attempt, retries and the pieces of a split text included, waits for a   *)
(* token first.  A tick is the clock's resolution; tokens are counted in   *)
(* fractions of which a tick earns Gain and a token has Unit, so that the  *)
(* rate is Gain \div Unit per tick.  (The code's fractions are float64.)   *)
(***************************************************************************)
EXTENDS Integers

CONSTANTS
  Unit,            \* the fractions of a token
  Gain,            \* the fractions that a tick earns
  ConfiguredBurst, \* the channel's burst, perhaps not set
  Instants         \* bound: when the observer begins, and the end of time

ASSUME RateAssumption ==
  /\ Unit \in Nat \ {0} /\ Gain \in Nat \ {0}
  /\ ConfiguredBurst \in Int /\ Instants \subseteq Nat

VARIABLES
  now,     \* the clock
  tokens,  \* rateLimiter.tokens, in fractions
  last,    \* rateLimiter.last
  waiter,  \* the worker: elsewhere, in wait, or asleep there
  due,     \* when its timer fires
  from,    \* history: the instant at which an observer begins to count
  passed   \* history: the attempts it has counted

limiterVars == <<now, tokens, last, waiter, due, from, passed>>
-----------------------------------------------------------------------------
Burst == IF ConfiguredBurst <= 0 THEN 16 ELSE ConfiguredBurst

LimiterInit ==
  /\ now = 0 /\ last = 0 /\ tokens = Burst * Unit
  /\ waiter = "elsewhere" /\ due = 0
  /\ from \in Instants /\ passed = 0

Earned == tokens + (now - last) * Gain

\* Mutant: a limiter that rested holds more than its burst.
FilledWithoutEnd == Earned

Filled == IF Earned > Burst * Unit THEN Burst * Unit ELSE Earned

Tick ==
  /\ now + 1 \in Instants
  /\ now' = now + 1
  /\ UNCHANGED <<tokens, last, waiter, due, from, passed>>

\* The worker is about to send.
Wait ==
  /\ waiter = "elsewhere"
  /\ waiter' = "wait"
  /\ UNCHANGED <<now, tokens, last, due, from, passed>>

TakeToken ==
  /\ waiter = "wait" /\ Filled >= Unit
  /\ tokens' = Filled - Unit /\ last' = now
  /\ waiter' = "elsewhere"
  /\ passed' = IF now >= from THEN passed + 1 ELSE passed
  /\ UNCHANGED <<now, due, from>>

\* Mutant: what was earned is kept, but so is the time in which it was.
SleepForgetful ==
  /\ waiter = "wait" /\ Filled < Unit
  /\ tokens' = Filled
  /\ waiter' = "asleep"
  /\ due' = now + (Unit - Filled) \div Gain
  /\ UNCHANGED <<now, last, from, passed>>

\* What was earned so far is kept.  The timer may fire within the tick
\* before the one that earns the rest.
Sleep ==
  /\ waiter = "wait" /\ Filled < Unit
  /\ tokens' = Filled /\ last' = now
  /\ waiter' = "asleep"
  /\ due' = now + (Unit - Filled) \div Gain
  /\ UNCHANGED <<now, from, passed>>

Wake ==
  /\ waiter = "asleep" /\ now >= due
  /\ waiter' = "wait"
  /\ UNCHANGED <<now, tokens, last, due, from, passed>>

\* The context is done: the message is cancelled, and no token is taken.
GiveUpWaiting ==
  /\ waiter = "asleep"
  /\ waiter' = "elsewhere"
  /\ UNCHANGED <<now, tokens, last, due, from, passed>>

LimiterNext == Tick \/ Wait \/ TakeToken \/ Sleep \/ Wake \/ GiveUpWaiting

LimiterSpec == LimiterInit /\ [][LimiterNext]_limiterVars
-----------------------------------------------------------------------------
(* What must hold.                                                         *)

(* Every variable keeps its type.                                          *)
LimiterTypeOK ==
  /\ now \in Nat /\ last \in 0 .. now /\ tokens \in 0 .. Burst * Unit
  /\ waiter \in {"elsewhere", "wait", "asleep"}
  /\ due \in Nat /\ from \in Instants /\ passed \in Nat

(* However the worker waits, wakes and gives up: from any instant on, the  *)
(* platform gets no more attempts of it than the burst and what the time   *)
(* since then has earned.                                                  *)
RateKept ==
  /\ now < from => passed = 0
  /\ now >= from => passed * Unit <= Burst * Unit + (now - from) * Gain
=============================================================================
