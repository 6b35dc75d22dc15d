----------------------------- MODULE TokenCache ------------------------------
(***************************************************************************)
(* The access token of WeCom's applications.  getToken hands out the       *)
(* cached token or fetches one without the lock, so that the worker, the   *)
(* refresher and the health probe may fetch at once and store their        *)
(* answers in any order.  A message that is posted with a token that has   *)
(* expired is lost: postJSON does not look at what the platform answers.   *)
(*                                                                         *)
(* The platform is external: it accepts a token up to ExpiresIn after it   *)
(* granted it, and is heard a while later.  Between two calls the code     *)
(* takes no time.                                                          *)
(***************************************************************************)
EXTENDS Integers

CONSTANTS
  Workers,    \* those that post with the token
  Refreshers, \* those that only fetch one: refreshTokenLoop, Probe
  ExpiresIn,  \* the platform's expires_in
  Margin,     \* 60 seconds
  Timeout,    \* of the HTTP client: 15 seconds
  MaxCalls,   \* the calls made with one token: two for each part of a message
  MaxTime     \* bound: of the clock

Callers == Workers \cup Refreshers

ASSUME TokenAssumption ==
  /\ Workers \cap Refreshers = {}
  /\ ExpiresIn \in Nat /\ Margin \in Nat /\ Timeout \in Nat \ {0}
  /\ MaxCalls \in Nat \ {0} /\ MaxTime \in Nat
  /\ (MaxCalls + 1) * Timeout <= Margin
  /\ (MaxCalls + 1) * Timeout < ExpiresIn

VARIABLES
  clock,  \* the time
  cached, \* accessToken: when the platform ceases to accept it
  expire, \* tokenExpire
  caller  \* where each caller is, since when, with which token, in which call

tokenVars == <<clock, cached, expire, caller>>
-----------------------------------------------------------------------------
Caller == [pc : {"rest", "asks", "granted", "posts"}, begun : Nat, token : Nat, call : Nat]
Idle == [pc |-> "rest", begun |-> 0, token |-> 0, call |-> 0]

\* An empty token is one that is never handed out.
TokenInit ==
  /\ clock = 0 /\ cached = 0 /\ expire = 0
  /\ caller = [c \in Callers |-> Idle]

\* A call that takes longer is given up.
Elapse ==
  /\ clock < MaxTime
  /\ \A c \in Callers : caller[c].pc # "rest" => clock < caller[c].begun + Timeout
  /\ clock' = clock + 1
  /\ UNCHANGED <<cached, expire, caller>>

\* Who wanted nothing but a token is done with it.
HandOut(c, token) ==
  caller' = [caller EXCEPT ![c] =
               IF c \in Workers
               THEN [pc |-> "posts", begun |-> clock, token |-> token, call |-> 1]
               ELSE Idle]

UseCached(c) ==
  /\ caller[c].pc = "rest" /\ clock < expire
  /\ HandOut(c, cached)
  /\ UNCHANGED <<clock, cached, expire>>

Fetch(c) ==
  /\ caller[c].pc = "rest" /\ clock >= expire
  /\ caller' = [caller EXCEPT ![c] = [Idle EXCEPT !.pc = "asks", !.begun = clock]]
  /\ UNCHANGED <<clock, cached, expire>>

Grant(c) ==
  /\ caller[c].pc = "asks"
  /\ caller' = [caller EXCEPT ![c] = [@ EXCEPT !.pc = "granted", !.token = clock + ExpiresIn]]
  /\ UNCHANGED <<clock, cached, expire>>

\* Mutant: the token is kept for as long as the platform says.
StoreTokenInFull(c) ==
  /\ caller[c].pc = "granted"
  /\ cached' = caller[c].token /\ expire' = clock + ExpiresIn
  /\ HandOut(c, caller[c].token)
  /\ UNCHANGED clock

\* The time is counted from here, not from when the token was granted.
StoreToken(c) ==
  /\ caller[c].pc = "granted"
  /\ cached' = caller[c].token /\ expire' = clock + ExpiresIn - Margin
  /\ HandOut(c, caller[c].token)
  /\ UNCHANGED clock

\* SendMedia uploads and posts one part after another with one token.
NextCall(c) ==
  /\ caller[c].pc = "posts" /\ caller[c].call < MaxCalls
  /\ caller' = [caller EXCEPT ![c] = [@ EXCEPT !.call = caller[c].call + 1, !.begun = clock]]
  /\ UNCHANGED <<clock, cached, expire>>

\* The last call was answered, or one of them failed.
EndCalls(c) ==
  /\ caller[c].pc # "rest"
  /\ caller' = [caller EXCEPT ![c] = Idle]
  /\ UNCHANGED <<clock, cached, expire>>

CallerStep(c) ==
  UseCached(c) \/ Fetch(c) \/ Grant(c) \/ StoreToken(c) \/ NextCall(c) \/ EndCalls(c)

TokenNext == Elapse \/ \E c \in Callers : CallerStep(c)

TokenSpec == TokenInit /\ [][TokenNext]_tokenVars
-----------------------------------------------------------------------------
(* What must hold.                                                         *)

(* Every variable keeps its type.                                          *)
TokenTypeOK ==
  /\ clock \in 0 .. MaxTime /\ cached \in Nat /\ expire \in Int
  /\ caller \in [Callers -> Caller]

(* Whenever a post may reach the platform its token is still accepted,     *)
(* although the fetches of several callers overtake each other and the     *)
(* cache counts from the answer: the margin covers the fetch and each call *)
(* that follows (one part; the fourth call could be too late).             *)
TokenAccepted ==
  \A c \in Workers : caller[c].pc = "posts" => clock < caller[c].token
=============================================================================
