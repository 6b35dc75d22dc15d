------------------------------ MODULE EventFeed ------------------------------
(***************************************************************************)
(* What AgentRuntime promises the readers of a task's events: one growing  *)
(* log per task and streams that show parts of it in order.  A stream may  *)
(* skip events (the code drops them when its channel is full and when a    *)
(* later one overtook them), but it never shows an event twice, out of     *)
(* order, before the log has it, or at a place where the log has another.  *)
(***************************************************************************)
EXTENDS Naturals, Sequences

CONSTANTS Tasks, NoTask, Streams

VARIABLES log,      \* log[t]: the states of t's events, in sequence order
          reads,    \* reads[s]: the task s was opened for
          shown,    \* shown[s]: the events s has delivered
          ended     \* streams the server closed without an error

feedVars == <<log, reads, shown, ended>>

States   == {"running", "progress", "final", "failed"}
Terminal == {"final", "failed"}
Event    == [seq : Nat \ {0}, state : States]

Newest(events) == events[Len(events)]

FeedInit ==
  /\ log = [t \in Tasks |-> <<>>]
  /\ reads = [s \in Streams |-> NoTask]
  /\ shown = [s \in Streams |-> <<>>]
  /\ ended = {}

Record(t, state) ==
  /\ log' = [log EXCEPT ![t] = Append(@, state)]
  /\ UNCHANGED <<reads, shown, ended>>

Open(s, t) ==
  /\ reads[s] = NoTask
  /\ reads' = [reads EXCEPT ![s] = t]
  /\ UNCHANGED <<log, shown, ended>>

Show(s, i) ==
  /\ s \notin ended
  /\ shown[s] # <<>> => Newest(shown[s]).seq < i
  /\ shown[s] # <<>> => Newest(shown[s]).state \notin Terminal
  /\ shown' = [shown EXCEPT ![s] =
                 Append(@, [seq |-> i, state |-> log[reads[s]][i]])]
  /\ UNCHANGED <<log, reads, ended>>

End(s) ==
  /\ shown[s] # <<>>
  /\ Newest(shown[s]).state \in Terminal
  /\ ended' = ended \cup {s}
  /\ UNCHANGED <<log, reads, shown>>

FeedNext ==
  \/ \E t \in Tasks, state \in States : Record(t, state)
  \/ \E s \in Streams :
       \/ \E t \in Tasks : Open(s, t)
       \/ reads[s] # NoTask /\ \E i \in DOMAIN log[reads[s]] : Show(s, i)
       \/ End(s)

FeedSpec == FeedInit /\ [][FeedNext]_feedVars
=============================================================================
