\* PostgreSQL, a small channel, one crash, one store error, one client gone.
SPECIFICATION Spec
CONSTANTS
  Tasks = {t1}
  NoTask = NoTask
  Streams = {s1}
  Execs = {e1, e2}
  Capacity = 2
  Durable = TRUE
  MaxProgress = 1
  MaxFaults = 1
  MaxCancels = 1
  MaxCrashes = 1
SYMMETRY Symmetry
INVARIANTS
  TypeOK
  AnswerIsLogged
PROPERTIES
  Feed
\* AgentRuntime rests when every call has returned and nobody calls.
CHECK_DEADLOCK FALSE
