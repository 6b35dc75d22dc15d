\* Memory store, one execution, room for its events, fair scheduling.
SPECIFICATION FairSpec
CONSTANTS
  Tasks = {t1}
  NoTask = NoTask
  Streams = {s1, s2}
  Execs = {e1}
  Capacity = 4
  Durable = FALSE
  MaxProgress = 1
  MaxFaults = 0
  MaxCancels = 1
  MaxCrashes = 0
INVARIANTS
  Gapless
PROPERTIES
  NobodyHangs
\* AgentRuntime rests when every call has returned and nobody calls.
CHECK_DEADLOCK FALSE
