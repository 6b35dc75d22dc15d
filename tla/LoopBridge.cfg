\* PostgreSQL, runs of up to three steps, clients, a store error and a break.
SPECIFICATION FairSpec
CONSTANTS
  Runs = {r1}
  NoRun = NoRun
  MaxSteps = 3
  Limit = 1
  Iterations = {0, 2}
  Durable = TRUE
  MaxEvents = 3
  MaxCalls = 4
  MaxFaults = 1
  MaxBreaks = 1
INVARIANTS
  TypeOK
  StepsTellRun
  BridgeSettles
PROPERTIES
  SettledStays
  
\* LoopCore rests when every message is handled and nobody calls.
CHECK_DEADLOCK FALSE
