\* PostgreSQL, a wall-time limit, one crash and one store error, lost commit reply or broken RPC.
SPECIFICATION Spec
CONSTANTS
  Tasks = {t1}
  NoTask = NoTask
  NeedsApproval = {}
  HasDeadline = {t1}
  MaxAttempts <- Unlimited
  Durable = TRUE
  Callers = {c1}
  Execs = {e1, e2}
  Boot = Boot
  NoExec = NoExec
  MaxResumes = 0
  MaxCrashes = 1
  MaxFaults = 1
SYMMETRY Symmetry
INVARIANTS
  FinishPostsOnce
PROPERTIES
  CancelledIsFrozen
\* The gate rests when every task is settled and no request comes.
CHECK_DEADLOCK FALSE
