\* PostgreSQL, one crash, approval required, fair scheduling: no symmetry, it is unsound for liveness.
SPECIFICATION FairSpec
CONSTANTS
  Tasks = {t1}
  NoTask = NoTask
  NeedsApproval = {t1}
  HasDeadline = {}
  MaxAttempts <- Unlimited
  Durable = TRUE
  Callers = {c1}
  Execs = {e1, e2}
  Boot = Boot
  NoExec = NoExec
  MaxResumes = 0
  MaxCrashes = 1
  MaxFaults = 0
INVARIANTS
  
  NoOrphan
  CancelReaches

  
  
\* The gate rests when every task is settled and no request comes.
CHECK_DEADLOCK FALSE
