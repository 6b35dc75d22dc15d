\* PostgreSQL: a late timeout fails a final task, which is then resumed.
SPECIFICATION Spec
CONSTANTS
  Tasks = {t1}
  NoTask = NoTask
  NeedsApproval = {}
  HasDeadline = {t1}
  MaxAttempts <- Unlimited
  Durable = TRUE
  Callers = {c1}
  Execs = {e1, e2}
  Boot = Boot
  NoExec = NoExec
  MaxResumes = 1
  MaxCrashes = 0
  MaxFaults = 0
SYMMETRY Symmetry
INVARIANTS
  FinalIsForever
\* The gate rests when every task is settled and no request comes.
CHECK_DEADLOCK FALSE
