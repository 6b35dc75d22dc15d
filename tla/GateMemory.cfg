\* The in-memory build, one resume, one failed delivery.
SPECIFICATION Spec
CONSTANTS
  Tasks = {t1}
  NoTask = NoTask
  NeedsApproval = {}
  HasDeadline = {}
  MaxAttempts <- Unlimited
  Durable = FALSE
  Callers = {c1}
  Execs = {e1, e2}
  Boot = Boot
  NoExec = NoExec
  MaxResumes = 1
  MaxCrashes = 0
  MaxFaults = 1
SYMMETRY Symmetry
INVARIANTS
  RepliesFollowFinish
\* The gate rests when every task is settled and no request comes.
CHECK_DEADLOCK FALSE
