\* The in-memory build: progress written over a cancellation.
SPECIFICATION Spec
CONSTANTS
  Tasks = {t1}
  NoTask = NoTask
  NeedsApproval = {}
  HasDeadline = {}
  MaxAttempts <- Unlimited
  Durable = FALSE
  Callers = {c1}
  Execs = {e1}
  Boot = Boot
  NoExec = NoExec
  MaxResumes = 0
  MaxCrashes = 0
  MaxFaults = 0
SYMMETRY Symmetry
PROPERTIES
  NotReopened
\* The gate rests when every task is settled and no request comes.
CHECK_DEADLOCK FALSE
