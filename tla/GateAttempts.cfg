\* PostgreSQL: racing resumes roll the attempt counter back.
SPECIFICATION Spec
CONSTANTS
  Tasks = {t1}
  NoTask = NoTask
  NeedsApproval = {}
  HasDeadline = {}
  MaxAttempts <- TwoAttempts
  Durable = TRUE
  Callers = {c1, c2}
  Execs = {e1, e2, e3}
  Boot = Boot
  NoExec = NoExec
  MaxResumes = 2
  MaxCrashes = 0
  MaxFaults = 0
SYMMETRY Symmetry
INVARIANTS
  WithinMaxAttempts
\* The gate rests when every task is settled and no request comes.
CHECK_DEADLOCK FALSE
