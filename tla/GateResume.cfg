\* PostgreSQL, two racing callers, one resume, approval required.
SPECIFICATION Spec
CONSTANTS
  Tasks = {t1}
  NoTask = NoTask
  NeedsApproval = {t1}
  HasDeadline = {}
  MaxAttempts <- Unlimited
  Durable = TRUE
  Callers = {c1, c2}
  Execs = {e1, e2}
  Boot = Boot
  NoExec = NoExec
  MaxResumes = 1
  MaxCrashes = 0
  MaxFaults = 0
SYMMETRY Symmetry
INVARIANTS
  TypeOK
  AuditChain
  FinalIsDelivered
PROPERTIES
  Lifecycle
  NotReopened
\* The gate rests when every task is settled and no request comes.
CHECK_DEADLOCK FALSE
