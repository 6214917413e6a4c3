\* Three alerts to a notifier, two attempts each: the deliveries retry, exhaust
\* their attempts and are cancelled in every interleaving.  The ring holds one
\* row; two inserts fail or the machine restarts twice.
CONSTANTS
  Notifiers = {n1}
  AttemptsArg = 2
  MaxAlerts = 3
  MaxEntriesArg = 1
  Configured = TRUE
  MaxFaults = 2
SPECIFICATION SpecDLQ
INVARIANTS TypeOK OneFate LossesAccounted
PROPERTIES DispatchReturns
CHECK_DEADLOCK FALSE
