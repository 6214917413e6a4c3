\* The instance of MCDispatcher.cfg; one cancellation during a pause suffices.
CONSTANTS
  Notifiers = {n1, n2}
  AttemptsArg = 2
  MaxAlerts = 2
  MaxEntriesArg = 2
  Configured = TRUE
  MaxFaults = 0
SPECIFICATION SpecDLQ
INVARIANTS ReturnedMeansSettled
CHECK_DEADLOCK FALSE
