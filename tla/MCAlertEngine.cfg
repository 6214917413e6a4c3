\* Two alerts and a window of two ticks in a time of two: a key is suppressed,
\* pruned and raised again.  One notifier with one attempt: retries are the
\* matter of MCDispatcher.
CONSTANTS
  r1 = r1
  r2 = r2
  s1 = s1
  Rules = {r1, r2}
  Sources = {s1}
  Matches <- MCMatches
  Window = 2
  MaxTime = 2
  Notifiers = {n1}
  AttemptsArg = 1
  MaxAlerts = 2
SPECIFICATION Spec
INVARIANTS TypeOK AlertsSpaced SuppressedByAlert
PROPERTIES AlertsSettle EngineStops
CHECK_DEADLOCK FALSE
