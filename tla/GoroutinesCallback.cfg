\* Goroutines spawned inside a function passed to map or filter.
CONSTANTS
  Execs = {e1}
  Tasks = {t1, t2}
  Ways = {"callback"}
  Unread = unread
SPECIFICATION Spec
INVARIANTS AllFailuresCaptured
\* The host thread ends after the drain.
CHECK_DEADLOCK FALSE
