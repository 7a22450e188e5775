\* Two host threads on one engine, two goroutines, every way of spawning.
CONSTANTS
  Execs = {e1, e2}
  Tasks = {t1, t2}
  Ways = {"direct", "callback", "module"}
  Unread = unread
SPECIFICATION FairSpec
INVARIANTS ErrorsOnce WaitIsComplete DrainIsLossless
PROPERTIES WaitEnds
\* The host threads end after the drain.
CHECK_DEADLOCK FALSE
