\* Three threads of execution on a channel, unbuffered or of capacity one, with
\* the fairness of the Go scheduler.
CONSTANTS
  Procs = {p1, p2, p3}
  Caps = {0, 1}
  MaxSends = 2
  Nobody = nobody
SPECIFICATION FairSpec
INVARIANTS NoLostWakeup Conservation OneFate
PROPERTIES CloseReleasesAll ImplementsContract
\* A program may leave all its threads of execution parked: that is a stop.
CHECK_DEADLOCK FALSE
