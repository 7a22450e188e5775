\* Two threads on one engine; m3 is a module of the library.
CONSTANTS
  Threads = {t1, t2}
  Modules = {m1, m2, m3}
  Std = {m3}
  Programs <- AllPrograms
SPECIFICATION FairSpec
INVARIANTS BodiesExclusive MarksOwned CacheComplete PublishedOnce LoadsAsDefined
PROPERTIES ImportsEnd
\* A program ends when its import statements are done.
CHECK_DEADLOCK FALSE
