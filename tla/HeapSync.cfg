SPECIFICATION FairSpec
INVARIANTS LockedFresh RevisionsExact DirtyQueued OneVolatileOwner
PROPERTY Pulled
CHECK_DEADLOCK FALSE
CONSTANTS
  Thread = {t1, t2}
  MaxWrite = 2
  MaxPush = 2
