SPECIFICATION FairSpec
CONSTANTS
  Client = {c1, c2}
  Update = {u1, u2}
  MaxVersion = 3
  MaxFiles = 3
  MaxDamaged = 1
  MayCrash = TRUE
  MayTimeOut = TRUE
INVARIANTS WritersExclude AckedIsCheckpointed EventSequenceOrdered OwnStateIsCurrent
PROPERTY CallsReturn
