SPECIFICATION FairSpec
CONSTANTS
  Client = {c1, c2}
  Update = {u1, u2}
  NoOwner = NoOwner
  MaxVersion = 3
  MaxFiles = 3
  MaxDamaged = 1
  MayCrash = TRUE
  MayTimeOut = TRUE
  FailAt = {"mirror"}
INVARIANT MirrorsShowOnlyCommitted
PROPERTIES ImplementsStateBackend CallsReturn
