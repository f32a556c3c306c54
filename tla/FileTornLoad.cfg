SPECIFICATION Spec
CONSTANTS
  Client = {c1, c2}
  Update = {u1, u2}
  MaxVersion = 3
  MaxFiles = 3
  MaxDamaged = 0
  MayCrash = FALSE
  MayTimeOut = FALSE
PROPERTY StaleWriterRejected
