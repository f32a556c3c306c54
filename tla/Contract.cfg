SPECIFICATION MemSpec
CONSTANTS
  Client = {c1, c2}
  Update = {u1, u2, u3}
  MaxVersion = 4
SYMMETRY Symmetry
INVARIANTS IndexShowsOnlyCommitted IndexFollows
PROPERTY NoLostUpdate
