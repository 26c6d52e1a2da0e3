CONSTANTS
  Proc = {p1, p2}
  Desc = {d1, d2}
  Capacity = 3
  Nil = Nil
SPECIFICATION FairSpec
INVARIANT TypeOK
PROPERTIES ImplementsFifo CallsReturn
