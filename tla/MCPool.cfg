CONSTANTS
  Thread = {t1, t2}
  Cursor = {t1, t2}
  CursorOf <- MCOwn
  NumSlots = 2
  Data = {d1, d2}
  Junk = Junk
  Nil = Nil
SPECIFICATION Spec
INVARIANTS TypeOK ExclusiveSlots ReadsBack
