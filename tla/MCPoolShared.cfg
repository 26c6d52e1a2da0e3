CONSTANTS
  Thread = {t1, t2}
  Cursor = {c1}
  CursorOf <- MCShared
  NumSlots = 2
  Data = {d1}
  Junk = Junk
  Nil = Nil
SPECIFICATION Spec
INVARIANT ReadsBack
