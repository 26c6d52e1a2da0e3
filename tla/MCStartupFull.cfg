CONSTANTS
  f1 = f1  f2 = f2  i1 = i1  Nil = Nil
  Worker = {f1, f2, i1}
  NameOf <- MCNameOf
  ServiceOf <- MCServiceOf
  Slot = {1}
  RegistryCap = 2
  DaemonsFirst = TRUE
  MaxDpaStarts = 1
  MaxSent = 0
SPECIFICATION Spec
INVARIANT Reachable
CHECK_DEADLOCK FALSE
