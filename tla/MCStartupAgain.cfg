CONSTANTS
  f1 = f1  f2 = f2  i1 = i1  Nil = Nil
  Worker = {f1, i1}
  NameOf <- MCNameOf
  ServiceOf <- MCServiceOf
  Slot = {1}
  RegistryCap = 3
  DaemonsFirst = TRUE
  MaxDpaStarts = 2
  MaxSent = 0
SPECIFICATION RestartSpec
INVARIANT Reachable
CHECK_DEADLOCK FALSE
