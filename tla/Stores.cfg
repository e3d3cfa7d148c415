SPECIFICATION MCSpec
CONSTANTS
  Writer = {w1, w2}
  MaxChanges = 2
  MaxFaults = 1
  u1 = u1
  u2 = u2
  u3 = u3
  s1 = s1
  s2 = s2
  User = {u1, u2, u3}
  Store = {s1, s2}
  StoreOf <- MCStoreOf
  Key = {k1}
  MaxClock = 1
  MaxOps = 2
  MaxLosses = 1
  Connection = {c1, c2}
  Letter = {l1, l2}
  MaxLetters = 3
  MaxTrouble = 2
  RecordId = {r1, r2, r3}
  MaxRecords = 5
INVARIANTS
  StoresTypeOK
  TargetSafe
  ToldNewOnce
  StoredUntilRemoved
PROPERTIES
  LettersKept
SYMMETRY Interchangeable
CHECK_DEADLOCK FALSE
