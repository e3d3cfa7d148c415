SPECIFICATION DeadLetterSpec
CONSTANTS
  Connection = {c1, c2}
  Letter = {l1}
  MaxLetters = 1
  MaxTrouble = 1
INVARIANT NoLockBetweenCalls
CHECK_DEADLOCK FALSE
