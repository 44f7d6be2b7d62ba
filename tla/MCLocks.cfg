CONSTANTS
  Threads = {t1, t2}
  Workers = {w1, w2}
  MaxNested = 1
SPECIFICATION Spec
SYMMETRY LockSymmetry
INVARIANTS MutualExclusion OutsideUnlocked NoWaitCycle
