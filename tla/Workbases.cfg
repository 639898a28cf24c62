SPECIFICATION Spec
CONSTANTS
  u1 = u1  u2 = u2
  Users = {u1}
  NoUser = NoUser
  MaxBases = 3
  MaxTime = 2
  MaxHeight = 1
  MaxShares = 2
  NetDiff <- MCNetDiff
  Diffs = {2, 3}
  MinDiff = 1
  Modes = {"pool", "solo"}
INVARIANTS HeldAlive UserwbKept  TipSolved
PROPERTY DupeOnlyOvertaken
CHECK_DEADLOCK FALSE
