SPECIFICATION Spec
CONSTANTS
  d1 = d1
  d2 = d2
  c1 = c1
  c2 = c2
  c3 = c3
  Dispatches = {d1, d2}
  Commits = {c1, c2, c3}
  Releasable = {c1, c2}
  Reviewed = {c1, c3}
  MaxEdits = 1
  MaxMoves = 1
  MaxReruns = 1
  MaxDeletes = 1
SYMMETRY MCSymmetry
INVARIANTS
  PublicIsRight
  OneRelease
CHECK_DEADLOCK FALSE
