CONSTANTS
  Processes = {p1, p2}
  Ids = {i1, i2}
  Hashes = {}
  Labels = {l1, l2}
  Numbers = {n1}
  Passwords = {w1, w2}
  None = None
  MaxCommit = 5
SPECIFICATION Spec
SYMMETRY FileSymmetry
INVARIANT FileInv
PROPERTY DiskAdvances
INVARIANT RefsWhileAlone
