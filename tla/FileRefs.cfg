CONSTANTS
  Processes = {p1, p2}
  Ids = {i1, i2}
  Hashes = {}
  Labels = {l1, l2}
  Numbers = {n1}
  Passwords = {w1}
  None = None
  MaxCommit = 3
SPECIFICATION Spec
SYMMETRY FileSymmetry
INVARIANT RefFailsLoudly
