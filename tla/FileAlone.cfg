CONSTANTS
  Processes = {p1}
  Ids = {i1, i2}
  Hashes = {h1}
  Labels = {l1, l2, l3}
  Numbers = {n1, n2}
  Passwords = {w1, w2}
  None = None
  MaxCommit = 6
SPECIFICATION Spec
SYMMETRY FileSymmetry
INVARIANT KeychainInv
INVARIANT EverySecretOpens
PROPERTY DiskAdvances
