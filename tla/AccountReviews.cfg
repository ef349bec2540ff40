SPECIFICATION Spec
CONSTANTS
  Emails = {alice, root}
  Staff = {root}
  Names = {n1}
  Calls = {c1, c2}
  MaxBlocks = 1
  alice = alice
  root = root
  n1 = n1
  c1 = c1
  c2 = c2
SYMMETRY Interchangeable
CHECK_DEADLOCK FALSE
INVARIANTS TypeOK AccountSettled EventsTellAccount RoutesAreEarned BloomCoversNames
PROPERTIES SignedIsCurrent
