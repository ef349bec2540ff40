SPECIFICATION Spec
CONSTANTS
  Users = {alice, bob}
  Listings = {w1}
  SkillSets <- SkillSetsOfTwo
  Languages = {"english"}
  Edits <- Edited
  PageSize = 2
  MaxCommits = 4
  MaxFaults = 1
  alice = alice
  bob = bob
  w1 = w1
CHECK_DEADLOCK FALSE
INVARIANTS TypeOK IndexFollows RecommendsStrangers
PROPERTIES VerifiedReachesSearch
