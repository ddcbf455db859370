CONSTANTS
  Order <- MCOrder
  Optional = {"passdb.tdb"}
  Passdb = "passdb.tdb"
  Runners = {"tick"}
  Keep = 1
  OneAtATime = TRUE
  Rounds = 2
  MaxFaults = 1
  MaxRestores = 2
SPECIFICATION Spec
INVARIANTS DirIsWhole SomeWhole
PROPERTIES RestoredIsBackup BackedUp ServicesReturn
CHECK_DEADLOCK FALSE
