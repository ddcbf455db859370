CONSTANTS
  Datasets = {1, 2}
  NameOf <- MCNameOf
  ReservedNames = {"global", "homes", "printers"}
  Users = {"ana", "root2"}
  Foreign = {"root2"}
  Clients = {"lan", "star"}
  BadClients = {"star"}
  Calls = {c1, c2}
  Wishes <- MCWishes
  Tables <- MCTables
  Fallible = TRUE
  MaxChanges = 2
  MaxFaults = 1
  MaxMoves = 2
  MaxActs = 3
SPECIFICATION Spec
INVARIANTS ConfIsSafe RowsHaveDatasets
PROPERTIES NeverOlder AckedIsServed ForeignIsSafe
SYMMETRY CallSymmetry
CHECK_DEADLOCK FALSE
