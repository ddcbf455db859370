CONSTANTS
  N = 3
  Unable = {1}
  Refusing = {}
  NoHours = {}
  Sleepers = {2}
  Due = 6
  MaxCalls = 1
  MaxCuts = 1
SPECIFICATION Spec
PROPERTY EventuallyTested
