CONSTANTS
  Disks = {os, d1, d2}
  OsDisk = os
  Pools = {"tank", "data"}
  Carried <- MCCarried
  Reqs = {1, 2}
  SlowResilver = TRUE
SPECIFICATION Spec
INVARIANTS MembersKept NoHiddenLabel
