\* A contact with one alias and two report slots; two invitations and a live key.
SPECIFICATION AnySpec
CONSTANTS
  d1 = d1
  a1 = a1
  j1 = j1
  j2 = j2
  MaxZone = 2
  MaxLive = 1
  MaxFaults = 2
INVARIANTS
  KeysReached
  NoneStranded
PROPERTIES
  MoonHeals
CHECK_DEADLOCK FALSE
