CONSTANTS
  c1 = c1
  c2 = c2
  t1 = t1
  t2 = t2
  s1 = s1
  s2 = s2
  Clients <- MCClients
  Threads <- MCThreads
  Strings <- MCStrings
  Free = Free
  Default = Default
  Period = 2
  MaxTime = 4
  Loudest = 2
  MaxSets = 3
  MaxRestarts = 1
  MaxWork = 4
  Resources = {}
SPECIFICATION Spec
SYMMETRY MCSymmetry
INVARIANT TypeOK
INVARIANT TablesAgree
INVARIANT ObjectsOwnEachOther
INVARIANT HostViewSettles
INVARIANT NamesBalanced
INVARIANT HeldInsideCalls
INVARIANT CountIsClients
INVARIANT StampsOnLine
INVARIANT StampsCurrent
CHECK_DEADLOCK FALSE
