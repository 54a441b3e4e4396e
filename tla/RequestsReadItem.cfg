SPECIFICATION Spec
CONSTANTS
  orgA = orgA
  orgB = orgB
  none = none
  u1 = u1
  u2 = u2
  uB = uB
  uX = uX
  p = p
  pB = pB
  pX = pX
  i = i
  iB = iB
  iX = iX
  a = a
  aB = aB
  aX = aX
  c = c
  cB = cB
  cX = cX
  l = l
  lB = lB
  lX = lX
  g = g
  n = n
  nB = nB
  nX = nX
  vB = vB
  v = v
  vX = vX
  vP = vP
  k1 = k1
  k2 = k2
  Requests <- MCRequestIds
  Things <- MCThings
  Kind <- MCKind
  Org <- MCOrg
  Parent <- MCParent
  Of <- MCOf
  Absent <- MCAbsent
  Users <- MCUsers
  Starts <- MCStarts
  Faults = FALSE
SYMMETRY Sym
CHECK_DEADLOCK FALSE
INVARIANT ItemsCanBeRead
