SPECIFICATION Spec
CONSTANTS
  u1 = u1
  u2 = u2
  a = a
  b = b
  NoUser = NoUser
  Users <- MCUsers
  Requests <- MCRequests
  MaxStarts = 4
SYMMETRY Symmetry
INVARIANT ChangesRevoke
CHECK_DEADLOCK FALSE
