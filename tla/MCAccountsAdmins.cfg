SPECIFICATION TwoAdminsSpec
CONSTANTS
  u1 = u1
  u2 = u2
  a = a
  b = b
  NoUser = NoUser
  Users <- MCUsers
  Requests <- MCRequests
  MaxStarts = 4
SYMMETRY Symmetry
PROPERTY LastAdminStays
CHECK_DEADLOCK FALSE
