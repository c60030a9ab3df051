SPECIFICATION ServicesSpec
CONSTANTS
  u1 = u1
  u2 = u2
  a = a
  b = b
  p1 = p1
  s1 = s1
  s2 = s2
  p2 = p2
  NoUser = NoUser
  Users <- MCUsers
  Requests <- MCRequests
  MaxStarts = 4
  Processes <- MCProcesses
  Visits <- MCRequests
  Subjects <- MCSubjects
  Paths = {"auth", "verify", "ai", "write", "upload", "protective"}
  Own <- MCOwn
  Total <- MCTotal
  MaxBodies = 1
  MinutesPerDay = 2
  MaxNow = 1
SYMMETRY AllSymmetry
INVARIANTS
  RevocationComplete
  SlotsCounted
  QuotaKept
  WorkIsPaid
PROPERTY GoneStaysGone
CHECK_DEADLOCK FALSE
