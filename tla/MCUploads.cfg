\* Two requests at a time on two uploads into two repositories.
CONSTANTS
  c1 = c1
  c2 = c2
  u1 = u1
  u2 = u2
  x = x
  y = y
  Clients <- Two
  Uuids <- Names
  Repositories <- Both
  Bodies <- Contents
  NoUuid = NoUuid
  NoRepository = NoRepository
  NoBody = NoBody
  NoHasher = NoHasher
  NoFile = NoFile
  MaxRequests = 8
  MaxFaults = 2
  MaxRestarts = 1
SPECIFICATION Spec
SYMMETRY Symmetry
INVARIANTS FileIsHashed BlobsAreWhole
\* Nothing is left to do once the requests are served.
CHECK_DEADLOCK FALSE
