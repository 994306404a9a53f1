\* Two tasks at a time on one seedling with secrets.
CONSTANTS
  t1 = t1
  t2 = t2
  Tasks <- TwoTasks
  MaxIds = 4
  MaxRequests = 3
  MaxFaults = 2
SPECIFICATION Spec
SYMMETRY Symmetry
INVARIANTS TypeOK FilesAreAccepted
PROPERTIES NothingIsLeft CredentialsInMemory
\* Nothing is left to do once the requests are served.
CHECK_DEADLOCK FALSE
