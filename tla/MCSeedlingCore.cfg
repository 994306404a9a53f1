\* Updates of a core seedling through three versions; one failure.
CONSTANTS
  a = a
  b = b
  Seedlings <- OnlyA
  Core <- OnlyA
  Secrets <- None
  Flaky <- OnlyA
  Hopeless <- None
  Ailing <- OnlyA
  Operators = {o1}
  Requests = {"reconcile"}
  Watchdog = watchdog
  Listing <- ListA
  MaxVersion = 3
  MaxFailCount = 1
  MaxRequests = 3
  MaxFaults = 1
SPECIFICATION FairSpec
INVARIANT ContainerNotAhead
PROPERTY StaysUp
\* Nothing is left to do once the requests are served.
CHECK_DEADLOCK FALSE
