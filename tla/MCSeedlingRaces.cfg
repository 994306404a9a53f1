\* Two operators and the watchdog on one seedling that never gets healthy.
CONSTANTS
  a = a
  b = b
  Seedlings <- OnlyA
  Core <- None
  Secrets <- None
  Flaky <- None
  Hopeless <- OnlyA
  Ailing <- None
  Operators = {o1, o2}
  Requests = {"new", "push", "start", "drop"}
  Watchdog = watchdog
  Listing <- ListA
  MaxVersion = 1
  MaxFailCount = 1
  MaxRequests = 3
  MaxFaults = 1
SPECIFICATION FairSpec
PROPERTY GivesUp
\* Nothing is left to do once the requests are served.
CHECK_DEADLOCK FALSE
