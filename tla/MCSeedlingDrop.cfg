\* One operator and the watchdog on a seedling with an agent; one failure.
CONSTANTS
  a = a
  b = b
  Seedlings <- OnlyA
  Core <- None
  Secrets <- OnlyA
  Flaky <- OnlyA
  Hopeless <- None
  Ailing <- OnlyA
  Operators = {o1}
  Requests = {"new", "push", "start", "stop", "drop"}
  Watchdog = watchdog
  Listing <- ListA
  MaxVersion = 1
  MaxFailCount = 1
  MaxRequests = 5
  MaxFaults = 1
SPECIFICATION Spec
INVARIANTS TypeOK DropLeavesNothing
\* Nothing is left to do once the requests are served.
CHECK_DEADLOCK FALSE
