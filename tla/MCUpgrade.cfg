CONSTANTS
  Versions = {1, 2, 3, 4}
  Format <- NewFormat
  StopOrder <- TwoServices
  Bract = "bract"
  Pids = {1, 2, 3}
  RetainedCount = 2
  Polls = 1
  AnyTarget = FALSE
  Hosts = {TRUE, FALSE}
  MaxCommands <- TwoIfSlow
  MaxFaults = 1
  MaxCrashes = 1
SPECIFICATION Spec
INVARIANTS TypeOK PreviousKept RefusedOnlyIfTorn SettledIsStarted OneVersionUnlessSlow
PROPERTIES FailureUndone
CHECK_DEADLOCK FALSE
