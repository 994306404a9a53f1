CONSTANTS
  Services <- TwoServices
  Pids = {1, 2, 3, 4, 5}
  MaxElapsed = 1
  StartupGrace = 2
  RestartWindow = 4
  KickTimeout = 2
  MaxMissedHeartbeats = 1
  MaxFailedRestarts = 0
  MaxKickFailures = 1
  CounterMax = 3
  MaxFaults = 2
  MaxMisreads = 1
  MaxRestarts = 1
SPECIFICATION FairSpec
INVARIANTS TypeOK MarkedOnDisk NoHastyKick
PROPERTIES Heals MarkerCleared
