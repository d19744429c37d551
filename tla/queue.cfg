\* Two workers per consumer; the process is stopped once and something goes wrong once.
SPECIFICATION LifeFairSpec
CONSTANTS
  Provision = {p1}
  Cleanup = {c1}
  ProvisionWorker = {w1, w2}
  CleanupWorker = {v1, v2}
  None = None
  MaxDeliver = 3
  MaxFailures = 1
  MaxStops = 1
INVARIANTS LifecycleTypeOK SettledWhenDone PortFreedLast NothingForgotten ClosedWhenQuiet
PROPERTIES EveryTaskTried ShutdownEnds
