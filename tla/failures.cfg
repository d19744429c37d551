\* Any command may fail, applied or not, next to every other failure.
SPECIFICATION Spec
CONSTANTS
  Id = {i1, i2}
  Port = {n1, n2}
  None = None
  Acquirer = {a1, a2}
  Deleter = {}
  Worker = {}
  Loop = Loop
  TargetPoolSize = 2
  MaxPoolSize = 2
  ContainerMode = "podman"
  Failure = {"lost", "cancel", "sick", "slow", "restart"}
  MaxFailures = 1
SYMMETRY Symmetry
INVARIANTS TypeOK NoDoubleAssignment
