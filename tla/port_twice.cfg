\* A DELETE and the clean-up release the same instance.
SPECIFICATION Spec
CONSTANTS
  Id = {i1, i2, i3}
  Port = {n1, n2}
  None = None
  Acquirer = {a1}
  Deleter = {d1}
  Worker = {}
  Loop = Loop
  TargetPoolSize = 1
  MaxPoolSize = 2
  ContainerMode = "docker"
  Failure = {}
  MaxFailures = 0
SYMMETRY Symmetry
INVARIANT PortAllocatedOnce
