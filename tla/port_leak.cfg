\* A provisioning pass runs out of its 30 seconds.
SPECIFICATION Spec
CONSTANTS
  Id = {i1, i2, i3}
  Port = {n1, n2}
  None = None
  Acquirer = {a1}
  Deleter = {}
  Worker = {}
  Loop = Loop
  TargetPoolSize = 1
  MaxPoolSize = 2
  ContainerMode = "docker"
  Failure = {"cancel"}
  MaxFailures = 1
SYMMETRY Symmetry
PROPERTY FailedProvisionReturnsPort
