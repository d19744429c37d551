\* The client of an acquire request goes away.
SPECIFICATION Spec
CONSTANTS
  Id = {i1, i2, i3}
  Port = {n1, n2}
  None = None
  Acquirer = {a1}
  Deleter = {}
  Worker = {}
  Loop = Loop
  TargetPoolSize = 1
  MaxPoolSize = 2
  ContainerMode = "docker"
  Failure = {"cancel"}
  MaxFailures = 1
SYMMETRY Symmetry
INVARIANT NoZombie
