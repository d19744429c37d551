\* A request and a queue worker against the replenisher; one container may never become healthy.
SPECIFICATION Spec
CONSTANTS
  Id = {i1, i2, i3, i4}
  Port = {n1, n2, n3}
  None = None
  Acquirer = {a1}
  Deleter = {}
  Worker = {w1}
  Loop = Loop
  TargetPoolSize = 1
  MaxPoolSize = 2
  ContainerMode = "podman-criu"
  Failure = {"sick"}
  MaxFailures = 1
SYMMETRY Symmetry
INVARIANTS PortExclusive NoPortLeak NoZombie
