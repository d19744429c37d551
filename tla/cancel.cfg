\* Contexts end at any point and the process may die: everything stops half way.
SPECIFICATION Spec
CONSTANTS
  Id = {i1, i2}
  Port = {n1, n2}
  None = None
  Acquirer = {a1}
  Deleter = {d1}
  Worker = {}
  Loop = Loop
  TargetPoolSize = 2
  MaxPoolSize = 2
  ContainerMode = "docker"
  Failure = {"cancel", "restart"}
  MaxFailures = 1
SYMMETRY Symmetry
INVARIANTS ReadyInstancesServe RouteIsolation
PROPERTY ImplementsContract
