\* Everything scheduled goes on, every expiry passes.
SPECIFICATION FairSpec
CONSTANTS
  Id = {i1, i2, i3}
  Port = {n1, n2}
  None = None
  Acquirer = {a1}
  Deleter = {}
  Worker = {}
  Loop = Loop
  TargetPoolSize = 1
  MaxPoolSize = 2
  ContainerMode = "docker"
  Failure = {"sick"}
  MaxFailures = 1

PROPERTIES AssignedEventuallyRemoved EmptyEventuallyRefilled
