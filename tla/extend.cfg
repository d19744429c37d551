\* Two clients extend while the clean-up and a DELETE remove.
SPECIFICATION Spec
CONSTANTS
  Extender = {e1, e2}
  Deleter = {d1}
  Loop = Loop
  None = None
  DefaultTTL = 1
  MaxTTL = 3
  Extension = {1, 2}
  MaxClock = 3
SYMMETRY Symmetry
INVARIANTS LimitKept ShownNeverLater
