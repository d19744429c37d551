\* Two clients extend, nobody deletes.
SPECIFICATION Spec
CONSTANTS
  Extender = {e1, e2}
  Deleter = {}
  Loop = Loop
  None = None
  DefaultTTL = 1
  MaxTTL = 4
  Extension = {1}
  MaxClock = 4
SYMMETRY Symmetry
INVARIANT ExtensionHonoured
