CONSTANTS
  sys = sys
  leaf = leaf
  Nodes = {sys, leaf}
  Lineage <- TwoLevels
  Existing = {sys}
  OldNames = {}
  Procs = {p1}
  Readers = {r}
  MaxOps = 3
  Updates = {TRUE, FALSE}
  Modes = {"Default"}
  Faults = {"crash", "io"}
SPECIFICATION Spec
INVARIANTS
  ScanIsConsistent
PROPERTIES
  IdentityKept
  ImplementsLifecycle
CHECK_DEADLOCK FALSE
