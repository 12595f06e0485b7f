CONSTANTS
  sys = sys
  leaf = leaf
  Nodes = {sys, leaf}
  Lineage <- TwoLevels
  Existing = {sys}
  OldNames = {sys}
  Procs = {p1, p2}
  Readers = {r}
  MaxOps = 2
  Updates = {TRUE, FALSE}
  Modes = {"Default", "Legacy"}
  Faults = {"crash", "io"}
SPECIFICATION Spec
INVARIANTS
  TypeOK
  StatusComesLast
  ScanHasAdmin
PROPERTIES
  BrokenForever
CHECK_DEADLOCK FALSE
