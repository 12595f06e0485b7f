CONSTANTS
  sys = sys
  leaf = leaf
  Nodes = {sys, leaf}
  Lineage <- TwoLevels
  Existing = {sys}
  OldNames = {}
  Procs = {p1, p2}
  Readers = {}
  MaxOps = 2
  Updates = {FALSE}
  Modes = {"Default"}
  Faults = {}
SPECIFICATION Spec
PROPERTIES
  NoUnexpectedOverwrite
CHECK_DEADLOCK FALSE
