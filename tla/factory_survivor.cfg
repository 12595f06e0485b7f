CONSTANTS
  sys = sys
  leaf = leaf
  app = app
  Nodes = {sys, leaf, app}
  Lineage <- Branches
  Existing = {sys}
  OldNames = {}
  Procs = {p1, p2}
  Readers = {}
  MaxOps = 2
  Updates = {FALSE}
  Modes = {"Legacy"}
  Faults = {}
  Top = sys
SPECIFICATION TreeSpec
INVARIANTS
  ParentFirst
  TreeIsComplete
PROPERTIES
  TreeFailsForAReason
  Survivor
CHECK_DEADLOCK FALSE
