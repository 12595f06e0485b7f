CONSTANTS
  Height = 3
  Kind = "capability"
  Keys = {1}
  Modes = {"none"}
  Vals = {0, 1}
  Null = null
  Privates = {}
  MaxLen = 2
  Configs <- Lists
SPECIFICATION CapaSpec
INVARIANTS
  TypeOK
  AssumedOrder
  NoEscalation
  AgreesWithMatrix
  RefusesAsMatrix
PROPERTIES
  KeepsPromise
CHECK_DEADLOCK FALSE
