SPECIFICATION Spec
CONSTANTS
  Size = 5
  Lists <- MCLists
  Living <- MCLiving
CHECK_DEADLOCK FALSE
INVARIANT
  MovesAll
