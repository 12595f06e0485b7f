SPECIFICATION Spec
CONSTANTS
  a = a  b = b  c = c  e = e  f = f
  m = m  x = x  y = y  z = z
  Launchers = {a, b, c, f}
  Others = {e}
  Start <- Apart
  Chain <- MCChain
  Need <- MCNeed
  CgName <- MCName
  Controllers = {"pids", "memory", "io"}
  Granted = {"pids"}
  PidsLeaf = "redpak-pids-leaf"
  RootPath = NoPath
  Unborn = Unborn
  Gone = Gone
  NoPath = NoPath
  NoNode = NoNode
CHECK_DEADLOCK FALSE
INVARIANTS
  TypeOK
  OneHierarchy
  LimitsInForce
  ShelteredInLeaf
  FailsOnlyIfDisturbed
