CONSTANTS
  Height = 3
  Items = {"all", "time", "user", "net"}
  Paths = {p}
  Tags <- AllTags
  Expanded = {"rpmdir", "set-user", "set-group", "smack", "cgrouproot"}
  None = none
  Joins <- JoinOrder
  Contexts <- Depth
  Nodes = 3
  Chars = {"a", "b", ":"}
  Colon = ":"
  Names <- Environs
  Table = {"LEAF", "NODE", "LONG"}
  Value <- ValueIn
  Commands = {"$(id)", "$(mute)"}
  Text <- CommandText
  Prints <- CommandPrints
  Small = 4
  Large = 6
  Output = 3
  VarNames = {"PATH", "LDPATH", "X"}
  Searched <- SearchOrder
  Inherited <- Environ
  Missing = missing
  Launched <- Chosen
SPECIFICATION Spec
INVARIANTS
  TypeOK
  EnvironmentTypeOK
  ForbiddenStaysForbidden
  SharesAsTable
  AdministratorsFirst
  RunsAsShown
  RunsIsolated
  RunsAsAsked
  VariablesWhole
  PathsInOrder
  FailsForAReason
  DnfTells
CHECK_DEADLOCK FALSE
