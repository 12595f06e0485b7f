CONSTANTS
  Height = 2
  Kind = "export"
  Keys = {1, 2, 3}
  Modes = {"Private", "Public", "PublicFile", "Symlink"}
  Vals = {"null", "s"}
  Null = "null"
  Privates = {"Private"}
  Configs <- Lists
  Dirs = {"Private", "Public"}
  Files = {"PublicFile"}
  Hosts = {"s", "s/a", "s/b"}
  Above <- Tree
  Slash = "/"
  HostOf <- OnHost
  Found <- Exists
  Options = {"lenient", "strict", "dump"}
  MaxArgs = 7
SPECIFICATION ExportsSpec
INVARIANTS
  FilesMounted
CHECK_DEADLOCK FALSE
