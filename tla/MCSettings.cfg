SPECIFICATION Spec
CONSTANTS
  Names = {"ReaPack", "r", "s"}
  Urls = {"u0", "u1", "u2", "u3"}
  NoRemote = NoRemote
  Self = "ReaPack"
  FirstRemotes <- MCFirst
  Defaults <- MCDefaults
  MaxSlots = 4
  SizeMax = 256
  NameOf <- MCNameOf
  Inputs <- MCInputs
  ScriptInputs <- MCScript
  MaxCommands = 5
INVARIANTS
  SettingsAreSaved
  RowsAreFound
  ChangesAreCounted
PROPERTY SyncsObeySettings
CHECK_DEADLOCK FALSE
