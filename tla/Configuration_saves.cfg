SPECIFICATION Spec
CONSTANTS
  module = module
  config_ui = config_ui
  Keys = {"timeout", "ping"}
  Kind <- KindOf
  Numbers = {"0", "10"}
  Options = {"left"}
  Garbage = {"1"}
  Place <- PlaceOf
  Beginnings <- BeginningsOf
  Defaults <- DefaultOf
  Installed <- OnDisk
  Owner = module
  Viewer = config_ui
  MaxFails = 1
  MaxEdits = 3
  MaxSaves = 2
  MaxReloads = 1
  MaxRestarts = 1
INVARIANTS
  CopyFollowsFile
  FormFollowsFile
PROPERTIES
  OneSettingAtATime
CHECK_DEADLOCK FALSE
