SPECIFICATION FairSpec
CONSTANTS
  config_manager = config_manager
  channel_manager = channel_manager
  hostapd_helper = hostapd_helper
  config_ui = config_ui
  Modules = {config_manager, channel_manager, config_ui}
  Priority <- Levels
  ConfigManager = config_manager
  ChannelManager = channel_manager
  NeedsConfig = {channel_manager}
  Events = {"late", "crash", "signal", "shutdown"}
INVARIANTS
  LowerLevelsFirst
  NothingIsLeft
PROPERTIES
  HeardIsStarted
  ShutdownCompletes
CHECK_DEADLOCK FALSE
