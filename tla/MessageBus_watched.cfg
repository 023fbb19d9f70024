SPECIFICATION Spec
CONSTANTS
  channel_manager = channel_manager
  audio = audio
  bus_thread = bus_thread
  monitor = monitor
  audio_thread = audio_thread
  Modules = {channel_manager, audio}
  Writers = {bus_thread, monitor, audio_thread}
  ModuleOf <- Threads
  Hwm = 2
  MaxMessages = 3
  MaxLives = 2
  QueueMax = 2
  TraceHwm = 2
  MaxEvents = 4
  MaxTells = 2
  MaxRecords = 3
  LogHwm = 2
  Limits = {1, 2}
  MaxClicks = 2
INVARIANTS
  AlarmsAreTrue
  TraceAddsUp
  ViewIsTheTail
CHECK_DEADLOCK FALSE
