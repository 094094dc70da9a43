SPECIFICATION Spec
CONSTANTS
  Keys <- MCKeys
  RemoteOf <- MCRemoteOf
  Registered = {"shortcut", "styrbar"}
  PressSenders = {"styrbar"}
  SceneKeys <- MCKeys
  FreshScenes = TRUE
  Debounce = 2
  Stale = 2
  MaxHold = 0
  MaxTime = 9
  MaxPresses = 3
  MaxQueue = 3
INVARIANT
  NoGhostPress
CHECK_DEADLOCK FALSE
