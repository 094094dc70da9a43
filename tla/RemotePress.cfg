SPECIFICATION Spec
CONSTANTS
  Keys <- MCKeys
  RemoteOf <- MCRemoteOf
  Registered = {"shortcut", "styrbar"}
  PressSenders = {"styrbar"}
  SceneKeys <- MCKeys
  FreshScenes = FALSE
  Debounce = 2
  Stale = 2
  MaxHold = 2
  MaxTime = 9
  MaxPresses = 3
  MaxQueue = 3
INVARIANTS
  NoGhostPress
  OncePerPress
  NoMissedPress
  EventsSpaced
CHECK_DEADLOCK FALSE
