SPECIFICATION RateSpec
CONSTANTS
  ws = ws
  loop = loop
  v1 = v1
  v2 = v2
  h1 = h1
  h2 = h2
  h3 = h3
  Handlers <- MCWebSocketOnly
  Loop = loop
  Values <- MCValues
  Handles <- MCHandles
  Throttle = 2
  MinDelay = 2
PROPERTY
  OneWritePerInterval
