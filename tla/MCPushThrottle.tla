--------------------------- MODULE MCPushThrottle ---------------------------
(* PushThrottle with the WebSocket thread and the event loop, two readings. *)
EXTENDS PushRate
CONSTANTS ws, loop, v1, v2, h1, h2, h3
MCHandlers == {ws, loop}
MCWebSocketOnly == {ws}
MCValues == {v1, v2}
MCHandles == {h1, h2, h3}
=============================================================================
