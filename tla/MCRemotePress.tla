---------------------------- MODULE MCRemotePress ----------------------------
(* A remote that only triggers scenes and one that reports presses as well.    *)
EXTENDS RemotePress
MCRemoteOf == [SHORTCUT |-> "shortcut", STYRBAR |-> "styrbar"]
MCKeys == DOMAIN MCRemoteOf
=============================================================================
