------------------------ MODULE MCSyncServerLifecycle ------------------------
(***************************************************************************)
(* Instances of SyncServerLifecycle for TLC.                               *)
(***************************************************************************)
EXTENDS SyncServerLifecycle

CONSTANTS s1, s2, c1, c2

mc_Servers == {s1, s2}
mc_Clients == {c1, c2}
=============================================================================
