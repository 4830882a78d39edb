--------------------------- MODULE MCSyncConnection ---------------------------
(***************************************************************************)
(* Instances of SyncConnection for TLC.  The header is 2 bytes and a       *)
(* kernel-level write makes at most 4 bytes readable, so a payload of 1 or *)
(* 2 bytes arrives with its header at once and one of 5 or 9 bytes takes   *)
(* two or three writes.  A writer blocks when 4 or more bytes are in       *)
(* flight.                                                                 *)
(***************************************************************************)
EXTENDS SyncConnectionInvariants

\* One that fits a write, and one that needs two.
mc_RequestSizes == {1, 5}

mc_SmallResponses == {1, 2}

mc_LargeResponses == {1, 5}

\* A response that can fill the socket twice over after its first write was
\* taken by a call that failed.
mc_HugeResponses == {1, 9}

\* Payload bytes taken for a header: an empty payload, one like a real
\* payload, and one longer than anything sent.
mc_GarbageLengths == {0, 1, 40}
=============================================================================
