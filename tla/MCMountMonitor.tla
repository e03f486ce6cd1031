--------------------------- MODULE MCMountMonitor ---------------------------
(* Instances of MountMonitor for TLC.  "nas" is deleted and re-added: old and *)
(* fresh are its two MountState objects, on the same path.                   *)
EXTENDS MountMonitor

CONSTANTS old, fresh, other, p1, p2, c1

MCName == [m \in Mounts |-> IF m = other THEN "media" ELSE "nas"]
MCHome == [m \in Mounts |-> IF m = other THEN p2 ELSE p1]

=============================================================================
