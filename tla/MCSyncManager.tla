---------------------------- MODULE MCSyncManager ----------------------------
(* Instances of SyncManager for TLC: "backup" is deleted and re-added, old and *)
(* fresh are its two SyncState objects.                                      *)
EXTENDS SyncManager

CONSTANTS old, fresh, other

MCName == [j \in Jobs |-> IF j = other THEN "photos" ELSE "backup"]

=============================================================================
