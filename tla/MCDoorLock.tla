------------------------------ MODULE MCDoorLock ------------------------------
(* Instances of DoorLock.                                                  *)
EXTENDS DoorLock

=============================================================================
