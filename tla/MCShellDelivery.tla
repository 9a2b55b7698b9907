-------------------------- MODULE MCShellDelivery --------------------------
(* One kind of each sort: a keyed message with a snapshot (focus), an      *)
(* event with a snapshot (mapped), a keyed one that never has one (lock),  *)
(* and the two sorts of urgent input.                                      *)
EXTENDS ShellDelivery

MCKinds       == {"focus", "mapped", "lock", "move", "button"}
MCKeyed       == {"focus", "lock"}
MCUrgent      == {"move", "button"}
MCSnapshotted == {"focus", "mapped"}
=============================================================================
