---------------------------- MODULE MCLockScreen ----------------------------
(* Two clients of the protocol beside the built-in lock, three locks, and   *)
(* three passwords among them.                                             *)
EXTENDS LockScreen

MCClients == {"c1", "c2"}
=============================================================================
