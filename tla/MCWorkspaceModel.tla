-------------------------- MODULE MCWorkspaceModel --------------------------
(* Three windows and two sessions: one with a pinned tab in a split, whose  *)
(* id may be in use when it is restored, and one that takes apart and puts  *)
(* together other windows, with an id beyond all that the run has made.     *)
EXTENDS WorkspaceModel

MCWindows  == 1 .. 3
MCSessions ==
  {[groups |-> <<[id |-> 1, windows |-> <<2, 1>>, active |-> 1, left |-> 2]>>,
    pinned |-> {2}, next_group_seq |-> 2],
   [groups |-> <<[id |-> 3, windows |-> <<3, 1>>, active |-> 3, left |-> 0]>>,
    pinned |-> {}, next_group_seq |-> 4]}

\* The history is written and never read by a step: states are told apart without.
View == <<ws, registered, hidden, custom_auto>>
=============================================================================
