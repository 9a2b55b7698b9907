---------------------------- MODULE LatestValue ----------------------------
(***************************************************************************)
(* What the compositor's two hand-overs of state promise: a place of which *)
(* only the latest value matters. A writer replaces the value in it        *)
(* whenever it likes; a reader takes the latest one, works on it and lets  *)
(* go of it. A value may be replaced before it is taken, but what is taken *)
(* is whole and is the latest.                                             *)
(*                                                                         *)
(* FrameMailbox implements all of it; SharedState, whose reader a writer   *)
(* that never rests can starve, implements Safety.                         *)
(***************************************************************************)
CONSTANTS
  Values,         \* what a writer may hand over
  Nothing         \* no value

VARIABLES
  slot,           \* the value nobody has taken yet
  hand            \* the value the reader works on

vars == <<slot, hand>>

Init ==
  /\ slot = Nothing
  /\ hand = Nothing

Put ==
  /\ slot' \in Values
  /\ UNCHANGED hand

Take ==
  /\ slot # Nothing
  /\ hand = Nothing
  /\ hand' = slot
  /\ slot' = Nothing

LetGo ==
  /\ hand # Nothing
  /\ hand' = Nothing
  /\ UNCHANGED slot

Next == Put \/ Take \/ LetGo

Safety == Init /\ [][Next]_vars

\* A value that is there is taken, and a reader does not work on it for ever.
Spec == Safety /\ WF_vars(Take) /\ WF_vars(LetGo)
=============================================================================
