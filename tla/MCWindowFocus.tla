--------------------------- MODULE MCWindowFocus ---------------------------
(* Instances of WindowFocus for TLC. All three windows, so that one that    *)
(* closes has two to choose from; and two of them, where a toplevel may be  *)
(* late, with one of the shell's modal captures, or with spawns and a       *)
(* scratchpad.                                                              *)
EXTENDS WindowFocus

Three == [windows |-> Windows, extras |-> {}]

Pairs(X) == {[windows |-> {1, w}, extras |-> X \cup {"LateBuffer"}] : w \in {2, 3}}

ThreeOrTwo == {Three} \cup Pairs({"ProgramsMenu"}) \cup Pairs({"WindowSwitcher"})
                \cup Pairs({"Scratchpad", "Spawn"})
LatePairs  == Pairs({})
=============================================================================
