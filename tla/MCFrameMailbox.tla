--------------------------- MODULE MCFrameMailbox ---------------------------
(* Two regions and three paints: enough for a frame that is overwritten    *)
(* while the loop holds another one, and for two accepted frames between   *)
(* two renders. The generation wraps at three and starts anywhere, so that *)
(* there are behaviours in which a later paint has a lower number and      *)
(* meets the check for old frames, and others in which all are accepted.   *)
EXTENDS FrameMailbox

CONSTANTS r1, r2
MCRegions == {r1, r2}
=============================================================================
