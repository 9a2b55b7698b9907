--------------------------- MODULE MCSnapshotSync ---------------------------
(* One domain of each sort: the window list, which recovers and carries    *)
(* the geometry of its windows; the focus, which recovers and is also      *)
(* applied as a detail; the geometry, which has a partial snapshot of its  *)
(* own and does not recover. Three changes are enough for a snapshot that  *)
(* is overwritten unread, a batch that is late, and a change between a     *)
(* recovery request and its answer; two requests for one that is dropped.  *)
EXTENDS SnapshotSync

MCDomains       == {"windows", "focus", "geometry"}
MCRecovery      == {"windows", "focus"}
MCDirect        == {"focus"}
MCNeedsRecovery == {"windows", "focus", "geometry"}
MCCarried       == {"geometry"}
MCResent        == <<"windows", "focus">>
MCMutable       == {"focus"}
=============================================================================
