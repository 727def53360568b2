--------------------------- MODULE MCCanvasEditor ---------------------------
(* Small instances of CanvasEditor for TLC.                                *)
EXTENDS CanvasEditor

CONSTANTS w1, w2, a1, m

\* a1 and the memo m are on the first workspace, nothing on the second.
PlacedOn == [w \in Workspace |-> IF w = w1 THEN {a1, m} \cap Chip ELSE {}]
=============================================================================
