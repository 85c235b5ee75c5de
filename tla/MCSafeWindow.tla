---------------------------- MODULE MCSafeWindow ----------------------------
(* Two joints on the bus of the node, and one on another bus of the group. *)
EXTENDS SafeWindow, TLC

CONSTANTS hip, knee, tail

TwoBuses == (hip :> 1) @@ (knee :> 1) @@ (tail :> 2)
=============================================================================
