------------------------------ MODULE MCLaneB ------------------------------
(* LaneB with four records: three in one window, of two keys, one in the next. *)
EXTENDS LaneB, TLC

CONSTANTS r1, r2, r3, r4, k1, k2

FourWindows == r1 :> 1 @@ r2 :> 1 @@ r3 :> 1 @@ r4 :> 2
FourKeys == r1 :> k1 @@ r2 :> k1 @@ r3 :> k2 @@ r4 :> k1
=============================================================================
