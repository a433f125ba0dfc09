---------------------------- MODULE MCLaneOrder ----------------------------
(* Programs over three buffers: elementwise ops of three element counts     *)
(* (two of them share a tile count), in place and forking, shaped ops with   *)
(* two tilings, and the two slices of a concatenation.                       *)
EXTENDS LaneOrder

MCBuffers == 1 .. 3

MCPrograms == BoundedSeq(Catalogue, MaxLen)

PlainCatalogue ==
  {Ew("add", 2, 1, NoBuf, 6), Ew("add", 3, 2, 1, 6), Ew("add", 1, 3, NoBuf, 6),
   Ew("add", 2, 2, 1, 6), Ew("add", 3, 1, NoBuf, 5), Ew("add", 2, 3, NoBuf, 2),
   Shaped("sum", 3, 2, NoBuf, 4), Shaped("sum", 1, 3, 2, 8),
   Slice(3, 1, 4, 0, 1), Slice(3, 2, 4, 2, 1)}

\* The same with an operand read through a transpose that was folded into it.
ViewedCatalogue == {Ew("add", 2, 1, NoBuf, 6), Viewed(Ew("add", 3, 2, 1, 6))}
=============================================================================
