--------------------------- MODULE MCContentBuffer ---------------------------
(* ContentBuffer with a ring of two packets and positions that wrap at 64.  *)
(* An upstream may start at 0 or just below the wrap; the longest behaviour   *)
(* stays below half of the position space, as 2^31 bytes do in the code.      *)
EXTENDS ContentBuffer
=============================================================================
