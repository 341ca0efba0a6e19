--------------------------- MODULE MCRtmpSession ---------------------------
(* RtmpSession with two encoders.                                             *)
EXTENDS RtmpSession

CONSTANTS s1, s2
=============================================================================
