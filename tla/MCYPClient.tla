----------------------------- MODULE MCYPClient -----------------------------
(* YPClient with a channel that is started a second time under its ID, and a  *)
(* relayed channel.                                                           *)
EXTENDS YPClient

CONSTANTS a, b

MCIDOf == <<a, a, b>>
=============================================================================
