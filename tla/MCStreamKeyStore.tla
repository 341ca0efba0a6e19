-------------------------- MODULE MCStreamKeyStore --------------------------
(* StreamKeyStore on two accounts and three keys. *)
EXTENDS StreamKeyStore
=============================================================================
