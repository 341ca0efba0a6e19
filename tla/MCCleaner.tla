----------------------------- MODULE MCCleaner -----------------------------
(* Cleaner with two channel objects, one channel ID that is also the ID of    *)
(* the broadcasts of one stream key, and one other goroutine that stops.      *)
EXTENDS Cleaner

CONSTANTS i1, i2, id1, k1, api, cleaner

MCIdsOfKey == [k \in Keys |-> {id1}]
=============================================================================
