--------------------------- MODULE MCHTTPDelivery ---------------------------
(* HTTPDelivery with a buffer of two packets and a few headers and packets. *)
EXTENDS HTTPDelivery
=============================================================================
