---------------------------- MODULE MCPCPDelivery ----------------------------
(* PCPDelivery with a buffer of two packets and a few headers and packets. *)
EXTENDS PCPDelivery
=============================================================================
