--------------------------- MODULE MCRelayClient ---------------------------
(* RelayClient with the tracker and another host, which is behind our NAT and *)
(* is tried by either of its addresses; it may also report a firewall, or no  *)
(* address.                                                                   *)
EXTENDS RelayClient

CONSTANTS tracker, near, nearLocal, s1, ourIP

Host(fw) ==
  [session |-> s1, globalAddr |-> near, localAddr |-> nearLocal, globalIP |-> ourIP, firewalled |-> fw]

MCHostAtoms ==
  {Host(fw) : fw \in BOOLEAN} \cup {[Host(FALSE) EXCEPT !.globalAddr = NoAddr, !.localAddr = NoAddr]}
=============================================================================
