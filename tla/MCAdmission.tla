---------------------------- MODULE MCAdmission ----------------------------
(* Three relays and a viewer that compete for one channel.  r1 and r2 have *)
(* public addresses, r3 is on the local network.                           *)
EXTENDS Admission

CONSTANTS r1, r2, r3, h1, c1, a1, a2, lan

MCConns == {r1, r2, r3, h1}

MCConnType == [c \in Conns |-> IF c = h1 THEN "http" ELSE "pcp"]
MCConnChannel == [c \in Conns |-> c1]
MCAddr == [c \in Conns |-> IF c = r3 THEN lan ELSE IF c = r2 THEN a2 ELSE a1]
=============================================================================
