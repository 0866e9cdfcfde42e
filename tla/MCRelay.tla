------------------------------ MODULE MCRelay ------------------------------
(* A small instance of Relay: a user with two connections (a desktop that  *)
(* comes back, or two desktops) and another with one.                      *)
EXTENDS Relay

CONSTANTS ann, bob, c1, c2, c3, r1, r2

MCUserOf == [x \in Conns \cup Reqs |-> IF x = c3 THEN bob ELSE ann]
=============================================================================
