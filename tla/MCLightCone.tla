----------------------------- MODULE MCLightCone -----------------------------
(* Small instances of LightCone for TLC.                                   *)
EXTENDS LightCone, TLC

CONSTANTS n1, n2, n3, n4, u1, u2

Same == Permutations(Users) \cup Permutations(Nodes \ {Server, Capability})
=============================================================================
