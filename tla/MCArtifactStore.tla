-------------------------- MODULE MCArtifactStore --------------------------
(* A small instance of ArtifactStore for TLC: three versions of one root   *)
(* when no write is lost, two versions of one root or two when some are.   *)
EXTENDS ArtifactStore

CONSTANTS w1, w2, t1, t2

(* New artifacts of the workspace w1 are also linked to w2.                *)
MCTargets == [c \in Containers |-> IF c = w1 THEN {w2} ELSE {}]

MCVersionIds == [l \in BOOLEAN |-> IF l THEN {1, 2} ELSE {1, 2, 3}]
MCRootIds == [l \in BOOLEAN |-> IF l THEN {1, 2} ELSE {1}]
=============================================================================
