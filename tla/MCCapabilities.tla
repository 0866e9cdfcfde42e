--------------------------- MODULE MCCapabilities ---------------------------
(* A small instance of Capabilities for TLC.                               *)
EXTENDS Capabilities

CONSTANTS x, y, d, e, t1, t2

MCKinds == <<"tool", "prompt">>

(* Two tools, one of which may be described anew, and one prompt.          *)
MCCatalog == [k \in Range(Kinds) |-> IF k = "tool" THEN {<<x, d>>, <<x, e>>, <<y, d>>} ELSE {<<y, d>>}]
=============================================================================
