--------------------------- MODULE MCSearchIndex ---------------------------
(* A small instance of SearchIndex for TLC: two workers of the queue and a *)
(* thread that reindexes.                                                  *)
EXTENDS SearchIndex, TLC

CONSTANTS x, y, a1, a2, c1, c2, w1, w2, b1

Scenario(C, texts, n, trouble) ==
  [collections |-> C, texts |-> texts, jobs |-> n, trouble |-> trouble]

(* One collection and nothing but removals, or two and any trouble.        *)
MCScenarios == {Scenario({c1}, SUBSET Tokens, 3, {"removals"}),
                Scenario({c1}, {{x}, {x, y}}, 4, {"removals"}),
                Scenario({c1, c2}, {{x}, {y}}, 3, Trouble)}

Same == Permutations(Threads \ Bulk) \cup Permutations(Artifacts)
=============================================================================
