---------------------------- MODULE MCWorkspace ----------------------------
(* Small instances of Workspace for TLC.                                   *)
EXTENDS Workspace

CONSTANTS p, q, r, f, g

(* Two files, a small one and a large one behind it.                       *)
MCBefore == [x \in Files |-> IF x = g THEN {f} ELSE {}]
MCMode == [x \in Files |-> IF x = g THEN "multipart" ELSE "put"]

Setup(fs, dur, evict, anyOrder, edits, ticked, n) ==
  [files |-> fs, durable |-> dur, evict |-> evict,
   reordered |-> anyOrder, edits |-> edits, ticks |-> ticked,
   keys |-> 0, reformats |-> FALSE, trouble |-> n]

Panel(keys, ref, n) ==
  [Setup({}, FALSE, FALSE, FALSE, FALSE, 0, n) EXCEPT !.keys = keys, !.reformats = ref]

(* One file with everything that may go wrong with it, two files one after *)
(* the other, the list by itself, and the details panel.                   *)
MCSetups ==
  {Setup({f}, d, TRUE, any, ~any, 1, 1) : d, any \in BOOLEAN} \cup
  {Setup({g}, d, TRUE, any, FALSE, 1, 1) : d, any \in BOOLEAN} \cup
  {Setup({g}, TRUE, FALSE, FALSE, FALSE, 1, 1),
   Setup({f, g}, FALSE, FALSE, FALSE, FALSE, 0, 1),
   Setup({f, g}, FALSE, FALSE, FALSE, FALSE, 1, 0),
   Setup({}, FALSE, FALSE, FALSE, FALSE, 0, 4)} \cup
  {Panel(4, ref, 1) : ref \in BOOLEAN} \cup {Panel(3, ref, 2) : ref \in BOOLEAN}
=============================================================================
