---------------------------- MODULE PublishedLog ----------------------------
(***************************************************************************)
(* What a reader of committed versions may count on.  The store publishes  *)
(* records, several together, and withdraws them one at a time.  A record  *)
(* is never replaced: its root, its key and its inline text stay as they   *)
(* were published.  The content object that its key names is not part of   *)
(* that promise: it may be written anew, one object in a step, and then    *)
(* for all the records of that key together.                               *)
(***************************************************************************)
CONSTANTS
  Id,        \* versions
  Key,       \* names of content objects
  NoKey,     \* no content object
  Root,      \* artifacts
  Text,      \* inline texts
  Object,    \* contents of an object
  Missing    \* the content of an object that is not there

VARIABLE log      \* published version -> record

Record ==
  [root : Root, key : Key \cup {NoKey}, text : Text, object : Object \cup {Missing}]

(* The object k holds c from now on.                                       *)
Rewritten(l, k, c) ==
  [i \in DOMAIN l |-> IF l[i].key = k THEN [l[i] EXCEPT !.object = c] ELSE l[i]]

Without(l, i) == [j \in DOMAIN l \ {i} |-> l[j]]

Init == log = [i \in {} |-> {}]

Publish ==
  /\ DOMAIN log \subseteq DOMAIN log'
  /\ DOMAIN log' \subseteq Id
  /\ log' = [i \in DOMAIN log' |-> IF i \in DOMAIN log THEN log[i] ELSE log'[i]]
  /\ \A i \in DOMAIN log' : log'[i] \in Record

(* An edit, or the deletion of a draft, of the same key.                   *)
Rewrite(k, c) == log' = Rewritten(log, k, c)

Withdraw(i) == log' = Without(log, i)

(* The object of a version that is deleted goes with it.                   *)
WithdrawWithObject(i) ==
  /\ log[i].key # NoKey
  /\ log' = Rewritten(Without(log, i), log[i].key, Missing)

Next ==
  \/ Publish
  \/ \E k \in Key, c \in Object \cup {Missing} : Rewrite(k, c)
  \/ \E i \in DOMAIN log : Withdraw(i) \/ WithdrawWithObject(i)

Spec == Init /\ [][Next]_log
=============================================================================
