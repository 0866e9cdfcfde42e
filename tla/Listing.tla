------------------------------ MODULE Listing ------------------------------
(***************************************************************************)
(* The order of a workspace's artifacts: the order keys on its edges       *)
(* (mantle/db/arango.py), and the list a browser tab shows                 *)
(* (facet/src/context/workspace/WorkspaceProvider.tsx), which has keys of  *)
(* its own, sends whole orders and computes the key of a dropped file.     *)
(*                                                                         *)
(* A handler of Mantle awaits nothing and is one step.  Requests to        *)
(* reorder are on their way for a while, and so is the news of other       *)
(* users' changes; a list that is fetched comes back at once.              *)
(***************************************************************************)
EXTENDS OrderKeys, FiniteSets

CONSTANTS
  Items,      \* artifacts that are in the workspace, or may come into it
  Initial,    \* those that are there from the beginning
  MantleCaps, \* whether the database puts "A" before "a"
  TabCaps     \* whether the tab does

ASSUME ListingAssumption ==
  /\ IsFiniteSet(Items) /\ Initial \subseteq Items
  /\ MantleCaps \in BOOLEAN /\ TabCaps \in BOOLEAN

VARIABLES
  docs,      \* the artifacts whose document exists
  order,     \* the order key on the edge to each artifact; NoKey: no edge
  shown,     \* the tab's list: artifacts with the keys it knows of
  news,      \* events "created" and "deleted" on their way to the tab, per artifact
  moves,     \* reorderings on their way to Mantle
  promised   \* <<x, y>>: what was asked for last puts x before y

listVars == <<docs, order, shown, news, moves, promised>>

Linked == {x \in Items : order[x] # NoKey}

(* Mutant: the edges are not sorted in descending order.                   *)
LastKeyAscending ==
  IF Linked = {} THEN NoKey
  ELSE CHOOSE k \in {order[x] : x \in Linked} :
         \A x \in Linked : order[x] = k \/ Less(MantleCaps, k, order[x])

(* get_last_order_key, the last one as the database sorts.                 *)
LastKey ==
  IF Linked = {} THEN NoKey
  ELSE CHOOSE k \in {order[x] : x \in Linked} :
         \A x \in Linked : order[x] = k \/ Less(MantleCaps, order[x], k)

(* What was promised of other artifacts than those of S.                   *)
Besides(S) == {p \in promised : p[1] \notin S /\ p[2] \notin S}

(* compareByOrderKeyStable: artifacts without a key come first, and those  *)
(* with equal keys by their age, here by their place.                      *)
Earlier(caps, list, j, i) ==
  Less(caps, list[j].key, list[i].key) \/ (list[j].key = list[i].key /\ j < i)

Nth(caps, list, n) ==
  CHOOSE i \in DOMAIN list : Cardinality({j \in DOMAIN list : Earlier(caps, list, j, i)}) = n - 1

Sorted(caps, list) == [n \in DOMAIN list |-> list[Nth(caps, list, n)]]

Enumerated(S) ==
  CHOOSE s \in [1..Cardinality(S) -> S] : \A x \in S : \E i \in DOMAIN s : s[i] = x

(* Two artifacts or more, added one after the other.                       *)
ListInit ==
  LET s == Enumerated(Initial)
  IN  /\ docs = Initial
      /\ order = [x \in Items |-> IF x \in Initial
                                    THEN NthKey[CHOOSE i \in DOMAIN s : s[i] = x]
                                    ELSE NoKey]
      /\ shown = [i \in DOMAIN s |-> [id |-> s[i], key |-> NthKey[i]]]
      /\ news = [x \in Items |-> <<>>]
      /\ moves = <<>>
      /\ promised = {}

-----------------------------------------------------------------------------
(* Mantle.                                                                 *)

(* An edge to x, with a key the request brings or after all the others.    *)
AddEdge(x, key) ==
  /\ order' = [order EXCEPT ![x] = key]
  /\ docs' = docs \cup {x}

(* Another user creates an artifact, or links one that is elsewhere.       *)
AddAtEnd(x) ==
  /\ order[x] = NoKey
  /\ AddEdge(x, AfterKey(LastKey))
  /\ news' = [news EXCEPT ![x] = Append(@, "created")]
  /\ promised' = Besides({x}) \cup {<<y, x>> : y \in Linked}
  /\ UNCHANGED <<shown, moves>>

(* The artifact leaves the workspace; its document need not.               *)
Unlink(x, withDocument) ==
  /\ order[x] # NoKey
  /\ order' = [order EXCEPT ![x] = NoKey]
  /\ docs' = IF withDocument THEN docs \ {x} ELSE docs
  /\ news' = [news EXCEPT ![x] = Append(@, "deleted")]
  /\ promised' = Besides({x})
  /\ UNCHANGED <<shown, moves>>

(* A file dropped in the tab, with the key the tab has computed from its   *)
(* list; a promise if what it took for the key of its left neighbour is.   *)
PlaceUpload(x, key, left, leftKey) ==
  /\ AddEdge(x, key)
  /\ news' = [news EXCEPT ![x] = Append(@, "created")]
  /\ promised' = Besides({x}) \cup
                   {<<y, x>> : y \in {y \in Linked : y = left /\ order[y] = leftKey}}
  /\ UNCHANGED <<shown, moves>>

(* PATCH /children/order.  Artifacts without a document are passed over;   *)
(* the edges get new keys one by one, up to the first that does not exist. *)
Given(ids) ==
  {i \in DOMAIN ids : /\ ids[i] \in docs
                      /\ \A j \in 1..i : ids[j] \in docs => order[ids[j]] # NoKey}

NewKeys(ids) ==
  [x \in Items |-> IF \E i \in Given(ids) : ids[i] = x
                     THEN LET i == CHOOSE i \in Given(ids) : ids[i] = x
                          IN  NthKey[Cardinality({j \in Given(ids) : j <= i})]
                     ELSE order[x]]

Pairs(S) == {ij \in S \X S : ij[1] < ij[2]}

ReorderChildren ==
  /\ moves # <<>>
  /\ moves' = Tail(moves)
  /\ LET ids == Head(moves)
     IN  /\ order' = NewKeys(ids)
         /\ promised' = Besides({ids[i] : i \in Given(ids)}) \cup
                          {<<ids[ij[1]], ids[ij[2]]>> : ij \in Pairs(Given(ids))}
  /\ UNCHANGED <<docs, shown, news>>

-----------------------------------------------------------------------------
(* The tab.                                                                *)

(* Mantle's list, in the order of its edges; equal keys may come in any    *)
(* order, and here come in one.                                            *)
Listed ==
  LET s == Enumerated(Linked)
  IN  Sorted(MantleCaps, [i \in DOMAIN s |-> [id |-> s[i], key |-> order[s[i]]]])

Refresh ==
  /\ shown' = Listed
  /\ UNCHANGED <<docs, order, news, moves, promised>>

(* insertArtifactDedup without an index; answers and events bring no key.  *)
Appended(list, x) ==
  IF \E i \in DOMAIN list : list[i].id = x THEN list ELSE Append(list, [id |-> x, key |-> NoKey])

Removed(list, i) == SubSeq(list, 1, i - 1) \o SubSeq(list, i + 1, Len(list))

Without(list, x) ==
  IF \E i \in DOMAIN list : list[i].id = x
    THEN Removed(list, CHOOSE i \in DOMAIN list : list[i].id = x)
    ELSE list

HearNews(x) ==
  /\ news[x] # <<>>
  /\ news' = [news EXCEPT ![x] = Tail(@)]
  /\ shown' = IF Head(news[x]) = "created" THEN Appended(shown, x)
              ELSE Without(shown, x)
  /\ UNCHANGED <<docs, order, moves, promised>>

(* orderArtifacts: one artifact is dragged to another place.  The tab      *)
(* numbers its list anew and sends all of it.                              *)
Moved(list, from, to) ==
  LET rest == Removed(list, from)
  IN  SubSeq(rest, 1, to - 1) \o <<list[from]>> \o SubSeq(rest, to, Len(rest))

OrderArtifacts(from, to) ==
  /\ {from, to} \subseteq DOMAIN shown
  /\ from # to
  /\ LET list == Moved(Sorted(TabCaps, shown), from, to)
     IN  /\ shown' = [i \in DOMAIN list |-> [id |-> list[i].id, key |-> NthKey[i]]]
         /\ moves' = Append(moves, [i \in DOMAIN list |-> list[i].id])
  /\ UNCHANGED <<docs, order, news, promised>>

(* uploadFilesAt: the key of a file dropped at a place of the list.        *)
KeyAt(list, i) == IF i \in DOMAIN list THEN list[i].key ELSE NoKey

DropKey(place) == MidKey(KeyAt(shown, place), KeyAt(shown, place + 1))

-----------------------------------------------------------------------------
(* Keys whose order as words is another: they part at a capital and a small *)
(* letter, or the second is what after_key makes of a key that ends in the *)
(* last capital.                                                           *)
Misplaced(a, b) == Crossing(a, b) \/ (b # NoKey /\ b[Len(b)] = LastCapital + 1)

(* What was put after something is listed after it, unless their keys are  *)
(* misplaced: an artifact added at the end after all that are there, a     *)
(* dropped file after its left neighbour, and the artifacts of a           *)
(* reordering in the order asked for, as far as it came, whatever other    *)
(* users add, remove or reorder in between.                                *)
PlacedAsAsked ==
  \A p \in promised :
    Less(MantleCaps, order[p[1]], order[p[2]]) \/ Misplaced(order[p[1]], order[p[2]])
=============================================================================
