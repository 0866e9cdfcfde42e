---------------------------- MODULE Capabilities ----------------------------
(***************************************************************************)
(* The tools, resources and prompts of an MCP server as artifacts below    *)
(* the server's own (mantle/services/mcp_resource_importer.py).            *)
(* materialize_server_capabilities lists what the server offers and then   *)
(* works through the kinds: it makes the kind's collection, creates or     *)
(* rewrites one artifact per item, and archives those that were not        *)
(* listed.  The ids are computed from server, kind and name, so that every *)
(* call means the same artifacts.                                          *)
(*                                                                         *)
(* The operation is synchronous and the dispatcher runs it on a thread of  *)
(* the executor (handler_registry.py), so calls for one server run side by *)
(* side; one action is one request to the server or to the database.       *)
(***************************************************************************)
EXTENDS Naturals, Sequences, FiniteSets

CONSTANTS
  Kinds,        \* the kinds, in the order they are worked through
  Names,
  Descs,        \* what an artifact's context may say
  Catalog,      \* for each kind, the <<name, desc>> that the server may come to offer
  Threads,      \* threads of the executor
  None,
  MaxCalls,     \* bound: calls of the operation
  MaxChanges,   \* bound: changes of what the server offers
  MaxTrouble    \* bound: failures

Range(s) == {s[i] : i \in DOMAIN s}

Items == [Names -> Descs \cup {None}]   \* a listing; None: the name is not in it
NoItems == [n \in Names |-> None]
Listed(f) == {n \in Names : f[n] # None}

Docs == [state : {"committed", "archived"}, desc : Descs]

Jobs ==
  [pc : {"sub", "create sub", "link sub", "items", "write", "link", "archive", "end"},
   listing : [Range(Kinds) -> Items], offer : [Range(Kinds) -> Items], at : Nat,
   todo : SUBSET Names, item : Names \cup {None}, copy : Docs \cup {None},
   stale : Items, clean : BOOLEAN]

ASSUME CapabilitiesAssumption ==
  /\ Kinds \in Seq(Range(Kinds))
  /\ \A i, j \in DOMAIN Kinds : Kinds[i] = Kinds[j] => i = j
  /\ None \notin Descs \cup Docs \cup Jobs

VARIABLES
  offered,   \* what the server offers, per kind
  sub,       \* each kind's collection: "absent", "made" and not linked, or "linked"
  docs,      \* the capability artifacts: state and description, or None
  links,     \* the names that the kind's collection has an edge to
  job,       \* program counter and local variables of each thread's call
  calls, changes, trouble,
  told,      \* history: what the calls since nothing ran have listed, per kind
  kept       \* history: the listings among them whose call ran to its end, nothing failing

storeVars == <<sub, docs, links>>
countVars == <<calls, changes, trouble>>
history   == <<told, kept>>
capVars == <<offered, storeVars, job, countVars, history>>

CapInit ==
  /\ offered \in [Range(Kinds) -> Items]
  /\ \A k \in Range(Kinds) : \A n \in Listed(offered[k]) : <<n, offered[k][n]>> \in Catalog[k]
  /\ sub = [k \in Range(Kinds) |-> "absent"]
  /\ docs = [k \in Range(Kinds) |-> [n \in Names |-> None]]
  /\ links = [k \in Range(Kinds) |-> {}]
  /\ job = [t \in Threads |-> None]
  /\ calls = 0 /\ changes = 0 /\ trouble = 0
  /\ told = [k \in Range(Kinds) |-> {}]
  /\ kept = [k \in Range(Kinds) |-> {}]

Trouble == trouble < MaxTrouble /\ trouble' = trouble + 1
NoTrouble == UNCHANGED trouble

Idle == \A t \in Threads : job[t] = None

(* The server comes to offer something else.                               *)
Change ==
  /\ changes < MaxChanges
  /\ changes' = changes + 1
  /\ \E k \in Range(Kinds), n \in Names, d \in Descs \cup {None} :
       /\ d # offered[k][n]
       /\ d # None => <<n, d>> \in Catalog[k]
       /\ offered' = [offered EXCEPT ![k][n] = d]
  /\ UNCHANGED <<storeVars, job, calls, trouble, history>>

-----------------------------------------------------------------------------
(* Mutant: an empty listing is worked through like any other.              *)
EvenNoItems(f) == TRUE

(* `if not items: return 0'                                                *)
HasItems(f) == Listed(f) # {}

(* J going on with the first kind at or behind place i that has items.     *)
ToKind(J, i) ==
  LET left == {m \in i..Len(Kinds) : HasItems(J.listing[Kinds[m]])}
      next == CHOOSE m \in left : \A l \in left : m <= l
  IN  IF left = {} THEN [J EXCEPT !.pc = "end"]
      ELSE [J EXCEPT !.pc = "sub", !.at = next, !.todo = Listed(J.listing[Kinds[next]])]

Goto(t, J) == job' = [job EXCEPT ![t] = J]

(* list_capabilities: one session for all kinds; a list that fails comes   *)
(* back empty.  Each list is asked for once and without a cursor: what the *)
(* server offers is what its first page holds.                             *)
Materialize(t) ==
  /\ job[t] = None
  /\ calls < MaxCalls
  /\ calls' = calls + 1
  /\ \E failed \in SUBSET Range(Kinds) :
       /\ IF failed = {} THEN NoTrouble ELSE Trouble
       /\ LET heard == [k \in Range(Kinds) |-> IF k \in failed THEN NoItems ELSE offered[k]]
          IN  /\ Goto(t, ToKind([pc |-> "sub", listing |-> heard, offer |-> offered, at |-> 1,
                                 todo |-> {}, item |-> None, copy |-> None, stale |-> NoItems,
                                 clean |-> TRUE], 1))
              /\ told' = [k \in Range(Kinds) |->
                            (IF Idle THEN {} ELSE told[k]) \cup ({heard[k]} \ {NoItems})]
              /\ kept' = IF Idle THEN [k \in Range(Kinds) |-> {}] ELSE kept
  /\ UNCHANGED <<offered, storeVars, changes>>

KindOf(J) == Kinds[J.at]

(* A write whose failure is logged and otherwise ignored: done, or lost.   *)
Swallowed(t, J, done, lost) ==
  \/ done /\ NoTrouble /\ Goto(t, J)
  \/ lost /\ Trouble /\ Goto(t, [J EXCEPT !.clean = FALSE])

(* An exception ends the call.                                             *)
Raise(t) == Goto(t, None)

-----------------------------------------------------------------------------
(* _ensure_subcollection.                                                  *)

FindSub(t) ==
  /\ job[t] # None /\ job[t].pc = "sub"
  /\ Goto(t, [job[t] EXCEPT !.pc = IF sub[KindOf(job[t])] = "absent" THEN "create sub" ELSE "items"])
  /\ UNCHANGED <<offered, storeVars, countVars, history>>

(* An insert raises when there is a document of that id.                   *)
CreateSub(t) ==
  /\ job[t] # None /\ job[t].pc = "create sub"
  /\ LET k == KindOf(job[t])
     IN  IF sub[k] = "absent"
           THEN /\ sub' = [sub EXCEPT ![k] = "made"]
                /\ Goto(t, [job[t] EXCEPT !.pc = "link sub"])
           ELSE Raise(t) /\ UNCHANGED sub
  /\ UNCHANGED <<offered, docs, links, countVars, history>>

LinkSub(t) ==
  /\ job[t] # None /\ job[t].pc = "link sub"
  /\ Swallowed(t, [job[t] EXCEPT !.pc = "items"],
               sub' = [sub EXCEPT ![KindOf(job[t])] = "linked"], UNCHANGED sub)
  /\ UNCHANGED <<offered, docs, links, calls, changes, history>>

-----------------------------------------------------------------------------
(* _upsert_capability_artifact for each item.                              *)

(* Mutant: an archived artifact with the same context is left alone.       *)
SameContext(doc, d) == doc.desc = d

Unchanged(doc, d) == doc.desc = d /\ doc.state # "archived"

FindItem(t) ==
  /\ job[t] # None /\ job[t].pc = "items" /\ job[t].todo # {}
  /\ \E n \in job[t].todo :
       LET J == job[t]
           doc == docs[KindOf(J)][n]
       IN  Goto(t, [J EXCEPT !.item = n, !.copy = doc,
                             !.pc = IF doc # None /\ Unchanged(doc, J.listing[KindOf(J)][n])
                                      THEN "link" ELSE "write"])
  /\ UNCHANGED <<offered, storeVars, countVars, history>>

Written(J) ==
  docs' = [docs EXCEPT ![KindOf(J)][J.item] =
             [state |-> "committed", desc |-> J.listing[KindOf(J)][J.item]]]

(* A new artifact.                                                         *)
Insert(t) ==
  /\ job[t] # None /\ job[t].pc = "write" /\ job[t].copy = None
  /\ IF docs[KindOf(job[t])][job[t].item] = None
       THEN Written(job[t]) /\ Goto(t, [job[t] EXCEPT !.pc = "link"])
       ELSE Raise(t) /\ UNCHANGED docs
  /\ UNCHANGED <<offered, sub, links, countVars, history>>

(* The whole document is replaced.                                         *)
Rewrite(t) ==
  /\ job[t] # None /\ job[t].pc = "write" /\ job[t].copy # None
  /\ Swallowed(t, [job[t] EXCEPT !.pc = "link"], Written(job[t]), UNCHANGED docs)
  /\ UNCHANGED <<offered, sub, links, calls, changes, history>>

(* The edge, which is overwritten if there is one.  A new artifact is      *)
(* linked twice in a row; one of the two is enough.                        *)
Link(t) ==
  /\ job[t] # None /\ job[t].pc = "link"
  /\ LET J == job[t]
     IN  Swallowed(t, [J EXCEPT !.pc = "items", !.todo = @ \ {J.item}, !.item = None, !.copy = None],
                   links' = [links EXCEPT ![KindOf(J)] = @ \cup {J.item}], UNCHANGED links)
  /\ UNCHANGED <<offered, sub, docs, calls, changes, history>>

-----------------------------------------------------------------------------
(* _archive_stale_capabilities.                                            *)

Visible(k, n) == n \in links[k] /\ docs[k][n] # None /\ docs[k][n].state # "archived"

(* What the collection lists, without the archived ones, and was not       *)
(* offered.  A query that fails lists nothing.                             *)
ListStale(t) ==
  /\ job[t] # None /\ job[t].pc = "items" /\ job[t].todo = {}
  /\ LET J == job[t]
         k == KindOf(J)
         stale == [n \in Names |-> IF Visible(k, n) /\ J.listing[k][n] = None
                                     THEN docs[k][n].desc ELSE None]
     IN  \/ NoTrouble /\ Goto(t, [J EXCEPT !.pc = "archive", !.stale = stale])
         \/ Trouble /\ Goto(t, [J EXCEPT !.pc = "archive", !.clean = FALSE])
  /\ UNCHANGED <<offered, storeVars, calls, changes, history>>

(* Each is written back as it was listed, but archived.                    *)
Archive(t) ==
  /\ job[t] # None /\ job[t].pc = "archive"
  /\ \E n \in Listed(job[t].stale) :
       LET J == job[t]
       IN  Swallowed(t, [J EXCEPT !.stale[n] = None],
                     docs' = [docs EXCEPT ![KindOf(J)][n] = [state |-> "archived", desc |-> J.stale[n]]],
                     UNCHANGED docs)
  /\ UNCHANGED <<offered, sub, links, calls, changes, history>>

KindDone(t) ==
  /\ job[t] # None /\ job[t].pc = "archive" /\ Listed(job[t].stale) = {}
  /\ Goto(t, ToKind(job[t], job[t].at + 1))
  /\ UNCHANGED <<offered, storeVars, countVars, history>>

Return(t) ==
  /\ job[t] # None /\ job[t].pc = "end"
  /\ Goto(t, None)
  /\ kept' = IF job[t].clean
               THEN [k \in Range(Kinds) |-> kept[k] \cup ({job[t].listing[k]} \ {NoItems})]
               ELSE kept
  /\ UNCHANGED <<offered, storeVars, countVars, told>>

(* The database does not answer, or the process ends.                      *)
Fail(t) ==
  /\ job[t] # None /\ job[t].pc # "end"
  /\ Trouble
  /\ Raise(t)
  /\ UNCHANGED <<offered, storeVars, calls, changes, history>>

Step(t) ==
  \/ Materialize(t)
  \/ FindSub(t) \/ CreateSub(t) \/ LinkSub(t)
  \/ FindItem(t) \/ Insert(t) \/ Rewrite(t) \/ Link(t)
  \/ ListStale(t) \/ Archive(t) \/ KindDone(t) \/ Return(t)
  \/ Fail(t)

CapNext == Change \/ \E t \in Threads : Step(t)

CapSpec == CapInit /\ [][CapNext]_capVars
-----------------------------------------------------------------------------
CapTypeOK ==
  /\ offered \in [Range(Kinds) -> Items]
  /\ sub \in [Range(Kinds) -> {"absent", "made", "linked"}]
  /\ docs \in [Range(Kinds) -> [Names -> Docs \cup {None}]]
  /\ links \in [Range(Kinds) -> SUBSET Names]
  /\ job \in [Threads -> Jobs \cup {None}]
  /\ told \in [Range(Kinds) -> SUBSET Items]
  /\ kept \in [Range(Kinds) -> SUBSET Items]

(* What is found in the kind's collection, whether or not that is linked   *)
(* to the server: the edge is written once and a failure is ignored.       *)
Shown(k) == [n \in Names |-> IF Visible(k, n) THEN docs[k][n].desc ELSE None]

(* "Idempotent -- safe to call repeatedly" (mcp_resource_importer.py:280): *)
(* whatever earlier calls left half done, and however many calls run side  *)
(* by side on threads, when they all listed the same items of a kind and   *)
(* one of them ran to its end with nothing failing, then those items are   *)
(* what is found in the kind's collection, with what the server said of    *)
(* them, and nothing else is; and it stays so, whatever the other calls    *)
(* still do, until a call lists something else.                            *)
LastListingHolds ==
  \A k \in Range(Kinds) : \A f \in kept[k] : told[k] = {f} => Shown(k) = f

(* "partial capability data is preferable to no data at all"               *)
(* (chorus_client.py:129): a list that failed is taken for an empty one,   *)
(* and no capability is archived for it, but only if the server did not    *)
(* offer it when a call that is under way asked.                           *)
ArchivedForAReason ==
  [][\A k \in Range(Kinds), n \in Names :
       (docs[k][n] # docs'[k][n] /\ docs'[k][n].state = "archived")
         => \E t \in Threads : job[t] # None /\ job[t].offer[k][n] = None]_capVars
=============================================================================
