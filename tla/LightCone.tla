------------------------------ MODULE LightCone ------------------------------
(***************************************************************************)
(* Who may reach what, and who finds it: the collection_artifacts edges    *)
(* and grants of mantle/db/arango.py, the two walks over them              *)
(* (services/dependencies.py upwards, search/mantle/lightcone.py           *)
(* downwards) and the search principal, the origin root of a collection,   *)
(* under which an artifact is indexed and looked up.                       *)
(*                                                                         *)
(* A workspace is a collection is an artifact: a node may hold others.     *)
(* "read" is the action read and "write" stands for create, update,        *)
(* delete, evict and add, which the code's masks let through together.     *)
(* Versions are the subject of ArtifactStore, texts of SearchIndex.        *)
(***************************************************************************)
EXTENDS Integers, Sequences

CONSTANTS
  Nodes,        \* artifact root ids
  Server,       \* an MCP server artifact whose capabilities are imported
  Capability,   \* the artifact of one of them: its id is derived, not fresh
  Users,
  Top,          \* no collection_id: a collection or workspace of its own
  Unborn, Gone, \* no document: not yet, and not any more
  UpDepth,      \* _MAX_ORIGIN_DEPTH
  DownDepth,    \* max_depth of LightConeResolver
  RootDepth,    \* max_depth of get_origin_root
  MaxSteps      \* bound: operations

ASSUME LightConeAssumption ==
  /\ {Server, Capability} \subseteq Nodes
  /\ {Top, Unborn, Gone} \cap Nodes = {}
  /\ Top # Unborn /\ Top # Gone /\ Unborn # Gone
  /\ DownDepth \in Nat /\ UpDepth \in Nat /\ DownDepth <= UpDepth
  /\ RootDepth \in Nat
  /\ MaxSteps \in Nat

VARIABLES
  coll,      \* collection_id of each document
  through,   \* the actions the edge from a node to a node lets through;
             \* {} when there is no edge
  grants,    \* the actions granted to a user on a node
  waiting,   \* index tasks: a node and the collection it was saved in
  entries,   \* index entries: principal, collection, node
  steps,     \* operations so far
  rearranged \* history: was a node that holds others linked or detached, a
             \* node moved, or one created where the origin root is a matter
             \* of chance, since the last reindexing?

store == <<coll, through, grants>>
coneVars == <<store, waiting, entries, steps, rearranged>>

Actions == {"read", "write"}

ConeInit ==
  /\ coll       = [n \in Nodes |-> Unborn]
  /\ through    = [e \in Nodes \X Nodes |-> {}]
  /\ grants     = [g \in Users \X Nodes |-> {}]
  /\ waiting    = {}
  /\ entries    = {}
  /\ steps      = 0
  /\ rearranged = FALSE

Exists(n) == coll[n] \notin {Unborn, Gone}

-----------------------------------------------------------------------------
(* The walks: nodes one after the other, none of them twice, by at most so *)
(* many edges.                                                             *)
Walks(depth) ==
  UNION {{w \in [1..k -> Nodes] : \A i, j \in 1..k : w[i] = w[j] => i = j}
           : k \in 1..(depth + 1)}

UpWalks == Walks(UpDepth)
DownWalks == Walks(DownDepth)
Tracks == Walks(RootDepth)

(* From a grant over edges that let the action through.  Edges of          *)
(* documents that are gone still lead on.                                  *)
Leads(w, u, action) ==
  /\ action \in grants[<<u, w[1]>>]
  /\ \A i \in 1..(Len(w) - 1) : action \in through[<<w[i], w[i + 1]>>]

Reach(u, action, walks) == {w[Len(w)] : w \in {v \in walks : Leads(v, u, action)}}

(* check_access.  Of several origin parents get_origin_parent returns any. *)
Allowed(u, n, action) == Exists(n) /\ n \in Reach(u, action, UpWalks)

(* LightConeResolver.resolve, with the documents that still exist.         *)
Scope(u) == {n \in Nodes : Exists(n) /\ n \in Reach(u, "read", DownWalks)}

Parents(n) == {m \in Nodes : through[<<m, n>>] # {}}

WalksUp(w) == \A i \in 1..(Len(w) - 1) : w[i + 1] \in Parents(w[i])

(* visited holds the nodes of the walk so far.                             *)
Ends(w) ==
  \/ Parents(w[Len(w)]) = {}
  \/ \E i \in DOMAIN w : w[i] \in Parents(w[Len(w)])
  \/ Len(w) = RootDepth + 1

(* get_origin_root: of several parents it follows any.                     *)
Roots(n) == {w[Len(w)] : w \in {v \in Tracks : v[1] = n /\ WalksUp(v) /\ Ends(v)}}

(* A document without a collection_id stands for itself.                   *)
CollectionOf(n) == IF coll[n] = Top THEN n ELSE coll[n]

(* Mutant: the context of an artifact is the collection of a parent edge.  *)
ContextsByEdge(u) == UNION {Parents(n) : n \in Scope(u)}

(* resolve_authorized_contexts: the collections a user searches, each      *)
(* under the principal that is its origin root at that moment.             *)
Contexts(u) == {CollectionOf(n) : n \in Scope(u)}

(* Whichever root get_origin_root comes to.                                *)
Finds(u, n) == \E c \in Contexts(u) : \A r \in Roots(c) : <<r, c, n>> \in entries

-----------------------------------------------------------------------------
(* History: where the index would have to follow and does not.             *)
Holds(n) == \E m \in Nodes : coll[m] = n \/ through[<<n, m>>] # {}

Ambiguous(c) == \E r, s \in Roots(c) : r # s

Step ==
  /\ steps < MaxSteps
  /\ steps' = steps + 1

(* add_artifact_to_collection: the edge of a pair is overwritten.          *)
AddEdge(edges, c, n, mask) == [edges EXCEPT ![<<c, n>>] = mask]

(* create_workspace, create_new_collection: the creator gets every action. *)
CreateTop(u, n) ==
  /\ Step
  /\ n # Capability /\ coll[n] = Unborn
  /\ coll' = [coll EXCEPT ![n] = Top]
  /\ grants' = [grants EXCEPT ![<<u, n>>] = Actions]
  /\ UNCHANGED <<through, waiting, entries, rearranged>>

Create(u, n, c) ==
  /\ Step
  /\ n # Capability /\ coll[n] = Unborn
  /\ Allowed(u, c, "write")
  /\ coll' = [coll EXCEPT ![n] = c]
  /\ through' = AddEdge(through, c, n, Actions)
  /\ waiting' = waiting \cup {<<n, c>>}
  /\ rearranged' = (rearranged \/ Ambiguous(c))
  /\ UNCHANGED <<grants, entries>>

(* An edit, a commit or a revert: the version is put in the queue again.   *)
Save(u, n) ==
  /\ Step
  /\ coll[n] \in Nodes /\ Allowed(u, n, "write")
  /\ waiting' = waiting \cup {<<n, coll[n]>>}
  /\ UNCHANGED <<store, entries, rearranged>>

(* Mutant: a link lets nothing through, and overwrites the edge all the    *)
(* same.                                                                   *)
LinkLetsNothingThrough(u, n, c) ==
  /\ Step
  /\ Exists(n) /\ Allowed(u, c, "write")
  /\ through' = AddEdge(through, c, n, {})
  /\ rearranged' = (rearranged \/ Holds(n))
  /\ UNCHANGED <<coll, grants, waiting, entries>>

Link(u, n, c) ==
  /\ Step
  /\ Exists(n) /\ Allowed(u, c, "write")
  /\ through' = AddEdge(through, c, n, Actions)
  /\ rearranged' = (rearranged \/ Holds(n))
  /\ UNCHANGED <<coll, grants, waiting, entries>>

(* move_artifact_between_containers puts nothing in the queue.             *)
Move(u, n, c) ==
  /\ Step
  /\ coll[n] \in Nodes /\ Allowed(u, n, "write") /\ Allowed(u, c, "write")
  /\ coll' = [coll EXCEPT ![n] = c]
  /\ through' = AddEdge(AddEdge(through, coll[n], n, {}), c, n, Actions)
  /\ rearranged' = TRUE
  /\ UNCHANGED <<grants, waiting, entries>>

(* remove_artifact_from_container; when the only version is a draft of the *)
(* container its document goes, and edges of other containers stay.        *)
Remove(u, n, c) ==
  /\ Step
  /\ through[<<c, n>>] # {} /\ Allowed(u, c, "write")
  /\ through' = AddEdge(through, c, n, {})
  /\ \/ UNCHANGED coll
     \/ coll[n] = c /\ coll' = [coll EXCEPT ![n] = Gone]
  /\ rearranged' = (rearranged \/ Holds(n))
  /\ UNCHANGED <<grants, waiting, entries>>

(* delete_artifact of the only version: every edge to it goes, those from  *)
(* it stay.  delete_artifact_from_index is called without a principal and  *)
(* does nothing.                                                           *)
Delete(u, n) ==
  /\ Step
  /\ coll[n] \in Nodes /\ Allowed(u, n, "write")
  /\ coll' = [coll EXCEPT ![n] = Gone]
  /\ through' = [e \in DOMAIN through |-> IF e[2] = n THEN {} ELSE through[e]]
  /\ rearranged' = (rearranged \/ Holds(n))
  /\ UNCHANGED <<grants, waiting, entries>>

(* materialize_server_capabilities: the capability's document if there is  *)
(* none, and in any case its edge, which overwrites; nothing is queued.    *)
Import ==
  /\ Step
  /\ Exists(Server)
  /\ coll' = [coll EXCEPT ![Capability] = IF Exists(Capability) THEN @ ELSE Server]
  /\ through' = AddEdge(through, Server, Capability, {"read"})
  /\ rearranged' = (rearranged \/ Holds(Capability))
  /\ UNCHANGED <<grants, waiting, entries>>

(* upsert_user_collection_grant, by seeds and the platform's operator.     *)
Grant(u, n, actions) ==
  /\ Step
  /\ Exists(n)
  /\ grants' = [grants EXCEPT ![<<u, n>>] = actions]
  /\ UNCHANGED <<coll, through, waiting, entries, rearranged>>

Revoke(u, n) ==
  /\ Step
  /\ grants[<<u, n>>] # {}
  /\ grants' = [grants EXCEPT ![<<u, n>>] = {}]
  /\ UNCHANGED <<coll, through, waiting, entries, rearranged>>

(* reindex_all_artifacts reads the collections afresh.                     *)
Reindex ==
  /\ Step
  /\ waiting' = waiting \cup {<<n, CollectionOf(n)>> : n \in {m \in Nodes : Exists(m)}}
  /\ rearranged' = (\E n \in Nodes : Holds(n) /\ Ambiguous(n))
  /\ UNCHANGED <<store, entries>>

(* An index task resolves the principal when it runs.  Entries under other *)
(* principals and of other collections stay.                               *)
Index(task) ==
  /\ task \in waiting
  /\ waiting' = waiting \ {task}
  /\ \E r \in Roots(task[2]) : entries' = entries \cup {<<r, task[2], task[1]>>}
  /\ UNCHANGED <<store, steps, rearranged>>

ConeNext ==
  \/ \E u \in Users, n \in Nodes :
       CreateTop(u, n) \/ Save(u, n) \/ Delete(u, n) \/ Revoke(u, n)
  \/ \E u \in Users, n, c \in Nodes :
       Create(u, n, c) \/ Link(u, n, c) \/ Move(u, n, c) \/ Remove(u, n, c)
  \/ \E u \in Users, n \in Nodes, actions \in {{"read"}, Actions} : Grant(u, n, actions)
  \/ Import
  \/ Reindex
  \/ \E task \in waiting : Index(task)

ConeSpec == ConeInit /\ [][ConeNext]_coneVars

-----------------------------------------------------------------------------
(* When the queue is empty everyone finds what their light cone holds, in  *)
(* whichever collections it is linked and through whichever of them they   *)
(* reach it: "index and query resolve it identically"                      *)
(* (pipeline_unified.py:256).  Rearranging collections breaks this and a   *)
(* reindexing repairs it.  Imported capabilities are never put in the      *)
(* queue, nor are collections at the top.                                  *)
FoundWhereReadable ==
  waiting = {} /\ ~rearranged =>
    \A u \in Users : \A n \in Scope(u) \ {Capability} : coll[n] \in Nodes => Finds(u, n)

(* A step that adds takes nothing away: creating, linking and importing,   *)
(* which overwrite an edge that is already there, and granting, which      *)
(* overwrites a grant, leave everyone what they could read.                *)
Adds ==
  \/ \E u \in Users, n \in Nodes : CreateTop(u, n)
  \/ \E u \in Users, n, c \in Nodes : Create(u, n, c) \/ Link(u, n, c)
  \/ \E u \in Users, n \in Nodes, actions \in {{"read"}, Actions} : Grant(u, n, actions)
  \/ Import

AddingHidesNothing == [][(\A u \in Users : Scope(u) \subseteq Scope(u)') \/ ~Adds]_coneVars
=============================================================================
