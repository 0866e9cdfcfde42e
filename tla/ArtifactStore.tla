--------------------------- MODULE ArtifactStore ---------------------------
(***************************************************************************)
(* The Mantle artifact store: the versioned documents, the membership      *)
(* edges and the content objects that the artifact endpoints               *)
(* (mantle/routers/artifacts_router.py) and the workspace service          *)
(* (mantle/services/workspace_service.py) keep in ArangoDB and S3.         *)
(*                                                                         *)
(* Every endpoint is an `async def' that awaits nothing between reading    *)
(* and writing, and Mantle runs one event loop, so a handler is one step.  *)
(* A handler makes several independent database and S3 writes, with no     *)
(* transaction around them; in a lossy store every write whose failure the *)
(* code swallows (and every write a crash can skip) may be lost.           *)
(*                                                                         *)
(* Version ids are allocated in increasing order, so that the order of the *)
(* ids is the order of created_time.  The id of a version is also the name *)
(* of the S3 object that its own id gives ("artifacts/{id}.content").      *)
(***************************************************************************)
EXTENDS Naturals, FiniteSets

CONSTANTS
  Containers,    \* workspaces and collections; all exist from the start
  Targets,       \* the target_collections binding of each container
  Texts,         \* contents a client may send
  Large,         \* the contents over 128 KB, which are not kept inline
  Empty,         \* the empty content, and a content object that is absent
  Absent,        \* a version id without a document
  MaxVersions,   \* bound: versions ever allocated
  VersionIds,    \* bound: the version ids of a store that is lossy or not
  RootIds        \* bound: those of them that may start a new artifact

ASSUME ConstantsAssumption ==
  /\ Targets \in [Containers -> SUBSET Containers]
  /\ Large \subseteq Texts
  /\ Empty \notin Texts
  /\ MaxVersions \in Nat
  /\ VersionIds \in [BOOLEAN -> SUBSET (1..MaxVersions)]
  /\ RootIds \in [BOOLEAN -> SUBSET (1..MaxVersions)]

Ids   == 1..MaxVersions
NoKey == 0                       \* no content_key in the context

Doc == [root  : Ids,
        coll  : Containers,
        state : {"draft", "committed", "archived"},
        key   : Ids \cup {NoKey},
        text  : Texts \cup {Empty}]

VARIABLES
  docs,     \* artifacts: version id -> document
  edges,    \* collection_artifacts: <<container, root id>>
  blobs,    \* S3: object name -> content
  next,     \* the next version id
  lossy     \* may a write of a handler be lost?  Settled at the start

vars == <<docs, edges, blobs, next, lossy>>

(***************************************************************************)
(* Queries of db/arango.py.                                                *)
(***************************************************************************)
Live(i) == i \in Ids /\ docs[i] # Absent

Versions(r) == {i \in Ids : docs[i] # Absent /\ docs[i].root = r}

Drafts(r, c) == {i \in Versions(r) : docs[i].coll = c /\ docs[i].state = "draft"}

CommittedAnywhere(r) == {i \in Versions(r) : docs[i].state = "committed"}

Committed(r, c) == {i \in CommittedAnywhere(r) : docs[i].coll = c}

Latest(S) == {i \in S : \A j \in S : j <= i}

(* The document an endpoint addresses: the version itself unless it is     *)
(* archived, otherwise the non-archived version of that root with the      *)
(* newest modified_time (any of them: modification times are abstracted).  *)
FindArtifact(i) ==
  IF Live(i) /\ docs[i].state # "archived"
    THEN {i}
    ELSE {j \in Versions(i) : docs[j].state # "archived"}

(* update_artifact resolves the id inside the container of the document    *)
(* that was found: the version itself, a draft, the latest committed one.  *)
ResolveIn(i, c) ==
  IF Live(i) /\ docs[i].coll = c THEN {i}
  ELSE IF Drafts(i, c) # {} THEN Drafts(i, c)
  ELSE Latest(Committed(i, c))

PatchTargets(i) == UNION {ResolveIn(i, docs[f].coll) : f \in FindArtifact(i)}

(***************************************************************************)
(* Writes.                                                                 *)
(***************************************************************************)
Outcome == IF lossy THEN {TRUE, FALSE} ELSE {TRUE}

LinkOutcomes(S) == IF lossy THEN SUBSET S ELSE {S}

(* The content kept in the document once the object was stored (or not).   *)
Inline(t, stored) == IF stored /\ t \in Large THEN Empty ELSE t

(* Mutant: the object is named by a new id, not by the id of the version.  *)
ObjectKeyFresh(i, d) ==
  IF d.key # NoKey THEN d.key ELSE IF next \in Ids THEN next ELSE i

ObjectKey(i, d) == IF d.key = NoKey THEN i ELSE d.key

-----------------------------------------------------------------------------
Init ==
  /\ docs  = [i \in Ids |-> Absent]
  /\ edges = {}
  /\ blobs = [i \in Ids |-> Empty]
  /\ next  = 1
  /\ lossy \in BOOLEAN

(* POST /artifacts: store the content, insert a draft, add the membership  *)
(* edge and the edges of the target collections.                           *)
Create(c, t) ==
  /\ next \in RootIds[lossy]
  /\ \E stored \in Outcome, linked \in LinkOutcomes({c} \cup Targets[c]) :
       /\ docs' = [docs EXCEPT ![next] =
                     [root  |-> next, coll |-> c, state |-> "draft",
                      key   |-> IF t = Empty THEN NoKey ELSE next,
                      text  |-> Inline(t, stored)]]
       /\ blobs' = IF stored THEN [blobs EXCEPT ![next] = t] ELSE blobs
       /\ edges' = edges \cup (linked \X {next})
  /\ next' = next + 1

(* POST /artifacts with source_artifact_id: only an edge is added.         *)
Link(c, i) ==
  /\ \/ Live(i)
     \/ CommittedAnywhere(i) # {}
  /\ edges' = edges \cup {<<c, IF Live(i) THEN docs[i].root ELSE i>>}
  /\ UNCHANGED <<docs, blobs, next>>

(* PATCH with state = archived.                                            *)
Archive(i) ==
  /\ \E v \in PatchTargets(i) :
       /\ docs[v].state # "archived"
       /\ docs' = [docs EXCEPT ![v].state = "archived"]
  /\ UNCHANGED <<edges, blobs, next>>

(* Mutant: un-archiving writes the requested state.                        *)
RestoreAsRequested(i) ==
  /\ \E v \in PatchTargets(i), requested \in {"draft", "committed"} :
       /\ docs[v].state = "archived"
       /\ docs' = [docs EXCEPT ![v].state = requested]
  /\ UNCHANGED <<edges, blobs, next>>

(* PATCH of an archived version with any other state: back to draft.       *)
Restore(i) ==
  /\ \E v \in PatchTargets(i) :
       /\ docs[v].state = "archived"
       /\ docs' = [docs EXCEPT ![v].state = "draft"]
  /\ UNCHANGED <<edges, blobs, next>>

(* PATCH with state = committed: flip one draft in place.                  *)
CommitOne(i) ==
  /\ \E v \in PatchTargets(i) :
       /\ docs[v].state = "draft"
       /\ docs' = [docs EXCEPT ![v].state = "committed"]
  /\ UNCHANGED <<edges, blobs, next>>

(* The tail of update_artifact on a draft v whose document is d: the new   *)
(* context (which may lack content_key), then the new content, stored      *)
(* under the key the context names, then the document.                     *)
WriteDraft(v, d, t, keep) ==
  LET based == [d EXCEPT !.key = IF keep THEN @ ELSE NoKey]
      k     == ObjectKey(v, based)
  IN IF t = based.text \/ t = Empty
       THEN /\ \E saved \in Outcome :
                 docs' = [docs EXCEPT ![v] = IF saved THEN [based EXCEPT !.text = t] ELSE d]
            /\ UNCHANGED blobs
       ELSE \E stored, saved \in Outcome :
              /\ docs' = [docs EXCEPT ![v] =
                            IF saved THEN [based EXCEPT !.key = k, !.text = Inline(t, stored)]
                                     ELSE d]
              /\ blobs' = IF stored THEN [blobs EXCEPT ![k] = t] ELSE blobs

(* _ensure_draft copies the committed document, its context included, into *)
(* a new version.                                                          *)
DraftOf(v) == [docs[v] EXCEPT !.state = "draft"]

(* Mutant: the lookup of the draft loses its state filter.                 *)
ExistingDraftsAnyState(v) ==
  {i \in Versions(docs[v].root) : docs[i].coll = docs[v].coll}

ExistingDrafts(v) == Drafts(docs[v].root, docs[v].coll)

(* PATCH of content or context: a draft is edited in place; an edit of a   *)
(* committed version goes to the draft of its root, created on demand.     *)
Edit(i, t, keep) ==
  /\ \E v \in PatchTargets(i) :
       \/ /\ docs[v].state = "draft"
          /\ WriteDraft(v, docs[v], t, keep)
          /\ UNCHANGED next
       \/ /\ docs[v].state = "committed"
          /\ \E w \in ExistingDrafts(v) : WriteDraft(w, docs[w], t, keep)
          /\ UNCHANGED next
       \/ /\ docs[v].state = "committed"
          /\ ExistingDrafts(v) = {}
          /\ next \in VersionIds[lossy]
          /\ WriteDraft(next, DraftOf(v), t, keep)
          /\ next' = next + 1
  /\ UNCHANGED edges

(* DELETE: the object named by the context, the document, and every edge   *)
(* of the root when no committed version and no draft here is left.        *)
Delete(i) ==
  /\ Live(i)
  /\ \E f \in FindArtifact(i) : docs[f].coll = docs[i].coll
  /\ LET d      == docs[i]
         others == CommittedAnywhere(d.root) \ {i}
         drafts == Drafts(d.root, d.coll)
     IN \E gone, deleted, unlinked \in Outcome, keepEdges \in BOOLEAN :
          /\ keepEdges => others # {} \/ drafts \ {i} # {}
          /\ ~keepEdges => others = {} /\ (drafts = {} \/ i \in drafts)
          /\ blobs' = IF gone /\ d.key # NoKey THEN [blobs EXCEPT ![d.key] = Empty] ELSE blobs
          /\ docs'  = IF deleted THEN [docs EXCEPT ![i] = Absent] ELSE docs
          /\ edges' = IF keepEdges \/ ~unlinked THEN edges
                        ELSE {e \in edges : e[2] # d.root}
  /\ UNCHANGED next

(* POST /artifacts/{id}/remove: detach the root from one container and     *)
(* delete the draft that container owns.                                   *)
Remove(c, i) ==
  LET r == IF Live(i) THEN docs[i].root ELSE i
  IN /\ <<c, r>> \in edges
     /\ \E unlinked \in Outcome :
          edges' = IF unlinked THEN edges \ {<<c, r>>} ELSE edges
     /\ IF Drafts(r, c) = {}
          THEN UNCHANGED docs
          ELSE \E v \in Drafts(r, c), deleted \in Outcome :
                 docs' = IF deleted THEN [docs EXCEPT ![v] = Absent] ELSE docs
     /\ UNCHANGED <<blobs, next>>

(* POST /artifacts/{id}/revert: drop a draft that has a committed version. *)
Revert(i) ==
  /\ Live(i)
  /\ docs[i].state = "draft"
  /\ Committed(docs[i].root, docs[i].coll) # {}
  /\ docs' = [docs EXCEPT ![i] = Absent]
  /\ UNCHANGED <<edges, blobs, next>>

(* POST /artifacts/{id}/op/move: one version changes container; the edge   *)
(* of its root moves with it.  No result of the three writes is checked.   *)
Move(i, c) ==
  /\ Live(i)
  /\ \E f \in FindArtifact(i) : docs[f].coll = docs[i].coll
  /\ LET d == docs[i]
     IN \E moved, unlinked, linked \in Outcome :
          /\ docs'  = IF moved THEN [docs EXCEPT ![i].coll = c] ELSE docs
          /\ edges' = (IF unlinked THEN edges \ {<<d.coll, d.root>>} ELSE edges)
                        \cup (IF linked THEN {<<c, d.root>>} ELSE {})
  /\ UNCHANGED <<blobs, next>>

(* op/commit: flip the selected drafts of a workspace in one AQL update.   *)
CommitWorkspace(c, S) ==
  /\ S # {}
  /\ \A i \in S : Live(i) /\ docs[i].coll = c /\ docs[i].state = "draft"
  /\ docs' = [i \in Ids |-> IF i \in S THEN [docs[i] EXCEPT !.state = "committed"]
                                       ELSE docs[i]]
  /\ UNCHANGED <<edges, blobs, next>>

Handler ==
  \/ \E c \in Containers, t \in Texts \cup {Empty} : Create(c, t)
  \/ \E c \in Containers, i \in Ids : Link(c, i)
  \/ \E i \in Ids : Archive(i)
  \/ \E i \in Ids : Restore(i)
  \/ \E i \in Ids : CommitOne(i)
  \/ \E i \in Ids, t \in Texts \cup {Empty}, keep \in BOOLEAN : Edit(i, t, keep)
  \/ \E i \in Ids : Delete(i)
  \/ \E c \in Containers, i \in Ids : Remove(c, i)
  \/ \E i \in Ids : Revert(i)
  \/ \E c \in Containers, i \in Ids : Move(i, c)
  \/ \E c \in Containers, S \in SUBSET Ids : CommitWorkspace(c, S)

Next == Handler /\ UNCHANGED lossy

Spec == Init /\ [][Next]_vars

-----------------------------------------------------------------------------
(* Types of the documents, the edges and the content objects; and ids are  *)
(* allocated in order, so a version never precedes its root.               *)
TypeOK ==
  /\ docs \in [Ids -> Doc \cup {Absent}]
  /\ edges \subseteq Containers \X Ids
  /\ blobs \in [Ids -> Texts \cup {Empty}]
  /\ next \in 1..(MaxVersions + 1)
  /\ lossy \in BOOLEAN
  /\ \A i \in Ids : docs[i] # Absent => docs[i].root <= i /\ i < next

(* A content object is only ever shared by versions of one root: copying a *)
(* committed context into a draft, dropping content_key and storing under  *)
(* the own id again never make two artifacts write the same S3 object      *)
(* (_store_content_in_s3, _ensure_draft).                                  *)
KeysStayInLineage ==
  \A i, j \in Ids :
    docs[i] # Absent /\ docs[j] # Absent =>
      /\ docs[i].key = docs[j].key /\ docs[i].key # NoKey => docs[i].root = docs[j].root
      /\ docs[i].key = j => docs[i].root = docs[j].root

(* The life of a version: it starts as a draft, a committed one is only    *)
(* archived or deleted, an archived one only goes back to draft, a deleted *)
(* id never comes back, and the root never changes (update_artifact,       *)
(* commit, delete, move).                                                  *)
LegalStep(i) ==
  /\ docs[i] = Absent /\ docs'[i] # Absent => docs'[i].state = "draft" /\ i = next
  /\ docs[i] # Absent /\ docs'[i] # Absent =>
       /\ docs'[i].root = docs[i].root
       /\ docs[i].state = "committed" => docs'[i].state # "draft"
       /\ docs[i].state = "archived" => docs'[i].state # "committed"

LegalLifecycle == [][\A i \in Ids : LegalStep(i)]_vars

(* A document that is not a draft, before or after a step, keeps its       *)
(* content and its content_key: whatever an edit, a commit, an archive, a  *)
(* restore or a move of any version does, only drafts are written.         *)
FrozenStep ==
  \A i \in Ids :
    docs[i] # Absent /\ docs'[i] # Absent
      /\ (docs[i].state # "draft" \/ docs'[i].state # "draft") =>
        docs'[i].text = docs[i].text /\ docs'[i].key = docs[i].key

OnlyDraftsChange == [][FrozenStep]_vars

(* What is stored of the content of a version: the text in its document    *)
(* and the object its key names, which is all of it for a large text.      *)
ContentObject(i) == IF docs[i].key = NoKey THEN Empty ELSE blobs[docs[i].key]

(* The store implements the log of published records: no handler replaces  *)
(* what a committed version says of itself, and whatever draft is edited   *)
(* or version deleted, the one object that is written or removed changes   *)
(* committed versions of that key only (_store_content_in_s3, _ensure_     *)
(* draft, delete_artifact).                                                *)
PublishedRecord(i) ==
  [root |-> docs[i].root, key |-> docs[i].key, text |-> docs[i].text, object |-> ContentObject(i)]

Published ==
  [i \in {j \in Ids : docs[j] # Absent /\ docs[j].state = "committed"} |-> PublishedRecord(i)]

Log == INSTANCE PublishedLog
         WITH Id <- Ids, Key <- Ids, Root <- Ids, Text <- Texts \cup {Empty},
              Object <- Texts, Missing <- Empty, log <- Published

ImplementsPublishedLog == Log!Spec
=============================================================================
