------------------------ MODULE ArtifactStoreProofs ------------------------
(***************************************************************************)
(* What the artifact store guarantees for any containers, contents and     *)
(* number of versions, with and without lost writes.                       *)
(***************************************************************************)
EXTENDS ArtifactStore, TLAPS

(* A key names an object of an id that was allocated, so that the id of    *)
(* the next version names an object of no other artifact.                  *)
KeysAllocated ==
  \A i \in Ids : docs[i] # Absent => docs[i].key < next

IInv == TypeOK /\ KeysAllocated /\ KeysStayInLineage

(* A step that creates no document and leaves the root and the key of the  *)
(* documents it keeps.                                                     *)
Trims ==
  /\ docs' \in [Ids -> Doc \cup {Absent}]
  /\ \A i \in Ids : docs'[i] # Absent =>
       docs[i] # Absent /\ docs'[i].root = docs[i].root /\ docs'[i].key = docs[i].key
  /\ edges' \subseteq Containers \X Ids
  /\ blobs' \in [Ids -> Texts \cup {Empty}]
  /\ UNCHANGED <<next, lossy>>

(* A document of the store is one of the records of Doc.                   *)
LEMMA LiveDoc ==
  ASSUME TypeOK, NEW i \in Ids, docs[i] # Absent
  PROVE  /\ docs[i] \in Doc
         /\ docs[i].root \in Ids /\ docs[i].coll \in Containers
         /\ docs[i].key \in Ids \cup {NoKey} /\ docs[i].text \in Texts \cup {Empty}
         /\ docs[i].root <= i /\ i < next
  BY DEF TypeOK, Doc

(* Steps that trim keep the invariant.                                     *)
LEMMA TrimsKeepsIInv ==
  ASSUME IInv, Trims
  PROVE  IInv'
  <1>1. TypeOK'
    BY DEF IInv, TypeOK, Trims
  <1>2. KeysAllocated'
    BY DEF IInv, KeysAllocated, Trims
  <1>3. KeysStayInLineage'
    BY DEF IInv, KeysStayInLineage, Trims
  <1>4. QED
    BY <1>1, <1>2, <1>3 DEF IInv

(* The addressed documents are live.                                       *)
LEMMA PatchTargetsLive ==
  ASSUME TypeOK, NEW i \in Ids, NEW v \in PatchTargets(i)
  PROVE  v \in Ids /\ docs[v] # Absent
  BY DEF PatchTargets, ResolveIn, FindArtifact, Live, Drafts, Versions, Latest,
         Committed, CommittedAnywhere

(* What WriteDraft puts in the place of a version: a document that differs *)
(* from the one it was given in its key and its text only.                 *)
LEMMA WriteDraftWrites ==
  ASSUME TypeOK, NEW v \in Ids, NEW d \in Doc, NEW t \in Texts \cup {Empty},
         NEW keep \in BOOLEAN, WriteDraft(v, d, t, keep)
  PROVE  \E e \in Doc :
           /\ docs' = [docs EXCEPT ![v] = e]
           /\ e.root = d.root /\ e.coll = d.coll /\ e.state = d.state
           /\ e.key \in {d.key, NoKey, v}
           /\ blobs' \in [Ids -> Texts \cup {Empty}]
           /\ blobs' = blobs \/ \E k \in Ids : blobs' = [blobs EXCEPT ![k] = t]
  <1> DEFINE based == [d EXCEPT !.key = IF keep THEN @ ELSE NoKey]
             k     == ObjectKey(v, based)
  <1>1. /\ based \in Doc /\ k \in Ids
        /\ based.root = d.root /\ based.coll = d.coll /\ based.state = d.state
        /\ based.key \in {d.key, NoKey}
        /\ k \in {d.key, v}
    BY DEF Doc, ObjectKey, NoKey
  <1>2. CASE t = based.text \/ t = Empty
    BY <1>1, <1>2 DEF WriteDraft, TypeOK, Outcome, Doc
  <1>3. CASE ~(t = based.text \/ t = Empty)
    <2>1. PICK stored \in Outcome, saved \in Outcome :
            /\ docs' = [docs EXCEPT ![v] =
                          IF saved THEN [based EXCEPT !.key = k, !.text = Inline(t, stored)]
                                   ELSE d]
            /\ blobs' = IF stored THEN [blobs EXCEPT ![k] = t] ELSE blobs
      BY <1>3 DEF WriteDraft
    <2>2. [based EXCEPT !.key = k, !.text = Inline(t, stored)] \in Doc
      BY <1>1 DEF Doc, Inline
    <2>3. blobs' \in [Ids -> Texts \cup {Empty}]
      BY <1>1, <2>1 DEF TypeOK
    <2>4. QED
      BY <1>1, <2>1, <2>2, <2>3 DEF Doc
  <1>4. QED
    BY <1>2, <1>3

(* Every write of a draft, of an existing one or of the next version,      *)
(* keeps the invariant: it keeps the root, and its key stays in lineage.   *)
LEMMA WriteDraftKeepsIInv ==
  ASSUME IInv, ConstantsAssumption,
         NEW v \in Ids, NEW d \in Doc, NEW t \in Texts \cup {Empty}, NEW keep \in BOOLEAN,
         WriteDraft(v, d, t, keep),
         UNCHANGED <<edges, lossy>>,
         d.root <= v, v < next', next' \in 1..(MaxVersions + 1), next <= next',
         docs[v] = Absent => v = next,
         d.key < next,
         \A j \in Ids : docs[j] # Absent =>
           /\ docs[j].key = d.key /\ d.key # NoKey => docs[j].root = d.root
           /\ d.key = j => docs[j].root = d.root
           /\ docs[j].key = v => docs[j].root = d.root
  PROVE  IInv'
  <1>2. PICK e \in Doc :
          /\ docs' = [docs EXCEPT ![v] = e]
          /\ e.root = d.root
          /\ e.key \in {d.key, NoKey, v}
          /\ blobs' \in [Ids -> Texts \cup {Empty}]
    BY WriteDraftWrites DEF IInv
  <1>3. docs \in [Ids -> Doc \cup {Absent}] /\ docs'[v] = e
        /\ \A j \in Ids : j # v => docs'[j] = docs[j]
    BY <1>2 DEF IInv, TypeOK
  <1>4. TypeOK'
    BY <1>2, <1>3 DEF IInv, TypeOK, Doc, Ids
  <1>5. KeysAllocated'
    <2> SUFFICES ASSUME NEW j \in Ids, docs'[j] # Absent
                 PROVE  docs'[j].key < next'
      BY DEF KeysAllocated
    <2>1. CASE j = v
      BY <1>2, <1>3, <2>1 DEF Doc, Ids, NoKey, IInv, TypeOK
    <2>2. CASE j # v
      BY <1>3, <2>2, LiveDoc DEF IInv, TypeOK, KeysAllocated, Ids, NoKey
    <2>3. QED
      BY <2>1, <2>2
  <1>6. KeysStayInLineage'
    <2> SUFFICES ASSUME NEW i \in Ids, NEW j \in Ids,
                        docs'[i] # Absent, docs'[j] # Absent
                 PROVE  /\ docs'[i].key = docs'[j].key /\ docs'[i].key # NoKey
                             => docs'[i].root = docs'[j].root
                        /\ docs'[i].key = j => docs'[i].root = docs'[j].root
      BY DEF KeysStayInLineage
    <2>1. CASE i = v /\ j = v
      BY <2>1
    <2>2. CASE i = v /\ j # v
      BY <1>2, <1>3, <2>2 DEF NoKey, Ids
    <2>3. CASE i # v /\ j = v
      BY <1>2, <1>3, <2>3 DEF NoKey, Ids
    <2>4. CASE i # v /\ j # v
      BY <1>3, <2>4 DEF IInv, KeysStayInLineage
    <2>5. QED
      BY <2>1, <2>2, <2>3, <2>4
  <1>7. QED
    BY <1>4, <1>5, <1>6 DEF IInv

LEMMA CreateKeepsIInv ==
  ASSUME IInv, ConstantsAssumption, lossy' = lossy,
         NEW c \in Containers, NEW t \in Texts \cup {Empty}, Create(c, t)
  PROVE  IInv'
  <1>1. PICK stored \in Outcome, linked \in LinkOutcomes({c} \cup Targets[c]) :
          /\ docs' = [docs EXCEPT ![next] =
                        [root  |-> next, coll |-> c, state |-> "draft",
                         key   |-> IF t = Empty THEN NoKey ELSE next,
                         text  |-> Inline(t, stored)]]
          /\ blobs' = IF stored THEN [blobs EXCEPT ![next] = t] ELSE blobs
          /\ edges' = edges \cup (linked \X {next})
    BY DEF Create
  <1>2. next \in Ids /\ next' = next + 1 /\ docs[next] = Absent
    BY DEF Create, IInv, TypeOK, Ids, ConstantsAssumption
  <1> DEFINE e == [root  |-> next, coll |-> c, state |-> "draft",
                   key   |-> IF t = Empty THEN NoKey ELSE next,
                   text  |-> Inline(t, stored)]
  <1>3. e \in Doc /\ e.root = next /\ e.key \in {NoKey, next}
    BY <1>2 DEF Doc, Inline
  <1> HIDE DEF e
  <1>4. docs'[next] = e /\ \A j \in Ids : j # next => docs'[j] = docs[j]
    BY <1>1, <1>2 DEF IInv, TypeOK, e
  <1>5. linked \subseteq Containers
    BY DEF LinkOutcomes, ConstantsAssumption
  <1>6. TypeOK'
    <2>1. docs' \in [Ids -> Doc \cup {Absent}]
      BY <1>1, <1>2, <1>3 DEF IInv, TypeOK, e
    <2>2. edges' \subseteq Containers \X Ids
      BY <1>1, <1>2, <1>5 DEF IInv, TypeOK
    <2>3. blobs' \in [Ids -> Texts \cup {Empty}]
      BY <1>1, <1>2 DEF IInv, TypeOK
    <2>4. next' \in 1..(MaxVersions + 1)
      BY <1>2 DEF IInv, TypeOK, Ids, ConstantsAssumption
    <2>5. ASSUME NEW i \in Ids, docs'[i] # Absent
          PROVE  docs'[i].root <= i /\ i < next'
      <3>1. CASE i = next
        BY <1>2, <1>3, <1>4, <3>1 DEF Ids
      <3>2. CASE i # next
        BY <1>2, <1>4, <2>5, <3>2, LiveDoc DEF IInv, Ids
      <3>3. QED
        BY <3>1, <3>2
    <2>6. lossy' \in BOOLEAN
      BY DEF IInv, TypeOK
    <2>7. QED
      BY <2>1, <2>2, <2>3, <2>4, <2>5, <2>6 DEF TypeOK
  <1>7. ASSUME NEW i \in Ids, docs[i] # Absent
        PROVE  /\ docs[i].key < next /\ docs[i].key \in Nat
               /\ docs[i].root < next /\ docs[i].root \in Ids
    BY <1>2, <1>7, LiveDoc DEF IInv, KeysAllocated, Ids, NoKey
  <1>8. KeysAllocated'
    <2> SUFFICES ASSUME NEW j \in Ids, docs'[j] # Absent
                 PROVE  docs'[j].key < next'
      BY DEF KeysAllocated
    <2>1. CASE j = next
      BY <1>2, <1>3, <1>4, <2>1 DEF Ids, NoKey
    <2>2. CASE j # next
      BY <1>2, <1>4, <1>7, <2>2 DEF Ids
    <2>3. QED
      BY <2>1, <2>2
  <1>9. KeysStayInLineage'
    <2> SUFFICES ASSUME NEW i \in Ids, NEW j \in Ids,
                        docs'[i] # Absent, docs'[j] # Absent
                 PROVE  /\ docs'[i].key = docs'[j].key /\ docs'[i].key # NoKey
                             => docs'[i].root = docs'[j].root
                        /\ docs'[i].key = j => docs'[i].root = docs'[j].root
      BY DEF KeysStayInLineage
    <2>1. CASE i = next /\ j = next
      BY <2>1
    <2>2. CASE i = next /\ j # next
      BY <1>2, <1>3, <1>4, <1>7, <2>2 DEF NoKey, Ids
    <2>3. CASE i # next /\ j = next
      BY <1>2, <1>3, <1>4, <1>7, <2>3 DEF NoKey, Ids
    <2>4. CASE i # next /\ j # next
      BY <1>4, <2>4 DEF IInv, KeysStayInLineage
    <2>5. QED
      BY <2>1, <2>2, <2>3, <2>4
  <1>10. QED
    BY <1>6, <1>8, <1>9 DEF IInv

(* What an edit writes to is a draft of the root of the addressed version, *)
(* an existing one or the next version.                                    *)
LEMMA EditKeepsIInv ==
  ASSUME IInv, ConstantsAssumption, lossy' = lossy,
         NEW i \in Ids, NEW t \in Texts \cup {Empty}, NEW keep \in BOOLEAN, Edit(i, t, keep)
  PROVE  IInv'
  <1>1. ASSUME NEW w \in Ids, docs[w] # Absent, WriteDraft(w, docs[w], t, keep),
               UNCHANGED <<edges, lossy>>, next' = next
        PROVE  IInv'
    <2>1. docs[w] \in Doc /\ docs[w].root <= w /\ w < next /\ docs[w].key < next
      BY <1>1, LiveDoc DEF IInv, KeysAllocated
    <2>2. next' \in 1..(MaxVersions + 1) /\ next <= next'
      BY <1>1 DEF IInv, TypeOK, ConstantsAssumption
    <2>3. \A j \in Ids : docs[j] # Absent =>
            /\ docs[j].key = docs[w].key /\ docs[w].key # NoKey => docs[j].root = docs[w].root
            /\ docs[w].key = j => docs[j].root = docs[w].root
            /\ docs[j].key = w => docs[j].root = docs[w].root
      BY <1>1 DEF IInv, KeysStayInLineage
    <2>4. QED
      BY <1>1, <2>1, <2>2, <2>3, WriteDraftKeepsIInv
  <1>2. ASSUME NEW v \in Ids, docs[v] # Absent, next \in Ids,
               WriteDraft(next, DraftOf(v), t, keep), UNCHANGED <<edges, lossy>>,
               next' = next + 1
        PROVE  IInv'
    <2>1. docs[v] \in Doc /\ docs[v].root <= v /\ v < next /\ docs[v].key < next
      BY <1>2, LiveDoc DEF IInv, KeysAllocated
    <2>2. DraftOf(v) \in Doc /\ DraftOf(v).root = docs[v].root /\ DraftOf(v).key = docs[v].key
      BY <2>1 DEF DraftOf, Doc
    <2>3. next' \in 1..(MaxVersions + 1) /\ next <= next' /\ next < next'
      BY <1>2 DEF Ids, ConstantsAssumption
    <2>4. docs[next] = Absent
      BY <1>2 DEF IInv, TypeOK, Ids
    <2>5. \A j \in Ids : docs[j] # Absent =>
            /\ docs[j].key = docs[v].key /\ docs[v].key # NoKey => docs[j].root = docs[v].root
            /\ docs[v].key = j => docs[j].root = docs[v].root
            /\ docs[j].key # next
      <3>1. \A j \in Ids : docs[j] # Absent => docs[j].key # next
        BY <1>2, LiveDoc DEF IInv, KeysAllocated, Ids, NoKey
      <3>2. QED
        BY <1>2, <3>1 DEF IInv, KeysStayInLineage
    <2>6. DraftOf(v).root <= next /\ DraftOf(v).key < next
      BY <1>2, <2>1, <2>2 DEF Doc, Ids
    <2>7. QED
      BY <1>2, <2>2, <2>3, <2>4, <2>5, <2>6, WriteDraftKeepsIInv
  <1>3. PICK v \in PatchTargets(i) :
          \/ docs[v].state = "draft" /\ WriteDraft(v, docs[v], t, keep) /\ next' = next
          \/ (\E w \in ExistingDrafts(v) : WriteDraft(w, docs[w], t, keep)) /\ next' = next
          \/ next \in Ids /\ WriteDraft(next, DraftOf(v), t, keep) /\ next' = next + 1
    BY DEF Edit, IInv, TypeOK, ConstantsAssumption, Ids
  <1>4. v \in Ids /\ docs[v] # Absent
    BY PatchTargetsLive DEF IInv
  <1>5. \A w \in ExistingDrafts(v) : w \in Ids /\ docs[w] # Absent
    BY DEF ExistingDrafts, Drafts, Versions
  <1>6. edges' = edges
    BY DEF Edit
  <1>7. QED
    BY <1>1, <1>2, <1>3, <1>4, <1>5, <1>6

(* The three ways a PATCH flips the state of one version.                  *)
LEMMA StateFlipTrims ==
  ASSUME TypeOK, NEW v \in Ids, docs[v] # Absent,
         NEW st \in {"draft", "committed", "archived"},
         docs' = [docs EXCEPT ![v].state = st],
         UNCHANGED <<edges, blobs, next, lossy>>
  PROVE  Trims
  <1>1. docs[v] \in Doc
    BY LiveDoc
  <1>2. QED
    BY <1>1 DEF TypeOK, Trims, Doc

LEMMA DeleteTrims ==
  ASSUME TypeOK, lossy' = lossy, NEW i \in Ids, Delete(i)
  PROVE  Trims
  <1>1. docs[i] \in Doc /\ docs[i].key \in Ids \cup {NoKey}
    BY LiveDoc DEF Delete, Live
  <1>2. PICK gone \in Outcome, deleted \in Outcome, unlinked \in Outcome, keepEdges \in BOOLEAN :
          /\ blobs' = IF gone /\ docs[i].key # NoKey
                        THEN [blobs EXCEPT ![docs[i].key] = Empty] ELSE blobs
          /\ docs'  = IF deleted THEN [docs EXCEPT ![i] = Absent] ELSE docs
          /\ edges' = IF keepEdges \/ ~unlinked THEN edges
                        ELSE {e \in edges : e[2] # docs[i].root}
    BY DEF Delete
  <1>3. next' = next
    BY DEF Delete
  <1>4. QED
    BY <1>1, <1>2, <1>3 DEF TypeOK, Trims

LEMMA RemoveTrims ==
  ASSUME TypeOK, lossy' = lossy, NEW c \in Containers, NEW i \in Ids, Remove(c, i)
  PROVE  Trims
  <1>1. edges' \subseteq edges /\ blobs' = blobs /\ next' = next
    BY DEF Remove
  <1>2. \/ docs' = docs
        \/ \E v \in Ids : docs' = [docs EXCEPT ![v] = Absent]
    BY DEF Remove, Drafts, Versions
  <1>3. QED
    BY <1>1, <1>2 DEF TypeOK, Trims

LEMMA MoveTrims ==
  ASSUME TypeOK, lossy' = lossy, NEW c \in Containers, NEW i \in Ids, Move(i, c)
  PROVE  Trims
  <1>1. docs[i] \in Doc
    BY LiveDoc DEF Move, Live
  <1>2. PICK moved \in Outcome, unlinked \in Outcome, linked \in Outcome :
          /\ docs'  = IF moved THEN [docs EXCEPT ![i].coll = c] ELSE docs
          /\ edges' = (IF unlinked THEN edges \ {<<docs[i].coll, docs[i].root>>} ELSE edges)
                        \cup (IF linked THEN {<<c, docs[i].root>>} ELSE {})
    BY DEF Move
  <1>3. blobs' = blobs /\ next' = next
    BY DEF Move
  <1>4. edges' \subseteq Containers \X Ids
    BY <1>1, <1>2 DEF TypeOK, Doc
  <1>5. docs' \in [Ids -> Doc \cup {Absent}]
    BY <1>1, <1>2 DEF TypeOK, Doc
  <1>6. ASSUME NEW j \in Ids, docs'[j] # Absent
        PROVE  docs[j] # Absent /\ docs'[j].root = docs[j].root /\ docs'[j].key = docs[j].key
    <2>1. CASE j = i
      BY <1>1, <1>2, <2>1 DEF Move, Live, TypeOK, Doc
    <2>2. CASE j # i
      BY <1>2, <1>6, <2>2 DEF TypeOK
    <2>3. QED
      BY <2>1, <2>2
  <1>7. QED
    BY <1>3, <1>4, <1>5, <1>6 DEF TypeOK, Trims

LEMMA CommitWorkspaceTrims ==
  ASSUME TypeOK, lossy' = lossy, NEW c \in Containers, NEW S \in SUBSET Ids, CommitWorkspace(c, S)
  PROVE  Trims
  <1>1. \A i \in S : docs[i] # Absent /\ docs[i] \in Doc
    BY LiveDoc DEF CommitWorkspace, Live
  <1>2. QED
    BY <1>1 DEF CommitWorkspace, TypeOK, Trims, Doc

-----------------------------------------------------------------------------
(* Every step of the store keeps the inductive invariant.                  *)
LEMMA NextKeepsIInv ==
  ASSUME IInv, ConstantsAssumption, [Next]_vars
  PROVE  IInv'
  <1> USE DEF IInv
  <1>1. ASSUME NEW c \in Containers, NEW t \in Texts \cup {Empty}, Create(c, t), lossy' = lossy
        PROVE  IInv'
    BY <1>1, CreateKeepsIInv
  <1>2. ASSUME NEW c \in Containers, NEW i \in Ids, Link(c, i), lossy' = lossy
        PROVE  IInv'
    <2>1. edges' \subseteq Containers \X Ids
      <3>1. Live(i) => docs[i].root \in Ids
        BY LiveDoc DEF Live
      <3>2. QED
        BY <1>2, <3>1 DEF Link, TypeOK
    <2>2. Trims
      BY <1>2, <2>1 DEF Link, Trims, TypeOK
    <2>3. QED
      BY <2>2, TrimsKeepsIInv
  <1>3. ASSUME NEW i \in Ids, Archive(i) \/ Restore(i) \/ CommitOne(i), lossy' = lossy
        PROVE  IInv'
    <2>1. PICK v \in PatchTargets(i), st \in {"draft", "committed", "archived"} :
            docs' = [docs EXCEPT ![v].state = st]
      BY <1>3 DEF Archive, Restore, CommitOne
    <2>2. v \in Ids /\ docs[v] # Absent
      BY PatchTargetsLive
    <2>3. Trims
      BY <1>3, <2>1, <2>2, StateFlipTrims DEF Archive, Restore, CommitOne
    <2>4. QED
      BY <2>3, TrimsKeepsIInv
  <1>4. ASSUME NEW i \in Ids, NEW t \in Texts \cup {Empty}, NEW keep \in BOOLEAN,
               Edit(i, t, keep), lossy' = lossy
        PROVE  IInv'
    BY <1>4, EditKeepsIInv
  <1>5. ASSUME NEW i \in Ids, Delete(i), lossy' = lossy
        PROVE  IInv'
    BY <1>5, DeleteTrims, TrimsKeepsIInv
  <1>6. ASSUME NEW c \in Containers, NEW i \in Ids, Remove(c, i), lossy' = lossy
        PROVE  IInv'
    BY <1>6, RemoveTrims, TrimsKeepsIInv
  <1>7. ASSUME NEW i \in Ids, Revert(i), lossy' = lossy
        PROVE  IInv'
    <2>1. Trims
      BY <1>7 DEF Revert, Trims, TypeOK
    <2>2. QED
      BY <2>1, TrimsKeepsIInv
  <1>8. ASSUME NEW c \in Containers, NEW i \in Ids, Move(i, c), lossy' = lossy
        PROVE  IInv'
    BY <1>8, MoveTrims, TrimsKeepsIInv
  <1>9. ASSUME NEW c \in Containers, NEW S \in SUBSET Ids, CommitWorkspace(c, S), lossy' = lossy
        PROVE  IInv'
    BY <1>9, CommitWorkspaceTrims, TrimsKeepsIInv
  <1>10. CASE UNCHANGED vars
    BY <1>10 DEF vars, TypeOK, KeysAllocated, KeysStayInLineage
  <1>11. QED
    BY <1>1, <1>2, <1>3, <1>4, <1>5, <1>6, <1>7, <1>8, <1>9, <1>10 DEF Next, Handler

(* The inductive invariant holds in every reachable state.                 *)
LEMMA StoreInvariant == Spec => []IInv
  <1>1. Init => IInv
    BY ConstantsAssumption DEF Init, IInv, TypeOK, KeysAllocated, KeysStayInLineage, Ids
  <1>2. IInv /\ [Next]_vars => IInv'
    BY NextKeepsIInv, ConstantsAssumption
  <1>3. QED
    BY <1>1, <1>2, PTL DEF Spec

(* The documents, edges and objects are well typed, and a version never    *)
(* precedes its root, whatever writes the handlers lose.                   *)
THEOREM StoreTypeOK == Spec => []TypeOK
  <1>1. IInv => TypeOK
    BY DEF IInv
  <1>2. QED
    BY <1>1, StoreInvariant, PTL

(* No two artifacts ever share a content object: edits, moves, restores    *)
(* and lost writes keep every content_key inside the versions of one root. *)
THEOREM StoreKeysStayInLineage == Spec => []KeysStayInLineage
  <1>1. IInv => KeysStayInLineage
    BY DEF IInv
  <1>2. QED
    BY <1>1, StoreInvariant, PTL

-----------------------------------------------------------------------------
(* What a step does to the documents                                       *)

(* The four ways a version changes its state.                              *)
Turn == {<<"draft", "committed">>, <<"draft", "archived">>,
         <<"committed", "archived">>, <<"archived", "draft">>}

Drops(v) == docs' = [docs EXCEPT ![v] = Absent]

Turns(v) ==
  /\ docs[v] # Absent
  /\ \E st \in {"draft", "committed", "archived"} :
       <<docs[v].state, st>> \in Turn /\ docs' = [docs EXCEPT ![v].state = st]

Shifts(v) ==
  /\ docs[v] # Absent
  /\ \E c \in Containers : docs' = [docs EXCEPT ![v].coll = c]

Commits(S) ==
  /\ \A i \in S : docs[i] # Absent /\ docs[i].state = "draft"
  /\ docs' = [i \in Ids |-> IF i \in S THEN [docs[i] EXCEPT !.state = "committed"]
                                       ELSE docs[i]]

Writes(v) ==
  /\ docs[v] # Absent /\ docs[v].state = "draft"
  /\ \E e \in Doc : /\ docs' = [docs EXCEPT ![v] = e]
                    /\ e.root = docs[v].root /\ e.state = "draft"

Starts ==
  /\ next \in Ids /\ docs[next] = Absent
  /\ \E e \in Doc : /\ docs' = [docs EXCEPT ![next] = e]
                    /\ e.root = next /\ e.state = "draft"

Branches(v) ==
  /\ next \in Ids /\ docs[next] = Absent
  /\ docs[v] # Absent /\ docs[v].state = "committed"
  /\ Drafts(docs[v].root, docs[v].coll) = {}
  /\ \E e \in Doc : /\ docs' = [docs EXCEPT ![next] = e]
                    /\ e.root = docs[v].root /\ e.coll = docs[v].coll /\ e.state = "draft"
                    /\ e.key \in {docs[v].key, NoKey, next}

DocsStep ==
  \/ docs' = docs
  \/ \E v \in Ids : Drops(v) \/ Turns(v) \/ Shifts(v) \/ Writes(v) \/ Branches(v)
  \/ \E S \in SUBSET Ids : Commits(S)
  \/ Starts

(* An edit writes a draft that exists, or branches from a committed        *)
(* version.                                                                *)
LEMMA EditSteps ==
  ASSUME TypeOK, ConstantsAssumption,
         NEW i \in Ids, NEW t \in Texts \cup {Empty}, NEW keep \in BOOLEAN, Edit(i, t, keep)
  PROVE  DocsStep
  <1>1. PICK v \in PatchTargets(i) :
          \/ docs[v].state = "draft" /\ WriteDraft(v, docs[v], t, keep)
          \/ \E w \in ExistingDrafts(v) : WriteDraft(w, docs[w], t, keep)
          \/ /\ docs[v].state = "committed" /\ ExistingDrafts(v) = {} /\ next \in Ids
             /\ WriteDraft(next, DraftOf(v), t, keep)
    BY DEF Edit, TypeOK, ConstantsAssumption, Ids
  <1>2. v \in Ids /\ docs[v] # Absent
    BY PatchTargetsLive
  <1>3. ASSUME NEW w \in Ids, docs[w] # Absent, docs[w].state = "draft",
               WriteDraft(w, docs[w], t, keep)
        PROVE  Writes(w)
    <2>1. docs[w] \in Doc
      BY <1>3, LiveDoc
    <2>2. QED
      BY <1>3, <2>1, WriteDraftWrites DEF Writes
  <1>4. CASE docs[v].state = "draft" /\ WriteDraft(v, docs[v], t, keep)
    BY <1>2, <1>3, <1>4 DEF DocsStep
  <1>5. CASE \E w \in ExistingDrafts(v) : WriteDraft(w, docs[w], t, keep)
    <2>1. PICK w \in ExistingDrafts(v) : WriteDraft(w, docs[w], t, keep)
      BY <1>5
    <2>2. w \in Ids /\ docs[w] # Absent /\ docs[w].state = "draft"
      BY DEF ExistingDrafts, Drafts, Versions
    <2>3. QED
      BY <1>3, <2>1, <2>2 DEF DocsStep
  <1>6. CASE /\ docs[v].state = "committed" /\ ExistingDrafts(v) = {} /\ next \in Ids
             /\ WriteDraft(next, DraftOf(v), t, keep)
    <2>1. docs[v] \in Doc
      BY <1>2, LiveDoc
    <2>2. /\ DraftOf(v) \in Doc /\ DraftOf(v).root = docs[v].root
          /\ DraftOf(v).key = docs[v].key /\ DraftOf(v).coll = docs[v].coll
          /\ DraftOf(v).state = "draft"
      BY <2>1 DEF DraftOf, Doc
    <2>3. docs[next] = Absent
      BY <1>6 DEF TypeOK, Ids
    <2>4. Branches(v)
      BY <1>2, <1>6, <2>2, <2>3, WriteDraftWrites DEF Branches, ExistingDrafts
    <2>5. QED
      BY <1>2, <2>4 DEF DocsStep
  <1>7. QED
    BY <1>1, <1>4, <1>5, <1>6

(* Every handler is one of these.                                          *)
LEMMA NextSteps ==
  ASSUME TypeOK, ConstantsAssumption, [Next]_vars
  PROVE  DocsStep
  <1>1. ASSUME NEW c \in Containers, NEW t \in Texts \cup {Empty}, Create(c, t)
        PROVE  DocsStep
    <2>1. PICK stored \in Outcome :
            docs' = [docs EXCEPT ![next] =
                       [root  |-> next, coll |-> c, state |-> "draft",
                        key   |-> IF t = Empty THEN NoKey ELSE next,
                        text  |-> Inline(t, stored)]]
      BY <1>1 DEF Create
    <2>2. next \in Ids /\ docs[next] = Absent
      BY <1>1 DEF Create, TypeOK, Ids, ConstantsAssumption
    <2>3. [root  |-> next, coll |-> c, state |-> "draft",
           key   |-> IF t = Empty THEN NoKey ELSE next,
           text  |-> Inline(t, stored)] \in Doc
      BY <2>2 DEF Doc, Inline
    <2>4. Starts
      BY <2>1, <2>2, <2>3 DEF Starts
    <2>5. QED
      BY <2>4 DEF DocsStep
  <1>2. ASSUME NEW i \in Ids, Archive(i) \/ Restore(i) \/ CommitOne(i)
        PROVE  DocsStep
    <2>1. PICK v \in PatchTargets(i), st \in {"draft", "committed", "archived"} :
            /\ docs' = [docs EXCEPT ![v].state = st]
            /\ \/ docs[v].state # "archived" /\ st = "archived"
               \/ docs[v].state = "archived" /\ st = "draft"
               \/ docs[v].state = "draft" /\ st = "committed"
      BY <1>2 DEF Archive, Restore, CommitOne
    <2>2. v \in Ids /\ docs[v] # Absent
      BY PatchTargetsLive
    <2>3. docs[v].state \in {"draft", "committed", "archived"}
      BY <2>2, LiveDoc DEF Doc
    <2>4. Turns(v)
      BY <2>1, <2>2, <2>3 DEF Turns, Turn
    <2>5. QED
      BY <2>2, <2>4 DEF DocsStep
  <1>3. ASSUME NEW i \in Ids, Delete(i) \/ Revert(i)
        PROVE  DocsStep
    BY <1>3 DEF Delete, Revert, DocsStep, Drops
  <1>4. ASSUME NEW c \in Containers, NEW i \in Ids, Remove(c, i)
        PROVE  DocsStep
    BY <1>4 DEF Remove, Drafts, Versions, DocsStep, Drops
  <1>5. ASSUME NEW c \in Containers, NEW i \in Ids, Move(i, c)
        PROVE  DocsStep
    BY <1>5 DEF Move, Live, DocsStep, Shifts
  <1>6. ASSUME NEW c \in Containers, NEW S \in SUBSET Ids, CommitWorkspace(c, S)
        PROVE  DocsStep
    <2>1. Commits(S)
      BY <1>6 DEF CommitWorkspace, Live, Commits
    <2>2. QED
      BY <2>1 DEF DocsStep
  <1>7. ASSUME NEW c \in Containers, NEW i \in Ids, Link(c, i)
        PROVE  DocsStep
    BY <1>7 DEF Link, DocsStep
  <1>8. CASE UNCHANGED vars
    BY <1>8 DEF vars, DocsStep
  <1>9. QED
    BY <1>1, <1>2, <1>3, <1>4, <1>5, <1>6, <1>7, <1>8, EditSteps DEF Next, Handler

-----------------------------------------------------------------------------
(* The life of a version                                                   *)

LEMMA DocsStepIsLegal ==
  ASSUME TypeOK, DocsStep, NEW i \in Ids
  PROVE  LegalStep(i)
  <1>0. docs \in [Ids -> Doc \cup {Absent}]
    BY DEF TypeOK
  <1>1. docs[i] # Absent => docs[i] \in Doc
    BY LiveDoc
  <1>2. CASE docs' = docs
    BY <1>2 DEF LegalStep
  <1>3. ASSUME NEW v \in Ids, Drops(v)
        PROVE  LegalStep(i)
    BY <1>0, <1>3 DEF Drops, LegalStep
  <1>4. ASSUME NEW v \in Ids, Turns(v)
        PROVE  LegalStep(i)
    <2>1. CASE i = v
      BY <1>0, <1>1, <1>4, <2>1 DEF Turns, Turn, LegalStep, Doc
    <2>2. CASE i # v
      BY <1>0, <1>4, <2>2 DEF Turns, LegalStep
    <2>3. QED
      BY <2>1, <2>2
  <1>5. ASSUME NEW v \in Ids, Shifts(v)
        PROVE  LegalStep(i)
    <2>1. CASE i = v
      BY <1>0, <1>1, <1>5, <2>1 DEF Shifts, LegalStep, Doc
    <2>2. CASE i # v
      BY <1>0, <1>5, <2>2 DEF Shifts, LegalStep
    <2>3. QED
      BY <2>1, <2>2
  <1>6. ASSUME NEW v \in Ids, Writes(v)
        PROVE  LegalStep(i)
    BY <1>0, <1>6 DEF Writes, LegalStep
  <1>7. ASSUME NEW v \in Ids, Branches(v)
        PROVE  LegalStep(i)
    BY <1>0, <1>7 DEF Branches, LegalStep
  <1>8. ASSUME NEW S \in SUBSET Ids, Commits(S)
        PROVE  LegalStep(i)
    BY <1>0, <1>1, <1>8 DEF Commits, LegalStep, Doc
  <1>9. CASE Starts
    BY <1>0, <1>9 DEF Starts, LegalStep
  <1>10. QED
    BY <1>2, <1>3, <1>4, <1>5, <1>6, <1>7, <1>8, <1>9 DEF DocsStep

(* A document that is not a draft before or after keeps its content.       *)
LEMMA DocsStepFreezes ==
  ASSUME TypeOK, DocsStep
  PROVE  FrozenStep
  <1>0. docs \in [Ids -> Doc \cup {Absent}]
    BY DEF TypeOK
  <1> SUFFICES ASSUME NEW i \in Ids, docs[i] # Absent, docs'[i] # Absent,
                      docs[i].state # "draft" \/ docs'[i].state # "draft"
               PROVE  docs'[i].text = docs[i].text /\ docs'[i].key = docs[i].key
    BY DEF FrozenStep
  <1>1. docs[i] \in Doc
    BY LiveDoc
  <1>2. ASSUME NEW v \in Ids, Drops(v) \/ Turns(v) \/ Shifts(v)
        PROVE  docs'[i].text = docs[i].text /\ docs'[i].key = docs[i].key
    <2>1. CASE i = v
      BY <1>0, <1>1, <1>2, <2>1 DEF Drops, Turns, Shifts, Doc
    <2>2. CASE i # v
      BY <1>0, <1>2, <2>2 DEF Drops, Turns, Shifts
    <2>3. QED
      BY <2>1, <2>2
  <1>3. ASSUME NEW v \in Ids, Writes(v) \/ Branches(v)
        PROVE  docs'[i].text = docs[i].text /\ docs'[i].key = docs[i].key
    BY <1>0, <1>3 DEF Writes, Branches
  <1>4. ASSUME NEW S \in SUBSET Ids, Commits(S)
        PROVE  docs'[i].text = docs[i].text /\ docs'[i].key = docs[i].key
    BY <1>0, <1>1, <1>4 DEF Commits, Doc
  <1>5. CASE Starts
    BY <1>0, <1>5 DEF Starts
  <1>6. QED
    BY <1>2, <1>3, <1>4, <1>5 DEF DocsStep

-----------------------------------------------------------------------------
(* The log of published records                                            *)

Pub == {j \in Ids : docs[j] # Absent /\ docs[j].state = "committed"}

(* The objects of the published versions are left alone.                   *)
ObjectsStay == \A i \in Pub : docs[i].key # NoKey => blobs'[docs[i].key] = blobs[docs[i].key]

(* A published version whose document and object stay keeps its record.    *)
LEMMA RecordStays ==
  ASSUME ObjectsStay, NEW i \in Pub,
         docs'[i].root = docs[i].root, docs'[i].key = docs[i].key, docs'[i].text = docs[i].text
  PROVE  PublishedRecord(i)' = PublishedRecord(i)
  BY DEF ObjectsStay, PublishedRecord, ContentObject

(* As long as every published record stays, the step publishes.            *)
LEMMA GrowthPublishes ==
  ASSUME TypeOK',
         \A i \in Pub : i \in Pub' /\ PublishedRecord(i)' = PublishedRecord(i)
  PROVE  Log!Publish
  <1>1. Published = [i \in Pub |-> PublishedRecord(i)]
    BY DEF Published, Pub
  <1>2. Published' = [i \in Pub' |-> PublishedRecord(i)']
    BY DEF Published, Pub
  <1>3. \A i \in Pub' : PublishedRecord(i)' \in Log!Record
    BY DEF TypeOK, Pub, PublishedRecord, ContentObject, Doc, Log!Record
  <1>4. Pub' \subseteq Ids
    BY DEF Pub
  <1>5. QED
    BY <1>1, <1>2, <1>3, <1>4 DEF Log!Publish

(* If one record goes and the others stay, the step withdraws it.          *)
LEMMA ShrinkingWithdraws ==
  ASSUME NEW v \in Pub, Pub' = Pub \ {v},
         \A i \in Pub' : PublishedRecord(i)' = PublishedRecord(i)
  PROVE  Log!Next
  <1>1. Published = [i \in Pub |-> PublishedRecord(i)]
    BY DEF Published, Pub
  <1>2. Published' = [i \in Pub' |-> PublishedRecord(i)']
    BY DEF Published, Pub
  <1>3. Log!Withdraw(v)
    BY <1>1, <1>2 DEF Log!Withdraw, Log!Without
  <1>4. v \in DOMAIN Published
    BY <1>1
  <1>5. QED
    BY <1>3, <1>4 DEF Log!Next

(* One object is written and the published documents stay: the records of  *)
(* that key are rewritten together.                                        *)
LEMMA WritingRewrites ==
  ASSUME TypeOK, NEW k \in Ids, NEW c \in Texts \cup {Empty},
         blobs' = [blobs EXCEPT ![k] = c],
         Pub' = Pub, \A i \in Pub : docs'[i] = docs[i]
  PROVE  Log!Next
  <1>1. Published = [i \in Pub |-> PublishedRecord(i)]
    BY DEF Published, Pub
  <1>2. Published' = [i \in Pub |-> PublishedRecord(i)']
    BY DEF Published, Pub
  <1>3. ASSUME NEW i \in Pub
        PROVE  PublishedRecord(i)' = IF PublishedRecord(i).key = k
                                       THEN [PublishedRecord(i) EXCEPT !.object = c]
                                       ELSE PublishedRecord(i)
    <2>1. docs[i].key \in Ids \cup {NoKey}
      BY LiveDoc DEF Pub
    <2>2. k # NoKey
      BY DEF Ids, NoKey
    <2>3. CASE docs[i].key = k
      BY <2>2, <2>3 DEF PublishedRecord, ContentObject, TypeOK
    <2>4. CASE docs[i].key # k
      BY <2>1, <2>4 DEF PublishedRecord, ContentObject, TypeOK
    <2>5. QED
      BY <2>3, <2>4
  <1>4. Log!Rewrite(k, c)
    BY <1>1, <1>2, <1>3 DEF Log!Rewrite, Log!Rewritten
  <1>5. QED
    BY <1>4 DEF Log!Next

(* A version is deleted with its object: the others that name it lose it.  *)
LEMMA DeletingWithdraws ==
  ASSUME TypeOK, NEW v \in Pub, docs[v].key # NoKey,
         docs' = [docs EXCEPT ![v] = Absent],
         blobs' = [blobs EXCEPT ![docs[v].key] = Empty]
  PROVE  Log!Next
  <1> DEFINE k == docs[v].key
  <1>0. v \in Ids /\ k \in Ids /\ k # NoKey
    BY LiveDoc DEF Pub
  <1>1. Published = [i \in Pub |-> PublishedRecord(i)]
    BY DEF Published, Pub
  <1>2. Pub' = Pub \ {v} /\ \A i \in Pub \ {v} : docs'[i] = docs[i]
    BY <1>0 DEF Pub, TypeOK
  <1>3. Published' = [i \in Pub \ {v} |-> PublishedRecord(i)']
    BY <1>2 DEF Published, Pub
  <1>4. ASSUME NEW i \in Pub \ {v}
        PROVE  PublishedRecord(i)' = IF PublishedRecord(i).key = k
                                       THEN [PublishedRecord(i) EXCEPT !.object = Empty]
                                       ELSE PublishedRecord(i)
    <2>1. docs[i].key \in Ids \cup {NoKey} /\ docs'[i] = docs[i]
      BY <1>2, LiveDoc DEF Pub
    <2>2. CASE docs[i].key = k
      BY <1>0, <2>1, <2>2 DEF PublishedRecord, ContentObject, TypeOK
    <2>3. CASE docs[i].key # k
      BY <1>0, <2>1, <2>3 DEF PublishedRecord, ContentObject, TypeOK
    <2>4. QED
      BY <2>2, <2>3
  <1>5. Published[v].key = k
    BY <1>1 DEF PublishedRecord
  <1>6. Log!WithdrawWithObject(v)
    BY <1>0, <1>1, <1>3, <1>4, <1>5 DEF Log!WithdrawWithObject, Log!Rewritten, Log!Without
  <1>7. v \in DOMAIN Published
    BY <1>1
  <1>8. QED
    BY <1>6, <1>7 DEF Log!Next

(* A step that touches one version and, if it stays published, leaves its  *)
(* record, is a step of the log.                                           *)
LEMMA OneVersionLogs ==
  ASSUME TypeOK, TypeOK', ObjectsStay, NEW v \in Ids,
         \A j \in Ids : j # v => docs'[j] = docs[j],
         v \in Pub /\ v \in Pub' => PublishedRecord(v)' = PublishedRecord(v)
  PROVE  Log!Next
  <1>1. \A j \in Ids : j # v =>
          (j \in Pub <=> j \in Pub') /\ (j \in Pub => PublishedRecord(j)' = PublishedRecord(j))
    BY RecordStays DEF Pub
  <1>2. CASE v \in Pub /\ v \notin Pub'
    <2>1. Pub' = Pub \ {v}
      BY <1>1, <1>2 DEF Pub
    <2>2. \A i \in Pub' : PublishedRecord(i)' = PublishedRecord(i)
      BY <1>1, <1>2 DEF Pub
    <2>3. QED
      BY <1>2, <2>1, <2>2, ShrinkingWithdraws
  <1>3. CASE ~(v \in Pub /\ v \notin Pub')
    <2>1. \A i \in Pub : i \in Pub' /\ PublishedRecord(i)' = PublishedRecord(i)
      BY <1>1, <1>3 DEF Pub
    <2>2. QED
      BY <2>1, GrowthPublishes DEF Log!Next
  <1>4. QED
    BY <1>2, <1>3

(* Whatever a step does to the documents, the log makes a step if the      *)
(* published objects stay.                                                 *)
LEMMA DocsStepLogs ==
  ASSUME TypeOK, TypeOK', ObjectsStay, DocsStep
  PROVE  Log!Next
  <1>0. docs \in [Ids -> Doc \cup {Absent}]
    BY DEF TypeOK
  <1>1. CASE docs' = docs
    BY <1>1, RecordStays, GrowthPublishes DEF Pub, Log!Next
  <1>2. ASSUME NEW v \in Ids, Drops(v)
        PROVE  Log!Next
    BY <1>0, <1>2, OneVersionLogs DEF Drops, Pub
  <1>3. ASSUME NEW v \in Ids, Turns(v)
        PROVE  Log!Next
    <2>1. docs[v] \in Doc
      BY <1>3, LiveDoc DEF Turns
    <2>2. v \in Pub => v \notin Pub'
      BY <1>0, <1>3, <2>1 DEF Turns, Turn, Pub, Doc
    <2>3. \A j \in Ids : j # v => docs'[j] = docs[j]
      BY <1>0, <1>3 DEF Turns
    <2>4. QED
      BY <2>2, <2>3, OneVersionLogs
  <1>4. ASSUME NEW v \in Ids, Shifts(v)
        PROVE  Log!Next
    <2>1. docs[v] \in Doc
      BY <1>4, LiveDoc DEF Shifts
    <2>2. v \in Pub => PublishedRecord(v)' = PublishedRecord(v)
      BY <1>0, <1>4, <2>1, RecordStays DEF Shifts, Doc
    <2>3. \A j \in Ids : j # v => docs'[j] = docs[j]
      BY <1>0, <1>4 DEF Shifts
    <2>4. QED
      BY <2>2, <2>3, OneVersionLogs
  <1>5. ASSUME NEW v \in Ids, Writes(v)
        PROVE  Log!Next
    BY <1>0, <1>5, OneVersionLogs DEF Writes, Pub
  <1>6. ASSUME NEW v \in Ids, Branches(v)
        PROVE  Log!Next
    BY <1>0, <1>6, OneVersionLogs DEF Branches, Pub
  <1>7. CASE Starts
    BY <1>0, <1>7, OneVersionLogs DEF Starts, Pub
  <1>8. ASSUME NEW S \in SUBSET Ids, Commits(S)
        PROVE  Log!Next
    <2>1. \A i \in Pub : docs'[i] = docs[i]
      BY <1>8 DEF Commits, Pub
    <2>2. \A i \in Pub : i \in Pub' /\ PublishedRecord(i)' = PublishedRecord(i)
      BY <2>1, RecordStays DEF Pub
    <2>3. QED
      BY <2>2, GrowthPublishes DEF Log!Next
  <1>9. QED
    BY <1>1, <1>2, <1>3, <1>4, <1>5, <1>6, <1>7, <1>8 DEF DocsStep

(* Creating writes the object of the next id, which nobody names yet.      *)
LEMMA CreateLogs ==
  ASSUME IInv, TypeOK', ConstantsAssumption, DocsStep,
         NEW c \in Containers, NEW t \in Texts \cup {Empty}, Create(c, t)
  PROVE  Log!Next
  <1>1. blobs' = blobs \/ blobs' = [blobs EXCEPT ![next] = t]
    BY DEF Create
  <1>2. ASSUME NEW i \in Pub, docs[i].key # NoKey
        PROVE  blobs'[docs[i].key] = blobs[docs[i].key]
    <2>1. docs[i].key \in Ids /\ docs[i].key < next
      BY <1>2, LiveDoc DEF Pub, IInv, KeysAllocated
    <2>2. docs[i].key # next
      BY <2>1 DEF Ids
    <2>3. QED
      BY <1>1, <2>1, <2>2 DEF IInv, TypeOK
  <1>3. QED
    BY <1>2, DocsStepLogs DEF ObjectsStay, IInv

(* An edit writes at most one object and no published document.            *)
LEMMA EditLogs ==
  ASSUME IInv, TypeOK', ConstantsAssumption,
         NEW i \in Ids, NEW t \in Texts \cup {Empty}, NEW keep \in BOOLEAN, Edit(i, t, keep)
  PROVE  Log!Next
  <1>0. TypeOK /\ docs \in [Ids -> Doc \cup {Absent}]
    BY DEF IInv, TypeOK
  <1>1. PICK v \in PatchTargets(i) :
          \/ docs[v].state = "draft" /\ WriteDraft(v, docs[v], t, keep)
          \/ \E w \in ExistingDrafts(v) : WriteDraft(w, docs[w], t, keep)
          \/ /\ docs[v].state = "committed" /\ next \in Ids
             /\ WriteDraft(next, DraftOf(v), t, keep)
    BY <1>0 DEF Edit, TypeOK, ConstantsAssumption, Ids
  <1>2. v \in Ids /\ docs[v] # Absent /\ docs[v] \in Doc
    BY <1>0, PatchTargetsLive, LiveDoc
  <1>3. PICK w \in Ids, d \in Doc :
          WriteDraft(w, d, t, keep) /\ d.state = "draft" /\ w \notin Pub
    <2>1. CASE docs[v].state = "draft" /\ WriteDraft(v, docs[v], t, keep)
      BY <1>2, <2>1 DEF Pub
    <2>2. CASE \E w \in ExistingDrafts(v) : WriteDraft(w, docs[w], t, keep)
      <3>1. PICK w \in ExistingDrafts(v) : WriteDraft(w, docs[w], t, keep)
        BY <2>2
      <3>2. w \in Ids /\ docs[w] # Absent /\ docs[w].state = "draft"
        BY DEF ExistingDrafts, Drafts, Versions
      <3>3. docs[w] \in Doc
        BY <1>0, <3>2, LiveDoc
      <3>4. QED
        BY <3>1, <3>2, <3>3 DEF Pub
    <2>3. CASE next \in Ids /\ WriteDraft(next, DraftOf(v), t, keep)
      <3>1. DraftOf(v) \in Doc /\ DraftOf(v).state = "draft"
        BY <1>2 DEF DraftOf, Doc
      <3>2. next \notin Pub
        BY <1>0 DEF Pub, TypeOK, Ids
      <3>3. QED
        BY <2>3, <3>1, <3>2
    <2>4. QED
      BY <1>1, <2>1, <2>2, <2>3
  <1>4. PICK e \in Doc :
          /\ docs' = [docs EXCEPT ![w] = e] /\ e.state = "draft"
          /\ blobs' = blobs \/ \E k \in Ids : blobs' = [blobs EXCEPT ![k] = t]
    BY <1>0, <1>3, WriteDraftWrites
  <1>5. Pub' = Pub /\ \A j \in Pub : docs'[j] = docs[j]
    BY <1>0, <1>3, <1>4 DEF Pub
  <1>6. CASE blobs' = blobs
    <2>1. ObjectsStay
      BY <1>6 DEF ObjectsStay
    <2>2. \A j \in Pub : j \in Pub' /\ PublishedRecord(j)' = PublishedRecord(j)
      BY <1>5, <2>1, RecordStays
    <2>3. QED
      BY <2>2, GrowthPublishes DEF Log!Next
  <1>7. CASE \E k \in Ids : blobs' = [blobs EXCEPT ![k] = t]
    BY <1>0, <1>5, <1>7, WritingRewrites
  <1>8. QED
    BY <1>4, <1>6, <1>7

(* Deleting removes a version, its object, both or neither.                *)
LEMMA DeleteLogs ==
  ASSUME IInv, TypeOK', DocsStep, NEW i \in Ids, Delete(i)
  PROVE  Log!Next
  <1>0. TypeOK /\ docs \in [Ids -> Doc \cup {Absent}] /\ docs[i] # Absent
    BY DEF IInv, TypeOK, Delete, Live
  <1>1. /\ \/ blobs' = blobs
           \/ docs[i].key # NoKey /\ blobs' = [blobs EXCEPT ![docs[i].key] = Empty]
        /\ docs' = docs \/ docs' = [docs EXCEPT ![i] = Absent]
    BY DEF Delete
  <1>2. CASE blobs' = blobs
    BY <1>0, <1>2, DocsStepLogs DEF ObjectsStay
  <1>3. CASE docs[i].key # NoKey /\ blobs' = [blobs EXCEPT ![docs[i].key] = Empty]
    <2>1. docs[i].key \in Ids
      BY <1>0, <1>3, LiveDoc
    <2>2. CASE docs' = docs \/ i \notin Pub
      <3>1. Pub' = Pub /\ \A j \in Pub : docs'[j] = docs[j]
        BY <1>0, <1>1, <2>2 DEF Pub
      <3>2. QED
        BY <1>0, <1>3, <2>1, <3>1, WritingRewrites
    <2>3. CASE docs' # docs /\ i \in Pub
      BY <1>0, <1>1, <1>3, <2>3, DeletingWithdraws
    <2>4. QED
      BY <2>2, <2>3
  <1>4. QED
    BY <1>1, <1>2, <1>3

(* Every handler makes the log step.  All others touch no object.          *)
LEMMA NextLogs ==
  ASSUME IInv, TypeOK', ConstantsAssumption, [Next]_vars
  PROVE  Log!Next
  <1>1. DocsStep
    BY NextSteps DEF IInv
  <1>2. CASE blobs' = blobs
    BY <1>1, <1>2, DocsStepLogs DEF IInv, ObjectsStay
  <1>3. CASE blobs' # blobs
    <2>1. \/ \E c \in Containers, t \in Texts \cup {Empty} : Create(c, t)
          \/ \E i \in Ids, t \in Texts \cup {Empty}, keep \in BOOLEAN : Edit(i, t, keep)
          \/ \E i \in Ids : Delete(i)
      BY <1>3 DEF Next, Handler, vars, Link, Archive, Restore, CommitOne, Remove, Revert, Move,
                  CommitWorkspace
    <2>2. QED
      BY <1>1, <2>1, CreateLogs, EditLogs, DeleteLogs
  <1>4. QED
    BY <1>2, <1>3

-----------------------------------------------------------------------------
(* A version starts as a draft, a committed one is only archived or        *)
(* deleted, an archived one only goes back to draft, and its root never    *)
(* changes, whatever a handler loses on the way.                           *)
THEOREM StoreLegalLifecycle == Spec => LegalLifecycle
  <1>1. IInv /\ [Next]_vars => [\A i \in Ids : LegalStep(i)]_vars
    BY NextSteps, DocsStepIsLegal, ConstantsAssumption DEF IInv
  <1>2. QED
    BY <1>1, StoreInvariant, PTL DEF Spec, LegalLifecycle

(* Only drafts are written: no handler changes the content or the key of a *)
(* version that is not a draft before and after.                           *)
THEOREM StoreOnlyDraftsChange == Spec => OnlyDraftsChange
  <1>1. IInv /\ [Next]_vars => [FrozenStep]_vars
    BY NextSteps, DocsStepFreezes, ConstantsAssumption DEF IInv
  <1>2. QED
    BY <1>1, StoreInvariant, PTL DEF Spec, OnlyDraftsChange

(* The store implements the log of published records: a committed version  *)
(* is published, or withdrawn, and never replaced; its object is rewritten *)
(* for all the versions of one key together, one key in a step.            *)
THEOREM StoreImplementsPublishedLog == Spec => ImplementsPublishedLog
  <1>1. Init => Log!Init
    <2> SUFFICES ASSUME Init PROVE Published = [i \in {} |-> {}]
      BY DEF Log!Init
    <2>1. {j \in Ids : docs[j] # Absent /\ docs[j].state = "committed"} = {}
      BY DEF Init
    <2>2. QED
      BY <2>1 DEF Published
  <1>2. IInv /\ IInv' /\ [Next]_vars => [Log!Next]_Published
    BY NextLogs, ConstantsAssumption DEF IInv
  <1>3. QED
    BY <1>1, <1>2, StoreInvariant, PTL DEF Spec, ImplementsPublishedLog, Log!Spec
=============================================================================
