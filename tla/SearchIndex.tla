---------------------------- MODULE SearchIndex ----------------------------
(***************************************************************************)
(* The encrypted lexical index of one search principal (MANTLE-SSE,        *)
(* mantle/search/mantle/sse) and the tasks that write it                   *)
(* (mantle/search/ingest/pipeline_unified.py).                             *)
(*                                                                         *)
(* Every posting list, every manifest and the corpus statistics are one S3 *)
(* object each.  A task reads an object, changes it and writes it back;    *)
(* nothing locks it in between, and up to INDEX_QUEUE_MAX_WORKERS tasks of *)
(* the queue and four of a reindexing run at once.  One action is one S3   *)
(* request, so that the tasks interleave at every one of them.  Text is    *)
(* the set of blind tokens it gives; one field stands for the four, and dl *)
(* is the number of tokens.  The tasks of the queue begin in the order     *)
(* they were put (IndexQueue, TaskPool).                                   *)
(*                                                                         *)
(* What the index is worth depends on how its tasks fell together: past,   *)
(* crossed and miscounted are history variables that record it.            *)
(***************************************************************************)
EXTENDS Integers, Sequences, FiniteSets, SequencesExt

CONSTANTS
  Artifacts,     \* root ids
  Collections,   \* collections whose origin root is this principal
  Tokens,        \* blind tokens
  Threads,       \* the threads that tasks run on:
  Bulk,          \* those of reindexings, the others are the queue's
  None,          \* no manifest, no task, no collection
  MaxJobs,       \* bound: saves, removals, withdrawals and reindexings
  Scenarios      \* bounds: the collections and texts that are saved, how many
                 \* of MaxJobs are left, and which kinds of Trouble there are

(* S3 requests that raise or return what cannot be read, artifacts that    *)
(* are archived, deleted or emptied, an administrator who reindexes, and   *)
(* artifacts that are removed from the index.                              *)
Trouble == {"failures", "withdrawals", "reindexings", "removals"}

ASSUME IndexAssumption ==
  /\ IsFiniteSet(Artifacts) /\ IsFiniteSet(Tokens)
  /\ Bulk \subseteq Threads
  /\ None \notin Collections
  /\ \A T \in SUBSET Tokens : T # None
  /\ MaxJobs \in Nat
  /\ \A s \in Scenarios : /\ s.collections \subseteq Collections
                          /\ s.texts \subseteq SUBSET Tokens
                          /\ s.jobs \in 0..MaxJobs
                          /\ s.trouble \subseteq Trouble

VARIABLES
  postings,   \* posting/{token}.enc: the (artifact, collection) entries
  manifest,   \* manifests/{artifact}.enc: the tokens last indexed
  stats,      \* stats.enc
  versions,   \* the versions of each artifact the store holds, oldest first
  waiting,    \* index tasks put in the queue and not begun
  bulk,       \* those of reindexings, with the version each is about
  job,        \* the task of each thread, or None
  last,       \* the last task of each artifact begun, once it ran to its end
  past,       \* what has befallen each artifact, see Mishaps
  crossed,    \* the artifacts that were disturbed by another task since the
              \* last task of theirs that began alone
  miscounted, \* statistics were written over a change since they were read
  jobs,       \* what is left of MaxJobs
  scenario

index   == <<postings, manifest, stats>>
store   == <<versions, waiting, bulk>>
history == <<past, crossed, miscounted>>
vars    == <<index, store, job, last, history, jobs, scenario>>

(* beside: two of its tasks overlapped; failed: a task of it broke off;    *)
(* overwritten: a task of another artifact wrote a posting list back over  *)
(* a change of its entries; rehomed: it was indexed in a collection while  *)
(* it had entries in another; stale: a reindexing began an older text than *)
(* the store's; withdrawn: it left the store.                              *)
Mishaps == {"beside", "failed", "overwritten", "rehomed", "stale", "withdrawn"}

(* A task indexes a snapshot of an artifact in a collection; a task with   *)
(* no collection removes the artifact from all of them.                    *)
Task == [art : Artifacts, coll : Collections, text : SUBSET Tokens]
          \cup [art : Artifacts, coll : {None}, text : {{}}]

(* What a thread knows of its task: how far it has come, the manifest it   *)
(* found, the tokens left, the posting list it read and the statistics.    *)
Manifests == (SUBSET Tokens) \cup {None}
Stats == [docs : Nat, total : Nat, df : [Tokens -> Nat]]
Entries == Artifacts \X (Collections \cup {None})
Pcs == {"manifest", "strip", "stripping", "upsert", "upserting", "stats", "updating"}
Job == [pc : Pcs, task : Task, old : Manifests, todo : SUBSET Tokens,
        tok : Tokens \cup {None}, entries : SUBSET Entries, seen : Stats]

ASSUME NoJobAssumption == None \notin Job
ASSUME NoTaskAssumption == None \notin Task

TypeOK ==
  /\ versions \in [Artifacts -> Seq(Task)]
  /\ waiting \in Seq(Task)
  /\ bulk \subseteq Task \X Nat \X Nat
  /\ scenario \in Scenarios
  /\ postings \in [Tokens -> SUBSET Entries]
  /\ manifest \in [Artifacts -> Manifests]
  /\ stats \in Stats
  /\ job \in [Threads -> Job \cup {None}]
  /\ last \in [Artifacts -> Task \cup {None}]
  /\ past \in [Artifacts -> SUBSET Mishaps]
  /\ crossed \subseteq Artifacts
  /\ miscounted \in BOOLEAN
  /\ jobs \in Nat

EmptyStats == [docs |-> 0, total |-> 0, df |-> [t \in Tokens |-> 0]]

Init ==
  /\ postings = [t \in Tokens |-> {}]
  /\ manifest = [a \in Artifacts |-> None]
  /\ stats    = EmptyStats
  /\ versions = [a \in Artifacts |-> <<>>]
  /\ waiting  = <<>>
  /\ bulk     = {}
  /\ job      = [w \in Threads |-> None]
  /\ last     = [a \in Artifacts |-> None]
  /\ past     = [a \in Artifacts |-> {}]
  /\ crossed  = {}
  /\ miscounted = FALSE
  /\ scenario \in Scenarios
  /\ jobs     = scenario.jobs

-----------------------------------------------------------------------------
(* Corpus statistics: sse/stats.py.                                        *)
Minus(m, n) == IF m <= n THEN 0 ELSE m - n

AddDocument(s, T) ==
  [docs  |-> s.docs + 1,
   total |-> s.total + Cardinality(T),
   df    |-> [t \in Tokens |-> IF t \in T THEN s.df[t] + 1 ELSE s.df[t]]]

(* Mutant: document frequencies are not reversed.                          *)
RemoveCountOnly(s, T) ==
  [s EXCEPT !.docs = Minus(@, 1), !.total = Minus(@, Cardinality(T))]

RemoveDocument(s, T) ==
  [docs  |-> Minus(s.docs, 1),
   total |-> Minus(s.total, Cardinality(T)),
   df    |-> [t \in Tokens |-> IF t \in T THEN Minus(s.df[t], 1) ELSE s.df[t]]]

(* _update_stats: roll the old contribution back, then add the new one.    *)
UpdateStats(s, old, T) ==
  LET rolled == IF old = None THEN s ELSE RemoveDocument(s, old)
  IN IF T = {} THEN rolled ELSE AddDocument(rolled, T)

-----------------------------------------------------------------------------
(* What the store does                                                     *)

Asked == jobs > 0 /\ jobs' = jobs - 1

Befell(A, mishap) == [a \in Artifacts |-> IF a \in A THEN past[a] \cup {mishap} ELSE past[a]]

(* Mutant: an edit of the draft in place enqueues nothing.                 *)
SaveNewOnly(a, c, T) ==
  LET task == [art |-> a, coll |-> c, text |-> T]
  IN /\ Asked
     /\ \/ /\ versions' = [versions EXCEPT ![a] = Append(@, task)]
           /\ waiting' = Append(waiting, task)
        \/ /\ versions[a] # <<>>
           /\ versions' = [versions EXCEPT ![a] = Append(Front(@), task)]
           /\ UNCHANGED waiting
     /\ UNCHANGED <<index, bulk, job, last, history>>

(* The store saves a text, in the draft or as the draft of a new version,  *)
(* and enqueues a task with a snapshot of it.                              *)
Save(a, c, T) ==
  LET task == [art |-> a, coll |-> c, text |-> T]
  IN /\ Asked
     /\ \/ versions' = [versions EXCEPT ![a] = Append(@, task)]
        \/ /\ versions[a] # <<>>
           /\ versions' = [versions EXCEPT ![a] = Append(Front(@), task)]
     /\ waiting' = Append(waiting, task)
     /\ UNCHANGED <<index, bulk, job, last, history>>

(* reindex_all_artifacts: one task for each version that is not archived,  *)
(* for four threads of its own.  The query orders nothing, and another     *)
(* reindexing may be under way, so that any of these tasks may be next.    *)
Reindex ==
  /\ "reindexings" \in scenario.trouble
  /\ Asked
  /\ bulk' = bulk \cup UNION {{<<versions[a][n], n, jobs>> : n \in DOMAIN versions[a]} : a \in Artifacts}
  /\ UNCHANGED <<index, versions, waiting, job, last, history>>

(* Archiving enqueues nothing, the task of an artifact without any text is *)
(* skipped, and every caller of delete_artifact_from_index leaves          *)
(* principal_id out, which makes it a no-op.                               *)
Withdraw(a) ==
  /\ "withdrawals" \in scenario.trouble
  /\ Asked
  /\ versions' = [versions EXCEPT ![a] = <<>>]
  /\ past' = Befell({a}, "withdrawn")
  /\ UNCHANGED <<index, waiting, bulk, job, last, crossed, miscounted>>

-----------------------------------------------------------------------------
(* Tasks begin                                                             *)
Of(a, entries) == {e \in entries : e[1] = a}
Works(w, a) == job[w] # None /\ job[w].task.art = a
Resting(a) == \A w \in Threads : ~Works(w, a)

Rehomed(k) == k.coll # None /\ \E t \in Tokens : \E e \in Of(k.art, postings[t]) : e[2] # k.coll

Goto(w, j) == job' = [job EXCEPT ![w] = j]

Begin(w, k, mishaps) ==
  /\ job[w] = None
  /\ Goto(w, [pc |-> "manifest", task |-> k, old |-> None, todo |-> {},
              tok |-> None, entries |-> {}, seen |-> EmptyStats])
  /\ last' = [last EXCEPT ![k.art] = None]
  /\ crossed' = IF Resting(k.art) THEN crossed \ {k.art} ELSE crossed \cup {k.art}
  /\ past' = [past EXCEPT ![k.art] = @ \cup mishaps
                \cup (IF Resting(k.art) THEN {} ELSE {"beside"})
                \cup (IF Rehomed(k) THEN {"rehomed"} ELSE {})]
  /\ UNCHANGED <<index, versions, miscounted>>

StartIndex(w) ==
  /\ w \notin Bulk /\ waiting # <<>>
  /\ Begin(w, Head(waiting), {})
  /\ waiting' = Tail(waiting)
  /\ UNCHANGED <<bulk, jobs>>

(* The task has the text that the reindexing read.                         *)
Newest(k) == versions[k.art] # <<>> /\ k = Last(versions[k.art])

StartBulk(w) ==
  /\ w \in Bulk
  /\ \E b \in bulk : /\ Begin(w, b[1], IF Newest(b[1]) THEN {} ELSE {"stale"})
                     /\ bulk' = bulk \ {b}
  /\ UNCHANGED <<waiting, jobs>>

StartRemove(w, a) ==
  /\ "removals" \in scenario.trouble
  /\ w \notin Bulk
  /\ Asked
  /\ Begin(w, [art |-> a, coll |-> None, text |-> {}], {})
  /\ UNCHANGED <<waiting, bulk>>

-----------------------------------------------------------------------------
(* SseIndexer.index_artifact and remove_artifact, request by request.      *)
Finish(w) ==
  /\ Goto(w, None)
  /\ last' = [last EXCEPT ![job[w].task.art] = job[w].task]

(* The tokens of the old manifest that the text does not give any more.    *)
Dropped(old, T) == IF old = None THEN {} ELSE old \ T

(* get_manifest.  A removal without a manifest has nothing to do.          *)
GetManifest(w) ==
  LET task == job[w].task
      old  == manifest[task.art]
  IN /\ job[w] # None /\ job[w].pc = "manifest"
     /\ IF old = None /\ task.coll = None
          THEN Finish(w)
          ELSE /\ Goto(w, [job[w] EXCEPT !.pc = "strip", !.old = old,
                                         !.todo = Dropped(old, task.text)])
               /\ UNCHANGED last
     /\ UNCHANGED <<index, store, history, jobs>>

(* _strip_entry, _strip_artifact_from_posting, _upsert_into_posting: read  *)
(* one of the posting lists that are left ...                              *)
GetPosting(w, t) ==
  /\ job[w] # None /\ job[w].pc \in {"strip", "upsert"}
  /\ t \in job[w].todo
  /\ Goto(w, [job[w] EXCEPT !.pc = IF @ = "strip" THEN "stripping" ELSE "upserting",
                            !.todo = @ \ {t}, !.tok = t, !.entries = postings[t]])
  /\ UNCHANGED <<index, store, last, history, jobs>>

(* The others whose entries have changed since the list was read.          *)
Overwritten(w, entries) ==
  IF entries = postings[job[w].tok] THEN {}
  ELSE {a \in Artifacts \ {job[w].task.art} : Of(a, job[w].entries) # Of(a, postings[job[w].tok])}

WriteBack(w, pc, entries) ==
  /\ postings' = [postings EXCEPT ![job[w].tok] = entries]
  /\ Goto(w, [job[w] EXCEPT !.pc = pc, !.tok = None, !.entries = {}])
  /\ past' = Befell(Overwritten(w, entries), "overwritten")
  /\ crossed' = crossed \cup Overwritten(w, entries)
  /\ UNCHANGED <<manifest, stats, store, last, miscounted, jobs>>

(* Mutant: an index task strips the other artifacts of its collection.     *)
StrippedOthers(entries, task) ==
  {e \in entries : e[1] = task.art \/ (task.coll # None /\ e[2] # task.coll)}

(* An index task strips the entry of its own collection, a removal all of  *)
(* the artifact's entries.                                                 *)
Stripped(entries, task) ==
  {e \in entries : e[1] # task.art \/ (task.coll # None /\ e[2] # task.coll)}

(* ... and write it back without the entry (a list that has none of them   *)
(* is not written, an empty one is deleted), ...                           *)
Strip(w) ==
  /\ job[w] # None /\ job[w].pc = "stripping"
  /\ LET kept == Stripped(job[w].entries, job[w].task)
     IN WriteBack(w, "strip",
                  IF kept = job[w].entries THEN postings[job[w].tok] ELSE kept)

(* ... or with it.                                                         *)
Upsert(w) ==
  /\ job[w] # None /\ job[w].pc = "upserting"
  /\ WriteBack(w, "upsert", job[w].entries \cup {<<job[w].task.art, job[w].task.coll>>})

(* Mutant: only the tokens that were not there before are written.         *)
StripDoneNewOnly(w) ==
  /\ job[w] # None /\ job[w].pc = "strip" /\ job[w].todo = {}
  /\ Goto(w, [job[w] EXCEPT !.pc = "upsert",
                            !.todo = IF job[w].old = None THEN job[w].task.text
                                     ELSE job[w].task.text \ job[w].old])
  /\ UNCHANGED <<index, store, last, history, jobs>>

StripDone(w) ==
  /\ job[w] # None /\ job[w].pc = "strip" /\ job[w].todo = {}
  /\ Goto(w, [job[w] EXCEPT !.pc = "upsert", !.todo = job[w].task.text])
  /\ UNCHANGED <<index, store, last, history, jobs>>

(* put_manifest, or delete_manifest when no token is left.                 *)
PutManifest(w) ==
  LET task == job[w].task
  IN /\ job[w] # None /\ job[w].pc = "upsert" /\ job[w].todo = {}
     /\ manifest' = [manifest EXCEPT ![task.art] = IF task.text = {} THEN None ELSE task.text]
     /\ Goto(w, [job[w] EXCEPT !.pc = "stats"])
     /\ UNCHANGED <<postings, stats, store, last, history, jobs>>

(* _apply_stats_delta: statistics that cannot be decrypted count as none.  *)
GetStats(w) ==
  /\ job[w] # None /\ job[w].pc = "stats"
  /\ \/ Goto(w, [job[w] EXCEPT !.pc = "updating", !.seen = stats])
     \/ /\ "failures" \in scenario.trouble
        /\ Goto(w, [job[w] EXCEPT !.pc = "updating", !.seen = EmptyStats])
  /\ UNCHANGED <<index, store, last, history, jobs>>

PutStats(w) ==
  /\ job[w] # None /\ job[w].pc = "updating"
  /\ stats' = UpdateStats(job[w].seen, job[w].old, job[w].task.text)
  /\ miscounted' = (miscounted \/ job[w].seen # stats)
  /\ Finish(w)
  /\ UNCHANGED <<postings, manifest, store, past, crossed, jobs>>

(* An S3 request raises: the pipeline logs it and the task is over.        *)
Fail(w) ==
  /\ "failures" \in scenario.trouble
  /\ job[w] # None
  /\ Goto(w, None)
  /\ past' = Befell({job[w].task.art}, "failed")
  /\ UNCHANGED <<index, store, last, crossed, miscounted, jobs>>

Next ==
  /\ \/ \E a \in Artifacts, c \in scenario.collections, T \in scenario.texts : Save(a, c, T)
     \/ \E a \in Artifacts : Withdraw(a)
     \/ Reindex
     \/ \E w \in Threads, a \in Artifacts : StartRemove(w, a)
     \/ \E w \in Threads, t \in Tokens : GetPosting(w, t)
     \/ \E w \in Threads :
          \/ StartIndex(w) \/ StartBulk(w) \/ GetManifest(w) \/ Strip(w) \/ StripDone(w)
          \/ Upsert(w) \/ PutManifest(w) \/ GetStats(w) \/ PutStats(w) \/ Fail(w)
  /\ UNCHANGED scenario

Spec == Init /\ [][Next]_vars

-----------------------------------------------------------------------------
AllIdle == \A w \in Threads : job[w] = None

Quiet == waiting = <<>> /\ bulk = {} /\ AllIdle

Spared(a, mishaps) == past[a] \cap mishaps = {}

(* What a query for a token returns: the entries of its posting list,      *)
(* unless its document frequency or its IDF is not positive (score_query). *)
Found(t) == IF stats.df[t] > 0 /\ stats.df[t] <= stats.docs THEN postings[t] ELSE {}

Indexed == {a \in Artifacts : manifest[a] # None}

CountsAreExact ==
  /\ stats.docs = Cardinality(Indexed)
  /\ \A t \in Tokens : stats.df[t] = Cardinality({a \in Indexed : t \in manifest[a]})

(* The statistics may be trusted as long as no task wrote them over a      *)
(* change it had not seen, and no task of any artifact overlapped another  *)
(* of the same artifact or broke off.                                      *)
Trusted == ~miscounted /\ \A a \in Artifacts : Spared(a, {"beside", "failed"})

(* Between tasks the statistics, while they may be trusted, are exactly    *)
(* the ones of the manifests (_apply_stats_delta): tasks of different      *)
(* artifacts may run side by side and undo each other's posting lists,     *)
(* artifacts move between collections, versions are reindexed in any       *)
(* order, and no counter is ever clamped at 0 or left behind.              *)
StatsExact == AllIdle /\ Trusted => CountsAreExact

(* While no task of an artifact is under way it has an entry in exactly    *)
(* the posting lists its manifest names, so that re-indexing and removal   *)
(* find all of them - unless two of its tasks overlapped, one of them      *)
(* broke off, another artifact's task overwrote an entry, or it was        *)
(* indexed in a second collection (index_artifact, remove_artifact).       *)
ManifestNamesPostings ==
  \A a \in Artifacts :
    Resting(a) /\ Spared(a, {"beside", "failed", "overwritten", "rehomed"}) =>
      \A t \in Tokens :
        (manifest[a] # None /\ t \in manifest[a]) <=> \E e \in postings[t] : e[1] = a

Removed(a) == last[a] # None /\ last[a].coll = None

Follows(a) ==
  \A t \in Tokens :
    (~Removed(a) /\ versions[a] # <<>> /\ t \in Last(versions[a]).text)
      <=> \E e \in Found(t) : e[1] = a

(* When nothing is left to do and the statistics may be trusted, a query   *)
(* finds an artifact that nothing has befallen exactly by the text the     *)
(* store holds last, unless it was removed from the index since: whatever  *)
(* happened to the other artifacts, and however many threads there are.    *)
IndexFollowsStore == Quiet /\ Trusted => \A a \in Artifacts : past[a] = {} => Follows(a)

(* Whatever earlier tasks failed half-way or ran side by side, in whatever *)
(* collections the artifact was indexed before: once a task has indexed a  *)
(* text in a collection, every token of the text has its entry there, and  *)
(* keeps it until the next task of the artifact - unless, since that task  *)
(* began alone, another task of the artifact began or a task of another    *)
(* artifact wrote the list back as it was before (_upsert_into_posting).   *)
LastIndexPosted ==
  \A a \in Artifacts :
    a \notin crossed /\ last[a] # None /\ last[a].coll # None =>
      \A t \in last[a].text : <<a, last[a].coll>> \in postings[t]
=============================================================================
