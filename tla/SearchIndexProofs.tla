------------------------- MODULE SearchIndexProofs -------------------------
(***************************************************************************)
(* What the lexical index guarantees for any artifacts, collections,       *)
(* tokens, numbers of tasks and numbers of threads.                        *)
(*                                                                         *)
(* Nothing keeps two tasks apart, so that every invariant is about one     *)
(* artifact and holds while the history variables say that its tasks were  *)
(* left alone.  A step is either one of a task of that artifact, of which  *)
(* there is no other then, or it leaves the artifact as it is (Apart).     *)
(***************************************************************************)
EXTENDS SearchIndex, FiniteSetTheorems, TLAPS

-----------------------------------------------------------------------------
(* Types                                                                   *)
(* The parts of TypeOK; a task that has read a posting list knows which.   *)
StoreOK ==
  /\ versions \in [Artifacts -> Seq(Task)]
  /\ waiting \in Seq(Task)
  /\ bulk \subseteq Task \X Nat \X Nat
  /\ scenario \in Scenarios
  /\ jobs \in Nat

IndexOK ==
  /\ postings \in [Tokens -> SUBSET Entries]
  /\ manifest \in [Artifacts -> Manifests]
  /\ stats \in Stats

JobsOK ==
  /\ job \in [Threads -> Job \cup {None}]
  /\ last \in [Artifacts -> Task \cup {None}]
  /\ \A w \in Threads : job[w] # None /\ job[w].pc \in {"stripping", "upserting"}
                            => job[w].tok \in Tokens

HistoryOK ==
  /\ past \in [Artifacts -> SUBSET Mishaps]
  /\ crossed \subseteq Artifacts
  /\ miscounted \in BOOLEAN

Types == StoreOK /\ IndexOK /\ JobsOK /\ HistoryOK

(* What a task is made of.                                                 *)
LEMMA TaskFields ==
  ASSUME NEW k \in Task
  PROVE  /\ k.art \in Artifacts
         /\ k.coll \in Collections \cup {None}
         /\ k.text \in SUBSET Tokens
         /\ k.coll = None => k.text = {}
  BY IndexAssumption DEF Task

LEMMA JobFields ==
  ASSUME NEW J \in Job
  PROVE  /\ J.pc \in Pcs /\ J.task \in Task /\ J.old \in Manifests
         /\ J.todo \in SUBSET Tokens /\ J.tok \in Tokens \cup {None}
         /\ J.entries \in SUBSET Entries /\ J.seen \in Stats
  BY DEF Job

(* Statistics stay natural numbers.                                        *)
LEMMA UpdateType ==
  ASSUME NEW s \in Stats, NEW old \in Manifests, NEW T \in SUBSET Tokens
  PROVE  UpdateStats(s, old, T) \in Stats
  <1>1. ASSUME NEW m \in Nat, NEW n \in Nat PROVE Minus(m, n) \in Nat
    BY DEF Minus
  <1>2. \A S \in SUBSET Tokens : Cardinality(S) \in Nat
    BY IndexAssumption, FS_Subset, FS_CardinalityType
  <1>3. ASSUME NEW r \in Stats, NEW S \in SUBSET Tokens PROVE AddDocument(r, S) \in Stats
    BY <1>2 DEF AddDocument, Stats
  <1>4. ASSUME NEW r \in Stats, NEW S \in SUBSET Tokens PROVE RemoveDocument(r, S) \in Stats
    <2>1. Minus(r.docs, 1) \in Nat /\ Minus(r.total, Cardinality(S)) \in Nat
      BY <1>1, <1>2 DEF Stats
    <2>2. [t \in Tokens |-> IF t \in S THEN Minus(r.df[t], 1) ELSE r.df[t]] \in [Tokens -> Nat]
      BY <1>1 DEF Stats
    <2> QED
      BY <2>1, <2>2 DEF RemoveDocument, Stats
  <1>5. (IF old = None THEN s ELSE RemoveDocument(s, old)) \in Stats
    BY <1>4 DEF Manifests
  <1> QED
    BY <1>3, <1>5 DEF UpdateStats

LEMMA EmptyStatsType == EmptyStats \in Stats
  BY DEF EmptyStats, Stats

(* A task that begins.                                                     *)
NewJob(k) ==
  [pc |-> "manifest", task |-> k, old |-> None, todo |-> {},
   tok |-> None, entries |-> {}, seen |-> EmptyStats]

LEMMA NewJobType ==
  ASSUME NEW k \in Task
  PROVE  NewJob(k) \in Job
  BY EmptyStatsType DEF NewJob, Job, Pcs, Manifests

(* A step of a task that is under way.                                     *)
StepOf(w) ==
  \/ GetManifest(w) \/ \E t \in Tokens : GetPosting(w, t)
  \/ Strip(w) \/ StripDone(w) \/ Upsert(w) \/ PutManifest(w) \/ GetStats(w) \/ PutStats(w)
  \/ Fail(w)

LEMMA WorkerFields ==
  ASSUME Types, NEW w \in Threads, job[w] # None
  PROVE  /\ job[w] \in Job /\ job[w].task \in Task /\ job[w].task.art \in Artifacts
         /\ job[w].task.text \in SUBSET Tokens /\ job[w].old \in Manifests
         /\ job[w].task.coll \in Collections \cup {None}
         /\ job[w].task.coll = None => job[w].task.text = {}
         /\ job[w].todo \in SUBSET Tokens
         /\ job[w].entries \in SUBSET Entries /\ job[w].seen \in Stats
         /\ job[w].pc \in {"stripping", "upserting"} => job[w].tok \in Tokens
  BY JobFields, TaskFields DEF Types, JobsOK

(* What each step makes of its task.                                       *)
AfterManifest(w) ==
  [job[w] EXCEPT !.pc = "strip", !.old = manifest[job[w].task.art],
                 !.todo = Dropped(manifest[job[w].task.art], job[w].task.text)]
AfterRead(w, t) ==
  [job[w] EXCEPT !.pc = IF job[w].pc = "strip" THEN "stripping" ELSE "upserting",
                 !.todo = job[w].todo \ {t}, !.tok = t, !.entries = postings[t]]
AfterWrite(w, pc) == [job[w] EXCEPT !.pc = pc, !.tok = None, !.entries = {}]
AfterStrip(w) == [job[w] EXCEPT !.pc = "upsert", !.todo = job[w].task.text]
AfterPut(w) == [job[w] EXCEPT !.pc = "stats"]
AfterStats(w, s) == [job[w] EXCEPT !.pc = "updating", !.seen = s]

LEMMA AfterTypes ==
  ASSUME Types, NEW w \in Threads, job[w] # None
  PROVE  /\ AfterManifest(w) \in Job
         /\ \A t \in Tokens : AfterRead(w, t) \in Job
         /\ \A pc \in {"strip", "upsert"} : AfterWrite(w, pc) \in Job
         /\ AfterStrip(w) \in Job /\ AfterPut(w) \in Job
         /\ \A s \in Stats : AfterStats(w, s) \in Job
  <1>1. /\ job[w] \in Job /\ job[w].task \in Task /\ job[w].task.art \in Artifacts
        /\ job[w].task.text \in SUBSET Tokens
    BY WorkerFields
  <1>2. AfterManifest(w) \in Job
    <2>1. /\ manifest[job[w].task.art] \in Manifests
          /\ Dropped(manifest[job[w].task.art], job[w].task.text) \in SUBSET Tokens
      BY <1>1 DEF Dropped, Manifests, Types, IndexOK
    <2> QED
      BY <1>1, <2>1 DEF AfterManifest, Job, Pcs
  <1>3. \A t \in Tokens : AfterRead(w, t) \in Job
    BY <1>1 DEF AfterRead, Job, Pcs, Types, IndexOK
  <1>4. \A pc \in {"strip", "upsert"} : AfterWrite(w, pc) \in Job
    BY <1>1 DEF AfterWrite, Job, Pcs
  <1>5. AfterStrip(w) \in Job /\ AfterPut(w) \in Job
    BY <1>1 DEF AfterStrip, AfterPut, Job, Pcs
  <1>6. \A s \in Stats : AfterStats(w, s) \in Job
    BY <1>1 DEF AfterStats, Job, Pcs
  <1> QED
    BY <1>2, <1>3, <1>4, <1>5, <1>6

(* The fields that a step leaves alone.                                    *)
LEMMA AfterFields ==
  ASSUME Types, NEW w \in Threads, job[w] # None
  PROVE  /\ AfterManifest(w).task = job[w].task /\ AfterManifest(w).pc = "strip"
         /\ AfterManifest(w).old = manifest[job[w].task.art]
         /\ AfterManifest(w).todo = Dropped(manifest[job[w].task.art], job[w].task.text)
         /\ \A t : /\ AfterRead(w, t).task = job[w].task /\ AfterRead(w, t).old = job[w].old
                   /\ AfterRead(w, t).tok = t /\ AfterRead(w, t).entries = postings[t]
                   /\ AfterRead(w, t).todo = job[w].todo \ {t}
                   /\ AfterRead(w, t).pc = IF job[w].pc = "strip" THEN "stripping" ELSE "upserting"
         /\ \A pc : /\ AfterWrite(w, pc).task = job[w].task /\ AfterWrite(w, pc).old = job[w].old
                    /\ AfterWrite(w, pc).todo = job[w].todo /\ AfterWrite(w, pc).pc = pc
         /\ AfterStrip(w).task = job[w].task /\ AfterStrip(w).old = job[w].old
         /\ AfterStrip(w).todo = job[w].task.text /\ AfterStrip(w).pc = "upsert"
         /\ AfterPut(w).task = job[w].task /\ AfterPut(w).old = job[w].old
         /\ AfterPut(w).pc = "stats"
         /\ \A s : /\ AfterStats(w, s).task = job[w].task /\ AfterStats(w, s).old = job[w].old
                   /\ AfterStats(w, s).pc = "updating" /\ AfterStats(w, s).seen = s
  <1>1. job[w] \in Job
    BY WorkerFields
  <1> QED
    BY <1>1 DEF AfterManifest, AfterRead, AfterWrite, AfterStrip, AfterPut, AfterStats, Job

(* A step of a task touches its thread, the manifest and the last task of  *)
(* its artifact, and no entry of another that is not then on record.       *)
LEMMA TaskStep ==
  ASSUME Types, NEW w \in Threads, job[w] # None, StepOf(w)
  PROVE  /\ \E J \in Job \cup {None} : /\ job' = [job EXCEPT ![w] = J]
                                       /\ J # None => J.task = job[w].task
                                       /\ J # None /\ J.pc \in {"stripping", "upserting"} => J.tok \in Tokens
         /\ \E d \in Manifests : manifest' = [manifest EXCEPT ![job[w].task.art] = d]
         /\ \E k \in Task \cup {None} : last' = [last EXCEPT ![job[w].task.art] = k]
         /\ IndexOK' /\ HistoryOK'
         /\ \A b \in Artifacts : past[b] \subseteq past'[b]
         /\ \A b \in Artifacts : past'[b] # past[b] /\ b # job[w].task.art => "overwritten" \in past'[b]
         /\ crossed \subseteq crossed' /\ (miscounted => miscounted')
         /\ job[w].task.art \in crossed' => job[w].task.art \in crossed
         /\ \A b \in Artifacts \ {job[w].task.art} :
              \/ b \in crossed' /\ "overwritten" \in past'[b]
              \/ b \notin crossed' \ crossed /\ \A t \in Tokens : Of(b, postings'[t]) = Of(b, postings[t])
         /\ UNCHANGED <<store, jobs>>
  <1> DEFINE a == job[w].task.art
  <1> DEFINE G == /\ \E J \in Job \cup {None} : /\ job' = [job EXCEPT ![w] = J]
                                                /\ J # None => J.task = job[w].task
                                                /\ J # None /\ J.pc \in {"stripping", "upserting"} => J.tok \in Tokens
                  /\ \E d \in Manifests : manifest' = [manifest EXCEPT ![a] = d]
                  /\ \E k \in Task \cup {None} : last' = [last EXCEPT ![a] = k]
                  /\ IndexOK' /\ HistoryOK'
                  /\ \A b \in Artifacts : past[b] \subseteq past'[b]
                  /\ \A b \in Artifacts : past'[b] # past[b] /\ b # a => "overwritten" \in past'[b]
                  /\ crossed \subseteq crossed' /\ (miscounted => miscounted')
                  /\ a \in crossed' => a \in crossed
                  /\ \A b \in Artifacts \ {a} :
                       \/ b \in crossed' /\ "overwritten" \in past'[b]
                       \/ b \notin crossed' \ crossed /\ \A t \in Tokens : Of(b, postings'[t]) = Of(b, postings[t])
                  /\ UNCHANGED <<store, jobs>>
  <1>t. /\ manifest \in [Artifacts -> Manifests] /\ last \in [Artifacts -> Task \cup {None}]
        /\ postings \in [Tokens -> SUBSET Entries] /\ stats \in Stats
        /\ past \in [Artifacts -> SUBSET Mishaps] /\ crossed \subseteq Artifacts
        /\ miscounted \in BOOLEAN
    BY DEF Types, IndexOK, JobsOK, HistoryOK
  <1>j. /\ job[w] \in Job /\ job[w].task \in Task /\ a \in Artifacts
        /\ job[w].task.text \in SUBSET Tokens /\ job[w].old \in Manifests
        /\ job[w].entries \in SUBSET Entries /\ job[w].seen \in Stats
        /\ job[w].task.coll \in Collections \cup {None}
        /\ job[w].pc \in {"stripping", "upserting"} => job[w].tok \in Tokens
    BY WorkerFields
  <1> HIDE DEF a
  (* The index is as it was.                                                 *)
  <1>1. ASSUME NEW J \in Job \cup {None}, Goto(w, J), J # None => J.task = job[w].task,
               J # None /\ J.pc \in {"stripping", "upserting"} => J.tok \in Tokens,
               NEW k \in Task \cup {None}, last' = [last EXCEPT ![a] = k],
               NEW m \in SUBSET Mishaps, past' = [past EXCEPT ![a] = @ \cup m],
               UNCHANGED <<index, store, crossed, miscounted, jobs>>
        PROVE  G
    <2>1. manifest[a] \in Manifests /\ manifest' = [manifest EXCEPT ![a] = manifest[a]]
      BY <1>1, <1>t, <1>j DEF index
    <2>2. /\ past' \in [Artifacts -> SUBSET Mishaps]
          /\ \A b \in Artifacts : past[b] \subseteq past'[b] /\ (b # a => past'[b] = past[b])
      BY <1>1, <1>t, <1>j
    <2>3. \A t \in Tokens : postings'[t] = postings[t]
      BY <1>1 DEF index
    <2> QED
      BY <1>1, <1>t, <2>1, <2>2, <2>3 DEF Goto, IndexOK, HistoryOK, index
  <1>2. ASSUME NEW J \in Job \cup {None}, Goto(w, J), J # None => J.task = job[w].task,
               J # None /\ J.pc \in {"stripping", "upserting"} => J.tok \in Tokens,
               UNCHANGED <<index, store, last, history, jobs>>
        PROVE  G
    <2>1. /\ last[a] \in Task \cup {None} /\ last' = [last EXCEPT ![a] = last[a]]
          /\ past' = [past EXCEPT ![a] = @ \cup {}]
      BY <1>2, <1>t, <1>j DEF history
    <2>2. UNCHANGED <<index, store, crossed, miscounted, jobs>>
      BY <1>2 DEF history
    <2>3. {} \in SUBSET Mishaps
      OBVIOUS
    <2> QED
      BY <1>1, <1>2, <2>1, <2>2, <2>3
  <1>a. /\ AfterManifest(w) \in Job
        /\ \A t \in Tokens : AfterRead(w, t) \in Job
        /\ \A pc \in {"strip", "upsert"} : AfterWrite(w, pc) \in Job
        /\ AfterStrip(w) \in Job /\ AfterPut(w) \in Job
        /\ \A s \in Stats : AfterStats(w, s) \in Job
    BY AfterTypes
  <1>f. /\ AfterManifest(w).task = job[w].task /\ AfterManifest(w).pc = "strip"
        /\ \A t : AfterRead(w, t).task = job[w].task /\ AfterRead(w, t).tok = t
        /\ \A pc : AfterWrite(w, pc).task = job[w].task /\ AfterWrite(w, pc).pc = pc
        /\ AfterStrip(w).task = job[w].task /\ AfterStrip(w).pc = "upsert"
        /\ AfterPut(w).task = job[w].task /\ AfterPut(w).pc = "stats"
        /\ \A s : AfterStats(w, s).task = job[w].task /\ AfterStats(w, s).pc = "updating"
    BY AfterFields
  <1>3. ASSUME GetManifest(w) PROVE G
    <2>1. CASE Goto(w, AfterManifest(w)) /\ UNCHANGED last
      BY <1>2, <1>3, <1>a, <1>f, <2>1 DEF GetManifest
    <2>2. CASE Finish(w)
      <3>1. /\ Goto(w, None) /\ last' = [last EXCEPT ![a] = job[w].task]
            /\ past' = [past EXCEPT ![a] = @ \cup {}]
            /\ UNCHANGED <<index, store, crossed, miscounted, jobs>>
        BY <1>3, <1>t, <1>j, <2>2 DEF GetManifest, Finish, history, a
      <3>2. {} \in SUBSET Mishaps /\ None \in Job \cup {None} /\ job[w].task \in Task \cup {None}
        BY <1>j
      <3>3. \A J \in {None} : J = None
        OBVIOUS
      <3> QED
        BY ONLY <1>1, <3>1, <3>2
    <2> QED
      BY <1>3, <2>1, <2>2 DEF GetManifest, AfterManifest
  <1>4. ASSUME NEW t \in Tokens, GetPosting(w, t) PROVE G
    <2>1. Goto(w, AfterRead(w, t)) /\ UNCHANGED <<index, store, last, history, jobs>>
      BY <1>4 DEF GetPosting, AfterRead
    <2> QED
      BY <1>2, <1>a, <1>f, <2>1
  <1>5. ASSUME StripDone(w) PROVE G
    <2>1. Goto(w, AfterStrip(w)) /\ UNCHANGED <<index, store, last, history, jobs>>
      BY <1>5 DEF StripDone, AfterStrip
    <2> QED
      BY <1>2, <1>a, <1>f, <2>1
  <1>6. ASSUME GetStats(w) PROVE G
    <2>1. /\ Goto(w, AfterStats(w, stats)) \/ Goto(w, AfterStats(w, EmptyStats))
          /\ UNCHANGED <<index, store, last, history, jobs>>
      BY <1>6 DEF GetStats, AfterStats
    <2>2. PICK s \in Stats : Goto(w, AfterStats(w, s))
      BY <1>t, <2>1, EmptyStatsType
    <2>3. AfterStats(w, s) \in Job
      BY <1>a
    <2> QED
      BY <1>2, <1>f, <2>1, <2>2, <2>3
  <1>7. ASSUME Fail(w) PROVE G
    <2>1. /\ Goto(w, None) /\ last' = [last EXCEPT ![a] = last[a]] /\ last[a] \in Task \cup {None}
          /\ past' = [past EXCEPT ![a] = @ \cup {"failed"}]
          /\ UNCHANGED <<index, store, crossed, miscounted, jobs>>
      BY <1>7, <1>t, <1>j DEF Fail, Befell, a
    <2>2. {"failed"} \in SUBSET Mishaps
      BY DEF Mishaps
    <2> QED
      BY <1>1, <2>1, <2>2
  <1>8. ASSUME NEW pc \in {"strip", "upsert"}, NEW E \in SUBSET Entries, WriteBack(w, pc, E),
               job[w].tok \in Tokens,
               E = postings[job[w].tok]
                 \/ \A b \in Artifacts \ {a} : Of(b, E) = Of(b, job[w].entries)
        PROVE  G
    <2> DEFINE O == Overwritten(w, E)
    <2>1. /\ postings' = [postings EXCEPT ![job[w].tok] = E]
          /\ Goto(w, AfterWrite(w, pc))
          /\ past' = Befell(O, "overwritten") /\ crossed' = crossed \cup O
          /\ UNCHANGED <<manifest, stats, store, last, miscounted, jobs>>
      BY <1>8 DEF WriteBack, AfterWrite
    <2>2. O \subseteq Artifacts \ {a}
      BY DEF Overwritten, a
    <2>3. \A b \in Artifacts \ {a} : b \notin O => Of(b, E) = Of(b, postings[job[w].tok])
      BY <1>8 DEF Overwritten, a
    <2> HIDE DEF O
    <2>4. /\ past' \in [Artifacts -> SUBSET Mishaps]
          /\ \A b \in Artifacts : past[b] \subseteq past'[b]
          /\ \A b \in Artifacts : past'[b] # past[b] => "overwritten" \in past'[b]
          /\ \A b \in O : "overwritten" \in past'[b]
      BY <1>t, <2>1, <2>2 DEF Befell, Mishaps
    <2>5. ASSUME NEW b \in Artifacts \ {a}
          PROVE  \/ b \in crossed' /\ "overwritten" \in past'[b]
                 \/ b \notin crossed' \ crossed /\ \A t \in Tokens : Of(b, postings'[t]) = Of(b, postings[t])
      <3>1. CASE b \in O
        BY <2>1, <2>4, <3>1
      <3>2. CASE b \notin O
        <4>1. \A t \in Tokens : postings'[t] = IF t = job[w].tok THEN E ELSE postings[t]
          BY <1>t, <2>1
        <4> QED
          BY <2>1, <2>3, <3>2, <4>1
      <3> QED
        BY <3>1, <3>2
    <2>6. /\ manifest[a] \in Manifests /\ manifest' = [manifest EXCEPT ![a] = manifest[a]]
          /\ last[a] \in Task \cup {None} /\ last' = [last EXCEPT ![a] = last[a]]
      BY <1>t, <1>j, <2>1
    <2>7. IndexOK' /\ HistoryOK' /\ UNCHANGED <<store, jobs>>
      BY <1>t, <2>1, <2>2, <2>4 DEF IndexOK, HistoryOK
    <2>8. \E J \in Job \cup {None} : /\ job' = [job EXCEPT ![w] = J]
                                     /\ J # None => J.task = job[w].task
                                     /\ J # None /\ J.pc \in {"stripping", "upserting"} => J.tok \in Tokens
      <3>1. AfterWrite(w, pc) \in Job /\ job' = [job EXCEPT ![w] = AfterWrite(w, pc)]
        BY <1>a, <2>1 DEF Goto
      <3> QED
        BY <1>f, <3>1
    <2>9. /\ crossed \subseteq crossed' /\ (miscounted => miscounted')
          /\ a \in crossed' => a \in crossed
      BY <2>1, <2>2
    <2> QED
      BY <2>4, <2>5, <2>6, <2>7, <2>8, <2>9
  <1>9. ASSUME Strip(w) PROVE G
    <2> DEFINE kept == Stripped(job[w].entries, job[w].task)
    <2>1. kept \in SUBSET Entries /\ \A b \in Artifacts \ {a} : Of(b, kept) = Of(b, job[w].entries)
      BY <1>j DEF Stripped, Of, a
    <2>2. job[w].tok \in Tokens /\ postings[job[w].tok] \in SUBSET Entries
      BY <1>9, <1>j, <1>t DEF Strip
    <2> HIDE DEF kept
    <2>3. \E E \in {kept, postings[job[w].tok]} : WriteBack(w, "strip", E)
      BY <1>9 DEF Strip, kept
    <2> QED
      BY <1>8, <2>1, <2>2, <2>3
  <1>10. ASSUME Upsert(w) PROVE G
    <2> DEFINE E == job[w].entries \cup {<<a, job[w].task.coll>>}
    <2>1. E \in SUBSET Entries /\ \A b \in Artifacts \ {a} : Of(b, E) = Of(b, job[w].entries)
      BY <1>j DEF Of, Entries
    <2>2. job[w].tok \in Tokens /\ WriteBack(w, "upsert", E)
      BY <1>10, <1>j DEF Upsert, a
    <2> HIDE DEF E
    <2> QED
      BY <1>8, <2>1, <2>2
  <1>11. ASSUME PutManifest(w) PROVE G
    <2> DEFINE d == IF job[w].task.text = {} THEN None ELSE job[w].task.text
    <2>1. /\ manifest' = [manifest EXCEPT ![a] = d] /\ d \in Manifests
          /\ Goto(w, AfterPut(w)) /\ UNCHANGED <<postings, stats, store, last, history, jobs>>
      BY <1>11, <1>j DEF PutManifest, AfterPut, a, Manifests
    <2> HIDE DEF d
    <2>2. last[a] \in Task \cup {None} /\ last' = [last EXCEPT ![a] = last[a]]
      BY <1>t, <1>j, <2>1
    <2>3. IndexOK' /\ HistoryOK'
      BY <1>t, <1>j, <2>1 DEF IndexOK, HistoryOK, history
    <2>4. \E J \in Job \cup {None} : /\ job' = [job EXCEPT ![w] = J]
                                     /\ J # None => J.task = job[w].task
                                     /\ J # None /\ J.pc \in {"stripping", "upserting"} => J.tok \in Tokens
      BY <1>a, <1>f, <2>1 DEF Goto
    <2> QED
      BY <2>1, <2>2, <2>3, <2>4 DEF history
  <1>12. ASSUME PutStats(w) PROVE G
    <2>1. /\ Goto(w, None) /\ last' = [last EXCEPT ![a] = job[w].task]
          /\ stats' = UpdateStats(job[w].seen, job[w].old, job[w].task.text)
          /\ miscounted' = (miscounted \/ job[w].seen # stats)
          /\ UNCHANGED <<postings, manifest, store, past, crossed, jobs>>
      BY <1>12 DEF PutStats, Finish, a
    <2>2. stats' \in Stats
      BY <1>j, <2>1, UpdateType
    <2>3. manifest[a] \in Manifests /\ manifest' = [manifest EXCEPT ![a] = manifest[a]]
      BY <1>t, <1>j, <2>1
    <2>4. miscounted' \in BOOLEAN /\ (miscounted => miscounted')
      BY <2>1
    <2>5. IndexOK' /\ HistoryOK'
      BY <1>t, <2>1, <2>2, <2>4 DEF IndexOK, HistoryOK
    <2>6. \E J \in Job \cup {None} : /\ job' = [job EXCEPT ![w] = J]
                                     /\ J # None => J.task = job[w].task
                                     /\ J # None /\ J.pc \in {"stripping", "upserting"} => J.tok \in Tokens
      BY <2>1 DEF Goto
    <2> QED
      BY <1>j, <2>1, <2>3, <2>4, <2>5, <2>6
  <1> QED
    BY <1>3, <1>4, <1>5, <1>6, <1>7, <1>9, <1>10, <1>11, <1>12 DEF StepOf, a


(* A task that begins.                                                     *)
LEMMA BeginStep ==
  ASSUME Types, NEW w \in Threads, NEW k \in Task, NEW m \in SUBSET Mishaps, Begin(w, k, m)
  PROVE  /\ job[w] = None /\ job' = [job EXCEPT ![w] = NewJob(k)]
         /\ NewJob(k) \in Job /\ NewJob(k) # None
         /\ NewJob(k).task = k /\ NewJob(k).pc = "manifest"
         /\ k.art \in Artifacts /\ last' = [last EXCEPT ![k.art] = None]
         /\ UNCHANGED <<postings, manifest, stats, versions, miscounted>>
         /\ \A b \in Artifacts : past[b] \subseteq past'[b] /\ (b # k.art => past'[b] = past[b])
         /\ m \subseteq past'[k.art]
         /\ ~Resting(k.art) => "beside" \in past'[k.art] /\ k.art \in crossed'
         /\ Resting(k.art) => k.art \notin crossed'
         /\ Rehomed(k) => "rehomed" \in past'[k.art]
         /\ \A b \in Artifacts : b # k.art => (b \in crossed' <=> b \in crossed)
         /\ IndexOK' /\ JobsOK' /\ HistoryOK'
  <1>t. /\ job \in [Threads -> Job \cup {None}] /\ last \in [Artifacts -> Task \cup {None}]
        /\ past \in [Artifacts -> SUBSET Mishaps] /\ crossed \subseteq Artifacts
    BY DEF Types, JobsOK, HistoryOK
  <1>1. k.art \in Artifacts
    BY TaskFields
  <1>2. NewJob(k) \in Job /\ NewJob(k) # None /\ NewJob(k).task = k /\ NewJob(k).pc = "manifest"
    BY NewJobType, NoJobAssumption DEF NewJob
  <1>3. /\ job[w] = None /\ job' = [job EXCEPT ![w] = NewJob(k)]
        /\ last' = [last EXCEPT ![k.art] = None]
        /\ UNCHANGED <<postings, manifest, stats, versions, miscounted>>
    BY DEF Begin, Goto, NewJob, index
  <1>4. /\ past' = [past EXCEPT ![k.art] = @ \cup m
                      \cup (IF Resting(k.art) THEN {} ELSE {"beside"})
                      \cup (IF Rehomed(k) THEN {"rehomed"} ELSE {})]
        /\ crossed' = IF Resting(k.art) THEN crossed \ {k.art} ELSE crossed \cup {k.art}
    BY DEF Begin
  <1>5. /\ \A b \in Artifacts : past[b] \subseteq past'[b] /\ (b # k.art => past'[b] = past[b])
        /\ m \subseteq past'[k.art]
        /\ ~Resting(k.art) => "beside" \in past'[k.art]
        /\ Rehomed(k) => "rehomed" \in past'[k.art]
        /\ past' \in [Artifacts -> SUBSET Mishaps]
    BY <1>t, <1>1, <1>4 DEF Mishaps
  <1>6. /\ ~Resting(k.art) => k.art \in crossed'
        /\ Resting(k.art) => k.art \notin crossed'
        /\ \A b \in Artifacts : b # k.art => (b \in crossed' <=> b \in crossed)
        /\ crossed' \subseteq Artifacts
    BY <1>t, <1>1, <1>4
  <1>7. IndexOK' /\ HistoryOK'
    BY <1>3, <1>5, <1>6 DEF Types, IndexOK, HistoryOK
  <1>8. JobsOK'
    BY <1>t, <1>1, <1>2, <1>3 DEF Types, JobsOK
  <1> QED
    BY <1>1, <1>2, <1>3, <1>5, <1>6, <1>7, <1>8

(* What the store does touches no thread and no object of the index.       *)
StoreStep ==
  \/ \E a \in Artifacts, c \in scenario.collections, T \in scenario.texts : Save(a, c, T)
  \/ \E a \in Artifacts : Withdraw(a)
  \/ Reindex

LEMMA StoreStepOK ==
  ASSUME Types, StoreStep
  PROVE  /\ UNCHANGED <<postings, manifest, stats, job, last, crossed, miscounted>>
         /\ \A b \in Artifacts : past'[b] \subseteq past[b] \cup {"withdrawn"} /\ past[b] \subseteq past'[b]
         /\ past' \in [Artifacts -> SUBSET Mishaps]
         /\ versions' \in [Artifacts -> Seq(Task)] /\ waiting' \in Seq(Task)
         /\ bulk' \subseteq Task \X Nat \X Nat /\ jobs' \in Nat
  <1>t. /\ versions \in [Artifacts -> Seq(Task)] /\ waiting \in Seq(Task)
        /\ bulk \subseteq Task \X Nat \X Nat /\ jobs \in Nat
        /\ past \in [Artifacts -> SUBSET Mishaps]
    BY DEF Types, StoreOK, HistoryOK
  <1>1. ASSUME NEW a \in Artifacts, NEW c \in scenario.collections, NEW T \in scenario.texts,
               Save(a, c, T)
        PROVE  /\ UNCHANGED <<index, bulk, job, last, history>>
               /\ versions' \in [Artifacts -> Seq(Task)] /\ waiting' \in Seq(Task) /\ jobs' \in Nat
    <2> DEFINE task == [art |-> a, coll |-> c, text |-> T]
    <2>1. task \in Task
      BY IndexAssumption DEF Task, Types, StoreOK
    <2>2. /\ waiting' = Append(waiting, task) /\ UNCHANGED <<index, bulk, job, last, history>>
          /\ \/ versions' = [versions EXCEPT ![a] = Append(versions[a], task)]
             \/ /\ versions[a] # <<>>
                /\ versions' = [versions EXCEPT ![a] = Append(Front(versions[a]), task)]
      BY <1>1 DEF Save
    <2>3. jobs' \in Nat
      BY <1>1, <1>t DEF Save, Asked
    <2>4. versions[a] \in Seq(Task) /\ (versions[a] # <<>> => Front(versions[a]) \in Seq(Task))
      BY <1>t DEF Front
    <2> HIDE DEF task
    <2>5. /\ Append(versions[a], task) \in Seq(Task) /\ Append(waiting, task) \in Seq(Task)
          /\ versions[a] # <<>> => Append(Front(versions[a]), task) \in Seq(Task)
      BY <1>t, <2>1, <2>4
    <2> QED
      BY <1>t, <2>2, <2>3, <2>5
  <1>2. ASSUME NEW a \in Artifacts, Withdraw(a)
        PROVE  /\ UNCHANGED <<index, waiting, bulk, job, last, crossed, miscounted>>
               /\ versions' \in [Artifacts -> Seq(Task)] /\ jobs' \in Nat
               /\ \A b \in Artifacts : past'[b] \subseteq past[b] \cup {"withdrawn"} /\ past[b] \subseteq past'[b]
               /\ past' \in [Artifacts -> SUBSET Mishaps]
    <2>1. /\ UNCHANGED <<index, waiting, bulk, job, last, crossed, miscounted>>
          /\ versions' = [versions EXCEPT ![a] = <<>>] /\ past' = Befell({a}, "withdrawn")
      BY <1>2 DEF Withdraw
    <2>2. jobs' \in Nat
      BY <1>2, <1>t DEF Withdraw, Asked
    <2>3. versions' \in [Artifacts -> Seq(Task)]
      BY <1>t, <2>1
    <2>4. /\ \A b \in Artifacts : past'[b] \subseteq past[b] \cup {"withdrawn"} /\ past[b] \subseteq past'[b]
          /\ past' \in [Artifacts -> SUBSET Mishaps]
      BY <1>t, <2>1 DEF Befell, Mishaps
    <2> QED
      BY <2>1, <2>2, <2>3, <2>4
  <1>3. ASSUME Reindex
        PROVE  /\ UNCHANGED <<index, versions, waiting, job, last, history>>
               /\ bulk' \subseteq Task \X Nat \X Nat /\ jobs' \in Nat
    <2>1. /\ UNCHANGED <<index, versions, waiting, job, last, history>>
          /\ bulk' = bulk \cup UNION {{<<versions[a][n], n, jobs>> : n \in DOMAIN versions[a]} : a \in Artifacts}
      BY <1>3 DEF Reindex
    <2>2. jobs' \in Nat
      BY <1>3, <1>t DEF Reindex, Asked
    <2>3. ASSUME NEW a \in Artifacts, NEW n \in DOMAIN versions[a]
          PROVE  <<versions[a][n], n, jobs>> \in Task \X Nat \X Nat
      <3>1. versions[a] \in Seq(Task)
        BY <1>t
      <3>2. n \in Nat /\ versions[a][n] \in Task
        BY <3>1
      <3> QED
        BY <1>t, <3>2
    <2> QED
      BY <1>t, <2>1, <2>2, <2>3
  <1>4. ASSUME UNCHANGED <<index, history>>
        PROVE  /\ UNCHANGED <<postings, manifest, stats, crossed, miscounted>> /\ past' = past
    BY <1>4 DEF index, history
  <1> QED
    BY <1>t, <1>1, <1>2, <1>3, <1>4 DEF StoreStep, index

(* Every step is one of the store, the beginning of a task or a step of a  *)
(* task under way.                                                         *)
BeginsNext(w, k, m) ==
  /\ Begin(w, k, m)
  /\ UNCHANGED scenario
  /\ \/ /\ k.coll = None /\ UNCHANGED <<waiting, bulk>> /\ jobs' \in Nat
     \/ /\ waiting # <<>> /\ k = Head(waiting) /\ waiting' = Tail(waiting) /\ UNCHANGED <<bulk, jobs>>
     \/ /\ Newest(k) \/ "stale" \in m
        /\ bulk' \subseteq bulk /\ UNCHANGED <<waiting, jobs>>

LEMMA Steps ==
  ASSUME Types, Next
  PROVE  /\ UNCHANGED scenario
         /\ \/ StoreStep
            \/ \E w \in Threads, k \in Task, m \in SUBSET Mishaps : BeginsNext(w, k, m)
            \/ \E w \in Threads : job[w] # None /\ StepOf(w)
  <1>s. UNCHANGED scenario
    BY DEF Next
  <1>1. ASSUME NEW w \in Threads, NEW a \in Artifacts, StartRemove(w, a)
        PROVE  \E k \in Task, m \in SUBSET Mishaps : BeginsNext(w, k, m)
    <2> DEFINE k == [art |-> a, coll |-> None, text |-> {}]
    <2>1. k \in Task /\ k.coll = None
      BY DEF Task
    <2>2. Begin(w, k, {}) /\ UNCHANGED <<waiting, bulk>> /\ jobs' \in Nat
      BY <1>1 DEF StartRemove, Asked, Types, StoreOK
    <2> HIDE DEF k
    <2>3. BeginsNext(w, k, {})
      BY <1>s, <2>1, <2>2 DEF BeginsNext
    <2> QED
      BY <2>1, <2>3
  <1>2. ASSUME NEW w \in Threads, StartIndex(w)
        PROVE  \E k \in Task, m \in SUBSET Mishaps : BeginsNext(w, k, m)
    <2>1. Head(waiting) \in Task
      BY <1>2 DEF StartIndex, Types, StoreOK
    <2>2. BeginsNext(w, Head(waiting), {})
      BY <1>s, <1>2 DEF StartIndex, BeginsNext
    <2> QED
      BY <2>1, <2>2
  <1>3. ASSUME NEW w \in Threads, StartBulk(w)
        PROVE  \E k \in Task, m \in SUBSET Mishaps : BeginsNext(w, k, m)
    <2>1. PICK b \in bulk : /\ Begin(w, b[1], IF Newest(b[1]) THEN {} ELSE {"stale"})
                            /\ bulk' = bulk \ {b} /\ UNCHANGED <<waiting, jobs>>
      BY <1>3 DEF StartBulk
    <2>2. b[1] \in Task
      BY DEF Types, StoreOK
    <2> DEFINE m == IF Newest(b[1]) THEN {} ELSE {"stale"}
    <2>3. m \in SUBSET Mishaps /\ (Newest(b[1]) \/ "stale" \in m)
      BY DEF Mishaps
    <2> HIDE DEF m
    <2>4. BeginsNext(w, b[1], m)
      BY <1>s, <2>1, <2>3 DEF BeginsNext, m
    <2> QED
      BY <2>2, <2>3, <2>4
  <1>4. ASSUME NEW w \in Threads,
               \/ GetManifest(w) \/ (\E t \in Tokens : GetPosting(w, t)) \/ Strip(w) \/ StripDone(w)
               \/ Upsert(w) \/ PutManifest(w) \/ GetStats(w) \/ PutStats(w) \/ Fail(w)
        PROVE  job[w] # None /\ StepOf(w)
    BY <1>4 DEF StepOf, GetManifest, GetPosting, Strip, StripDone, Upsert, PutManifest, GetStats,
                PutStats, Fail
  <1> QED
    BY <1>s, <1>1, <1>2, <1>3, <1>4 DEF Next, StoreStep

LEMMA TypesNext == Types /\ [Next]_vars => Types'
  <1>1. ASSUME Types, UNCHANGED vars PROVE Types'
    BY <1>1 DEF vars, index, store, history, Types, StoreOK, IndexOK, JobsOK, HistoryOK
  <1>2. ASSUME Types, StoreStep, UNCHANGED scenario PROVE Types'
    <2>1. /\ UNCHANGED <<postings, manifest, stats, job, last, crossed, miscounted>>
          /\ past' \in [Artifacts -> SUBSET Mishaps]
          /\ versions' \in [Artifacts -> Seq(Task)] /\ waiting' \in Seq(Task)
          /\ bulk' \subseteq Task \X Nat \X Nat /\ jobs' \in Nat
      BY <1>2, StoreStepOK
    <2> QED
      BY <1>2, <2>1 DEF Types, StoreOK, IndexOK, JobsOK, HistoryOK
  <1>3. ASSUME Types, NEW w \in Threads, NEW k \in Task, NEW m \in SUBSET Mishaps,
               BeginsNext(w, k, m)
        PROVE  Types'
    <2>1. IndexOK' /\ JobsOK' /\ HistoryOK' /\ versions' = versions
      BY <1>3, BeginStep DEF BeginsNext
    <2>2. waiting' \in Seq(Task) /\ bulk' \subseteq bulk /\ jobs' \in Nat /\ scenario' = scenario
      BY <1>3 DEF BeginsNext, Types, StoreOK
    <2>3. StoreOK'
      BY <1>3, <2>1, <2>2 DEF Types, StoreOK
    <2> QED
      BY <2>1, <2>3 DEF Types
  <1>4. ASSUME Types, NEW w \in Threads, job[w] # None, StepOf(w), UNCHANGED scenario PROVE Types'
    <2>1. /\ \E J \in Job \cup {None} :
                /\ job' = [job EXCEPT ![w] = J]
                /\ J # None => J.task = job[w].task
                /\ J # None /\ J.pc \in {"stripping", "upserting"} => J.tok \in Tokens
          /\ \E k \in Task \cup {None} : last' = [last EXCEPT ![job[w].task.art] = k]
          /\ IndexOK' /\ HistoryOK' /\ UNCHANGED <<store, jobs>>
      BY <1>4, TaskStep
    <2>2. JobsOK'
      <3>1. /\ job \in [Threads -> Job \cup {None}] /\ last \in [Artifacts -> Task \cup {None}]
            /\ \A v \in Threads : job[v] # None /\ job[v].pc \in {"stripping", "upserting"}
                                    => job[v].tok \in Tokens
        BY <1>4 DEF Types, JobsOK
      <3>2. PICK J \in Job \cup {None} :
              /\ job' = [job EXCEPT ![w] = J]
              /\ J # None /\ J.pc \in {"stripping", "upserting"} => J.tok \in Tokens
        BY <2>1
      <3>3. \A v \in Threads : job'[v] # None /\ job'[v].pc \in {"stripping", "upserting"}
                                 => job'[v].tok \in Tokens
        BY <3>1, <3>2
      <3>4. job' \in [Threads -> Job \cup {None}] /\ last' \in [Artifacts -> Task \cup {None}]
        BY <2>1, <3>1, <3>2
      <3> QED
        BY <3>3, <3>4 DEF JobsOK
    <2>3. StoreOK'
      BY <1>4, <2>1 DEF Types, StoreOK, store
    <2> QED
      BY <2>1, <2>2, <2>3 DEF Types
  <1> QED
    BY <1>1, <1>2, <1>3, <1>4, Steps

LEMMA TypesInit == Init => Types
  <1> SUFFICES ASSUME Init PROVE Types
    OBVIOUS
  <1>1. StoreOK
    BY IndexAssumption DEF Init, StoreOK
  <1>2. IndexOK
    BY EmptyStatsType DEF Init, IndexOK, Manifests
  <1>3. JobsOK
    BY DEF Init, JobsOK
  <1>4. HistoryOK
    BY DEF Init, HistoryOK
  <1> QED
    BY <1>1, <1>2, <1>3, <1>4 DEF Types

-----------------------------------------------------------------------------
(* What a step does to one artifact                                        *)

(* A step that is none of the artifact's tasks leaves it as it is, unless  *)
(* that is on record.                                                      *)
Apart(a) ==
  /\ \A w \in Threads : (Works(w, a)' <=> Works(w, a)) /\ (Works(w, a) => job'[w] = job[w])
  /\ manifest'[a] = manifest[a] /\ last'[a] = last[a] /\ past[a] \subseteq past'[a]
  /\ \/ a \in crossed' /\ "overwritten" \in past'[a]
     \/ /\ a \in crossed' <=> a \in crossed
        /\ \A t \in Tokens : Of(a, postings'[t]) = Of(a, postings[t])

LEMMA ApartFromStore ==
  ASSUME Types, StoreStep, NEW a \in Artifacts
  PROVE  Apart(a)
  <1>1. UNCHANGED <<postings, manifest, job, last, crossed>> /\ past[a] \subseteq past'[a]
    BY StoreStepOK
  <1> QED
    BY <1>1 DEF Apart, Works

LEMMA ApartFromBegin ==
  ASSUME Types, NEW a \in Artifacts, NEW w \in Threads, NEW k \in Task,
         NEW m \in SUBSET Mishaps, BeginsNext(w, k, m), k.art # a
  PROVE  Apart(a)
  <1>t. job \in [Threads -> Job \cup {None}] /\ last \in [Artifacts -> Task \cup {None}]
    BY DEF Types, JobsOK
  <1>1. /\ job[w] = None /\ job' = [job EXCEPT ![w] = NewJob(k)] /\ NewJob(k).task = k
        /\ k.art \in Artifacts /\ last' = [last EXCEPT ![k.art] = None]
        /\ UNCHANGED <<postings, manifest>>
        /\ past'[a] = past[a] /\ (a \in crossed' <=> a \in crossed)
    BY BeginStep DEF BeginsNext
  <1>2. \A v \in Threads : job'[v] = IF v = w THEN NewJob(k) ELSE job[v]
    BY <1>t, <1>1
  <1>3. \A v \in Threads : (Works(v, a)' <=> Works(v, a)) /\ (Works(v, a) => job'[v] = job[v])
    BY <1>1, <1>2 DEF Works
  <1>4. last'[a] = last[a]
    BY <1>t, <1>1
  <1> QED
    BY <1>1, <1>3, <1>4 DEF Apart

LEMMA ApartFromTask ==
  ASSUME Types, NEW a \in Artifacts, NEW w \in Threads, job[w] # None, StepOf(w), ~Works(w, a)
  PROVE  Apart(a)
  <1>t. job \in [Threads -> Job \cup {None}] /\ manifest \in [Artifacts -> Manifests]
        /\ last \in [Artifacts -> Task \cup {None}]
    BY DEF Types, JobsOK, IndexOK
  <1>1. /\ \E J \in Job \cup {None} : /\ job' = [job EXCEPT ![w] = J]
                                     /\ (J # None => J.task = job[w].task)
        /\ \E d \in Manifests : manifest' = [manifest EXCEPT ![job[w].task.art] = d]
        /\ \E k \in Task \cup {None} : last' = [last EXCEPT ![job[w].task.art] = k]
        /\ past[a] \subseteq past'[a] /\ crossed \subseteq crossed'
    BY TaskStep
  <1>2. job[w].task.art # a
    BY DEF Works
  <1>3. \/ a \in crossed' /\ "overwritten" \in past'[a]
        \/ a \notin crossed' \ crossed /\ \A t \in Tokens : Of(a, postings'[t]) = Of(a, postings[t])
    BY <1>2, TaskStep
  <1>4. \A v \in Threads : (Works(v, a)' <=> Works(v, a)) /\ (Works(v, a) => job'[v] = job[v])
    BY <1>t, <1>1, <1>2 DEF Works
  <1>5. manifest'[a] = manifest[a] /\ last'[a] = last[a]
    BY <1>t, <1>1, <1>2
  <1> QED
    BY <1>1, <1>3, <1>4, <1>5 DEF Apart

LEMMA Frame ==
  ASSUME Types, Next, NEW a \in Artifacts
  PROVE  \/ Apart(a)
         \/ \E w \in Threads, k \in Task, m \in SUBSET Mishaps : BeginsNext(w, k, m) /\ k.art = a
         \/ \E w \in Threads : Works(w, a) /\ StepOf(w)
  BY Steps, ApartFromStore, ApartFromBegin, ApartFromTask

(* The steps of a task of the artifact a, one by one.                      *)
Moves(w, J) == job[w] # None /\ job' = [job EXCEPT ![w] = J]

EndsBare(w, a) ==
  /\ Moves(w, None) /\ job[w].pc = "manifest" /\ manifest[a] = None /\ job[w].task.coll = None
  /\ last'[a] = job[w].task /\ UNCHANGED <<postings, manifest, stats, past, miscounted>>
Starts(w, a) ==
  /\ Moves(w, AfterManifest(w)) /\ job[w].pc = "manifest"
  /\ last'[a] = last[a] /\ UNCHANGED <<postings, manifest, stats, past, miscounted>>
Reads(w, a, t) ==
  /\ Moves(w, AfterRead(w, t)) /\ job[w].pc \in {"strip", "upsert"} /\ t \in job[w].todo
  /\ last'[a] = last[a] /\ UNCHANGED <<postings, manifest, stats, past, miscounted>>
Strips(w, a) ==
  /\ Moves(w, AfterWrite(w, "strip")) /\ job[w].pc = "stripping"
  /\ LET kept == Stripped(job[w].entries, job[w].task)
     IN postings' = [postings EXCEPT ![job[w].tok] =
                       IF kept = job[w].entries THEN postings[job[w].tok] ELSE kept]
  /\ last'[a] = last[a] /\ UNCHANGED <<manifest, stats, miscounted>>
Turns(w, a) ==
  /\ Moves(w, AfterStrip(w)) /\ job[w].pc = "strip" /\ job[w].todo = {}
  /\ last'[a] = last[a] /\ UNCHANGED <<postings, manifest, stats, past, miscounted>>
Upserts(w, a) ==
  /\ Moves(w, AfterWrite(w, "upsert")) /\ job[w].pc = "upserting"
  /\ postings' = [postings EXCEPT ![job[w].tok] = job[w].entries \cup {<<a, job[w].task.coll>>}]
  /\ last'[a] = last[a] /\ UNCHANGED <<manifest, stats, miscounted>>
Norm(T) == IF T = {} THEN None ELSE T
Puts(w, a) ==
  /\ Moves(w, AfterPut(w)) /\ job[w].pc = "upsert" /\ job[w].todo = {}
  /\ manifest' = [manifest EXCEPT ![a] = Norm(job[w].task.text)]
  /\ last'[a] = last[a] /\ UNCHANGED <<postings, stats, past, miscounted>>
Sees(w, a, s) ==
  /\ Moves(w, AfterStats(w, s)) /\ job[w].pc = "stats"
  /\ last'[a] = last[a] /\ UNCHANGED <<postings, manifest, stats, past, miscounted>>
Ends(w, a) ==
  /\ Moves(w, None) /\ job[w].pc = "updating"
  /\ stats' = UpdateStats(job[w].seen, job[w].old, job[w].task.text)
  /\ miscounted' = (miscounted \/ job[w].seen # stats)
  /\ last'[a] = job[w].task /\ UNCHANGED <<postings, manifest, past>>
Breaks(w, a) ==
  /\ Moves(w, None) /\ "failed" \in past'[a]
  /\ last'[a] = last[a] /\ UNCHANGED <<postings, manifest, stats, miscounted>>

LEMMA OwnStep ==
  ASSUME Types, NEW a \in Artifacts, NEW w \in Threads, Works(w, a), StepOf(w)
  PROVE  \/ EndsBare(w, a) \/ Starts(w, a) \/ (\E t \in Tokens : Reads(w, a, t)) \/ Strips(w, a)
         \/ Turns(w, a) \/ Upserts(w, a) \/ Puts(w, a) \/ (\E s \in Stats : Sees(w, a, s))
         \/ Ends(w, a) \/ Breaks(w, a)
  <1>1. job[w] # None /\ job[w].task.art = a
    BY DEF Works
  <1>t. /\ last \in [Artifacts -> Task \cup {None}] /\ past \in [Artifacts -> SUBSET Mishaps]
        /\ stats \in Stats
    BY DEF Types, JobsOK, HistoryOK, IndexOK
  <1>2. ASSUME GetManifest(w) PROVE EndsBare(w, a) \/ Starts(w, a)
    BY <1>1, <1>2, <1>t DEF GetManifest, Finish, Goto, Moves, EndsBare, Starts, AfterManifest,
                            index, history
  <1>3. ASSUME NEW t \in Tokens, GetPosting(w, t) PROVE Reads(w, a, t)
    BY <1>1, <1>3 DEF GetPosting, Goto, Moves, Reads, AfterRead, index, history
  <1>4. ASSUME Strip(w) PROVE Strips(w, a)
    BY <1>1, <1>4 DEF Strip, WriteBack, Goto, Moves, Strips, AfterWrite
  <1>5. ASSUME StripDone(w) PROVE Turns(w, a)
    BY <1>1, <1>5 DEF StripDone, Goto, Moves, Turns, AfterStrip, index, history
  <1>6. ASSUME Upsert(w) PROVE Upserts(w, a)
    BY <1>1, <1>6 DEF Upsert, WriteBack, Goto, Moves, Upserts, AfterWrite
  <1>7. ASSUME PutManifest(w) PROVE Puts(w, a)
    BY <1>1, <1>7 DEF PutManifest, Goto, Moves, Puts, AfterPut, Norm, history
  <1>8. ASSUME GetStats(w) PROVE \E s \in Stats : Sees(w, a, s)
    <2>1. \E s \in Stats : Goto(w, AfterStats(w, s))
      BY <1>8, <1>t, EmptyStatsType DEF GetStats, AfterStats
    <2> QED
      BY <1>1, <1>8, <2>1 DEF GetStats, Goto, Moves, Sees, index, history
  <1>9. ASSUME PutStats(w) PROVE Ends(w, a)
    BY <1>1, <1>9, <1>t DEF PutStats, Finish, Goto, Moves, Ends
  <1>10. ASSUME Fail(w) PROVE Breaks(w, a)
    BY <1>1, <1>10, <1>t DEF Fail, Befell, Goto, Moves, Breaks, index
  <1> QED
    BY <1>2, <1>3, <1>4, <1>5, <1>6, <1>7, <1>8, <1>9, <1>10 DEF StepOf

(* What all of them have in common.                                        *)
LEMMA OwnFrame ==
  ASSUME Types, NEW a \in Artifacts, NEW w \in Threads, Works(w, a), StepOf(w)
  PROVE  /\ \A v \in Threads : (Works(v, a)' => Works(v, a)) /\ (v # w => job'[v] = job[v])
         /\ past[a] \subseteq past'[a] /\ (a \in crossed' <=> a \in crossed)
         /\ UNCHANGED store
  <1>1. job[w] # None /\ job[w].task.art = a
    BY DEF Works
  <1>2. /\ \E J \in Job \cup {None} : /\ job' = [job EXCEPT ![w] = J]
                                     /\ (J # None => J.task = job[w].task)
        /\ past[a] \subseteq past'[a] /\ crossed \subseteq crossed' /\ UNCHANGED store
        /\ a \in crossed' => a \in crossed
    BY <1>1, TaskStep
  <1>3. job \in [Threads -> Job \cup {None}]
    BY DEF Types, JobsOK
  <1> QED
    BY <1>1, <1>2, <1>3 DEF Works

-----------------------------------------------------------------------------
(* Tasks of one artifact side by side                                      *)
Alone(a) == \A v, w \in Threads : Works(v, a) /\ Works(w, a) => v = w

(* More than one thread works on an artifact only if that is on record.    *)
AloneInv == \A a \in Artifacts : a \notin crossed \/ "beside" \notin past[a] => Alone(a)

CrossInv == \A a \in crossed : past[a] \cap {"beside", "overwritten"} # {}

LEMMA AloneNext ==
  ASSUME Types, AloneInv, CrossInv, Next
  PROVE  (AloneInv /\ CrossInv)'
  <1> SUFFICES ASSUME NEW a \in Artifacts
               PROVE  /\ a \notin crossed' \/ "beside" \notin past'[a] => Alone(a)'
                      /\ a \in crossed' => past'[a] \cap {"beside", "overwritten"} # {}
    <2>1. crossed' \subseteq Artifacts
      BY TypesNext DEF Types, HistoryOK
    <2> QED
      BY <2>1 DEF AloneInv, CrossInv
  <1>t. job \in [Threads -> Job \cup {None}] /\ past \in [Artifacts -> SUBSET Mishaps]
    BY DEF Types, JobsOK, HistoryOK
  <1>1. /\ a \notin crossed \/ "beside" \notin past[a] => Alone(a)
        /\ a \in crossed => past[a] \cap {"beside", "overwritten"} # {}
    BY DEF AloneInv, CrossInv
  <1> DEFINE G == /\ a \notin crossed' \/ "beside" \notin past'[a] => Alone(a)'
                  /\ a \in crossed' => past'[a] \cap {"beside", "overwritten"} # {}
  <1>2. ASSUME Apart(a) PROVE G
    <2>1. Alone(a) => Alone(a)'
      BY <1>2 DEF Apart, Alone
    <2> QED
      BY <1>1, <1>2, <2>1 DEF Apart
  <1>3. ASSUME NEW w \in Threads, NEW k \in Task, NEW m \in SUBSET Mishaps, BeginsNext(w, k, m),
               k.art = a
        PROVE  G
    <2>1. /\ job' = [job EXCEPT ![w] = NewJob(k)]
          /\ past[a] \subseteq past'[a]
          /\ ~Resting(a) => "beside" \in past'[a] /\ a \in crossed'
          /\ Resting(a) => a \notin crossed'
      BY <1>3, BeginStep DEF BeginsNext
    <2>2. Resting(a) => Alone(a)'
      BY <1>t, <2>1 DEF Resting, Alone, Works
    <2> QED
      BY <2>1, <2>2
  <1>4. ASSUME NEW w \in Threads, Works(w, a), StepOf(w) PROVE G
    <2>1. /\ \A v \in Threads : Works(v, a)' => Works(v, a)
          /\ past[a] \subseteq past'[a] /\ (a \in crossed' <=> a \in crossed)
      BY <1>4, OwnFrame
    <2>2. Alone(a) => Alone(a)'
      BY <2>1 DEF Alone
    <2> QED
      BY <1>1, <2>1, <2>2
  <1> QED
    BY <1>2, <1>3, <1>4, Frame

-----------------------------------------------------------------------------
(* The posting lists                                                       *)

(* The task of thread w has put token t into its posting list.             *)
Done(J, t) ==
  \/ J.pc \in {"stats", "updating"}
  \/ J.pc = "upsert" /\ t \notin J.todo
  \/ J.pc = "upserting" /\ t \notin J.todo /\ t # J.tok

(* An artifact with a task under way counts as not indexed, and the tokens *)
(* that the task is done with are there.                                   *)
Working(w, a) ==
  /\ last[a] = None
  /\ \A t \in job[w].task.text : Done(job[w], t) => <<a, job[w].task.coll>> \in postings[t]

(* What the last task of the artifact posted is still there.               *)
Posted(a) ==
  last[a] # None /\ last[a].coll # None => \A t \in last[a].text : <<a, last[a].coll>> \in postings[t]

PostInv ==
  \A a \in Artifacts : a \notin crossed =>
    /\ \A w \in Threads : Works(w, a) => Working(w, a)
    /\ Posted(a)

LEMMA PostApart ==
  ASSUME Types, PostInv, NEW a \in Artifacts, a \notin crossed', Apart(a)
  PROVE  (\A w \in Threads : Works(w, a)' => Working(w, a)') /\ Posted(a)'
  <1>1. /\ a \notin crossed /\ \A t \in Tokens : Of(a, postings'[t]) = Of(a, postings[t])
        /\ \A w \in Threads : Works(w, a)' => Works(w, a) /\ job'[w] = job[w]
        /\ last'[a] = last[a]
    BY DEF Apart
  <1>2. \A t \in Tokens : \A c : <<a, c>> \in postings'[t] <=> <<a, c>> \in postings[t]
    BY <1>1 DEF Of
  <1>3. ASSUME NEW w \in Threads, Works(w, a)' PROVE Working(w, a)'
    <2>1. Works(w, a) /\ job'[w] = job[w] /\ Working(w, a)
      BY <1>1, <1>3 DEF PostInv
    <2>2. job[w].task.text \in SUBSET Tokens
      BY <2>1, WorkerFields DEF Works
    <2> QED
      BY <1>1, <1>2, <2>1, <2>2 DEF Working
  <1>4. Posted(a)'
    <2>1. Posted(a)
      BY <1>1 DEF PostInv
    <2>2. last[a] # None => last[a].text \in SUBSET Tokens
      BY TaskFields DEF Types, JobsOK
    <2> QED
      BY <1>1, <1>2, <2>1, <2>2 DEF Posted
  <1> QED
    BY <1>3, <1>4

LEMMA PostOwn ==
  ASSUME Types, AloneInv, PostInv, NEW a \in Artifacts, a \notin crossed',
         NEW w \in Threads, Works(w, a), StepOf(w)
  PROVE  (\A v \in Threads : Works(v, a)' => Working(v, a)') /\ Posted(a)'
  <1>t. /\ job \in [Threads -> Job \cup {None}] /\ postings \in [Tokens -> SUBSET Entries]
    BY DEF Types, JobsOK, IndexOK
  <1>1. /\ job[w] # None /\ job[w].task.art = a /\ job[w].task.text \in SUBSET Tokens
        /\ job[w].task.coll = None => job[w].task.text = {}
        /\ job[w].pc \in {"stripping", "upserting"} => job[w].tok \in Tokens
    BY WorkerFields DEF Works
  <1>2. /\ a \notin crossed
        /\ \A v \in Threads : Works(v, a)' => Works(v, a)
    BY OwnFrame
  <1>3. Working(w, a) /\ \A v \in Threads : Works(v, a) => v = w
    BY <1>2 DEF PostInv, AloneInv, Alone
  <1>4. /\ last[a] = None
        /\ \A t \in job[w].task.text : Done(job[w], t) => <<a, job[w].task.coll>> \in postings[t]
    BY <1>3 DEF Working
  <1> DEFINE G == (\A v \in Threads : Works(v, a)' => Working(v, a)') /\ Posted(a)'
  (* The task goes on as J and the artifact still counts as not indexed.     *)
  <1>5. ASSUME NEW J, Moves(w, J), last'[a] = last[a],
               J # None => /\ J.task = job[w].task
                           /\ \A t \in job[w].task.text :
                                Done(J, t) => <<a, job[w].task.coll>> \in postings'[t]
        PROVE  G
    <2>1. job'[w] = J
      BY <1>5, <1>t DEF Moves
    <2>2. \A v \in Threads : Works(v, a)' => v = w /\ J # None
      BY <1>2, <1>3, <2>1 DEF Works
    <2>3. J # None => Working(w, a)'
      BY <1>4, <1>5, <2>1 DEF Working
    <2> QED
      BY <1>4, <1>5, <2>2, <2>3 DEF Posted
  <1>6. ASSUME job'[w] = None, last'[a] = job[w].task,
               \A t \in job[w].task.text : <<a, job[w].task.coll>> \in postings'[t]
        PROVE  G
    <2>1. \A v \in Threads : ~Works(v, a)'
      BY <1>2, <1>3, <1>6 DEF Works
    <2> QED
      BY <1>6, <2>1 DEF Posted
  <1>f. /\ AfterManifest(w).task = job[w].task /\ AfterManifest(w).pc = "strip"
        /\ \A t : /\ AfterRead(w, t).task = job[w].task
                  /\ AfterRead(w, t).tok = t
                  /\ AfterRead(w, t).todo = job[w].todo \ {t}
                  /\ AfterRead(w, t).pc = IF job[w].pc = "strip" THEN "stripping" ELSE "upserting"
        /\ \A pc : /\ AfterWrite(w, pc).task = job[w].task
                   /\ AfterWrite(w, pc).todo = job[w].todo /\ AfterWrite(w, pc).pc = pc
        /\ AfterStrip(w).task = job[w].task
        /\ AfterStrip(w).todo = job[w].task.text /\ AfterStrip(w).pc = "upsert"
        /\ AfterPut(w).task = job[w].task /\ AfterPut(w).pc = "stats"
        /\ \A s : AfterStats(w, s).task = job[w].task /\ AfterStats(w, s).pc = "updating"
    BY <1>1, AfterFields
  <1>7. CASE EndsBare(w, a)
    <2>1. job'[w] = None /\ job[w].task.text = {}
      BY <1>1, <1>7, <1>t DEF EndsBare, Moves
    <2> QED
      BY <1>6, <1>7, <2>1 DEF EndsBare
  <1>8. CASE Starts(w, a)
    BY <1>5, <1>8, <1>f DEF Starts, Done
  <1>9. ASSUME NEW t \in Tokens, Reads(w, a, t) PROVE G
    <2>1. \A u \in job[w].task.text :
             Done(AfterRead(w, t), u) => <<a, job[w].task.coll>> \in postings'[u]
      BY <1>4, <1>9, <1>f DEF Reads, Done
    <2> QED
      BY <1>5, <1>9, <1>f, <2>1 DEF Reads
  <1>10. CASE Strips(w, a)
    BY <1>5, <1>10, <1>f DEF Strips, Done
  <1>11. CASE Turns(w, a)
    BY <1>5, <1>11, <1>f DEF Turns, Done
  <1>12. CASE Upserts(w, a)
    <2>1. /\ job[w].pc = "upserting" /\ job[w].tok \in Tokens
          /\ postings' = [postings EXCEPT ![job[w].tok] = job[w].entries \cup {<<a, job[w].task.coll>>}]
      BY <1>1, <1>12 DEF Upserts
    <2>2. ASSUME NEW t \in job[w].task.text, Done(AfterWrite(w, "upsert"), t)
          PROVE  <<a, job[w].task.coll>> \in postings'[t]
      <3>1. t \in Tokens /\ t \notin job[w].todo
        BY <1>1, <1>f, <2>2 DEF Done
      <3>2. CASE t = job[w].tok
        BY <1>t, <2>1, <3>2
      <3>3. CASE t # job[w].tok
        BY <1>t, <1>4, <2>1, <3>1, <3>3 DEF Done
      <3> QED
        BY <3>2, <3>3
    <2> QED
      BY <1>5, <1>12, <1>f, <2>2 DEF Upserts
  <1>13. CASE Puts(w, a)
    BY <1>4, <1>5, <1>13, <1>f DEF Puts, Done
  <1>14. ASSUME NEW s \in Stats, Sees(w, a, s) PROVE G
    BY <1>4, <1>5, <1>14, <1>f DEF Sees, Done
  <1>15. CASE Ends(w, a)
    <2>1. job'[w] = None
      BY <1>15, <1>t DEF Ends, Moves
    <2> QED
      BY <1>4, <1>6, <1>15, <2>1 DEF Ends, Done
  <1>16. CASE Breaks(w, a)
    BY <1>5, <1>16 DEF Breaks
  <1> QED
    BY <1>7, <1>8, <1>9, <1>10, <1>11, <1>12, <1>13, <1>14, <1>15, <1>16, OwnStep

LEMMA PostNext ==
  ASSUME Types, AloneInv, PostInv, Next
  PROVE  PostInv'
  <1> SUFFICES ASSUME NEW a \in Artifacts, a \notin crossed'
               PROVE  (\A w \in Threads : Works(w, a)' => Working(w, a)') /\ Posted(a)'
    BY DEF PostInv
  <1>t. job \in [Threads -> Job \cup {None}] /\ last \in [Artifacts -> Task \cup {None}]
    BY DEF Types, JobsOK
  <1>1. ASSUME NEW w \in Threads, NEW k \in Task, NEW m \in SUBSET Mishaps, BeginsNext(w, k, m),
               k.art = a
        PROVE  (\A v \in Threads : Works(v, a)' => Working(v, a)') /\ Posted(a)'
    <2>1. /\ job' = [job EXCEPT ![w] = NewJob(k)] /\ last' = [last EXCEPT ![a] = None]
          /\ NewJob(k).pc = "manifest" /\ Resting(a)
      BY <1>1, BeginStep DEF BeginsNext
    <2>2. last'[a] = None /\ \A v \in Threads : job'[v] = IF v = w THEN NewJob(k) ELSE job[v]
      BY <1>t, <2>1
    <2>3. \A v \in Threads : Works(v, a)' => job'[v] = NewJob(k)
      BY <2>1, <2>2 DEF Resting, Works
    <2> QED
      BY <2>1, <2>2, <2>3 DEF Working, Posted, Done
  <1> QED
    BY <1>1, PostApart, PostOwn, Frame

(* Whatever tasks failed half-way before, in whichever collections the     *)
(* artifact was indexed, however many threads there are: the text of the   *)
(* last task that ran to its end is in the posting lists, and stays there  *)
(* until a task of the same artifact begins or one of another wrote a list *)
(* back as it was before.                                                  *)
THEOREM IndexLastIndexPosted == Spec => []LastIndexPosted
  <1>1. Init => Types /\ AloneInv /\ CrossInv /\ PostInv
    BY TypesInit DEF Init, AloneInv, Alone, Works, CrossInv, PostInv, Posted
  <1>2. Types /\ AloneInv /\ CrossInv /\ PostInv /\ [Next]_vars
          => (Types /\ AloneInv /\ CrossInv /\ PostInv)'
    <2>1. ASSUME AloneInv, CrossInv, PostInv, UNCHANGED vars
          PROVE  (AloneInv /\ CrossInv /\ PostInv)'
      BY <2>1 DEF vars, index, history, AloneInv, Alone, Works, CrossInv, PostInv, Posted, Working
    <2> QED
      BY <2>1, AloneNext, PostNext, TypesNext
  <1>3. PostInv => LastIndexPosted
    BY DEF PostInv, Posted, LastIndexPosted
  <1> QED
    BY <1>1, <1>2, <1>3, PTL DEF Spec
-----------------------------------------------------------------------------
(* The statistics                                                          *)

(* The artifacts that the manifests f name, and those with token t.        *)
Named(f) == {a \in Artifacts : f[a] # None}
With(f, t) == {a \in Artifacts : f[a] # None /\ t \in f[a]}

(* The statistics s are those of the manifests f.                          *)
Counted(f, s) ==
  /\ s.docs = Cardinality(Named(f))
  /\ \A t \in Tokens : s.df[t] = Cardinality(With(f, t))

(* Only a may join or leave a set of artifacts.                            *)
LEMMA OneMoves ==
  ASSUME NEW S \in SUBSET Artifacts, NEW R \in SUBSET Artifacts, NEW a \in Artifacts,
         S \ {a} = R \ {a}
  PROVE  /\ Cardinality(S) \in Nat /\ Cardinality(R) \in Nat
         /\ Cardinality(R) = IF a \in S THEN IF a \in R THEN Cardinality(S) ELSE Cardinality(S) - 1
                             ELSE IF a \in R THEN Cardinality(S) + 1 ELSE Cardinality(S)
         /\ a \in S => Cardinality(S) > 0
  <1>1. IsFiniteSet(S) /\ IsFiniteSet(R) /\ IsFiniteSet(S \ {a})
    BY IndexAssumption, FS_Subset
  <1>2. /\ Cardinality(S) \in Nat /\ Cardinality(R) \in Nat /\ Cardinality(S \ {a}) \in Nat
    BY <1>1, FS_CardinalityType
  <1>3. /\ Cardinality(S \ {a}) = IF a \in S THEN Cardinality(S) - 1 ELSE Cardinality(S)
        /\ Cardinality(R \ {a}) = IF a \in R THEN Cardinality(R) - 1 ELSE Cardinality(R)
    BY <1>1, FS_RemoveElement
  <1>4. PICK n \in Nat : n = Cardinality(S \ {a}) /\ n = Cardinality(R \ {a})
    BY <1>2
  <1>5. /\ n = IF a \in S THEN Cardinality(S) - 1 ELSE Cardinality(S)
        /\ n = IF a \in R THEN Cardinality(R) - 1 ELSE Cardinality(R)
    BY <1>3, <1>4
  <1>6. PICK s \in Nat, r \in Nat : s = Cardinality(S) /\ r = Cardinality(R)
    BY <1>2
  <1>7. (a \in S => s = n + 1) /\ (a \notin S => s = n) /\ (a \in R => r = n + 1) /\ (a \notin R => r = n)
    BY <1>5, <1>6
  <1> QED
    BY <1>6, <1>7

(* Rolling the old text back and adding the new one is what exchanging the *)
(* artifact's manifest does to the counts; no counter is clamped on the    *)
(* way.                                                                    *)
LEMMA UpdateCounts ==
  ASSUME NEW f \in [Artifacts -> Manifests], NEW s \in Stats, Counted(f, s),
         NEW a \in Artifacts, NEW T \in SUBSET Tokens, NEW g, g = [f EXCEPT ![a] = Norm(T)]
  PROVE  Counted(g, UpdateStats(s, f[a], T))
  <1> DEFINE r == IF f[a] = None THEN s ELSE RemoveDocument(s, f[a])
  <1> DEFINE u == UpdateStats(s, f[a], T)
  <1>g. \A b \in Artifacts : g[b] = IF b = a THEN Norm(T) ELSE f[b]
    OBVIOUS
  <1>n. T # None /\ (Norm(T) # None <=> T # {}) /\ (T # {} => Norm(T) = T)
    BY IndexAssumption DEF Norm
  <1>1. u.docs = Cardinality(Named(g))
    <2>1. Named(f) \in SUBSET Artifacts /\ Named(g) \in SUBSET Artifacts
      BY DEF Named
    <2>2. /\ Named(f) \ {a} = Named(g) \ {a}
          /\ a \in Named(f) <=> f[a] # None
          /\ a \in Named(g) <=> T # {}
      BY <1>g, <1>n DEF Named
    <2>3. s.docs = Cardinality(Named(f))
      BY DEF Counted
    <2>4. r.docs = IF f[a] = None THEN s.docs ELSE Minus(s.docs, 1)
      BY DEF RemoveDocument
    <2>5. u.docs = IF T = {} THEN r.docs ELSE r.docs + 1
      BY DEF UpdateStats, AddDocument
    <2> HIDE DEF r, u
    <2> DEFINE n == Cardinality(Named(f))
    <2>6. /\ n \in Nat /\ (f[a] # None => n > 0)
          /\ Cardinality(Named(g)) = IF f[a] # None THEN IF T # {} THEN n ELSE n - 1
                                     ELSE IF T # {} THEN n + 1 ELSE n
      <3>1. PICK S \in SUBSET Artifacts : S = Named(f)
        BY <2>1
      <3>2. PICK R \in SUBSET Artifacts : R = Named(g)
        BY <2>1
      <3>3. S \ {a} = R \ {a}
        BY <2>2, <3>1, <3>2
      <3>4. /\ Cardinality(S) \in Nat
            /\ Cardinality(R) = IF a \in S THEN IF a \in R THEN Cardinality(S) ELSE Cardinality(S) - 1
                                ELSE IF a \in R THEN Cardinality(S) + 1 ELSE Cardinality(S)
            /\ a \in S => Cardinality(S) > 0
        BY <3>3, OneMoves
      <3>5. /\ a \in S <=> f[a] # None
            /\ a \in R <=> T # {}
            /\ n = Cardinality(S)
        BY <2>2, <3>1, <3>2
      <3> HIDE DEF n
      <3>6. Cardinality(Named(g)) = Cardinality(R)
        BY <3>2
      <3> QED
        BY <3>4, <3>5, <3>6
    <2>7. s.docs = n
      BY <2>3
    <2> HIDE DEF n
    <2> QED
      BY <2>4, <2>5, <2>6, <2>7 DEF Minus
  <1>2. ASSUME NEW t \in Tokens PROVE u.df[t] = Cardinality(With(g, t))
    <2>1. With(f, t) \in SUBSET Artifacts /\ With(g, t) \in SUBSET Artifacts
      BY DEF With
    <2>2. /\ With(f, t) \ {a} = With(g, t) \ {a}
          /\ a \in With(f, t) <=> f[a] # None /\ t \in f[a]
          /\ a \in With(g, t) <=> t \in T
      BY <1>g, <1>n DEF With
    <2>3. s.df[t] = Cardinality(With(f, t))
      BY DEF Counted
    <2>4. r.df[t] = IF f[a] # None /\ t \in f[a] THEN Minus(s.df[t], 1) ELSE s.df[t]
      BY DEF RemoveDocument
    <2>5. u.df[t] = IF t \in T THEN r.df[t] + 1 ELSE r.df[t]
      BY DEF UpdateStats, AddDocument
    <2> HIDE DEF r, u
    <2> DEFINE n == Cardinality(With(f, t))
    <2>6. /\ n \in Nat /\ (f[a] # None /\ t \in f[a] => n > 0)
          /\ Cardinality(With(g, t)) = IF f[a] # None /\ t \in f[a] THEN IF t \in T THEN n ELSE n - 1
                                       ELSE IF t \in T THEN n + 1 ELSE n
      <3>1. PICK S \in SUBSET Artifacts : S = With(f, t)
        BY <2>1
      <3>2. PICK R \in SUBSET Artifacts : R = With(g, t)
        BY <2>1
      <3>3. S \ {a} = R \ {a}
        BY <2>2, <3>1, <3>2
      <3>4. /\ Cardinality(S) \in Nat
            /\ Cardinality(R) = IF a \in S THEN IF a \in R THEN Cardinality(S) ELSE Cardinality(S) - 1
                                ELSE IF a \in R THEN Cardinality(S) + 1 ELSE Cardinality(S)
            /\ a \in S => Cardinality(S) > 0
        BY <3>3, OneMoves
      <3>5. /\ a \in S <=> f[a] # None /\ t \in f[a]
            /\ a \in R <=> t \in T
            /\ n = Cardinality(S)
        BY <2>2, <3>1, <3>2
      <3> HIDE DEF n
      <3>6. Cardinality(With(g, t)) = Cardinality(R)
        BY <3>2
      <3> QED
        BY <3>4, <3>5, <3>6
    <2>7. s.df[t] = n
      BY <2>3
    <2> HIDE DEF n
    <2> QED
      BY <2>4, <2>5, <2>6, <2>7 DEF Minus
  <1> QED
    BY <1>1, <1>2 DEF Counted

Earlier == {"strip", "stripping", "upsert", "upserting"}
Later == {"stats", "updating"}

(* A task of an artifact with no other beside it knows the manifest that   *)
(* is there until it writes its own.                                       *)
Knows(w, a) ==
  /\ job[w].pc \in Earlier => job[w].old = manifest[a]
  /\ job[w].pc \in Later => manifest[a] = Norm(job[w].task.text)

ManInv ==
  \A a \in Artifacts : "beside" \notin past[a] => \A w \in Threads : Works(w, a) => Knows(w, a)

LEMMA ManNext ==
  ASSUME Types, AloneInv, ManInv, Next
  PROVE  ManInv'
  <1> SUFFICES ASSUME NEW a \in Artifacts, "beside" \notin past'[a],
                      NEW v \in Threads, Works(v, a)'
               PROVE  Knows(v, a)'
    BY DEF ManInv
  <1>t. job \in [Threads -> Job \cup {None}] /\ manifest \in [Artifacts -> Manifests]
    BY DEF Types, JobsOK, IndexOK
  <1>1. CASE Apart(a)
    <2>1. "beside" \notin past[a] /\ Works(v, a) /\ job'[v] = job[v] /\ manifest'[a] = manifest[a]
      BY <1>1 DEF Apart
    <2> QED
      BY <2>1 DEF ManInv, Knows
  <1>2. ASSUME NEW w \in Threads, NEW k \in Task, NEW m \in SUBSET Mishaps, BeginsNext(w, k, m),
               k.art = a
        PROVE  Knows(v, a)'
    <2>1. /\ job' = [job EXCEPT ![w] = NewJob(k)] /\ NewJob(k).pc = "manifest" /\ Resting(a)
      BY <1>2, BeginStep DEF BeginsNext
    <2>2. job'[v] = NewJob(k)
      BY <1>t, <2>1 DEF Resting, Works
    <2> QED
      BY <2>1, <2>2 DEF Knows, Earlier, Later
  <1>3. ASSUME NEW w \in Threads, Works(w, a), StepOf(w) PROVE Knows(v, a)'
    <2>1. "beside" \notin past[a] /\ Works(v, a)
      BY <1>3, OwnFrame
    <2>2. v = w /\ Knows(w, a)
      BY <1>3, <2>1 DEF AloneInv, Alone, ManInv
    <2>3. job[w] # None /\ job[w].task.art = a /\ job[w].task.text \in SUBSET Tokens
      BY <1>3, WorkerFields DEF Works
    <2>4. ASSUME NEW J, Moves(w, J) PROVE job'[w] = J
      BY <2>4, <1>t DEF Moves
    <2>f. /\ AfterManifest(w).pc = "strip" /\ AfterManifest(w).old = manifest[a]
          /\ \A t : /\ AfterRead(w, t).old = job[w].old
                    /\ AfterRead(w, t).pc = IF job[w].pc = "strip" THEN "stripping" ELSE "upserting"
          /\ \A pc : AfterWrite(w, pc).old = job[w].old /\ AfterWrite(w, pc).pc = pc
          /\ AfterStrip(w).old = job[w].old /\ AfterStrip(w).pc = "upsert"
          /\ AfterPut(w).task = job[w].task /\ AfterPut(w).pc = "stats"
          /\ \A s : AfterStats(w, s).task = job[w].task /\ AfterStats(w, s).pc = "updating"
      BY <2>3, AfterFields
    <2>5. job'[w] # None
      BY <2>2 DEF Works
    <2>6. CASE Starts(w, a)
      BY <2>2, <2>4, <2>6, <2>f DEF Starts, Knows, Earlier, Later
    <2>7. ASSUME NEW t \in Tokens, Reads(w, a, t) PROVE Knows(w, a)'
      BY <2>2, <2>4, <2>7, <2>f DEF Reads, Knows, Earlier, Later
    <2>8. CASE Strips(w, a)
      BY <2>2, <2>4, <2>8, <2>f DEF Strips, Knows, Earlier, Later
    <2>9. CASE Turns(w, a)
      BY <2>2, <2>4, <2>9, <2>f DEF Turns, Knows, Earlier, Later
    <2>10. CASE Upserts(w, a)
      BY <2>2, <2>4, <2>10, <2>f DEF Upserts, Knows, Earlier, Later
    <2>11. CASE Puts(w, a)
      BY <1>t, <2>2, <2>4, <2>11, <2>f DEF Puts, Knows, Earlier, Later
    <2>12. ASSUME NEW s \in Stats, Sees(w, a, s) PROVE Knows(w, a)'
      BY <2>2, <2>4, <2>12, <2>f DEF Sees, Knows, Earlier, Later
    <2>13. CASE EndsBare(w, a) \/ Ends(w, a) \/ Breaks(w, a)
      BY <2>4, <2>5, <2>13 DEF EndsBare, Ends, Breaks
    <2> QED
      BY <1>3, <2>2, <2>6, <2>7, <2>8, <2>9, <2>10, <2>11, <2>12, <2>13, OwnStep
  <1> QED
    BY <1>1, <1>2, <1>3, Frame

(* What the statistics count of an artifact: its manifest, or the one from *)
(* before while a task has written its own and not the statistics yet.     *)
Owed(d, a) ==
  /\ \A w \in Threads : Works(w, a) /\ job[w].pc \in Later => d = job[w].old
  /\ (\A w \in Threads : Works(w, a) => job[w].pc \notin Later) => d = manifest[a]

StatInv ==
  Trusted => \E f \in [Artifacts -> Manifests] : Counted(f, stats) /\ \A a \in Artifacts : Owed(f[a], a)

LEMMA OwedApart ==
  ASSUME NEW a \in Artifacts, Apart(a), NEW d, Owed(d, a)
  PROVE  Owed(d, a)'
  BY DEF Apart, Owed

(* A task whose statistics stay as they are owes what it owed.             *)
LEMMA OwedOwn ==
  ASSUME Types, AloneInv, ManInv, NEW a \in Artifacts, NEW w \in Threads, Works(w, a), StepOf(w),
         "beside" \notin past'[a], "failed" \notin past'[a], ~Ends(w, a), NEW d, Owed(d, a)
  PROVE  Owed(d, a)' /\ stats' = stats
  <1>t. job \in [Threads -> Job \cup {None}] /\ manifest \in [Artifacts -> Manifests]
    BY DEF Types, JobsOK, IndexOK
  <1>1. /\ "beside" \notin past[a] /\ \A v \in Threads : Works(v, a)' => Works(v, a)
    BY OwnFrame
  <1>2. Knows(w, a) /\ \A v \in Threads : Works(v, a) => v = w
    BY <1>1 DEF AloneInv, Alone, ManInv
  <1>3. job[w] # None /\ job[w].task.art = a
    BY DEF Works
  <1>4. ASSUME NEW J, Moves(w, J) PROVE job'[w] = J
    BY <1>4, <1>t DEF Moves
  <1>f. /\ AfterManifest(w).pc = "strip"
        /\ \A t : AfterRead(w, t).pc = IF job[w].pc = "strip" THEN "stripping" ELSE "upserting"
        /\ \A pc : AfterWrite(w, pc).pc = pc
        /\ AfterStrip(w).pc = "upsert"
        /\ AfterPut(w).old = job[w].old /\ AfterPut(w).pc = "stats"
        /\ \A s : AfterStats(w, s).old = job[w].old /\ AfterStats(w, s).pc = "updating"
    BY <1>3, AfterFields
  (* Not yet later, before and after.                                        *)
  <1>5. ASSUME NEW J, Moves(w, J), job[w].pc \notin Later, J # None => J.pc \notin Later,
               manifest' = manifest
        PROVE  Owed(d, a)'
    <2>1. \A v \in Threads : Works(v, a) => job[v].pc \notin Later
      BY <1>2, <1>5
    <2>2. \A v \in Threads : Works(v, a)' => job'[v].pc \notin Later
      BY <1>1, <1>2, <1>4, <1>5 DEF Works
    <2> QED
      BY <1>5, <2>1, <2>2 DEF Owed
  <1>6. CASE EndsBare(w, a)
    BY <1>5, <1>6 DEF EndsBare, Later
  <1>7. CASE Starts(w, a)
    BY <1>5, <1>7, <1>f DEF Starts, Later
  <1>8. ASSUME NEW t \in Tokens, Reads(w, a, t) PROVE Owed(d, a)' /\ stats' = stats
    BY <1>5, <1>8, <1>f DEF Reads, Later
  <1>9. CASE Strips(w, a)
    BY <1>5, <1>9, <1>f DEF Strips, Later
  <1>10. CASE Turns(w, a)
    BY <1>5, <1>10, <1>f DEF Turns, Later
  <1>11. CASE Upserts(w, a)
    BY <1>5, <1>11, <1>f DEF Upserts, Later
  <1>12. CASE Puts(w, a)
    <2>1. job'[w] = AfterPut(w) /\ job[w].pc = "upsert" /\ stats' = stats
      BY <1>4, <1>12 DEF Puts
    <2>2. d = manifest[a] /\ job[w].old = manifest[a]
      BY <1>2, <2>1 DEF Owed, Knows, Earlier, Later
    <2>3. AfterPut(w) # None /\ AfterPut(w).task.art = a
      BY <1>3, AfterTypes, AfterFields, NoJobAssumption
    <2>4. Works(w, a)'
      BY <2>1, <2>3 DEF Works
    <2> QED
      BY <1>1, <1>2, <1>f, <2>1, <2>2, <2>4 DEF Owed, Later
  <1>13. ASSUME NEW s \in Stats, Sees(w, a, s) PROVE Owed(d, a)' /\ stats' = stats
    <2>1. job'[w] = AfterStats(w, s) /\ job[w].pc = "stats" /\ stats' = stats
      BY <1>4, <1>13 DEF Sees
    <2>2. d = job[w].old
      BY <2>1 DEF Owed, Later
    <2>3. AfterStats(w, s) # None /\ AfterStats(w, s).task.art = a
      BY <1>3, AfterTypes, AfterFields, NoJobAssumption
    <2>4. Works(w, a)'
      BY <2>1, <2>3 DEF Works
    <2> QED
      BY <1>1, <1>2, <1>f, <2>1, <2>2, <2>4 DEF Owed, Later
  <1>14. ~Breaks(w, a)
    BY DEF Breaks
  <1> QED
    BY <1>6, <1>7, <1>8, <1>9, <1>10, <1>11, <1>12, <1>13, <1>14, OwnStep

LEMMA StatNext ==
  ASSUME Types, AloneInv, ManInv, StatInv, Next
  PROVE  StatInv'
  <1> SUFFICES ASSUME Trusted'
               PROVE  \E g \in [Artifacts -> Manifests] :
                         Counted(g, stats') /\ \A a \in Artifacts : Owed(g[a], a)'
    <2>1. \A g : Counted(g, stats') <=> Counted(g, stats)'
      BY DEF Counted, Named, With
    <2> QED
      BY <2>1 DEF StatInv
  <1> DEFINE G == \E g \in [Artifacts -> Manifests] :
                     Counted(g, stats') /\ \A a \in Artifacts : Owed(g[a], a)'
  <1>t. /\ job \in [Threads -> Job \cup {None}] /\ manifest \in [Artifacts -> Manifests]
        /\ stats \in Stats
    BY DEF Types, JobsOK, IndexOK
  <1>s. ~miscounted' /\ \A a \in Artifacts : "beside" \notin past'[a] /\ "failed" \notin past'[a]
    BY DEF Trusted, Spared
  <1>1. (miscounted => miscounted') /\ \A a \in Artifacts : past[a] \subseteq past'[a]
    BY Steps, StoreStepOK, BeginStep, TaskStep DEF BeginsNext
  <1>2. Trusted
    BY <1>s, <1>1 DEF Trusted, Spared
  <1>3. PICK f \in [Artifacts -> Manifests] : Counted(f, stats) /\ \A a \in Artifacts : Owed(f[a], a)
    BY <1>2 DEF StatInv
  <1>4. ASSUME StoreStep PROVE G
    <2>1. stats' = stats
      BY <1>4, StoreStepOK
    <2>2. \A a \in Artifacts : Owed(f[a], a)'
      BY <1>3, <1>4, ApartFromStore, OwedApart
    <2> QED
      BY <1>3, <2>1, <2>2
  <1>5. ASSUME NEW w \in Threads, NEW k \in Task, NEW m \in SUBSET Mishaps, BeginsNext(w, k, m)
        PROVE  G
    <2> DEFINE a == k.art
    <2>1. /\ job' = [job EXCEPT ![w] = NewJob(k)] /\ NewJob(k).pc = "manifest"
          /\ a \in Artifacts /\ (~Resting(a) => "beside" \in past'[a])
          /\ UNCHANGED <<manifest, stats>>
      BY <1>5, BeginStep DEF BeginsNext
    <2>2. ASSUME NEW b \in Artifacts, b # a PROVE Owed(f[b], b)'
      BY <1>3, <1>5, <2>2, ApartFromBegin, OwedApart
    <2>3. Owed(f[a], a)'
      <3>1. Resting(a)
        BY <1>s, <2>1
      <3>2. f[a] = manifest[a]
        BY <1>3, <2>1, <3>1 DEF Owed, Resting
      <3>3. \A v \in Threads : Works(v, a)' => job'[v] = NewJob(k)
        BY <1>t, <2>1, <3>1 DEF Resting, Works
      <3> QED
        BY <2>1, <3>2, <3>3 DEF Owed, Later
    <2> QED
      BY <1>3, <2>1, <2>2, <2>3
  <1>6. ASSUME NEW w \in Threads, job[w] # None, StepOf(w) PROVE G
    <2>1. PICK a \in Artifacts : Works(w, a)
      BY <1>6, WorkerFields DEF Works
    <2>2. ASSUME NEW b \in Artifacts, b # a PROVE Owed(f[b], b)'
      <3>1. ~Works(w, b)
        BY <2>1, <2>2 DEF Works
      <3> QED
        BY <1>3, <1>6, <3>1, ApartFromTask, OwedApart
    <2>3. CASE ~Ends(w, a)
      <3>1. Owed(f[a], a)' /\ stats' = stats
        BY <1>3, <1>6, <1>s, <2>1, <2>3, OwedOwn
      <3> QED
        BY <1>3, <2>2, <3>1
    <2>4. CASE Ends(w, a)
      <3>0. PICK T \in SUBSET Tokens : T = job[w].task.text
        BY <1>6, WorkerFields
      <3> DEFINE g == [f EXCEPT ![a] = Norm(T)]
      <3>1. /\ Moves(w, None) /\ job[w].pc = "updating" /\ UNCHANGED <<manifest, past>>
            /\ stats' = UpdateStats(job[w].seen, job[w].old, T)
            /\ job[w].seen = stats
        BY <1>s, <2>4, <3>0 DEF Ends
      <3>2. f[a] = job[w].old
        BY <1>3, <2>1, <3>1 DEF Owed, Later
      <3>3. Knows(w, a) /\ \A v \in Threads : Works(v, a) => v = w
        BY <1>s, <2>1, <3>1 DEF AloneInv, Alone, ManInv
      <3>4. manifest[a] = Norm(T)
        BY <3>0, <3>1, <3>3 DEF Knows, Later
      <3>5. Norm(T) \in Manifests
        BY DEF Norm, Manifests
      <3>6. g \in [Artifacts -> Manifests] /\ g[a] = manifest'[a] /\ \A b \in Artifacts : b # a => g[b] = f[b]
        BY <1>3, <2>1, <3>1, <3>4, <3>5
      <3>7. Counted(g, UpdateStats(stats, f[a], T))
        BY <1>t, <1>3, <2>1, UpdateCounts
      <3> HIDE DEF g
      <3>8. Counted(g, stats')
        BY <3>1, <3>2, <3>7
      <3>9. \A v \in Threads : ~Works(v, a)'
        BY <1>6, <1>t, <2>1, <3>1, <3>3, OwnFrame DEF Moves, Works
      <3>10. Owed(g[a], a)'
        BY <3>6, <3>9 DEF Owed
      <3> QED
        BY <2>2, <3>6, <3>8, <3>10
    <2> QED
      BY <2>3, <2>4
  <1> QED
    BY <1>4, <1>5, <1>6, Steps

(* The inductive invariant of the statistics.                              *)
CountingInv == Types /\ AloneInv /\ CrossInv /\ ManInv /\ StatInv

LEMMA StatsThroughout == Spec => []CountingInv
  <1>1. Init => CountingInv
    <2> SUFFICES ASSUME Init PROVE AloneInv /\ CrossInv /\ ManInv /\ StatInv
      BY TypesInit DEF CountingInv
    <2>1. AloneInv /\ CrossInv /\ ManInv
      BY DEF Init, AloneInv, Alone, Works, CrossInv, ManInv
    <2>2. Named(manifest) = {} /\ \A t \in Tokens : With(manifest, t) = {}
      BY DEF Init, Named, With
    <2>3. Counted(manifest, stats)
      BY <2>2, FS_EmptySet DEF Init, Counted, EmptyStats
    <2>4. manifest \in [Artifacts -> Manifests] /\ \A a \in Artifacts : Owed(manifest[a], a)
      BY DEF Init, Manifests, Owed, Works
    <2> QED
      BY <2>1, <2>3, <2>4 DEF StatInv
  <1>2. CountingInv /\ [Next]_vars => CountingInv'
    <2>1. ASSUME CountingInv, UNCHANGED vars PROVE (AloneInv /\ CrossInv /\ ManInv /\ StatInv)'
      <3>1. UNCHANGED <<postings, manifest, stats, job, past, crossed, miscounted>>
        BY <2>1 DEF vars, index, history
      <3>2. (AloneInv /\ CrossInv /\ ManInv)'
        BY <2>1, <3>1 DEF CountingInv, AloneInv, Alone, Works, CrossInv, ManInv, Knows
      <3>3. StatInv'
        BY <2>1, <3>1 DEF CountingInv, StatInv, Trusted, Spared, Counted, Named, With, Owed, Works
      <3> QED
        BY <3>2, <3>3
    <2> QED
      BY <2>1, AloneNext, ManNext, StatNext, TypesNext DEF CountingInv
  <1> QED
    BY <1>1, <1>2, PTL DEF Spec

(* At rest the trusted statistics count the manifests.                     *)
LEMMA StatsAtRest ==
  ASSUME StatInv, Trusted, Types, AllIdle
  PROVE  Counted(manifest, stats)
  <1>1. PICK f \in [Artifacts -> Manifests] : Counted(f, stats) /\ \A a \in Artifacts : Owed(f[a], a)
    BY DEF StatInv
  <1>2. \A a \in Artifacts : f[a] = manifest[a]
    BY <1>1 DEF Owed, AllIdle, Works
  <1>3. f = manifest
    BY <1>2 DEF Types, IndexOK
  <1> QED
    BY <1>1, <1>3

(* Between tasks the statistics are those of the manifests, over any       *)
(* interleaving of first indexing, re-indexing, emptying and removal of    *)
(* different artifacts by any number of threads, as long as none of them   *)
(* wrote over statistics it had not seen: no counter is ever clamped at 0  *)
(* or left behind.                                                         *)
THEOREM IndexStatsExact == Spec => []StatsExact
  <1>1. CountingInv => StatsExact
    <2> SUFFICES ASSUME Types, StatInv, Trusted, AllIdle
                 PROVE  /\ stats.docs = Cardinality(Indexed)
                        /\ \A t \in Tokens : stats.df[t] = Cardinality({a \in Indexed : t \in manifest[a]})
      BY DEF CountingInv, StatsExact, CountsAreExact
    <2>1. Counted(manifest, stats)
      BY StatsAtRest
    <2>2. Indexed = Named(manifest)
      BY DEF Indexed, Named
    <2>3. ASSUME NEW t \in Tokens PROVE {a \in Indexed : t \in manifest[a]} = With(manifest, t)
      BY DEF Indexed, With
    <2> QED
      BY <2>1, <2>2, <2>3 DEF Counted
  <1> QED
    BY <1>1, StatsThroughout, PTL

-----------------------------------------------------------------------------
(* Manifests and posting lists                                             *)
Names(m, a, t) == m[a] # None /\ t \in m[a]
Has(p, a, t) == \E e \in p[t] : e[1] = a
Agree(m, p, a) == \A t \in Tokens : Names(m, a, t) <=> Has(p, a, t)

(* The entry of token t is still to be stripped.                           *)
Left(J, t) == t \in J.todo \/ (J.pc = "stripping" /\ t = J.tok)

(* Of the artifact of task J: its manifest names its entries until the     *)
(* first one is stripped; while dropped tokens are stripped the entries    *)
(* are those it names, but for what was done so far; then there are none   *)
(* but those of the text.  They are all in the task's collection, and a    *)
(* list that was read still has the entries of the artifact it had then.   *)
Stripping(J, a, m, p) ==
  /\ J.pc = "manifest" => Agree(m, p, a)
  /\ J.pc \in {"strip", "stripping"} =>
       /\ J.pc = "stripping" => J.tok \notin J.todo
       /\ \A t \in Tokens : Left(J, t) => Names(m, a, t) /\ t \notin J.task.text
       /\ \A t \in Tokens : Has(p, a, t) <=> Names(m, a, t) /\ (t \in J.task.text \/ Left(J, t))
  /\ J.pc \in {"upsert", "upserting"} =>
       /\ J.todo \subseteq J.task.text /\ (J.pc = "upserting" => J.tok \in J.task.text)
       /\ \A t \in Tokens : Has(p, a, t) => t \in J.task.text
  /\ J.pc \in {"stats", "updating"} => Agree(m, p, a)

Home(J, a, p) ==
  /\ J.task.coll # None => \A t \in Tokens : \A e \in Of(a, p[t]) : e[2] = J.task.coll
  /\ J.pc \in {"stripping", "upserting"} => Of(a, J.entries) = Of(a, p[J.tok])

Undisturbed == {"beside", "failed", "overwritten", "rehomed"}

NameInv ==
  \A a \in Artifacts : Spared(a, Undisturbed) =>
    /\ Resting(a) => Agree(manifest, postings, a)
    /\ \A w \in Threads : Works(w, a) =>
         Stripping(job[w], a, manifest, postings) /\ Home(job[w], a, postings)

(* Other artifacts' tasks.                                                 *)
LEMMA SameEntries ==
  ASSUME NEW a, NEW p, NEW q, \A t \in Tokens : Of(a, p[t]) = Of(a, q[t])
  PROVE  \A t \in Tokens : Has(p, a, t) <=> Has(q, a, t)
  <1>1. \A S : (\E e \in S : e[1] = a) <=> Of(a, S) # {}
    BY DEF Of
  <1> QED
    BY <1>1 DEF Has

LEMMA NameApart ==
  ASSUME Types, NameInv, NEW a \in Artifacts, Spared(a, Undisturbed)', Apart(a)
  PROVE  /\ Resting(a)' => Agree(manifest', postings', a)
         /\ \A w \in Threads : Works(w, a)' =>
              Stripping(job'[w], a, manifest', postings') /\ Home(job'[w], a, postings')
  <1>1. /\ \A t \in Tokens : Of(a, postings'[t]) = Of(a, postings[t])
        /\ manifest'[a] = manifest[a] /\ past[a] \subseteq past'[a]
        /\ \A w \in Threads : Works(w, a)' <=> Works(w, a)
        /\ \A w \in Threads : Works(w, a) => job'[w] = job[w]
    BY DEF Apart, Spared, Undisturbed
  <1>2. \A t \in Tokens : (Has(postings', a, t) <=> Has(postings, a, t))
                          /\ (Names(manifest', a, t) <=> Names(manifest, a, t))
    BY <1>1, SameEntries DEF Names
  <1>3. Spared(a, Undisturbed)
    BY <1>1 DEF Spared
  <1>4. Resting(a)' => Agree(manifest', postings', a)
    <2>1. Resting(a)' => Resting(a)
      BY <1>1 DEF Resting
    <2> QED
      BY <1>2, <1>3, <2>1 DEF NameInv, Agree
  <1>5. ASSUME NEW w \in Threads, Works(w, a)'
        PROVE  Stripping(job'[w], a, manifest', postings') /\ Home(job'[w], a, postings')
    <2>1. /\ job'[w] = job[w] /\ Works(w, a)
          /\ Stripping(job[w], a, manifest, postings) /\ Home(job[w], a, postings)
      BY <1>1, <1>3, <1>5 DEF NameInv
    <2>2. job[w].pc \in {"stripping", "upserting"} => job[w].tok \in Tokens
      BY <2>1, WorkerFields DEF Works
    <2>3. Stripping(job[w], a, manifest', postings')
      BY <1>2, <2>1 DEF Stripping, Agree
    <2>4. Home(job[w], a, postings')
      BY <1>1, <2>1, <2>2 DEF Home
    <2> QED
      BY <2>1, <2>3, <2>4
  <1> QED
    BY <1>4, <1>5

(* A list is written back without the artifact, or with its one entry.     *)
LEMMA StripWrites ==
  ASSUME Types, NEW a \in Artifacts, NEW w \in Threads, Works(w, a), Strips(w, a),
         Stripping(job[w], a, manifest, postings), Home(job[w], a, postings)
  PROVE  LET J == AfterWrite(w, "strip")
         IN Stripping(J, a, manifest', postings') /\ Home(J, a, postings')
  <1> DEFINE J == AfterWrite(w, "strip")
  <1> DEFINE k == job[w].task
  <1> DEFINE u == job[w].tok
  <1>t. postings \in [Tokens -> SUBSET Entries]
    BY DEF Types, IndexOK
  <1>1. /\ job[w] # None /\ k.art = a /\ u \in Tokens /\ job[w].pc = "stripping"
        /\ manifest' = manifest
        /\ postings' = [postings EXCEPT ![u] = IF Stripped(job[w].entries, k) = job[w].entries
                                                 THEN postings[u] ELSE Stripped(job[w].entries, k)]
    BY WorkerFields DEF Works, Strips
  <1>f. J.task = k /\ J.pc = "strip" /\ J.todo = job[w].todo
    BY <1>1, AfterFields
  <1> HIDE DEF J
  <1>2. /\ Of(a, job[w].entries) = Of(a, postings[u])
        /\ k.coll # None => \A t \in Tokens : \A e \in Of(a, postings[t]) : e[2] = k.coll
    BY <1>1 DEF Home
  <1>3. Of(a, Stripped(job[w].entries, k)) = {}
    BY <1>1, <1>2 DEF Stripped, Of
  <1>4. Of(a, postings'[u]) = {}
    BY <1>t, <1>1, <1>2, <1>3
  <1>5. \A t \in Tokens : t # u => postings'[t] = postings[t]
    BY <1>t, <1>1
  <1>6. ~Has(postings', a, u) /\ \A t \in Tokens : t # u => (Has(postings', a, t) <=> Has(postings, a, t))
    BY <1>4, <1>5 DEF Has, Of
  <1>7. /\ u \notin job[w].todo
        /\ \A t \in Tokens : Left(job[w], t) => Names(manifest, a, t) /\ t \notin k.text
        /\ \A t \in Tokens : Has(postings, a, t) <=> Names(manifest, a, t) /\ (t \in k.text \/ Left(job[w], t))
    BY <1>1 DEF Stripping
  <1>8. /\ \A t \in Tokens : Left(J, t) <=> t \in job[w].todo
        /\ \A t \in Tokens : Left(job[w], t) <=> t \in job[w].todo \/ t = u
    BY <1>1, <1>f DEF Left
  <1>9. Home(J, a, postings')
    <2>1. \A t \in Tokens : Of(a, postings'[t]) \subseteq Of(a, postings[t])
      BY <1>4, <1>5
    <2> QED
      BY <1>2, <1>f, <2>1 DEF Home
  <1> HIDE DEF k, u
  <1>10. Stripping(J, a, manifest', postings')
    <2>1. \A t \in Tokens : Left(J, t) => Names(manifest, a, t) /\ t \notin k.text
      BY <1>7, <1>8
    <2>2. \A t \in Tokens : Has(postings', a, t) <=> Names(manifest, a, t) /\ (t \in k.text \/ Left(J, t))
      BY <1>6, <1>7, <1>8
    <2> QED
      BY <1>1, <1>f, <2>1, <2>2 DEF Stripping
  <1> QED
    BY <1>9, <1>10 DEF J

LEMMA UpsertWrites ==
  ASSUME Types, NEW a \in Artifacts, NEW w \in Threads, Works(w, a), Upserts(w, a),
         Stripping(job[w], a, manifest, postings), Home(job[w], a, postings)
  PROVE  LET J == AfterWrite(w, "upsert")
         IN Stripping(J, a, manifest', postings') /\ Home(J, a, postings')
  <1> DEFINE J == AfterWrite(w, "upsert")
  <1> DEFINE k == job[w].task
  <1> DEFINE u == job[w].tok
  <1>t. postings \in [Tokens -> SUBSET Entries]
    BY DEF Types, IndexOK
  <1>1. /\ job[w] # None /\ k.art = a /\ u \in Tokens /\ job[w].pc = "upserting"
        /\ manifest' = manifest
        /\ postings' = [postings EXCEPT ![u] = job[w].entries \cup {<<a, k.coll>>}]
    BY WorkerFields DEF Works, Upserts
  <1>f. J.task = k /\ J.pc = "upsert" /\ J.todo = job[w].todo
    BY <1>1, AfterFields
  <1> HIDE DEF J
  <1>2. /\ Of(a, job[w].entries) = Of(a, postings[u])
        /\ k.coll # None => \A t \in Tokens : \A e \in Of(a, postings[t]) : e[2] = k.coll
    BY <1>1 DEF Home
  <1>3. /\ job[w].todo \subseteq k.text /\ u \in k.text
        /\ \A t \in Tokens : Has(postings, a, t) => t \in k.text
    BY <1>1 DEF Stripping
  <1>4. \A t \in Tokens : t # u => postings'[t] = postings[t]
    BY <1>t, <1>1
  <1>5. Of(a, postings'[u]) = Of(a, postings[u]) \cup {<<a, k.coll>>}
    BY <1>t, <1>1, <1>2 DEF Of
  <1> HIDE DEF k, u
  <1>6. \A t \in Tokens : Has(postings', a, t) => t \in k.text
    BY <1>3, <1>4 DEF Has
  <1>7. Home(J, a, postings')
    <2>1. <<a, k.coll>>[2] = k.coll
      OBVIOUS
    <2> QED
      BY <1>2, <1>4, <1>5, <1>f, <2>1 DEF Home
  <1>8. Stripping(J, a, manifest', postings')
    BY <1>3, <1>6, <1>f DEF Stripping
  <1> QED
    BY <1>7, <1>8 DEF J

LEMMA NameOwn ==
  ASSUME Types, AloneInv, CrossInv, PostInv, NameInv, NEW a \in Artifacts,
         Spared(a, Undisturbed)', NEW w \in Threads, Works(w, a), StepOf(w)
  PROVE  /\ Resting(a)' => Agree(manifest', postings', a)
         /\ \A v \in Threads : Works(v, a)' =>
              Stripping(job'[v], a, manifest', postings') /\ Home(job'[v], a, postings')
  <1>t. /\ job \in [Threads -> Job \cup {None}]
        /\ manifest \in [Artifacts -> Manifests] /\ postings \in [Tokens -> SUBSET Entries]
    BY DEF Types, JobsOK, IndexOK
  <1>1. /\ job[w] # None /\ job[w].task.art = a /\ job[w].task.text \in SUBSET Tokens
        /\ job[w].task.coll = None => job[w].task.text = {}
        /\ job[w].todo \in SUBSET Tokens
    BY WorkerFields DEF Works
  <1>2. /\ past[a] \subseteq past'[a] /\ (a \in crossed' <=> a \in crossed)
        /\ \A v \in Threads : Works(v, a)' => Works(v, a)
    BY OwnFrame
  <1>3. Spared(a, Undisturbed) /\ a \notin crossed /\ "beside" \notin past[a]
    BY <1>2 DEF Spared, CrossInv, Undisturbed
  <1>4. /\ \A v \in Threads : Works(v, a) => v = w
        /\ Stripping(job[w], a, manifest, postings) /\ Home(job[w], a, postings)
        /\ Working(w, a)
    BY <1>3 DEF AloneInv, Alone, NameInv, PostInv
  <1> DEFINE G == /\ Resting(a)' => Agree(manifest', postings', a)
                  /\ \A v \in Threads : Works(v, a)' =>
                       Stripping(job'[v], a, manifest', postings') /\ Home(job'[v], a, postings')
  <1>5. ASSUME NEW J, Moves(w, J),
               IF J = None THEN Agree(manifest', postings', a)
               ELSE /\ J.task = job[w].task
                    /\ Stripping(J, a, manifest', postings') /\ Home(J, a, postings')
        PROVE  G
    <2>1. job'[w] = J
      BY <1>5, <1>t DEF Moves
    <2>2. \A v \in Threads : Works(v, a)' => v = w /\ J # None
      BY <1>2, <1>4, <2>1 DEF Works
    <2>3. J # None => ~Resting(a)'
      BY <1>1, <1>5, <2>1 DEF Resting, Works
    <2> QED
      BY <1>5, <2>1, <2>2, <2>3
  <1>f. /\ AfterManifest(w).task = job[w].task /\ AfterManifest(w).pc = "strip"
        /\ AfterManifest(w).todo = Dropped(manifest[a], job[w].task.text)
        /\ \A t : /\ AfterRead(w, t).task = job[w].task
                  /\ AfterRead(w, t).tok = t /\ AfterRead(w, t).entries = postings[t]
                  /\ AfterRead(w, t).todo = job[w].todo \ {t}
                  /\ AfterRead(w, t).pc = IF job[w].pc = "strip" THEN "stripping" ELSE "upserting"
        /\ \A pc : AfterWrite(w, pc).task = job[w].task
        /\ AfterStrip(w).task = job[w].task
        /\ AfterStrip(w).todo = job[w].task.text /\ AfterStrip(w).pc = "upsert"
        /\ AfterPut(w).task = job[w].task /\ AfterPut(w).pc = "stats"
        /\ \A s : AfterStats(w, s).task = job[w].task /\ AfterStats(w, s).pc = "updating"
    BY <1>1, AfterFields
  <1>n. /\ AfterManifest(w) # None /\ (\A t \in Tokens : AfterRead(w, t) # None)
        /\ AfterWrite(w, "strip") # None /\ AfterWrite(w, "upsert") # None
        /\ AfterStrip(w) # None /\ AfterPut(w) # None /\ \A s \in Stats : AfterStats(w, s) # None
    BY <1>1, AfterTypes, NoJobAssumption
  <1>6. CASE EndsBare(w, a)
    BY <1>4, <1>5, <1>6 DEF EndsBare, Stripping
  <1>7. CASE Starts(w, a)
    <2> DEFINE J == AfterManifest(w)
    <2>1. Moves(w, J) /\ job[w].pc = "manifest" /\ UNCHANGED <<manifest, postings>>
      BY <1>7 DEF Starts
    <2>2. Agree(manifest, postings, a)
      BY <1>4, <2>1 DEF Stripping
    <2>3. J.task = job[w].task /\ J.pc = "strip" /\ J.todo = Dropped(manifest[a], job[w].task.text)
      BY <1>f
    <2> HIDE DEF J
    <2>4. \A t \in Tokens : Left(J, t) <=> Names(manifest, a, t) /\ t \notin J.task.text
      BY <1>t, <2>3 DEF Left, Dropped, Names, Manifests
    <2>5. Stripping(J, a, manifest, postings)
      BY <2>2, <2>3, <2>4 DEF Stripping, Agree
    <2>6. Home(J, a, postings)
      BY <1>4, <2>3 DEF Home
    <2> QED
      BY <1>5, <1>n, <2>1, <2>3, <2>5, <2>6 DEF J
  <1>8. ASSUME NEW t \in Tokens, Reads(w, a, t) PROVE G
    <2> DEFINE J == AfterRead(w, t)
    <2>1. /\ Moves(w, J) /\ UNCHANGED <<manifest, postings>>
          /\ job[w].pc \in {"strip", "upsert"} /\ t \in job[w].todo
      BY <1>8 DEF Reads
    <2>2. /\ J.task = job[w].task /\ J.tok = t /\ J.todo = job[w].todo \ {t}
          /\ J.entries = postings[t]
          /\ J.pc = IF job[w].pc = "strip" THEN "stripping" ELSE "upserting"
      BY <1>f
    <2>n. J # None
      BY <1>n
    <2> HIDE DEF J
    <2>3. job[w].pc = "strip" => \A u \in Tokens : Left(J, u) <=> Left(job[w], u)
      BY <2>1, <2>2 DEF Left
    <2>4. Stripping(J, a, manifest, postings)
      BY <1>4, <2>1, <2>2, <2>3 DEF Stripping
    <2>5. Home(J, a, postings)
      BY <1>4, <2>2 DEF Home
    <2> QED
      BY <1>5, <2>n, <2>1, <2>2, <2>4, <2>5
  <1>9. CASE Strips(w, a)
    BY <1>4, <1>5, <1>9, <1>f, <1>n, StripWrites DEF Strips
  <1>10. CASE Turns(w, a)
    <2> DEFINE J == AfterStrip(w)
    <2>1. /\ Moves(w, J) /\ UNCHANGED <<manifest, postings>>
          /\ job[w].pc = "strip" /\ job[w].todo = {}
      BY <1>10 DEF Turns
    <2>2. J.task = job[w].task /\ J.pc = "upsert" /\ J.todo = job[w].task.text
      BY <1>f
    <2> HIDE DEF J
    <2>3. \A t \in Tokens : ~Left(job[w], t)
      BY <2>1 DEF Left
    <2>4. Stripping(J, a, manifest, postings) /\ Home(J, a, postings)
      BY <1>4, <2>1, <2>2, <2>3 DEF Stripping, Home
    <2> QED
      BY <1>5, <2>1, <2>2, <2>4, <1>n DEF J
  <1>11. CASE Upserts(w, a)
    BY <1>4, <1>5, <1>11, <1>f, <1>n, UpsertWrites DEF Upserts
  <1>12. CASE Puts(w, a)
    <2> DEFINE J == AfterPut(w)
    <2> DEFINE k == job[w].task
    <2>1. /\ Moves(w, J) /\ postings' = postings
          /\ job[w].pc = "upsert" /\ job[w].todo = {}
          /\ manifest' = [manifest EXCEPT ![a] = Norm(k.text)]
      BY <1>12 DEF Puts
    <2>2. J.task = k /\ J.pc = "stats"
      BY <1>f
    <2>3. \A t \in k.text : <<a, k.coll>> \in postings[t]
      BY <1>4, <2>1 DEF Working, Done
    <2>4. \A t \in Tokens : Has(postings, a, t) <=> t \in k.text
      <3>1. \A t \in Tokens : Has(postings, a, t) => t \in k.text
        BY <1>4, <2>1 DEF Stripping
      <3>2. \A t \in k.text : Has(postings, a, t)
        BY <2>3 DEF Has
      <3> QED
        BY <3>1, <3>2
    <2>n. J # None
      BY <1>n
    <2> HIDE DEF J, k
    <2>5. \A t \in Tokens : Names(manifest', a, t) <=> t \in k.text
      BY <1>t, <1>1, <2>1, IndexAssumption DEF Names, Norm, k
    <2>6. Stripping(J, a, manifest', postings)
      BY <2>2, <2>4, <2>5 DEF Stripping, Agree
    <2>7. Home(J, a, postings)
      BY <1>4, <2>2 DEF Home, k
    <2> QED
      BY <1>5, <2>n, <2>1, <2>2, <2>6, <2>7 DEF k
  <1>13. ASSUME NEW s \in Stats, Sees(w, a, s) PROVE G
    <2> DEFINE J == AfterStats(w, s)
    <2>1. Moves(w, J) /\ UNCHANGED <<manifest, postings>> /\ job[w].pc = "stats"
      BY <1>13 DEF Sees
    <2>2. J.task = job[w].task /\ J.pc = "updating" /\ J # None
      BY <1>f, <1>n
    <2> HIDE DEF J
    <2>3. Stripping(J, a, manifest, postings) /\ Home(J, a, postings)
      BY <1>4, <2>1, <2>2 DEF Stripping, Home
    <2> QED
      BY <1>5, <2>1, <2>2, <2>3
  <1>14. CASE Ends(w, a)
    BY <1>4, <1>5, <1>14 DEF Ends, Stripping
  <1>15. ~Breaks(w, a)
    BY DEF Breaks, Spared, Undisturbed
  <1> QED
    BY <1>6, <1>7, <1>8, <1>9, <1>10, <1>11, <1>12, <1>13, <1>14, <1>15, OwnStep

LEMMA NameNext ==
  ASSUME Types, AloneInv, CrossInv, PostInv, NameInv, Next
  PROVE  NameInv'
  <1> SUFFICES ASSUME NEW a \in Artifacts, Spared(a, Undisturbed)'
               PROVE  /\ Resting(a)' => Agree(manifest', postings', a)
                      /\ \A w \in Threads : Works(w, a)' =>
                           Stripping(job'[w], a, manifest', postings') /\ Home(job'[w], a, postings')
    <2>1. \A a : Agree(manifest', postings', a) <=> Agree(manifest, postings, a)'
      BY DEF Agree, Names, Has
    <2>2. \A a, w : (Stripping(job'[w], a, manifest', postings') <=> Stripping(job[w], a, manifest, postings)')
                    /\ (Home(job'[w], a, postings') <=> Home(job[w], a, postings)')
      BY DEF Stripping, Home, Agree, Names, Has, Left, Of
    <2> QED
      BY <2>1, <2>2 DEF NameInv
  <1>t. job \in [Threads -> Job \cup {None}]
    BY DEF Types, JobsOK
  <1>1. ASSUME NEW w \in Threads, NEW k \in Task, NEW m \in SUBSET Mishaps, BeginsNext(w, k, m),
               k.art = a
        PROVE  /\ Resting(a)' => Agree(manifest', postings', a)
               /\ \A v \in Threads : Works(v, a)' =>
                    Stripping(job'[v], a, manifest', postings') /\ Home(job'[v], a, postings')
    <2>1. /\ job' = [job EXCEPT ![w] = NewJob(k)] /\ NewJob(k) # None
          /\ NewJob(k).task = k /\ NewJob(k).pc = "manifest"
          /\ UNCHANGED <<postings, manifest>> /\ past[a] \subseteq past'[a]
          /\ (~Resting(a) => "beside" \in past'[a])
          /\ (Rehomed(k) => "rehomed" \in past'[a])
      BY <1>1, BeginStep DEF BeginsNext
    <2>2. Resting(a) /\ ~Rehomed(k) /\ Spared(a, Undisturbed)
      BY <2>1 DEF Spared, Undisturbed
    <2>3. Agree(manifest, postings, a)
      BY <2>2 DEF NameInv
    <2>4. \A v \in Threads : Works(v, a)' => job'[v] = NewJob(k)
      BY <1>t, <2>1, <2>2 DEF Resting, Works
    <2>5. Stripping(NewJob(k), a, manifest', postings')
      BY <2>1, <2>3 DEF Stripping
    <2>6. Home(NewJob(k), a, postings')
      BY <1>1, <2>1, <2>2 DEF Home, Rehomed
    <2> QED
      BY <2>1, <2>3, <2>4, <2>5, <2>6
  <1> QED
    BY <1>1, NameApart, NameOwn, Frame

(* The inductive invariant of manifests and posting lists.                 *)
NamingInv == Types /\ AloneInv /\ CrossInv /\ PostInv /\ NameInv

LEMMA NamesThroughout == Spec => []NamingInv
  <1>1. Init => NamingInv
    <2> SUFFICES ASSUME Init PROVE AloneInv /\ CrossInv /\ PostInv /\ NameInv
      BY TypesInit DEF NamingInv
    <2>1. \A a \in Artifacts : Agree(manifest, postings, a)
      BY DEF Init, Agree, Names, Has
    <2> QED
      BY <2>1 DEF Init, AloneInv, Alone, Works, CrossInv, PostInv, Posted, NameInv
  <1>2. NamingInv /\ [Next]_vars => NamingInv'
    <2>1. ASSUME AloneInv, CrossInv, PostInv, NameInv, UNCHANGED vars
          PROVE  (AloneInv /\ CrossInv /\ PostInv /\ NameInv)'
      <3>1. UNCHANGED <<postings, manifest, job, last, past, crossed>>
        BY <2>1 DEF vars, index, history
      <3>2. (AloneInv /\ CrossInv /\ PostInv)'
        BY <2>1, <3>1 DEF AloneInv, Alone, Works, CrossInv, PostInv, Posted, Working
      <3>3. NameInv'
        BY <2>1, <3>1 DEF NameInv, Spared, Resting, Works, Agree, Names, Has, Stripping, Home, Left, Of
      <3> QED
        BY <3>2, <3>3
    <2> QED
      BY <2>1, AloneNext, PostNext, NameNext, TypesNext DEF NamingInv
  <1> QED
    BY <1>1, <1>2, PTL DEF Spec

(* While none of its tasks is under way an artifact has entries in exactly *)
(* the posting lists that its manifest names, whatever was done to other   *)
(* artifacts meanwhile and however many threads there are, unless its      *)
(* tasks overlapped or broke off, an entry was overwritten or it changed   *)
(* its collection.                                                         *)
THEOREM IndexManifestNamesPostings == Spec => []ManifestNamesPostings
  <1>1. NamingInv => ManifestNamesPostings
    BY DEF NamingInv, NameInv, ManifestNamesPostings, Agree, Names, Has, Undisturbed
  <1> QED
    BY <1>1, NamesThroughout, PTL

-----------------------------------------------------------------------------
(* The index and the store                                                 *)
Awaited(q, a) == \E i \in DOMAIN q : q[i].art = a

(* The task k indexes what the store holds last of its artifact.           *)
About(k, v) == v[k.art] # <<>> /\ k = Last(v[k.art])

(* The last task of the artifact that waits, or the one under way if none  *)
(* does, is about its last version.                                        *)
LastWaits(q, v, a) ==
  \A i \in DOMAIN q :
    q[i].art = a /\ (\A j \in DOMAIN q : j > i => q[j].art # a) => About(q[i], v)

LastRuns(q, v, js, a) ==
  \A w \in Threads :
    js[w] # None /\ js[w].task.art = a /\ js[w].task.coll # None /\ ~Awaited(q, a)
      => About(js[w].task, v)

(* An artifact that no task is about any more is indexed as its last task  *)
(* left it, and that one was about its last version or a removal.          *)
AtRest(v, m, l, a) ==
  IF l[a] = None THEN v[a] = <<>> /\ m[a] = None
  ELSE /\ l[a].art = a
       /\ m[a] = Norm(l[a].text)
       /\ l[a].coll # None => About(l[a], v)

Settled(q, v, js, m, l, a) ==
  ~Awaited(q, a) /\ (\A w \in Threads : ~(js[w] # None /\ js[w].task.art = a)) => AtRest(v, m, l, a)

FollowInv ==
  \A a \in Artifacts : past[a] = {} =>
    /\ LastWaits(waiting, versions, a)
    /\ LastRuns(waiting, versions, job, a)
    /\ Settled(waiting, versions, job, manifest, last, a)

(* The queue without the tasks of other artifacts.                         *)
LEMMA OtherAdded ==
  ASSUME NEW q \in Seq(Task), NEW k \in Task, NEW a, k.art # a, NEW v
  PROVE  /\ Awaited(Append(q, k), a) <=> Awaited(q, a)
         /\ LastWaits(q, v, a) => LastWaits(Append(q, k), v, a)
  <1> DEFINE r == Append(q, k)
  <1>1. /\ DOMAIN r = 1..(Len(q) + 1) /\ DOMAIN q = 1..Len(q) /\ Len(q) \in Nat
        /\ r[Len(q) + 1] = k
        /\ \A i \in 1..Len(q) : r[i] = q[i]
    OBVIOUS
  <1> HIDE DEF r
  <1>2. \A i \in DOMAIN r : r[i].art = a => i \in DOMAIN q /\ q[i] = r[i]
    BY <1>1
  <1>3. DOMAIN q \subseteq DOMAIN r /\ \A i \in DOMAIN q : r[i] = q[i]
    BY <1>1
  <1>4. Awaited(r, a) <=> Awaited(q, a)
    BY <1>2, <1>3 DEF Awaited
  <1>5. LastWaits(q, v, a) => LastWaits(r, v, a)
    BY <1>2, <1>3 DEF LastWaits
  <1> QED
    BY <1>4, <1>5 DEF r

LEMMA HeadTaken ==
  ASSUME NEW q \in Seq(Task), q # <<>>, NEW a, NEW v
  PROVE  /\ Head(q).art # a => (Awaited(Tail(q), a) <=> Awaited(q, a))
         /\ LastWaits(q, v, a) => LastWaits(Tail(q), v, a)
         /\ LastWaits(q, v, a) /\ Head(q).art = a /\ ~Awaited(Tail(q), a) => About(Head(q), v)
  <1> DEFINE r == Tail(q)
  <1>1. /\ Len(q) \in Nat \ {0} /\ DOMAIN q = 1..Len(q) /\ DOMAIN r = 1..(Len(q) - 1)
        /\ Head(q) = q[1] /\ \A i \in 1..(Len(q) - 1) : r[i] = q[i + 1]
    OBVIOUS
  <1> HIDE DEF r
  <1>2. \A i \in DOMAIN r : i + 1 \in DOMAIN q /\ i + 1 > 1 /\ r[i] = q[i + 1]
    BY <1>1
  <1>3. ASSUME NEW j \in DOMAIN q, j > 1 PROVE j - 1 \in DOMAIN r /\ r[j - 1] = q[j]
    <2>1. j - 1 \in 1..(Len(q) - 1) /\ (j - 1) + 1 = j
      BY <1>1, <1>3
    <2> QED
      BY <1>1, <2>1
  <1>4. \A i \in DOMAIN q : i = 1 \/ i > 1
    BY <1>1
  <1>5. Head(q).art # a => (Awaited(r, a) <=> Awaited(q, a))
    BY <1>1, <1>2, <1>3, <1>4 DEF Awaited
  <1>6. ASSUME LastWaits(q, v, a) PROVE LastWaits(r, v, a)
    <2> SUFFICES ASSUME NEW i \in DOMAIN r, r[i].art = a,
                        \A j \in DOMAIN r : j > i => r[j].art # a
                 PROVE  About(r[i], v)
      BY DEF LastWaits
    <2>1. i + 1 \in DOMAIN q /\ q[i + 1] = r[i]
      BY <1>2
    <2>2. ASSUME NEW j \in DOMAIN q, j > i + 1 PROVE q[j].art # a
      <3>1. j > 1 /\ j - 1 > i
        BY <1>1, <2>2
      <3> QED
        BY <1>3, <3>1
    <2> QED
      BY <1>6, <2>1, <2>2 DEF LastWaits
  <1>7. ASSUME LastWaits(q, v, a), Head(q).art = a, ~Awaited(r, a) PROVE About(Head(q), v)
    <2>1. 1 \in DOMAIN q
      BY <1>1
    <2>2. \A j \in DOMAIN q : j > 1 => q[j].art # a
      BY <1>3, <1>7 DEF Awaited
    <2> QED
      BY <1>1, <1>7, <2>1, <2>2 DEF LastWaits
  <1> QED
    BY <1>5, <1>6, <1>7 DEF r

(* The store and the queue hold what they held of the artifact.            *)
LEMMA FollowApart ==
  ASSUME Types, FollowInv, NEW a \in Artifacts, past'[a] = {}, Apart(a),
         versions'[a] = versions[a], Awaited(waiting', a) <=> Awaited(waiting, a),
         LastWaits(waiting, versions, a) => LastWaits(waiting', versions, a)
  PROVE  /\ LastWaits(waiting', versions', a)
         /\ LastRuns(waiting', versions', job', a)
         /\ Settled(waiting', versions', job', manifest', last', a)
  <1>1. /\ \A w \in Threads : (Works(w, a)' <=> Works(w, a)) /\ (Works(w, a) => job'[w] = job[w])
        /\ manifest'[a] = manifest[a] /\ last'[a] = last[a] /\ past[a] = {}
    BY DEF Apart
  <1>2. /\ LastWaits(waiting, versions, a) /\ LastRuns(waiting, versions, job, a)
        /\ Settled(waiting, versions, job, manifest, last, a)
    BY <1>1 DEF FollowInv
  <1>3. \A k : k.art = a => (About(k, versions') <=> About(k, versions))
    BY DEF About
  <1>4. LastWaits(waiting', versions', a)
    BY <1>2, <1>3 DEF LastWaits
  <1>5. LastRuns(waiting', versions', job', a)
    BY <1>1, <1>2, <1>3 DEF LastRuns, Works
  <1>6. AtRest(versions, manifest, last, a) => AtRest(versions', manifest', last', a)
    BY <1>1, <1>3 DEF AtRest
  <1>7. Settled(waiting', versions', job', manifest', last', a)
    BY <1>1, <1>2, <1>6 DEF Settled, Works
  <1> QED
    BY <1>4, <1>5, <1>7

LEMMA SaveFollows ==
  ASSUME Types, FollowInv, NEW a \in Artifacts, past'[a] = {}, StoreStep
  PROVE  /\ LastWaits(waiting', versions', a)
         /\ LastRuns(waiting', versions', job', a)
         /\ Settled(waiting', versions', job', manifest', last', a)
  <1>t. waiting \in Seq(Task) /\ versions \in [Artifacts -> Seq(Task)]
    BY DEF Types, StoreOK
  <1>1. Apart(a)
    BY ApartFromStore
  <1>2. ASSUME Reindex PROVE waiting' = waiting /\ versions' = versions
    BY <1>2 DEF Reindex
  <1>3. ASSUME NEW b \in Artifacts, Withdraw(b) PROVE waiting' = waiting /\ versions'[a] = versions[a]
    <2>1. "withdrawn" \in Befell({b}, "withdrawn")[b]
      BY DEF Befell
    <2> QED
      BY <1>3, <1>t, <2>1 DEF Withdraw
  <1>4. ASSUME NEW b \in Artifacts, NEW c \in scenario.collections, NEW T \in scenario.texts,
               Save(b, c, T)
        PROVE  /\ LastWaits(waiting', versions', a)
               /\ LastRuns(waiting', versions', job', a)
               /\ Settled(waiting', versions', job', manifest', last', a)
    <2> DEFINE k == [art |-> b, coll |-> c, text |-> T]
    <2>1. /\ waiting' = Append(waiting, k)
          /\ \/ versions' = [versions EXCEPT ![b] = Append(versions[b], k)]
             \/ /\ versions[b] # <<>>
                /\ versions' = [versions EXCEPT ![b] = Append(Front(versions[b]), k)]
      BY <1>4 DEF Save
    <2>2. k \in Task /\ k.art = b
      BY IndexAssumption DEF Task, Types, StoreOK
    <2> HIDE DEF k
    <2>3. CASE b # a
      <3>1. versions'[a] = versions[a]
        BY <1>t, <2>1, <2>3
      <3> QED
        BY <1>1, <1>t, <2>1, <2>2, <2>3, <3>1, OtherAdded, FollowApart
    <2>4. CASE b = a
      <3>1. About(k, versions')
        <4>1. ASSUME NEW s \in Seq(Task) PROVE Append(s, k) # <<>> /\ Last(Append(s, k)) = k
          BY <2>2, <4>1 DEF Last
        <4>2. versions[b] # <<>> => Front(versions[b]) \in Seq(Task)
          BY <1>t DEF Front
        <4>3. \E s \in Seq(Task) : versions'[b] = Append(s, k)
          BY <1>t, <2>1, <4>2
        <4> QED
          BY <2>2, <4>1, <4>3 DEF About
      <3>2. /\ DOMAIN waiting' = 1..(Len(waiting) + 1) /\ Len(waiting) \in Nat
            /\ waiting'[Len(waiting) + 1] = k
        BY <1>t, <2>1, <2>2
      <3>3. Awaited(waiting', a)
        BY <2>2, <2>4, <3>2 DEF Awaited
      <3>4. LastWaits(waiting', versions', a)
        <4> SUFFICES ASSUME NEW i \in DOMAIN waiting', waiting'[i].art = a,
                            \A j \in DOMAIN waiting' : j > i => waiting'[j].art # a
                     PROVE  About(waiting'[i], versions')
          BY DEF LastWaits
        <4>1. i = Len(waiting) + 1
          BY <2>2, <2>4, <3>2
        <4> QED
          BY <3>1, <3>2, <4>1
      <3> QED
        BY <3>3, <3>4 DEF LastRuns, Settled
    <2> QED
      BY <2>3, <2>4
  <1> QED
    BY <1>1, <1>2, <1>3, <1>4, FollowApart DEF StoreStep

LEMMA BeginFollows ==
  ASSUME Types, FollowInv, NEW a \in Artifacts, past'[a] = {}, NEW w \in Threads, NEW k \in Task,
         NEW m \in SUBSET Mishaps, BeginsNext(w, k, m)
  PROVE  /\ LastWaits(waiting', versions', a)
         /\ LastRuns(waiting', versions', job', a)
         /\ Settled(waiting', versions', job', manifest', last', a)
  <1>t. waiting \in Seq(Task) /\ job \in [Threads -> Job \cup {None}]
    BY DEF Types, StoreOK, JobsOK
  <1>1. /\ job' = [job EXCEPT ![w] = NewJob(k)] /\ NewJob(k) # None /\ NewJob(k).task = k
        /\ versions' = versions /\ past[a] \subseteq past'[a] /\ m \subseteq past'[k.art]
        /\ ~Resting(k.art) => "beside" \in past'[k.art]
    BY BeginStep DEF BeginsNext
  <1>2. LastWaits(waiting, versions, a)
    BY <1>1 DEF FollowInv
  <1>3. LastWaits(waiting', versions, a) /\ (k.art # a => (Awaited(waiting', a) <=> Awaited(waiting, a)))
    <2>1. CASE waiting' = waiting
      BY <1>2, <2>1
    <2>2. CASE waiting # <<>> /\ k = Head(waiting) /\ waiting' = Tail(waiting)
      BY <1>t, <1>2, <2>2, HeadTaken
    <2> QED
      BY <2>1, <2>2 DEF BeginsNext
  <1>4. CASE k.art # a
    BY <1>1, <1>3, <1>4, ApartFromBegin, FollowApart
  <1>5. CASE k.art = a
    <2>1. Resting(a)
      BY <1>1, <1>5
    <2>2. job'[w] = NewJob(k) /\ \A v \in Threads : Works(v, a)' => job'[v] = NewJob(k)
      BY <1>t, <1>1, <2>1 DEF Resting, Works
    <2>3. Settled(waiting', versions', job', manifest', last', a)
      BY <1>1, <1>5, <2>2 DEF Settled
    <2>4. k.coll # None /\ ~Awaited(waiting', a) => About(k, versions)
      <3>1. CASE waiting # <<>> /\ k = Head(waiting) /\ waiting' = Tail(waiting)
        BY <1>t, <1>2, <1>5, <3>1, HeadTaken
      <3>2. CASE Newest(k) \/ "stale" \in m
        BY <1>1, <1>5, <3>2 DEF Newest, About
      <3> QED
        BY <3>1, <3>2 DEF BeginsNext
    <2>5. LastRuns(waiting', versions', job', a)
      BY <1>1, <2>2, <2>4 DEF LastRuns, Works
    <2> QED
      BY <1>1, <1>3, <2>3, <2>5
  <1> QED
    BY <1>4, <1>5

LEMMA OwnFollows ==
  ASSUME Types, AloneInv, ManInv, FollowInv, NEW a \in Artifacts, past'[a] = {},
         NEW w \in Threads, Works(w, a), StepOf(w)
  PROVE  /\ LastWaits(waiting', versions', a)
         /\ LastRuns(waiting', versions', job', a)
         /\ Settled(waiting', versions', job', manifest', last', a)
  <1>t. job \in [Threads -> Job \cup {None}]
    BY DEF Types, JobsOK
  <1>1. /\ job[w] # None /\ job[w].task.art = a /\ job[w].task \in Task
        /\ job[w].task.coll = None => job[w].task.text = {}
    BY WorkerFields DEF Works
  <1>2. /\ past[a] = {} /\ UNCHANGED <<versions, waiting>>
        /\ \A v \in Threads : Works(v, a)' => Works(v, a)
    BY OwnFrame DEF store
  <1>3. /\ \A v \in Threads : Works(v, a) => v = w
        /\ Knows(w, a)
        /\ LastWaits(waiting, versions, a) /\ LastRuns(waiting, versions, job, a)
    BY <1>2 DEF AloneInv, Alone, ManInv, FollowInv
  <1>4. job[w].task.coll # None /\ ~Awaited(waiting, a) => About(job[w].task, versions)
    BY <1>1, <1>3 DEF LastRuns
  <1> DEFINE G == /\ LastWaits(waiting', versions', a)
                  /\ LastRuns(waiting', versions', job', a)
                  /\ Settled(waiting', versions', job', manifest', last', a)
  <1>5. ASSUME NEW J, Moves(w, J), J # None, J.task = job[w].task PROVE G
    <2>1. job'[w] = J
      BY <1>5, <1>t DEF Moves
    <2>2. \A v \in Threads : job'[v] # None /\ job'[v].task.art = a => v = w
      BY <1>2, <1>3 DEF Works
    <2>3. LastRuns(waiting', versions', job', a)
      BY <1>2, <1>4, <1>5, <2>1, <2>2 DEF LastRuns
    <2>4. Settled(waiting', versions', job', manifest', last', a)
      BY <1>1, <1>5, <2>1 DEF Settled
    <2> QED
      BY <1>2, <1>3, <2>3, <2>4
  <1>6. ASSUME Moves(w, None), last'[a] = job[w].task, manifest' = manifest,
               manifest[a] = Norm(job[w].task.text)
        PROVE  G
    <2>1. job'[w] = None
      BY <1>6, <1>t DEF Moves
    <2>2. \A v \in Threads : ~(job'[v] # None /\ job'[v].task.art = a)
      BY <1>2, <1>3, <2>1 DEF Works
    <2>3. LastRuns(waiting', versions', job', a)
      BY <2>2 DEF LastRuns
    <2>4. job[w].task # None
      BY <1>1, NoTaskAssumption
    <2>5. ~Awaited(waiting, a) => AtRest(versions', manifest', last', a)
      BY <1>1, <1>2, <1>4, <1>6, <2>4 DEF AtRest
    <2>6. Settled(waiting', versions', job', manifest', last', a)
      BY <1>2, <2>5 DEF Settled
    <2> QED
      BY <1>2, <1>3, <2>3, <2>6
  <1>f. /\ AfterManifest(w).task = job[w].task /\ \A t : AfterRead(w, t).task = job[w].task
        /\ \A pc : AfterWrite(w, pc).task = job[w].task
        /\ AfterStrip(w).task = job[w].task /\ AfterPut(w).task = job[w].task
        /\ \A s : AfterStats(w, s).task = job[w].task
    BY <1>1, AfterFields
  <1>n. /\ AfterManifest(w) # None /\ (\A t \in Tokens : AfterRead(w, t) # None)
        /\ AfterWrite(w, "strip") # None /\ AfterWrite(w, "upsert") # None
        /\ AfterStrip(w) # None /\ AfterPut(w) # None /\ \A s \in Stats : AfterStats(w, s) # None
    BY <1>1, AfterTypes, NoJobAssumption
  <1>7. CASE EndsBare(w, a)
    BY <1>1, <1>6, <1>7 DEF EndsBare, Norm
  <1>8. CASE Starts(w, a)
    BY <1>5, <1>8, <1>f, <1>n DEF Starts
  <1>9. ASSUME NEW t \in Tokens, Reads(w, a, t) PROVE G
    BY <1>5, <1>9, <1>f, <1>n DEF Reads
  <1>10. CASE Strips(w, a)
    BY <1>5, <1>10, <1>f, <1>n DEF Strips
  <1>11. CASE Turns(w, a)
    BY <1>5, <1>11, <1>f, <1>n DEF Turns
  <1>12. CASE Upserts(w, a)
    BY <1>5, <1>12, <1>f, <1>n DEF Upserts
  <1>13. CASE Puts(w, a)
    BY <1>5, <1>13, <1>f, <1>n DEF Puts
  <1>14. ASSUME NEW s \in Stats, Sees(w, a, s) PROVE G
    BY <1>5, <1>14, <1>f, <1>n DEF Sees
  <1>15. CASE Ends(w, a)
    <2>1. manifest[a] = Norm(job[w].task.text)
      BY <1>3, <1>15 DEF Ends, Knows, Later
    <2> QED
      BY <1>6, <1>15, <2>1 DEF Ends
  <1>16. ~Breaks(w, a)
    BY DEF Breaks
  <1> QED
    BY <1>7, <1>8, <1>9, <1>10, <1>11, <1>12, <1>13, <1>14, <1>15, <1>16, OwnStep

LEMMA FollowNext ==
  ASSUME Types, AloneInv, ManInv, FollowInv, Next
  PROVE  FollowInv'
  <1> SUFFICES ASSUME NEW a \in Artifacts, past'[a] = {}
               PROVE  /\ LastWaits(waiting', versions', a)
                      /\ LastRuns(waiting', versions', job', a)
                      /\ Settled(waiting', versions', job', manifest', last', a)
    <2>1. \A a : /\ LastWaits(waiting', versions', a) <=> LastWaits(waiting, versions, a)'
                 /\ LastRuns(waiting', versions', job', a) <=> LastRuns(waiting, versions, job, a)'
                 /\ Settled(waiting', versions', job', manifest', last', a)
                      <=> Settled(waiting, versions, job, manifest, last, a)'
      BY DEF LastWaits, LastRuns, Settled, AtRest, Awaited, About
    <2> QED
      BY <2>1 DEF FollowInv
  <1>1. ASSUME NEW w \in Threads, job[w] # None, StepOf(w), ~Works(w, a)
        PROVE  /\ LastWaits(waiting', versions', a)
               /\ LastRuns(waiting', versions', job', a)
               /\ Settled(waiting', versions', job', manifest', last', a)
    <2>1. UNCHANGED <<versions, waiting>>
      BY <1>1, TaskStep DEF store
    <2> QED
      BY <1>1, <2>1, ApartFromTask, FollowApart
  <1> QED
    BY <1>1, SaveFollows, BeginFollows, OwnFollows, Steps

LEMMA FollowThroughout == Spec => [](CountingInv /\ FollowInv)
  <1>1. Init => FollowInv
    BY DEF Init, FollowInv, LastWaits, LastRuns, Settled, AtRest
  <1>2. CountingInv /\ FollowInv /\ [Next]_vars => FollowInv'
    <2>1. ASSUME FollowInv, UNCHANGED vars PROVE FollowInv'
      BY <2>1 DEF vars, index, store, history, FollowInv, LastWaits, LastRuns, Settled, AtRest,
                  Awaited, About
    <2> QED
      BY <2>1, FollowNext DEF CountingInv
  <1> QED
    BY <1>1, <1>2, StatsThroughout, PTL DEF Spec

(* A posting list of which the trusted statistics count an artifact is     *)
(* returned.                                                               *)
LEMMA NamedAreFound ==
  ASSUME Types, Counted(manifest, stats), NEW a \in Artifacts, NEW t \in Tokens,
         Names(manifest, a, t)
  PROVE  Found(t) = postings[t]
  <1>1. IsFiniteSet(With(manifest, t)) /\ IsFiniteSet(Named(manifest))
    BY IndexAssumption, FS_Subset DEF With, Named
  <1>2. With(manifest, t) \subseteq Named(manifest) /\ a \in With(manifest, t)
    BY DEF With, Named, Names
  <1>3. Cardinality(With(manifest, t)) <= Cardinality(Named(manifest))
    BY <1>1, <1>2, FS_Subset
  <1>4. Cardinality(With(manifest, t)) # 0 /\ Cardinality(With(manifest, t)) \in Nat
    BY <1>1, <1>2, FS_EmptySet, FS_CardinalityType
  <1>5. stats.df[t] = Cardinality(With(manifest, t)) /\ stats.docs = Cardinality(Named(manifest))
    BY DEF Counted
  <1>6. PICK n \in Nat : n = Cardinality(With(manifest, t))
    BY <1>4
  <1>7. stats.df[t] > 0 /\ stats.df[t] <= stats.docs
    BY <1>3, <1>4, <1>5, <1>6
  <1> QED
    BY <1>7 DEF Found

(* When nothing is left to do and the statistics may be trusted, a query   *)
(* finds an artifact that nothing has befallen exactly by what the store   *)
(* holds of it, or not at all once it was removed: whatever was saved, in  *)
(* place or as a new version, with any number of threads, whatever befell  *)
(* the other artifacts.                                                    *)
THEOREM IndexIsAProjection == Spec => []IndexFollowsStore
  <1>1. NamingInv /\ CountingInv /\ FollowInv => IndexFollowsStore
    <2> SUFFICES ASSUME Types, NameInv, StatInv, FollowInv, Quiet, Trusted,
                        NEW a \in Artifacts, past[a] = {}, NEW t \in Tokens
                 PROVE  (~Removed(a) /\ versions[a] # <<>> /\ t \in Last(versions[a]).text)
                          <=> \E e \in Found(t) : e[1] = a
      BY DEF IndexFollowsStore, Follows, NamingInv, CountingInv
    <2>1. Counted(manifest, stats)
      BY StatsAtRest DEF Quiet
    <2>2. Agree(manifest, postings, a) /\ AtRest(versions, manifest, last, a)
      <3>1. Resting(a) /\ ~Awaited(waiting, a) /\ \A w \in Threads : job[w] = None
        BY DEF Quiet, AllIdle, Resting, Works, Awaited
      <3> QED
        BY <3>1 DEF NameInv, Spared, FollowInv, Settled
    <2>3. last[a] # None => last[a] \in Task /\ (last[a].coll = None => last[a].text = {})
      BY TaskFields DEF Types, JobsOK
    <2>4. (\E e \in Found(t) : e[1] = a) <=> Names(manifest, a, t)
      <3>1. Found(t) \subseteq postings[t]
        BY DEF Found
      <3>2. Names(manifest, a, t) => Found(t) = postings[t]
        BY <2>1, NamedAreFound
      <3> QED
        BY <2>2, <3>1, <3>2 DEF Agree, Has
    <2>5. Names(manifest, a, t) <=> last[a] # None /\ t \in last[a].text
      BY <2>2, <2>3, IndexAssumption, TaskFields DEF AtRest, Names, Norm
    <2> QED
      BY <2>2, <2>3, <2>4, <2>5 DEF AtRest, Removed, About
  <1> QED
    BY <1>1, NamesThroughout, FollowThroughout, PTL

(* The index and the tasks under way are well typed, with any number of    *)
(* threads and any failures.                                               *)
THEOREM IndexTypeOK == Spec => []TypeOK
  <1>1. Types => TypeOK
    BY DEF Types, StoreOK, IndexOK, JobsOK, HistoryOK, TypeOK
  <1> QED
    BY <1>1, TypesInit, TypesNext, PTL DEF Spec
=============================================================================
