------------------------------- MODULE Upload -------------------------------
(***************************************************************************)
(* Uploading files into a workspace: the batch a browser tab works through *)
(* (uploadFilesAt in facet/src/components/browser/Browser.tsx), Mantle's   *)
(* handlers (mantle/services/workspace_service.py) and the content store,  *)
(* an edge bucket with an optional durable one behind it                   *)
(* (mantle/services/content_service.py).                                   *)
(*                                                                         *)
(* A handler of Mantle awaits nothing and is one step.  Requests of the    *)
(* tab that are not awaited (progress) stay on their way while it goes on. *)
(***************************************************************************)
EXTENDS Naturals, Sequences, FiniteSets

CONSTANTS
  Files,      \* the files of one drop
  Before,     \* Before[f]: the files dropped with f that come before it
  Mode,       \* "put" or "multipart", by size
  Setups,     \* the situations to look at: see setup
  NoDoc       \* no document; nothing known of one

ASSUME UploadAssumption ==
  /\ IsFiniteSet(Files)
  /\ Before \in [Files -> SUBSET Files]
  /\ Mode \in [Files -> {"put", "multipart"}]
  /\ Setups \subseteq [files : SUBSET Files, durable : BOOLEAN, evict : BOOLEAN,
                       reordered : BOOLEAN, edits : BOOLEAN, ticks : Nat,
                       keys : Nat, reformats : BOOLEAN, trouble : Nat]

VARIABLES
  setup,     \* the files that are dropped; is there a durable bucket, and is the edge
             \* evicted once that has a copy; may requests overtake each other; is an
             \* artifact edited while it uploads; how much is typed in the details
             \* panel, for a type that Mantle reformats or not; how much else may happen
  ctx,       \* each artifact's context on Mantle: its upload section, and the rest
  edge,      \* files whose object is in the edge bucket
  durable,   \* files whose object is in the durable bucket
  parts,     \* the multipart upload of each file: "none", "open", "sent", "joined"
  task,      \* how far the tab has come with each file
  cache,     \* the context the tab knows of
  calls,     \* requests about each file on their way to Mantle
  answer,    \* the answer to the request that is awaited for a file
  mail,      \* documents on their way to the tab, in answers and events
  ticks,     \* progress events of each file so far
  trouble    \* failures, edits, deletions and other users' changes so far

storeVars == <<ctx, edge, durable, parts>>
tabVars   == <<task, cache, ticks>>
wireVars  == <<calls, answer, mail>>
uploadVars == <<setup, storeVars, tabVars, wireVars, trouble>>

(* status of the upload section, whether that names object and mode, the   *)
(* processing status, and whether the durable copy is recorded.            *)
Contexts == [status : {"none", "initiated", "uploading", "failed"}, named : BOOLEAN,
             processing : {"pending", "ready", "failed"}, synced : BOOLEAN]

NoSection == [status |-> "none", named |-> FALSE]
Section(c) == [status |-> c.status, named |-> c.named]

NoAnswer == [ok |-> "none", doc |-> NoDoc]
Failed   == [ok |-> "no", doc |-> NoDoc]
Ok(doc)  == [ok |-> "yes", doc |-> doc]

Patch(doc)   == [op |-> "patch", doc |-> doc]
Report(s)    == [op |-> s]
Complete(ps, section) == [op |-> "complete", parts |-> ps, section |-> section]

UploadInit ==
  /\ setup \in Setups
  /\ ctx = [f \in Files |-> NoDoc]
  /\ edge = {}
  /\ durable = {}
  /\ parts = [f \in Files |-> "none"]
  /\ task = [f \in Files |-> "idle"]
  /\ cache = [f \in Files |-> NoDoc]
  /\ calls = [f \in Files |-> <<>>]
  /\ answer = [f \in Files |-> NoAnswer]
  /\ mail = [f \in Files |-> <<>>]
  /\ ticks = [f \in Files |-> 0]
  /\ trouble = 0

Goes(f, from, to) == task[f] = from /\ task' = [task EXCEPT ![f] = to]

Send(f, new) == calls' = [calls EXCEPT ![f] = @ \o new]

Trouble == trouble < setup.trouble /\ trouble' = trouble + 1

-----------------------------------------------------------------------------
(* The tab, phase 1: one file after the other is announced to Mantle.      *)
Announce(f, request) ==
  /\ f \in setup.files
  /\ \A g \in Before[f] \cap setup.files : task[g] = "queued"
  /\ Goes(f, "idle", "initiating")
  /\ Send(f, <<request>>)
  /\ UNCHANGED <<setup, storeVars, cache, ticks, answer, mail, trouble>>

(* A refusal ends the whole drop: the exception is not caught, so that the *)
(* files announced before are never sent.                                  *)
Announced(f) ==
  /\ answer[f].ok # "none"
  /\ task[f] = "initiating"
  /\ IF answer[f].ok = "yes"
       THEN /\ task' = [task EXCEPT ![f] = "queued"]
            /\ cache' = [cache EXCEPT ![f] = answer[f].doc]
       ELSE /\ task' = [g \in Files |-> "abandoned"]
            /\ UNCHANGED cache
  /\ answer' = [answer EXCEPT ![f] = NoAnswer]
  /\ UNCHANGED <<setup, storeVars, ticks, calls, mail, trouble>>

-----------------------------------------------------------------------------
(* Phase 2: one file after the other is sent.                              *)
Ended(f) == task[f] \in {"done", "failed"}

BeginSending(f) ==
  /\ \A g \in setup.files : task[g] \notin {"idle", "initiating"}
  /\ \A g \in Before[f] \cap setup.files : Ended(g)
  /\ Goes(f, "queued", "sending")
  /\ UNCHANGED <<setup, storeVars, cache, ticks, wireVars, trouble>>

(* A progress event: the cached context is changed and sent as a whole,    *)
(* and Mantle is told as well; neither request is awaited.                 *)
Uploading(c) == [c EXCEPT !.status = "uploading"]

Progress(f) ==
  /\ task[f] = "sending"
  /\ ticks[f] < setup.ticks
  /\ ticks' = [ticks EXCEPT ![f] = @ + 1]
  /\ IF cache[f] = NoDoc
       THEN /\ Send(f, <<Report("uploading")>>)
            /\ UNCHANGED cache
       ELSE /\ Send(f, <<Patch(Uploading(cache[f])), Report("uploading")>>)
            /\ cache' = [cache EXCEPT ![f] = Uploading(@)]
  /\ UNCHANGED <<setup, storeVars, task, answer, mail, trouble>>

(* The last byte: by one PUT to the edge bucket, or by parts, for each of  *)
(* which Mantle signs an URL as long as the document names the upload.     *)
Sent(f) ==
  /\ IF Mode[f] = "put"
       THEN /\ Goes(f, "sending", "completing")
            /\ edge' = edge \cup {f}
            /\ Send(f, <<Complete(FALSE, NoSection)>>)
            /\ UNCHANGED parts
       ELSE /\ Goes(f, "sending", "joining")
            /\ ctx[f] # NoDoc /\ ctx[f].named
            /\ parts' = [parts EXCEPT ![f] = "sent"]
            /\ Send(f, <<Complete(TRUE, NoSection)>>)
            /\ UNCHANGED edge
  /\ UNCHANGED <<setup, ctx, durable, cache, ticks, answer, mail, trouble>>

(* The upload fails, or no URL is signed: the catch clause reports it.     *)
SendFails(f) ==
  /\ Goes(f, "sending", "failing")
  /\ IF Mode[f] = "multipart" /\ (ctx[f] = NoDoc \/ ~ctx[f].named)
       THEN UNCHANGED trouble
       ELSE Trouble
  /\ Send(f, <<Report("failed")>>)
  /\ UNCHANGED <<setup, storeVars, cache, ticks, answer, mail>>

(* uploadMultipart has ended: complete is sent a second time, with the     *)
(* upload section of the tab's copy, if that still has one.                *)
Joined(f) ==
  /\ answer[f].ok = "yes"
  /\ Goes(f, "joining", "completing")
  /\ Send(f, <<Complete(FALSE, IF cache[f] = NoDoc THEN NoSection ELSE Section(cache[f]))>>)
  /\ answer' = [answer EXCEPT ![f] = NoAnswer]
  /\ UNCHANGED <<setup, storeVars, cache, ticks, mail, trouble>>

(* updateArtifact: the completed document replaces the tab's copy, and is  *)
(* sent back as a patch.                                                   *)
Completed(f) ==
  /\ answer[f].ok = "yes"
  /\ Goes(f, "completing", "done")
  /\ cache' = [cache EXCEPT ![f] = IF @ = NoDoc THEN NoDoc ELSE answer[f].doc]
  /\ Send(f, <<Patch(answer[f].doc)>>)
  /\ answer' = [answer EXCEPT ![f] = NoAnswer]
  /\ UNCHANGED <<setup, storeVars, ticks, mail, trouble>>

Refused(f) ==
  /\ answer[f].ok = "no"
  /\ task[f] \in {"joining", "completing"}
  /\ task' = [task EXCEPT ![f] = "failing"]
  /\ Send(f, <<Report("failed")>>)
  /\ answer' = [answer EXCEPT ![f] = NoAnswer]
  /\ UNCHANGED <<setup, storeVars, cache, ticks, mail, trouble>>

GaveUp(f) ==
  /\ answer[f].ok # "none"
  /\ Goes(f, "failing", "failed")
  /\ answer' = [answer EXCEPT ![f] = NoAnswer]
  /\ UNCHANGED <<setup, storeVars, cache, ticks, calls, mail, trouble>>

(* Somebody renames the artifact in the tab: the whole context is sent.    *)
Edit(f) ==
  /\ setup.edits
  /\ Trouble
  /\ cache[f] # NoDoc
  /\ Send(f, <<Patch(cache[f])>>)
  /\ UNCHANGED <<setup, storeVars, tabVars, answer, mail>>

(* A document arrives, with an event or an answer.                         *)
HearUpdate(f) ==
  /\ mail[f] # <<>>
  /\ cache' = [cache EXCEPT ![f] = IF @ = NoDoc THEN NoDoc ELSE Head(mail[f])]
  /\ mail' = [mail EXCEPT ![f] = Tail(@)]
  /\ UNCHANGED <<setup, storeVars, task, ticks, calls, answer, trouble>>

-----------------------------------------------------------------------------
(* Mantle.                                                                 *)

(* A request arrives, the oldest unless they may overtake each other.      *)
Arrives(f, i) ==
  /\ i \in DOMAIN calls[f]
  /\ setup.reordered \/ i = 1
  /\ calls' = [calls EXCEPT ![f] = SubSeq(@, 1, i - 1) \o SubSeq(@, i + 1, Len(@))]

Awaited(call) == call.op \in {"initiate", "complete", "failed"}

(* The answer to an awaited request; it may be lost.                       *)
Answers(f, call, result) ==
  IF ~Awaited(call)
    THEN UNCHANGED <<answer, trouble>>
    ELSE \/ /\ answer' = [answer EXCEPT ![f] = result]
            /\ UNCHANGED trouble
         \/ /\ answer' = [answer EXCEPT ![f] = Failed]
            /\ Trouble

(* What the tab is told of a document that was written.                    *)
Write(f, doc) ==
  /\ ctx' = [ctx EXCEPT ![f] = doc]
  /\ mail' = [mail EXCEPT ![f] = Append(@, doc)]

Refuse(f, call) ==
  /\ Answers(f, call, Failed)
  /\ UNCHANGED <<ctx, mail>>

(* A request never arrives.                                                *)
Lost(f, i) ==
  /\ Arrives(f, i)
  /\ Trouble
  /\ answer' = IF Awaited(calls[f][i]) THEN [answer EXCEPT ![f] = Failed] ELSE answer
  /\ UNCHANGED <<setup, storeVars, tabVars, mail>>

(* initiate_upload_and_create_artifact: the artifact is made first, then   *)
(* the URL is signed, which may fail, then the artifact names the object.  *)
InitiateUpload(f, i) ==
  /\ Arrives(f, i)
  /\ calls[f][i].op = "initiate"
  /\ LET made == [status |-> "initiated", named |-> FALSE, processing |-> "pending", synced |-> FALSE]
     IN  \/ /\ Write(f, [made EXCEPT !.named = TRUE])
            /\ parts' = [parts EXCEPT ![f] = IF Mode[f] = "multipart" THEN "open" ELSE @]
            /\ Answers(f, calls[f][i], Ok(ctx'[f]))
         \/ /\ Trouble
            /\ Write(f, made)
            /\ answer' = [answer EXCEPT ![f] = Failed]
            /\ UNCHANGED parts
  /\ UNCHANGED <<setup, edge, durable, tabVars>>

(* PATCH of the artifact: the context is replaced by the one that is sent. *)
PatchContext(f, i) ==
  /\ Arrives(f, i)
  /\ calls[f][i].op = "patch"
  /\ IF ctx[f] = NoDoc THEN UNCHANGED <<ctx, mail>> ELSE Write(f, calls[f][i].doc)
  /\ UNCHANGED <<setup, edge, durable, parts, tabVars, answer, trouble>>

(* update_upload_status, "uploading" and "failed".                         *)
ReportStatus(f, i) ==
  LET call == calls[f][i]
  IN  /\ Arrives(f, i)
      /\ call.op \in {"uploading", "failed"}
      /\ IF ctx[f] = NoDoc
           THEN Refuse(f, call)
           ELSE /\ Write(f, [ctx[f] EXCEPT !.status = call.op,
                                          !.processing = IF call.op = "failed" THEN "failed" ELSE @])
                /\ Answers(f, call, Ok(ctx'[f]))
      /\ UNCHANGED <<setup, edge, durable, parts, tabVars>>

(* "complete", up to where the object is known to be in the edge bucket:   *)
(* the section that is sent takes the place of the stored one; parts that  *)
(* are listed are joined, which works once.                                *)
NamedBy(f, call) == IF call.section = NoSection THEN ctx[f].named ELSE call.section.named

Joins(f, call) == Mode[f] = "multipart" /\ call.parts

Accepted(f, call) ==
  /\ NamedBy(f, call)
  /\ IF Joins(f, call) THEN parts[f] = "sent" ELSE f \in edge

(* Mutant: the edge is evicted where there is nothing behind it.           *)
PersistEvicts(f) ==
  /\ durable' = IF setup.durable THEN durable \cup {f} ELSE durable
  /\ edge' = IF setup.evict THEN edge \ {f} ELSE edge \cup {f}

(* persist_object_to_durable: with a durable bucket, copy, then evict.     *)
Persist(f) ==
  IF setup.durable
    THEN /\ durable' = durable \cup {f}
         /\ edge' = IF setup.evict THEN edge \ {f} ELSE edge \cup {f}
    ELSE /\ edge' = edge \cup {f}
         /\ UNCHANGED durable

(* Mutant: the upload section stays.                                       *)
CompletedContextKept(f, call) ==
  [ctx[f] EXCEPT !.processing = "ready", !.synced = @ \/ setup.durable]

CompletedContext(f, call) ==
  [status |-> "none", named |-> FALSE, processing |-> "ready", synced |-> ctx[f].synced \/ setup.durable]

(* "complete".  The copy to the durable bucket, or writing the document    *)
(* after it, may fail; what was done until then stays.                     *)
CompleteUpload(f, i) ==
  LET call == calls[f][i]
  IN  /\ Arrives(f, i)
      /\ call.op = "complete"
      /\ IF ctx[f] = NoDoc \/ ~Accepted(f, call)
           THEN /\ Refuse(f, call)
                /\ UNCHANGED <<edge, durable, parts>>
           ELSE /\ parts' = [parts EXCEPT ![f] = IF Joins(f, call) THEN "joined" ELSE @]
                /\ \/ /\ Persist(f)
                      /\ Write(f, CompletedContext(f, call))
                      /\ Answers(f, call, Ok(ctx'[f]))
                   \/ /\ Trouble
                      /\ Persist(f) \/ (edge' = edge \cup {f} /\ UNCHANGED durable)
                      /\ answer' = [answer EXCEPT ![f] = Failed]
                      /\ UNCHANGED <<ctx, mail>>
      /\ UNCHANGED <<setup, tabVars>>

(* generate_signed_url brings back what was evicted.                       *)
ContentUrl(f) ==
  /\ ctx[f] # NoDoc
  /\ f \in durable \ edge
  /\ edge' = edge \cup {f}
  /\ UNCHANGED <<setup, ctx, durable, parts, tabVars, wireVars, trouble>>

(* The artifact is deleted: its objects, then the document; and the tab's  *)
(* copy, without which nothing but refusals would come of it.              *)
DeleteUpload(f) ==
  /\ Trouble
  /\ ctx[f] # NoDoc
  /\ edge' = edge \ {f}
  /\ durable' = durable \ {f}
  /\ ctx' = [ctx EXCEPT ![f] = NoDoc]
  /\ cache' = [cache EXCEPT ![f] = NoDoc]
  /\ UNCHANGED <<setup, parts, task, ticks, wireVars>>

-----------------------------------------------------------------------------
(* An artifact that no longer says it is being uploaded, or whose upload   *)
(* the tab has seen complete, has its object in one of the two buckets,    *)
(* and a document that names a durable copy has one.                       *)
ServedOnceComplete ==
  \A f \in Files : ctx[f] # NoDoc =>
    /\ ctx[f].status = "none" \/ task[f] = "done" => f \in edge \cup durable
    /\ ctx[f].synced => f \in durable

(* A completed upload is shown as completed: when the tab is done with it  *)
(* and its requests have arrived, in the order they were sent, and nobody  *)
(* has edited it, the artifact has no upload section.                      *)
SettledInOrder ==
  \A f \in Files :
    /\ ~setup.reordered /\ ~setup.edits
    /\ task[f] = "done" /\ calls[f] = <<>> /\ ctx[f] # NoDoc
    => ctx[f].status = "none" /\ ctx[f].processing = "ready"
=============================================================================
