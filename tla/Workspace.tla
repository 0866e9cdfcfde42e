----------------------------- MODULE Workspace -----------------------------
(***************************************************************************)
(* A workspace in a browser tab: files are dropped into its list and       *)
(* uploaded (Upload) while the list is reordered, other users add and      *)
(* remove artifacts (Listing), and one artifact is open in the details     *)
(* panel (Editor).  What joins them is the announcement of a file, which   *)
(* makes its artifact, gives it a place and puts it in the list, the       *)
(* deletion of an artifact, and fetching the list.                         *)
(***************************************************************************)
EXTENDS Listing, Upload, Editor

ASSUME WorkspaceAssumption == Files \subseteq Items /\ Files \cap Initial = {}

VARIABLE place   \* where in the tab's list the files were dropped

vars == <<listVars, uploadVars, place, editorVars>>

Init == ListInit /\ UploadInit /\ EditorInit /\ place \in 0..Cardinality(Initial)

(* The place of a file: the n-th of a drop goes n places further.          *)
PlaceOf(f) == place + Cardinality(Before[f] \cap setup.files)

AnnounceAt(f) ==
  LET left == PlaceOf(f)
  IN  /\ Announce(f, [op |-> "initiate", key |-> DropKey(left),
                      left |-> IF left \in DOMAIN shown THEN shown[left].id ELSE NoDoc,
                      leftKey |-> KeyAt(shown, left)])
      /\ UNCHANGED <<listVars, place, editorVars>>

MakeArtifact(f, i) ==
  /\ InitiateUpload(f, i)
  /\ PlaceUpload(f, calls[f][i].key, calls[f][i].left, calls[f][i].leftKey)
  /\ UNCHANGED <<place, editorVars>>

(* addExistingArtifact appends, whatever the place.                        *)
AddExisting(f) ==
  /\ Announced(f)
  /\ shown' = IF answer[f].ok = "yes" THEN Appended(shown, f) ELSE shown
  /\ UNCHANGED <<docs, order, news, moves, promised, place, editorVars>>

DeleteArtifact(f) == DeleteUpload(f) /\ Unlink(f, TRUE) /\ UNCHANGED <<place, editorVars>>

FetchList ==
  /\ Trouble
  /\ Refresh
  /\ cache' = ctx
  /\ Sync(stored)
  /\ UNCHANGED <<setup, storeVars, task, ticks, wireVars, place,
                 save, stored, echoes, written, astray>>

Drag ==
  /\ Trouble
  /\ \E from, to \in DOMAIN shown : OrderArtifacts(from, to)
  /\ UNCHANGED <<setup, storeVars, tabVars, wireVars, place, editorVars>>

OthersChange ==
  /\ Trouble
  /\ \E x \in Items \ Files : AddAtEnd(x) \/ Unlink(x, TRUE) \/ Unlink(x, FALSE)
  /\ UNCHANGED <<setup, storeVars, tabVars, wireVars, place, editorVars>>

ListStep ==
  /\ ReorderChildren \/ \E x \in Items : HearNews(x)
  /\ UNCHANGED <<uploadVars, place, editorVars>>

UploadStep(f) ==
  /\ \/ BeginSending(f) \/ Progress(f) \/ Sent(f) \/ SendFails(f)
     \/ Joined(f) \/ Completed(f) \/ Refused(f) \/ GaveUp(f)
     \/ Edit(f) \/ HearUpdate(f) \/ ContentUrl(f)
     \/ \E i \in DOMAIN calls[f] :
          Lost(f, i) \/ PatchContext(f, i) \/ ReportStatus(f, i) \/ CompleteUpload(f, i)
  /\ UNCHANGED <<listVars, place, editorVars>>

EditorStep ==
  /\ \/ /\ \/ Type(setup.keys) \/ Fire \/ Saved \/ SaveFailed \/ HearEdit
           \/ PatchEdit(setup.reformats)
        /\ UNCHANGED trouble
     \/ /\ Trouble
        /\ SaveForgotten \/ PatchEditFails(setup.reformats) \/ OthersEdit(setup.keys, setup.reformats)
  /\ UNCHANGED <<listVars, setup, storeVars, tabVars, wireVars, place>>

Next ==
  \/ FetchList \/ Drag \/ OthersChange \/ ListStep \/ EditorStep
  \/ \E f \in Files :
       \/ AnnounceAt(f) \/ AddExisting(f) \/ DeleteArtifact(f) \/ UploadStep(f)
       \/ \E i \in DOMAIN calls[f] : MakeArtifact(f, i)

Spec == Init /\ [][Next]_vars
=============================================================================
