------------------------------- MODULE Editor -------------------------------
(***************************************************************************)
(* The details panel of an artifact (ContextPanel in                       *)
(* facet/src/components/windows/FloatingCardWindow.tsx), which saves what  *)
(* is typed when nothing was typed for a while (useDebouncedSave.ts)       *)
(* through updateArtifact of the workspace's context.                      *)
(*                                                                         *)
(* A callback of the browser is one step, with the rendering and the       *)
(* effects that it causes.  What was typed is a number.                    *)
(***************************************************************************)
EXTENDS Naturals, Sequences

VARIABLES
  text,        \* what the panel's fields hold
  known,       \* the context of the tab's copy of the artifact
  lastValue,   \* the hook's lastValueRef: what it takes for saved
  timer,       \* the debounce timer runs; it is for the text that is shown
  save,        \* the call of updateArtifact that is under way
  stored,      \* the context on Mantle
  echoes,      \* contexts on their way to the tab with events
  written,     \* how often something was typed, or written by others
  astray       \* history: something happened that leaves panel and Mantle apart

panelVars  == <<text, known, lastValue, timer>>
editorVars == <<panelVars, save, stored, echoes, written, astray>>

(* A context is a string: the same text is written in one way by the tab   *)
(* and in another by Mantle.                                               *)
Context(t, form) == [text |-> t, form |-> form]

NoSave == [at |-> "none", text |-> 0, doc |-> Context(0, "tab")]

EditorInit ==
  /\ text = 0 /\ known = Context(0, "tab")
  /\ lastValue = 0 /\ timer = FALSE
  /\ save = NoSave
  /\ stored = Context(0, "tab")
  /\ echoes = <<>>
  /\ written = 0 /\ astray = FALSE

(* A text is written: a new one, or an earlier one again.                  *)
Writes(t, limit) ==
  /\ written < limit
  /\ t \in 0..(written + 1)
  /\ written' = written + 1

(* The tab's copy becomes c.  If that is another string, the panel shows   *)
(* it, takes it for saved, and stops the timer.                            *)
Synced(c, saved) ==
  /\ known' = c
  /\ IF c = known
       THEN lastValue' = saved /\ UNCHANGED <<text, timer>>
       ELSE text' = c.text /\ lastValue' = c.text /\ timer' = FALSE

Sync(c) == Synced(c, lastValue)

(* The hook takes for saved what the tab's copy does not say.              *)
Misled == lastValue' # known'.text

-----------------------------------------------------------------------------
(* The panel.                                                              *)

Type(limit) ==
  /\ \E t \in 0..limit :
       /\ t # text /\ Writes(t, limit)
       /\ text' = t
       /\ timer' = (t # lastValue)
  /\ UNCHANGED <<known, lastValue, save, stored, echoes, astray>>

(* The timer fires: nothing if a save is under way, and nobody comes back  *)
(* to it.  Otherwise updateArtifact begins by changing the tab's copy.     *)
Fire ==
  /\ timer
  /\ IF save # NoSave
       THEN /\ timer' = FALSE
            /\ astray' = TRUE
            /\ UNCHANGED <<text, known, lastValue, save>>
       ELSE /\ save' = [NoSave EXCEPT !.at = "sent", !.text = text]
            /\ known' = Context(text, "tab")
            /\ timer' = FALSE
            /\ lastValue' = IF known' = known THEN lastValue ELSE text
            /\ astray' = (lastValue # known.text)
            /\ UNCHANGED text
  /\ UNCHANGED <<stored, echoes, written>>

(* The answer takes the place of the tab's copy.  It may be late: another  *)
(* write behind it was heard of before.                                    *)
Saved ==
  /\ save.at = "answered"
  /\ Synced(save.doc, save.text)
  /\ save' = NoSave
  /\ astray' = (astray \/ Misled \/ (save.doc # stored /\ echoes = <<>>))
  /\ UNCHANGED <<stored, echoes, written>>

(* Mutant: the failure is logged, no more.                                 *)
SaveFailedKept ==
  /\ save.at = "failed"
  /\ Synced(known, save.text)
  /\ save' = NoSave
  /\ astray' = (astray \/ Misled)
  /\ UNCHANGED <<stored, echoes, written>>

(* The request failed: the list is fetched, and the hook takes the text    *)
(* for saved all the same, since updateArtifact does not throw.            *)
SaveFailed ==
  /\ save.at = "failed"
  /\ Synced(stored, save.text)
  /\ save' = NoSave
  /\ astray' = (astray \/ Misled)
  /\ UNCHANGED <<stored, echoes, written>>

(* Fetching the list fails as well.                                        *)
SaveForgotten ==
  /\ save.at = "failed"
  /\ Synced(known, save.text)
  /\ save' = NoSave
  /\ astray' = TRUE
  /\ UNCHANGED <<stored, echoes, written>>

HearEdit ==
  /\ echoes # <<>>
  /\ Sync(Head(echoes))
  /\ echoes' = Tail(echoes)
  /\ UNCHANGED <<save, stored, written, astray>>

-----------------------------------------------------------------------------
(* Mantle: for a type with a context schema the context is parsed and      *)
(* written anew; what does not change is not announced.                    *)
Stores(t, reformats) ==
  /\ stored' = Context(t, IF reformats THEN "mantle" ELSE "tab")
  /\ echoes' = IF stored' = stored THEN echoes ELSE Append(echoes, stored')

PatchEdit(reformats) ==
  /\ save.at = "sent"
  /\ Stores(save.text, reformats)
  /\ save' = [save EXCEPT !.at = "answered", !.doc = stored']
  /\ UNCHANGED <<panelVars, written, astray>>

(* The request or its answer is lost.                                      *)
PatchEditFails(reformats) ==
  /\ save.at = "sent"
  /\ Stores(save.text, reformats) \/ UNCHANGED <<stored, echoes>>
  /\ save' = [save EXCEPT !.at = "failed"]
  /\ UNCHANGED <<panelVars, written, astray>>

OthersEdit(limit, reformats) ==
  /\ \E t \in 0..limit : Writes(t, limit) /\ Stores(t, reformats)
  /\ UNCHANGED <<panelVars, save, astray>>
-----------------------------------------------------------------------------
(* When nothing is on its way any more, the panel shows what is stored,    *)
(* although it shows a text as saved before it is, forgets that a save     *)
(* failed, and takes answers and events as they come.  It is otherwise     *)
(* only until the next save, and only if the timer fired during a save,    *)
(* a failed save was followed by a failed fetch of the list, an answer     *)
(* came after the event of a later write, or the copy had changed so that  *)
(* the hook took a text for saved which it was not (useDebouncedSave,      *)
(* updateArtifact).                                                        *)
ShownIsStored ==
  (~timer /\ save = NoSave /\ echoes = <<>> /\ ~astray) => text = stored.text
=============================================================================
