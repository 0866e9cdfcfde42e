----------------------------- MODULE RemoteCall -----------------------------
(***************************************************************************)
(* What the relay promises to the HTTP caller of a tool that lives on a    *)
(* desktop: the tool runs at most once per call, an answer is only given   *)
(* after it ran, and a call that was refused never runs.  A call that      *)
(* failed may still run: the caller cannot tell.                           *)
(***************************************************************************)
EXTENDS Naturals

CONSTANTS Call

VARIABLES
  status,   \* of each call, as its caller sees it
  runs      \* how often the desktop ran it

vars == <<status, runs>>

Init ==
  /\ status = [r \in Call |-> "new"]
  /\ runs = [r \in Call |-> 0]

Becomes(r, s) == status' = [status EXCEPT ![r] = s] /\ UNCHANGED runs

Open(r)   == status[r] = "new"  /\ Becomes(r, "open")
Refuse(r) == status[r] = "new"  /\ Becomes(r, "refused")
Fail(r)   == status[r] = "open" /\ Becomes(r, "failed")
Answer(r) == status[r] = "open" /\ runs[r] = 1 /\ Becomes(r, "answered")

Run(r) ==
  /\ status[r] \in {"open", "failed"}
  /\ runs[r] = 0
  /\ runs' = [runs EXCEPT ![r] = 1]
  /\ UNCHANGED status

Next == \E r \in Call : Open(r) \/ Refuse(r) \/ Fail(r) \/ Answer(r) \/ Run(r)

Spec == Init /\ [][Next]_vars
=============================================================================
