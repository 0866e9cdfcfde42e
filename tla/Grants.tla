------------------------------ MODULE Grants -------------------------------
(***************************************************************************)
(* What somebody may do: the grants and invites of one resource, the       *)
(* platform's authority artifact, among the people of SignIn.              *)
(*   origin/services/grant_service.py, origin/routers/grants_router.py     *)
(*                                                                         *)
(* The user-facing handlers are coroutines like those of SignIn.  The      *)
(* internal upsert, by which Mantle grants, runs on a thread of its own:   *)
(* between its read and its write anything may happen.                     *)
(***************************************************************************)
EXTENDS SignIn

CONSTANTS
  Roles,       \* the role presets: what they allow is Shares and Admins
  MaxGrants,   \* bound: rows of grants
  MaxUpserts,  \* bound: upserts at once
  MaxOps       \* bound: operations

VARIABLES
  grants,      \* the rows of the resource, oldest first
  upserts,     \* upserts that have read and not yet written
  ops          \* operations so far

grantVars == <<grants, upserts>>
vars == <<signInVars, grantVars, ops>>

Shares == {"collaborator", "admin"}
Admins == {"admin"}

Ids == 1..Len(grants)
Active(p) == {g \in Ids : grants[g].kind = "user" /\ grants[g].holder = p
                          /\ grants[g].state = "active"}
CanShare(p) == \E g \in Active(p) : grants[g].role \in Shares
CanAdmin(p) == \E g \in Active(p) : grants[g].role \in Admins

UserGrant(p, by, role, state, from) ==
  [kind |-> "user", holder |-> p, by |-> by, role |-> role, state |-> state,
   target |-> None, max |-> 0, claims |-> 0, from |-> from]

Add(rows) == Len(grants) + Len(rows) <= MaxGrants /\ grants' = grants \o rows

(* POST /grants for an invite                                              *)
CreateInvite(p, role, target, max) ==
  /\ CanShare(p)
  /\ Add(<<[kind |-> "invite", holder |-> 0, by |-> p, role |-> role, state |-> "active",
            target |-> target, max |-> max, claims |-> 0, from |-> 0]>>)
  /\ UNCHANGED <<signInVars, upserts>>

(* POST /grants for a person                                               *)
CreateGrant(p, q, role, state) ==
  /\ CanAdmin(p)
  /\ Add(<<UserGrant(q, p, role, state, 0)>>)
  /\ UNCHANGED <<signInVars, upserts>>

(* Mutant: claims of an invite are counted only when it is used up.        *)
ClaimCountsLast(p, i) ==
  /\ grants[i].kind = "invite" /\ grants[i].state = "active"
  /\ grants[i].target \in {None, persons[p].email}
  /\ grants[i].claims < grants[i].max
  /\ Len(grants) < MaxGrants
  /\ LET claimed == IF grants[i].max > 1 THEN grants
                    ELSE [grants EXCEPT ![i].claims = 1, ![i].state = "revoked"]
     IN  grants' = Append(claimed, UserGrant(p, grants[i].by, grants[i].role, "active", i))
  /\ UNCHANGED <<signInVars, upserts>>

(* POST /grants/claim                                                      *)
Claim(p, i) ==
  /\ grants[i].kind = "invite" /\ grants[i].state = "active"
  /\ grants[i].target \in {None, persons[p].email}
  /\ grants[i].claims < grants[i].max
  /\ Len(grants) < MaxGrants
  /\ LET claimed == [grants EXCEPT ![i].claims = @ + 1,
                                   ![i].state = IF grants[i].max = 1 THEN "revoked" ELSE @]
     IN  grants' = Append(claimed, UserGrant(p, grants[i].by, grants[i].role, "active", i))
  /\ UNCHANGED <<signInVars, upserts>>

(* DELETE /grants/{id}                                                     *)
Revoke(p, g) ==
  /\ (grants[g].kind = "invite" /\ grants[g].by = p) \/ CanAdmin(p)
  /\ grants' = [grants EXCEPT ![g].state = "revoked"]
  /\ UNCHANGED <<signInVars, upserts>>

(* POST /grants/{id}/accept                                                *)
Accept(p, g) ==
  /\ grants[g].state = "pending_accept" /\ grants[g].holder = p
  /\ grants' = [grants EXCEPT ![g].state = "active"]
  /\ UNCHANGED <<signInVars, upserts>>

(* POST /internal/upsert looks for a grant of the person, any if there are *)
(* several, and is done when its flags are the wanted ones ...             *)
UpsertReads(p, role) ==
  /\ Cardinality(upserts) < MaxUpserts
  /\ LET existing == {g \in Ids : grants[g].kind = "user" /\ grants[g].holder = p
                                  /\ grants[g].state \in {"active", "pending_accept"}}
     IN \E g \in IF existing = {} THEN {0} ELSE existing :
          /\ g # 0 => grants[g].role # role
          /\ upserts' = upserts \cup {[person |-> p, role |-> role, found |-> g,
                                       state |-> IF g = 0 THEN "active" ELSE grants[g].state]}
  /\ UNCHANGED <<signInVars, grants>>

(* Mutant: the upsert writes the whole row it has read.                    *)
UpsertWritesRow(u) ==
  /\ u \in upserts
  /\ upserts' = upserts \ {u}
  /\ IF u.found = 0 THEN Add(<<UserGrant(u.person, 0, u.role, "active", 0)>>)
     ELSE grants' = [grants EXCEPT ![u.found].role = u.role, ![u.found].state = u.state]
  /\ UNCHANGED signInVars

(* ... and otherwise writes its flags, or a new grant.                     *)
UpsertWrites(u) ==
  /\ u \in upserts
  /\ upserts' = upserts \ {u}
  /\ IF u.found = 0 THEN Add(<<UserGrant(u.person, 0, u.role, "active", 0)>>)
     ELSE grants' = [grants EXCEPT ![u.found].role = u.role]
  /\ UNCHANGED signInVars

(* A restart ends the upserts that have not written.                       *)
Surviving == IF life' = life THEN upserts ELSE {}

(* POST /auth/bootstrap/claim sets the platform up, and the operator's     *)
(* grant on the authority artifact is committed with the account.          *)
BootstrapClaim(e, pw) ==
  /\ CanSetUp(e)
  /\ WriteSetup(Len(persons) + 1, OperatorAccount(e, pw))
  /\ IF Len(persons') > Len(persons)
     THEN Add(<<UserGrant(Len(persons'), Len(persons'), "admin", "active", 0)>>)
     ELSE UNCHANGED grants
  /\ upserts' = Surviving

-----------------------------------------------------------------------------

GInit == Init /\ grants = <<>> /\ upserts = {} /\ ops = 0

GSignIn ==
  /\ SignInNext
  /\ UNCHANGED grants
  /\ upserts' = Surviving

GNext ==
  /\ ops < MaxOps
  /\ ops' = ops + 1
  /\ \/ GSignIn
     \/ \E p \in People :
          \/ \E role \in Roles, t \in Emails \cup {None}, m \in {1, 2} : CreateInvite(p, role, t, m)
          \/ \E q \in People, role \in Roles, s \in {"active", "pending_accept"} :
               CreateGrant(p, q, role, s)
          \/ \E g \in Ids : Claim(p, g) \/ Revoke(p, g) \/ Accept(p, g)
          \/ \E role \in Roles : UpsertReads(p, role)
     \/ \E u \in upserts : UpsertWrites(u)
     \/ \E pw \in BOOLEAN, e \in Emails \cup {None} : BootstrapClaim(e, pw)

Spec == GInit /\ [][GNext]_vars

-----------------------------------------------------------------------------
(* Properties                                                              *)

(* What an invite has given away is counted: as many grants as claims and  *)
(* no more than it allows, and one that allows one claim is closed by it.  *)
ClaimsExact ==
  \A i \in Ids : grants[i].kind = "invite" =>
    /\ grants[i].claims = Cardinality({g \in Ids : grants[g].from = i})
    /\ grants[i].claims <= grants[i].max
    /\ grants[i].max = 1 /\ grants[i].claims = 1 => grants[i].state = "revoked"

(* What was revoked stays so, whatever was read before and is written      *)
(* after: by an upsert in its thread, by an acceptance, by a claim.        *)
RevokedIsFinal ==
  [][\A g \in Ids : grants[g].state = "revoked" => grants'[g].state = "revoked"]_grants
=============================================================================
