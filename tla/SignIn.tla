------------------------------ MODULE SignIn -------------------------------
(***************************************************************************)
(* Who somebody is: Origin's accounts, the OAuth code flow, one-time       *)
(* passwords by e-mail and the first-boot setup.                           *)
(*   origin/routers/auth_router.py, otp_router.py, setup_router.py         *)
(*   origin/services/person_service.py, otp_service.py                     *)
(*   origin/services/platform_settings_service.py                          *)
(*                                                                         *)
(* Origin is one process.  Its sign-in handlers are coroutines on one      *)
(* event loop and use the database synchronously, so that each runs alone  *)
(* from one await to the next: one action is one such stretch.  Refused    *)
(* requests that change nothing are left out, and with them the allow-list.*)
(***************************************************************************)
EXTENDS Naturals, Sequences, FiniteSets

CONSTANTS
  Emails,         \* e-mail addresses
  Subjects,       \* identities at the OIDC provider
  None,           \* no address, no identity
  Registered,     \* the accounts there are at the start
  MaxPersons,     \* bound: accounts
  MaxCodes,       \* bound: requests, codes and one-time passwords ever made
  CacheMax,       \* _AUTH_CACHE_MAX_ITEMS
  OtpAttempts,    \* _MAX_ATTEMPTS_PER_CODE
  OtpFailed       \* _MAX_FAILED_IN_WINDOW

ASSUME SignInAssumption == MaxCodes \in Nat /\ OtpAttempts \in Nat

VARIABLES
  persons,    \* the accounts, in the order of their creation
  requests,   \* pkce_challenges; ids are given in the order of insertion
  callbacks,  \* the requests whose callback awaits the provider
  codes,      \* authorization_codes
  made,       \* how many requests and codes were made
  uses,       \* sessions and links each code was good for
  otps,       \* the rows of otp_codes, oldest first
  settings,   \* the settings of the setup in memory
  stored,     \* and in the database
  operators,  \* all persons that ever were the operator
  life        \* restarts so far

flowVars == <<requests, callbacks, codes, made, uses>>
setupVars == <<settings, stored, operators, life>>
signInVars == <<persons, flowVars, otps, setupVars>>

People == 1..Len(persons)
Account == [email : Emails \cup {None}, oidc : Subjects \cup {None}, password : BOOLEAN]

(* Ages count steps of five minutes; after ten a request, a code and a     *)
(* one-time password have expired.                                         *)
Fresh(x) == x.age < 2
Aged(x, n) == [x EXCEPT !.age = IF @ + n < 2 THEN @ + n ELSE 2]

(* _prune_auth_cache, of one of the two caches: what has expired goes, and *)
(* of the rest the oldest, until CacheMax are left.                        *)
Pruned(cache) ==
  LET live == {x \in cache : Fresh(x)}
  IN  {x \in live : Cardinality({y \in live : y.id > x.id}) < CacheMax}

Init ==
  /\ persons = Registered
  /\ requests = {} /\ callbacks = {} /\ codes = {}
  /\ made = [requests |-> 0, codes |-> 0]
  /\ uses = [c \in 1..MaxCodes |-> 0]
  /\ otps = <<>>
  /\ settings = [complete |-> FALSE, operator |-> 0]
  /\ stored = settings
  /\ operators = {}
  /\ life = 0

-----------------------------------------------------------------------------
(* Accounts.  An address and an identity are unique in the table.          *)

AddressTaken(e) == e # None /\ \E p \in People : persons[p].email = e

(* password_register: the user name is new.                                *)
Register(e) ==
  /\ Len(persons) < MaxPersons
  /\ ~AddressTaken(e)
  /\ persons' = Append(persons, [email |-> e, oidc |-> None, password |-> TRUE])
  /\ UNCHANGED <<flowVars, otps, setupVars>>

(* get_or_create_user_by_oidc_identity: an identity brings its address.    *)
(* Another account that has it makes the database refuse, and the request  *)
(* fails.                                                                  *)
Clash(s, e) == \E p \in People : persons[p].email = e /\ persons[p].oidc # s

WithIdentity(s, e) ==
  IF \E p \in People : persons[p].oidc = s
  THEN [p \in People |-> IF persons[p].oidc = s THEN [persons[p] EXCEPT !.email = e]
                         ELSE persons[p]]
  ELSE Append(persons, [email |-> e, oidc |-> s, password |-> FALSE])

-----------------------------------------------------------------------------
(* OAuth code flow                                                         *)

(* GET /authorize                                                          *)
Authorize ==
  /\ made.requests < MaxCodes
  /\ made' = [made EXCEPT !.requests = @ + 1]
  /\ requests' = Pruned(requests) \cup {[id |-> made.requests + 1, age |-> 0]}
  /\ codes' = Pruned(codes)
  /\ UNCHANGED <<persons, callbacks, uses, otps, setupVars>>

(* GET /callback looks the request up and turns to the provider ...        *)
CallbackBegins(r) ==
  /\ r.id \notin callbacks
  /\ callbacks' = callbacks \cup {r.id}
  /\ UNCHANGED <<persons, requests, codes, made, uses, otps, setupVars>>

(* ... which fails or names an identity, for which a code is made.  The    *)
(* request stays where it is.                                              *)
CallbackEnds(r) ==
  /\ r \in callbacks
  /\ callbacks' = callbacks \ {r}
  /\ \/ UNCHANGED <<requests, codes, made>>
     \/ \E s \in Subjects, e \in Emails :
          /\ made.codes < MaxCodes
          /\ made' = [made EXCEPT !.codes = @ + 1]
          /\ codes' = Pruned(Pruned(codes) \cup
                        {[id |-> made.codes + 1, subject |-> s, email |-> e, age |-> 0]})
          /\ requests' = Pruned(requests)
  /\ UNCHANGED <<persons, uses, otps, setupVars>>

(* POST /token.  An expired code is pruned before it is looked at, which   *)
(* fails; with the wrong client or verifier the code stays; otherwise it   *)
(* is gone whether or not the identity gets its session.                   *)
Token(c) ==
  /\ \/ /\ codes' = Pruned(codes)
        /\ UNCHANGED <<persons, uses>>
     \/ /\ Fresh(c)
        /\ codes' = Pruned(codes) \ {c}
        /\ IF Clash(c.subject, c.email)
           THEN UNCHANGED <<persons, uses>>
           ELSE /\ persons' = WithIdentity(c.subject, c.email)
                /\ uses' = [uses EXCEPT ![c.id] = @ + 1]
  /\ Len(persons') <= MaxPersons
  /\ requests' = Pruned(requests)
  /\ UNCHANGED <<callbacks, made, otps, setupVars>>

(* Mutant: linking reads the code and leaves it in the cache.              *)
LinkKeepsCode(p, c) ==
  /\ LET linked == {q \in People : persons[q].oidc = c.subject} IN
       /\ Fresh(c) /\ (linked = {p} \/ (linked = {} /\ persons[p].oidc = None))
       /\ persons' = [persons EXCEPT ![p].oidc = c.subject]
       /\ uses' = [uses EXCEPT ![c.id] = @ + 1]
  /\ UNCHANGED <<requests, callbacks, codes, made, otps, setupVars>>

(* POST /me/link-provider takes the code too, and links its identity to    *)
(* the account that asks, unless one of the two is linked otherwise.       *)
Link(p, c) ==
  /\ codes' = codes \ {c}
  /\ LET linked == {q \in People : persons[q].oidc = c.subject} IN
       IF Fresh(c) /\ (linked = {p} \/ (linked = {} /\ persons[p].oidc = None))
       THEN /\ persons' = [persons EXCEPT ![p].oidc = c.subject]
            /\ uses' = [uses EXCEPT ![c.id] = @ + 1]
       ELSE UNCHANGED <<persons, uses>>
  /\ UNCHANGED <<requests, callbacks, made, otps, setupVars>>

(* DELETE /me/link-provider: with a password only.  google_id stays in the *)
(* row, and no sign-in reads it.                                           *)
Unlink(p) ==
  /\ persons[p].password /\ persons[p].oidc # None
  /\ persons' = [persons EXCEPT ![p].oidc = None]
  /\ UNCHANGED <<flowVars, otps, setupVars>>

-----------------------------------------------------------------------------
(* One-time passwords                                                      *)

RecentFailed(e) ==
  {i \in DOMAIN otps : otps[i].email = e /\ otps[i].age = 0
                       /\ ~otps[i].used /\ otps[i].attempts >= OtpAttempts}

Valid(e) ==
  {i \in DOMAIN otps : otps[i].email = e /\ Fresh(otps[i])
                       /\ ~otps[i].used /\ otps[i].attempts < OtpAttempts}

(* POST /otp/request: for an unknown address it says yes and does nothing. *)
OtpRequest(e) ==
  /\ Len(otps) < MaxCodes
  /\ AddressTaken(e)
  /\ Cardinality(RecentFailed(e)) < OtpFailed
  /\ otps' = Append(otps, [email |-> e, age |-> 0, attempts |-> 0, used |-> FALSE,
                           signIns |-> 0, wrong |-> 0])
  /\ UNCHANGED <<persons, flowVars, setupVars>>

(* POST /otp/verify with the code g, or (0) with a wrong one: the codes of *)
(* the address are tried from the newest on, each counting the attempt,    *)
(* until one matches.  An address that nobody has any more gets an account.*)
OtpVerify(e, g) ==
  /\ Valid(e) # {}
  /\ g \in Valid(e) \cup {0}
  /\ otps' = [i \in DOMAIN otps |->
       IF i \notin Valid(e) \/ i < g THEN otps[i]
       ELSE [otps[i] EXCEPT !.attempts = @ + 1,
                            !.used = (i = g),
                            !.signIns = IF i = g THEN @ + 1 ELSE @,
                            !.wrong = IF i = g THEN @ ELSE @ + 1]]
  /\ persons' = IF g = 0 \/ AddressTaken(e) THEN persons
                ELSE Append(persons, [email |-> e, oidc |-> None, password |-> FALSE])
  /\ Len(persons') <= MaxPersons
  /\ UNCHANGED <<flowVars, setupVars>>

-----------------------------------------------------------------------------
(* Setup.  The settings are written one by one: into the session, into     *)
(* memory, and then committed, with what the session held before.  What an *)
(* administrator writes over them later (PATCH /platform/settings takes    *)
(* any key) is not modelled.                                               *)

Restarted ==
  /\ requests' = {} /\ callbacks' = {} /\ codes' = {}
  /\ settings' = stored'
  /\ life' = life + 1

(* platform.setup_complete is written first and platform.operator_id after *)
(* it, if there is an operator op; each commit may fail and the process    *)
(* may stop between the two.                                               *)
Half == [complete |-> TRUE, operator |-> 0]
Done(op) == [complete |-> TRUE, operator |-> op]

(* Mutant: the operator is written before the setup is complete.           *)
WriteOperatorFirst(op, account) ==
  /\ persons' = IF op = 0 THEN persons ELSE Append(persons, account)
  /\ \/ /\ settings' = [complete |-> TRUE, operator |-> op]
        /\ stored' = settings'
        /\ UNCHANGED <<requests, callbacks, codes, life>>
     \/ /\ stored' = [complete |-> FALSE, operator |-> op]
        /\ Restarted
  /\ operators' = operators \cup ({stored'.operator} \ {0})
  /\ UNCHANGED <<made, uses, otps>>

WriteSetup(op, account) ==
  /\ \/ /\ settings' = Half
        /\ UNCHANGED <<persons, stored, requests, callbacks, codes, life>>
     \/ /\ persons' = IF op = 0 THEN persons ELSE Append(persons, account)
        /\ \/ /\ settings' = Done(op)
              /\ stored' \in {Half, Done(op)}
              /\ UNCHANGED <<requests, callbacks, codes, life>>
           \/ /\ stored' = Half
              /\ Restarted
  /\ operators' = operators \cup ({settings'.operator, stored'.operator} \ {0})
  /\ UNCHANGED <<made, uses, otps>>

(* The wizard's other settings are written before, and the first of them   *)
(* to be committed takes the operator's account along.  If a later one     *)
(* fails, or setup_complete itself, the account stays without a setup.     *)
SettingFails(account) ==
  /\ persons' = Append(persons, account)
  /\ settings' \in {settings, Half}
  /\ UNCHANGED <<flowVars, otps, stored, operators, life>>

CanSetUp(e) == ~settings.complete /\ Len(persons) < MaxPersons /\ ~AddressTaken(e)
OperatorAccount(e, pw) == [email |-> e, oidc |-> None, password |-> pw]

(* POST /setup/complete with an operator, and without one.  In that case   *)
(* the setup token is kept for the first sign-in to become the operator,   *)
(* but as a secret, and Token looks for it among the plain settings: no    *)
(* sign-in ever is promoted.                                               *)
SetupOperator(e, pw) ==
  /\ CanSetUp(e)
  /\ \/ WriteSetup(Len(persons) + 1, OperatorAccount(e, pw))
     \/ SettingFails(OperatorAccount(e, pw))

SetupWithout ==
  /\ ~settings.complete
  /\ WriteSetup(0, [email |-> None, oidc |-> None, password |-> FALSE])

-----------------------------------------------------------------------------
(* Five or ten minutes pass; Origin restarts                               *)

Tick(n) ==
  /\ requests' = {Aged(r, n) : r \in requests}
  /\ codes' = {Aged(c, n) : c \in codes}
  /\ otps' = [i \in DOMAIN otps |-> Aged(otps[i], n)]
  /\ UNCHANGED <<persons, callbacks, made, uses, setupVars>>

Restart ==
  /\ UNCHANGED <<persons, made, uses, otps, stored, operators>>
  /\ Restarted

SignInNext ==
  \/ \E e \in Emails \cup {None} : Register(e)
  \/ \E pw \in BOOLEAN, e \in Emails \cup {None} : SetupOperator(e, pw)
  \/ Authorize \/ SetupWithout \/ Restart \/ \E n \in 1..2 : Tick(n)
  \/ \E r \in requests : CallbackBegins(r)
  \/ \E r \in callbacks : CallbackEnds(r)
  \/ \E c \in codes : Token(c) \/ \E p \in People : Link(p, c)
  \/ \E p \in People : Unlink(p)
  \/ \E e \in Emails : OtpRequest(e) \/ \E g \in 0..MaxCodes : OtpVerify(e, g)

-----------------------------------------------------------------------------
(* Properties                                                              *)

(* However an authorization code and a one-time password are presented,    *)
(* to the token endpoint, to link an identity, again after a failure or a  *)
(* restart: each is good for one session, and a one-time password is tried *)
(* no more often than it may be.                                           *)
OneSessionPerCode ==
  /\ \A c \in DOMAIN uses : uses[c] <= 1
  /\ \A i \in DOMAIN otps : otps[i].signIns <= 1 /\ otps[i].wrong <= OtpAttempts

(* The platform has one operator in its life: no failed commit and no      *)
(* restart in the middle of a setup lets a second setup make another one.  *)
OneOperator == Cardinality(operators) <= 1
=============================================================================
