---------------------------- MODULE GrantsProofs ---------------------------
(***************************************************************************)
(* Proofs about SignIn and Grants, for any people, addresses, rows and     *)
(* operations: the platform has one operator, a code is good for one       *)
(* session, what was revoked stays revoked, and the claims of an invite    *)
(* are counted.                                                            *)
(***************************************************************************)
EXTENDS Grants, FiniteSetTheorems, TLAPS

(* Until a setup is complete, in memory and in the database, nobody has    *)
(* been the operator.                                                      *)
SetupInv ==
  /\ ~settings.complete => operators = {} /\ ~stored.complete /\ settings.operator = 0
  /\ ~stored.complete => operators = {} /\ stored.operator = 0
  /\ \E op : operators \subseteq {op}

LEMMA WriteSetupKeepsSetupInv ==
  ASSUME SetupInv, ~settings.complete, NEW op, NEW account, WriteSetup(op, account)
  PROVE  SetupInv'
<1>1. operators = {} /\ ~stored.complete /\ stored.operator = 0
  BY DEF SetupInv
<1>2. /\ Half.complete = TRUE /\ Half.operator = 0
      /\ Done(op).complete = TRUE /\ Done(op).operator = op
  BY DEF Half, Done
<1>3. operators' = operators \cup ({settings'.operator, stored'.operator} \ {0})
  BY DEF WriteSetup
<1>4. \/ settings' = Half /\ stored' = stored
      \/ settings' = Done(op) /\ stored' \in {Half, Done(op)}
      \/ stored' = Half /\ settings' = stored'
  BY DEF WriteSetup, Restarted
<1>5. operators' \subseteq {op}
  BY <1>1, <1>2, <1>3, <1>4
<1> QED BY <1>1, <1>2, <1>3, <1>4, <1>5 DEF SetupInv

LEMMA SetupUntouched ==
  ASSUME SetupInv, UNCHANGED <<stored, operators>>, settings' \in {settings, stored}
  PROVE  SetupInv'
  BY DEF SetupInv

LEMMA StepKeepsSetupInv ==
  ASSUME SetupInv, [GNext]_vars
  PROVE  SetupInv'
<1>1. ASSUME NEW pw, NEW e, SetupOperator(e, pw) PROVE SetupInv'
  <2>1. ~settings.complete
    BY <1>1 DEF SetupOperator, CanSetUp
  <2>2. CASE SettingFails(OperatorAccount(e, pw))
    BY <2>2 DEF SettingFails, Half, SetupInv
  <2> QED
    BY <1>1, <2>1, <2>2, WriteSetupKeepsSetupInv DEF SetupOperator
<1>2. CASE SetupWithout
  BY <1>2, WriteSetupKeepsSetupInv DEF SetupWithout
<1>3. CASE Restart
  BY <1>3, SetupUntouched DEF Restart, Restarted
<1>4. CASE UNCHANGED setupVars
  BY <1>4, SetupUntouched DEF setupVars
<1>5. CASE GSignIn
  <2>1. ASSUME NEW e \in Emails, OtpRequest(e) \/ \E g \in 0..MaxCodes : OtpVerify(e, g)
        PROVE  UNCHANGED setupVars
    BY <2>1 DEF OtpRequest, OtpVerify
  <2>2. ASSUME NEW c, Token(c) \/ \E p \in People : Link(p, c)
        PROVE  UNCHANGED setupVars
    BY <2>2 DEF Token, Link
  <2>3. ASSUME NEW r, CallbackBegins(r) \/ CallbackEnds(r)
        PROVE  UNCHANGED setupVars
    BY <2>3 DEF CallbackBegins, CallbackEnds
  <2>4. ASSUME NEW p, Unlink(p) PROVE UNCHANGED setupVars
    BY <2>4 DEF Unlink
  <2>5. ASSUME NEW e, Register(e) PROVE UNCHANGED setupVars
    BY <2>5 DEF Register
  <2>6. ASSUME NEW n, Tick(n) PROVE UNCHANGED setupVars
    BY <2>6 DEF Tick
  <2>7. Authorize => UNCHANGED setupVars
    BY DEF Authorize
  <2> QED BY <1>1, <1>2, <1>3, <1>4, <1>5, <2>1, <2>2, <2>3, <2>4, <2>5, <2>6, <2>7 DEF GSignIn, SignInNext
<1>6. ASSUME NEW pw, NEW e, BootstrapClaim(e, pw) PROVE SetupInv'
  BY <1>6, WriteSetupKeepsSetupInv DEF BootstrapClaim, CanSetUp
<1>7. ASSUME NEW p \in People,
             \/ \E role \in Roles, t \in Emails \cup {None}, m \in {1, 2} : CreateInvite(p, role, t, m)
             \/ \E q \in People, role \in Roles, s \in {"active", "pending_accept"} : CreateGrant(p, q, role, s)
             \/ \E g \in Ids : Claim(p, g) \/ Revoke(p, g) \/ Accept(p, g)
             \/ \E role \in Roles : UpsertReads(p, role)
      PROVE  UNCHANGED setupVars
  BY <1>7 DEF CreateInvite, CreateGrant, Claim, Revoke, Accept, UpsertReads, signInVars
<1>8. ASSUME NEW u, UpsertWrites(u) PROVE UNCHANGED setupVars
  BY <1>8 DEF UpsertWrites, signInVars
<1>9. CASE UNCHANGED vars
  BY <1>4, <1>9 DEF vars, signInVars
<1> QED BY <1>4, <1>5, <1>6, <1>7, <1>8, <1>9 DEF GNext

(* No failed commit and no restart in the middle of a setup lets a second  *)
(* setup make another operator.                                            *)
THEOREM OriginOneOperator == Spec => []OneOperator
<1>1. GInit => SetupInv
  BY DEF GInit, Init, SetupInv
<1>2. SetupInv => OneOperator
  <2> SUFFICES ASSUME SetupInv PROVE OneOperator
    OBVIOUS
  <2>1. PICK op : operators \subseteq {op}
    BY DEF SetupInv
  <2>2. IsFiniteSet({op}) /\ Cardinality({op}) = 1
    BY FS_Singleton
  <2>3. Cardinality(operators) <= Cardinality({op})
    BY <2>1, <2>2, FS_Subset
  <2> QED BY <2>2, <2>3 DEF OneOperator
<1> QED BY <1>1, <1>2, StepKeepsSetupInv, PTL DEF Spec

-----------------------------------------------------------------------------
(* Codes and one-time passwords.                                           *)

Code == [id : Nat, subject : Subjects, email : Emails, age : 0..2]
Otp == [email : Emails, age : 0..2, attempts : Nat, used : BOOLEAN, signIns : Nat, wrong : Nat]

(* A code in the cache is one that was made and was good for nothing yet,  *)
(* and no two codes share an id.                                           *)
CodeInv ==
  /\ made.codes \in 0..MaxCodes
  /\ DOMAIN made = {"requests", "codes"}
  /\ uses \in [1..MaxCodes -> {0, 1}]
  /\ \A i \in 1..MaxCodes : i > made.codes => uses[i] = 0
  /\ codes \subseteq Code
  /\ \A c \in codes : c.id \in 1..made.codes /\ uses[c.id] = 0
  /\ \A c, d \in codes : c.id = d.id => c = d

(* A one-time password signs in when it is used up, and every wrong guess  *)
(* is an attempt.                                                          *)
Counted(o) ==
  /\ o.signIns <= 1
  /\ ~o.used => o.signIns = 0
  /\ o.wrong <= o.attempts
  /\ o.attempts <= OtpAttempts

OtpInv ==
  /\ otps \in Seq(Otp)
  /\ \A i \in DOMAIN otps : Counted(otps[i])

(* What a step may do to the cache of codes: drop some, add a new one, let *)
(* them age, or take one out and use it.                                   *)
Drops == codes' \subseteq codes /\ UNCHANGED <<made, uses>>

Makes(c) ==
  /\ made.codes < MaxCodes /\ c \in Code /\ c.id = made.codes + 1
  /\ made'.codes = made.codes + 1 /\ DOMAIN made' = DOMAIN made
  /\ codes' \subseteq codes \cup {c}
  /\ UNCHANGED uses

Ages(n) ==
  /\ n \in Nat
  /\ codes' = {Aged(c, n) : c \in codes}
  /\ UNCHANGED <<made, uses>>

Uses(c) ==
  /\ c \in codes
  /\ codes' \subseteq codes \ {c}
  /\ uses' = [uses EXCEPT ![c.id] = @ + 1]
  /\ UNCHANGED made

CodeStep == Drops \/ (\E c : Makes(c)) \/ (\E n : Ages(n)) \/ (\E c : Uses(c))

LEMMA PrunedSubset == \A cache : Pruned(cache) \subseteq cache
  BY DEF Pruned

LEMMA AgedCode ==
  ASSUME NEW c \in Code, NEW n \in Nat
  PROVE  Aged(c, n) \in Code /\ Aged(c, n).id = c.id
  BY DEF Aged, Code

LEMMA AgedOtp ==
  ASSUME NEW o \in Otp, NEW n \in Nat
  PROVE  /\ Aged(o, n) \in Otp /\ Aged(o, n).used = o.used /\ Aged(o, n).signIns = o.signIns
         /\ Aged(o, n).wrong = o.wrong /\ Aged(o, n).attempts = o.attempts
  BY DEF Aged, Otp

LEMMA StepKeepsCodeInv ==
  ASSUME CodeInv, CodeStep
  PROVE  CodeInv'
<1>1. CASE Drops
  BY <1>1 DEF Drops, CodeInv
<1>2. ASSUME NEW c, Makes(c) PROVE CodeInv'
  <2>1. made'.codes \in 0..MaxCodes /\ DOMAIN made' = {"requests", "codes"}
    BY <1>2, SignInAssumption DEF Makes, CodeInv
  <2>2. codes' \subseteq Code /\ \A d \in codes' : d \in codes \/ d = c
    BY <1>2 DEF Makes, CodeInv
  <2>3. \A d \in codes : d.id \in 1..made.codes
    BY DEF CodeInv
  <2>4. \A d \in codes' : d.id \in 1..made'.codes /\ uses'[d.id] = 0
    BY <1>2, <2>2, SignInAssumption DEF Makes, CodeInv
  <2>5. \A d, e \in codes' : d.id = e.id => d = e
    BY <1>2, <2>2, <2>3 DEF Makes, CodeInv
  <2> QED BY <1>2, <2>1, <2>2, <2>4, <2>5, SignInAssumption DEF Makes, CodeInv
<1>3. ASSUME NEW n, Ages(n) PROVE CodeInv'
  <2>1. \A d \in codes' : \E c \in codes : d = Aged(c, n) /\ d \in Code /\ d.id = c.id
    BY <1>3, AgedCode DEF Ages, CodeInv
  <2> QED BY <1>3, <2>1 DEF Ages, CodeInv
<1>4. ASSUME NEW c, Uses(c) PROVE CodeInv'
  <2>1. c.id \in 1..made.codes /\ c.id \in 1..MaxCodes /\ uses[c.id] = 0
    BY <1>4, SignInAssumption DEF Uses, CodeInv
  <2>2. \A i \in 1..MaxCodes : uses'[i] = IF i = c.id THEN 1 ELSE uses[i]
    BY <1>4, <2>1 DEF Uses, CodeInv
  <2>3. \A d \in codes' : d \in codes /\ d.id # c.id
    BY <1>4 DEF Uses, CodeInv
  <2>4. uses' \in [1..MaxCodes -> {0, 1}]
    BY <1>4, <2>2 DEF Uses, CodeInv
  <2> QED BY <1>4, <2>1, <2>2, <2>3, <2>4, SignInAssumption DEF Uses, CodeInv
<1> QED BY <1>1, <1>2, <1>3, <1>4 DEF CodeStep

LEMMA OtpRequestKeepsOtpInv ==
  ASSUME OtpInv, NEW e \in Emails, OtpRequest(e)
  PROVE  OtpInv'
<1> DEFINE o == [email |-> e, age |-> 0, attempts |-> 0, used |-> FALSE, signIns |-> 0, wrong |-> 0]
<1>1. o \in Otp /\ Counted(o)
  BY SignInAssumption DEF Otp, Counted
<1>2. otps' = Append(otps, o) /\ otps \in Seq(Otp)
  BY DEF OtpRequest, OtpInv
<1> HIDE DEF o
<1>3. otps' \in Seq(Otp)
  BY <1>1, <1>2
<1>4. \A i \in DOMAIN otps' : \/ i \in DOMAIN otps /\ otps'[i] = otps[i]
                              \/ otps'[i] = o
  BY <1>1, <1>2
<1> QED BY <1>1, <1>3, <1>4 DEF OtpInv

LEMMA OtpVerifyKeepsOtpInv ==
  ASSUME OtpInv, NEW e \in Emails, NEW g \in 0..MaxCodes, OtpVerify(e, g)
  PROVE  OtpInv'
<1> DEFINE tried(i) == [otps[i] EXCEPT !.attempts = @ + 1, !.used = (i = g),
                                       !.signIns = IF i = g THEN @ + 1 ELSE @,
                                       !.wrong = IF i = g THEN @ ELSE @ + 1]
<1>1. otps' = [i \in DOMAIN otps |-> IF i \notin Valid(e) \/ i < g THEN otps[i] ELSE tried(i)]
  BY DEF OtpVerify
<1>2. otps \in Seq(Otp) /\ DOMAIN otps = 1..Len(otps)
  BY DEF OtpInv
<1>3. ASSUME NEW i \in Valid(e)
      PROVE  tried(i) \in Otp /\ Counted(tried(i))
  <2>1. /\ i \in DOMAIN otps /\ otps[i] \in Otp /\ ~otps[i].used
        /\ otps[i].attempts < OtpAttempts
    BY <1>2 DEF Valid
  <2>2. otps[i].signIns = 0 /\ otps[i].wrong <= otps[i].attempts
    BY <2>1 DEF OtpInv, Counted
  <2> DEFINE o == otps[i]
  <2>o. o \in Otp /\ ~o.used /\ o.attempts < OtpAttempts /\ o.signIns = 0 /\ o.wrong <= o.attempts
    BY <2>1, <2>2
  <2>3. CASE i = g
    <3>1. tried(i) = [o EXCEPT !.attempts = @ + 1, !.used = TRUE, !.signIns = @ + 1]
      BY <2>1, <2>3 DEF Otp
    <3> HIDE DEF tried, o
    <3>a. tried(i) = [email |-> o.email, age |-> o.age, attempts |-> o.attempts + 1,
                      used |-> TRUE, signIns |-> o.signIns + 1, wrong |-> o.wrong]
      BY <2>o, <3>1 DEF Otp
    <3>2. tried(i) \in Otp
      BY <2>o, <3>a DEF Otp
    <3>3. /\ tried(i).attempts = o.attempts + 1 /\ tried(i).used /\ tried(i).signIns = 1
          /\ tried(i).wrong = o.wrong
      BY <2>o, <3>1 DEF Otp
    <3> QED BY <2>o, <3>2, <3>3, SignInAssumption DEF Otp, Counted
  <2>4. CASE i # g
    <3>1. tried(i) = [o EXCEPT !.attempts = @ + 1, !.used = FALSE, !.wrong = @ + 1]
      BY <2>1, <2>4 DEF Otp
    <3> HIDE DEF tried, o
    <3>a. tried(i) = [email |-> o.email, age |-> o.age, attempts |-> o.attempts + 1,
                      used |-> FALSE, signIns |-> o.signIns, wrong |-> o.wrong + 1]
      BY <2>o, <3>1 DEF Otp
    <3>2. tried(i) \in Otp
      BY <2>o, <3>a DEF Otp
    <3>3. /\ tried(i).attempts = o.attempts + 1 /\ tried(i).signIns = 0
          /\ tried(i).wrong = o.wrong + 1
      BY <2>o, <3>1 DEF Otp
    <3> QED BY <2>o, <3>2, <3>3, SignInAssumption DEF Otp, Counted
  <2> QED BY <2>3, <2>4
<1> HIDE DEF tried
<1>4. DOMAIN otps' = 1..Len(otps)
  BY <1>1, <1>2
<1>5. \A i \in DOMAIN otps' : otps'[i] = otps[i] \/ (i \in Valid(e) /\ otps'[i] = tried(i))
  BY <1>1, <1>4, <1>2
<1>6. \A i \in 1..Len(otps) : otps'[i] \in Otp
  BY <1>2, <1>3, <1>4, <1>5
<1>7. otps' \in Seq(Otp)
  BY <1>1, <1>2, <1>6
<1> QED BY <1>2, <1>3, <1>4, <1>5, <1>7 DEF OtpInv

LEMMA AgesKeepsOtpInv ==
  ASSUME OtpInv, NEW n \in Nat, otps' = [i \in DOMAIN otps |-> Aged(otps[i], n)]
  PROVE  OtpInv'
<1>1. otps \in Seq(Otp) /\ DOMAIN otps = 1..Len(otps)
  BY DEF OtpInv
<1>2. \A i \in DOMAIN otps :
        /\ otps'[i] \in Otp /\ otps'[i].used = otps[i].used /\ otps'[i].signIns = otps[i].signIns
        /\ otps'[i].wrong = otps[i].wrong /\ otps'[i].attempts = otps[i].attempts
  BY <1>1, AgedOtp
<1>3. otps' \in Seq(Otp) /\ DOMAIN otps' = DOMAIN otps
  BY <1>1, <1>2
<1> QED BY <1>2, <1>3 DEF OtpInv, Counted

LEMMA StepKeepsCodesAndOtps ==
  ASSUME CodeInv, OtpInv, [GNext]_vars
  PROVE  CodeInv' /\ OtpInv'
<1> DEFINE Goal == CodeInv' /\ OtpInv'
<1>a. CodeStep /\ UNCHANGED otps => Goal
  BY StepKeepsCodeInv DEF OtpInv
<1>b. Drops => CodeStep
  BY DEF CodeStep
<1>c. UNCHANGED <<codes, made, uses>> => Drops
  BY DEF Drops
<1>1. ASSUME NEW op, NEW account, WriteSetup(op, account) PROVE Drops
  BY <1>1 DEF WriteSetup, Restarted, Drops
<1>2. ASSUME NEW pw, NEW e, SetupOperator(e, pw) PROVE Goal
  <2>1. Drops /\ UNCHANGED otps
    BY <1>1, <1>2 DEF SetupOperator, WriteSetup, SettingFails, flowVars, Drops
  <2> QED BY <1>a, <1>b, <2>1
<1>3. CASE SetupWithout
  <2>1. Drops /\ UNCHANGED otps
    BY <1>1, <1>3 DEF SetupWithout, WriteSetup
  <2> QED BY <1>a, <1>b, <2>1
<1>4. CASE Restart
  <2>1. Drops /\ UNCHANGED otps
    BY <1>4 DEF Restart, Restarted, Drops
  <2> QED BY <1>a, <1>b, <2>1
<1>5. CASE Authorize
  <2>1. codes' \subseteq codes /\ made'.codes = made.codes /\ DOMAIN made' = DOMAIN made
        /\ UNCHANGED <<uses, otps>>
    BY <1>5, PrunedSubset DEF Authorize, CodeInv
  <2> QED BY <2>1 DEF CodeInv, OtpInv
<1>6. ASSUME NEW r, CallbackEnds(r) PROVE Goal
  <2>1. CASE UNCHANGED codes /\ UNCHANGED made
    BY <1>6, <1>a, <1>b, <1>c, <2>1 DEF CallbackEnds
  <2>2. ASSUME NEW s \in Subjects, NEW e \in Emails, made.codes < MaxCodes,
               made' = [made EXCEPT !.codes = @ + 1],
               codes' = Pruned(Pruned(codes) \cup
                          {[id |-> made.codes + 1, subject |-> s, email |-> e, age |-> 0]})
        PROVE  \E c : Makes(c)
    <3> DEFINE c == [id |-> made.codes + 1, subject |-> s, email |-> e, age |-> 0]
    <3>1. c \in Code /\ c.id = made.codes + 1
      BY SignInAssumption DEF Code, CodeInv
    <3>2. codes' \subseteq codes \cup {c}
      BY <2>2, PrunedSubset
    <3>3. made'.codes = made.codes + 1 /\ DOMAIN made' = DOMAIN made
      BY <2>2 DEF CodeInv
    <3>4. UNCHANGED uses
      BY <1>6 DEF CallbackEnds
    <3> HIDE DEF c
    <3> QED BY <2>2, <3>1, <3>2, <3>3, <3>4 DEF Makes
  <2> QED BY <1>6, <1>a, <2>1, <2>2 DEF CallbackEnds, CodeStep
<1>7. ASSUME NEW c \in codes, Token(c) PROVE Goal
  <2>1. CASE codes' = Pruned(codes) /\ UNCHANGED uses
    BY <1>7, <1>a, <1>b, <2>1, PrunedSubset DEF Token, Drops
  <2>2. CASE codes' = Pruned(codes) \ {c} /\ (UNCHANGED uses \/ uses' = [uses EXCEPT ![c.id] = @ + 1])
    <3>1. Drops \/ Uses(c)
      BY <1>7, <2>2, PrunedSubset DEF Token, Drops, Uses
    <3> QED BY <1>7, <1>a, <3>1 DEF Token, CodeStep
  <2> QED BY <1>7, <2>1, <2>2 DEF Token
<1>8. ASSUME NEW c \in codes, NEW p, Link(p, c) PROVE Goal
  <2>1. Drops \/ Uses(c)
    BY <1>8 DEF Link, Drops, Uses
  <2> QED BY <1>8, <1>a, <2>1 DEF Link, CodeStep
<1>9. ASSUME NEW n \in 1..2, Tick(n) PROVE Goal
  <2>1. n \in Nat /\ Ages(n)
    BY <1>9 DEF Tick, Ages
  <2>2. CodeInv'
    BY <2>1, StepKeepsCodeInv DEF CodeStep
  <2> QED BY <1>9, <2>1, <2>2, AgesKeepsOtpInv DEF Tick
<1>10. ASSUME NEW e \in Emails, OtpRequest(e) PROVE Goal
  BY <1>10, <1>b, <1>c, OtpRequestKeepsOtpInv, StepKeepsCodeInv DEF OtpRequest, flowVars
<1>11. ASSUME NEW e \in Emails, NEW g \in 0..MaxCodes, OtpVerify(e, g) PROVE Goal
  BY <1>11, <1>b, <1>c, OtpVerifyKeepsOtpInv, StepKeepsCodeInv DEF OtpVerify, flowVars
<1>12. CASE UNCHANGED <<codes, made, uses, otps>>
  BY <1>12, <1>a, <1>b, <1>c
<1>13. ASSUME NEW p, Unlink(p) PROVE UNCHANGED <<codes, made, uses, otps>>
  BY <1>13 DEF Unlink, flowVars
<1>14. ASSUME NEW e, Register(e) PROVE UNCHANGED <<codes, made, uses, otps>>
  BY <1>14 DEF Register, flowVars
<1>15. ASSUME NEW r, CallbackBegins(r) PROVE UNCHANGED <<codes, made, uses, otps>>
  BY <1>15 DEF CallbackBegins
<1>16. CASE GSignIn
  BY <1>2, <1>3, <1>4, <1>5, <1>6, <1>7, <1>8, <1>9, <1>10, <1>11, <1>12, <1>13, <1>14, <1>15, <1>16
     DEF GSignIn, SignInNext
<1>17. ASSUME NEW pw, NEW e, BootstrapClaim(e, pw) PROVE Goal
  <2>1. Drops /\ UNCHANGED otps
    BY <1>1, <1>17 DEF BootstrapClaim, WriteSetup
  <2> QED BY <1>a, <1>b, <2>1
<1>18. ASSUME NEW p \in People,
              \/ \E role \in Roles, t \in Emails \cup {None}, m \in {1, 2} : CreateInvite(p, role, t, m)
              \/ \E q \in People, role \in Roles, s \in {"active", "pending_accept"} : CreateGrant(p, q, role, s)
              \/ \E g \in Ids : Claim(p, g) \/ Revoke(p, g) \/ Accept(p, g)
              \/ \E role \in Roles : UpsertReads(p, role)
       PROVE  UNCHANGED <<codes, made, uses, otps>>
  BY <1>18 DEF CreateInvite, CreateGrant, Claim, Revoke, Accept, UpsertReads, signInVars, flowVars
<1>19. ASSUME NEW u, UpsertWrites(u) PROVE UNCHANGED <<codes, made, uses, otps>>
  BY <1>19 DEF UpsertWrites, signInVars, flowVars
<1>20. UNCHANGED vars => UNCHANGED <<codes, made, uses, otps>>
  BY DEF vars, signInVars, flowVars
<1> QED BY <1>12, <1>16, <1>17, <1>18, <1>19, <1>20 DEF GNext

(* However an authorization code or a one-time password is presented, it   *)
(* is good for one session, and a one-time password is tried no more often *)
(* than it may be.                                                         *)
THEOREM OriginOneSessionPerCode == Spec => []OneSessionPerCode
<1>1. GInit => CodeInv /\ OtpInv
  <2> SUFFICES ASSUME GInit PROVE CodeInv /\ OtpInv
    OBVIOUS
  <2>1. /\ codes = {} /\ made = [requests |-> 0, codes |-> 0] /\ otps = <<>>
        /\ uses = [c \in 1..MaxCodes |-> 0]
    BY DEF GInit, Init
  <2>2. CodeInv
    BY <2>1, SignInAssumption DEF CodeInv
  <2>3. otps \in Seq(Otp) /\ DOMAIN otps = {}
    BY <2>1
  <2> QED BY <2>2, <2>3 DEF OtpInv
<1>2. CodeInv /\ OtpInv => OneSessionPerCode
  <2> SUFFICES ASSUME CodeInv, OtpInv PROVE OneSessionPerCode
    OBVIOUS
  <2>1. \A c \in DOMAIN uses : uses[c] <= 1
    BY DEF CodeInv
  <2>2. ASSUME NEW i \in DOMAIN otps PROVE otps[i].signIns <= 1 /\ otps[i].wrong <= OtpAttempts
    <3>1. otps[i] \in Otp
      BY DEF OtpInv
    <3> QED BY <3>1, SignInAssumption DEF OtpInv, Otp, Counted
  <2> QED BY <2>1, <2>2 DEF OneSessionPerCode
<1> QED BY <1>1, <1>2, StepKeepsCodesAndOtps, PTL DEF Spec

-----------------------------------------------------------------------------
(* The rows of grants.                                                     *)
Columns == {"kind", "holder", "by", "role", "state", "target", "max", "claims", "from"}

RowsInv ==
  /\ \E S : grants \in Seq(S)
  /\ \A g \in Ids :
       /\ DOMAIN grants[g] = Columns
       /\ grants[g].max \in Nat /\ grants[g].claims \in Nat
       /\ grants[g].from \in 0..Len(grants)

(* The grants that claims of invite i have made, among rows gs.            *)
From(gs, i) == {g \in 1..Len(gs) : gs[g].from = i}

(* What a step of Grants may do to the rows: add one that is no claim,     *)
(* claim an invite, change a state or a role.                              *)
Adds(row) ==
  /\ grants' = Append(grants, row)
  /\ DOMAIN row = Columns /\ row.from = 0 /\ row.claims = 0 /\ row.max \in Nat

Claims(i, row) ==
  /\ grants[i].state = "active"
  /\ grants[i].claims < grants[i].max
  /\ grants' = Append([grants EXCEPT ![i] =
                        [grants[i] EXCEPT !.claims = @ + 1,
                                          !.state = IF grants[i].max = 1 THEN "revoked" ELSE @]], row)
  /\ DOMAIN row = Columns /\ row.from = i /\ row.kind = "user" /\ row.claims = 0 /\ row.max = 0

Restates(g, state) ==
  /\ state = "revoked" \/ grants[g].state = "pending_accept"
  /\ grants' = [grants EXCEPT ![g] = [grants[g] EXCEPT !.state = state]]

Rerates(g, role) == grants' = [grants EXCEPT ![g] = [grants[g] EXCEPT !.role = role]]

RowStep ==
  \/ \E row : Adds(row)
  \/ \E i \in Ids : \E row : Claims(i, row)
  \/ \E g \in Ids : \E state : Restates(g, state)
  \/ \E g, role : Rerates(g, role)
  \/ UNCHANGED grants

LEMMA UserGrantRow ==
  ASSUME NEW p, NEW by, NEW role, NEW state, NEW from
  PROVE  /\ DOMAIN UserGrant(p, by, role, state, from) = Columns
         /\ UserGrant(p, by, role, state, from).kind = "user"
         /\ UserGrant(p, by, role, state, from).from = from
         /\ UserGrant(p, by, role, state, from).claims = 0
         /\ UserGrant(p, by, role, state, from).max = 0
  BY DEF UserGrant, Columns

LEMMA AddOne ==
  ASSUME NEW S, grants \in Seq(S), NEW row, Add(<<row>>)
  PROVE  grants' = Append(grants, row)
<1>1. grants \in Seq(S \cup {row})
  OBVIOUS
<1> QED BY <1>1 DEF Add

LEMMA NextIsRowStep ==
  ASSUME RowsInv, [GNext]_vars
  PROVE  RowStep
<1>1. PICK S : grants \in Seq(S)
  BY DEF RowsInv
<1>2. ASSUME NEW p, NEW by, NEW role, Add(<<UserGrant(p, by, role, "active", 0)>>)
      PROVE  RowStep
  BY <1>1, <1>2, AddOne, UserGrantRow DEF RowStep, Adds
<1>3. ASSUME NEW p, NEW role, NEW t, NEW m \in {1, 2}, CreateInvite(p, role, t, m)
      PROVE  RowStep
  <2> DEFINE row == [kind |-> "invite", holder |-> 0, by |-> p, role |-> role, state |-> "active",
                     target |-> t, max |-> m, claims |-> 0, from |-> 0]
  <2>1. DOMAIN row = Columns /\ row.from = 0 /\ row.claims = 0 /\ row.max \in Nat
    BY DEF Columns
  <2>2. Add(<<row>>)
    BY <1>3 DEF CreateInvite
  <2> HIDE DEF row
  <2> QED BY <1>1, <2>1, <2>2, AddOne DEF RowStep, Adds
<1>4. ASSUME NEW p, NEW q, NEW role, NEW s, CreateGrant(p, q, role, s)
      PROVE  RowStep
  BY <1>1, <1>4, AddOne, UserGrantRow DEF CreateGrant, RowStep, Adds
<1>5. ASSUME NEW p, NEW i \in Ids, Claim(p, i)
      PROVE  RowStep
  <2> DEFINE row == UserGrant(p, grants[i].by, grants[i].role, "active", i)
  <2>1. grants' = Append([grants EXCEPT ![i].claims = @ + 1,
                                        ![i].state = IF grants[i].max = 1 THEN "revoked" ELSE @], row)
    BY <1>5 DEF Claim
  <2>2. [grants EXCEPT ![i].claims = @ + 1,
                       ![i].state = IF grants[i].max = 1 THEN "revoked" ELSE @]
        = [grants EXCEPT ![i] =
                        [grants[i] EXCEPT !.claims = @ + 1,
                                          !.state = IF grants[i].max = 1 THEN "revoked" ELSE @]]
    BY <1>1
  <2>3. DOMAIN row = Columns /\ row.from = i /\ row.kind = "user" /\ row.claims = 0 /\ row.max = 0
    BY UserGrantRow
  <2> HIDE DEF row
  <2>4. Claims(i, row)
    BY <1>5, <2>1, <2>2, <2>3 DEF Claim, Claims
  <2> QED BY <2>4 DEF RowStep
<1>6. ASSUME NEW p, NEW g \in Ids, Revoke(p, g)
      PROVE  RowStep
  <2>1. Restates(g, "revoked")
    BY <1>1, <1>6 DEF Revoke, Restates
  <2> QED BY <2>1 DEF RowStep
<1>7. ASSUME NEW p, NEW g \in Ids, Accept(p, g)
      PROVE  RowStep
  <2>1. Restates(g, "active")
    BY <1>1, <1>7 DEF Accept, Restates
  <2> QED BY <2>1 DEF RowStep
<1>8. ASSUME NEW u, UpsertWrites(u)
      PROVE  RowStep
  <2>1. CASE u.found = 0
    BY <1>2, <1>8, <2>1 DEF UpsertWrites
  <2>2. CASE u.found # 0
    <3>1. Rerates(u.found, u.role)
      BY <1>1, <1>8, <2>2 DEF UpsertWrites, Rerates
    <3> QED BY <3>1 DEF RowStep
  <2> QED BY <2>1, <2>2
<1>9. ASSUME NEW pw, NEW e, BootstrapClaim(e, pw)
      PROVE  RowStep
  <2>1. CASE Len(persons') > Len(persons)
    BY <1>2, <1>9, <2>1 DEF BootstrapClaim
  <2>2. CASE ~(Len(persons') > Len(persons))
    BY <1>9, <2>2 DEF BootstrapClaim, RowStep
  <2> QED BY <2>1, <2>2
<1>10. ASSUME NEW p, NEW role, UpsertReads(p, role)
       PROVE  RowStep
  BY <1>10 DEF UpsertReads, RowStep
<1>11. CASE GSignIn \/ UNCHANGED vars
  BY <1>11 DEF GSignIn, vars, grantVars, RowStep
<1> QED BY <1>3, <1>4, <1>5, <1>6, <1>7, <1>8, <1>9, <1>10, <1>11 DEF GNext

(* An appended row comes after the others.                                 *)
LEMMA Appended ==
  ASSUME NEW S, NEW gs \in Seq(S), NEW row, NEW T, T = Append(gs, row)
  PROVE  /\ T \in Seq(S \cup {row}) /\ Len(T) = Len(gs) + 1 /\ Len(gs) \in Nat
         /\ \A g \in 1..Len(gs) : T[g] = gs[g]
         /\ T[Len(gs) + 1] = row
<1>1. gs \in Seq(S \cup {row}) /\ row \in S \cup {row}
  OBVIOUS
<1> QED BY <1>1

LEMMA SequenceOf ==
  ASSUME NEW n \in Nat, NEW S, NEW T \in [1..n -> S]
  PROVE  T \in Seq(S) /\ Len(T) = n
  OBVIOUS

(* The columns of a row of which one is changed.                           *)
LEMMA ColumnChanged ==
  ASSUME NEW r, DOMAIN r = Columns, NEW c \in Columns, NEW v, NEW q, q = [r EXCEPT ![c] = v]
  PROVE  DOMAIN q = Columns /\ \A d \in Columns : q[d] = IF d = c THEN v ELSE r[d]
  OBVIOUS

LEMMA AddsEffect ==
  ASSUME RowsInv, NEW row, Adds(row)
  PROVE  /\ RowsInv'
         /\ Len(grants') = Len(grants) + 1
         /\ \A g \in Ids : grants'[g] = grants[g]
         /\ grants'[Len(grants) + 1] = row
<1>1. PICK S : grants \in Seq(S)
  BY DEF RowsInv
<1>2. /\ grants' \in Seq(S \cup {row}) /\ Len(grants') = Len(grants) + 1 /\ Len(grants) \in Nat
      /\ \A g \in 1..Len(grants) : grants'[g] = grants[g]
      /\ grants'[Len(grants) + 1] = row
  BY <1>1, Appended DEF Adds
<1>3. RowsInv'
  BY <1>2 DEF RowsInv, Ids, Adds
<1> QED BY <1>2, <1>3 DEF Ids

LEMMA ClaimsEffect ==
  ASSUME RowsInv, NEW i \in Ids, NEW row, Claims(i, row)
  PROVE  /\ RowsInv'
         /\ Len(grants') = Len(grants) + 1
         /\ \A g \in Ids \ {i} : grants'[g] = grants[g]
         /\ \A d \in Columns \ {"claims", "state"} : grants'[i][d] = grants[i][d]
         /\ grants'[i].claims = grants[i].claims + 1
         /\ grants[i].max = 1 => grants'[i].state = "revoked"
         /\ grants'[Len(grants) + 1] = row
<1>1. PICK S : grants \in Seq(S)
  BY DEF RowsInv
<1> DEFINE st == IF grants[i].max = 1 THEN "revoked" ELSE grants[i].state
           r1 == [grants[i] EXCEPT !["claims"] = grants[i].claims + 1]
           r2 == [r1 EXCEPT !["state"] = st]
           gs == [grants EXCEPT ![i] = r2]
<1>2. DOMAIN grants[i] = Columns /\ "claims" \in Columns /\ "state" \in Columns
  BY DEF RowsInv, Columns
<1>3. DOMAIN r1 = Columns /\ \A d \in Columns : r1[d] = IF d = "claims" THEN grants[i].claims + 1 ELSE grants[i][d]
  BY <1>2, ColumnChanged
<1>4. DOMAIN r2 = Columns /\ \A d \in Columns : r2[d] = IF d = "state" THEN st ELSE r1[d]
  BY <1>2, <1>3, ColumnChanged
<1>5. grants' = Append(gs, row)
  BY DEF Claims
<1> HIDE DEF r1, r2
<1>9. gs = [grants EXCEPT ![i] = r2]
  OBVIOUS
<1> HIDE DEF gs
<1>6. /\ gs \in Seq(S \cup {r2}) /\ Len(gs) = Len(grants) /\ Len(grants) \in Nat
      /\ \A g \in 1..Len(grants) : gs[g] = IF g = i THEN r2 ELSE grants[g]
  <2>1. Len(grants) \in Nat /\ grants \in [1..Len(grants) -> S]
    BY <1>1
  <2>2. /\ gs \in [1..Len(grants) -> S \cup {r2}]
        /\ \A g \in 1..Len(grants) : gs[g] = IF g = i THEN r2 ELSE grants[g]
    BY <1>9, <2>1
  <2> QED BY <2>1, <2>2, SequenceOf
<1>7. /\ grants' \in Seq((S \cup {r2}) \cup {row}) /\ Len(grants') = Len(gs) + 1
      /\ \A g \in 1..Len(gs) : grants'[g] = gs[g]
      /\ grants'[Len(gs) + 1] = row
  BY <1>5, <1>6, Appended
<1>8. /\ \A d \in Columns \ {"claims", "state"} : r2[d] = grants[i][d]
      /\ r2.claims = grants[i].claims + 1 /\ r2.state = st
  BY <1>2, <1>3, <1>4
<1>10. RowsInv'
  <2>1. r2.max = grants[i].max /\ r2.from = grants[i].from
    BY <1>8 DEF Columns
  <2>2. \A g \in 1..Len(grants) : /\ DOMAIN grants'[g] = Columns
                                  /\ grants'[g].max \in Nat /\ grants'[g].claims \in Nat
                                  /\ grants'[g].from \in 0..Len(grants)
    BY <1>4, <1>6, <1>7, <1>8, <2>1 DEF RowsInv, Ids
  <2>3. DOMAIN row = Columns /\ row.max \in Nat /\ row.claims \in Nat /\ row.from \in 1..Len(grants)
    BY DEF Claims, Ids
  <2>4. Len(grants') = Len(grants) + 1 /\ grants'[Len(grants) + 1] = row
    BY <1>6, <1>7
  <2>5. \A g \in 1..Len(grants') : g \in 1..Len(grants) \/ g = Len(grants) + 1
    BY <1>6, <2>4
  <2>6. \A g \in 1..Len(grants') : /\ DOMAIN grants'[g] = Columns
                                   /\ grants'[g].max \in Nat /\ grants'[g].claims \in Nat
                                   /\ grants'[g].from \in 0..Len(grants')
    BY <1>6, <2>2, <2>3, <2>4, <2>5
  <2> QED BY <1>7, <2>6 DEF RowsInv, Ids
<1> QED BY <1>6, <1>7, <1>8, <1>10 DEF Ids

LEMMA RestatesEffect ==
  ASSUME RowsInv, NEW g \in Ids, NEW state, Restates(g, state)
  PROVE  /\ RowsInv' /\ Len(grants') = Len(grants)
         /\ \A h \in Ids \ {g} : grants'[h] = grants[h]
         /\ \A d \in Columns \ {"state"} : grants'[g][d] = grants[g][d]
         /\ grants'[g].state = state
<1>1. PICK S : grants \in Seq(S)
  BY DEF RowsInv
<1> DEFINE r == [grants[g] EXCEPT !["state"] = state]
<1>2. DOMAIN r = Columns /\ \A d \in Columns : r[d] = IF d = "state" THEN state ELSE grants[g][d]
  BY ColumnChanged DEF RowsInv, Columns
<1>3. grants' = [grants EXCEPT ![g] = r]
  BY DEF Restates
<1> HIDE DEF r
<1>4. /\ grants' \in Seq(S \cup {r}) /\ Len(grants') = Len(grants)
      /\ \A h \in 1..Len(grants) : grants'[h] = IF h = g THEN r ELSE grants[h]
  <2>1. Len(grants) \in Nat /\ grants \in [1..Len(grants) -> S]
    BY <1>1
  <2>2. /\ grants' \in [1..Len(grants) -> S \cup {r}]
        /\ \A h \in 1..Len(grants) : grants'[h] = IF h = g THEN r ELSE grants[h]
    BY <1>3, <2>1
  <2> QED BY <2>1, <2>2, SequenceOf
<1>5. RowsInv'
  <2>1. r.max = grants[g].max /\ r.from = grants[g].from /\ r.claims = grants[g].claims
    BY <1>2 DEF Columns
  <2> QED BY <1>2, <1>4, <2>1 DEF RowsInv, Ids
<1> QED BY <1>2, <1>4, <1>5 DEF Ids, Columns

LEMMA ReratesEffect ==
  ASSUME RowsInv, NEW g, NEW role, Rerates(g, role)
  PROVE  /\ RowsInv' /\ Len(grants') = Len(grants)
         /\ \A h \in Ids : \A d \in Columns \ {"role"} : grants'[h][d] = grants[h][d]
<1>1. PICK S : grants \in Seq(S)
  BY DEF RowsInv
<1> DEFINE r == [grants[g] EXCEPT !["role"] = role]
<1>2. g \in Ids => DOMAIN r = Columns /\ \A d \in Columns : r[d] = IF d = "role" THEN role ELSE grants[g][d]
  BY ColumnChanged DEF RowsInv, Columns
<1>3. grants' = [grants EXCEPT ![g] = r]
  BY DEF Rerates
<1> HIDE DEF r
<1>4. /\ grants' \in Seq(S \cup {r}) /\ Len(grants') = Len(grants)
      /\ \A h \in 1..Len(grants) : grants'[h] = IF h = g THEN r ELSE grants[h]
  <2>1. Len(grants) \in Nat /\ grants \in [1..Len(grants) -> S]
    BY <1>1
  <2>2. /\ grants' \in [1..Len(grants) -> S \cup {r}]
        /\ \A h \in 1..Len(grants) : grants'[h] = IF h = g THEN r ELSE grants[h]
    BY <1>3, <2>1
  <2> QED BY <2>1, <2>2, SequenceOf
<1>5. RowsInv'
  <2>1. g \in Ids => r.max = grants[g].max /\ r.from = grants[g].from /\ r.claims = grants[g].claims
    BY <1>2 DEF Columns
  <2> QED BY <1>2, <1>4, <2>1 DEF RowsInv, Ids
<1> QED BY <1>2, <1>4, <1>5 DEF Ids

-----------------------------------------------------------------------------
LEMMA RowsInvariant == Spec => []RowsInv
<1>1. GInit => RowsInv
  <2> SUFFICES ASSUME GInit PROVE RowsInv
    OBVIOUS
  <2>1. grants = <<>> /\ grants \in Seq({}) /\ Len(grants) = 0
    BY DEF GInit
  <2> QED BY <2>1 DEF RowsInv, Ids
<1>2. RowsInv /\ [GNext]_vars => RowsInv'
  <2> SUFFICES ASSUME RowsInv, RowStep PROVE RowsInv'
    BY NextIsRowStep
  <2>1. CASE UNCHANGED grants
    BY <2>1 DEF RowsInv, Ids
  <2> QED BY <2>1, AddsEffect, ClaimsEffect, RestatesEffect, ReratesEffect DEF RowStep
<1> QED BY <1>1, <1>2, PTL DEF Spec

(* A grant or an invite that was revoked stays revoked, whatever the       *)
(* upserts on their threads have read before.                              *)
THEOREM GrantsRevokedIsFinal == Spec => RevokedIsFinal
<1>1. RowsInv /\ [GNext]_vars =>
        [\A g \in Ids : grants[g].state = "revoked" => grants'[g].state = "revoked"]_grants
  <2> SUFFICES ASSUME RowsInv, RowStep, NEW g \in Ids, grants[g].state = "revoked"
               PROVE  grants'[g].state = "revoked"
    BY NextIsRowStep
  <2>1. ASSUME NEW row, Adds(row) PROVE grants'[g].state = "revoked"
    BY <2>1, AddsEffect
  <2>2. ASSUME NEW i \in Ids, NEW row, Claims(i, row) PROVE grants'[g].state = "revoked"
    <3>1. i # g
      BY <2>2 DEF Claims
    <3> QED BY <2>2, <3>1, ClaimsEffect
  <2>3. ASSUME NEW h \in Ids, NEW state, Restates(h, state) PROVE grants'[g].state = "revoked"
    <3>1. h = g => state = "revoked"
      BY <2>3 DEF Restates
    <3> QED BY <2>3, <3>1, RestatesEffect
  <2>4. ASSUME NEW h, NEW role, Rerates(h, role) PROVE grants'[g].state = "revoked"
    BY <2>4, ReratesEffect DEF Columns
  <2> QED BY <2>1, <2>2, <2>3, <2>4 DEF RowStep
<1> QED BY <1>1, RowsInvariant, PTL DEF Spec, RevokedIsFinal

-----------------------------------------------------------------------------
(* The claims of an invite.                                                *)
LEMMA FromFinite ==
  ASSUME RowsInv, NEW i
  PROVE  IsFiniteSet(From(grants, i)) /\ Cardinality(From(grants, i)) \in Nat
<1>1. Len(grants) \in Nat
  BY DEF RowsInv
<1>2. IsFiniteSet(1..Len(grants))
  BY <1>1, FS_Interval
<1>3. From(grants, i) \subseteq 1..Len(grants)
  BY DEF From
<1> QED BY <1>2, <1>3, FS_Subset, FS_CardinalityType

ClaimsInv ==
  \A i \in Ids : grants[i].kind = "invite" =>
    /\ grants[i].claims = Cardinality(From(grants, i))
    /\ grants[i].claims <= grants[i].max
    /\ grants[i].max = 1 /\ grants[i].claims = 1 => grants[i].state = "revoked"

LEMMA StepKeepsClaims ==
  ASSUME RowsInv, ClaimsInv, [GNext]_vars
  PROVE  ClaimsInv'
<1>1. RowStep
  BY NextIsRowStep
<1>2. Len(grants) \in Nat
  BY DEF RowsInv
<1>3. ASSUME NEW row, Adds(row) PROVE ClaimsInv'
  <2>1. /\ Len(grants') = Len(grants) + 1
        /\ \A g \in Ids : grants'[g] = grants[g]
        /\ grants'[Len(grants) + 1] = row
    BY <1>3, AddsEffect
  <2>2. \A i \in Ids : From(grants', i) = From(grants, i)
    BY <1>2, <1>3, <2>1 DEF From, Ids, Adds
  <2>3. From(grants', Len(grants) + 1) = {}
    BY <1>2, <1>3, <2>1 DEF From, RowsInv, Ids, Adds
  <2>4. Cardinality({}) = 0
    BY FS_EmptySet
  <2>5. row.claims = 0 /\ row.max \in Nat
    BY <1>3 DEF Adds
  <2>6. ASSUME NEW i \in Ids', grants'[i].kind = "invite"
        PROVE  /\ grants'[i].claims = Cardinality(From(grants', i))
               /\ grants'[i].claims <= grants'[i].max
               /\ grants'[i].max = 1 /\ grants'[i].claims = 1 => grants'[i].state = "revoked"
    <3>1. CASE i \in Ids
      BY <2>1, <2>2, <2>6, <3>1 DEF ClaimsInv
    <3>2. CASE i = Len(grants) + 1
      <4>1. grants'[i] = row /\ Cardinality(From(grants', i)) = 0
        BY <2>1, <2>3, <2>4, <3>2, Zenon
      <4>2. row.claims = 0 /\ row.claims <= row.max /\ row.claims # 1
        BY <2>5
      <4> QED BY <4>1, <4>2, Zenon
    <3>3. i \in Ids \/ i = Len(grants) + 1
      BY <1>2, <2>1 DEF Ids
    <3> QED BY <3>1, <3>2, <3>3
  <2> QED BY <2>6 DEF ClaimsInv
<1>4. ASSUME NEW j \in Ids, NEW row, Claims(j, row) PROVE ClaimsInv'
  <2>1. /\ Len(grants') = Len(grants) + 1
        /\ \A g \in Ids \ {j} : grants'[g] = grants[g]
        /\ \A d \in Columns \ {"claims", "state"} : grants'[j][d] = grants[j][d]
        /\ grants'[j].claims = grants[j].claims + 1
        /\ grants[j].max = 1 => grants'[j].state = "revoked"
        /\ grants'[Len(grants) + 1] = row
    BY <1>4, ClaimsEffect
  <2>2. grants'[j].from = grants[j].from /\ grants'[j].max = grants[j].max /\ grants'[j].kind = grants[j].kind
    BY <2>1 DEF Columns
  <2>3. \A i \in Ids \ {j} : From(grants', i) = From(grants, i)
    BY <1>2, <1>4, <2>1, <2>2 DEF From, Ids, Claims
  <2>4. From(grants', j) = From(grants, j) \cup {Len(grants) + 1} /\ Len(grants) + 1 \notin From(grants, j)
    BY <1>2, <1>4, <2>1, <2>2 DEF From, Ids, Claims
  <2>5. Cardinality(From(grants', j)) = Cardinality(From(grants, j)) + 1
    BY <2>4, FromFinite, FS_AddElement
  <2>6. row.kind # "invite" /\ grants[j].claims < grants[j].max
    BY <1>4 DEF Claims
  <2>7. ASSUME NEW i \in Ids', grants'[i].kind = "invite"
        PROVE  /\ grants'[i].claims = Cardinality(From(grants', i))
               /\ grants'[i].claims <= grants'[i].max
               /\ grants'[i].max = 1 /\ grants'[i].claims = 1 => grants'[i].state = "revoked"
    <3>1. i \in Ids
      BY <1>2, <2>1, <2>6, <2>7 DEF Ids
    <3>2. CASE i = j
      BY <2>1, <2>2, <2>5, <2>6, <2>7, <3>1, <3>2 DEF ClaimsInv, RowsInv
    <3>3. CASE i # j
      BY <2>1, <2>3, <2>7, <3>1, <3>3 DEF ClaimsInv
    <3> QED BY <3>2, <3>3
  <2> QED BY <2>7 DEF ClaimsInv
<1>5. ASSUME Len(grants') = Len(grants),
             \A g \in Ids : /\ \A d \in {"kind", "from", "max", "claims"} : grants'[g][d] = grants[g][d]
                            /\ grants[g].state = "revoked" => grants'[g].state = "revoked"
      PROVE  ClaimsInv'
  <2>1. \A g \in Ids : /\ grants'[g].kind = grants[g].kind /\ grants'[g].from = grants[g].from
                       /\ grants'[g].max = grants[g].max /\ grants'[g].claims = grants[g].claims
    BY <1>5
  <2>2. \A i : From(grants', i) = From(grants, i)
    BY <1>5, <2>1 DEF From, Ids
  <2> QED BY <1>5, <2>1, <2>2 DEF ClaimsInv, Ids
<1>6. ASSUME NEW g \in Ids, NEW state, Restates(g, state) PROVE ClaimsInv'
  <2>1. grants[g].state = "revoked" => state = "revoked"
    BY <1>6 DEF Restates
  <2> QED BY <1>5, <1>6, <2>1, RestatesEffect DEF Columns
<1>7. ASSUME NEW g, NEW role, Rerates(g, role) PROVE ClaimsInv'
  BY <1>5, <1>7, ReratesEffect DEF Columns
<1>8. CASE UNCHANGED grants
  BY <1>5, <1>8
<1> QED BY <1>1, <1>3, <1>4, <1>6, <1>7, <1>8 DEF RowStep

(* As many grants as claims and no more than the invite allows, whoever    *)
(* claims, in any order with revocations and upserts.                      *)
THEOREM GrantsClaimsExact == Spec => []ClaimsExact
<1>1. GInit => ClaimsInv
  BY DEF GInit, ClaimsInv, Ids
<1>2. ClaimsInv => ClaimsExact
  BY DEF ClaimsInv, ClaimsExact, From, Ids
<1> QED BY <1>1, <1>2, RowsInvariant, StepKeepsClaims, PTL DEF Spec
=============================================================================
