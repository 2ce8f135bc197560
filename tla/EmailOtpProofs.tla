---------------------------- MODULE EmailOtpProofs ----------------------------
(***************************************************************************)
(* Proofs about EmailOtp, for every number of users, overlapping requests, *)
(* possible codes and sends, and every OTP_MAX_ATTEMPTS.                   *)
(***************************************************************************)
EXTENDS EmailOtp, FiniteSetTheorems, SequenceTheorems, TLAPS

TypeInv ==
  /\ TypeOK
  /\ \A r \in Reqs : pc[r] # "idle" => req[r].user \in Users

------------------------------------------------------------------------------
(* Rows and locals *)

LEMMA LocalsTyped == NoReq \in LocalsType
<1> QED
  BY DEF Locals, LocalsType, NoReq, Purposes

LEMMA NewTyped ==
  ASSUME NEW u \in Users, NEW purpose \in Purposes, NEW code \in Codes, NEW seen \in Nat
  PROVE  /\ NewChallenge(u, purpose, code, seen) \in ChallengeType
         /\ NewChallenge(u, purpose, code, seen).status = "active"
         /\ NewChallenge(u, purpose, code, seen).attempts = 0
         /\ NewChallenge(u, purpose, code, seen).guesses = 0
         /\ NewChallenge(u, purpose, code, seen).accepts = 0
         /\ NewChallenge(u, purpose, code, seen).seen = seen
         /\ NewChallenge(u, purpose, code, seen).user = u
         /\ NewChallenge(u, purpose, code, seen).purpose = purpose
<1> QED
  BY DEF NewChallenge, ChallengeType

\* What an update leaves of a row.
Kept(old, new) ==
  /\ new.user = old.user /\ new.purpose = old.purpose /\ new.seen = old.seen
  /\ new.status = "active" => old.status = "active"
  /\ old.status = "consumed" => new.status = "consumed"

LEMMA UpdateTyped ==
  ASSUME NEW row \in ChallengeType
  PROVE  /\ \A status \in {"expired", "consumed"} :
              /\ WithStatus(row, status) \in ChallengeType
              /\ WithStatus(row, status).status = status
              /\ WithStatus(row, status).user = row.user
              /\ WithStatus(row, status).purpose = row.purpose
              /\ WithStatus(row, status).seen = row.seen
              /\ WithStatus(row, status).attempts = row.attempts
              /\ WithStatus(row, status).guesses = row.guesses
              /\ WithStatus(row, status).accepts = row.accepts
         /\ Guessed(row) \in ChallengeType /\ Kept(row, Guessed(row))
         /\ Guessed(row).attempts = row.attempts + 1 /\ Guessed(row).guesses = row.guesses + 1
         /\ Guessed(row).accepts = row.accepts /\ Guessed(row).status = row.status
         /\ Accepted(row) \in ChallengeType /\ Kept(row, Accepted(row))
         /\ Accepted(row).attempts = row.attempts /\ Accepted(row).guesses = row.guesses
         /\ Accepted(row).accepts = row.accepts + 1 /\ Accepted(row).status = "consumed"
<1>1. row.attempts \in Nat /\ row.guesses \in Nat /\ row.accepts \in Nat
  BY DEF ChallengeType
<1>2. ASSUME NEW status \in {"expired", "consumed"}
      PROVE  /\ WithStatus(row, status) \in ChallengeType
             /\ WithStatus(row, status).status = status
             /\ WithStatus(row, status).user = row.user
             /\ WithStatus(row, status).purpose = row.purpose
             /\ WithStatus(row, status).seen = row.seen
             /\ WithStatus(row, status).attempts = row.attempts
             /\ WithStatus(row, status).guesses = row.guesses
             /\ WithStatus(row, status).accepts = row.accepts
  BY DEF ChallengeType, WithStatus
<1>3. Guessed(row) \in ChallengeType /\ Accepted(row) \in ChallengeType
  <2>1. \A n \in Nat : [row EXCEPT !.attempts = n] \in ChallengeType
    BY DEF ChallengeType
  <2>2. \A rec \in ChallengeType, n \in Nat : [rec EXCEPT !.guesses = n] \in ChallengeType
    BY DEF ChallengeType
  <2>3. \A rec \in ChallengeType, n \in Nat : [rec EXCEPT !.accepts = n] \in ChallengeType
    BY DEF ChallengeType
  <2>4. [row EXCEPT !.status = "consumed"] \in ChallengeType
    BY DEF ChallengeType
  <2>5. /\ row.attempts + 1 \in Nat
        /\ [row EXCEPT !.attempts = row.attempts + 1].guesses + 1 \in Nat
        /\ [row EXCEPT !.status = "consumed"].accepts + 1 \in Nat
    BY <1>1 DEF ChallengeType
  <2> QED
    BY <2>1, <2>2, <2>3, <2>4, <2>5 DEF Guessed, Accepted
<1>4. /\ Guessed(row).attempts = row.attempts + 1 /\ Guessed(row).guesses = row.guesses + 1
      /\ Guessed(row).accepts = row.accepts /\ Guessed(row).status = row.status
      /\ Kept(row, Guessed(row))
  BY DEF ChallengeType, Guessed, Kept
<1>5. /\ Accepted(row).attempts = row.attempts /\ Accepted(row).guesses = row.guesses
      /\ Accepted(row).accepts = row.accepts + 1 /\ Accepted(row).status = "consumed"
      /\ Kept(row, Accepted(row))
  BY DEF ChallengeType, Accepted, Kept
<1> QED
  BY <1>2, <1>3, <1>4, <1>5

\* Writing row i by an update that keeps the type.
LEMMA WriteTyped ==
  ASSUME challenge \in Seq(ChallengeType), NEW i \in DOMAIN challenge, NEW row \in ChallengeType,
         challenge' = [challenge EXCEPT ![i] = row]
  PROVE  /\ challenge' \in Seq(ChallengeType) /\ DOMAIN challenge' = DOMAIN challenge
         /\ Len(challenge') = Len(challenge)
         /\ challenge'[i] = row
         /\ \A j \in DOMAIN challenge : j # i => challenge'[j] = challenge[j]
<1>1. DOMAIN challenge = 1..Len(challenge)
  BY LenProperties
<1> QED
  BY <1>1, ExceptSeq, LenProperties

------------------------------------------------------------------------------
(* Types *)

\* Moving a slot keeps the types when what its new await needs is there.
LEMMA MoveTyped ==
  ASSUME TypeInv, NEW r \in Reqs, NEW l \in Labels, NEW locals \in LocalsType,
         pc' = [pc EXCEPT ![r] = l], req' = [req EXCEPT ![r] = locals],
         account' \in [Users -> {"none", "unverified", "verified"}],
         challenge' \in Seq(ChallengeType), DOMAIN challenge \subseteq DOMAIN challenge',
         faults' \in 0..MaxFaults,
         l # "idle" => locals.user \in Users,
         l \in {"count_guess", "consume"} => locals.row \in DOMAIN challenge
  PROVE  TypeInv'
<1>1. \A q \in Reqs : /\ pc'[q] = IF q = r THEN l ELSE pc[q]
                      /\ req'[q] = IF q = r THEN locals ELSE req[q]
  BY DEF TypeInv, TypeOK
<1>2. pc' \in [Reqs -> Labels] /\ req' \in [Reqs -> LocalsType]
  BY DEF TypeInv, TypeOK
<1> QED
  BY <1>1, <1>2 DEF TypeInv, TypeOK

LEMMA FinishTyped ==
  ASSUME TypeInv, NEW r \in Reqs, Finish(r),
         account' \in [Users -> {"none", "unverified", "verified"}],
         challenge' \in Seq(ChallengeType), DOMAIN challenge \subseteq DOMAIN challenge',
         faults' \in 0..MaxFaults
  PROVE  TypeInv'
<1>1. NoReq \in LocalsType /\ "idle" \in Labels
  BY LocalsTyped DEF Labels
<1>2. pc' = [pc EXCEPT ![r] = "idle"] /\ req' = [req EXCEPT ![r] = NoReq]
  BY DEF Finish
<1> QED
  BY <1>1, <1>2, MoveTyped

\* The table after each write.
LEMMA TableStep ==
  ASSUME TypeInv, [Next]_vars
  PROVE  /\ challenge' \in Seq(ChallengeType)
         /\ DOMAIN challenge \subseteq DOMAIN challenge'
         /\ \A i \in DOMAIN challenge : Kept(challenge[i], challenge'[i])
<1> DEFINE Goal == /\ challenge' \in Seq(ChallengeType)
                   /\ DOMAIN challenge \subseteq DOMAIN challenge'
                   /\ \A i \in DOMAIN challenge : Kept(challenge[i], challenge'[i])
<1>1. /\ challenge \in Seq(ChallengeType) /\ DOMAIN challenge = 1..Len(challenge)
      /\ Len(challenge) \in Nat /\ \A i \in DOMAIN challenge : challenge[i] \in ChallengeType
  BY LenProperties DEF TypeInv, TypeOK
<1>2. CASE UNCHANGED challenge
  BY <1>1, <1>2 DEF Kept
<1>3. ASSUME NEW i \in DOMAIN challenge, NEW row \in ChallengeType, Kept(challenge[i], row),
             challenge' = [challenge EXCEPT ![i] = row]
      PROVE  Goal
  <2>1. \A j \in DOMAIN challenge : Kept(challenge[j], challenge[j])
    BY DEF Kept
  <2>2. /\ challenge' \in Seq(ChallengeType) /\ DOMAIN challenge' = DOMAIN challenge
        /\ challenge'[i] = row
        /\ \A j \in DOMAIN challenge : j # i => challenge'[j] = challenge[j]
    BY <1>1, <1>3, WriteTyped
  <2> QED
    BY <1>3, <2>1, <2>2
<1>4. ASSUME NEW r \in Reqs, InvalidateActiveChallenges(r)
      PROVE  Goal
  <2> DEFINE new(i) == IF i \in Invalidated(req[r].user, req[r].purpose)
                       THEN WithStatus(challenge[i], "consumed") ELSE challenge[i]
  <2>1. challenge' = [i \in 1..Len(challenge) |-> new(i)]
    BY <1>1, <1>4 DEF InvalidateActiveChallenges
  <2>2. ASSUME NEW i \in 1..Len(challenge)
        PROVE  new(i) \in ChallengeType /\ Kept(challenge[i], new(i))
    <3>1. challenge[i] \in ChallengeType
      BY <1>1
    <3> QED
      BY <3>1, UpdateTyped DEF Kept
  <2> HIDE DEF new
  <2>3. challenge' \in Seq(ChallengeType)
    BY <1>1, <2>1, <2>2, SeqDef
  <2> QED
    BY <1>1, <2>1, <2>2, <2>3
<1>5. ASSUME NEW r \in Reqs, CreateChallenge(r)
      PROVE  Goal
  <2>1. PICK code \in Codes :
          challenge' = Append(challenge,
                              NewChallenge(req[r].user, req[r].purpose, code, req[r].seen))
    BY <1>5 DEF CreateChallenge
  <2>2. /\ req[r].user \in Users /\ req[r].purpose \in Purposes /\ req[r].seen \in Nat
    BY <1>5 DEF CreateChallenge, TypeInv, TypeOK, LocalsType
  <2> DEFINE row == NewChallenge(req[r].user, req[r].purpose, code, req[r].seen)
  <2>3. row \in ChallengeType
    BY <2>2, NewTyped
  <2> HIDE DEF row
  <2>4. challenge' = Append(challenge, row)
    BY <2>1 DEF row
  <2>5. /\ challenge' \in Seq(ChallengeType) /\ Len(challenge') = Len(challenge) + 1
        /\ \A i \in 1..Len(challenge) : challenge'[i] = challenge[i]
    BY <1>1, <2>3, <2>4
  <2>6. DOMAIN challenge' = 1..(Len(challenge) + 1)
    BY <2>5, LenProperties
  <2> QED
    BY <1>1, <2>5, <2>6 DEF Kept
<1>6. ASSUME NEW r \in Reqs, IncrementAttempts(r)
      PROVE  Goal
  <2>1. req[r].row \in DOMAIN challenge
    BY <1>6 DEF IncrementAttempts, TypeInv, TypeOK
  <2>2. challenge' = [challenge EXCEPT ![req[r].row] = Guessed(challenge[req[r].row])]
    BY <1>6 DEF IncrementAttempts
  <2> QED
    BY <1>1, <1>3, <2>1, <2>2, UpdateTyped
<1>7. ASSUME NEW r \in Reqs, ConsumeChallenge(r)
      PROVE  Goal
  <2>1. req[r].row \in DOMAIN challenge
    BY <1>7 DEF ConsumeChallenge, TypeInv, TypeOK
  <2>2. challenge' = [challenge EXCEPT ![req[r].row] = Accepted(challenge[req[r].row])]
    BY <1>7 DEF ConsumeChallenge
  <2> QED
    BY <1>1, <1>3, <2>1, <2>2, UpdateTyped
<1>8. ASSUME NEW i \in DOMAIN challenge, Expire(i)
      PROVE  Goal
  <2>1. /\ challenge' = [challenge EXCEPT ![i] = WithStatus(challenge[i], "expired")]
        /\ challenge[i].status = "active"
    BY <1>8 DEF Expire
  <2>2. /\ WithStatus(challenge[i], "expired") \in ChallengeType
        /\ Kept(challenge[i], WithStatus(challenge[i], "expired"))
    BY <1>1, <2>1, UpdateTyped DEF Kept
  <2> QED
    BY <1>3, <2>1, <2>2
<1>9. ASSUME NEW r \in Reqs, Arrive(r)
      PROVE  Goal
  BY <1>2, <1>9 DEF Arrive, Signup, ResendEmailVerification, SendSigninMfaCode, VerifyEmail,
     VerifySigninMfa, VerifyOtp
<1>10. ASSUME NEW r \in Reqs, Serve(r)
       PROVE  Goal
  BY <1>2, <1>4, <1>5, <1>6, <1>7, <1>10 DEF Serve, CreateUser, SetEmailVerified, IssueTokenPair
<1>11. ASSUME NEW r \in Reqs, DbThrows(r)
       PROVE  Goal
  BY <1>2, <1>11 DEF DbThrows
<1>12. ASSUME NEW u \in Users, SignInWithGoogle(u)
       PROVE  Goal
  BY <1>2, <1>12 DEF SignInWithGoogle
<1>13. CASE Restart \/ UNCHANGED vars
  BY <1>2, <1>13 DEF Restart, vars
<1>14. CASE Next
  BY <1>8, <1>9, <1>10, <1>11, <1>12, <1>13, <1>14 DEF Next
<1>15. Goal
  BY <1>13, <1>14
<1> QED
  BY <1>15 DEF Goal

LEMMA TypeStep == TypeInv /\ [Next]_vars => TypeInv'
<1> SUFFICES ASSUME TypeInv, [Next]_vars
             PROVE  TypeInv'
  OBVIOUS
<1>1. challenge' \in Seq(ChallengeType) /\ DOMAIN challenge \subseteq DOMAIN challenge'
  BY TableStep
<1>2. /\ account \in [Users -> {"none", "unverified", "verified"}] /\ faults \in 0..MaxFaults
      /\ \A r \in Reqs : /\ pc[r] \in Labels /\ req[r] \in LocalsType
                         /\ req = [req EXCEPT ![r] = req[r]]
                         /\ pc[r] # "idle" => req[r].user \in Users
  BY DEF TypeInv, TypeOK
<1>3. CASE UNCHANGED vars
  BY <1>3 DEF vars, TypeInv, TypeOK
<1>4. ASSUME NEW r \in Reqs, NEW u \in Users, NEW purpose \in Purposes, NEW code \in Codes,
             VerifyOtp(r, u, purpose, code)
      PROVE  TypeInv'
  <2>1. PICK i \in LatestActive(u, purpose) :
          /\ Begin(r, IF challenge[i].code = code THEN "consume" ELSE "count_guess",
                   Locals(u, purpose, i, account[u] = "verified", 0))
          /\ UNCHANGED <<account, challenge, faults>>
    BY <1>4 DEF VerifyOtp
  <2>2. i \in DOMAIN challenge /\ i \in Nat
    BY LenProperties DEF LatestActive, TypeInv, TypeOK
  <2> DEFINE locals == Locals(u, purpose, i, account[u] = "verified", 0)
  <2> DEFINE l == IF challenge[i].code = code THEN "consume" ELSE "count_guess"
  <2>3. locals \in LocalsType /\ locals.user = u /\ locals.row = i
    BY <2>2 DEF Locals, LocalsType
  <2>4. l \in Labels
    BY DEF Labels, DbAwaits
  <2>5. pc' = [pc EXCEPT ![r] = l] /\ req' = [req EXCEPT ![r] = locals]
    BY <2>1 DEF Begin
  <2>6. UNCHANGED <<account, challenge, faults>>
    BY <2>1
  <2> HIDE DEF l, locals
  <2>7. /\ account' \in [Users -> {"none", "unverified", "verified"}] /\ faults' \in 0..MaxFaults
        /\ locals.user \in Users /\ locals.row \in DOMAIN challenge
    BY <1>2, <2>2, <2>3, <2>6
  <2> QED
    BY <1>1, <2>3, <2>4, <2>5, <2>7, MoveTyped
<1>5. ASSUME NEW r \in Reqs, NEW l \in Labels, NEW locals \in LocalsType,
             Begin(r, l, locals), locals.user \in Users, l \notin {"count_guess", "consume"},
             UNCHANGED <<account, challenge, faults>>
      PROVE  TypeInv'
  <2>1. pc' = [pc EXCEPT ![r] = l] /\ req' = [req EXCEPT ![r] = locals]
    BY <1>5 DEF Begin
  <2>2. account' \in [Users -> {"none", "unverified", "verified"}] /\ faults' \in 0..MaxFaults
    BY <1>2, <1>5
  <2> QED
    BY <1>1, <1>5, <2>1, <2>2, MoveTyped
<1>6. ASSUME NEW r \in Reqs, Arrive(r)
      PROVE  TypeInv'
  <2>1. PICK u \in Users :
          \/ Signup(r, u) \/ ResendEmailVerification(r, u) \/ SendSigninMfaCode(r, u)
          \/ \E code \in Codes : VerifyEmail(r, u, code) \/ VerifySigninMfa(r, u, code)
    BY <1>6 DEF Arrive
  <2>2. \A purpose \in Purposes : /\ Locals(u, purpose, 0, FALSE, 0) \in LocalsType
                                  /\ Locals(u, purpose, 0, FALSE, 0).user = u
    BY DEF Locals, LocalsType
  <2>3. "create_user" \in Labels /\ "invalidate" \in Labels
    BY DEF Labels, DbAwaits
  <2>4. CASE Signup(r, u) \/ ResendEmailVerification(r, u) \/ SendSigninMfaCode(r, u)
    <3>1. PICK l \in {"create_user", "invalidate"}, purpose \in Purposes :
            /\ Begin(r, l, Locals(u, purpose, 0, FALSE, 0))
            /\ UNCHANGED <<account, challenge, faults>>
      BY <2>4 DEF Signup, ResendEmailVerification, SendSigninMfaCode, Purposes
    <3> DEFINE locals == Locals(u, purpose, 0, FALSE, 0)
    <3>2. locals \in LocalsType /\ locals.user \in Users /\ Begin(r, l, locals)
      BY <2>2, <3>1
    <3> HIDE DEF locals
    <3> QED
      BY <1>5, <2>3, <3>1, <3>2
  <2>5. CASE \E code \in Codes : VerifyEmail(r, u, code) \/ VerifySigninMfa(r, u, code)
    BY <1>4, <2>5 DEF VerifyEmail, VerifySigninMfa, Purposes
  <2> QED
    BY <2>1, <2>4, <2>5
<1>7. ASSUME NEW r \in Reqs, NEW l \in Labels, Goto(r, l), pc[r] # "idle",
             l \notin {"count_guess", "consume"}, UNCHANGED faults,
             account' \in [Users -> {"none", "unverified", "verified"}]
      PROVE  TypeInv'
  BY <1>1, <1>2, <1>7, MoveTyped DEF Goto
<1>8. ASSUME NEW r \in Reqs, Serve(r)
      PROVE  TypeInv'
  <2> USE DEF Labels, DbAwaits
  <2>1. CASE CreateUser(r)
    <3>1. CASE account[req[r].user] = "none"
      BY <1>2, <1>7, <2>1, <3>1 DEF CreateUser
    <3>2. CASE account[req[r].user] # "none"
      BY <1>1, <1>2, <2>1, <3>2, FinishTyped DEF CreateUser
    <3> QED
      BY <3>1, <3>2
  <2>2. CASE InvalidateActiveChallenges(r)
    <3>1. /\ req[r].user \in Users /\ req[r].purpose \in Purposes /\ Len(challenge) \in Nat
      BY <1>2, <2>2, LenProperties DEF InvalidateActiveChallenges, LocalsType, TypeInv, TypeOK
    <3> DEFINE locals == Locals(req[r].user, req[r].purpose, 0, FALSE, Len(challenge))
    <3>2. locals \in LocalsType /\ locals.user \in Users
      BY <3>1 DEF Locals, LocalsType
    <3>3. /\ pc' = [pc EXCEPT ![r] = "create"] /\ req' = [req EXCEPT ![r] = locals]
          /\ UNCHANGED <<account, faults>>
      BY <2>2 DEF InvalidateActiveChallenges
    <3> HIDE DEF locals
    <3> QED
      BY <1>1, <1>2, <3>2, <3>3, MoveTyped
  <2>3. CASE CreateChallenge(r)
    BY <1>1, <1>2, <2>3, FinishTyped DEF CreateChallenge
  <2>4. CASE IncrementAttempts(r)
    BY <1>1, <1>2, <2>4, FinishTyped DEF IncrementAttempts
  <2>5. CASE ConsumeChallenge(r)
    <3>1. AfterConsume(req[r].purpose, req[r].verified) \in Labels \ {"count_guess", "consume"}
      BY DEF AfterConsume
    <3> QED
      BY <1>2, <1>7, <2>5, <3>1 DEF ConsumeChallenge
  <2>6. CASE SetEmailVerified(r)
    BY <1>2, <1>7, <2>6 DEF SetEmailVerified
  <2>7. CASE IssueTokenPair(r)
    BY <1>1, <1>2, <2>7, FinishTyped DEF IssueTokenPair
  <2> QED
    BY <1>8, <2>1, <2>2, <2>3, <2>4, <2>5, <2>6, <2>7 DEF Serve
<1>9. ASSUME faults < MaxFaults, faults' = faults + 1
      PROVE  faults' \in 0..MaxFaults
  BY <1>2, <1>9, OtpAssumption
<1>10. ASSUME NEW r \in Reqs, DbThrows(r)
       PROVE  TypeInv'
  BY <1>1, <1>2, <1>9, <1>10, FinishTyped DEF DbThrows
<1>11. CASE Restart
  <2>1. /\ pc' \in [Reqs -> Labels] /\ req' \in [Reqs -> LocalsType]
        /\ \A r \in Reqs : pc'[r] = "idle"
    BY <1>11, LocalsTyped DEF Restart, Labels
  <2> QED
    BY <1>1, <1>2, <1>9, <1>11, <2>1 DEF Restart, TypeInv, TypeOK
<1>12. ASSUME NEW u \in Users, SignInWithGoogle(u)
       PROVE  TypeInv'
  BY <1>2, <1>12 DEF SignInWithGoogle, TypeInv, TypeOK
<1>13. ASSUME NEW i \in DOMAIN challenge, Expire(i)
       PROVE  TypeInv'
  BY <1>1, <1>13 DEF Expire, TypeInv, TypeOK
<1> QED
  BY <1>3, <1>6, <1>8, <1>10, <1>11, <1>12, <1>13 DEF Next

LEMMA TypeInit == Init => TypeInv
<1>1. <<>> \in Seq(ChallengeType)
  OBVIOUS
<1> QED
  BY <1>1, LocalsTyped, OtpAssumption DEF Init, TypeInv, TypeOK, Labels

\* Users, challenges and the locals of every request keep their types, and a verification
\* always writes to a row that exists.
THEOREM TypeCorrect == Spec => []TypeOK
<1>1. TypeInv => TypeOK
  BY DEF TypeInv
<1> QED
  BY <1>1, TypeInit, TypeStep, PTL DEF Spec

------------------------------------------------------------------------------
(* Verified before tokens *)

\* A slot whose next tokens need no further write.
Cleared(r) ==
  \/ pc[r] = "issue"
  \/ pc[r] = "consume" /\ AfterConsume(req[r].purpose, req[r].verified) = "issue"

VerifyInv == \A r \in Reqs : Cleared(r) => account[req[r].user] = "verified"

\* Nothing makes a user unverified again.
LEMMA VerifiedStays ==
  ASSUME TypeInv, [Next]_vars, NEW u \in Users, account[u] = "verified"
  PROVE  account'[u] = "verified"
<1> USE DEF TypeInv, TypeOK
<1>1. CASE UNCHANGED account
  BY <1>1
<1>2. ASSUME NEW r \in Reqs, Serve(r)
      PROVE  account'[u] = "verified"
  BY <1>2 DEF Serve, CreateUser, InvalidateActiveChallenges, CreateChallenge, IncrementAttempts,
     ConsumeChallenge, SetEmailVerified, IssueTokenPair
<1>3. ASSUME NEW r \in Reqs, Arrive(r) \/ DbThrows(r)
      PROVE  UNCHANGED account
  BY <1>3 DEF Arrive, Signup, ResendEmailVerification, SendSigninMfaCode, VerifyEmail,
     VerifySigninMfa, VerifyOtp, DbThrows
<1>4. ASSUME NEW v \in Users, SignInWithGoogle(v)
      PROVE  account'[u] = "verified"
  BY <1>4 DEF SignInWithGoogle
<1>5. CASE Restart \/ (\E i \in DOMAIN challenge : Expire(i)) \/ UNCHANGED vars
  BY <1>5 DEF Restart, Expire, vars
<1> QED
  BY <1>1, <1>2, <1>3, <1>4, <1>5 DEF Next

LEMMA VerifyStep == TypeInv /\ VerifyInv /\ [Next]_vars => VerifyInv'
<1> SUFFICES ASSUME TypeInv, VerifyInv, [Next]_vars
             PROVE  VerifyInv'
  OBVIOUS
<1>1. \A u \in Users : account[u] = "verified" => account'[u] = "verified"
  BY VerifiedStays
<1>2. pc \in [Reqs -> Labels] /\ req \in [Reqs -> LocalsType]
      /\ \A r \in Reqs : pc[r] # "idle" => req[r].user \in Users
  BY DEF TypeInv, TypeOK
<1>3. ASSUME NEW q \in Reqs, UNCHANGED <<pc[q], req[q]>> \/ pc'[q] = "idle"
      PROVE  Cleared(q)' => account'[req'[q].user] = "verified"
  BY <1>1, <1>2, <1>3 DEF VerifyInv, Cleared
<1>4. ASSUME NEW r \in Reqs, \A q \in Reqs : q # r => UNCHANGED <<pc[q], req[q]>>,
             Cleared(r)' => account'[req'[r].user] = "verified"
      PROVE  VerifyInv'
  BY <1>3, <1>4 DEF VerifyInv
<1>5. CASE UNCHANGED vars
  BY <1>3, <1>5 DEF vars, VerifyInv
<1>6. ASSUME NEW r \in Reqs, NEW l, NEW locals, Begin(r, l, locals)
      PROVE  /\ \A q \in Reqs : q # r => UNCHANGED <<pc[q], req[q]>>
             /\ pc'[r] = l /\ req'[r] = locals
  BY <1>2, <1>6 DEF Begin
<1>7. ASSUME NEW r \in Reqs, NEW l, Goto(r, l)
      PROVE  /\ \A q \in Reqs : q # r => UNCHANGED <<pc[q], req[q]>>
             /\ pc'[r] = l /\ req'[r] = req[r]
  BY <1>2, <1>7 DEF Goto
<1>8. ASSUME NEW r \in Reqs, Finish(r)
      PROVE  VerifyInv'
  <2>1. /\ \A q \in Reqs : q # r => UNCHANGED <<pc[q], req[q]>>
        /\ pc'[r] = "idle"
    BY <1>2, <1>8 DEF Finish
  <2> QED
    BY <1>3, <1>4, <2>1
<1>9. ASSUME NEW r \in Reqs, NEW u \in Users, NEW purpose \in Purposes, NEW code \in Codes,
             VerifyOtp(r, u, purpose, code), purpose = "SIGNUP_VERIFY" \/ account[u] = "verified"
      PROVE  VerifyInv'
  <2>1. PICK i \in LatestActive(u, purpose) :
          /\ Begin(r, IF challenge[i].code = code THEN "consume" ELSE "count_guess",
                   Locals(u, purpose, i, account[u] = "verified", 0))
          /\ UNCHANGED account
    BY <1>9 DEF VerifyOtp
  <2> DEFINE locals == Locals(u, purpose, i, account[u] = "verified", 0)
  <2>2. locals.user = u /\ locals.purpose = purpose /\ locals.verified = (account[u] = "verified")
    BY DEF Locals
  <2>3. AfterConsume(locals.purpose, locals.verified) = "issue" => account[u] = "verified"
    BY <1>9, <2>2 DEF AfterConsume
  <2> HIDE DEF locals
  <2>4. /\ \A q \in Reqs : q # r => UNCHANGED <<pc[q], req[q]>>
        /\ pc'[r] \in {"consume", "count_guess"} /\ req'[r] = locals
    BY <1>6, <2>1 DEF locals
  <2>5. Cleared(r)' => account'[req'[r].user] = "verified"
    BY <2>1, <2>2, <2>3, <2>4 DEF Cleared
  <2> QED
    BY <1>4, <2>4, <2>5
<1>10. ASSUME NEW r \in Reqs, Arrive(r)
       PROVE  VerifyInv'
  <2>1. PICK u \in Users :
          \/ Signup(r, u) \/ ResendEmailVerification(r, u) \/ SendSigninMfaCode(r, u)
          \/ \E code \in Codes : VerifyEmail(r, u, code) \/ VerifySigninMfa(r, u, code)
    BY <1>10 DEF Arrive
  <2>2. CASE Signup(r, u) \/ ResendEmailVerification(r, u) \/ SendSigninMfaCode(r, u)
    <3>1. PICK l \in {"create_user", "invalidate"}, purpose \in Purposes :
            Begin(r, l, Locals(u, purpose, 0, FALSE, 0))
      BY <2>2 DEF Signup, ResendEmailVerification, SendSigninMfaCode, Purposes
    <3>2. /\ \A q \in Reqs : q # r => UNCHANGED <<pc[q], req[q]>>
          /\ pc'[r] = l
      BY <1>6, <3>1
    <3>3. Cleared(r)' => account'[req'[r].user] = "verified"
      BY <3>2 DEF Cleared
    <3> QED
      BY <1>4, <3>2, <3>3
  <2>3. CASE \E code \in Codes : VerifyEmail(r, u, code) \/ VerifySigninMfa(r, u, code)
    BY <1>9, <2>3 DEF VerifyEmail, VerifySigninMfa, HoldsMfaToken, Purposes
  <2> QED
    BY <2>1, <2>2, <2>3
<1>11. ASSUME NEW r \in Reqs, NEW l \in {"invalidate", "set_verified"}, Goto(r, l)
       PROVE  VerifyInv'
  <2>1. /\ \A q \in Reqs : q # r => UNCHANGED <<pc[q], req[q]>>
        /\ pc'[r] = l
    BY <1>7, <1>11
  <2>2. Cleared(r)' => account'[req'[r].user] = "verified"
    BY <2>1 DEF Cleared
  <2> QED
    BY <1>4, <2>1, <2>2
<1>12. ASSUME NEW r \in Reqs, Goto(r, "issue"), account'[req[r].user] = "verified"
       PROVE  VerifyInv'
  BY <1>4, <1>7, <1>12 DEF Cleared
<1>13. ASSUME NEW r \in Reqs, Serve(r)
       PROVE  VerifyInv'
  <2>1. CASE CreateUser(r)
    BY <1>8, <1>11, <2>1 DEF CreateUser
  <2>2. CASE InvalidateActiveChallenges(r)
    <3>1. /\ \A q \in Reqs : q # r => UNCHANGED <<pc[q], req[q]>>
          /\ pc'[r] = "create"
      BY <1>2, <2>2 DEF InvalidateActiveChallenges
    <3>2. Cleared(r)' => account'[req'[r].user] = "verified"
      BY <3>1 DEF Cleared
    <3> QED
      BY <1>4, <3>1, <3>2
  <2>3. CASE CreateChallenge(r) \/ IncrementAttempts(r) \/ IssueTokenPair(r)
    BY <1>8, <2>3 DEF CreateChallenge, IncrementAttempts, IssueTokenPair
  <2>4. CASE ConsumeChallenge(r)
    <3>1. Goto(r, AfterConsume(req[r].purpose, req[r].verified)) /\ UNCHANGED account
      BY <2>4 DEF ConsumeChallenge
    <3>2. CASE AfterConsume(req[r].purpose, req[r].verified) = "issue"
      BY <1>12, <2>4, <3>1, <3>2 DEF ConsumeChallenge, VerifyInv, Cleared
    <3>3. CASE AfterConsume(req[r].purpose, req[r].verified) # "issue"
      BY <1>11, <3>1, <3>3 DEF AfterConsume
    <3> QED
      BY <3>2, <3>3
  <2>5. CASE SetEmailVerified(r)
    BY <1>2, <1>12, <2>5 DEF SetEmailVerified, TypeInv, TypeOK
  <2> QED
    BY <1>13, <2>1, <2>2, <2>3, <2>4, <2>5 DEF Serve
<1>14. ASSUME NEW r \in Reqs, DbThrows(r)
       PROVE  VerifyInv'
  BY <1>8, <1>14 DEF DbThrows
<1>15. CASE \/ Restart \/ \E u \in Users : SignInWithGoogle(u)
            \/ \E i \in DOMAIN challenge : Expire(i)
  <2>1. \A q \in Reqs : UNCHANGED <<pc[q], req[q]>> \/ pc'[q] = "idle"
    BY <1>15 DEF Restart, SignInWithGoogle, Expire
  <2> QED
    BY <1>3, <2>1 DEF VerifyInv
<1> QED
  BY <1>5, <1>10, <1>13, <1>14, <1>15 DEF Next

\* Whoever is issued tokens has a verified email by then, whichever handlers overlap.
THEOREM TokensNeedVerified == Spec => []VerifiedFirst
<1>1. Init => VerifyInv
  BY DEF Init, VerifyInv, Cleared
<1>2. VerifyInv => VerifiedFirst
  BY DEF VerifyInv, VerifiedFirst, Cleared
<1> QED
  BY <1>1, <1>2, TypeInit, TypeStep, VerifyStep, PTL DEF Spec

------------------------------------------------------------------------------
(* A new code replaces the older ones *)

\* The rows a send for u and purpose found, the first n, are consumed.
Replaced(rows, u, purpose, n) ==
  \A i \in DOMAIN rows :
    rows[i].user = u /\ rows[i].purpose = purpose /\ i <= n => rows[i].status = "consumed"

ReplaceInv ==
  /\ \A j \in DOMAIN challenge :
       /\ challenge[j].seen < j
       /\ Replaced(challenge, challenge[j].user, challenge[j].purpose, challenge[j].seen)
  /\ \A r \in Reqs : pc[r] = "create" =>
       /\ req[r].seen <= Len(challenge)
       /\ Replaced(challenge, req[r].user, req[r].purpose, req[r].seen)

\* Rows keep what Kept says, so what was replaced stays replaced.
LEMMA ReplaceFrame ==
  ASSUME TypeInv, ReplaceInv, [Next]_vars, DOMAIN challenge' = DOMAIN challenge,
         Len(challenge') = Len(challenge),
         \A r \in Reqs : pc'[r] = "create" => pc[r] = "create" /\ req'[r] = req[r]
  PROVE  ReplaceInv'
<1>1. \A i \in DOMAIN challenge : Kept(challenge[i], challenge'[i])
  BY TableStep
<1>2. ASSUME NEW u, NEW purpose, NEW n, Replaced(challenge, u, purpose, n)
      PROVE  Replaced(challenge', u, purpose, n)
  BY <1>1, <1>2 DEF Replaced, Kept
<1> QED
  BY <1>1, <1>2 DEF ReplaceInv, Kept

LEMMA ReplaceStep == TypeInv /\ ReplaceInv /\ [Next]_vars => ReplaceInv'
<1> SUFFICES ASSUME TypeInv, ReplaceInv, [Next]_vars
             PROVE  ReplaceInv'
  OBVIOUS
<1>1. /\ challenge \in Seq(ChallengeType) /\ DOMAIN challenge = 1..Len(challenge)
      /\ Len(challenge) \in Nat
      /\ \A i \in DOMAIN challenge : /\ challenge[i] \in ChallengeType
                                     /\ challenge[i].seen \in Nat
  <2>1. challenge \in Seq(ChallengeType)
    BY DEF TypeInv, TypeOK
  <2>2. DOMAIN challenge = 1..Len(challenge) /\ Len(challenge) \in Nat
    BY <2>1, LenProperties
  <2>3. \A i \in DOMAIN challenge : challenge[i] \in ChallengeType
    BY <2>1, <2>2
  <2>4. \A row \in ChallengeType : row.seen \in Nat
    BY DEF ChallengeType
  <2> QED
    BY <2>1, <2>2, <2>3, <2>4
<1>2. /\ pc \in [Reqs -> Labels] /\ req \in [Reqs -> LocalsType]
      /\ \A r \in Reqs : req[r].purpose \in Purposes /\ req[r].seen \in Nat
  BY DEF TypeInv, TypeOK, LocalsType
<1>3. ASSUME UNCHANGED challenge,
             \A r \in Reqs : pc'[r] = "create" => pc[r] = "create" /\ req'[r] = req[r]
      PROVE  ReplaceInv'
  BY <1>3, ReplaceFrame
<1>4. CASE UNCHANGED vars
  BY <1>3, <1>4 DEF vars
<1>5. ASSUME NEW r \in Reqs, Arrive(r)
      PROVE  ReplaceInv'
  <2>1. PICK l \in {"create_user", "invalidate", "consume", "count_guess"} :
          UNCHANGED challenge /\ \E locals : Begin(r, l, locals)
    BY <1>5 DEF Arrive, Signup, ResendEmailVerification, SendSigninMfaCode, VerifyEmail,
       VerifySigninMfa, VerifyOtp
  <2> QED
    BY <1>2, <1>3, <2>1 DEF Begin
<1>6. ASSUME NEW r \in Reqs, InvalidateActiveChallenges(r)
      PROVE  ReplaceInv'
  <2> DEFINE u == req[r].user
  <2> DEFINE purpose == req[r].purpose
  <2>1. challenge' = [i \in 1..Len(challenge) |->
                       IF i \in Invalidated(u, purpose)
                       THEN WithStatus(challenge[i], "consumed") ELSE challenge[i]]
    BY <1>1, <1>6 DEF InvalidateActiveChallenges
  <2>2. /\ DOMAIN challenge' = DOMAIN challenge
        /\ \A i \in DOMAIN challenge : Kept(challenge[i], challenge'[i])
    BY <1>1, <2>1, TableStep
  <2>3. Len(challenge') = Len(challenge)
    <3>1. challenge' \in Seq(ChallengeType)
      BY TableStep
    <3> QED
      BY <1>1, <2>2, <3>1, LenProperties
  <2>4. /\ \A q \in Reqs : q # r => pc'[q] = pc[q] /\ req'[q] = req[q]
        /\ req'[r].user = u /\ req'[r].purpose = purpose /\ req'[r].seen = Len(challenge)
    BY <1>2, <1>6 DEF InvalidateActiveChallenges, Locals
  <2> HIDE DEF u, purpose
  <2>5. ASSUME NEW i \in DOMAIN challenge, challenge[i].user = u, challenge[i].purpose = purpose
        PROVE  challenge'[i].status = "consumed"
    <3>1. i \in Invalidated(u, purpose)
      BY <2>5 DEF Invalidated
    <3> QED
      BY <1>1, <2>1, <3>1, UpdateTyped
  <2>6. \A i \in DOMAIN challenge : challenge'[i].user = u /\ challenge'[i].purpose = purpose
          => challenge'[i].status = "consumed"
    BY <2>2, <2>5 DEF Kept
  <2>7. \A v, p, n : Replaced(challenge, v, p, n) => Replaced(challenge', v, p, n)
    BY <2>2 DEF Replaced, Kept
  <2>8. Replaced(challenge', req'[r].user, req'[r].purpose, req'[r].seen)
    BY <2>2, <2>4, <2>6 DEF Replaced
  <2> QED
    BY <1>1, <2>2, <2>3, <2>4, <2>7, <2>8 DEF ReplaceInv, Kept
<1>7. ASSUME NEW r \in Reqs, CreateChallenge(r)
      PROVE  ReplaceInv'
  <2> DEFINE n == Len(challenge) + 1
  <2>1. PICK code \in Codes :
          challenge' = Append(challenge,
                              NewChallenge(req[r].user, req[r].purpose, code, req[r].seen))
    BY <1>7 DEF CreateChallenge
  <2>2. /\ req[r].user \in Users /\ pc[r] = "create"
    BY <1>7 DEF CreateChallenge, TypeInv, TypeOK
  <2> DEFINE row == NewChallenge(req[r].user, req[r].purpose, code, req[r].seen)
  <2>3. /\ row \in ChallengeType /\ row.seen = req[r].seen
        /\ row.user = req[r].user /\ row.purpose = req[r].purpose
    BY <1>2, <2>2, NewTyped
  <2>4. /\ req[r].seen <= Len(challenge)
        /\ Replaced(challenge, req[r].user, req[r].purpose, req[r].seen)
    BY <2>2 DEF ReplaceInv
  <2>5. \A q \in Reqs : pc'[q] = "create" => pc[q] = "create" /\ req'[q] = req[q]
    BY <1>2, <1>7 DEF CreateChallenge, Finish
  <2> HIDE DEF row
  <2>6. challenge' = Append(challenge, row)
    BY <2>1 DEF row
  <2>7. /\ Len(challenge') = n /\ challenge'[n] = row
        /\ \A i \in DOMAIN challenge : challenge'[i] = challenge[i]
    BY <1>1, <2>3, <2>6
  <2>8. DOMAIN challenge' = 1..n
    BY <2>7, TableStep, LenProperties
  <2>9. \A v, p, m : Replaced(challenge, v, p, m) /\ m \in Nat /\ m < n
          => Replaced(challenge', v, p, m)
    BY <1>1, <2>7, <2>8 DEF Replaced
  <2>10. Replaced(challenge', row.user, row.purpose, row.seen)
    BY <1>1, <1>2, <2>3, <2>4, <2>9
  <2>11. ASSUME NEW j \in DOMAIN challenge'
         PROVE  /\ challenge'[j].seen < j
                /\ Replaced(challenge', challenge'[j].user, challenge'[j].purpose,
                            challenge'[j].seen)
    <3>1. CASE j = n
      BY <1>1, <1>2, <2>3, <2>4, <2>7, <2>10, <3>1
    <3>2. CASE j # n
      BY <1>1, <2>7, <2>8, <2>9, <3>2 DEF ReplaceInv
    <3> QED
      BY <3>1, <3>2
  <2>12. ASSUME NEW q \in Reqs, pc'[q] = "create"
         PROVE  /\ req'[q].seen <= Len(challenge')
                /\ Replaced(challenge', req'[q].user, req'[q].purpose, req'[q].seen)
    BY <1>1, <1>2, <2>5, <2>7, <2>9, <2>12 DEF ReplaceInv
  <2> QED
    BY <2>11, <2>12 DEF ReplaceInv
<1>8. ASSUME NEW i \in DOMAIN challenge, NEW row \in ChallengeType,
             challenge' = [challenge EXCEPT ![i] = row],
             \A r \in Reqs : pc'[r] = "create" => pc[r] = "create" /\ req'[r] = req[r]
      PROVE  ReplaceInv'
  BY <1>1, <1>8, WriteTyped, ReplaceFrame
<1>9. ASSUME NEW r \in Reqs, Serve(r)
      PROVE  ReplaceInv'
  <2>1. CASE CreateUser(r) \/ SetEmailVerified(r) \/ IssueTokenPair(r)
    <3>1. PICK l \in {"invalidate", "issue", "idle"} :
            UNCHANGED challenge /\ (Goto(r, l) \/ Finish(r))
      BY <2>1 DEF CreateUser, SetEmailVerified, IssueTokenPair
    <3> QED
      BY <1>2, <1>3, <3>1 DEF Goto, Finish
  <2>2. CASE IncrementAttempts(r)
    <3>1. req[r].row \in DOMAIN challenge
      BY <2>2 DEF IncrementAttempts, TypeInv, TypeOK
    <3>2. challenge' = [challenge EXCEPT ![req[r].row] = Guessed(challenge[req[r].row])]
      BY <2>2 DEF IncrementAttempts
    <3>3. Guessed(challenge[req[r].row]) \in ChallengeType
      BY <1>1, <3>1, UpdateTyped
    <3>4. \A q \in Reqs : pc'[q] = "create" => pc[q] = "create" /\ req'[q] = req[q]
      BY <1>2, <2>2 DEF IncrementAttempts, Finish
    <3> QED
      BY <1>8, <3>1, <3>2, <3>3, <3>4
  <2>3. CASE ConsumeChallenge(r)
    <3>1. req[r].row \in DOMAIN challenge
      BY <2>3 DEF ConsumeChallenge, TypeInv, TypeOK
    <3>2. challenge' = [challenge EXCEPT ![req[r].row] = Accepted(challenge[req[r].row])]
      BY <2>3 DEF ConsumeChallenge
    <3>3. Accepted(challenge[req[r].row]) \in ChallengeType
      BY <1>1, <3>1, UpdateTyped
    <3>4. \A q \in Reqs : pc'[q] = "create" => pc[q] = "create" /\ req'[q] = req[q]
      BY <1>2, <2>3 DEF ConsumeChallenge, Goto, AfterConsume
    <3> QED
      BY <1>8, <3>1, <3>2, <3>3, <3>4
  <2> QED
    BY <1>6, <1>7, <1>9, <2>1, <2>2, <2>3 DEF Serve
<1>10. ASSUME NEW r \in Reqs, DbThrows(r)
       PROVE  ReplaceInv'
  BY <1>2, <1>3, <1>10 DEF DbThrows, Finish
<1>11. CASE Restart \/ \E u \in Users : SignInWithGoogle(u)
  BY <1>3, <1>11 DEF Restart, SignInWithGoogle
<1>12. ASSUME NEW i \in DOMAIN challenge, Expire(i)
       PROVE  ReplaceInv'
  <2>1. WithStatus(challenge[i], "expired") \in ChallengeType
    BY <1>1, UpdateTyped
  <2> QED
    BY <1>8, <1>12, <2>1 DEF Expire
<1> QED
  BY <1>4, <1>5, <1>9, <1>10, <1>11, <1>12 DEF Next

\* A code sent replaces every code that was there when its send began, whatever overlaps.
THEOREM NewestReplaces == Spec => []CodesReplaced
<1>1. Init => ReplaceInv
  BY DEF Init, ReplaceInv
<1>2. TypeInv /\ ReplaceInv => CodesReplaced
  BY DEF ReplaceInv, Replaced, CodesReplaced
<1> QED
  BY <1>1, <1>2, TypeInit, TypeStep, ReplaceStep, PTL DEF Spec

------------------------------------------------------------------------------
(* Guesses and uses are bounded *)

\* Slots about to write an answer to row i.
Pending(l, i) == {r \in Reqs : pc[r] = l /\ req[r].row = i}

GuessBound(row, n) ==
  row.attempts = row.guesses /\ row.guesses + n < MaxAttempts + Cardinality(Reqs)
AcceptBound(row, n) ==
  (row.status = "active" => row.accepts = 0) /\ row.accepts + n <= Cardinality(Reqs)

CountInv ==
  \A i \in DOMAIN challenge :
    /\ GuessBound(challenge[i], Cardinality(Pending("count_guess", i)))
    /\ AcceptBound(challenge[i], Cardinality(Pending("consume", i)))

\* An update that counts nothing and does not make a row active again.
SameCounts(old, new) ==
  /\ new.attempts = old.attempts /\ new.guesses = old.guesses /\ new.accepts = old.accepts
  /\ new.status = "active" => old.status = "active"

LEMMA ReqsFinite == IsFiniteSet(Reqs) /\ Cardinality(Reqs) \in Nat
<1> QED
  BY OtpAssumption, FS_CardinalityType

LEMMA PendingFinite ==
  ASSUME NEW l, NEW i
  PROVE  /\ IsFiniteSet(Pending(l, i)) /\ Cardinality(Pending(l, i)) \in Nat
         /\ Cardinality(Pending(l, i)) <= Cardinality(Reqs)
<1>1. Pending(l, i) \subseteq Reqs
  BY DEF Pending
<1> QED
  BY <1>1, ReqsFinite, FS_Subset, FS_CardinalityType

LEMMA PendingFiniteNext ==
  ASSUME NEW l, NEW i
  PROVE  /\ IsFiniteSet(Pending(l, i)') /\ Cardinality(Pending(l, i)') \in Nat
         /\ Cardinality(Pending(l, i)') <= Cardinality(Reqs)
<1>1. Pending(l, i)' \subseteq Reqs
  BY DEF Pending
<1> QED
  BY <1>1, ReqsFinite, FS_Subset, FS_CardinalityType

LEMMA PendingShrinks ==
  ASSUME NEW l, NEW i,
         \A r \in Reqs : pc'[r] = l /\ req'[r].row = i => pc[r] = l /\ req[r].row = i
  PROVE  Cardinality(Pending(l, i)') <= Cardinality(Pending(l, i))
<1>1. Pending(l, i)' \subseteq Pending(l, i)
  BY DEF Pending
<1> QED
  BY <1>1, PendingFinite, FS_Subset

\* The counts of one row after a step that adds no answer to it.
LEMMA RowQuiet ==
  ASSUME TypeInv, NEW i \in DOMAIN challenge, SameCounts(challenge[i], challenge'[i]),
         challenge[i] \in ChallengeType
  PROVE  /\ GuessBound(challenge[i], Cardinality(Pending("count_guess", i)))
            /\ Cardinality(Pending("count_guess", i)') <= Cardinality(Pending("count_guess", i))
            => GuessBound(challenge'[i], Cardinality(Pending("count_guess", i)'))
         /\ AcceptBound(challenge[i], Cardinality(Pending("consume", i)))
            /\ Cardinality(Pending("consume", i)') <= Cardinality(Pending("consume", i))
            => AcceptBound(challenge'[i], Cardinality(Pending("consume", i)'))
<1>1. challenge[i].guesses \in Nat /\ challenge[i].accepts \in Nat
  BY DEF ChallengeType
<1>2. \A l : Cardinality(Pending(l, i)) \in Nat /\ Cardinality(Pending(l, i)') \in Nat
  BY PendingFinite, PendingFiniteNext
<1> QED
  BY <1>1, <1>2, ReqsFinite, OtpAssumption DEF GuessBound, AcceptBound, SameCounts

LEMMA QuietStep ==
  ASSUME TypeInv, CountInv, DOMAIN challenge \subseteq DOMAIN challenge',
         \A i \in DOMAIN challenge : /\ challenge[i] \in ChallengeType
                                     /\ SameCounts(challenge[i], challenge'[i]),
         \A i \in DOMAIN challenge' \ DOMAIN challenge :
           challenge'[i].attempts = 0 /\ challenge'[i].guesses = 0 /\ challenge'[i].accepts = 0,
         \A r \in Reqs : pc'[r] \in {"count_guess", "consume"} =>
                           pc[r] = pc'[r] /\ req[r].row = req'[r].row
  PROVE  CountInv'
<1>1. ASSUME NEW i \in DOMAIN challenge
      PROVE  /\ GuessBound(challenge'[i], Cardinality(Pending("count_guess", i)'))
             /\ AcceptBound(challenge'[i], Cardinality(Pending("consume", i)'))
  <2>1. /\ Cardinality(Pending("count_guess", i)') <= Cardinality(Pending("count_guess", i))
        /\ Cardinality(Pending("consume", i)') <= Cardinality(Pending("consume", i))
    BY PendingShrinks
  <2> QED
    BY <1>1, <2>1, RowQuiet DEF CountInv
<1>2. ASSUME NEW i \in DOMAIN challenge', i \notin DOMAIN challenge
      PROVE  /\ GuessBound(challenge'[i], Cardinality(Pending("count_guess", i)'))
             /\ AcceptBound(challenge'[i], Cardinality(Pending("consume", i)'))
  <2>1. Pending("count_guess", i)' = {} /\ Pending("consume", i)' = {}
    BY <1>2 DEF Pending, TypeInv, TypeOK
  <2>2. /\ challenge'[i].attempts = 0 /\ challenge'[i].guesses = 0
        /\ challenge'[i].accepts = 0
    BY <1>2
  <2>3. Cardinality(Pending("count_guess", i)') = 0 /\ Cardinality(Pending("consume", i)') = 0
    BY <2>1, FS_EmptySet
  <2>4. MaxAttempts \in Nat /\ MaxAttempts > 0
    BY OtpAssumption
  <2> QED
    BY <2>2, <2>3, <2>4, ReqsFinite DEF GuessBound, AcceptBound
<1> QED
  BY <1>1, <1>2 DEF CountInv

\* The slots waiting to write an answer when one of them begins or finishes.
LEMMA PendingGrows ==
  ASSUME TypeInv, NEW r \in Reqs, NEW l, NEW i, pc[r] # l,
         \A q \in Reqs : q # r => pc'[q] = pc[q] /\ req'[q] = req[q]
  PROVE  ~(pc'[r] = l /\ req'[r].row = i) => Pending(l, i)' = Pending(l, i)
<1> QED
  BY DEF Pending

LEMMA PendingDrops ==
  ASSUME TypeInv, NEW r \in Reqs, NEW l, NEW i, pc[r] = l, req[r].row = i, pc'[r] # l,
         \A q \in Reqs : q # r => pc'[q] = pc[q] /\ req'[q] = req[q]
  PROVE  Cardinality(Pending(l, i)') + 1 = Cardinality(Pending(l, i))
<1>1. r \in Pending(l, i) /\ Pending(l, i)' = Pending(l, i) \ {r}
  BY DEF Pending
<1>2. Cardinality(Pending(l, i) \ {r}) = Cardinality(Pending(l, i)) - 1
  BY <1>1, PendingFinite, FS_RemoveElement
<1> QED
  BY <1>1, <1>2, PendingFinite

\* A verification found row i: it is active, and has attempts left if the code is wrong.
LEMMA FoundStep ==
  ASSUME TypeInv, CountInv, NEW r \in Reqs, NEW i \in DOMAIN challenge,
         NEW l \in {"count_guess", "consume"}, UNCHANGED challenge,
         challenge[i] \in ChallengeType,
         challenge[i].status = "active", challenge[i].attempts < MaxAttempts,
         pc[r] = "idle", pc'[r] = l, req'[r].row = i,
         \A q \in Reqs : q # r => pc'[q] = pc[q] /\ req'[q] = req[q]
  PROVE  CountInv'
<1> SUFFICES ASSUME NEW j \in DOMAIN challenge
             PROVE  /\ GuessBound(challenge[j], Cardinality(Pending("count_guess", j)'))
                    /\ AcceptBound(challenge[j], Cardinality(Pending("consume", j)'))
  BY DEF CountInv
<1>1. /\ GuessBound(challenge[j], Cardinality(Pending("count_guess", j)))
      /\ AcceptBound(challenge[j], Cardinality(Pending("consume", j)))
  BY DEF CountInv
<1>2. CASE j = i
  <2>1. challenge[i].guesses \in Nat /\ challenge[i].accepts \in Nat
    BY DEF ChallengeType
  <2>2. /\ Cardinality(Pending("count_guess", i)') \in Nat
        /\ Cardinality(Pending("count_guess", i)') <= Cardinality(Reqs)
        /\ Cardinality(Pending("consume", i)') \in Nat
        /\ Cardinality(Pending("consume", i)') <= Cardinality(Reqs)
    BY PendingFiniteNext
  <2> QED
    BY <1>1, <1>2, <2>1, <2>2, ReqsFinite, OtpAssumption DEF GuessBound, AcceptBound
<1>3. CASE j # i
  BY <1>1, <1>3, PendingGrows
<1> QED
  BY <1>2, <1>3

LEMMA CountStep == TypeInv /\ CountInv /\ [Next]_vars => CountInv'
<1> SUFFICES ASSUME TypeInv, CountInv, [Next]_vars
             PROVE  CountInv'
  OBVIOUS
<1>1. /\ challenge \in Seq(ChallengeType) /\ DOMAIN challenge = 1..Len(challenge)
      /\ Len(challenge) \in Nat /\ \A i \in DOMAIN challenge : challenge[i] \in ChallengeType
      /\ pc \in [Reqs -> Labels] /\ req \in [Reqs -> LocalsType]
  BY LenProperties DEF TypeInv, TypeOK
<1>2. ASSUME UNCHANGED challenge,
             \A r \in Reqs : pc'[r] \in {"count_guess", "consume"} =>
                               pc[r] = pc'[r] /\ req[r].row = req'[r].row
      PROVE  CountInv'
  <2>1. \A i \in DOMAIN challenge : SameCounts(challenge[i], challenge'[i])
    BY <1>2 DEF SameCounts
  <2> QED
    BY <1>1, <1>2, <2>1, QuietStep
<1>3. CASE UNCHANGED vars
  BY <1>2, <1>3 DEF vars
<1>4. ASSUME NEW r \in Reqs, Arrive(r)
      PROVE  CountInv'
  <2>1. PICK u \in Users :
          \/ Signup(r, u) \/ ResendEmailVerification(r, u) \/ SendSigninMfaCode(r, u)
          \/ \E purpose \in Purposes, code \in Codes : VerifyOtp(r, u, purpose, code)
    BY <1>4 DEF Arrive, VerifyEmail, VerifySigninMfa, Purposes
  <2>2. CASE Signup(r, u) \/ ResendEmailVerification(r, u) \/ SendSigninMfaCode(r, u)
    <3>1. /\ UNCHANGED challenge
          /\ \A q \in Reqs : q # r => pc'[q] = pc[q] /\ req'[q] = req[q]
          /\ pc'[r] \in {"create_user", "invalidate"}
      BY <1>1, <2>2 DEF Signup, ResendEmailVerification, SendSigninMfaCode, Begin
    <3> QED
      BY <1>2, <3>1
  <2>3. ASSUME NEW purpose \in Purposes, NEW code \in Codes, VerifyOtp(r, u, purpose, code)
        PROVE  CountInv'
    <3>1. PICK i \in LatestActive(u, purpose), l \in {"count_guess", "consume"} :
            /\ AttemptsLeft(challenge[i])
            /\ Begin(r, l, Locals(u, purpose, i, account[u] = "verified", 0))
            /\ UNCHANGED challenge
      BY <2>3 DEF VerifyOtp
    <3>2. i \in DOMAIN challenge /\ challenge[i].status = "active"
      BY <3>1 DEF LatestActive, Usable
    <3>3. /\ pc[r] = "idle" /\ pc'[r] = l /\ req'[r].row = i
          /\ \A q \in Reqs : q # r => pc'[q] = pc[q] /\ req'[q] = req[q]
      BY <1>1, <3>1 DEF Begin, Locals
    <3> QED
      BY <1>1, <3>1, <3>2, <3>3, FoundStep DEF AttemptsLeft
  <2> QED
    BY <2>1, <2>2, <2>3
<1>5. ASSUME NEW r \in Reqs, InvalidateActiveChallenges(r)
      PROVE  CountInv'
  <2>1. challenge' = [i \in 1..Len(challenge) |->
                       IF i \in Invalidated(req[r].user, req[r].purpose)
                       THEN WithStatus(challenge[i], "consumed") ELSE challenge[i]]
    BY <1>1, <1>5 DEF InvalidateActiveChallenges
  <2>2. \A i \in DOMAIN challenge : SameCounts(challenge[i], challenge'[i])
    BY <1>1, <2>1, UpdateTyped DEF SameCounts
  <2>3. \A q \in Reqs : pc'[q] \in {"count_guess", "consume"} =>
                          pc[q] = pc'[q] /\ req[q].row = req'[q].row
    BY <1>1, <1>5 DEF InvalidateActiveChallenges
  <2> QED
    BY <1>1, <2>1, <2>2, <2>3, QuietStep
<1>6. ASSUME NEW r \in Reqs, CreateChallenge(r)
      PROVE  CountInv'
  <2>1. PICK code \in Codes :
          challenge' = Append(challenge,
                              NewChallenge(req[r].user, req[r].purpose, code, req[r].seen))
    BY <1>6 DEF CreateChallenge
  <2>2. /\ req[r].user \in Users /\ req[r].purpose \in Purposes /\ req[r].seen \in Nat
    BY <1>6 DEF CreateChallenge, TypeInv, TypeOK, LocalsType
  <2> DEFINE row == NewChallenge(req[r].user, req[r].purpose, code, req[r].seen)
  <2>3. row \in ChallengeType /\ row.attempts = 0 /\ row.guesses = 0 /\ row.accepts = 0
    BY <2>2, NewTyped
  <2> HIDE DEF row
  <2>4. challenge' = Append(challenge, row)
    BY <2>1 DEF row
  <2>5. /\ DOMAIN challenge' = 1..(Len(challenge) + 1) /\ challenge'[Len(challenge) + 1] = row
        /\ \A i \in 1..Len(challenge) : challenge'[i] = challenge[i]
    BY <1>1, <2>3, <2>4, AppendProperties
  <2>6. \A i \in DOMAIN challenge : SameCounts(challenge[i], challenge'[i])
    BY <1>1, <2>5 DEF SameCounts
  <2>7. \A i \in DOMAIN challenge' \ DOMAIN challenge : challenge'[i] = row
    BY <1>1, <2>5
  <2>8. \A q \in Reqs : pc'[q] \in {"count_guess", "consume"} =>
                          pc[q] = pc'[q] /\ req[q].row = req'[q].row
    BY <1>1, <1>6 DEF CreateChallenge, Finish
  <2>9. DOMAIN challenge \subseteq DOMAIN challenge'
    BY <1>1, <2>5
  <2> QED
    BY <1>1, <2>3, <2>6, <2>7, <2>8, <2>9, QuietStep
<1>7. ASSUME NEW r \in Reqs, IncrementAttempts(r)
      PROVE  CountInv'
  <2>1. /\ pc[r] = "count_guess" /\ pc'[r] = "idle" /\ req[r].row \in DOMAIN challenge
        /\ challenge' = [challenge EXCEPT ![req[r].row] = Guessed(challenge[req[r].row])]
        /\ \A q \in Reqs : q # r => pc'[q] = pc[q] /\ req'[q] = req[q]
    BY <1>1, <1>7 DEF IncrementAttempts, Finish, TypeInv, TypeOK
  <2>2. PICK i \in DOMAIN challenge : i = req[r].row
    BY <2>1
  <2>3. /\ challenge'[i] = Guessed(challenge[i]) /\ DOMAIN challenge' = DOMAIN challenge
        /\ \A j \in DOMAIN challenge : j # i => challenge'[j] = challenge[j]
    BY <1>1, <2>1, <2>2, UpdateTyped, WriteTyped
  <2>4. ASSUME NEW j \in DOMAIN challenge
        PROVE  /\ GuessBound(challenge'[j], Cardinality(Pending("count_guess", j)'))
               /\ AcceptBound(challenge'[j], Cardinality(Pending("consume", j)'))
    <3>1. /\ GuessBound(challenge[j], Cardinality(Pending("count_guess", j)))
          /\ AcceptBound(challenge[j], Cardinality(Pending("consume", j)))
      BY DEF CountInv
    <3>2. Pending("consume", j)' = Pending("consume", j)
      BY <2>1, PendingGrows
    <3>3. CASE j = i
      <4>1. Cardinality(Pending("count_guess", i)') + 1 = Cardinality(Pending("count_guess", i))
        BY <2>1, <2>2, PendingDrops
      <4>2. /\ challenge'[i].attempts = challenge[i].attempts + 1
            /\ challenge'[i].guesses = challenge[i].guesses + 1
            /\ challenge'[i].accepts = challenge[i].accepts
            /\ challenge'[i].status = challenge[i].status
            /\ challenge[i].guesses \in Nat /\ challenge[i].attempts \in Nat
        BY <1>1, <2>3, UpdateTyped DEF ChallengeType
      <4>3. /\ Cardinality(Pending("count_guess", i)) \in Nat
            /\ Cardinality(Pending("count_guess", i)') \in Nat
        BY PendingFinite, PendingFiniteNext
      <4> QED
        BY <3>1, <3>2, <3>3, <4>1, <4>2, <4>3, ReqsFinite, OtpAssumption
           DEF GuessBound, AcceptBound
    <3>4. CASE j # i
      <4>1. Pending("count_guess", j)' = Pending("count_guess", j)
        BY <2>1, <2>2, <3>4 DEF Pending
      <4> QED
        BY <2>3, <3>1, <3>2, <3>4, <4>1
    <3> QED
      BY <3>3, <3>4
  <2> QED
    BY <2>3, <2>4 DEF CountInv
<1>8. ASSUME NEW r \in Reqs, ConsumeChallenge(r)
      PROVE  CountInv'
  <2>1. /\ pc[r] = "consume" /\ pc'[r] \in {"set_verified", "issue"}
        /\ req[r].row \in DOMAIN challenge
        /\ challenge' = [challenge EXCEPT ![req[r].row] = Accepted(challenge[req[r].row])]
        /\ \A q \in Reqs : q # r => pc'[q] = pc[q] /\ req'[q] = req[q]
    BY <1>1, <1>8 DEF ConsumeChallenge, Goto, AfterConsume, TypeInv, TypeOK
  <2>2. PICK i \in DOMAIN challenge : i = req[r].row
    BY <2>1
  <2>3. /\ challenge'[i] = Accepted(challenge[i]) /\ DOMAIN challenge' = DOMAIN challenge
        /\ \A j \in DOMAIN challenge : j # i => challenge'[j] = challenge[j]
    BY <1>1, <2>1, <2>2, UpdateTyped, WriteTyped
  <2>4. ASSUME NEW j \in DOMAIN challenge
        PROVE  /\ GuessBound(challenge'[j], Cardinality(Pending("count_guess", j)'))
               /\ AcceptBound(challenge'[j], Cardinality(Pending("consume", j)'))
    <3>1. /\ GuessBound(challenge[j], Cardinality(Pending("count_guess", j)))
          /\ AcceptBound(challenge[j], Cardinality(Pending("consume", j)))
      BY DEF CountInv
    <3>2. Pending("count_guess", j)' = Pending("count_guess", j)
      BY <2>1, PendingGrows
    <3>3. CASE j = i
      <4>1. Cardinality(Pending("consume", i)') + 1 = Cardinality(Pending("consume", i))
        BY <2>1, <2>2, PendingDrops
      <4>2. /\ challenge'[i].attempts = challenge[i].attempts
            /\ challenge'[i].guesses = challenge[i].guesses
            /\ challenge'[i].accepts = challenge[i].accepts + 1
            /\ challenge'[i].status = "consumed" /\ challenge[i].accepts \in Nat
        BY <1>1, <2>3, UpdateTyped DEF ChallengeType
      <4>3. /\ Cardinality(Pending("consume", i)) \in Nat
            /\ Cardinality(Pending("consume", i)') \in Nat
        BY PendingFinite, PendingFiniteNext
      <4> QED
        BY <3>1, <3>2, <3>3, <4>1, <4>2, <4>3, ReqsFinite DEF GuessBound, AcceptBound
    <3>4. CASE j # i
      <4>1. Pending("consume", j)' = Pending("consume", j)
        BY <2>1, <2>2, <3>4 DEF Pending
      <4> QED
        BY <2>3, <3>1, <3>2, <3>4, <4>1
    <3> QED
      BY <3>3, <3>4
  <2> QED
    BY <2>3, <2>4 DEF CountInv
<1>9. ASSUME NEW r \in Reqs,
             CreateUser(r) \/ SetEmailVerified(r) \/ IssueTokenPair(r) \/ DbThrows(r)
      PROVE  CountInv'
  <2>1. PICK l \in {"invalidate", "issue"} : UNCHANGED challenge /\ (Goto(r, l) \/ Finish(r))
    BY <1>9 DEF CreateUser, SetEmailVerified, IssueTokenPair, DbThrows
  <2> QED
    BY <1>1, <1>2, <2>1 DEF Goto, Finish
<1>10. CASE Restart \/ \E u \in Users : SignInWithGoogle(u)
  BY <1>2, <1>10 DEF Restart, SignInWithGoogle
<1>11. ASSUME NEW i \in DOMAIN challenge, Expire(i)
       PROVE  CountInv'
  <2>1. /\ challenge' = [challenge EXCEPT ![i] = WithStatus(challenge[i], "expired")]
        /\ UNCHANGED <<pc, req>>
    BY <1>11 DEF Expire
  <2>2. /\ WithStatus(challenge[i], "expired") \in ChallengeType
        /\ SameCounts(challenge[i], WithStatus(challenge[i], "expired"))
    BY <1>1, UpdateTyped DEF SameCounts
  <2>3. /\ DOMAIN challenge' = DOMAIN challenge
        /\ \A j \in DOMAIN challenge : SameCounts(challenge[j], challenge'[j])
    BY <1>1, <2>1, <2>2, WriteTyped DEF SameCounts
  <2> QED
    BY <1>1, <2>1, <2>3, QuietStep
<1> QED
  BY <1>3, <1>4, <1>5, <1>6, <1>7, <1>8, <1>9, <1>10, <1>11 DEF Next, Serve

LEMMA CountMeans ==
  ASSUME TypeInv, CountInv
  PROVE  GuessesBounded /\ AcceptsBounded
<1>1. challenge \in Seq(ChallengeType)
  BY DEF TypeInv, TypeOK
<1>2. \A i \in DOMAIN challenge : challenge[i] \in ChallengeType
  BY <1>1, LenProperties
<1>3. \A i \in DOMAIN challenge : challenge[i].guesses \in Nat /\ challenge[i].accepts \in Nat
  BY <1>2 DEF ChallengeType
<1>4. MaxAttempts \in Nat
  BY OtpAssumption
<1> QED
  BY <1>3, <1>4, PendingFinite, ReqsFinite
     DEF CountInv, GuessBound, AcceptBound, GuessesBounded, AcceptsBounded

LEMMA CountInit == Init => CountInv
<1> QED
  BY EmptySeq DEF Init, CountInv

\* Wrong guesses exceed OTP_MAX_ATTEMPTS by fewer than the requests that can overlap.
THEOREM AttemptsBounded == Spec => []GuessesBounded
<1> QED
  BY TypeInit, TypeStep, CountInit, CountStep, CountMeans, PTL DEF Spec

\* A code is accepted no more often than requests can overlap.
THEOREM UsesBounded == Spec => []AcceptsBounded
<1> QED
  BY TypeInit, TypeStep, CountInit, CountStep, CountMeans, PTL DEF Spec

------------------------------------------------------------------------------
(* The documented limits *)

\* A user's requests come one after the other.
Busy(r, u) == pc[r] # "idle" /\ req[r].user = u
Alone(u) == \A q, r \in Reqs : Busy(q, u) /\ Busy(r, u) => q = r

\* A row of u is within the limits, and is the only one of its purpose that can be answered.
ExactRow(row) ==
  /\ row.attempts = row.guesses /\ row.guesses <= MaxAttempts
  /\ row.accepts <= 1 /\ (row.status = "active" => row.accepts = 0)

\* What a handler of u between its read and its write relies on.
ExactReq(r) ==
  /\ pc[r] = "count_guess" => challenge[req[r].row].guesses < MaxAttempts
  /\ pc[r] = "consume" => challenge[req[r].row].accepts = 0
  /\ pc[r] = "create" =>
       \A i \in DOMAIN challenge :
         challenge[i].user = req[r].user /\ challenge[i].purpose = req[r].purpose
         => challenge[i].status # "active"

OneActive(u) ==
  \A i, j \in DOMAIN challenge :
    /\ challenge[i].user = u /\ challenge[j].user = u
    /\ challenge[i].purpose = challenge[j].purpose
    /\ challenge[i].status = "active" /\ challenge[j].status = "active"
    => i = j

ExactInv(u) ==
  /\ \A i \in DOMAIN challenge : challenge[i].user = u => ExactRow(challenge[i])
  /\ \A r \in Reqs :
       /\ pc[r] \in {"count_guess", "consume"} => challenge[req[r].row].user = req[r].user
       /\ req[r].user = u => ExactReq(r)
  /\ OneActive(u)

\* A step keeps it that answers no row of u, adds none, and lets no handler go on to a write.
LEMMA ExactFrame ==
  ASSUME NEW u \in Users, TypeInv, ExactInv(u), DOMAIN challenge' = DOMAIN challenge,
         \A i \in DOMAIN challenge :
           /\ Kept(challenge[i], challenge'[i])
           /\ challenge[i].user = u => SameCounts(challenge[i], challenge'[i]),
         \A r \in Reqs : pc'[r] \in {"count_guess", "consume", "create"} =>
                           pc'[r] = pc[r] /\ req'[r] = req[r]
  PROVE  ExactInv(u)'
<1>1. \A r \in Reqs : pc[r] \in {"count_guess", "consume"} => req[r].row \in DOMAIN challenge
  BY DEF TypeInv, TypeOK
<1>2. \A i \in DOMAIN challenge : challenge[i].user = u => ExactRow(challenge'[i])
  BY DEF ExactInv, ExactRow, SameCounts
<1>3. ASSUME NEW r \in Reqs, pc'[r] \in {"count_guess", "consume"}
      PROVE  challenge'[req'[r].row].user = req'[r].user
  BY <1>1, <1>3 DEF ExactInv, Kept
<1>4. ASSUME NEW r \in Reqs, req'[r].user = u
      PROVE  ExactReq(r)'
  <2>1. CASE pc'[r] \in {"count_guess", "consume"}
    <3>1. /\ pc'[r] = pc[r] /\ req'[r] = req[r] /\ req[r].row \in DOMAIN challenge
          /\ challenge[req[r].row].user = u /\ ExactReq(r)
      BY <1>1, <1>4, <2>1 DEF ExactInv
    <3>2. SameCounts(challenge[req[r].row], challenge'[req[r].row])
      BY <3>1
    <3> QED
      BY <2>1, <3>1, <3>2 DEF ExactReq, SameCounts
  <2>2. CASE pc'[r] = "create"
    <3>1. pc[r] = "create" /\ req'[r] = req[r] /\ ExactReq(r)
      BY <1>4, <2>2 DEF ExactInv
    <3> QED
      BY <2>2, <3>1 DEF ExactReq, Kept
  <2> QED
    BY <2>1, <2>2 DEF ExactReq
<1>5. OneActive(u)'
  BY DEF ExactInv, OneActive, Kept
<1>6. \A i \in DOMAIN challenge : challenge'[i].user = challenge[i].user
  BY DEF Kept
<1> QED
  BY <1>2, <1>3, <1>4, <1>5, <1>6 DEF ExactInv

\* So does one that begins a verification with a row found active.
LEMMA ExactFound ==
  ASSUME NEW u \in Users, TypeInv, ExactInv(u), NEW r \in Reqs, NEW i \in DOMAIN challenge,
         challenge' = challenge, challenge[i].status = "active",
         challenge[i].attempts < MaxAttempts, pc'[r] \in {"count_guess", "consume"},
         req'[r].row = i, req'[r].user = challenge[i].user,
         \A q \in Reqs : q # r => pc'[q] = pc[q] /\ req'[q] = req[q]
  PROVE  ExactInv(u)'
<1>1. req'[r].user = u => ExactReq(r)'
  BY DEF ExactInv, ExactRow, ExactReq
<1>2. \A q \in Reqs : q # r => (ExactReq(q)' <=> ExactReq(q))
  BY DEF ExactReq
<1> QED
  BY <1>1, <1>2 DEF ExactInv, OneActive

LEMMA ExactStep ==
  ASSUME NEW u \in Users
  PROVE  TypeInv /\ ExactInv(u) /\ Alone(u) /\ [Next]_vars => ExactInv(u)'
<1> SUFFICES ASSUME TypeInv, ExactInv(u), Alone(u), [Next]_vars
             PROVE  ExactInv(u)'
  OBVIOUS
<1>1. /\ challenge \in Seq(ChallengeType) /\ DOMAIN challenge = 1..Len(challenge)
      /\ Len(challenge) \in Nat /\ \A i \in DOMAIN challenge : challenge[i] \in ChallengeType
      /\ pc \in [Reqs -> Labels] /\ req \in [Reqs -> LocalsType]
  BY LenProperties DEF TypeInv, TypeOK
<1>2. \A i \in DOMAIN challenge : Kept(challenge[i], challenge'[i])
  BY TableStep
<1>3. ASSUME UNCHANGED challenge,
             \A r \in Reqs : pc'[r] \in {"count_guess", "consume", "create"} =>
                               pc'[r] = pc[r] /\ req'[r] = req[r]
      PROVE  ExactInv(u)'
  BY <1>2, <1>3, ExactFrame DEF SameCounts
<1>4. CASE UNCHANGED vars
  BY <1>3, <1>4 DEF vars
<1>5. ASSUME NEW r \in Reqs, Arrive(r)
      PROVE  ExactInv(u)'
  <2>1. PICK v \in Users :
          \/ Signup(r, v) \/ ResendEmailVerification(r, v) \/ SendSigninMfaCode(r, v)
          \/ \E purpose \in Purposes, code \in Codes : VerifyOtp(r, v, purpose, code)
    BY <1>5 DEF Arrive, VerifyEmail, VerifySigninMfa, Purposes
  <2>2. CASE Signup(r, v) \/ ResendEmailVerification(r, v) \/ SendSigninMfaCode(r, v)
    <3>1. /\ UNCHANGED challenge
          /\ \A q \in Reqs : q # r => pc'[q] = pc[q] /\ req'[q] = req[q]
          /\ pc'[r] \in {"create_user", "invalidate"}
      BY <1>1, <2>2 DEF Signup, ResendEmailVerification, SendSigninMfaCode, Begin
    <3> QED
      BY <1>3, <3>1
  <2>3. ASSUME NEW purpose \in Purposes, NEW code \in Codes, VerifyOtp(r, v, purpose, code)
        PROVE  ExactInv(u)'
    <3>1. PICK i \in LatestActive(v, purpose), l \in {"count_guess", "consume"} :
            /\ AttemptsLeft(challenge[i])
            /\ Begin(r, l, Locals(v, purpose, i, account[v] = "verified", 0))
            /\ UNCHANGED challenge
      BY <2>3 DEF VerifyOtp
    <3>2. i \in DOMAIN challenge /\ challenge[i].status = "active" /\ challenge[i].user = v
      BY <3>1 DEF LatestActive, Usable
    <3>3. /\ pc'[r] = l /\ req'[r].row = i /\ req'[r].user = v
          /\ \A q \in Reqs : q # r => pc'[q] = pc[q] /\ req'[q] = req[q]
      BY <1>1, <3>1 DEF Begin, Locals
    <3> QED
      BY <3>1, <3>2, <3>3, ExactFound DEF AttemptsLeft
  <2> QED
    BY <2>1, <2>2, <2>3
<1>6. ASSUME NEW r \in Reqs, InvalidateActiveChallenges(r)
      PROVE  ExactInv(u)'
  <2> DEFINE found == Invalidated(req[r].user, req[r].purpose)
  <2>1. /\ challenge' = [i \in 1..Len(challenge) |->
                          IF i \in found THEN WithStatus(challenge[i], "consumed")
                          ELSE challenge[i]]
        /\ pc'[r] = "create" /\ pc[r] = "invalidate"
        /\ req'[r].user = req[r].user /\ req'[r].purpose = req[r].purpose
        /\ \A q \in Reqs : q # r => pc'[q] = pc[q] /\ req'[q] = req[q]
    BY <1>1, <1>6 DEF InvalidateActiveChallenges, Locals
  <2> HIDE DEF found
  <2>2. DOMAIN challenge' = DOMAIN challenge
    BY <1>1, <2>1
  <2>3. \A i \in DOMAIN challenge :
          /\ SameCounts(challenge[i], challenge'[i])
          /\ challenge'[i].user = challenge[i].user
          /\ challenge'[i].purpose = challenge[i].purpose
          /\ i \in found => challenge'[i].status = "consumed"
    BY <1>1, <2>1, UpdateTyped DEF SameCounts
  <2>4. ExactReq(r)'
    <3>1. ASSUME NEW i \in DOMAIN challenge, challenge'[i].user = req'[r].user,
                 challenge'[i].purpose = req'[r].purpose
          PROVE  challenge'[i].status # "active"
      BY <2>1, <2>3, <3>1 DEF Invalidated, found
    <3> QED
      BY <2>1, <2>2, <3>1 DEF ExactReq
  <2>5. ASSUME NEW q \in Reqs, q # r, req[q].user = u
        PROVE  ExactReq(q)'
    <3>1. pc'[q] = pc[q] /\ req'[q] = req[q] /\ ExactReq(q)
      BY <2>1, <2>5 DEF ExactInv
    <3>2. pc[q] \in {"count_guess", "consume"} => req[q].row \in DOMAIN challenge
      BY DEF TypeInv, TypeOK
    <3> QED
      BY <2>2, <2>3, <3>1, <3>2 DEF ExactReq, SameCounts
  <2>6. \A q \in Reqs : pc'[q] \in {"count_guess", "consume"} =>
                          challenge'[req'[q].row].user = req'[q].user
    <3> SUFFICES ASSUME NEW q \in Reqs, pc'[q] \in {"count_guess", "consume"}
                 PROVE  challenge'[req'[q].row].user = req'[q].user
      OBVIOUS
    <3>1. q # r /\ pc'[q] = pc[q] /\ req'[q] = req[q]
      BY <2>1
    <3>2. req[q].row \in DOMAIN challenge /\ challenge[req[q].row].user = req[q].user
      BY <3>1 DEF ExactInv, TypeInv, TypeOK
    <3> QED
      BY <2>3, <3>1, <3>2
  <2>7. \A i \in DOMAIN challenge : challenge[i].user = u => ExactRow(challenge'[i])
    <3> SUFFICES ASSUME NEW i \in DOMAIN challenge, challenge[i].user = u
                 PROVE  ExactRow(challenge'[i])
      OBVIOUS
    <3>1. ExactRow(challenge[i]) /\ SameCounts(challenge[i], challenge'[i])
      BY <2>3 DEF ExactInv
    <3> QED
      BY <3>1 DEF ExactRow, SameCounts
  <2>8. OneActive(u)'
    BY <2>2, <2>3 DEF ExactInv, OneActive, SameCounts
  <2>9. \A q \in Reqs : req'[q].user = u => ExactReq(q)'
    BY <2>1, <2>4, <2>5
  <2>10. \A i \in DOMAIN challenge' : challenge'[i].user = u => ExactRow(challenge'[i])
    BY <2>2, <2>3, <2>7
  <2> QED
    BY <2>6, <2>8, <2>9, <2>10 DEF ExactInv
<1>7. ASSUME NEW r \in Reqs, CreateChallenge(r)
      PROVE  ExactInv(u)'
  <2>1. PICK code \in Codes :
          challenge' = Append(challenge,
                              NewChallenge(req[r].user, req[r].purpose, code, req[r].seen))
    BY <1>7 DEF CreateChallenge
  <2>2. /\ req[r].user \in Users /\ req[r].purpose \in Purposes /\ req[r].seen \in Nat
    BY <1>7 DEF CreateChallenge, TypeInv, TypeOK, LocalsType
  <2> DEFINE row == NewChallenge(req[r].user, req[r].purpose, code, req[r].seen)
             n == Len(challenge) + 1
  <2>3. /\ row \in ChallengeType /\ row.attempts = 0 /\ row.guesses = 0 /\ row.accepts = 0
        /\ row.user = req[r].user /\ row.purpose = req[r].purpose
    BY <2>2, NewTyped
  <2>4. challenge' = Append(challenge, row)
    BY <2>1
  <2> HIDE DEF row
  <2>5. /\ DOMAIN challenge' = 1..n /\ challenge'[n] = row
        /\ \A i \in DOMAIN challenge : challenge'[i] = challenge[i]
    BY <1>1, <2>3, <2>4, AppendProperties
  <2>6. DOMAIN challenge' = DOMAIN challenge \cup {n} /\ n \notin DOMAIN challenge
    BY <1>1, <2>5
  <2> HIDE DEF n
  <2>7. /\ pc[r] = "create" /\ pc'[r] = "idle"
        /\ \A q \in Reqs : q # r => pc'[q] = pc[q] /\ req'[q] = req[q]
    BY <1>1, <1>7 DEF CreateChallenge, Finish
  <2>8. MaxAttempts \in Nat /\ 0 <= MaxAttempts
    BY OtpAssumption
  <2>9. \A i \in DOMAIN challenge' : challenge'[i].user = u => ExactRow(challenge'[i])
    <3>1. ExactRow(row)
      BY <2>3, <2>8 DEF ExactRow
    <3> QED
      BY <2>5, <2>6, <3>1 DEF ExactInv
  <2>10. \A q \in Reqs : pc'[q] \in {"count_guess", "consume"} =>
                           challenge'[req'[q].row].user = req'[q].user
    BY <2>5, <2>7 DEF ExactInv, TypeInv, TypeOK
  <2>11. ASSUME NEW q \in Reqs, req'[q].user = u
         PROVE  ExactReq(q)'
    <3>1. CASE pc'[q] \in {"count_guess", "consume"}
      BY <2>5, <2>7, <2>11, <3>1 DEF ExactInv, ExactReq, TypeInv, TypeOK
    <3>2. CASE pc'[q] = "create"
      <4>1. q # r /\ pc[q] = "create" /\ req'[q] = req[q] /\ ExactReq(q)
        BY <2>7, <2>11, <3>2 DEF ExactInv
      <4>2. req[r].user # u
        BY <2>7, <2>11, <4>1 DEF Alone, Busy
      <4> QED
        BY <2>3, <2>5, <2>6, <2>11, <3>2, <4>1, <4>2 DEF ExactReq
    <3> QED
      BY <3>1, <3>2 DEF ExactReq
  <2>12. OneActive(u)'
    <3>1. ASSUME req[r].user = u, NEW i \in DOMAIN challenge, challenge[i].user = u,
                 challenge[i].purpose = row.purpose
          PROVE  challenge[i].status # "active"
      BY <2>3, <2>7, <3>1 DEF ExactInv, ExactReq
    <3> QED
      BY <2>3, <2>5, <2>6, <3>1 DEF ExactInv, OneActive
  <2> QED
    BY <2>9, <2>10, <2>11, <2>12 DEF ExactInv
<1>8. ASSUME NEW r \in Reqs, NEW i \in DOMAIN challenge, i = req[r].row,
             pc[r] \in {"count_guess", "consume"},
             pc'[r] \notin {"count_guess", "consume", "create"},
             \A q \in Reqs : q # r => pc'[q] = pc[q] /\ req'[q] = req[q],
             NEW row \in ChallengeType, Kept(challenge[i], row),
             challenge' = [challenge EXCEPT ![i] = row],
             challenge[i].user = u => ExactRow(row)
      PROVE  ExactInv(u)'
  <2>1. /\ DOMAIN challenge' = DOMAIN challenge /\ challenge'[i] = row
        /\ \A j \in DOMAIN challenge : j # i => challenge'[j] = challenge[j]
    BY <1>1, <1>8, WriteTyped
  <2>2. challenge[i].user = req[r].user
    BY <1>8 DEF ExactInv
  <2>3. CASE req[r].user # u
    <3>1. \A j \in DOMAIN challenge :
            challenge[j].user = u => SameCounts(challenge[j], challenge'[j])
      BY <2>1, <2>2, <2>3 DEF SameCounts
    <3> QED
      BY <1>2, <1>8, <2>1, <3>1, ExactFrame
  <2>4. CASE req[r].user = u
    <3>1. \A q \in Reqs : q # r /\ req[q].user = u => pc'[q] = "idle"
      BY <1>8, <2>4 DEF Alone, Busy
    <3>2. \A q \in Reqs : req'[q].user = u => ExactReq(q)'
      BY <1>8, <3>1 DEF ExactReq
    <3>3. \A q \in Reqs : pc'[q] \in {"count_guess", "consume"} =>
                            challenge'[req'[q].row].user = req'[q].user
      BY <1>2, <1>8 DEF ExactInv, TypeInv, TypeOK, Kept
    <3>4. \A j \in DOMAIN challenge : challenge[j].user = u => ExactRow(challenge'[j])
      BY <1>8, <2>1 DEF ExactInv
    <3>5. OneActive(u)'
      BY <1>2, <2>1 DEF ExactInv, OneActive, Kept
    <3> QED
      BY <1>2, <2>1, <3>2, <3>3, <3>4, <3>5 DEF ExactInv, Kept
  <2> QED
    BY <2>3, <2>4
<1>9. ASSUME NEW r \in Reqs, IncrementAttempts(r)
      PROVE  ExactInv(u)'
  <2>1. PICK i \in DOMAIN challenge : i = req[r].row
    BY <1>9 DEF IncrementAttempts, TypeInv, TypeOK
  <2>2. /\ pc[r] = "count_guess" /\ pc'[r] = "idle"
        /\ challenge' = [challenge EXCEPT ![i] = Guessed(challenge[i])]
        /\ \A q \in Reqs : q # r => pc'[q] = pc[q] /\ req'[q] = req[q]
    BY <1>1, <1>9, <2>1 DEF IncrementAttempts, Finish
  <2>3. challenge[i].user = u =>
          ExactRow(challenge[i]) /\ challenge[i].guesses < MaxAttempts
    BY <2>1, <2>2 DEF ExactInv, ExactReq
  <2>4. challenge[i].user = u => ExactRow(Guessed(challenge[i]))
    <3>1. challenge[i].guesses \in Nat /\ MaxAttempts \in Nat
      BY <1>1, OtpAssumption DEF ChallengeType
    <3> QED
      BY <1>1, <2>3, <3>1, UpdateTyped DEF ExactRow
  <2> QED
    BY <1>1, <1>8, <2>1, <2>2, <2>4, UpdateTyped
<1>10. ASSUME NEW r \in Reqs, ConsumeChallenge(r)
       PROVE  ExactInv(u)'
  <2>1. PICK i \in DOMAIN challenge : i = req[r].row
    BY <1>10 DEF ConsumeChallenge, TypeInv, TypeOK
  <2>2. /\ pc[r] = "consume" /\ pc'[r] \in {"set_verified", "issue"}
        /\ challenge' = [challenge EXCEPT ![i] = Accepted(challenge[i])]
        /\ \A q \in Reqs : q # r => pc'[q] = pc[q] /\ req'[q] = req[q]
    BY <1>1, <1>10, <2>1 DEF ConsumeChallenge, Goto, AfterConsume
  <2>3. challenge[i].user = u => ExactRow(challenge[i]) /\ challenge[i].accepts = 0
    BY <2>1, <2>2 DEF ExactInv, ExactReq
  <2>4. challenge[i].user = u => ExactRow(Accepted(challenge[i]))
    BY <1>1, <2>3, UpdateTyped DEF ExactRow
  <2> QED
    BY <1>1, <1>8, <2>1, <2>2, <2>4, UpdateTyped
<1>11. ASSUME NEW r \in Reqs,
              CreateUser(r) \/ SetEmailVerified(r) \/ IssueTokenPair(r) \/ DbThrows(r)
       PROVE  ExactInv(u)'
  <2>1. /\ UNCHANGED challenge
        /\ \A q \in Reqs : q # r => pc'[q] = pc[q] /\ req'[q] = req[q]
        /\ pc'[r] \in {"invalidate", "issue", "idle"}
    BY <1>1, <1>11 DEF CreateUser, SetEmailVerified, IssueTokenPair, DbThrows, Goto, Finish
  <2> QED
    BY <1>3, <2>1
<1>12. CASE Restart \/ \E v \in Users : SignInWithGoogle(v)
  BY <1>1, <1>3, <1>12 DEF Restart, SignInWithGoogle
<1>13. ASSUME NEW i \in DOMAIN challenge, Expire(i)
       PROVE  ExactInv(u)'
  <2>1. /\ challenge' = [challenge EXCEPT ![i] = WithStatus(challenge[i], "expired")]
        /\ UNCHANGED <<pc, req>>
    BY <1>13 DEF Expire
  <2>2. /\ WithStatus(challenge[i], "expired") \in ChallengeType
        /\ SameCounts(challenge[i], WithStatus(challenge[i], "expired"))
    BY <1>1, UpdateTyped DEF SameCounts
  <2>3. /\ DOMAIN challenge' = DOMAIN challenge
        /\ \A j \in DOMAIN challenge : SameCounts(challenge[j], challenge'[j])
    BY <1>1, <2>1, <2>2, WriteTyped DEF SameCounts
  <2> QED
    BY <1>2, <2>1, <2>3, ExactFrame
<1> QED
  BY <1>4, <1>5, <1>6, <1>7, <1>9, <1>10, <1>11, <1>12, <1>13 DEF Next, Serve

\* For a user whose requests do not overlap, whatever others do and whatever fails: a code is
\* guessed wrong at most OTP_MAX_ATTEMPTS times (constants/index.ts:16), is answered with
\* tokens at most once, and is the only one of its purpose that can be answered.
THEOREM ExactWhenAlone ==
  ASSUME NEW u \in Users
  PROVE  Spec /\ []Alone(u) =>
           [](/\ \A i \in DOMAIN challenge :
                   challenge[i].user = u =>
                     challenge[i].guesses <= MaxAttempts /\ challenge[i].accepts <= 1
              /\ OneActive(u))
<1>1. Init => ExactInv(u)
  <2> SUFFICES ASSUME Init
               PROVE  ExactInv(u)
    OBVIOUS
  <2>1. DOMAIN challenge = {} /\ \A r \in Reqs : pc[r] = "idle"
    BY EmptySeq DEF Init
  <2> QED
    BY <2>1 DEF ExactInv, OneActive, ExactReq
<1>2. ExactInv(u) =>
        /\ \A i \in DOMAIN challenge :
             challenge[i].user = u =>
               challenge[i].guesses <= MaxAttempts /\ challenge[i].accepts <= 1
        /\ OneActive(u)
  BY DEF ExactInv, ExactRow
<1> QED
  BY <1>1, <1>2, TypeInit, TypeStep, ExactStep, PTL DEF Spec
==============================================================================
