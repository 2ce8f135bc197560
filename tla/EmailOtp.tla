------------------------------- MODULE EmailOtp -------------------------------
(***************************************************************************)
(* Codes sent by email: sendOtp and verifyOtp of services/otp.service.ts   *)
(* over emailOtp.repository.ts, and the requests of auth.service.ts that   *)
(* use them: signup, resendEmailVerification, verifyEmail,                 *)
(* sendSigninMfaCode and verifySigninMfa with an email code.               *)
(*                                                                         *)
(* Reads that follow one another before a request's first write are one    *)
(* step: the user record they start from only ever becomes verified.  A    *)
(* failing email changes no state.  A request that is refused without      *)
(* changing anything is not a step.                                        *)
(***************************************************************************)
EXTENDS Naturals, Sequences, FiniteSets

CONSTANTS
  Users, Reqs,
  Codes,         \* the values a code may have, collisions included
  None,
  MaxAttempts,   \* OTP_MAX_ATTEMPTS
  MaxSends,      \* bound on challenges
  MaxFaults      \* bound on failing database calls and restarts

ASSUME OtpAssumption ==
  /\ IsFiniteSet(Reqs)
  /\ None \notin Users /\ None \notin Codes
  /\ MaxAttempts \in Nat \ {0} /\ MaxFaults \in Nat

VARIABLES
  account,      \* table User: none, unverified or verified
  challenge,    \* table EmailOtpChallenge, in the order of createdAt
  pc, req,      \* per slot: the pending await and the handler's local variables
  faults

vars == <<account, challenge, pc, req, faults>>

------------------------------------------------------------------------------
(* Rows and locals *)

Purposes == {"SIGNUP_VERIFY", "SIGNIN"}

\* guesses and accepts count the answers given on a row; seen is the number of rows there
\* when its send invalidated the older ones.
NewChallenge_NoCode(u, purpose, code, seen) ==
  [user |-> u, purpose |-> purpose, code |-> None, status |-> "active",
   attempts |-> 0, guesses |-> 0, accepts |-> 0, seen |-> seen]
NewChallenge(u, purpose, code, seen) ==
  [user |-> u, purpose |-> purpose, code |-> code, status |-> "active",
   attempts |-> 0, guesses |-> 0, accepts |-> 0, seen |-> seen]

WithStatus(row, status) == [row EXCEPT !.status = status]
Guessed(row) == [row EXCEPT !.attempts = @ + 1, !.guesses = @ + 1]
Accepted(row) == [row EXCEPT !.status = "consumed", !.accepts = @ + 1]

\* row: the challenge found; verified: the user record's flag; seen as above.
Locals(u, purpose, row, verified, seen) ==
  [user |-> u, purpose |-> purpose, row |-> row, verified |-> verified, seen |-> seen]
NoReq == Locals(None, "SIGNIN", 0, FALSE, 0)

DbAwaits == {"create_user", "invalidate", "create", "count_guess", "consume",
             "set_verified", "issue"}
Labels == DbAwaits \cup {"idle"}

Begin(r, l, locals) ==
  /\ pc[r] = "idle"
  /\ pc' = [pc EXCEPT ![r] = l] /\ req' = [req EXCEPT ![r] = locals]
Goto(r, l) == pc' = [pc EXCEPT ![r] = l] /\ UNCHANGED req
Finish(r) == pc' = [pc EXCEPT ![r] = "idle"] /\ req' = [req EXCEPT ![r] = NoReq]

\* The sends under way have room for their rows.
SendLeft ==
  Len(challenge) + Cardinality({r \in Reqs : pc[r] \in {"create_user", "invalidate", "create"}})
    < MaxSends

------------------------------------------------------------------------------
(* Sending a code *)

\* Up to the password's hash.
Signup(r, u) ==
  /\ account[u] = "none" /\ SendLeft
  /\ Begin(r, "create_user", Locals(u, "SIGNUP_VERIFY", 0, FALSE, 0))
  /\ UNCHANGED <<account, challenge, faults>>

\* A user created meanwhile makes it EmailTakenError.
CreateUser(r) ==
  LET u == req[r].user
  IN  /\ pc[r] = "create_user"
      /\ IF account[u] = "none"
         THEN account' = [account EXCEPT ![u] = "unverified"] /\ Goto(r, "invalidate")
         ELSE UNCHANGED account /\ Finish(r)
      /\ UNCHANGED <<challenge, faults>>

ResendEmailVerification(r, u) ==
  /\ account[u] = "unverified" /\ SendLeft
  /\ Begin(r, "invalidate", Locals(u, "SIGNUP_VERIFY", 0, FALSE, 0))
  /\ UNCHANGED <<account, challenge, faults>>

\* signin hands the MFA token out to verified users only.
HoldsMfaToken(u) == account[u] = "verified"

SendSigninMfaCode(r, u) ==
  /\ HoldsMfaToken(u) /\ SendLeft
  /\ Begin(r, "invalidate", Locals(u, "SIGNIN", 0, FALSE, 0))
  /\ UNCHANGED <<account, challenge, faults>>

Usable_Consumed(row) == row.status # "expired"
Usable(row) == row.status = "active"

LatestActive(u, purpose) ==
  {i \in DOMAIN challenge :
     LET Matches(row) == row.user = u /\ row.purpose = purpose /\ Usable(row)
     IN  /\ Matches(challenge[i])
         /\ \A j \in DOMAIN challenge : Matches(challenge[j]) => j <= i}

Invalidated_Latest(u, purpose) == LatestActive(u, purpose)
Invalidated(u, purpose) ==
  {i \in DOMAIN challenge : challenge[i].user = u /\ challenge[i].purpose = purpose}

InvalidateActiveChallenges(r) ==
  /\ pc[r] = "invalidate"
  /\ challenge' = [i \in DOMAIN challenge |->
       IF i \in Invalidated(req[r].user, req[r].purpose)
       THEN WithStatus(challenge[i], "consumed") ELSE challenge[i]]
  /\ pc' = [pc EXCEPT ![r] = "create"]
  /\ req' = [req EXCEPT ![r] = Locals(@.user, @.purpose, 0, FALSE, Len(challenge))]
  /\ UNCHANGED <<account, faults>>

CreateChallenge(r) ==
  /\ pc[r] = "create"
  /\ \E code \in Codes :
       challenge' = Append(challenge,
                           NewChallenge(req[r].user, req[r].purpose, code, req[r].seen))
  /\ Finish(r)
  /\ UNCHANGED <<account, faults>>

------------------------------------------------------------------------------
(* Verifying a code *)

AttemptsLeft_OneMore(row) == row.attempts <= MaxAttempts
AttemptsLeft(row) == row.attempts < MaxAttempts

VerifyOtp(r, u, purpose, code) ==
  \E i \in LatestActive(u, purpose) :
    /\ AttemptsLeft(challenge[i])
    /\ Begin(r, IF challenge[i].code = code THEN "consume" ELSE "count_guess",
             Locals(u, purpose, i, account[u] = "verified", 0))
    /\ UNCHANGED <<account, challenge, faults>>

VerifyEmail(r, u, code) ==
  account[u] # "none" /\ VerifyOtp(r, u, "SIGNUP_VERIFY", code)

VerifySigninMfa(r, u, code) ==
  HoldsMfaToken(u) /\ VerifyOtp(r, u, "SIGNIN", code)

IncrementAttempts(r) ==
  /\ pc[r] = "count_guess"
  /\ challenge' = [challenge EXCEPT ![req[r].row] = Guessed(@)]
  /\ Finish(r)
  /\ UNCHANGED <<account, faults>>

AfterConsume_Unless(purpose, verified) ==
  IF purpose = "SIGNUP_VERIFY" /\ verified THEN "set_verified" ELSE "issue"
AfterConsume(purpose, verified) ==
  IF purpose = "SIGNUP_VERIFY" /\ ~verified THEN "set_verified" ELSE "issue"

ConsumeChallenge(r) ==
  /\ pc[r] = "consume"
  /\ challenge' = [challenge EXCEPT ![req[r].row] = Accepted(@)]
  /\ Goto(r, AfterConsume(req[r].purpose, req[r].verified))
  /\ UNCHANGED <<account, faults>>

SetEmailVerified(r) ==
  /\ pc[r] = "set_verified"
  /\ account' = [account EXCEPT ![req[r].user] = "verified"]
  /\ Goto(r, "issue")
  /\ UNCHANGED <<challenge, faults>>

\* The token pair, which Sessions models.
IssueTokenPair(r) ==
  /\ pc[r] = "issue"
  /\ Finish(r)
  /\ UNCHANGED <<account, challenge, faults>>

------------------------------------------------------------------------------
(* Other sign-ins, failures and time *)

\* createOAuthUser and linkGoogleAccount: the user is verified.
SignInWithGoogle(u) ==
  /\ account[u] # "verified"
  /\ account' = [account EXCEPT ![u] = "verified"]
  /\ UNCHANGED <<challenge, pc, req, faults>>

\* A database call throws and the handler answers 500.
DbThrows(r) ==
  /\ pc[r] \in DbAwaits /\ faults < MaxFaults /\ faults' = faults + 1
  /\ Finish(r)
  /\ UNCHANGED <<account, challenge>>

\* The process stops and comes back: requests under way are lost.
Restart ==
  /\ faults < MaxFaults /\ faults' = faults + 1
  /\ pc' = [r \in Reqs |-> "idle"] /\ req' = [r \in Reqs |-> NoReq]
  /\ UNCHANGED <<account, challenge>>

\* Nothing reads the expiry of a consumed row.
Expire(i) ==
  /\ challenge[i].status = "active"
  /\ challenge' = [challenge EXCEPT ![i] = WithStatus(@, "expired")]
  /\ UNCHANGED <<account, pc, req, faults>>

------------------------------------------------------------------------------
Init ==
  /\ account = [u \in Users |-> "none"]
  /\ challenge = <<>>
  /\ pc = [r \in Reqs |-> "idle"] /\ req = [r \in Reqs |-> NoReq]
  /\ faults = 0

Arrive(r) ==
  \E u \in Users :
    \/ Signup(r, u)
    \/ ResendEmailVerification(r, u)
    \/ SendSigninMfaCode(r, u)
    \/ \E code \in Codes : VerifyEmail(r, u, code) \/ VerifySigninMfa(r, u, code)

Serve(r) ==
  \/ CreateUser(r)
  \/ InvalidateActiveChallenges(r)
  \/ CreateChallenge(r)
  \/ IncrementAttempts(r)
  \/ ConsumeChallenge(r)
  \/ SetEmailVerified(r)
  \/ IssueTokenPair(r)

Next ==
  \/ \E r \in Reqs : Arrive(r) \/ Serve(r) \/ DbThrows(r)
  \/ \E u \in Users : SignInWithGoogle(u)
  \/ Restart
  \/ \E i \in DOMAIN challenge : Expire(i)

Spec == Init /\ [][Next]_vars

------------------------------------------------------------------------------
(* Properties *)

ChallengeType ==
  [user : Users, purpose : Purposes, code : Codes, status : {"active", "expired", "consumed"},
   attempts : Nat, guesses : Nat, accepts : Nat, seen : Nat]
LocalsType ==
  [user : Users \cup {None}, purpose : Purposes, row : Nat, verified : BOOLEAN, seen : Nat]

\* Rows and locals have their types, and a handler's row exists.
TypeOK ==
  /\ account \in [Users -> {"none", "unverified", "verified"}]
  /\ challenge \in Seq(ChallengeType)
  /\ pc \in [Reqs -> Labels] /\ req \in [Reqs -> LocalsType]
  /\ faults \in 0..MaxFaults
  /\ \A r \in Reqs : pc[r] \in {"count_guess", "consume"} => req[r].row \in DOMAIN challenge

\* verifyOtp checks attemptCount on a row read before the count is written: overlapping wrong
\* guesses exceed OTP_MAX_ATTEMPTS, by fewer than the requests that overlap.
GuessesBounded ==
  \A i \in DOMAIN challenge : challenge[i].guesses < MaxAttempts + Cardinality(Reqs)

\* A consumed code is never found again: however often it is sent in, only requests that
\* overlapped its first use are answered with tokens.
AcceptsBounded ==
  \A i \in DOMAIN challenge : challenge[i].accepts <= Cardinality(Reqs)

\* A new code replaces every code created before its send began, also those that overlapping
\* sends left behind together.
CodesReplaced ==
  \A i, j \in DOMAIN challenge :
    /\ challenge[i].user = challenge[j].user /\ challenge[i].purpose = challenge[j].purpose
    /\ i <= challenge[j].seen
    => challenge[i].status = "consumed"

\* Tokens are issued to users whose email is verified by then, whatever the flag was when
\* the handler read the user record.
VerifiedFirst ==
  \A r \in Reqs : pc[r] = "issue" => account[req[r].user] = "verified"
==============================================================================
