------------------------------- MODULE Passkeys -------------------------------
(***************************************************************************)
(* Passkeys: registration, in services/settings.service.ts, and sign-in,   *)
(* in services/authSigninWebauthn.service.ts, over webauthn.repository.ts. *)
(*                                                                         *)
(* A response is what an authenticator makes of a challenge; a client may  *)
(* send it in again, when it got no answer.  A request that is refused     *)
(* without changing anything before its first write is not a step.         *)
(***************************************************************************)
EXTENDS Naturals, Sequences, FiniteSets

CONSTANTS
  Users, Reqs, None,
  Creds,           \* credential ids that authenticators can create (bound)
  Counting,        \* those whose authenticator counts its signatures
  MaxChallenges,   \* bound on options requests
  MaxSignatures,   \* bound on signature counters
  MaxRows,         \* bound on the rows a credential has had
  MaxFaults        \* bound on failing database calls and restarts

ASSUME PasskeysAssumption ==
  /\ Counting \subseteq Creds
  /\ None \notin Users /\ None \notin Creds
  /\ MaxChallenges \in Nat /\ MaxSignatures \in Nat /\ MaxRows \in Nat /\ MaxFaults \in Nat

VARIABLES
  challenge,    \* table WebAuthnChallenge, in the order of createdAt
  credential,   \* table WebAuthnCredential, by credentialId
  pc, req,      \* per slot: the pending await and the handler's local variables
  made,         \* responses that authenticators have made
  accepted,     \* responses that a sign-in was granted for
  repeated,     \* those that it was granted for again
  overlapped,   \* users who had two passkey requests under way at once
  contested,    \* responses that two sign-ins verified at once
  faults

history == <<made, accepted, repeated, overlapped, contested>>
vars == <<challenge, credential, pc, req, history, faults>>

------------------------------------------------------------------------------
(* Rows, responses and locals *)

Kinds == {"REGISTRATION", "AUTHENTICATION"}

\* seen: how many challenges there had been when its request deleted the older ones.  A row
\* stays on record when it is deleted; kept tells that deleting it failed once.
NewChallenge(u, kind, seen) ==
  [user |-> u, kind |-> kind, status |-> "active", kept |-> FALSE, seen |-> seen]
WithStatus(row, status) == [row EXCEPT !.status = status]

\* A credential's rows are numbered, like their ids; a removed one has no owner.
Credential(owner, counter, row) == [owner |-> owner, counter |-> counter, row |-> row]
NoCredential == Credential(None, 0, 0)

Response(i, c, n) == [challenge |-> i, cred |-> c, counter |-> n]
NoResponse == Response(0, None, 0)
UserOf(response) == challenge[response.challenge].user
KindOf(response) == challenge[response.challenge].kind

\* valid: the response's signature verified; row: the credential's row that was read.
Locals(u, kind, response, valid, row, seen) ==
  [user |-> u, kind |-> kind, response |-> response, valid |-> valid, row |-> row, seen |-> seen]
NoReq == Locals(None, "REGISTRATION", NoResponse, FALSE, 0, 0)

Verifying == {"find_credential", "delete_challenge", "insert_credential", "update_counter", "issue"}
Labels == Verifying \cup {"delete_old", "create", "idle"}

At(r, l) == pc[r] = l
Goto(r, l) == pc' = [pc EXCEPT ![r] = l] /\ UNCHANGED req
Finish(r) == pc' = [pc EXCEPT ![r] = "idle"] /\ req' = [req EXCEPT ![r] = NoReq]

Busy(u) == \E r \in Reqs : pc[r] # "idle" /\ req[r].user = u
NoteOverlap(u) == overlapped' = overlapped \cup {v \in {u} : Busy(v)}

Verified(p, r) ==
  pc[r] \in Verifying /\ req[r].kind = "AUTHENTICATION" /\ req[r].response = p
NoteContest(p) == contested' = contested \cup {q \in {p} : \E r \in Reqs : Verified(q, r)}

Begin(r, l, locals) ==
  /\ At(r, "idle")
  /\ pc' = [pc EXCEPT ![r] = l] /\ req' = [req EXCEPT ![r] = locals]
  /\ NoteOverlap(locals.user) /\ NoteContest(locals.response)
  /\ UNCHANGED <<challenge, credential, made, accepted, repeated, faults>>

------------------------------------------------------------------------------
(* Options *)

\* The options requests under way have room for their challenges.
OptionsLeft ==
  Len(challenge) + Cardinality({r \in Reqs : pc[r] \in {"delete_old", "create"}}) < MaxChallenges

\* webauthnRegistrationOptions and signinWebauthnAuthenticationOptions, up to the rows to delete.
Options(r, u, kind) ==
  /\ OptionsLeft
  /\ kind = "AUTHENTICATION" => \E c \in Creds : credential[c].owner = u
  /\ Begin(r, "delete_old", Locals(u, kind, NoResponse, FALSE, 0, 0))

Matching(u, kind) ==
  {i \in DOMAIN challenge : challenge[i].user = u /\ challenge[i].kind = kind}

\* The latest challenge that is not deleted and has not expired.
Latest(u, kind) ==
  {i \in Matching(u, kind) :
     /\ challenge[i].status = "active"
     /\ \A j \in Matching(u, kind) : challenge[j].status = "active" => j <= i}

Deleted_Latest(u, kind) == Latest(u, kind)
Deleted(u, kind) == Matching(u, kind)

DeleteOldChallenges(r) ==
  /\ At(r, "delete_old")
  /\ challenge' = [i \in DOMAIN challenge |->
       IF i \in Deleted(req[r].user, req[r].kind)
       THEN WithStatus(challenge[i], "deleted") ELSE challenge[i]]
  /\ pc' = [pc EXCEPT ![r] = "create"]
  /\ req' = [req EXCEPT ![r].seen = Len(challenge)]
  /\ UNCHANGED <<credential, history, faults>>

CreateChallenge(r) ==
  /\ At(r, "create")
  /\ challenge' = Append(challenge, NewChallenge(req[r].user, req[r].kind, req[r].seen))
  /\ Finish(r)
  /\ UNCHANGED <<credential, history, faults>>

------------------------------------------------------------------------------
(* Authenticators *)

Respond(response) ==
  /\ made' = made \cup {response}
  /\ UNCHANGED <<challenge, credential, pc, req, accepted, repeated, overlapped, contested, faults>>

\* A credential is created for one registration challenge.
Attest(i, c) ==
  /\ challenge[i].kind = "REGISTRATION"
  /\ \A p \in made : p.cred # c
  /\ Respond(Response(i, c, 0))

\* A counter goes up with each signature; an authenticator without one reports 0.
Sign(i, c, n) ==
  /\ challenge[i].kind = "AUTHENTICATION" /\ credential[c].row > 0
  /\ \E p \in made : p.cred = c /\ UserOf(p) = challenge[i].user
  /\ IF c \in Counting THEN \A p \in made : p.cred = c => p.counter < n ELSE n = 0
  /\ Respond(Response(i, c, n))

------------------------------------------------------------------------------
(* Verification *)

Verify(r, response, kind, l, valid) ==
  /\ KindOf(response) = kind
  /\ response.challenge \in Latest(UserOf(response), kind)
  /\ Begin(r, l, Locals(UserOf(response), kind, response, valid, 0, 0))

\* The response passes the library's checks, and its signature may verify.
RegistrationVerify(r, response, valid) ==
  Verify(r, response, "REGISTRATION", "delete_challenge", valid)

AuthenticationVerify(r, response) ==
  Verify(r, response, "AUTHENTICATION", "find_credential", FALSE)

\* verifyAuthenticationResponse throws when a counter, on either side, does not go up.
CounterStale_Equal(n, stored) == n < stored
CounterStale(n, stored) == (n > 0 \/ stored > 0) /\ n <= stored

FindCredential(r) ==
  LET response == req[r].response
      row == credential[response.cred]
  IN  /\ At(r, "find_credential")
      /\ IF row.owner # req[r].user \/ CounterStale(response.counter, row.counter)
         THEN Finish(r)
         ELSE \E valid \in BOOLEAN :
                /\ pc' = [pc EXCEPT ![r] = "delete_challenge"]
                /\ req' = [req EXCEPT ![r].valid = valid, ![r].row = row.row]
      /\ UNCHANGED <<challenge, credential, history, faults>>

AfterDelete(locals) ==
  IF ~locals.valid THEN "idle"
  ELSE IF locals.kind = "REGISTRATION" THEN "insert_credential" ELSE "update_counter"

GoOn(r, l) == IF l = "idle" THEN Finish(r) ELSE Goto(r, l)

\* An error is swallowed, and the handler goes on with the challenge still there.
Spent_Stays(row) == row
Spent(row) == WithStatus(row, "deleted")
Keep(row) == [row EXCEPT !.kept = TRUE]

DeleteChallenge(r) ==
  LET i == req[r].response.challenge
  IN  /\ At(r, "delete_challenge")
      /\ \/ challenge' = [challenge EXCEPT ![i] = Spent(@)] /\ UNCHANGED faults
         \/ /\ faults < MaxFaults /\ faults' = faults + 1
            /\ challenge' = [challenge EXCEPT ![i] = Keep(@)]
      /\ GoOn(r, AfterDelete(req[r]))
      /\ UNCHANGED <<credential, history>>

\* P2002, when the credential is registered already, is answered with 500.
InsertCredential(r) ==
  LET response == req[r].response
      row == credential[response.cred]
  IN  /\ At(r, "insert_credential")
      /\ credential' = IF row.owner # None THEN credential
                       ELSE [credential EXCEPT ![response.cred] =
                               Credential(req[r].user, response.counter, row.row + 1)]
      /\ Finish(r)
      /\ UNCHANGED <<challenge, history, faults>>

Counted_Next(row, n) == [row EXCEPT !.counter = n + 1]
Counted(row, n) == [row EXCEPT !.counter = n]

\* updateMany changes nothing when the row is gone.
UpdateCounter(r) ==
  LET response == req[r].response
      row == credential[response.cred]
  IN  /\ At(r, "update_counter")
      /\ credential' = IF row.owner = req[r].user /\ row.row = req[r].row
                       THEN [credential EXCEPT ![response.cred] = Counted(@, response.counter)]
                       ELSE credential
      /\ Goto(r, "issue")
      /\ UNCHANGED <<challenge, history, faults>>

IssueTokenPair(r) ==
  LET response == req[r].response
  IN  /\ At(r, "issue")
      /\ accepted' = accepted \cup {response}
      /\ repeated' = repeated \cup ({response} \cap accepted)
      /\ Finish(r)
      /\ UNCHANGED <<challenge, credential, made, overlapped, contested, faults>>

RemoveWebauthnCredential(u, c) ==
  /\ credential[c].owner = u /\ credential[c].row < MaxRows
  /\ credential' = [credential EXCEPT ![c].owner = None]
  /\ NoteOverlap(u)
  /\ UNCHANGED <<challenge, pc, req, made, accepted, repeated, contested, faults>>

------------------------------------------------------------------------------
(* Failures and time *)

\* A database call throws and the handler answers 500.
DbThrows(r) ==
  /\ pc[r] \notin {"idle", "delete_challenge"} /\ faults < MaxFaults /\ faults' = faults + 1
  /\ Finish(r)
  /\ UNCHANGED <<challenge, credential, history>>

\* The process stops and comes back: requests under way are lost.
Restart ==
  /\ faults < MaxFaults /\ faults' = faults + 1
  /\ pc' = [r \in Reqs |-> "idle"] /\ req' = [r \in Reqs |-> NoReq]
  /\ UNCHANGED <<challenge, credential, history>>

Expire(i) ==
  /\ challenge[i].status = "active"
  /\ challenge' = [challenge EXCEPT ![i] = WithStatus(@, "expired")]
  /\ UNCHANGED <<credential, pc, req, history, faults>>

------------------------------------------------------------------------------
Init ==
  /\ challenge = <<>>
  /\ credential = [c \in Creds |-> NoCredential]
  /\ pc = [r \in Reqs |-> "idle"] /\ req = [r \in Reqs |-> NoReq]
  /\ made = {} /\ accepted = {} /\ repeated = {}
  /\ overlapped = {} /\ contested = {}
  /\ faults = 0

Arrive(r) ==
  \/ \E u \in Users, kind \in Kinds : Options(r, u, kind)
  \/ \E response \in made :
       \/ \E valid \in BOOLEAN : RegistrationVerify(r, response, valid)
       \/ AuthenticationVerify(r, response)

Serve(r) ==
  \/ DeleteOldChallenges(r)
  \/ CreateChallenge(r)
  \/ FindCredential(r)
  \/ DeleteChallenge(r)
  \/ InsertCredential(r)
  \/ UpdateCounter(r)
  \/ IssueTokenPair(r)

Elsewhere ==
  \/ \E i \in DOMAIN challenge, c \in Creds :
       Attest(i, c) \/ \E n \in 0..MaxSignatures : Sign(i, c, n)
  \/ \E u \in Users, c \in Creds : RemoveWebauthnCredential(u, c)
  \/ \E i \in DOMAIN challenge : Expire(i)

Next ==
  \/ \E r \in Reqs : Arrive(r) \/ Serve(r) \/ DbThrows(r)
  \/ Elsewhere
  \/ Restart

Spec == Init /\ [][Next]_vars

------------------------------------------------------------------------------
(* Properties *)

ChallengeType ==
  [user : Users, kind : Kinds, status : {"active", "expired", "deleted"}, kept : BOOLEAN,
   seen : Nat]
ResponseType == [challenge : Nat, cred : Creds \cup {None}, counter : 0..MaxSignatures]
LocalsType ==
  [user : Users \cup {None}, kind : Kinds, response : ResponseType, valid : BOOLEAN, row : Nat,
   seen : Nat]

\* Rows, responses and locals have their types, every response is one to a challenge, and a
\* handler verifies a response of its own user.
TypeOK ==
  /\ challenge \in Seq(ChallengeType)
  /\ credential \in [Creds -> [owner : Users \cup {None}, counter : 0..MaxSignatures, row : Nat]]
  /\ pc \in [Reqs -> Labels] /\ req \in [Reqs -> LocalsType]
  /\ made \subseteq ResponseType
  /\ \A p \in made : p.challenge \in DOMAIN challenge /\ p.cred \in Creds
  /\ accepted \subseteq made /\ repeated \subseteq accepted /\ overlapped \subseteq Users
  /\ contested \subseteq made
  /\ faults \in 0..MaxFaults
  /\ \A r \in Reqs :
       pc[r] \in Verifying => req[r].response \in made /\ UserOf(req[r].response) = req[r].user

\* A new challenge replaces every one of its user and kind created before its request began to
\* delete them, also those that overlapping requests left behind together.
ChallengesReplaced ==
  \A i, j \in DOMAIN challenge :
    /\ challenge[i].user = challenge[j].user /\ challenge[i].kind = challenge[j].kind
    /\ i <= challenge[j].seen
    => challenge[i].status = "deleted"

\* A passkey that its user removed does not come back by the registration response that is
\* sent in again, unless requests overlap or deleting the challenge failed.
RemovedForGood ==
  \A p \in made :
    /\ KindOf(p) = "REGISTRATION" /\ credential[p.cred].row > 1
    => UserOf(p) \in overlapped \/ challenge[p.challenge].kept

\* A passkey response signs in once, unless two sign-ins verify it at once.  When deleting the
\* challenge failed, it still does if the user's requests follow one another, the authenticator
\* counts and the passkey has not been replaced.
ResponseOnce ==
  \A p \in repeated :
    \/ p \in contested
    \/ /\ challenge[p.challenge].kept
       /\ \/ UserOf(p) \in overlapped
          \/ p.cred \notin Counting \/ credential[p.cred].row > 1
==============================================================================
