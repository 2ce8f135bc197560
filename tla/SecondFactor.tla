----------------------------- MODULE SecondFactor -----------------------------
(***************************************************************************)
(* TOTP enrolment and backup codes: beginTotpSetup, verifyTotpAndEnable,   *)
(* disableTotp and regenerateBackupCodes of services/settings.service.ts,  *)
(* and the sign-in with a backup code of lib/mfa/verifyBackupForUser.ts,   *)
(* over totp.repository.ts and backupCode.repository.ts.                   *)
(*                                                                         *)
(* A request is the list of the writes it has yet to do, one database call *)
(* each.  The reads before its first write are one step, and a request     *)
(* they refuse is not a step.  A sign-in with a TOTP code writes nothing.  *)
(***************************************************************************)
EXTENDS Naturals, Sequences, FiniteSets, FiniteSetsExt

CONSTANTS
  Users, Reqs,
  Secrets,      \* what generateSecret may return, repetitions included
  Codes,        \* what a backup code may be, collisions between batches included
  CodeCount,    \* BACKUP_CODE_COUNT
  None,
  MaxBatches,   \* bound on batches
  MaxFaults     \* bound on failing database calls and restarts

ASSUME SecondFactorAssumption ==
  /\ None \notin Users /\ None \notin Secrets /\ None \notin Codes
  /\ CodeCount \in Nat \ {0} /\ MaxFaults \in Nat

VARIABLES
  totp,        \* table UserTotp
  batch,       \* table UserBackupCode: the rows of each batchId
  todo, req,   \* per slot: the writes to come and the handler's local variables
  overlapped,  \* users who had two settings requests under way at once
  faults

vars == <<totp, batch, todo, req, overlapped, faults>>

------------------------------------------------------------------------------
(* Rows and locals *)

\* proved: the user has shown a code of the secret stored.
NoTotp == [secret |-> None, enabled |-> FALSE, proved |-> FALSE]
Pending(secret) == [secret |-> secret, enabled |-> FALSE, proved |-> FALSE]
Enabled(row, secret) ==
  [row EXCEPT !.enabled = TRUE, !.proved = @ \/ row.secret = secret]

\* uses counts the sign-ins each code of the batch was accepted for; seen, how many batches there
\* had been when its request deleted the older ones.
Batch(u, codes, seen) ==
  [user |-> u, codes |-> [c \in Codes |-> IF c \in codes THEN "unused" ELSE "absent"],
   uses |-> [c \in Codes |-> 0], seen |-> seen]

\* Marked as used, and deleted with the other codes of its user.
Spent(row, c) == [row EXCEPT !.codes[c] = "used", !.uses[c] = @ + 1]
Emptied(row) == [row EXCEPT !.codes = [c \in Codes |-> "absent"]]

Unused(u, c) == {b \in DOMAIN batch : batch[b].user = u /\ batch[b].codes[c] = "unused"}

\* secret: the one a code was checked against, or the new one; rows: those of listUnused that
\* the loop has not tried yet and whose hash matches; seen: the batches there were at its delete.
Locals(u, secret, code, rows) ==
  [user |-> u, secret |-> secret, code |-> code, rows |-> rows, seen |-> 0]
NoReq == Locals(None, None, None, {})

------------------------------------------------------------------------------
(* Requests *)

Steps(op) ==
  CASE op = "setup"      -> <<"upsert">>
    [] op = "enable"     -> <<"mark", "delete", "create">>
    [] op = "disable"    -> <<"delete", "drop">>
    [] op = "regenerate" -> <<"delete", "create">>
    [] op = "signin"     -> <<"spend">>

At(r, write) == todo[r] # <<>> /\ Head(todo[r]) = write

Finish(r) == todo' = [todo EXCEPT ![r] = <<>>] /\ req' = [req EXCEPT ![r] = NoReq]
Done(r) ==
  IF Len(todo[r]) = 1 THEN Finish(r)
  ELSE todo' = [todo EXCEPT ![r] = Tail(@)] /\ UNCHANGED req

Busy(u) == \E r \in Reqs : req[r].user = u /\ todo[r] # Steps("signin")

Begin(r, op, locals) ==
  /\ todo[r] = <<>>
  /\ todo' = [todo EXCEPT ![r] = Steps(op)] /\ req' = [req EXCEPT ![r] = locals]
  /\ UNCHANGED <<totp, batch, faults>>

Settings(r, op, locals) ==
  /\ Begin(r, op, locals)
  /\ overlapped' = overlapped \cup {u \in {locals.user} : Busy(u)}

\* The requests under way have room for their batches.
BatchLeft ==
  Len(batch) + Cardinality({r \in Reqs : "create" \in Range(todo[r])}) < MaxBatches

CanSetUp_Again(row) == TRUE
CanSetUp(row) == ~row.enabled

BeginTotpSetup(r, u) ==
  /\ CanSetUp(totp[u])
  /\ \E secret \in Secrets : Settings(r, "setup", Locals(u, secret, None, {}))

\* The user shows a code of the secret: the one on the QR code of some setup.
CodeFits_Any(row, secret) == row.secret # None
CodeFits(row, secret) == row.secret = secret

VerifyTotp(r, u) ==
  /\ BatchLeft
  /\ \E secret \in Secrets :
       /\ CodeFits(totp[u], secret)
       /\ Settings(r, "enable", Locals(u, secret, None, {}))

DisableTotp(r, u) == Settings(r, "disable", Locals(u, None, None, {}))

RegenerateBackupCodes(r, u) ==
  /\ totp[u].enabled /\ BatchLeft
  /\ Settings(r, "regenerate", Locals(u, None, None, {}))

VerifyBackupCode(r, u, c) ==
  /\ Unused(u, c) # {}
  /\ Begin(r, "signin", Locals(u, None, c, Unused(u, c)))
  /\ UNCHANGED overlapped

------------------------------------------------------------------------------
(* Writes *)

UpsertPendingUserTotp(r) ==
  /\ At(r, "upsert")
  /\ totp' = [totp EXCEPT ![req[r].user] = Pending(req[r].secret)]
  /\ Done(r)
  /\ UNCHANGED <<batch, overlapped, faults>>

Updatable_Any(row) == TRUE
Updatable(row) == row.secret # None

\* Prisma's update throws if the row is gone.
MarkUserTotpEnabled(r) ==
  LET row == totp[req[r].user]
  IN  /\ At(r, "mark")
      /\ IF Updatable(row)
         THEN totp' = [totp EXCEPT ![req[r].user] = Enabled(@, req[r].secret)] /\ Done(r)
         ELSE UNCHANGED totp /\ Finish(r)
      /\ UNCHANGED <<batch, overlapped, faults>>

Kept_ButLatest(u, b) == batch[b].user # u \/ \E a \in DOMAIN batch : a > b /\ batch[a].user = u
Kept(u, b) == batch[b].user # u

DeleteBackupCodes(r) ==
  /\ At(r, "delete")
  /\ batch' = [b \in DOMAIN batch |->
       IF Kept(req[r].user, b) THEN batch[b] ELSE Emptied(batch[b])]
  /\ todo' = [todo EXCEPT ![r] = Tail(@)] /\ req' = [req EXCEPT ![r].seen = Len(batch)]
  /\ UNCHANGED <<totp, overlapped, faults>>

CreateBackupCodes(r) ==
  /\ At(r, "create")
  /\ \E codes \in kSubset(CodeCount, Codes) :
       batch' = Append(batch, Batch(req[r].user, codes, req[r].seen))
  /\ Done(r)
  /\ UNCHANGED <<totp, overlapped, faults>>

DeleteUserTotp(r) ==
  /\ At(r, "drop")
  /\ totp' = [totp EXCEPT ![req[r].user] = NoTotp]
  /\ Done(r)
  /\ UNCHANGED <<batch, overlapped, faults>>

Spendable_ById(status) == status # "absent"
Spendable(status) == status = "unused"

\* The rows come in any order; the first that can be marked ends the loop.
MarkBackupCodeUsed(r) ==
  /\ At(r, "spend")
  /\ \E b \in req[r].rows :
       LET c == req[r].code
       IN  IF Spendable(batch[b].codes[c])
           THEN batch' = [batch EXCEPT ![b] = Spent(@, c)] /\ Finish(r)
           ELSE /\ UNCHANGED batch
                /\ IF req[r].rows = {b} THEN Finish(r)
                   ELSE req' = [req EXCEPT ![r].rows = @ \ {b}] /\ UNCHANGED todo
  /\ UNCHANGED <<totp, overlapped, faults>>

------------------------------------------------------------------------------
(* Failures *)

\* A database call throws and the handler answers 500.
DbThrows(r) ==
  /\ todo[r] # <<>> /\ faults < MaxFaults /\ faults' = faults + 1
  /\ Finish(r)
  /\ UNCHANGED <<totp, batch, overlapped>>

\* The process stops and comes back: requests under way are lost.
Restart ==
  /\ faults < MaxFaults /\ faults' = faults + 1
  /\ todo' = [r \in Reqs |-> <<>>] /\ req' = [r \in Reqs |-> NoReq]
  /\ UNCHANGED <<totp, batch, overlapped>>

------------------------------------------------------------------------------
Init ==
  /\ totp = [u \in Users |-> NoTotp]
  /\ batch = <<>>
  /\ todo = [r \in Reqs |-> <<>>] /\ req = [r \in Reqs |-> NoReq]
  /\ overlapped = {} /\ faults = 0

Arrive(r) ==
  \E u \in Users :
    \/ BeginTotpSetup(r, u)
    \/ VerifyTotp(r, u)
    \/ DisableTotp(r, u)
    \/ RegenerateBackupCodes(r, u)
    \/ \E c \in Codes : VerifyBackupCode(r, u, c)

Serve(r) ==
  \/ UpsertPendingUserTotp(r)
  \/ MarkUserTotpEnabled(r)
  \/ DeleteBackupCodes(r)
  \/ CreateBackupCodes(r)
  \/ DeleteUserTotp(r)
  \/ MarkBackupCodeUsed(r)

Next ==
  \/ \E r \in Reqs : Arrive(r) \/ Serve(r) \/ DbThrows(r)
  \/ Restart

Spec == Init /\ [][Next]_vars

------------------------------------------------------------------------------
(* Properties *)

TotpType == [secret : Secrets \cup {None}, enabled : BOOLEAN, proved : BOOLEAN]
BatchType ==
  [user : Users, codes : [Codes -> {"absent", "unused", "used"}], uses : [Codes -> Nat],
   seen : Nat]
LocalsType ==
  [user : Users \cup {None}, secret : Secrets \cup {None}, code : Codes \cup {None},
   rows : SUBSET Nat, seen : Nat]
Todos ==
  {<<>>, <<"upsert">>, <<"mark", "delete", "create">>, <<"delete", "create">>, <<"create">>,
   <<"delete", "drop">>, <<"drop">>, <<"spend">>}

\* Rows and locals have their types, only a stored secret is enabled, and the rows a sign-in
\* listed exist.
TypeOK ==
  /\ totp \in [Users -> TotpType]
  /\ \A u \in Users : totp[u].enabled => totp[u].secret # None
  /\ batch \in Seq(BatchType)
  /\ todo \in [Reqs -> Todos] /\ req \in [Reqs -> LocalsType]
  /\ \A r \in Reqs : req[r].rows \subseteq DOMAIN batch
  /\ overlapped \in SUBSET Users
  /\ faults \in 0..MaxFaults

\* A backup code signs in once, however many sign-ins list it before one of them marks it and
\* whatever deletes and regenerates meanwhile.
UsedOnce == \A b \in DOMAIN batch : \A c \in Codes : batch[b].uses[c] <= 1

HasCodes(b) == \E c \in Codes : batch[b].codes[c] = "unused"

\* As long as a user's settings requests follow one another, backup codes only exist under
\* an enabled TOTP: also between two writes, and after a crash between them.
CodesNeedTotp ==
  \A b \in DOMAIN batch :
    HasCodes(b) /\ batch[b].user \notin overlapped => totp[batch[b].user].enabled

\* A new batch replaces every one that its user had when its request deleted the codes, also
\* those that overlapping requests left behind together.
BatchesReplaced ==
  \A a, b \in DOMAIN batch :
    batch[a].user = batch[b].user /\ a <= batch[b].seen => ~HasCodes(a)

\* As long as a user's settings requests follow one another, the secret that is enabled is one
\* the user has shown a code of.
EnabledProved ==
  \A u \in Users : totp[u].enabled /\ u \notin overlapped => totp[u].proved
==============================================================================
