------------------------------- MODULE Accounts -------------------------------
(***************************************************************************)
(* The rows of table User: signup and signInWithGoogle of                  *)
(* services/auth.service.ts, patchProfile of services/settings.service.ts  *)
(* and verifyPhoneForUser with checkPhoneVerification of                   *)
(* services/twilioVerify.service.ts, over user.repository.ts.              *)
(*                                                                         *)
(* An account is known by its email: it is unique, and nothing changes it. *)
(* Codes sent by email are EmailOtp's business, tokens and passwords       *)
(* Sessions'.  A request that is refused without changing anything before  *)
(* its first write is not a step.                                          *)
(***************************************************************************)
EXTENDS Naturals, FiniteSets

CONSTANTS
  Emails, Phones,
  Profiles,     \* accounts that profile and phone requests are sent for (bound)
  Subs,         \* subjects of Google ID tokens
  Identities,   \* the subjects and addresses that Google vouches for together
  Reqs,         \* request slots (bound on concurrency)
  None,         \* SQL null
  MaxFaults     \* bound on failing database calls and restarts

ASSUME AccountsAssumption ==
  /\ Identities \subseteq Subs \X Emails /\ Profiles \subseteq Emails
  /\ None \notin Emails /\ None \notin Phones /\ None \notin Subs
  /\ MaxFaults \in Nat

VARIABLES
  account,      \* table User, by email
  pc, req,      \* per slot: the pending await and the handler's local variables
  granted,      \* subject and account of each Google sign-in that got tokens
  displaced,    \* subjects whose link another subject's has overwritten
  proved,       \* per account, the number of the last code that Twilio approved
  overlapped,   \* accounts that had two profile or phone requests under way at once
  faults

history == <<granted, displaced, proved, overlapped>>
vars == <<account, pc, req, history, faults>>

------------------------------------------------------------------------------
(* Rows and locals *)

Row == [exists : BOOLEAN, sub : Subs \cup {None}, phone : Phones \cup {None},
        phoneVerified : BOOLEAN]

NoAccount == [exists |-> FALSE, sub |-> None, phone |-> None, phoneVerified |-> FALSE]
NewUser(phone) == [exists |-> TRUE, sub |-> None, phone |-> phone, phoneVerified |-> FALSE]
NewOAuthUser(sub) == [exists |-> TRUE, sub |-> sub, phone |-> None, phoneVerified |-> FALSE]

\* User.googleSub is unique: the account a subject is linked to, if any.
LinkedTo(sub) == {e \in Emails : account[e].sub = sub}

\* email: the account, or the address Google vouches for; sub: the subject of the ID token;
\* phone: the number read, or the new one; changed: whether it differs from the one read.
Locals(e, sub, phone, changed) == [email |-> e, sub |-> sub, phone |-> phone, changed |-> changed]
NoReq == Locals(None, None, None, FALSE)

GoogleLookups == {"find_email", "link", "create_oauth_user", "find_raced"}
ProfileAwaits == {"find_existing", "update_profile", "check_code", "set_phone_verified"}
DbAwaits == GoogleLookups \cup {"create_user", "issue"} \cup (ProfileAwaits \ {"check_code"})
Labels == DbAwaits \cup {"check_code", "idle"}

At(r, l) == pc[r] = l
Begin(r, l, locals) ==
  /\ At(r, "idle")
  /\ pc' = [pc EXCEPT ![r] = l] /\ req' = [req EXCEPT ![r] = locals]
Goto(r, l) == pc' = [pc EXCEPT ![r] = l] /\ UNCHANGED req
Finish(r) == pc' = [pc EXCEPT ![r] = "idle"] /\ req' = [req EXCEPT ![r] = NoReq]

------------------------------------------------------------------------------
(* Sign-up with a password *)

\* Up to the password's hash.
Signup(r, e, phone) ==
  /\ ~account[e].exists
  /\ Begin(r, "create_user", Locals(e, None, phone, FALSE))
  /\ UNCHANGED <<account, history, faults>>

\* An account created meanwhile makes it EmailTakenError (P2002).
CreateUser(r) ==
  LET e == req[r].email
  IN  /\ At(r, "create_user")
      /\ account' = IF account[e].exists THEN account
                    ELSE [account EXCEPT ![e] = NewUser(req[r].phone)]
      /\ Finish(r)
      /\ UNCHANGED <<history, faults>>

------------------------------------------------------------------------------
(* Sign-in with Google *)

\* Google vouches for the token's subject and verified address.
VerifyGoogleIdToken(sub, e) == <<sub, e>> \in Identities

\* findUserByGoogleSub.  The account found is read again by its id.
SignInWithGoogle(r, sub, e) ==
  /\ VerifyGoogleIdToken(sub, e)
  /\ \/ /\ LinkedTo(sub) = {}
        /\ Begin(r, "find_email", Locals(e, sub, None, FALSE))
     \/ \E f \in LinkedTo(sub) : Begin(r, "issue", Locals(f, sub, None, FALSE))
  /\ UNCHANGED <<account, history, faults>>

\* What an account found by its email leads to; a link to another subject is refused.
AfterFound(row, sub) ==
  IF row.sub = None THEN "link" ELSE IF row.sub = sub THEN "issue" ELSE "idle"

GoOn(r, l) == IF l = "idle" THEN Finish(r) ELSE Goto(r, l)

FindByEmail(r) ==
  LET row == account[req[r].email]
  IN  /\ At(r, "find_email")
      /\ GoOn(r, IF row.exists THEN AfterFound(row, req[r].sub) ELSE "create_oauth_user")
      /\ UNCHANGED <<account, history, faults>>

\* The subject is unique: prisma throws P2002 (answered with 500) when another account has the subject.
SubTaken_NotUnique(sub, e) == FALSE
SubTaken(sub, e) == LinkedTo(sub) \ {e} # {}

Overwritten(old, new) == {old} \ {None, new}

LinkGoogleAccount(r) ==
  LET e == req[r].email
      sub == req[r].sub
  IN  /\ At(r, "link")
      /\ IF SubTaken(sub, e)
         THEN Finish(r) /\ UNCHANGED <<account, displaced>>
         ELSE /\ account' = [account EXCEPT ![e].sub = sub]
              /\ displaced' = displaced \cup Overwritten(account[e].sub, sub)
              /\ Goto(r, "issue")
      /\ UNCHANGED <<granted, proved, overlapped, faults>>

\* P2002, for the email or the subject, leads to the catch.
AfterCreateFails_Refused == "idle"
AfterCreateFails == "find_raced"

CreateOAuthUser(r) ==
  LET e == req[r].email
      sub == req[r].sub
  IN  /\ At(r, "create_oauth_user")
      /\ IF account[e].exists \/ SubTaken(sub, e)
         THEN GoOn(r, AfterCreateFails) /\ UNCHANGED account
         ELSE account' = [account EXCEPT ![e] = NewOAuthUser(sub)] /\ Goto(r, "issue")
      /\ UNCHANGED <<history, faults>>

AfterRaced_NoCheck(row, sub) == AfterFound(row, sub)
AfterRaced(row, sub) == IF row.exists THEN AfterFound(row, sub) ELSE "idle"

FindRaced(r) ==
  /\ At(r, "find_raced")
  /\ GoOn(r, AfterRaced(account[req[r].email], req[r].sub))
  /\ UNCHANGED <<account, history, faults>>

IssueTokenPair(r) ==
  /\ At(r, "issue")
  /\ granted' = granted \cup {<<req[r].sub, req[r].email>>}
  /\ Finish(r)
  /\ UNCHANGED <<account, displaced, proved, overlapped, faults>>

------------------------------------------------------------------------------
(* Profile and phone number *)

Busy(e) == \E r \in Reqs : pc[r] \in ProfileAwaits /\ req[r].email = e

BeginProfile(r, l, locals) ==
  /\ locals.email \in Profiles /\ account[locals.email].exists
  /\ Begin(r, l, locals)
  /\ overlapped' = overlapped \cup {e \in {locals.email} : Busy(e)}
  /\ UNCHANGED <<account, granted, displaced, proved, faults>>

\* patchProfile with a number, or null to clear it.  The row it reads first only decides
\* whether a text message goes out in the end.
PatchProfile(r, e, phone) == BeginProfile(r, "find_existing", Locals(e, None, phone, FALSE))

FindExisting(r) ==
  LET e == req[r].email
  IN  /\ At(r, "find_existing")
      /\ pc' = [pc EXCEPT ![r] = "update_profile"]
      /\ req' = [req EXCEPT ![r].changed = account[e].phone # req[r].phone]
      /\ UNCHANGED <<account, history, faults>>

KeepsVerified_Always(phone, changed) == phone # None
KeepsVerified(phone, changed) == ~changed /\ phone # None

Patched(row, phone, changed) ==
  [row EXCEPT !.phone = phone, !.phoneVerified = @ /\ KeepsVerified(phone, changed)]

UpdateProfile(r) ==
  /\ At(r, "update_profile")
  /\ account' = [account EXCEPT ![req[r].email] = Patched(@, req[r].phone, req[r].changed)]
  /\ Finish(r)
  /\ UNCHANGED <<history, faults>>

CanVerify(row) == row.phone # None /\ ~row.phoneVerified

VerifyPhone(r, e) ==
  /\ CanVerify(account[e])
  /\ BeginProfile(r, "check_code", Locals(e, None, account[e].phone, FALSE))

\* Twilio approves the code sent to the number, or the check fails or times out.
CheckReply(r) ==
  /\ At(r, "check_code")
  /\ \/ /\ proved' = [proved EXCEPT ![req[r].email] = req[r].phone]
        /\ Goto(r, "set_phone_verified")
     \/ UNCHANGED proved /\ Finish(r)
  /\ UNCHANGED <<account, granted, displaced, overlapped, faults>>

SetPhoneVerified(r) ==
  /\ At(r, "set_phone_verified")
  /\ account' = [account EXCEPT ![req[r].email].phoneVerified = TRUE]
  /\ Finish(r)
  /\ UNCHANGED <<history, faults>>

------------------------------------------------------------------------------
(* Failures *)

\* A database call throws and the handler answers 500.
DbThrows(r) ==
  /\ pc[r] \in DbAwaits /\ faults < MaxFaults /\ faults' = faults + 1
  /\ Finish(r)
  /\ UNCHANGED <<account, history>>

\* The process stops and comes back: requests under way are lost.
Restart ==
  /\ faults < MaxFaults /\ faults' = faults + 1
  /\ pc' = [r \in Reqs |-> "idle"] /\ req' = [r \in Reqs |-> NoReq]
  /\ UNCHANGED <<account, history>>

------------------------------------------------------------------------------
Init ==
  /\ account = [e \in Emails |-> NoAccount]
  /\ pc = [r \in Reqs |-> "idle"] /\ req = [r \in Reqs |-> NoReq]
  /\ granted = {} /\ displaced = {} /\ proved = [e \in Emails |-> None] /\ overlapped = {}
  /\ faults = 0

Arrive(r) ==
  \E e \in Emails :
    \/ \E phone \in Phones : Signup(r, e, phone)
    \/ \E sub \in Subs : SignInWithGoogle(r, sub, e)
    \/ \E phone \in Phones \cup {None} : PatchProfile(r, e, phone)
    \/ VerifyPhone(r, e)

Serve(r) ==
  \/ CreateUser(r)
  \/ FindByEmail(r)
  \/ LinkGoogleAccount(r)
  \/ CreateOAuthUser(r)
  \/ FindRaced(r)
  \/ IssueTokenPair(r)
  \/ FindExisting(r)
  \/ UpdateProfile(r)
  \/ CheckReply(r)
  \/ SetPhoneVerified(r)

Next ==
  \/ \E r \in Reqs : Arrive(r) \/ Serve(r) \/ DbThrows(r)
  \/ Restart

Spec == Init /\ [][Next]_vars

------------------------------------------------------------------------------
(* Properties *)

\* Rows, locals and history have their types, and only accounts that exist are linked or
\* worked on.
TypeOK ==
  /\ account \in [Emails -> Row]
  /\ \A e \in Emails : account[e].sub # None \/ account[e].phoneVerified => account[e].exists
  /\ pc \in [Reqs -> Labels]
  /\ req \in [Reqs -> [email : Emails \cup {None}, sub : Subs \cup {None},
                       phone : Phones \cup {None}, changed : BOOLEAN]]
  /\ \A r \in Reqs :
       pc[r] \in ProfileAwaits \cup {"link", "issue"} => account[req[r].email].exists
  /\ granted \subseteq Subs \X Emails /\ displaced \subseteq Subs
  /\ proved \in [Emails -> Phones \cup {None}] /\ overlapped \subseteq Emails
  /\ faults \in 0..MaxFaults

\* A Google user comes back to one account, whatever address the ID token names by then and
\* however sign-ins and sign-ups overlap, unless another subject's link overwrote theirs.
OneAccountPerSubject ==
  \A s \in Subs \ displaced : \A e, f \in Emails :
    <<s, e>> \in granted /\ <<s, f>> \in granted => e = f

\* A Google sign-in that no failure cuts short is turned away only for a conflict that exists:
\* the address belongs to another subject, or the subject to another address.  Losing the
\* race for the new account is no reason.  A subject whose link was overwritten (displaced)
\* is exempt.
Refused(r) == pc[r] \in GoogleLookups /\ pc'[r] = "idle" /\ faults' = faults
ConflictsReal ==
  [][\A r \in Reqs : Refused(r) =>
       \/ account[req[r].email].sub \notin {None, req[r].sub}
       \/ SubTaken(req[r].sub, req[r].email)
       \/ req[r].sub \in displaced]_vars

\* As long as an account's profile and phone requests follow one another, phoneVerified means
\* that the last code Twilio approved was one for the number stored.
PhoneProved ==
  \A e \in Emails \ overlapped :
    account[e].phoneVerified => proved[e] # None /\ proved[e] = account[e].phone
==============================================================================
