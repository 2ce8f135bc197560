------------------------------- MODULE Sessions -------------------------------
(***************************************************************************)
(* Sessions and passwords: refresh, forgotPassword, resetPassword and the  *)
(* issue of tokens of services/auth.service.ts, changePassword of          *)
(* services/settings.service.ts, over refreshToken.repository.ts and       *)
(* passwordReset.repository.ts.                                            *)
(*                                                                         *)
(* A session is one successful sign-in and the refresh tokens descending   *)
(* from it.  A refresh token is a row of its own; a deleted row is kept as *)
(* "exchanged" or "revoked" to tell who deleted it.  A request that is     *)
(* refused without changing anything is not a step.                        *)
(***************************************************************************)
EXTENDS Naturals, FiniteSets

CONSTANTS
  Users,
  Accounts,     \* the user each sign-in is of: [Sessions -> Users]
  Sessions,     \* sign-ins (bound)
  Tokens,       \* refresh tokens that can be generated (bound)
  Links,        \* password reset links that can be generated (bound)
  Reqs,         \* request slots (bound on concurrency)
  None,
  MaxFaults     \* bound on failing database calls and restarts

ASSUME SessionsAssumption ==
  /\ Accounts \in [Sessions -> Users]
  /\ None \notin Users /\ None \notin Sessions /\ None \notin Tokens /\ None \notin Links
  /\ MaxFaults \in Nat

VARIABLES
  token,      \* table RefreshToken
  link,       \* table PasswordResetToken
  opened,     \* sign-ins that succeeded
  applied,    \* links that a password was set with
  contested,  \* links that two resets used at once, or whose reset was lost before MarkUsed
  pc, req,    \* per slot: the pending await and the handler's local variables
  faults

history == <<applied, contested>>
vars == <<token, link, opened, history, pc, req, faults>>

------------------------------------------------------------------------------
(* Rows and locals *)

TokenStatus == {"unused", "live", "expired", "exchanged", "revoked"}
TokenRow_Unowned(status, s) == [status |-> status, session |-> None]
TokenRow(status, s) == [status |-> status, session |-> s]

LinkStatus == {"unused", "valid", "expired", "used", "deleted"}
LinkRow(status, u) == [status |-> status, user |-> u]

Locals(u, s, t, k) == [user |-> u, session |-> s, token |-> t, link |-> k]
NoReq == Locals(None, None, None, None)

DbAwaits == {"delete_token", "issue", "delete_links", "create_link",
             "set_password", "mark_used", "delete_tokens"}
Labels == DbAwaits \cup {"idle"}

\* Rows the queries find.
Stored(t) == token[t].status \in {"live", "expired"}
StoredLink(k) == link[k].status \in {"valid", "expired", "used"}
Had(s) == \E t \in Tokens : token[t].session = s

At(r, l) == pc[r] = l
Begin(r, l, locals) ==
  /\ At(r, "idle")
  /\ pc' = [pc EXCEPT ![r] = l] /\ req' = [req EXCEPT ![r] = locals]
Goto(r, l) == pc' = [pc EXCEPT ![r] = l] /\ UNCHANGED req
Finish(r) == pc' = [pc EXCEPT ![r] = "idle"] /\ req' = [req EXCEPT ![r] = NoReq]

\* Room under the bounds for every request already on its way to a new row.
Left(rows, labels) == Cardinality({r \in Reqs : pc[r] \in labels}) < Cardinality(rows)
TokenLeft ==
  Left({t \in Tokens : token[t].status = "unused"}, {"delete_token", "issue"})
LinkLeft ==
  Left({k \in Links : link[k].status = "unused"}, {"delete_links", "create_link"})

------------------------------------------------------------------------------
(* Issue and rotation of refresh tokens *)

\* A sign-in has succeeded (second factor, Google or email verification) and signs an
\* access token; the refresh token is stored by the next await.
SignIn(r, s) ==
  /\ s \notin opened /\ TokenLeft
  /\ opened' = opened \cup {s}
  /\ Begin(r, "issue", Locals(Accounts[s], s, None, None))
  /\ UNCHANGED <<token, link, history, faults>>

\* refresh: the row is found and has not expired.
Refresh(r, t) ==
  /\ token[t].status = "live" /\ TokenLeft
  /\ Begin(r, "delete_token",
           Locals(Accounts[token[t].session], token[t].session, t, None))
  /\ UNCHANGED <<token, link, opened, history, faults>>

\* prisma.delete throws (P2025, answered with 500) when the row is gone.
AfterDelete_DeleteMany(t) == "issue"
AfterDelete(t) == IF Stored(t) THEN "issue" ELSE "idle"

DeleteToken(r) ==
  LET t == req[r].token
  IN  /\ At(r, "delete_token")
      /\ token' = IF Stored(t)
                  THEN [token EXCEPT ![t] = TokenRow("exchanged", @.session)] ELSE token
      /\ IF AfterDelete(t) = "issue" THEN Goto(r, "issue") ELSE Finish(r)
      /\ UNCHANGED <<link, opened, history, faults>>

\* issueTokenPair, with the read of the user before it: users are never deleted.
IssueToken(r) ==
  /\ At(r, "issue")
  /\ \E t \in Tokens :
       /\ token[t].status = "unused"
       /\ token' = [token EXCEPT ![t] = TokenRow("live", req[r].session)]
  /\ Finish(r)
  /\ UNCHANGED <<link, opened, history, faults>>

------------------------------------------------------------------------------
(* Passwords *)

\* forgotPassword; the email that follows may fail without consequence.
ForgotPassword(r, u) ==
  /\ LinkLeft
  /\ Begin(r, "delete_links", Locals(u, None, None, None))
  /\ UNCHANGED <<token, link, opened, history, faults>>

DeleteLinks(r) ==
  /\ At(r, "delete_links")
  /\ link' = [k \in Links |-> IF StoredLink(k) /\ link[k].user = req[r].user
                             THEN LinkRow("deleted", link[k].user) ELSE link[k]]
  /\ Goto(r, "create_link")
  /\ UNCHANGED <<token, opened, history, faults>>

CreateLink(r) ==
  /\ At(r, "create_link")
  /\ \E k \in Links :
       /\ link[k].status = "unused"
       /\ link' = [link EXCEPT ![k] = LinkRow("valid", req[r].user)]
  /\ Finish(r)
  /\ UNCHANGED <<token, opened, history, faults>>

\* A link is found, unused and has not expired.
Usable_Again(k) == link[k].status \in {"valid", "used"}
Usable(k) == link[k].status = "valid"

Resets(r, k) == pc[r] \in {"set_password", "mark_used"} /\ req[r].link = k

\* resetPassword up to the write of the password, with bcrypt in between.
ResetPassword(r, k) ==
  /\ Usable(k)
  /\ Begin(r, "set_password", Locals(link[k].user, None, None, k))
  /\ contested' = contested \cup {j \in {k} : \E q \in Reqs : Resets(q, j)}
  /\ UNCHANGED <<token, link, opened, applied, faults>>

\* changePassword of a user who knows the current password.
ChangePassword(r, u) ==
  /\ Begin(r, "set_password", Locals(u, None, None, None))
  /\ UNCHANGED <<token, link, opened, history, faults>>

SetPassword(r) ==
  /\ At(r, "set_password")
  /\ applied' = applied \cup ({req[r].link} \ {None})
  /\ Goto(r, IF req[r].link = None THEN "delete_tokens" ELSE "mark_used")
  /\ UNCHANGED <<token, link, opened, contested, faults>>

\* prisma.update throws when forgotPassword has deleted the row meanwhile.
MarkUsed(r) ==
  LET k == req[r].link
  IN  /\ At(r, "mark_used")
      /\ IF StoredLink(k)
         THEN link' = [link EXCEPT ![k] = LinkRow("used", @.user)] /\ Goto(r, "delete_tokens")
         ELSE UNCHANGED link /\ Finish(r)
      /\ UNCHANGED <<token, opened, history, faults>>

Revoked_Everyone(u) == {t \in Tokens : Stored(t)}
Revoked(u) == {t \in Tokens : Stored(t) /\ Accounts[token[t].session] = u}

DeleteTokens(r) ==
  /\ At(r, "delete_tokens")
  /\ token' = [t \in Tokens |-> IF t \in Revoked(req[r].user)
                               THEN TokenRow("revoked", token[t].session) ELSE token[t]]
  /\ Finish(r)
  /\ UNCHANGED <<link, opened, history, faults>>

------------------------------------------------------------------------------
(* Failures and time *)

\* The links of slots R whose use goes unrecorded.
Unrecorded(R) == {req[r].link : r \in {q \in R : At(q, "mark_used")}}

\* A database call throws and the handler answers 500.
DbThrows(r) ==
  /\ pc[r] \in DbAwaits /\ faults < MaxFaults /\ faults' = faults + 1
  /\ Finish(r)
  /\ contested' = contested \cup Unrecorded({r})
  /\ UNCHANGED <<token, link, opened, applied>>

\* The process stops and comes back: requests under way are lost.
Restart ==
  /\ faults < MaxFaults /\ faults' = faults + 1
  /\ pc' = [r \in Reqs |-> "idle"] /\ req' = [r \in Reqs |-> NoReq]
  /\ contested' = contested \cup Unrecorded(Reqs)
  /\ UNCHANGED <<token, link, opened, applied>>

TokenExpires(t) ==
  /\ token[t].status = "live"
  /\ token' = [token EXCEPT ![t] = TokenRow("expired", @.session)]
  /\ UNCHANGED <<link, opened, history, pc, req, faults>>

LinkExpires(k) ==
  /\ link[k].status = "valid"
  /\ link' = [link EXCEPT ![k] = LinkRow("expired", @.user)]
  /\ UNCHANGED <<token, opened, history, pc, req, faults>>

------------------------------------------------------------------------------
Init ==
  /\ token = [t \in Tokens |-> TokenRow("unused", None)]
  /\ link = [k \in Links |-> LinkRow("unused", None)]
  /\ opened = {} /\ applied = {} /\ contested = {}
  /\ pc = [r \in Reqs |-> "idle"] /\ req = [r \in Reqs |-> NoReq]
  /\ faults = 0

\* A new request, up to its first database write.
Arrive(r) ==
  \/ \E s \in Sessions : SignIn(r, s)
  \/ \E t \in Tokens : Refresh(r, t)
  \/ \E u \in Users : ForgotPassword(r, u) \/ ChangePassword(r, u)
  \/ \E k \in Links : ResetPassword(r, k)

Serve(r) ==
  \/ DeleteToken(r)
  \/ IssueToken(r)
  \/ DeleteLinks(r)
  \/ CreateLink(r)
  \/ SetPassword(r)
  \/ MarkUsed(r)
  \/ DeleteTokens(r)

Next ==
  \/ \E r \in Reqs : Arrive(r) \/ Serve(r) \/ DbThrows(r)
  \/ Restart
  \/ \E t \in Tokens : TokenExpires(t)
  \/ \E k \in Links : LinkExpires(k)

Spec == Init /\ [][Next]_vars

------------------------------------------------------------------------------
(* Properties *)

\* The rows and locals have their types.
TypeOK ==
  /\ token \in [Tokens -> [status : TokenStatus, session : Sessions \cup {None}]]
  /\ link \in [Links -> [status : LinkStatus, user : Users \cup {None}]]
  /\ opened \subseteq Sessions /\ applied \subseteq Links /\ contested \subseteq Links
  /\ pc \in [Reqs -> Labels]
  /\ req \in [Reqs -> [user : Users \cup {None}, session : Sessions \cup {None},
                       token : Tokens \cup {None}, link : Links \cup {None}]]
  /\ faults \in 0..MaxFaults
  /\ \A t \in Tokens : token[t].session = None <=> token[t].status = "unused"

Current(s) == {t \in Tokens : Stored(t) /\ token[t].session = s}
Issuing(s) == \E r \in Reqs : At(r, "issue") /\ req[r].session = s

\* README.md:106 "they are one-time rotatable": however refreshes of one token overlap,
\* or race a password change, only one exchanges it and its session never forks.
Chain == INSTANCE RefreshChain WITH
  NoSession <- None,
  phase <- [s \in Sessions |-> IF s \notin opened THEN "new"
                               ELSE IF Current(s) # {} THEN "open"
                               ELSE IF Issuing(s) THEN "issuing" ELSE "closed"],
  holder <- [t \in Tokens |-> IF Stored(t) THEN token[t].session ELSE None],
  spent <- {t \in Tokens : token[t].status \in {"exchanged", "revoked"}}

ChainSpec == Chain!Spec

\* A session whose token was revoked stays dead, also when a refresh had checked that token
\* before: deleteRefreshTokenById throws.
RevokedStayDead ==
  \A t \in Tokens : token[t].status = "revoked" =>
    Current(token[t].session) = {} /\ ~Issuing(token[t].session)

\* The row of a session goes only with a failure or a password change of its own user, never
\* through overlapping refreshes or another user's requests.
Open(s) == Current(s) # {} \/ Issuing(s)
KeptUnlessRevoked ==
  [][\A s \in Sessions : Open(s) /\ ~Open(s)' =>
       \/ faults' # faults
       \/ \E r \in Reqs : DeleteTokens(r) /\ req[r].user = Accounts[s]]_vars

\* A reset link sets one password, also when new links are asked for, or the old one expires,
\* while it is used; only two resets that overlap, or a failure after the password is written
\* and before the link is marked, let it set another.
LinkSetsOnce ==
  [][\A r \in Reqs :
       SetPassword(r) /\ req[r].link \in applied => req[r].link \in contested]_vars

\* README.md:83 "Valid token updates the password and revokes existing refresh tokens" and
\* openapi.yaml:1079 "Change password (invalidates refresh tokens)": when a handler that wrote
\* a password is done, no session that had a refresh token goes on.
PasswordRevokes ==
  [][\A r \in Reqs : pc[r] \in {"mark_used", "delete_tokens"} /\ pc'[r] = "idle" =>
       \A s \in Sessions : Accounts[s] = req[r].user /\ Had(s) => ~Open(s)']_vars
==============================================================================
