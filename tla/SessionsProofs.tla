---------------------------- MODULE SessionsProofs ----------------------------
(***************************************************************************)
(* Proofs about Sessions, for every number of users, sign-ins, tokens,     *)
(* links and overlapping requests and every bound on faults.               *)
(***************************************************************************)
EXTENDS Sessions, TLAPS

TokenType == [status : TokenStatus, session : Sessions \cup {None}]
LinkType == [status : LinkStatus, user : Users \cup {None}]
ReqType == [user : Users \cup {None}, session : Sessions \cup {None},
            token : Tokens \cup {None}, link : Links \cup {None}]

\* TypeOK with names for the row types, and what a slot at each await holds.
TypeInv ==
  /\ token \in [Tokens -> TokenType] /\ link \in [Links -> LinkType]
  /\ opened \subseteq Sessions /\ applied \subseteq Links /\ contested \subseteq Links
  /\ pc \in [Reqs -> Labels] /\ req \in [Reqs -> ReqType]
  /\ faults \in 0..MaxFaults
  /\ \A t \in Tokens : token[t].session = None <=> token[t].status = "unused"
  /\ \A r \in Reqs : /\ pc[r] = "issue" => req[r].session \in Sessions
                     /\ pc[r] = "delete_token" =>
                          /\ req[r].token \in Tokens
                          /\ token[req[r].token].status # "unused"
                          /\ token[req[r].token].session = req[r].session
                     /\ pc[r] = "mark_used" => req[r].link \in Links

LEMMA TypeOKNamed == TypeInv => TypeOK
<1> USE DEF TokenType, LinkType, ReqType
<1> QED
  BY Zenon DEF TypeInv, TypeOK

\* The rows and locals the code writes are typed.
LEMMA RowsTyped ==
  /\ \A status \in TokenStatus, s \in Sessions \cup {None} :
       /\ TokenRow(status, s) \in TokenType
       /\ TokenRow(status, s).status = status /\ TokenRow(status, s).session = s
  /\ \A status \in LinkStatus, u \in Users \cup {None} : LinkRow(status, u) \in LinkType
  /\ \A u \in Users \cup {None}, s \in Sessions \cup {None}, t \in Tokens \cup {None},
        k \in Links \cup {None} :
       /\ Locals(u, s, t, k) \in ReqType
       /\ Locals(u, s, t, k).session = s /\ Locals(u, s, t, k).token = t
       /\ Locals(u, s, t, k).link = k
  /\ NoReq \in ReqType
<1> QED
  BY DEF TokenRow, TokenType, LinkRow, LinkType, Locals, ReqType, NoReq

------------------------------------------------------------------------------
(* Types *)

\* Moving a slot keeps the types when what its new await needs is there.
LEMMA MoveTyped ==
  ASSUME TypeInv, NEW r \in Reqs, NEW l \in Labels, NEW locals \in ReqType,
         pc' = [pc EXCEPT ![r] = l], req' = [req EXCEPT ![r] = locals],
         token' \in [Tokens -> TokenType], link' \in [Links -> LinkType],
         opened' \subseteq Sessions, applied' \subseteq Links, contested' \subseteq Links, faults' \in 0..MaxFaults,
         \A t \in Tokens : token'[t].session = None <=> token'[t].status = "unused",
         \A t \in Tokens : token[t].status # "unused" =>
           token'[t].status # "unused" /\ token'[t].session = token[t].session,
         l = "issue" => locals.session \in Sessions,
         l = "delete_token" => /\ locals.token \in Tokens
                               /\ token'[locals.token].status # "unused"
                               /\ token'[locals.token].session = locals.session,
         l = "mark_used" => locals.link \in Links
  PROVE  TypeInv'
<1>1. \A q \in Reqs : /\ pc'[q] = IF q = r THEN l ELSE pc[q]
                      /\ req'[q] = IF q = r THEN locals ELSE req[q]
  BY DEF TypeInv
<1>2. pc' \in [Reqs -> Labels] /\ req' \in [Reqs -> ReqType]
  BY DEF TypeInv
<1> QED
  BY <1>1, <1>2 DEF TypeInv

\* So does a handler's end.
LEMMA FinishTyped ==
  ASSUME TypeInv, NEW r \in Reqs, Finish(r),
         token' \in [Tokens -> TokenType], link' \in [Links -> LinkType],
         opened' \subseteq Sessions, applied' \subseteq Links, contested' \subseteq Links, faults' \in 0..MaxFaults,
         \A t \in Tokens : token'[t].session = None <=> token'[t].status = "unused",
         \A t \in Tokens : token[t].status # "unused" =>
           token'[t].status # "unused" /\ token'[t].session = token[t].session
  PROVE  TypeInv'
<1>1. NoReq \in ReqType /\ "idle" \in Labels
  BY RowsTyped DEF Labels
<1>2. pc' = [pc EXCEPT ![r] = "idle"] /\ req' = [req EXCEPT ![r] = NoReq]
  BY DEF Finish
<1> QED
  BY <1>1, <1>2, MoveTyped

LEMMA TypeStep == TypeInv /\ [Next]_vars => TypeInv'
<1> SUFFICES ASSUME TypeInv, [Next]_vars
             PROVE  TypeInv'
  OBVIOUS
<1> USE DEF At, history
<1>1. \A t \in Tokens : /\ token[t] \in TokenType
                        /\ token[t].status \in TokenStatus
                        /\ token[t].session \in Sessions \cup {None}
  BY DEF TypeInv, TokenType
<1>2. \A k \in Links : link[k] \in LinkType /\ link[k].user \in Users \cup {None}
  BY DEF TypeInv, LinkType
<1>3. \A r \in Reqs : /\ req[r] \in ReqType /\ req[r].user \in Users \cup {None}
                      /\ req[r].session \in Sessions \cup {None}
  BY DEF TypeInv, ReqType
<1>4. \A s \in Sessions : Accounts[s] \in Users
  BY SessionsAssumption
<1>5. /\ token \in [Tokens -> TokenType] /\ link \in [Links -> LinkType]
      /\ opened \subseteq Sessions /\ applied \subseteq Links /\ contested \subseteq Links /\ faults \in 0..MaxFaults
      /\ \A t \in Tokens : token[t].session = None <=> token[t].status = "unused"
  BY DEF TypeInv
<1>6. \A r \in Reqs : req = [req EXCEPT ![r] = req[r]]
  BY DEF TypeInv
<1>7. CASE UNCHANGED vars
  BY <1>7 DEF vars, TypeInv
<1>8. ASSUME NEW r \in Reqs, Arrive(r)
      PROVE  TypeInv'
  <2>1. ASSUME NEW s \in Sessions, SignIn(r, s)
        PROVE  TypeInv'
    <3> DEFINE locals == Locals(Accounts[s], s, None, None)
    <3>1. locals \in ReqType /\ locals.session = s
      BY <1>4, RowsTyped
    <3>2. /\ pc' = [pc EXCEPT ![r] = "issue"] /\ req' = [req EXCEPT ![r] = locals]
          /\ opened' \subseteq Sessions /\ UNCHANGED <<token, link, history, faults>>
      BY <1>5, <2>1 DEF SignIn, Begin
    <3> HIDE DEF locals
    <3> QED
      BY <1>5, <3>1, <3>2, MoveTyped DEF Labels, DbAwaits
  <2>2. ASSUME NEW t \in Tokens, Refresh(r, t)
        PROVE  TypeInv'
    <3> DEFINE s == token[t].session
    <3>1. s \in Sessions /\ token[t].status # "unused"
      BY <1>1, <1>5, <2>2 DEF Refresh
    <3> DEFINE locals == Locals(Accounts[s], s, t, None)
    <3>2. locals \in ReqType /\ locals.session = s /\ locals.token = t
      BY <1>4, <3>1, RowsTyped
    <3>3. /\ pc' = [pc EXCEPT ![r] = "delete_token"] /\ req' = [req EXCEPT ![r] = locals]
          /\ UNCHANGED <<token, link, opened, history, faults>>
      BY <2>2 DEF Refresh, Begin
    <3> HIDE DEF locals
    <3> QED
      BY <1>5, <3>1, <3>2, <3>3, MoveTyped DEF Labels, DbAwaits
  <2>3. ASSUME NEW u \in Users, ForgotPassword(r, u) \/ ChangePassword(r, u)
        PROVE  TypeInv'
    <3>1. Locals(u, None, None, None) \in ReqType
      BY RowsTyped
    <3>2. CASE ForgotPassword(r, u)
      BY <1>5, <3>1, <3>2, MoveTyped DEF ForgotPassword, Begin, Labels, DbAwaits
    <3>3. CASE ChangePassword(r, u)
      BY <1>5, <3>1, <3>3, MoveTyped DEF ChangePassword, Begin, Labels, DbAwaits
    <3> QED
      BY <2>3, <3>2, <3>3
  <2>4. ASSUME NEW k \in Links, ResetPassword(r, k)
        PROVE  TypeInv'
    <3>1. Locals(link[k].user, None, None, k) \in ReqType
      BY <1>2, RowsTyped
    <3>2. contested' \subseteq Links
      BY <1>5, <2>4 DEF ResetPassword
    <3> QED
      BY <1>5, <2>4, <3>1, <3>2, MoveTyped DEF ResetPassword, Begin, Labels, DbAwaits
  <2> QED
    BY <1>8, <2>1, <2>2, <2>3, <2>4 DEF Arrive
<1>9. ASSUME NEW r \in Reqs, Serve(r)
      PROVE  TypeInv'
  <2>1. CASE DeleteToken(r)
    <3> DEFINE t == req[r].token
    <3>1. t \in Tokens /\ token[t].status # "unused" /\ token[t].session = req[r].session
          /\ req[r].session \in Sessions
      BY <2>1, <1>1, <1>5 DEF DeleteToken, TypeInv
    <3>2. TokenRow("exchanged", token[t].session) \in TokenType
      BY <1>1, <3>1, RowsTyped DEF TokenStatus
    <3>3. /\ token' \in [Tokens -> TokenType]
          /\ \A v \in Tokens : token'[v].session = token[v].session
          /\ \A v \in Tokens : token'[v].status = "unused" <=> token[v].status = "unused"
      <4> HIDE DEF t
      <4>1. token' = IF Stored(t) THEN [token EXCEPT ![t] = TokenRow("exchanged", @.session)]
                     ELSE token
        BY <2>1 DEF DeleteToken, t
      <4> QED
        BY <1>1, <1>5, <3>1, <3>2, <4>1, RowsTyped DEF TokenStatus
    <3>4. CASE AfterDelete(t) = "issue"
      BY <1>3, <1>5, <1>6, <2>1, <3>1, <3>3, <3>4, MoveTyped
         DEF DeleteToken, Goto, Labels, DbAwaits
    <3>5. CASE AfterDelete(t) # "issue"
      BY <1>5, <2>1, <3>3, <3>5, FinishTyped DEF DeleteToken
    <3> QED
      BY <3>4, <3>5
  <2>2. CASE IssueToken(r)
    <3>1. req[r].session \in Sessions
      BY <2>2 DEF IssueToken, TypeInv
    <3>2. PICK t \in Tokens : /\ token[t].status = "unused"
                              /\ token' = [token EXCEPT ![t] = TokenRow("live", req[r].session)]
      BY <2>2 DEF IssueToken
    <3>3. /\ token' \in [Tokens -> TokenType]
          /\ token'[t].session = req[r].session /\ token'[t].status = "live"
          /\ \A v \in Tokens : v # t => token'[v] = token[v]
      BY <1>1, <1>5, <3>1, <3>2, RowsTyped DEF TokenStatus
    <3>4. None \notin Sessions
      BY SessionsAssumption
    <3> QED
      BY <1>5, <2>2, <3>1, <3>2, <3>3, <3>4, FinishTyped DEF IssueToken
  <2>3. CASE DeleteLinks(r)
    <3>1. link' \in [Links -> LinkType]
      BY <1>2, <2>3, RowsTyped DEF DeleteLinks, LinkStatus
    <3>2. /\ pc' = [pc EXCEPT ![r] = "create_link"] /\ req' = [req EXCEPT ![r] = req[r]]
          /\ UNCHANGED <<token, opened, applied, contested, faults>>
      BY <1>6, <2>3 DEF DeleteLinks, Goto
    <3> QED
      BY <1>3, <1>5, <3>1, <3>2, MoveTyped DEF Labels, DbAwaits
  <2>4. CASE CreateLink(r)
    <3>1. link' \in [Links -> LinkType]
      BY <1>3, <1>5, <2>4, RowsTyped DEF CreateLink, LinkStatus
    <3> QED
      BY <1>5, <2>4, <3>1, FinishTyped DEF CreateLink
  <2>5. CASE SetPassword(r)
    <3>2. req[r].link # None => req[r].link \in Links
      BY <1>3 DEF ReqType
    <3>1. applied' \subseteq Links
      BY <1>5, <2>5, <3>2 DEF SetPassword
    <3>3. CASE req[r].link = None
      <4>1. pc' = [pc EXCEPT ![r] = "delete_tokens"] /\ req' = [req EXCEPT ![r] = req[r]]
        BY <1>6, <2>5, <3>3 DEF SetPassword, Goto
      <4> QED
        BY <1>3, <1>5, <2>5, <3>1, <4>1, MoveTyped DEF SetPassword, Labels, DbAwaits
    <3>4. CASE req[r].link # None
      BY <1>3, <1>5, <1>6, <2>5, <3>1, <3>2, <3>4, MoveTyped
         DEF SetPassword, Goto, Labels, DbAwaits
    <3> QED
      BY <3>3, <3>4
  <2>6. CASE MarkUsed(r)
    <3> DEFINE k == req[r].link
    <3>1. k \in Links
      BY <2>6 DEF MarkUsed, TypeInv
    <3>2. LinkRow("used", link[k].user) \in LinkType
      BY <1>2, <3>1, RowsTyped DEF LinkStatus
    <3>3. CASE StoredLink(k)
      <4>1. link' \in [Links -> LinkType]
        BY <1>5, <2>6, <3>1, <3>2, <3>3 DEF MarkUsed
      <4> QED
        BY <1>3, <1>5, <1>6, <2>6, <3>3, <4>1, MoveTyped DEF MarkUsed, Goto, Labels, DbAwaits
    <3>4. CASE ~StoredLink(k)
      BY <1>5, <2>6, <3>4, FinishTyped DEF MarkUsed
    <3> QED
      BY <3>3, <3>4
  <2>7. CASE DeleteTokens(r)
    <3>1. /\ token' \in [Tokens -> TokenType]
          /\ \A v \in Tokens : token'[v].session = token[v].session
          /\ \A v \in Tokens : token'[v].status = "unused" <=> token[v].status = "unused"
      BY <1>1, <2>7, RowsTyped DEF DeleteTokens, Revoked, Stored, TokenStatus
    <3> QED
      BY <1>5, <2>7, <3>1, FinishTyped DEF DeleteTokens
  <2> QED
    BY <1>9, <2>1, <2>2, <2>3, <2>4, <2>5, <2>6, <2>7 DEF Serve
<1>10. ASSUME faults < MaxFaults, faults' = faults + 1
       PROVE  faults' \in 0..MaxFaults
  BY <1>5, <1>10, SessionsAssumption
<1>11. ASSUME NEW r \in Reqs, DbThrows(r)
       PROVE  TypeInv'
  <2>1. contested' \subseteq Links
    BY <1>5, <1>11 DEF DbThrows, Unrecorded, TypeInv
  <2> QED
    BY <1>5, <1>10, <1>11, <2>1, FinishTyped DEF DbThrows
<1>12. CASE Restart
  <2>1. /\ pc' \in [Reqs -> Labels] /\ req' \in [Reqs -> ReqType]
        /\ \A r \in Reqs : pc'[r] = "idle"
    BY <1>12, RowsTyped DEF Restart, Labels
  <2>2. contested' \subseteq Links
    BY <1>5, <1>12 DEF Restart, Unrecorded, TypeInv
  <2> QED
    BY <1>5, <1>10, <1>12, <2>1, <2>2 DEF Restart, TypeInv
<1>13. ASSUME NEW t \in Tokens, TokenExpires(t)
       PROVE  TypeInv'
  <2>1. TokenRow("expired", token[t].session) \in TokenType
    BY <1>1, RowsTyped DEF TokenStatus
  <2>2. /\ token' \in [Tokens -> TokenType]
        /\ \A v \in Tokens : token'[v].session = token[v].session
        /\ \A v \in Tokens : token'[v].status = "unused" <=> token[v].status = "unused"
    BY <1>1, <1>5, <1>13, <2>1, RowsTyped DEF TokenExpires, TokenStatus
  <2> QED
    BY <1>13, <2>2 DEF TokenExpires, TypeInv
<1>14. ASSUME NEW k \in Links, LinkExpires(k)
       PROVE  TypeInv'
  <2>1. link' \in [Links -> LinkType]
    BY <1>2, <1>5, <1>14, RowsTyped DEF LinkExpires, LinkStatus
  <2> QED
    BY <1>14, <2>1 DEF LinkExpires, TypeInv
<1> QED
  BY <1>7, <1>8, <1>9, <1>11, <1>12, <1>13, <1>14 DEF Next

LEMMA TypeInit == Init => TypeInv
<1> SUFFICES ASSUME Init
             PROVE  TypeInv
  OBVIOUS
<1>1. TokenRow("unused", None) \in TokenType /\ LinkRow("unused", None) \in LinkType
  BY RowsTyped DEF TokenStatus, LinkStatus
<1>2. TokenRow("unused", None).status = "unused" /\ TokenRow("unused", None).session = None
  BY RowsTyped DEF TokenStatus
<1> QED
  BY <1>1, <1>2, RowsTyped, SessionsAssumption DEF Init, TypeInv, Labels

\* Every row of both tables and every handler's locals keep their types, for any number of
\* overlapping requests.
THEOREM TypeCorrect == Spec => []TypeOK
<1> QED
  BY TypeInit, TypeStep, TypeOKNamed, PTL DEF Spec

------------------------------------------------------------------------------
(* Sessions never fork *)

\* A session holds one stored token, or one slot is issuing its next one, or neither; once
\* its token was revoked it is neither for good.
ChainInv ==
  /\ \A t \in Tokens : token[t].session # None => token[t].session \in opened
  /\ \A t, v \in Tokens :
       Stored(t) /\ Stored(v) /\ token[t].session = token[v].session => t = v
  /\ \A t, v \in Tokens :
       token[t].status = "revoked" /\ Stored(v) => token[v].session # token[t].session
  /\ \A r \in Reqs : pc[r] = "issue" =>
       /\ req[r].session \in opened
       /\ \A t \in Tokens : Stored(t) => token[t].session # req[r].session
       /\ \A t \in Tokens : token[t].status = "revoked" => token[t].session # req[r].session
       /\ \A q \in Reqs : pc[q] = "issue" /\ req[q].session = req[r].session => q = r

\* The next state keeps it if no session gains a token or an issue.
LEMMA ShrinkStep ==
  ASSUME TypeInv, ChainInv, opened \subseteq opened',
         \A t \in Tokens : /\ token'[t].session = token[t].session
                           /\ Stored(t)' => Stored(t)
                           /\ token'[t].status = "revoked" => token[t].status = "revoked",
         \A r \in Reqs : pc'[r] = "issue" => pc[r] = "issue" /\ req'[r] = req[r]
  PROVE  ChainInv'
<1> QED
  BY DEF ChainInv, TypeInv

LEMMA ChainStep == TypeInv /\ ChainInv /\ [Next]_vars => ChainInv'
<1> SUFFICES ASSUME TypeInv, ChainInv, [Next]_vars
             PROVE  ChainInv'
  OBVIOUS
<1> USE DEF At
<1>1. /\ pc \in [Reqs -> Labels] /\ req \in [Reqs -> ReqType]
      /\ token \in [Tokens -> TokenType] /\ opened \subseteq Sessions
  BY DEF TypeInv
<1>2. \A t \in Tokens : /\ token[t].status \in TokenStatus
                        /\ token[t].session \in Sessions \cup {None}
                        /\ token[t].session = None <=> token[t].status = "unused"
                        /\ Stored(t) => token[t].session \in Sessions
  BY DEF TypeInv, TokenType, Stored
<1>3. ASSUME UNCHANGED <<token, opened>>,
             \A r \in Reqs : pc'[r] = "issue" => pc[r] = "issue" /\ req'[r] = req[r]
      PROVE  ChainInv'
  BY <1>3, ShrinkStep DEF Stored
<1>4. CASE UNCHANGED vars
  BY <1>3, <1>4 DEF vars
<1>5. ASSUME NEW r \in Reqs, NEW s \in Sessions, SignIn(r, s)
      PROVE  ChainInv'
  <2>1. s \notin opened /\ opened' = opened \cup {s} /\ token' = token
    BY <1>5 DEF SignIn
  <2>2. \A q \in Reqs : /\ pc'[q] = IF q = r THEN "issue" ELSE pc[q]
                        /\ q # r => req'[q] = req[q]
                        /\ q = r => req'[q].session = s
    BY <1>1, <1>5 DEF SignIn, Begin, Locals
  <2>3. \A t \in Tokens : token[t].session # s
    BY <1>2, <2>1, SessionsAssumption DEF ChainInv
  <2> QED
    BY <1>2, <2>1, <2>2, <2>3 DEF ChainInv, Stored
<1>6. ASSUME NEW r \in Reqs, Arrive(r)
      PROVE  ChainInv'
  <2>1. ASSUME NEW t \in Tokens, Refresh(r, t)
        PROVE  ChainInv'
    BY <1>1, <1>3, <2>1 DEF Refresh, Begin
  <2>2. ASSUME NEW u \in Users, ForgotPassword(r, u) \/ ChangePassword(r, u)
        PROVE  ChainInv'
    BY <1>1, <1>3, <2>2 DEF ForgotPassword, ChangePassword, Begin
  <2>3. ASSUME NEW k \in Links, ResetPassword(r, k)
        PROVE  ChainInv'
    BY <1>1, <1>3, <2>3 DEF ResetPassword, Begin
  <2> QED
    BY <1>5, <1>6, <2>1, <2>2, <2>3 DEF Arrive
<1>7. ASSUME NEW r \in Reqs, DeleteToken(r)
      PROVE  ChainInv'
  <2> DEFINE t == req[r].token
  <2>1. /\ t \in Tokens /\ pc[r] = "delete_token" /\ UNCHANGED opened
        /\ token[t].session = req[r].session
    BY <1>7 DEF DeleteToken, TypeInv
  <2>2. CASE Stored(t)
    <3>1. /\ token' = [token EXCEPT ![t] = TokenRow("exchanged", @.session)]
          /\ pc' = [pc EXCEPT ![r] = "issue"] /\ req' = req
      BY <1>7, <2>2 DEF DeleteToken, AfterDelete, Goto
    <3> HIDE DEF t
    <3>2. /\ token'[t].status = "exchanged" /\ token'[t].session = token[t].session
          /\ \A v \in Tokens : v # t => token'[v] = token[v]
      BY <1>1, <2>1, <3>1 DEF TokenRow
    <3>3. \A v \in Tokens : Stored(v)' => v # t /\ Stored(v)
      BY <3>2 DEF Stored
    <3>4. req[r].session \in opened /\ token[t].session \in opened
      BY <1>2, <2>1, <2>2, SessionsAssumption DEF ChainInv
    <3>5. \A q \in Reqs : pc'[q] = IF q = r THEN "issue" ELSE pc[q]
      BY <1>1, <3>1
    <3>6. \A v \in Tokens : token'[v].status = "revoked" => token[v].status = "revoked"
      BY <3>2
    <3>7. \A v \in Tokens : token'[v].session = token[v].session
      BY <3>2
    <3>8. \A v \in Tokens : Stored(v)' => token'[v].session # req[r].session
      BY <2>1, <2>2, <3>3, <3>7 DEF ChainInv
    <3>9. \A v \in Tokens : token'[v].status = "revoked" => token'[v].session # req[r].session
      BY <2>1, <2>2, <3>6, <3>7 DEF ChainInv
    <3>10. \A q \in Reqs : pc[q] = "issue" => req[q].session # req[r].session
      BY <2>1, <2>2 DEF ChainInv
    <3> QED
      BY <2>1, <3>1, <3>3, <3>4, <3>5, <3>6, <3>7, <3>8, <3>9, <3>10 DEF ChainInv
  <2>3. CASE ~Stored(t)
    BY <1>1, <1>3, <1>7, <2>1, <2>3 DEF DeleteToken, AfterDelete, Finish
  <2> QED
    BY <2>2, <2>3
<1>8. ASSUME NEW r \in Reqs, IssueToken(r)
      PROVE  ChainInv'
  <2>1. /\ pc[r] = "issue" /\ UNCHANGED opened /\ req[r].session \in Sessions
        /\ req[r].session \in opened
    BY <1>8 DEF IssueToken, ChainInv, TypeInv
  <2>2. PICK t \in Tokens : /\ token[t].status = "unused"
                            /\ token' = [token EXCEPT ![t] = TokenRow("live", req[r].session)]
    BY <1>8 DEF IssueToken
  <2>3. /\ token'[t].status = "live" /\ token'[t].session = req[r].session
        /\ \A v \in Tokens : v # t => token'[v] = token[v]
    BY <1>1, <2>2 DEF TokenRow
  <2>4. \A q \in Reqs : pc'[q] = "issue" => q # r /\ pc[q] = "issue" /\ req'[q] = req[q]
    BY <1>1, <1>8 DEF IssueToken, Finish
  <2>5. \A v \in Tokens : Stored(v)' => v = t \/ Stored(v)
    BY <2>3 DEF Stored
  <2>6. \A v \in Tokens : token'[v].status = "revoked" => v # t /\ token[v].status = "revoked"
    BY <2>3
  <2>7. \A v \in Tokens : Stored(v) => token[v].session # req[r].session
    BY <2>1 DEF ChainInv
  <2>8. \A v \in Tokens : token[v].status = "revoked" => token[v].session # req[r].session
    BY <2>1 DEF ChainInv
  <2>9. \A q \in Reqs : pc[q] = "issue" /\ q # r => req[q].session # req[r].session
    BY <2>1 DEF ChainInv
  <2> QED
    BY <2>1, <2>3, <2>4, <2>5, <2>6, <2>7, <2>8, <2>9 DEF ChainInv
<1>9. ASSUME NEW r \in Reqs, DeleteTokens(r)
      PROVE  ChainInv'
  <2> DEFINE u == req[r].user
  <2>1. \A t \in Tokens : token'[t] = IF t \in Revoked(u) THEN TokenRow("revoked", token[t].session)
                                      ELSE token[t]
    BY <1>9 DEF DeleteTokens
  <2>2. \A t \in Tokens : t \in Revoked(u) <=> Stored(t) /\ Accounts[token[t].session] = u
    BY DEF Revoked
  <2> HIDE DEF u
  <2>3. ASSUME NEW t \in Tokens
        PROVE  /\ token'[t].session = token[t].session
               /\ token'[t].status = IF t \in Revoked(u) THEN "revoked" ELSE token[t].status
    <3>1. TokenRow("revoked", token[t].session).status = "revoked"
      BY DEF TokenRow
    <3>2. TokenRow("revoked", token[t].session).session = token[t].session
      BY DEF TokenRow
    <3> QED
      BY <2>1, <3>1, <3>2
  <2>4. \A t \in Tokens : Stored(t)' => Stored(t) /\ t \notin Revoked(u)
    BY <2>3 DEF Stored
  <2>5. \A t \in Tokens : token'[t].status = "revoked" =>
          token[t].status = "revoked" \/ (Stored(t) /\ t \in Revoked(u))
    BY <2>2, <2>3
  <2>6. \A q \in Reqs : pc'[q] = "issue" => pc[q] = "issue" /\ req'[q] = req[q]
    BY <1>1, <1>9 DEF DeleteTokens, Finish
  <2>7. opened' = opened
    BY <1>9 DEF DeleteTokens
  <2>8. \A t, v \in Tokens : token'[t].status = "revoked" /\ Stored(v)'
          => token'[v].session # token'[t].session
    BY <2>2, <2>3, <2>4, <2>5 DEF ChainInv
  <2>9. \A q \in Reqs, t \in Tokens : pc'[q] = "issue" /\ token'[t].status = "revoked"
          => token'[t].session # req'[q].session
    BY <2>3, <2>5, <2>6 DEF ChainInv
  <2> QED
    BY <2>3, <2>4, <2>6, <2>7, <2>8, <2>9 DEF ChainInv
<1>10. ASSUME NEW r \in Reqs, Serve(r)
       PROVE  ChainInv'
  <2>1. CASE DeleteLinks(r) \/ CreateLink(r)
    BY <1>1, <1>3, <2>1 DEF DeleteLinks, CreateLink, Goto, Finish
  <2>2. CASE SetPassword(r)
    BY <1>1, <1>3, <2>2 DEF SetPassword, Goto
  <2>3. CASE MarkUsed(r)
    <3>1. UNCHANGED <<token, opened>> /\ (Goto(r, "delete_tokens") \/ Finish(r))
      BY <2>3 DEF MarkUsed
    <3> QED
      BY <1>1, <1>3, <3>1 DEF Goto, Finish
  <2> QED
    BY <1>7, <1>8, <1>9, <1>10, <2>1, <2>2, <2>3 DEF Serve
<1>11. ASSUME NEW r \in Reqs, DbThrows(r)
       PROVE  ChainInv'
  BY <1>1, <1>3, <1>11 DEF DbThrows, Finish
<1>12. CASE Restart
  BY <1>3, <1>12 DEF Restart
<1>13. ASSUME NEW t \in Tokens, TokenExpires(t)
       PROVE  ChainInv'
  <2>1. /\ token'[t].status = "expired" /\ token'[t].session = token[t].session /\ Stored(t)
        /\ \A v \in Tokens : v # t => token'[v] = token[v]
    BY <1>1, <1>13 DEF TokenExpires, TokenRow, Stored
  <2> QED
    BY <1>13, <2>1, ShrinkStep DEF TokenExpires, Stored
<1>14. ASSUME NEW k \in Links, LinkExpires(k)
       PROVE  ChainInv'
  BY <1>3, <1>14 DEF LinkExpires
<1> QED
  BY <1>4, <1>6, <1>10, <1>11, <1>12, <1>13, <1>14 DEF Next

LEMMA ChainInit == Init => ChainInv
<1> QED
  BY RowsTyped DEF Init, ChainInv, Stored, TokenRow

LEMMA Invariant == Spec => [](TypeInv /\ ChainInv)
<1> QED
  BY TypeInit, TypeStep, ChainInit, ChainStep, PTL DEF Spec

\* A revoked session never lives again, whatever refresh had already checked its token.
THEOREM RevokedForGood == Spec => []RevokedStayDead
<1>1. TypeInv /\ ChainInv => RevokedStayDead
  BY DEF ChainInv, TypeInv, RevokedStayDead, Current, Issuing, At
<1> QED
  BY <1>1, Invariant, PTL

\* Nothing ends a session but a failure or its user's password change, for any number of users
\* and overlapping requests.
THEOREM OnlyRevocationEnds == Spec => KeptUnlessRevoked
<1>1. ASSUME TypeInv, ChainInv, [Next]_vars, NEW s \in Sessions, Open(s), ~Open(s)', faults' = faults
      PROVE  \E r \in Reqs : DeleteTokens(r) /\ req[r].user = Accounts[s]
  <2> USE DEF At
  <2>1. /\ pc \in [Reqs -> Labels] /\ req \in [Reqs -> ReqType]
        /\ token \in [Tokens -> TokenType]
    BY <1>1 DEF TypeInv
  <2>2. ASSUME token' = token,
               \A r \in Reqs : pc[r] = "issue" => pc'[r] = "issue" /\ req'[r] = req[r]
        PROVE  FALSE
    BY <1>1, <2>2 DEF Open, Current, Issuing, Stored
  <2>3. CASE UNCHANGED vars
    BY <2>2, <2>3 DEF vars
  <2>4. ASSUME NEW r \in Reqs, Arrive(r)
        PROVE  FALSE
    BY <2>1, <2>2, <2>4
       DEF Arrive, SignIn, Refresh, ForgotPassword, ChangePassword, ResetPassword, Begin
  <2>5. ASSUME NEW r \in Reqs, DeleteToken(r)
        PROVE  FALSE
    <3>1. PICK t \in Tokens :
            /\ t = req[r].token /\ token[t].session = req[r].session /\ pc[r] = "delete_token"
      BY <1>1, <2>5 DEF DeleteToken, TypeInv
    <3>2. CASE ~Stored(t)
      BY <2>1, <2>2, <2>5, <3>1, <3>2 DEF DeleteToken, AfterDelete, Finish
    <3>3. CASE Stored(t)
      <4>1. /\ token' = [token EXCEPT ![t] = TokenRow("exchanged", @.session)]
            /\ pc' = [pc EXCEPT ![r] = "issue"] /\ req' = req
        BY <2>5, <3>1, <3>3 DEF DeleteToken, AfterDelete, Goto
      <4>2. \A q \in Reqs : pc[q] = "issue" \/ q = r => pc'[q] = "issue"
        BY <2>1, <4>1
      <4>3. \A v \in Tokens : v # t => token'[v] = token[v]
        BY <2>1, <4>1
      <4>4. ~Issuing(s) /\ req[r].session # s
        BY <1>1, <4>1, <4>2 DEF Open, Issuing
      <4>5. PICK v \in Tokens : Stored(v) /\ token[v].session = s
        BY <1>1, <4>4 DEF Open, Current
      <4>6. v # t
        BY <3>1, <4>4, <4>5
      <4> QED
        BY <1>1, <4>3, <4>5, <4>6 DEF Open, Current, Stored
    <3> QED
      BY <3>2, <3>3
  <2>6. ASSUME NEW r \in Reqs, IssueToken(r)
        PROVE  FALSE
    <3>1. PICK t \in Tokens : /\ token[t].status = "unused"
                              /\ token' = [token EXCEPT ![t] = TokenRow("live", req[r].session)]
      BY <2>6 DEF IssueToken
    <3>2. /\ token'[t].status = "live" /\ token'[t].session = req[r].session
          /\ \A v \in Tokens : v # t => token'[v] = token[v]
      BY <2>1, <3>1 DEF TokenRow
    <3>3. \A q \in Reqs : q # r => pc'[q] = pc[q] /\ req'[q] = req[q]
      BY <2>1, <2>6 DEF IssueToken, Finish
    <3>4. req[r].session # s
      BY <1>1, <3>2 DEF Open, Current, Stored
    <3>5. ~Issuing(s)
      BY <1>1, <3>3, <3>4 DEF Open, Issuing
    <3>6. PICK v \in Tokens : Stored(v) /\ token[v].session = s
      BY <1>1, <3>5 DEF Open, Current
    <3>7. v # t
      BY <3>1, <3>6 DEF Stored
    <3> QED
      BY <1>1, <3>2, <3>6, <3>7 DEF Open, Current, Stored
  <2>7. ASSUME NEW r \in Reqs, DeleteTokens(r)
        PROVE  req[r].user = Accounts[s]
    <3>1. \A q \in Reqs : pc[q] = "issue" => pc'[q] = "issue" /\ req'[q] = req[q]
      BY <2>1, <2>7 DEF DeleteTokens, Finish
    <3>2. ~Issuing(s)
      BY <1>1, <3>1 DEF Open, Issuing
    <3>3. PICK v \in Tokens : Stored(v) /\ token[v].session = s
      BY <1>1, <3>2 DEF Open, Current
    <3>4. v \in Revoked(req[r].user)
      BY <1>1, <2>7, <3>3 DEF DeleteTokens, Open, Current, Stored
    <3> QED
      BY <3>3, <3>4 DEF Revoked
  <2>8. ASSUME NEW r \in Reqs, Serve(r)
        PROVE  DeleteTokens(r) /\ req[r].user = Accounts[s]
    <3>1. CASE DeleteLinks(r) \/ CreateLink(r) \/ SetPassword(r)
      BY <2>1, <2>2, <3>1 DEF DeleteLinks, CreateLink, SetPassword, Goto, Finish
    <3>2. CASE MarkUsed(r)
      <4>1. token' = token /\ pc[r] = "mark_used" /\ (Goto(r, "delete_tokens") \/ Finish(r))
        BY <3>2 DEF MarkUsed
      <4> QED
        BY <2>1, <2>2, <4>1 DEF Goto, Finish
    <3> QED
      BY <2>5, <2>6, <2>7, <2>8, <3>1, <3>2 DEF Serve
  <2>9. ASSUME (\E r \in Reqs : DbThrows(r)) \/ Restart
        PROVE  FALSE
    <3>1. faults' = faults + 1
      BY <2>9 DEF DbThrows, Restart
    <3>2. faults \in 0..MaxFaults /\ MaxFaults \in Nat
      BY <1>1, SessionsAssumption DEF TypeInv
    <3> QED
      BY <1>1, <3>1, <3>2
  <2>10. ASSUME NEW t \in Tokens, TokenExpires(t)
         PROVE  FALSE
    <3>1. /\ token'[t].status = "expired" /\ token'[t].session = token[t].session
          /\ pc' = pc /\ req' = req /\ \A v \in Tokens : v # t => token'[v] = token[v]
      BY <2>1, <2>10 DEF TokenExpires, TokenRow
    <3>2. \A v \in Tokens : Stored(v) => Stored(v)' /\ token'[v].session = token[v].session
      BY <3>1 DEF Stored
    <3> QED
      BY <1>1, <3>1, <3>2 DEF Open, Current, Issuing
  <2>11. ASSUME NEW k \in Links, LinkExpires(k)
         PROVE  FALSE
    BY <2>2, <2>11 DEF LinkExpires
  <2> QED
    BY <1>1, <2>3, <2>4, <2>8, <2>9, <2>10, <2>11 DEF Next
<1>2. TypeInv /\ ChainInv /\ [Next]_vars =>
        [\A s \in Sessions : Open(s) /\ ~Open(s)' =>
           \/ faults' # faults
           \/ \E r \in Reqs : DeleteTokens(r) /\ req[r].user = Accounts[s]]_vars
  BY <1>1
<1> QED
  BY <1>2, Invariant, PTL DEF Spec, KeptUnlessRevoked

------------------------------------------------------------------------------
(* Reset links *)

\* A link nobody contests is used by one slot at a time; once a password was set with it,
\* it is either no longer valid or about to be marked by that slot.
LinkInv ==
  \A k \in Links \ contested :
    /\ \A r \in Reqs : Resets(r, k) => link[k].status # "unused"
    /\ \A q, r \in Reqs : Resets(q, k) /\ Resets(r, k) => q = r
    /\ k \in applied =>
         /\ link[k].status # "unused"
         /\ \A r \in Reqs : Resets(r, k) => pc[r] = "mark_used"
         /\ Usable(k) => \E r \in Reqs : Resets(r, k)

LEMMA LinkInit == Init => LinkInv
<1> QED
  BY DEF Init, LinkInv, Resets

\* A step keeps it that leaves the slots that reset alone, and makes no link valid again.
LEMMA LinkKept ==
  ASSUME LinkInv, contested \subseteq contested', applied' = applied,
         \A k \in Links : k \notin contested' => \A r \in Reqs :
           /\ Resets(r, k)' <=> Resets(r, k)
           /\ Resets(r, k) => pc'[r] = pc[r],
         \A k \in Links : link[k].status # "unused" =>
           /\ link'[k].status # "unused"
           /\ link'[k].status = "valid" => link[k].status = "valid"
  PROVE  LinkInv'
<1> QED
  BY DEF LinkInv, Usable

LEMMA LinkStep == TypeInv /\ LinkInv /\ [Next]_vars => LinkInv'
<1> SUFFICES ASSUME TypeInv, LinkInv, [Next]_vars
             PROVE  LinkInv'
  OBVIOUS
<1> USE DEF At, history
<1>1. /\ pc \in [Reqs -> Labels] /\ req \in [Reqs -> ReqType] /\ link \in [Links -> LinkType]
  BY DEF TypeInv
<1>2. ASSUME UNCHANGED <<link, history>>,
             \A k \in Links, r \in Reqs : /\ Resets(r, k)' <=> Resets(r, k)
                                          /\ Resets(r, k) => pc'[r] = pc[r]
      PROVE  LinkInv'
  <2>1. contested \subseteq contested' /\ applied' = applied /\ link' = link
    BY <1>2
  <2> QED
    BY <1>2, <2>1, LinkKept
<1>3. CASE UNCHANGED vars
  BY <1>2, <1>3 DEF vars, Resets
<1>4. ASSUME NEW r \in Reqs, Arrive(r)
      PROVE  LinkInv'
  <2>1. ASSUME NEW k \in Links, ResetPassword(r, k)
        PROVE  LinkInv'
    <3>1. /\ pc' = [pc EXCEPT ![r] = "set_password"] /\ req'[r].link = k /\ pc[r] = "idle"
          /\ \A q \in Reqs : q # r => req'[q] = req[q]
      BY <1>1, <2>1 DEF ResetPassword, Begin, Locals
    <3>2. /\ UNCHANGED <<link, applied>> /\ Usable(k)
          /\ contested' = contested \cup {j \in {k} : \E q \in Reqs : Resets(q, j)}
      BY <2>1 DEF ResetPassword
    <3>3. \A j \in Links, q \in Reqs : Resets(q, j)' <=> Resets(q, j) \/ (q = r /\ j = k)
      BY <1>1, <3>1 DEF Resets
    <3>4. \A j \in Links, q \in Reqs : Resets(q, j) => pc'[q] = pc[q]
      BY <1>1, <3>1 DEF Resets
    <3>5. k \notin contested' => k \notin applied
      BY <3>2 DEF LinkInv
    <3> QED
      BY <3>2, <3>3, <3>4, <3>5 DEF LinkInv, Usable
  <2>2. ASSUME UNCHANGED <<link, history>>, NEW l \in {"issue", "delete_token", "delete_links"},
               NEW locals, Begin(r, l, locals)
        PROVE  LinkInv'
    BY <1>1, <1>2, <2>2 DEF Begin, Resets
  <2>3. ASSUME NEW u \in Users, ChangePassword(r, u)
        PROVE  LinkInv'
    <3>1. /\ pc' = [pc EXCEPT ![r] = "set_password"] /\ req'[r].link = None /\ pc[r] = "idle"
          /\ UNCHANGED <<link, history>> /\ \A q \in Reqs : q # r => req'[q] = req[q]
      BY <1>1, <2>3 DEF ChangePassword, Begin, Locals
    <3> QED
      BY <1>1, <1>2, <3>1, SessionsAssumption DEF Resets
  <2> QED
    BY <1>4, <2>1, <2>2, <2>3 DEF Arrive, SignIn, Refresh, ForgotPassword
<1>5. ASSUME NEW r \in Reqs, Serve(r)
      PROVE  LinkInv'
  <2>1. ASSUME UNCHANGED <<link, history>>, pc[r] \notin {"set_password", "mark_used"},
               \A q \in Reqs : /\ q # r => pc'[q] = pc[q] /\ req'[q] = req[q]
                               /\ q = r => pc'[q] \notin {"set_password", "mark_used"}
        PROVE  LinkInv'
    BY <1>2, <2>1 DEF Resets
  <2>2. CASE DeleteToken(r)
    <3>1. /\ pc[r] = "delete_token" /\ UNCHANGED <<link, history>>
          /\ Goto(r, "issue") \/ Finish(r)
      BY <2>2 DEF DeleteToken
    <3> QED
      BY <1>1, <2>1, <3>1 DEF Goto, Finish
  <2>3. CASE IssueToken(r) \/ DeleteTokens(r)
    BY <1>1, <2>1, <2>3 DEF IssueToken, DeleteTokens, Finish
  <2>4. CASE DeleteLinks(r)
    <3>1. \A k \in Links : link[k].status # "unused" =>
            /\ link'[k].status # "unused"
            /\ link'[k].status = "valid" => link[k].status = "valid"
      BY <2>4 DEF DeleteLinks, LinkRow
    <3>2. \A k \in Links, q \in Reqs : /\ Resets(q, k)' <=> Resets(q, k)
                                       /\ Resets(q, k) => pc'[q] = pc[q]
      BY <1>1, <2>4 DEF DeleteLinks, Goto, Resets
    <3>3. UNCHANGED history
      BY <2>4 DEF DeleteLinks
    <3> QED
      BY <3>1, <3>2, <3>3, LinkKept
  <2>5. CASE CreateLink(r)
    <3>1. PICK j \in Links : /\ link[j].status = "unused"
                             /\ link' = [link EXCEPT ![j] = LinkRow("valid", req[r].user)]
      BY <2>5 DEF CreateLink
    <3>2. \A k \in Links : k # j => link'[k] = link[k]
      BY <1>1, <3>1
    <3>3. \A k \in Links, q \in Reqs : /\ Resets(q, k)' <=> Resets(q, k)
                                       /\ Resets(q, k) => pc'[q] = pc[q]
      BY <1>1, <2>5 DEF CreateLink, Finish, Resets
    <3>4. UNCHANGED history
      BY <2>5 DEF CreateLink
    <3> QED
      BY <3>1, <3>2, <3>3, <3>4, LinkKept
  <2>6. CASE SetPassword(r)
    <3> DEFINE j == req[r].link
    <3>1. /\ pc[r] = "set_password" /\ req' = req /\ UNCHANGED <<link, contested>>
          /\ applied' = applied \cup ({j} \ {None})
          /\ pc' = [pc EXCEPT ![r] = IF j = None THEN "delete_tokens" ELSE "mark_used"]
      BY <2>6 DEF SetPassword, Goto
    <3>2. \A k \in Links, q \in Reqs :
            /\ Resets(q, k)' <=> Resets(q, k)
            /\ Resets(q, k) => pc'[q] = IF q = r THEN "mark_used" ELSE pc[q]
      BY <1>1, <3>1, SessionsAssumption DEF Resets
    <3>3. j \in Links => Resets(r, j)
      BY <3>1 DEF Resets
    <3> HIDE DEF j
    <3> QED
      BY <3>1, <3>2, <3>3 DEF LinkInv, Usable
  <2>7. CASE MarkUsed(r)
    <3> DEFINE j == req[r].link
    <3>1. /\ pc[r] = "mark_used" /\ j \in Links /\ UNCHANGED history
          /\ \A q \in Reqs : /\ q # r => pc'[q] = pc[q] /\ req'[q] = req[q]
                             /\ q = r => pc'[q] \notin {"set_password", "mark_used"}
      <4>1. Goto(r, "delete_tokens") \/ Finish(r)
        BY <2>7 DEF MarkUsed
      <4> QED
        BY <1>1, <2>7, <4>1 DEF MarkUsed, Goto, Finish, TypeInv
    <3>2. link' = IF StoredLink(j) THEN [link EXCEPT ![j] = LinkRow("used", @.user)] ELSE link
      BY <2>7 DEF MarkUsed
    <3> HIDE DEF j
    <3>3. /\ link'[j].status = IF StoredLink(j) THEN "used" ELSE link[j].status
          /\ \A k \in Links : k # j => link'[k] = link[k]
      BY <1>1, <3>1, <3>2 DEF LinkRow
    <3>4. \A k \in Links, q \in Reqs : Resets(q, k)' <=> Resets(q, k) /\ q # r
      <4>1. \A k \in Links : ~Resets(r, k)'
        BY <3>1 DEF Resets
      <4>2. ASSUME NEW q \in Reqs, q # r
            PROVE  \A k \in Links : Resets(q, k)' <=> Resets(q, k)
        <5>1. pc'[q] = pc[q] /\ req'[q] = req[q]
          BY <3>1, <4>2
        <5> QED
          BY <5>1 DEF Resets
      <4> QED
        BY <4>1, <4>2
    <3>5. \A k \in Links : Resets(r, k) => k = j
      BY DEF Resets, j
    <3>6. link'[j].status # "valid"
      BY <3>3 DEF StoredLink
    <3>7. link[j].status # "unused" => link'[j].status # "unused"
      BY <3>3
    <3> QED
      BY <3>1, <3>3, <3>4, <3>5, <3>6, <3>7 DEF LinkInv, Usable
  <2> QED
    BY <1>5, <2>2, <2>3, <2>4, <2>5, <2>6, <2>7 DEF Serve
<1>6. ASSUME NEW R \in SUBSET Reqs, UNCHANGED <<link, applied>>,
             contested' = contested \cup Unrecorded(R),
             \A q \in Reqs : IF q \in R THEN pc'[q] = "idle"
                              ELSE pc'[q] = pc[q] /\ req'[q] = req[q]
      PROVE  LinkInv'
  <2>1. \A k \in Links, q \in Reqs : Resets(q, k)' <=> Resets(q, k) /\ q \notin R
    BY <1>6 DEF Resets
  <2>2. \A k \in Links, q \in R : Resets(q, k) /\ pc[q] = "mark_used" => k \in contested'
    BY <1>6 DEF Resets, Unrecorded
  <2>3. \A k \in Links, q \in Reqs : Resets(q, k)' => pc'[q] = pc[q]
    BY <1>6, <2>1
  <2> QED
    BY <1>6, <2>1, <2>2, <2>3 DEF LinkInv, Usable
<1>7. ASSUME NEW r \in Reqs, DbThrows(r)
      PROVE  LinkInv'
  <2>1. \A q \in Reqs : IF q \in {r} THEN pc'[q] = "idle" ELSE pc'[q] = pc[q] /\ req'[q] = req[q]
    BY <1>1, <1>7 DEF DbThrows, Finish
  <2> QED
    BY <1>6, <1>7, <2>1 DEF DbThrows
<1>8. CASE Restart
  BY <1>6, <1>8 DEF Restart
<1>9. ASSUME NEW t \in Tokens, TokenExpires(t)
      PROVE  LinkInv'
  BY <1>2, <1>9 DEF TokenExpires, Resets
<1>10. ASSUME NEW k \in Links, LinkExpires(k)
       PROVE  LinkInv'
  <2>1. \A j \in Links : link[j].status # "unused" =>
          /\ link'[j].status # "unused"
          /\ link'[j].status = "valid" => link[j].status = "valid"
    BY <1>1, <1>10 DEF LinkExpires, LinkRow
  <2> QED
    BY <1>10, <2>1, LinkKept DEF LinkExpires, Resets
<1> QED
  BY <1>3, <1>4, <1>5, <1>7, <1>8, <1>9, <1>10 DEF Next

\* A reset link sets one password, for any number of links and overlapping requests, unless
\* two resets contest it or a failure keeps it from being marked.
THEOREM LinkSetsOncePerLink == Spec => LinkSetsOnce
<1>1. TypeInv /\ LinkInv /\ [Next]_vars =>
        [\A r \in Reqs :
           SetPassword(r) /\ req[r].link \in applied => req[r].link \in contested]_vars
  BY DEF TypeInv, LinkInv, Resets, SetPassword, At
<1> QED
  BY <1>1, TypeInit, TypeStep, LinkInit, LinkStep, PTL DEF Spec, LinkSetsOnce

------------------------------------------------------------------------------
(* What a password change closes *)

\* A user's requests come one after the other.
Alone(u) ==
  \A q, r \in Reqs :
    At(q, "idle") \/ At(r, "idle") \/ req[q].user # u \/ req[r].user # u \/ q = r

\* A handler that rotates a token works for the session's user, and a reset of u between the
\* check of its link and the mark has a row of u to mark.
OwnerInv(u) ==
  \A r \in Reqs :
    /\ pc[r] \in {"delete_token", "issue"} => req[r].user = Accounts[req[r].session]
    /\ \A k \in Links : Resets(r, k) /\ req[r].user = u => StoredLink(k) /\ link[k].user = u

\* A slot that begins or ends keeps it if what it begins with does; so does one that moves on.
LEMMA OwnerMoves ==
  ASSUME NEW u \in Users, OwnerInv(u), NEW r \in Reqs,
         \A k \in Links : StoredLink(k) /\ link[k].user = u => StoredLink(k)' /\ link'[k].user = u,
         \A q \in Reqs : q # r => pc'[q] = pc[q] /\ req'[q] = req[q],
         pc'[r] \in {"delete_token", "issue"} => req'[r].user = Accounts[req'[r].session],
         \A k \in Links :
           Resets(r, k)' /\ req'[r].user = u => StoredLink(k) /\ link[k].user = u
  PROVE  OwnerInv(u)'
<1>1. \A q \in Reqs, k \in Links : q # r => (Resets(q, k)' <=> Resets(q, k))
  BY DEF Resets
<1> QED
  BY <1>1 DEF OwnerInv

LEMMA OwnerStep ==
  ASSUME NEW u \in Users
  PROVE  TypeInv /\ OwnerInv(u) /\ Alone(u) /\ [Next]_vars => OwnerInv(u)'
<1> SUFFICES ASSUME TypeInv, OwnerInv(u), Alone(u), [Next]_vars
             PROVE  OwnerInv(u)'
  OBVIOUS
<1> USE DEF At
<1>1. /\ pc \in [Reqs -> Labels] /\ req \in [Reqs -> ReqType] /\ link \in [Links -> LinkType]
      /\ None \notin Links
  BY SessionsAssumption DEF TypeInv
<1>2. ASSUME NEW r \in Reqs, Arrive(r)
      PROVE  OwnerInv(u)'
  <2>1. link' = link /\ \A q \in Reqs : q # r => pc'[q] = pc[q] /\ req'[q] = req[q]
    BY <1>1, <1>2
    DEF Arrive, SignIn, Refresh, ForgotPassword, ChangePassword, ResetPassword, Begin
  <2>2. pc'[r] \in {"delete_token", "issue"} => req'[r].user = Accounts[req'[r].session]
    BY <1>1, <1>2
    DEF Arrive, SignIn, Refresh, ForgotPassword, ChangePassword, ResetPassword, Begin, Locals
  <2>3. ASSUME NEW k \in Links, Resets(r, k)', req'[r].user = u
        PROVE  StoredLink(k) /\ link[k].user = u
    BY <1>1, <1>2, <2>3
    DEF Arrive, SignIn, Refresh, ForgotPassword, ChangePassword, ResetPassword, Begin, Locals,
        Resets, Usable, StoredLink
  <2> QED
    BY <2>1, <2>2, <2>3, OwnerMoves DEF StoredLink
<1>3. ASSUME NEW r \in Reqs, Serve(r)
      PROVE  OwnerInv(u)'
  <2>1. /\ \A q \in Reqs : q # r => pc'[q] = pc[q] /\ req'[q] = req[q]
        /\ pc'[r] = "idle" \/ req'[r] = req[r]
        /\ pc'[r] = "issue" => pc[r] = "delete_token"
        /\ pc'[r] = "mark_used" => pc[r] = "set_password"
        /\ pc'[r] \notin {"delete_token", "set_password"}
    BY <1>1, <1>3
    DEF Serve, DeleteToken, IssueToken, DeleteLinks, CreateLink, SetPassword, MarkUsed,
        DeleteTokens, Goto, Finish
  <2>2. pc'[r] \in {"delete_token", "issue"} => req'[r].user = Accounts[req'[r].session]
    BY <2>1 DEF OwnerInv
  <2>3. ASSUME NEW k \in Links, Resets(r, k)', req'[r].user = u
        PROVE  StoredLink(k) /\ link[k].user = u
    BY <2>1, <2>3 DEF OwnerInv, Resets
  <2>4. CASE link' = link
    BY <2>1, <2>2, <2>3, <2>4, OwnerMoves DEF StoredLink
  <2>5. CASE CreateLink(r) \/ MarkUsed(r)
    <3>1. \A k \in Links :
            StoredLink(k) /\ link[k].user = u => StoredLink(k)' /\ link'[k].user = u
      BY <1>1, <2>5 DEF CreateLink, MarkUsed, StoredLink, LinkRow
    <3> QED
      BY <2>1, <2>2, <2>3, <3>1, OwnerMoves
  <2>6. CASE DeleteLinks(r)
    <3>1. /\ pc[r] = "delete_links" /\ pc'[r] = "create_link"
          /\ \A k \in Links : link'[k] = IF StoredLink(k) /\ link[k].user = req[r].user
                                         THEN LinkRow("deleted", link[k].user) ELSE link[k]
      BY <1>1, <2>6 DEF DeleteLinks, Goto
    <3>2. CASE req[r].user # u
      <4>1. \A k \in Links : StoredLink(k) /\ link[k].user = u => link'[k] = link[k]
        BY <3>1, <3>2
      <4> QED
        BY <2>1, <2>2, <2>3, <4>1, OwnerMoves DEF StoredLink
    <3>3. CASE req[r].user = u
      <4>1. \A q \in Reqs, k \in Links : Resets(q, k)' => req'[q].user # u
        BY <2>1, <3>1, <3>3 DEF Alone, Resets
      <4>2. \A q \in Reqs :
              pc'[q] \in {"delete_token", "issue"} => req'[q].user = Accounts[req'[q].session]
        BY <2>1, <2>2 DEF OwnerInv
      <4> QED
        BY <4>1, <4>2 DEF OwnerInv
    <3> QED
      BY <3>2, <3>3
  <2> QED
    BY <1>3, <2>4, <2>5, <2>6
    DEF Serve, DeleteToken, IssueToken, SetPassword, DeleteTokens
<1>4. ASSUME NEW r \in Reqs, DbThrows(r)
      PROVE  OwnerInv(u)'
  <2>1. /\ link' = link /\ pc'[r] = "idle"
        /\ \A q \in Reqs : q # r => pc'[q] = pc[q] /\ req'[q] = req[q]
    BY <1>1, <1>4 DEF DbThrows, Finish
  <2> QED
    BY <2>1, OwnerMoves DEF Resets, StoredLink
<1>5. CASE Restart
  BY <1>5 DEF Restart, OwnerInv, Resets
<1>6. CASE (\E t \in Tokens : TokenExpires(t)) \/ UNCHANGED vars
  BY <1>6 DEF TokenExpires, OwnerInv, Resets, StoredLink, vars
<1>7. ASSUME NEW k \in Links, LinkExpires(k)
      PROVE  OwnerInv(u)'
  <2>1. pc' = pc /\ req' = req
    BY <1>7 DEF LinkExpires
  <2>2. \A j \in Links : StoredLink(j) /\ link[j].user = u => StoredLink(j)' /\ link'[j].user = u
    BY <1>1, <1>7 DEF LinkExpires, StoredLink, LinkRow
  <2> QED
    BY <2>1, <2>2 DEF OwnerInv, Resets
<1> QED
  BY <1>2, <1>3, <1>4, <1>5, <1>6, <1>7 DEF Next

LEMMA OwnerInit == ASSUME NEW u \in Users PROVE Init => OwnerInv(u)
<1> QED
  BY DEF Init, OwnerInv, Resets

\* A revocation closes every session of its user but those about to issue a token.
LEMMA RevocationCloses ==
  ASSUME TypeInv, NEW r \in Reqs, DeleteTokens(r), NEW s \in Sessions,
         Accounts[s] = req[r].user, Open(s)'
  PROVE  Issuing(s)
<1>1. /\ pc[r] = "delete_tokens"
      /\ \A q \in Reqs : pc'[q] = "issue" => pc[q] = "issue" /\ req'[q] = req[q]
  BY DEF DeleteTokens, Finish, At, TypeInv
<1>2. \A t \in Tokens : Stored(t)' => token'[t].session # s
  <2> SUFFICES ASSUME NEW t \in Tokens, Stored(t)', token'[t].session = s
               PROVE  FALSE
    OBVIOUS
  <2>1. token'[t] = IF t \in Revoked(req[r].user)
                    THEN TokenRow("revoked", token[t].session) ELSE token[t]
    BY DEF DeleteTokens
  <2>2. CASE t \in Revoked(req[r].user)
    BY <2>1, <2>2 DEF TokenRow, Stored
  <2>3. CASE t \notin Revoked(req[r].user)
    BY <2>1, <2>3 DEF Revoked, Stored
  <2> QED
    BY <2>2, <2>3
<1> QED
  BY <1>1, <1>2 DEF Open, Current, Issuing, At

\* A handler that wrote a password ends only with a failure, with the revocation, or, having
\* set it with a link, because the link it must mark is gone.
LEMMA PasswordEnds ==
  ASSUME TypeInv, [Next]_vars, NEW r \in Reqs, pc[r] \in {"mark_used", "delete_tokens"},
         pc'[r] = "idle", faults' = faults
  PROVE  \/ DeleteTokens(r)
         \/ MarkUsed(r) /\ ~StoredLink(req[r].link)
<1> USE DEF At
<1>1. /\ pc \in [Reqs -> Labels] /\ faults \in 0..MaxFaults /\ MaxFaults \in Nat
  BY SessionsAssumption DEF TypeInv
<1>2. CASE UNCHANGED vars
  BY <1>2 DEF vars
<1>3. ASSUME NEW q \in Reqs, Arrive(q)
      PROVE  FALSE
  BY <1>1, <1>3
  DEF Arrive, SignIn, Refresh, ForgotPassword, ChangePassword, ResetPassword, Begin
<1>4. ASSUME NEW q \in Reqs, Serve(q), q # r
      PROVE  FALSE
  BY <1>1, <1>4
  DEF Serve, DeleteToken, IssueToken, DeleteLinks, CreateLink, SetPassword, MarkUsed,
      DeleteTokens, Goto, Finish
<1>5. CASE Serve(r)
  BY <1>1, <1>5
  DEF Serve, DeleteToken, IssueToken, DeleteLinks, CreateLink, SetPassword, MarkUsed, Goto
<1>6. ASSUME Restart \/ \E q \in Reqs : DbThrows(q)
      PROVE  FALSE
  <2>1. faults' = faults + 1
    BY <1>6 DEF Restart, DbThrows
  <2> QED
    BY <1>1, <2>1
<1>7. CASE (\E t \in Tokens : TokenExpires(t)) \/ (\E k \in Links : LinkExpires(k))
  BY <1>7 DEF TokenExpires, LinkExpires
<1> QED
  BY <1>2, <1>3, <1>4, <1>5, <1>6, <1>7 DEF Next

\* However requests overlap, a session outlives its user's revocation only if a refresh or a
\* sign-in was about to issue its token at that moment (SessionsRevoked shows that one can):
\* between deleteRefreshTokenById and createRefreshToken is the one gap.
THEOREM OnlyIssuingSurvives ==
  Spec => [][\A r \in Reqs : pc[r] = "delete_tokens" /\ pc'[r] = "idle" =>
               \/ faults' # faults
               \/ \A s \in Sessions :
                    Accounts[s] = req[r].user /\ Open(s)' => Issuing(s)]_vars
<1>1. ASSUME TypeInv, [Next]_vars, NEW r \in Reqs, pc[r] = "delete_tokens", pc'[r] = "idle",
             faults' = faults, NEW s \in Sessions, Accounts[s] = req[r].user, Open(s)'
      PROVE  Issuing(s)
  <2>1. DeleteTokens(r)
    BY <1>1, PasswordEnds DEF MarkUsed, At
  <2> QED
    BY <1>1, <2>1, RevocationCloses
<1>2. TypeInv /\ [Next]_vars =>
        [\A r \in Reqs : pc[r] = "delete_tokens" /\ pc'[r] = "idle" =>
           \/ faults' # faults
           \/ \A s \in Sessions : Accounts[s] = req[r].user /\ Open(s)' => Issuing(s)]_vars
  BY <1>1
<1> QED
  BY <1>2, TypeInit, TypeStep, PTL DEF Spec

\* The documented promise (README.md:83, openapi.yaml:1079), for a user whose requests do not
\* overlap, whatever others do: unless something fails, a handler that wrote the password has
\* closed every session of the user when it is done.
THEOREM RevokesWhenAlone ==
  ASSUME NEW u \in Users
  PROVE  Spec /\ []Alone(u) =>
           [][\A r \in Reqs : /\ pc[r] \in {"mark_used", "delete_tokens"} /\ pc'[r] = "idle"
                              /\ req[r].user = u
                              => \/ faults' # faults
                                 \/ \A s \in Sessions : Accounts[s] = u => ~Open(s)']_vars
<1> USE DEF At
<1>1. ASSUME TypeInv, OwnerInv(u), Alone(u), [Next]_vars, NEW r \in Reqs,
             pc[r] \in {"mark_used", "delete_tokens"}, pc'[r] = "idle", req[r].user = u,
             faults' = faults, NEW s \in Sessions, Accounts[s] = u
      PROVE  ~Open(s)'
  <2>1. ASSUME MarkUsed(r), ~StoredLink(req[r].link)
        PROVE  FALSE
    BY <1>1, <2>1 DEF OwnerInv, TypeInv, Resets, MarkUsed
  <2>2. DeleteTokens(r)
    BY <1>1, <2>1, PasswordEnds
  <2>3. ~Issuing(s)
    BY <1>1 DEF Issuing, OwnerInv, Alone
  <2> QED
    BY <1>1, <2>2, <2>3, RevocationCloses
<1>2. TypeInv /\ OwnerInv(u) /\ Alone(u) /\ [Next]_vars =>
        [\A r \in Reqs : /\ pc[r] \in {"mark_used", "delete_tokens"} /\ pc'[r] = "idle"
                         /\ req[r].user = u
                         => \/ faults' # faults
                            \/ \A s \in Sessions : Accounts[s] = u => ~Open(s)']_vars
  BY <1>1
<1> QED
  BY <1>2, TypeInit, TypeStep, OwnerInit, OwnerStep, PTL DEF Spec

------------------------------------------------------------------------------
(* Refinement *)

phase == [s \in Sessions |-> IF s \notin opened THEN "new"
                             ELSE IF Current(s) # {} THEN "open"
                             ELSE IF Issuing(s) THEN "issuing" ELSE "closed"]
holder == [t \in Tokens |-> IF Stored(t) THEN token[t].session ELSE None]
spent == {t \in Tokens : token[t].status \in {"exchanged", "revoked"}}

\* A step that moves no session and no token stutters.
LEMMA StutterStep ==
  ASSUME opened' = opened,
         \A t \in Tokens : /\ token'[t].session = token[t].session
                           /\ Stored(t)' <=> Stored(t)
                           /\ t \in spent' <=> t \in spent,
         \A s \in Sessions : Issuing(s)' <=> Issuing(s)
  PROVE  UNCHANGED <<phase, holder, spent>>
<1>1. \A s \in Sessions : Current(s)' = Current(s)
  BY DEF Current
<1>2. spent' = spent
  BY DEF spent
<1> QED
  BY <1>1, <1>2 DEF phase, holder

\* A step that takes the tokens and the issues of the sessions S away closes them.
LEMMA CloseStep ==
  ASSUME NEW S \in SUBSET Sessions, TypeInv, opened' = opened,
         \A s \in S : s \in opened /\ (Current(s) # {} \/ Issuing(s)),
         \A t \in Tokens : /\ token'[t].session = token[t].session
                           /\ Stored(t)' <=> Stored(t) /\ token[t].session \notin S
                           /\ t \in spent' <=> t \in spent \/ (Stored(t) /\ token[t].session \in S),
         \A s \in Sessions : Issuing(s)' <=> Issuing(s) /\ s \notin S
  PROVE  [Chain!Next]_(Chain!chain)
<1>1. \A s \in S : Current(s)' = {}
  BY DEF Current
<1>2. \A s \in Sessions \ S : Current(s)' = Current(s)
  BY DEF Current
<1>3. \A s \in S : phase[s] \in {"issuing", "open"}
  BY DEF phase
<1>4. phase' = [s \in Sessions |-> IF s \in S THEN "closed" ELSE phase[s]]
  BY <1>1, <1>2 DEF phase
<1>5. holder' = [t \in Tokens |-> IF holder[t] \in S THEN None ELSE holder[t]]
  BY SessionsAssumption DEF holder
<1>6. \A t \in Tokens : holder[t] \in S <=> Stored(t) /\ token[t].session \in S
  BY SessionsAssumption DEF holder
<1>7. spent' = spent \cup {t \in Tokens : holder[t] \in S}
  BY <1>6 DEF spent
<1>8. Chain!Close(S)
  BY <1>3, <1>4, <1>5, <1>7 DEF Chain!Close, phase, holder, spent
<1> QED
  BY <1>8 DEF Chain!Next

\* Overlapping refreshes, revocations, failures and restarts never fork a session: each
\* session is a chain of tokens, and each token is exchanged at most once.
THEOREM ImplementsChain == Spec => ChainSpec
<1>1. Init => Chain!Init
  BY RowsTyped DEF Init, Chain!Init, Stored, TokenRow
<1>2. TypeInv /\ ChainInv /\ [Next]_vars => [Chain!Next]_(Chain!chain)
  <2> SUFFICES ASSUME TypeInv, ChainInv, [Next]_vars
               PROVE  [Chain!Next]_(Chain!chain)
    OBVIOUS
  <2> USE DEF At
  <2>1. /\ pc \in [Reqs -> Labels] /\ req \in [Reqs -> ReqType]
        /\ token \in [Tokens -> TokenType] /\ opened \subseteq Sessions
    BY DEF TypeInv
  <2>2. ASSUME UNCHANGED <<phase, holder, spent>>
        PROVE  [Chain!Next]_(Chain!chain)
    BY <2>2 DEF Chain!chain, phase, holder, spent
  <2>3. ASSUME UNCHANGED <<token, opened>>,
               \A r \in Reqs : /\ pc'[r] = "issue" <=> pc[r] = "issue"
                               /\ pc[r] = "issue" => req'[r] = req[r]
        PROVE  [Chain!Next]_(Chain!chain)
    <3>1. \A s \in Sessions : Issuing(s)' <=> Issuing(s)
      BY <2>3 DEF Issuing
    <3> QED
      BY <2>2, <2>3, <3>1, StutterStep DEF Stored, spent
  <2>4. CASE UNCHANGED vars
    BY <2>3, <2>4 DEF vars
  <2>5. ASSUME NEW r \in Reqs, NEW s \in Sessions, SignIn(r, s)
        PROVE  [Chain!Next]_(Chain!chain)
    <3>1. /\ s \notin opened /\ opened' = opened \cup {s} /\ token' = token /\ pc[r] = "idle"
      BY <2>5 DEF SignIn, Begin
    <3>2. \A q \in Reqs : /\ pc'[q] = IF q = r THEN "issue" ELSE pc[q]
                          /\ q # r => req'[q] = req[q]
                          /\ q = r => req'[q].session = s
      BY <2>1, <2>5 DEF SignIn, Begin, Locals
    <3>3. \A v \in Sessions : Issuing(v)' <=> Issuing(v) \/ v = s
      BY <3>1, <3>2 DEF Issuing
    <3>4. \A v \in Sessions : Current(v)' = Current(v)
      BY <3>1 DEF Current, Stored
    <3>5. Current(s) = {}
      BY <3>1, SessionsAssumption DEF Current, ChainInv
    <3>6. phase[s] = "new"
      BY <3>1 DEF phase
    <3>7. phase' = [phase EXCEPT ![s] = "issuing"]
      BY <3>1, <3>3, <3>4, <3>5 DEF phase
    <3>8. UNCHANGED <<holder, spent>>
      BY <3>1 DEF holder, spent, Stored
    <3>9. Chain!SignIn(s)
      BY <3>6, <3>7, <3>8 DEF Chain!SignIn, phase, holder, spent
    <3> QED
      BY <3>9 DEF Chain!Next
  <2>6. ASSUME NEW r \in Reqs, Arrive(r)
        PROVE  [Chain!Next]_(Chain!chain)
    <3>1. ASSUME NEW t \in Tokens, Refresh(r, t)
          PROVE  [Chain!Next]_(Chain!chain)
      BY <2>1, <2>3, <3>1 DEF Refresh, Begin
    <3>2. ASSUME NEW u \in Users, ForgotPassword(r, u) \/ ChangePassword(r, u)
          PROVE  [Chain!Next]_(Chain!chain)
      BY <2>1, <2>3, <3>2 DEF ForgotPassword, ChangePassword, Begin
    <3>3. ASSUME NEW k \in Links, ResetPassword(r, k)
          PROVE  [Chain!Next]_(Chain!chain)
      BY <2>1, <2>3, <3>3 DEF ResetPassword, Begin
    <3> QED
      BY <2>5, <2>6, <3>1, <3>2, <3>3 DEF Arrive
  <2>7. ASSUME NEW r \in Reqs, DeleteToken(r)
        PROVE  [Chain!Next]_(Chain!chain)
    <3>1. PICK t \in Tokens, s \in Sessions :
            /\ t = req[r].token /\ s = req[r].session /\ token[t].session = s
      BY <2>1, <2>7 DEF DeleteToken, TypeInv, TokenType
    <3>2. /\ pc[r] = "delete_token" /\ opened' = opened
      BY <2>7 DEF DeleteToken
    <3>3. CASE Stored(t)
      <4>1. /\ token' = [token EXCEPT ![t] = TokenRow("exchanged", @.session)]
            /\ pc' = [pc EXCEPT ![r] = "issue"] /\ req' = req
        BY <2>7, <3>1, <3>3 DEF DeleteToken, AfterDelete, Goto
      <4>2. s \in opened
        BY <3>1, SessionsAssumption DEF ChainInv
      <4>3. \A q \in Reqs : pc'[q] = IF q = r THEN "issue" ELSE pc[q]
        BY <2>1, <4>1
      <4>4. \A v \in Sessions : Issuing(v)' <=> Issuing(v) \/ v = s
        BY <3>1, <3>2, <4>1, <4>3 DEF Issuing
      <4>5. /\ token'[t].status = "exchanged" /\ token'[t].session = s
            /\ \A v \in Tokens : v # t => token'[v] = token[v]
        BY <2>1, <3>1, <4>1 DEF TokenRow
      <4>6. \A v \in Tokens : Stored(v)' <=> Stored(v) /\ v # t
        BY <4>5 DEF Stored
      <4>7. \A v \in Tokens : Stored(v) /\ token[v].session = s => v = t
        BY <3>1, <3>3 DEF ChainInv
      <4>8. Current(s) # {} /\ Current(s)' = {}
        BY <3>1, <3>3, <4>5, <4>6, <4>7 DEF Current
      <4>9. \A v \in Sessions : v # s => Current(v)' = Current(v)
        BY <3>1, <4>5, <4>6 DEF Current
      <4>10. phase[s] = "open" /\ holder[t] = s
        BY <3>1, <3>3, <4>2, <4>8 DEF phase, holder
      <4>11. phase' = [phase EXCEPT ![s] = "issuing"]
        BY <3>2, <4>2, <4>4, <4>8, <4>9 DEF phase
      <4>12. holder' = [holder EXCEPT ![t] = None]
        BY <3>1, <4>5, <4>6 DEF holder
      <4>13. spent' = spent \cup {t}
        BY <3>1, <4>5 DEF spent
      <4>14. Chain!Exchange(s, t)
        BY <4>10, <4>11, <4>12, <4>13 DEF Chain!Exchange, phase, holder, spent
      <4> QED
        BY <4>14 DEF Chain!Next
    <3>4. CASE ~Stored(t)
      BY <2>1, <2>3, <2>7, <3>1, <3>2, <3>4 DEF DeleteToken, AfterDelete, Finish
    <3> QED
      BY <3>3, <3>4
  <2>8. ASSUME NEW r \in Reqs, IssueToken(r)
        PROVE  [Chain!Next]_(Chain!chain)
    <3>1. PICK s \in Sessions :
            s = req[r].session /\ s \in opened /\ pc[r] = "issue" /\ opened' = opened
      BY <2>8 DEF IssueToken, ChainInv, TypeInv
    <3>2. PICK t \in Tokens : /\ token[t].status = "unused"
                              /\ token' = [token EXCEPT ![t] = TokenRow("live", s)]
      BY <2>8, <3>1 DEF IssueToken
    <3>3. \A q \in Reqs : /\ pc'[q] = IF q = r THEN "idle" ELSE pc[q]
                          /\ q # r => req'[q] = req[q]
      BY <2>1, <2>8 DEF IssueToken, Finish
    <3>4. \A q \in Reqs : pc[q] = "issue" /\ q # r => req[q].session # s
      BY <3>1 DEF ChainInv
    <3>5. \A v \in Sessions : Issuing(v)' <=> Issuing(v) /\ v # s
      BY <3>1, <3>3, <3>4 DEF Issuing
    <3>6. Issuing(s)
      BY <3>1 DEF Issuing
    <3>7. \A v \in Tokens : Stored(v) => token[v].session # s
      BY <3>1 DEF ChainInv
    <3>8. /\ token'[t].status = "live" /\ token'[t].session = s
          /\ \A v \in Tokens : v # t => token'[v] = token[v]
      BY <2>1, <3>2 DEF TokenRow
    <3>9. \A v \in Tokens : Stored(v)' <=> Stored(v) \/ v = t
      BY <3>8 DEF Stored
    <3>10. ~Stored(t) /\ t \notin spent
      BY <3>2 DEF Stored, spent
    <3>11. Current(s) = {} /\ Current(s)' # {}
      BY <3>7, <3>8, <3>9 DEF Current
    <3>12. \A v \in Sessions : v # s => Current(v)' = Current(v)
      BY <3>8, <3>9, <3>10 DEF Current
    <3>13. phase[s] = "issuing" /\ holder[t] = None
      BY <3>1, <3>6, <3>10, <3>11 DEF phase, holder
    <3>14. phase' = [phase EXCEPT ![s] = "open"]
      BY <3>1, <3>5, <3>11, <3>12 DEF phase
    <3>15. holder' = [holder EXCEPT ![t] = s]
      BY <3>8, <3>9 DEF holder
    <3>16. spent' = spent
      BY <3>8, <3>10 DEF spent
    <3>17. Chain!Issue(s, t)
      BY <3>10, <3>13, <3>14, <3>15, <3>16 DEF Chain!Issue, phase, holder, spent
    <3> QED
      BY <3>1, <3>17 DEF Chain!Next
  <2>9. ASSUME NEW r \in Reqs, DeleteTokens(r)
        PROVE  [Chain!Next]_(Chain!chain)
    <3> DEFINE u == req[r].user
    <3> DEFINE S == {s \in Sessions : Accounts[s] = u /\ Current(s) # {}}
    <3>1. /\ opened' = opened /\ pc[r] = "delete_tokens"
          /\ \A t \in Tokens : token'[t] = IF t \in Revoked(u)
                                           THEN TokenRow("revoked", token[t].session) ELSE token[t]
      BY <2>9 DEF DeleteTokens
    <3>2. \A t \in Tokens : Stored(t) => token[t].session \in Sessions
      BY DEF TypeInv, TokenType, Stored
    <3>3. \A t \in Tokens : t \in Revoked(u) <=> Stored(t) /\ token[t].session \in S
      BY <3>2 DEF Revoked, Current
    <3>4. \A s \in S : s \in Sessions /\ s \in opened /\ Current(s) # {} /\ ~Issuing(s)
      BY SessionsAssumption DEF Current, Issuing, ChainInv
    <3>5. \A s \in Sessions : Issuing(s)' <=> Issuing(s)
      <4>1. \A q \in Reqs : pc'[q] = "issue" <=> pc[q] = "issue"
        BY <2>1, <2>9, <3>1 DEF DeleteTokens, Finish
      <4>2. \A q \in Reqs : pc[q] = "issue" => req'[q] = req[q]
        BY <2>1, <2>9, <3>1 DEF DeleteTokens, Finish
      <4> QED
        BY <4>1, <4>2 DEF Issuing
    <3> HIDE DEF u, S
    <3>6. ASSUME NEW t \in Tokens
          PROVE  /\ token'[t].session = token[t].session
                 /\ token'[t].status = IF t \in Revoked(u) THEN "revoked" ELSE token[t].status
      <4>1. TokenRow("revoked", token[t].session).status = "revoked"
        BY DEF TokenRow
      <4>2. TokenRow("revoked", token[t].session).session = token[t].session
        BY DEF TokenRow
      <4> QED
        BY <3>1, <4>1, <4>2
    <3>7. \A t \in Tokens : /\ Stored(t)' <=> Stored(t) /\ token[t].session \notin S
                            /\ t \in spent' <=> t \in spent \/ (Stored(t) /\ token[t].session \in S)
      BY <3>3, <3>6 DEF Stored, spent
    <3>8. S \in SUBSET Sessions
      BY <3>4
    <3> QED
      BY <3>1, <3>4, <3>5, <3>6, <3>7, <3>8, CloseStep
  <2>10. ASSUME NEW r \in Reqs, Serve(r)
         PROVE  [Chain!Next]_(Chain!chain)
    <3>1. CASE DeleteLinks(r) \/ CreateLink(r)
      BY <2>1, <2>3, <3>1 DEF DeleteLinks, CreateLink, Goto, Finish
    <3>2. CASE SetPassword(r)
      BY <2>1, <2>3, <3>2 DEF SetPassword, Goto
    <3>3. CASE MarkUsed(r)
      <4>1. /\ UNCHANGED <<token, opened>> /\ pc[r] = "mark_used"
            /\ Goto(r, "delete_tokens") \/ Finish(r)
        BY <3>3 DEF MarkUsed
      <4> QED
        BY <2>1, <2>3, <4>1 DEF Goto, Finish
    <3> QED
      BY <2>7, <2>8, <2>9, <2>10, <3>1, <3>2, <3>3 DEF Serve
  <2>11. ASSUME NEW r \in Reqs, DbThrows(r)
         PROVE  [Chain!Next]_(Chain!chain)
    <3>1. /\ UNCHANGED <<token, opened>>
          /\ \A q \in Reqs : /\ pc'[q] = IF q = r THEN "idle" ELSE pc[q]
                             /\ q # r => req'[q] = req[q]
      BY <2>1, <2>11 DEF DbThrows, Finish
    <3>2. CASE pc[r] # "issue"
      BY <2>3, <3>1, <3>2
    <3>3. CASE pc[r] = "issue"
      <4> DEFINE s == req[r].session
      <4>1. s \in Sessions /\ s \in opened /\ Issuing(s)
        BY <3>3 DEF TypeInv, ChainInv, Issuing
      <4>2. \A t \in Tokens : Stored(t) => token[t].session # s
        BY <3>3 DEF ChainInv
      <4>3. \A q \in Reqs : pc[q] = "issue" /\ q # r => req[q].session # s
        BY <3>3 DEF ChainInv
      <4>4. \A v \in Sessions : Issuing(v)' <=> Issuing(v) /\ v # s
        BY <3>1, <3>3, <4>3 DEF Issuing
      <4> HIDE DEF s
      <4>5. \A t \in Tokens :
              /\ token'[t].session = token[t].session
              /\ Stored(t)' <=> Stored(t) /\ token[t].session \notin {s}
              /\ t \in spent' <=> t \in spent \/ (Stored(t) /\ token[t].session \in {s})
        BY <3>1, <4>2 DEF Stored, spent
      <4> QED
        BY <3>1, <4>1, <4>4, <4>5, CloseStep
    <3> QED
      BY <3>2, <3>3
  <2>12. CASE Restart
    <3> DEFINE S == {s \in Sessions : Issuing(s)}
    <3>1. UNCHANGED <<token, opened>> /\ \A r \in Reqs : pc'[r] = "idle"
      BY <2>12 DEF Restart
    <3>2. \A s \in S : s \in opened /\ Issuing(s)
      BY DEF Issuing, ChainInv
    <3>3. \A t \in Tokens : Stored(t) => token[t].session \notin S
      BY DEF Issuing, ChainInv
    <3>4. \A s \in Sessions : Issuing(s)' <=> Issuing(s) /\ s \notin S
      BY <3>1 DEF Issuing
    <3>5. S \in SUBSET Sessions
      OBVIOUS
    <3> HIDE DEF S
    <3>6. \A t \in Tokens : /\ token'[t].session = token[t].session
                            /\ Stored(t)' <=> Stored(t) /\ token[t].session \notin S
                            /\ t \in spent' <=> t \in spent \/ (Stored(t) /\ token[t].session \in S)
      BY <3>1, <3>3 DEF Stored, spent
    <3> QED
      BY <3>1, <3>2, <3>4, <3>5, <3>6, CloseStep
  <2>13. ASSUME NEW t \in Tokens, TokenExpires(t)
         PROVE  [Chain!Next]_(Chain!chain)
    <3>1. /\ token'[t].status = "expired" /\ token'[t].session = token[t].session
          /\ token[t].status = "live" /\ UNCHANGED <<opened, pc, req>>
          /\ \A v \in Tokens : v # t => token'[v] = token[v]
      BY <2>1, <2>13 DEF TokenExpires, TokenRow
    <3>2. \A v \in Tokens : /\ token'[v].session = token[v].session
                            /\ Stored(v)' <=> Stored(v)
                            /\ v \in spent' <=> v \in spent
      BY <3>1 DEF Stored, spent
    <3>3. \A s \in Sessions : Issuing(s)' <=> Issuing(s)
      BY <3>1 DEF Issuing
    <3> QED
      BY <2>2, <3>1, <3>2, <3>3, StutterStep
  <2>14. ASSUME NEW k \in Links, LinkExpires(k)
         PROVE  [Chain!Next]_(Chain!chain)
    BY <2>3, <2>14 DEF LinkExpires
  <2> QED
    BY <2>4, <2>6, <2>10, <2>11, <2>12, <2>13, <2>14 DEF Next
<1> QED
  BY <1>1, <1>2, Invariant, PTL DEF Spec, ChainSpec, Chain!Spec

------------------------------------------------------------------------------
(* What the chain promises *)

\* A session holds one refresh token at most, and none while its next one is being written:
\* no overlap of refreshes leaves it with two.
THEOREM NeverForks ==
  Spec => [](\A s \in Sessions : /\ \A t, v \in Current(s) : t = v
                                 /\ Issuing(s) => Current(s) = {})
<1>1. ChainInv => \A s \in Sessions : /\ \A t, v \in Current(s) : t = v
                                      /\ Issuing(s) => Current(s) = {}
  BY DEF ChainInv, Current, Issuing, At
<1> QED
  BY <1>1, Invariant, PTL

Dead(s) == s \in opened /\ ~Open(s)

\* A session that has lost its token, by a revocation or on the way to the client, is dead for
\* good, and a token that was exchanged or revoked is never stored again.
THEOREM DeadForGood ==
  Spec => [][/\ \A s \in Sessions : Dead(s) => Dead(s)'
             /\ \A t \in spent : t \in spent' /\ ~Stored(t)']_vars
<1>1. ASSUME [Chain!Next]_(Chain!chain), NEW s \in Sessions, Dead(s)
      PROVE  Dead(s)'
  <2>1. phase[s] = "closed"
    BY <1>1 DEF Dead, Open, phase
  <2>2. phase'[s] = "closed"
    <3>1. CASE UNCHANGED Chain!chain
      BY <2>1, <3>1 DEF Chain!chain, phase
    <3>2. ASSUME NEW v \in Sessions, Chain!SignIn(v)
          PROVE  phase'[s] = "closed"
      BY <2>1, <3>2 DEF Chain!SignIn, phase
    <3>3. ASSUME NEW v \in Sessions, NEW t \in Tokens, Chain!Issue(v, t) \/ Chain!Exchange(v, t)
          PROVE  phase'[s] = "closed"
      BY <2>1, <3>3 DEF Chain!Issue, Chain!Exchange, phase
    <3>4. ASSUME NEW S \in SUBSET Sessions, Chain!Close(S)
          PROVE  phase'[s] = "closed"
      BY <2>1, <3>4 DEF Chain!Close, phase
    <3> QED
      BY <1>1, <3>1, <3>2, <3>3, <3>4 DEF Chain!Next
  <2> QED
    BY <2>2 DEF Dead, Open, phase
<1>2. ASSUME [Chain!Next]_(Chain!chain), NEW t \in spent
      PROVE  t \in spent' /\ ~Stored(t)'
  <2>1. spent \subseteq spent'
    BY <1>2 DEF Chain!Next, Chain!SignIn, Chain!Issue, Chain!Exchange, Chain!Close, Chain!chain,
                spent
  <2> QED
    BY <2>1 DEF spent, Stored
<1>3. Spec => [][Chain!Next]_(Chain!chain)
  BY ImplementsChain, PTL DEF ChainSpec, Chain!Spec
<1>4. [Chain!Next]_(Chain!chain)
        => [/\ \A s \in Sessions : Dead(s) => Dead(s)'
            /\ \A t \in spent : t \in spent' /\ ~Stored(t)']_vars
  BY <1>1, <1>2
<1> QED
  BY <1>3, <1>4, PTL
==============================================================================
