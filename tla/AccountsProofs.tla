---------------------------- MODULE AccountsProofs ----------------------------
(***************************************************************************)
(* Proofs about Accounts, for every number of accounts, numbers, Google    *)
(* subjects and overlapping requests.                                      *)
(***************************************************************************)
EXTENDS Accounts, TLAPS

LocalsType == [email : Emails \cup {None}, sub : Subs \cup {None},
               phone : Phones \cup {None}, changed : BOOLEAN]

\* What a slot's locals hold at each await.
Fits(l, x) ==
  /\ l # "idle" => x.email \in Emails
  /\ l \in GoogleLookups \cup {"issue"} => x.sub \in Subs
  /\ l \in {"create_user", "check_code", "set_phone_verified"} => x.phone \in Phones

TypeInv == TypeOK /\ \A r \in Reqs : Fits(pc[r], req[r])

------------------------------------------------------------------------------
(* Slots *)

\* Slot r goes to l with the locals x, and no other slot moves.
Moves(r, l, x) ==
  /\ pc' \in [Reqs -> Labels] /\ req' \in [Reqs -> LocalsType]
  /\ pc'[r] = l /\ req'[r] = x
  /\ \A q \in Reqs : q # r => pc'[q] = pc[q] /\ req'[q] = req[q]

LEMMA LocalsTyped ==
  ASSUME NEW e \in Emails \cup {None}, NEW sub \in Subs \cup {None},
         NEW phone \in Phones \cup {None}, NEW changed \in BOOLEAN
  PROVE  /\ Locals(e, sub, phone, changed) \in LocalsType
         /\ Locals(e, sub, phone, changed).email = e
         /\ Locals(e, sub, phone, changed).sub = sub
         /\ Locals(e, sub, phone, changed).phone = phone
         /\ NoReq \in LocalsType
<1> QED
  BY DEF Locals, LocalsType, NoReq

LEMMA LabelsTyped ==
  /\ ProfileAwaits \subseteq Labels /\ GoogleLookups \subseteq Labels /\ DbAwaits \subseteq Labels
  /\ {"idle", "create_user", "issue"} \subseteq Labels
<1> QED
  BY DEF Labels, DbAwaits, ProfileAwaits, GoogleLookups

LEMMA SlotTyped ==
  ASSUME TypeInv, NEW r \in Reqs
  PROVE  /\ pc \in [Reqs -> Labels] /\ req \in [Reqs -> LocalsType]
         /\ req[r] \in LocalsType /\ Fits(pc[r], req[r])
<1> QED
  BY DEF TypeInv, TypeOK, LocalsType

LEMMA BeginMoves ==
  ASSUME TypeInv, NEW r \in Reqs, NEW l \in Labels, NEW x \in LocalsType, Begin(r, l, x)
  PROVE  pc[r] = "idle" /\ Moves(r, l, x)
<1> QED
  BY SlotTyped DEF Begin, At, Moves

LEMMA GotoMoves ==
  ASSUME TypeInv, NEW r \in Reqs, NEW l \in Labels, Goto(r, l)
  PROVE  Moves(r, l, req[r])
<1> QED
  BY SlotTyped DEF Goto, Moves

LEMMA FinishMoves ==
  ASSUME TypeInv, NEW r \in Reqs, Finish(r)
  PROVE  Moves(r, "idle", NoReq)
<1>1. NoReq \in LocalsType /\ "idle" \in Labels
  BY LocalsTyped, LabelsTyped DEF NoReq, Locals, LocalsType
<1> QED
  BY <1>1, SlotTyped DEF Finish, Moves

LEMMA GoOnMoves ==
  ASSUME TypeInv, NEW r \in Reqs, NEW l \in Labels, GoOn(r, l)
  PROVE  Moves(r, l, IF l = "idle" THEN NoReq ELSE req[r])
<1> QED
  BY GotoMoves, FinishMoves DEF GoOn

\* A step of one slot keeps the types when what it writes has them.
LEMMA TypeStep ==
  ASSUME TypeInv, NEW r \in Reqs, NEW l \in Labels, NEW x \in LocalsType,
         Moves(r, l, x), Fits(l, x),
         account' \in [Emails -> Row],
         \A e \in Emails : /\ account[e].exists => account'[e].exists
                           /\ account'[e].sub # None \/ account'[e].phoneVerified
                                => account'[e].exists,
         l \in ProfileAwaits \cup {"link", "issue"} => account'[x.email].exists,
         granted' \subseteq Subs \X Emails, displaced' \subseteq Subs,
         proved' \in [Emails -> Phones \cup {None}], overlapped' \subseteq Emails,
         faults' \in 0..MaxFaults
  PROVE  TypeInv'
<1>1. \A q \in Reqs : Fits(pc'[q], req'[q])
  BY DEF TypeInv, Moves
<1>2. ASSUME NEW q \in Reqs, pc'[q] \in ProfileAwaits \cup {"link", "issue"}
      PROVE  account'[req'[q].email].exists
  <2>1. CASE q = r
    BY <1>2, <2>1 DEF Moves
  <2>2. CASE q # r
    <3>1. pc[q] \in ProfileAwaits \cup {"link", "issue"} /\ req'[q] = req[q]
      BY <1>2, <2>2 DEF Moves
    <3>2. req[q].email \in Emails
      BY <3>1 DEF TypeInv, Fits, ProfileAwaits
    <3> QED
      BY <3>1, <3>2 DEF TypeInv, TypeOK
  <2> QED
    BY <2>1, <2>2
<1> QED
  BY <1>1, <1>2 DEF TypeInv, TypeOK, Moves, LocalsType

------------------------------------------------------------------------------
(* What each action does *)

LEMMA RowsTyped ==
  /\ \A phone \in Phones \cup {None} : NewUser(phone) \in Row
  /\ \A sub \in Subs \cup {None} : NewOAuthUser(sub) \in Row
  /\ NoAccount \in Row
<1> QED
  BY DEF NewUser, NewOAuthUser, NoAccount, Row

LEMMA RowTyped ==
  ASSUME TypeInv, NEW e \in Emails
  PROVE  /\ account \in [Emails -> Row] /\ account[e] \in Row
         /\ account[e].sub # None \/ account[e].phoneVerified => account[e].exists
<1> QED
  BY DEF TypeInv, TypeOK

LEMMA AfterFoundTyped ==
  ASSUME NEW row, NEW sub \in Subs
  PROVE  /\ AfterFound(row, sub) \in {"link", "issue", "idle"}
         /\ AfterFound(row, sub) = "issue" => row.sub = sub
         /\ AfterFound(row, sub) = "idle" => row.sub \notin {None, sub}
<1> QED
  BY DEF AfterFound

\* The account of a slot that is not idle.
LEMMA BusyEmail ==
  ASSUME TypeInv, NEW r \in Reqs, pc[r] # "idle"
  PROVE  req[r].email \in Emails
<1> QED
  BY DEF TypeInv, Fits

\* A request that arrives takes an idle slot, and leaves the table alone.
LEMMA ArriveStep ==
  ASSUME TypeInv, NEW r \in Reqs, Arrive(r)
  PROVE  /\ pc[r] = "idle" /\ UNCHANGED <<account, granted, displaced, proved, faults>>
         /\ overlapped \subseteq overlapped' /\ overlapped' \subseteq Emails
         /\ \E l \in Labels, x \in LocalsType :
              /\ Moves(r, l, x) /\ Fits(l, x) /\ l # "idle"
              /\ \/ l \in {"create_user", "find_email"} /\ UNCHANGED overlapped
                 \/ /\ l = "issue" /\ account[x.email].sub = x.sub /\ account[x.email].exists
                    /\ UNCHANGED overlapped
                 \/ /\ l \in {"find_existing", "check_code"} /\ account[x.email].exists
                    /\ l = "check_code" => account[x.email].phone = x.phone
                    /\ Busy(x.email) => x.email \in overlapped'
<1>0. overlapped \subseteq Emails
  BY DEF TypeInv, TypeOK
<1>1. ASSUME NEW e \in Emails, NEW phone \in Phones, Signup(r, e, phone)
      PROVE  /\ UNCHANGED <<account, history, faults>> /\ pc[r] = "idle"
             /\ \E x \in LocalsType : Moves(r, "create_user", x) /\ Fits("create_user", x)
  <2>1. Locals(e, None, phone, FALSE) \in LocalsType /\ "create_user" \in Labels
    BY LocalsTyped, LabelsTyped
  <2>2. Fits("create_user", Locals(e, None, phone, FALSE))
    BY DEF Fits, Locals, GoogleLookups
  <2> QED
    BY <1>1, <2>1, <2>2, BeginMoves DEF Signup
<1>2. ASSUME NEW e \in Emails, NEW sub \in Subs, SignInWithGoogle(r, sub, e)
      PROVE  /\ UNCHANGED <<account, history, faults>> /\ pc[r] = "idle"
             /\ \E l \in {"find_email", "issue"}, x \in LocalsType :
                  /\ Moves(r, l, x) /\ Fits(l, x)
                  /\ l = "issue" => account[x.email].sub = x.sub /\ account[x.email].exists
  <2>1. CASE Begin(r, "find_email", Locals(e, sub, None, FALSE))
    <3>1. Locals(e, sub, None, FALSE) \in LocalsType /\ "find_email" \in Labels
      BY LocalsTyped, LabelsTyped DEF GoogleLookups
    <3>2. Fits("find_email", Locals(e, sub, None, FALSE))
      BY DEF Fits, Locals, GoogleLookups
    <3> QED
      BY <1>2, <2>1, <3>1, <3>2, BeginMoves DEF SignInWithGoogle
  <2>2. ASSUME NEW f \in LinkedTo(sub), Begin(r, "issue", Locals(f, sub, None, FALSE))
        PROVE  /\ pc[r] = "idle"
               /\ \E x \in LocalsType :
                    /\ Moves(r, "issue", x) /\ Fits("issue", x)
                    /\ account[x.email].sub = x.sub /\ account[x.email].exists
    <3>1. f \in Emails /\ account[f].sub = sub /\ sub # None
      BY AccountsAssumption DEF LinkedTo
    <3>2. Locals(f, sub, None, FALSE) \in LocalsType /\ "issue" \in Labels
      BY <3>1, LocalsTyped, LabelsTyped
    <3>3. Fits("issue", Locals(f, sub, None, FALSE))
      BY <3>1 DEF Fits, Locals, GoogleLookups
    <3>4. account[f].exists
      BY <3>1, RowTyped
    <3>5. pc[r] = "idle" /\ Moves(r, "issue", Locals(f, sub, None, FALSE))
      BY <2>2, <3>2, BeginMoves
    <3>6. Locals(f, sub, None, FALSE).email = f /\ Locals(f, sub, None, FALSE).sub = sub
      BY DEF Locals
    <3> QED
      BY <3>1, <3>2, <3>3, <3>4, <3>5, <3>6
  <2> QED
    BY <1>2, <2>1, <2>2 DEF SignInWithGoogle
<1>3. ASSUME NEW l \in {"find_existing", "check_code"}, NEW x \in LocalsType, Fits(l, x),
             BeginProfile(r, l, x)
      PROVE  /\ pc[r] = "idle" /\ Moves(r, l, x) /\ account[x.email].exists
             /\ UNCHANGED <<account, granted, displaced, proved, faults>>
             /\ overlapped \subseteq overlapped' /\ overlapped' \subseteq Emails
             /\ Busy(x.email) => x.email \in overlapped'
  <2>1. l \in Labels /\ x.email \in Emails
    BY <1>3, LabelsTyped DEF Fits, ProfileAwaits, Labels
  <2> QED
    BY <1>0, <1>3, <2>1, BeginMoves DEF BeginProfile
<1>4. ASSUME NEW e \in Emails, NEW phone \in Phones \cup {None}, PatchProfile(r, e, phone)
      PROVE  \E x \in LocalsType : Fits("find_existing", x) /\ BeginProfile(r, "find_existing", x)
  <2>1. Locals(e, None, phone, FALSE) \in LocalsType
    BY LocalsTyped
  <2>2. Fits("find_existing", Locals(e, None, phone, FALSE))
    BY DEF Fits, Locals, GoogleLookups
  <2> QED
    BY <1>4, <2>1, <2>2 DEF PatchProfile
<1>5. ASSUME NEW e \in Emails, VerifyPhone(r, e)
      PROVE  \E x \in LocalsType : /\ Fits("check_code", x) /\ account[x.email].phone = x.phone
                                   /\ BeginProfile(r, "check_code", x)
  <2>1. account[e].phone \in Phones
    BY <1>5, RowTyped DEF VerifyPhone, CanVerify, Row
  <2>2. Locals(e, None, account[e].phone, FALSE) \in LocalsType
    BY <2>1, LocalsTyped
  <2>3. /\ Fits("check_code", Locals(e, None, account[e].phone, FALSE))
        /\ Locals(e, None, account[e].phone, FALSE).email = e
        /\ Locals(e, None, account[e].phone, FALSE).phone = account[e].phone
    BY <2>1 DEF Fits, Locals, GoogleLookups
  <2> QED
    BY <1>5, <2>2, <2>3 DEF VerifyPhone
<1>6. "create_user" \in Labels /\ "find_email" \in Labels /\ "issue" \in Labels
      /\ "find_existing" \in Labels /\ "check_code" \in Labels
  BY DEF Labels, DbAwaits, ProfileAwaits, GoogleLookups
<1>7. CASE \E e \in Emails, phone \in Phones : Signup(r, e, phone)
  BY <1>0, <1>1, <1>6, <1>7 DEF history
<1>8. CASE \E e \in Emails, sub \in Subs : SignInWithGoogle(r, sub, e)
  BY <1>0, <1>2, <1>6, <1>8 DEF history
<1>9. CASE \E e \in Emails, phone \in Phones \cup {None} : PatchProfile(r, e, phone)
  BY <1>3, <1>4, <1>6, <1>9
<1>10. CASE \E e \in Emails : VerifyPhone(r, e)
  BY <1>3, <1>5, <1>6, <1>10
<1> QED
  BY <1>7, <1>8, <1>9, <1>10 DEF Arrive

\* Where the slot of a request under way may go, and with what locals.
Continues(r, l, x) ==
  \/ l = "idle" /\ x = NoReq
  \/ /\ pc[r] \in {"find_email", "find_raced"} /\ UNCHANGED account
     /\ l \in {"link", "issue", "create_oauth_user"} /\ x = req[r]
     /\ l # "create_oauth_user" => account[x.email].exists
     /\ l = "issue" => account[x.email].sub = x.sub
  \/ /\ pc[r] \in {"link", "create_oauth_user"} /\ l = "issue" /\ x = req[r]
     /\ account'[x.email].exists /\ account'[x.email].sub = x.sub
  \/ /\ pc[r] = "create_oauth_user" /\ l = "find_raced" /\ x = req[r]
     /\ UNCHANGED account
     /\ account[x.email].exists \/ SubTaken(x.sub, x.email)
  \/ /\ pc[r] = "find_existing" /\ l = "update_profile" /\ UNCHANGED account
     /\ x.email = req[r].email /\ x.phone = req[r].phone
     /\ x.changed = (account[x.email].phone # x.phone)
  \/ /\ pc[r] = "check_code" /\ l = "set_phone_verified" /\ x = req[r]
     /\ UNCHANGED account /\ proved'[x.email] = x.phone

LEMMA ServeMoves ==
  ASSUME TypeInv, NEW r \in Reqs, Serve(r)
  PROVE  /\ pc[r] # "idle"
         /\ \E l \in Labels, x \in LocalsType :
              Moves(r, l, x) /\ Fits(l, x) /\ Continues(r, l, x)
<1>0. "idle" \in Labels /\ NoReq \in LocalsType /\ Fits("idle", NoReq)
  BY LocalsTyped DEF Labels, Fits, GoogleLookups, NoReq, Locals, LocalsType
<1>1. CASE CreateUser(r)
  BY <1>0, <1>1, FinishMoves DEF CreateUser, At, Continues
<1>2. CASE FindByEmail(r) \/ FindRaced(r)
  <2> DEFINE row == account[req[r].email]
  <2>1. pc[r] \in {"find_email", "find_raced"} /\ UNCHANGED account
    BY <1>2 DEF FindByEmail, FindRaced, At
  <2>2. req[r] \in LocalsType /\ req[r].email \in Emails /\ req[r].sub \in Subs
    BY <2>1, SlotTyped DEF Fits, GoogleLookups
  <2>3. \/ row.exists /\ GoOn(r, AfterFound(row, req[r].sub))
        \/ GoOn(r, "create_oauth_user")
        \/ GoOn(r, "idle")
    BY <1>2 DEF FindByEmail, FindRaced, AfterRaced
  <2>4. PICK l \in {"link", "issue", "create_oauth_user", "idle"} :
             /\ GoOn(r, l)
             /\ l \in {"link", "issue"} => row.exists
             /\ l = "issue" => row.sub = req[r].sub
    BY <2>2, <2>3, AfterFoundTyped
  <2>5. l \in Labels
    BY DEF Labels, DbAwaits, GoogleLookups
  <2>6. CASE l = "idle"
    BY <1>0, <2>1, <2>4, <2>5, <2>6, GoOnMoves DEF Continues
  <2>7. CASE l # "idle"
    <3>1. Fits(l, req[r])
      BY <2>2, <2>7 DEF Fits, GoogleLookups
    <3>2. Moves(r, l, req[r])
      BY <2>4, <2>5, <2>7, GoOnMoves
    <3>3. Continues(r, l, req[r])
      BY <2>1, <2>4, <2>7 DEF Continues
    <3> QED
      BY <2>1, <2>2, <2>5, <3>1, <3>2, <3>3
  <2> QED
    BY <2>6, <2>7
<1>3. CASE LinkGoogleAccount(r) \/ CreateOAuthUser(r)
  <2>1. pc[r] \in {"link", "create_oauth_user"}
    BY <1>3 DEF LinkGoogleAccount, CreateOAuthUser, At
  <2>2. req[r] \in LocalsType /\ req[r].email \in Emails /\ req[r].sub \in Subs
    BY <2>1, SlotTyped DEF Fits, GoogleLookups
  <2>3. {"issue", "find_raced"} \subseteq Labels
    BY DEF Labels, DbAwaits, GoogleLookups
  <2>4. Fits("issue", req[r]) /\ Fits("find_raced", req[r])
    BY <2>2 DEF Fits, GoogleLookups
  <2>5. CASE Finish(r)
    BY <1>0, <2>1, <2>5, FinishMoves DEF Continues
  <2>6. CASE pc[r] = "create_oauth_user" /\ GoOn(r, "find_raced") /\ UNCHANGED account
             /\ (account[req[r].email].exists \/ SubTaken(req[r].sub, req[r].email))
    <3>1. Moves(r, "find_raced", req[r])
      BY <2>3, <2>6, GoOnMoves
    <3> QED
      BY <2>2, <2>3, <2>4, <2>6, <3>1 DEF Continues
  <2>7. CASE Goto(r, "issue") /\ account' = [account EXCEPT ![req[r].email].sub = req[r].sub]
             /\ pc[r] = "link"
    <3>1. Moves(r, "issue", req[r])
      BY <2>3, <2>7, GotoMoves
    <3>2. account'[req[r].email].exists /\ account'[req[r].email].sub = req[r].sub
      BY <2>2, <2>7, RowTyped DEF TypeInv, TypeOK, Row
    <3> QED
      BY <2>2, <2>3, <2>4, <2>7, <3>1, <3>2 DEF Continues
  <2>8. CASE Goto(r, "issue") /\ account' = [account EXCEPT ![req[r].email] = NewOAuthUser(req[r].sub)]
             /\ pc[r] = "create_oauth_user"
    <3>1. Moves(r, "issue", req[r])
      BY <2>3, <2>8, GotoMoves
    <3>2. account'[req[r].email].exists /\ account'[req[r].email].sub = req[r].sub
      BY <2>2, <2>8, RowTyped DEF NewOAuthUser
    <3> QED
      BY <2>2, <2>3, <2>4, <2>8, <3>1, <3>2 DEF Continues
  <2> QED
    BY <1>3, <2>5, <2>6, <2>7, <2>8
       DEF LinkGoogleAccount, CreateOAuthUser, AfterCreateFails, At
<1>4. CASE IssueTokenPair(r)
  BY <1>0, <1>4, FinishMoves DEF IssueTokenPair, At, Continues
<1>5. CASE FindExisting(r)
  <2> DEFINE x == [req[r] EXCEPT !.changed = account[req[r].email].phone # req[r].phone]
  <2>1. pc[r] = "find_existing" /\ req[r] \in LocalsType /\ req[r].email \in Emails
    BY <1>5, SlotTyped DEF FindExisting, At, Fits
  <2>2. x \in LocalsType /\ x.email = req[r].email /\ x.phone = req[r].phone
        /\ x.changed = (account[req[r].email].phone # req[r].phone)
    BY <2>1 DEF LocalsType
  <2>3. "update_profile" \in Labels
    BY DEF Labels, DbAwaits, ProfileAwaits
  <2>4. Fits("update_profile", x)
    BY <2>1, <2>2 DEF Fits, GoogleLookups
  <2>5. req' = [req EXCEPT ![r] = x] /\ pc' = [pc EXCEPT ![r] = "update_profile"]
    BY <1>5, SlotTyped DEF FindExisting, LocalsType
  <2>6. Moves(r, "update_profile", x)
    BY <2>2, <2>3, <2>5, SlotTyped DEF Moves
  <2>7. Continues(r, "update_profile", x)
    BY <1>5, <2>1, <2>2 DEF FindExisting, Continues
  <2> HIDE DEF x
  <2> QED
    BY <2>1, <2>2, <2>3, <2>4, <2>6, <2>7
<1>6. CASE UpdateProfile(r)
  BY <1>0, <1>6, FinishMoves DEF UpdateProfile, At, Continues
<1>7. CASE CheckReply(r)
  <2>1. pc[r] = "check_code" /\ req[r] \in LocalsType /\ req[r].email \in Emails
        /\ req[r].phone \in Phones
    BY <1>7, SlotTyped DEF CheckReply, At, Fits
  <2>2. CASE Finish(r)
    BY <1>0, <2>1, <2>2, FinishMoves DEF Continues
  <2>3. CASE /\ Goto(r, "set_phone_verified")
             /\ proved' = [proved EXCEPT ![req[r].email] = req[r].phone]
    <3>1. "set_phone_verified" \in Labels
      BY DEF Labels, DbAwaits, ProfileAwaits
    <3>2. Fits("set_phone_verified", req[r])
      BY <2>1 DEF Fits, GoogleLookups
    <3>3. Moves(r, "set_phone_verified", req[r])
      BY <2>3, <3>1, GotoMoves
    <3>4. UNCHANGED account /\ proved'[req[r].email] = req[r].phone
      BY <1>7, <2>1, <2>3 DEF CheckReply, TypeInv, TypeOK
    <3> QED
      BY <2>1, <2>3, <3>1, <3>2, <3>3, <3>4 DEF Continues
  <2> QED
    BY <1>7, <2>2, <2>3 DEF CheckReply
<1>8. CASE SetPhoneVerified(r)
  BY <1>0, <1>8, FinishMoves DEF SetPhoneVerified, At, Continues
<1> QED
  BY <1>1, <1>2, <1>3, <1>4, <1>5, <1>6, <1>7, <1>8 DEF Serve

\* The rows after a write by slot r, in the account the slot is about.
Writes(r) ==
  LET e == req[r].email
      phone == req[r].phone
  IN  \/ UNCHANGED <<account, displaced>>
      \/ /\ pc[r] = "create_user" /\ ~account[e].exists /\ UNCHANGED displaced
         /\ account' = [account EXCEPT ![e] = NewUser(phone)]
      \/ /\ pc[r] = "create_oauth_user" /\ ~account[e].exists /\ ~SubTaken(req[r].sub, e)
         /\ account' = [account EXCEPT ![e] = NewOAuthUser(req[r].sub)] /\ UNCHANGED displaced
      \/ /\ pc[r] = "link" /\ ~SubTaken(req[r].sub, e)
         /\ account' = [account EXCEPT ![e].sub = req[r].sub]
         /\ displaced' = displaced \cup Overwritten(account[e].sub, req[r].sub)
      \/ /\ pc[r] = "update_profile" /\ UNCHANGED displaced
         /\ account' = [account EXCEPT ![e] = Patched(@, phone, req[r].changed)]
      \/ /\ pc[r] = "set_phone_verified" /\ UNCHANGED displaced
         /\ account' = [account EXCEPT ![e].phoneVerified = TRUE]

LEMMA ServeWrites ==
  ASSUME TypeInv, NEW r \in Reqs, Serve(r)
  PROVE  Writes(r)
<1>1. CASE CreateUser(r) \/ UpdateProfile(r) \/ SetPhoneVerified(r)
  BY <1>1 DEF CreateUser, UpdateProfile, SetPhoneVerified, Writes, At, history
<1>2. CASE LinkGoogleAccount(r) \/ CreateOAuthUser(r)
  BY <1>2 DEF LinkGoogleAccount, CreateOAuthUser, Writes, At, history
<1>3. CASE \/ FindByEmail(r) \/ FindRaced(r) \/ IssueTokenPair(r) \/ FindExisting(r)
           \/ CheckReply(r)
  BY <1>3 DEF FindByEmail, FindRaced, IssueTokenPair, FindExisting, CheckReply, Writes, history
<1> QED
  BY <1>1, <1>2, <1>3 DEF Serve

\* What a step of slot r adds to the history.
Records(r) ==
  /\ UNCHANGED <<overlapped, faults>>
  /\ displaced \subseteq displaced'
  /\ \/ UNCHANGED granted
     \/ /\ pc[r] = "issue" /\ granted' = granted \cup {<<req[r].sub, req[r].email>>}
        /\ UNCHANGED <<account, displaced>>
  /\ \/ UNCHANGED proved
     \/ /\ pc[r] = "check_code" /\ proved' = [proved EXCEPT ![req[r].email] = req[r].phone]
        /\ UNCHANGED account

LEMMA ServeRecords ==
  ASSUME TypeInv, NEW r \in Reqs, Serve(r)
  PROVE  Records(r)
<1>1. CASE \/ CreateUser(r) \/ UpdateProfile(r) \/ SetPhoneVerified(r) \/ CreateOAuthUser(r)
           \/ FindByEmail(r) \/ FindRaced(r) \/ FindExisting(r)
  BY <1>1 DEF CreateUser, UpdateProfile, SetPhoneVerified, CreateOAuthUser, FindByEmail,
              FindRaced, FindExisting, Records, history
<1>2. CASE LinkGoogleAccount(r) \/ IssueTokenPair(r) \/ CheckReply(r)
  BY <1>2 DEF LinkGoogleAccount, IssueTokenPair, CheckReply, Records, At
<1> QED
  BY <1>1, <1>2 DEF Serve

\* Rows keep their type, and accounts stay.
LEMMA WritesTyped ==
  ASSUME TypeInv, NEW r \in Reqs, Writes(r)
  PROVE  /\ account' \in [Emails -> Row] /\ displaced' \subseteq Subs
         /\ \A e \in Emails : /\ account[e].exists => account'[e].exists
                              /\ account'[e].sub # None \/ account'[e].phoneVerified
                                   => account'[e].exists
<1> DEFINE e == req[r].email
<1>1. /\ account \in [Emails -> Row] /\ displaced \subseteq Subs
      /\ \A f \in Emails : account[f].sub # None \/ account[f].phoneVerified
                             => account[f].exists
  BY DEF TypeInv, TypeOK
<1>2. /\ req[r] \in LocalsType
      /\ pc[r] # "idle" => e \in Emails
      /\ pc[r] \in {"link", "create_oauth_user"} => req[r].sub \in Subs
  BY SlotTyped DEF Fits, GoogleLookups
<1>3. CASE UNCHANGED <<account, displaced>>
  BY <1>1, <1>3
<1>4. CASE pc[r] = "create_user" /\ account' = [account EXCEPT ![e] = NewUser(req[r].phone)]
           /\ UNCHANGED displaced
  <2>1. NewUser(req[r].phone) \in Row /\ NewUser(req[r].phone).exists
    BY <1>2 DEF NewUser, Row, LocalsType
  <2> QED
    BY <1>1, <1>2, <1>4, <2>1
<1>5. CASE pc[r] = "create_oauth_user" /\ UNCHANGED displaced
           /\ account' = [account EXCEPT ![e] = NewOAuthUser(req[r].sub)]
  <2>1. NewOAuthUser(req[r].sub) \in Row /\ NewOAuthUser(req[r].sub).exists
    BY <1>2 DEF NewOAuthUser, Row, LocalsType
  <2> QED
    BY <1>1, <1>2, <1>5, <2>1
<1>6. CASE pc[r] = "link" /\ account' = [account EXCEPT ![e].sub = req[r].sub]
           /\ displaced' = displaced \cup Overwritten(account[e].sub, req[r].sub)
  <2>1. account[e].exists /\ e \in Emails /\ req[r].sub \in Subs
    BY <1>2, <1>6 DEF TypeInv, TypeOK
  <2> QED
    BY <1>1, <1>6, <2>1 DEF Row, Overwritten
<1>7. CASE pc[r] = "update_profile" /\ UNCHANGED displaced
           /\ account' = [account EXCEPT ![e] = Patched(@, req[r].phone, req[r].changed)]
  <2>1. account[e].exists /\ e \in Emails
    BY <1>2, <1>7 DEF TypeInv, TypeOK, ProfileAwaits
  <2>2. /\ Patched(account[e], req[r].phone, req[r].changed) \in Row
        /\ Patched(account[e], req[r].phone, req[r].changed).exists
    BY <1>1, <1>2, <2>1 DEF Row, LocalsType, KeepsVerified, Patched
  <2> QED
    BY <1>1, <1>7, <2>1, <2>2
<1>8. CASE pc[r] = "set_phone_verified" /\ UNCHANGED displaced
           /\ account' = [account EXCEPT ![e].phoneVerified = TRUE]
  <2>1. account[e].exists /\ e \in Emails
    BY <1>2, <1>8 DEF TypeInv, TypeOK, ProfileAwaits
  <2> QED
    BY <1>1, <1>8, <2>1 DEF Row
<1> QED
  BY <1>3, <1>4, <1>5, <1>6, <1>7, <1>8 DEF Writes

------------------------------------------------------------------------------
(* Types *)

LEMMA InitTyped ==
  ASSUME Init
  PROVE  TypeInv
<1>1. NoAccount \in Row /\ ~NoAccount.phoneVerified /\ NoAccount.sub = None
  BY RowsTyped DEF NoAccount
<1>2. "idle" \in Labels /\ NoReq \in LocalsType /\ Fits("idle", NoReq)
      /\ "idle" \notin ProfileAwaits \cup {"link", "issue"}
  BY LocalsTyped DEF Labels, Fits, GoogleLookups, NoReq, Locals, LocalsType, ProfileAwaits
<1> QED
  BY <1>1, <1>2, AccountsAssumption DEF Init, TypeInv, TypeOK, LocalsType

LEMMA ArriveTyped ==
  ASSUME TypeInv, NEW r \in Reqs, Arrive(r)
  PROVE  TypeInv'
<1>1. PICK l \in Labels, x \in LocalsType :
           /\ Moves(r, l, x) /\ Fits(l, x)
           /\ l \in ProfileAwaits \cup {"link", "issue"} => account[x.email].exists
  BY ArriveStep DEF ProfileAwaits
<1>2. /\ UNCHANGED <<account, granted, displaced, proved, faults>>
      /\ overlapped' \subseteq Emails
  BY ArriveStep
<1>3. TypeOK
  BY DEF TypeInv
<1> QED
  BY <1>1, <1>2, <1>3, TypeStep DEF TypeOK

LEMMA ServeTyped ==
  ASSUME TypeInv, NEW r \in Reqs, Serve(r)
  PROVE  TypeInv'
<1>1. PICK l \in Labels, x \in LocalsType :
           Moves(r, l, x) /\ Fits(l, x) /\ Continues(r, l, x)
  BY ServeMoves
<1>2. Writes(r) /\ Records(r) /\ pc[r] # "idle"
  BY ServeWrites, ServeRecords, ServeMoves
<1>3. TypeOK /\ Fits(pc[r], req[r])
  BY DEF TypeInv
<1>4. /\ account' \in [Emails -> Row] /\ displaced' \subseteq Subs
      /\ \A e \in Emails : /\ account[e].exists => account'[e].exists
                           /\ account'[e].sub # None \/ account'[e].phoneVerified
                                => account'[e].exists
  BY <1>2, WritesTyped
<1>5. l \in ProfileAwaits \cup {"link", "issue"} => account'[x.email].exists
  <2>1. pc[r] \in ProfileAwaits => account[req[r].email].exists
    BY <1>3 DEF TypeOK
  <2> QED
    BY <1>1, <2>1 DEF Continues, ProfileAwaits
<1>6. granted' \subseteq Subs \X Emails /\ proved' \in [Emails -> Phones \cup {None}]
      /\ overlapped' \subseteq Emails /\ faults' \in 0..MaxFaults
  BY <1>2, <1>3 DEF TypeOK, Records, Fits
<1> QED
  BY <1>1, <1>4, <1>5, <1>6, TypeStep

\* Every slot that a failure empties is idle, and the tables and history stay.
Fails(drop) ==
  /\ pc' = [q \in Reqs |-> IF q \in drop THEN "idle" ELSE pc[q]]
  /\ req' = [q \in Reqs |-> IF q \in drop THEN NoReq ELSE req[q]]
  /\ UNCHANGED <<account, history>> /\ faults' = faults + 1 /\ faults' \in 0..MaxFaults

LEMMA FailureStep ==
  ASSUME TypeInv, Restart \/ \E r \in Reqs : DbThrows(r)
  PROVE  \E drop \in SUBSET Reqs : Fails(drop)
<1>1. /\ faults \in 0..MaxFaults /\ MaxFaults \in Nat
      /\ pc \in [Reqs -> Labels] /\ req \in [Reqs -> LocalsType]
  BY SlotTyped, AccountsAssumption DEF TypeInv, TypeOK, LocalsType
<1>2. CASE Restart
  <2>1. Fails(Reqs)
    BY <1>1, <1>2 DEF Restart, Fails
  <2> QED
    BY <2>1
<1>3. ASSUME NEW r \in Reqs, DbThrows(r)
      PROVE  \E drop \in SUBSET Reqs : Fails(drop)
  <2>1. /\ pc' = [q \in Reqs |-> IF q \in {r} THEN "idle" ELSE pc[q]]
        /\ req' = [q \in Reqs |-> IF q \in {r} THEN NoReq ELSE req[q]]
    BY <1>1, <1>3 DEF DbThrows, Finish
  <2>2. UNCHANGED <<account, history>> /\ faults' = faults + 1 /\ faults' \in 0..MaxFaults
    BY <1>1, <1>3 DEF DbThrows, history
  <2>3. Fails({r})
    BY <2>1, <2>2 DEF Fails
  <2> QED
    BY <2>3
<1> QED
  BY <1>2, <1>3

LEMMA FailsTyped ==
  ASSUME TypeInv, NEW drop \in SUBSET Reqs, Fails(drop)
  PROVE  TypeInv'
<1>1. "idle" \in Labels /\ NoReq \in LocalsType /\ Fits("idle", NoReq)
      /\ "idle" \notin ProfileAwaits \cup {"link", "issue"}
  BY LocalsTyped DEF Labels, Fits, GoogleLookups, NoReq, Locals, LocalsType, ProfileAwaits
<1>2. /\ pc' \in [Reqs -> Labels] /\ req' \in [Reqs -> LocalsType]
      /\ \A r \in Reqs : /\ Fits(pc'[r], req'[r])
                         /\ pc'[r] # "idle" => pc'[r] = pc[r] /\ req'[r] = req[r]
  BY <1>1, SlotTyped DEF Fails, TypeInv
<1> QED
  BY <1>1, <1>2 DEF TypeInv, TypeOK, Fails, history, LocalsType

LEMMA NextTyped ==
  ASSUME TypeInv, [Next]_vars
  PROVE  TypeInv'
<1>1. CASE UNCHANGED vars
  BY <1>1 DEF TypeInv, TypeOK, Fits, vars, history
<1>2. CASE Restart \/ \E r \in Reqs : DbThrows(r)
  BY <1>2, FailureStep, FailsTyped
<1>3. ASSUME NEW r \in Reqs, Arrive(r) \/ Serve(r)
      PROVE  TypeInv'
  BY <1>3, ArriveTyped, ServeTyped
<1> QED
  BY <1>1, <1>2, <1>3 DEF Next

LEMMA TypeInvariant == Spec => []TypeInv
<1>1. Init => TypeInv
  BY InitTyped
<1>2. TypeInv /\ [Next]_vars => TypeInv'
  BY NextTyped
<1> QED
  BY <1>1, <1>2, PTL DEF Spec

\* Rows, slots and history keep their types, and only accounts that exist are linked or worked
\* on, whatever requests overlap and fail.
THEOREM TypeCorrect == Spec => []TypeOK
<1>1. TypeInv => TypeOK
  BY DEF TypeInv
<1> QED
  BY <1>1, TypeInvariant, PTL

------------------------------------------------------------------------------
(* One account per Google subject *)

LinkUnique ==
  \A e, f \in Emails : account[e].sub # None /\ account[e].sub = account[f].sub => e = f

\* e is linked to sub, or another link of that account has displaced sub.
Linked(sub, e) == account[e].sub = sub \/ sub \in displaced

\* Whoever gets tokens for a subject, or is about to, has its account.
LinkInv ==
  /\ LinkUnique
  /\ \A r \in Reqs : pc[r] = "issue" => Linked(req[r].sub, req[r].email)
  /\ \A s \in Subs, e \in Emails : <<s, e>> \in granted => Linked(s, e)

\* A link goes away only when another one takes its place.
KeepsLinks ==
  /\ \A s \in Subs, e \in Emails : Linked(s, e) => Linked(s, e)'
  /\ \A e \in Emails : account[e].exists => account'[e].exists
  /\ displaced \subseteq displaced'

LEMMA WritesKeepLinks ==
  ASSUME TypeInv, NEW r \in Reqs, Writes(r)
  PROVE  KeepsLinks /\ (LinkUnique => LinkUnique')
<1> DEFINE e == req[r].email
<1>1. /\ account \in [Emails -> Row] /\ None \notin Subs
      /\ \A f \in Emails : /\ account[f] \in Row
                           /\ account[f].sub # None => account[f].exists
                           /\ account[f].exists => account'[f].exists
  <2>1. \A f \in Emails : account[f].exists => account'[f].exists
    BY WritesTyped
  <2> QED
    BY <2>1, AccountsAssumption DEF TypeInv, TypeOK
<1>2. /\ pc[r] # "idle" => e \in Emails
      /\ pc[r] \in {"link", "create_oauth_user"} => req[r].sub \in Subs
  BY SlotTyped DEF Fits, GoogleLookups
<1>3. CASE /\ \A f \in Emails : account'[f].sub = account[f].sub
           /\ UNCHANGED displaced
  BY <1>1, <1>3 DEF KeepsLinks, Linked, LinkUnique
<1>4. CASE UNCHANGED <<account, displaced>>
  BY <1>3, <1>4
<1>5. CASE /\ pc[r] = "create_user" /\ ~account[e].exists /\ UNCHANGED displaced
           /\ account' = [account EXCEPT ![e] = NewUser(req[r].phone)]
  <2>1. account[e].sub = None /\ NewUser(req[r].phone).sub = None
    BY <1>1, <1>2, <1>5 DEF NewUser
  <2> QED
    BY <1>1, <1>2, <1>3, <1>5, <2>1
<1>6. CASE /\ pc[r] = "update_profile" /\ UNCHANGED displaced
           /\ account' = [account EXCEPT ![e] = Patched(@, req[r].phone, req[r].changed)]
  <2>1. Patched(account[e], req[r].phone, req[r].changed).sub = account[e].sub
    BY <1>1, <1>2, <1>6 DEF Patched, Row
  <2> QED
    BY <1>1, <1>2, <1>3, <1>6, <2>1
<1>7. CASE /\ pc[r] = "set_phone_verified" /\ UNCHANGED displaced
           /\ account' = [account EXCEPT ![e].phoneVerified = TRUE]
  BY <1>1, <1>2, <1>3, <1>7 DEF Row
<1>8. CASE /\ pc[r] \in {"create_oauth_user", "link"} /\ ~SubTaken(req[r].sub, e)
           /\ account'[e].sub = req[r].sub /\ \A f \in Emails \ {e} : account'[f] = account[f]
           /\ displaced' = displaced \cup Overwritten(account[e].sub, req[r].sub)
  <2>1. \A f \in Emails \ {e} : account[f].sub # req[r].sub
    BY <1>8 DEF SubTaken, LinkedTo
  <2>2. LinkUnique => LinkUnique'
    BY <1>1, <1>2, <1>8, <2>1 DEF LinkUnique
  <2>3. ASSUME NEW s \in Subs, NEW f \in Emails, Linked(s, f)
        PROVE  Linked(s, f)'
    BY <1>1, <1>2, <1>8, <2>3 DEF Linked, Overwritten
  <2>4. displaced \subseteq displaced'
    BY <1>8
  <2> QED
    BY <1>1, <2>2, <2>3, <2>4 DEF KeepsLinks
<1>9. CASE /\ pc[r] = "create_oauth_user" /\ ~account[e].exists /\ ~SubTaken(req[r].sub, e)
           /\ account' = [account EXCEPT ![e] = NewOAuthUser(req[r].sub)] /\ UNCHANGED displaced
  <2>1. NewOAuthUser(req[r].sub).sub = req[r].sub
    BY DEF NewOAuthUser
  <2>2. Overwritten(account[e].sub, req[r].sub) = {}
    BY <1>1, <1>2, <1>9 DEF Overwritten
  <2> QED
    BY <1>1, <1>2, <1>8, <1>9, <2>1, <2>2
<1>10. CASE /\ pc[r] = "link" /\ ~SubTaken(req[r].sub, e)
            /\ account' = [account EXCEPT ![e].sub = req[r].sub]
            /\ displaced' = displaced \cup Overwritten(account[e].sub, req[r].sub)
  BY <1>1, <1>2, <1>8, <1>10 DEF Row
<1> QED
  BY <1>4, <1>5, <1>6, <1>7, <1>9, <1>10 DEF Writes

LEMMA NextKeepsLinks ==
  ASSUME TypeInv, [Next]_vars
  PROVE  KeepsLinks /\ (LinkUnique => LinkUnique')
<1>1. CASE UNCHANGED <<account, displaced>>
  BY <1>1 DEF KeepsLinks, Linked, LinkUnique
<1>2. CASE UNCHANGED vars
  BY <1>1, <1>2 DEF vars, history
<1>3. CASE Restart \/ \E r \in Reqs : DbThrows(r)
  <2>1. UNCHANGED <<account, displaced>>
    BY <1>3, FailureStep DEF Fails, history
  <2> QED
    BY <1>1, <2>1
<1>4. ASSUME NEW r \in Reqs, Arrive(r)
      PROVE  KeepsLinks /\ (LinkUnique => LinkUnique')
  <2>1. UNCHANGED <<account, displaced>>
    BY <1>4, ArriveStep
  <2> QED
    BY <1>1, <2>1
<1>5. ASSUME NEW r \in Reqs, Serve(r)
      PROVE  KeepsLinks /\ (LinkUnique => LinkUnique')
  BY <1>5, ServeWrites, WritesKeepLinks
<1> QED
  BY <1>2, <1>3, <1>4, <1>5 DEF Next

\* A step that keeps a slot at its await, or empties it, keeps what it knows of its account.
LEMMA SlotKeepsLink ==
  ASSUME TypeInv, LinkInv, KeepsLinks, NEW q \in Reqs, pc'[q] = "issue",
         pc'[q] = pc[q], req'[q] = req[q]
  PROVE  Linked(req[q].sub, req[q].email)'
<1>1. req[q].sub \in Subs /\ req[q].email \in Emails
  BY SlotTyped DEF Fits
<1> QED
  BY <1>1 DEF LinkInv, KeepsLinks, Linked

LEMMA LinkInvNext ==
  ASSUME TypeInv, LinkInv, [Next]_vars
  PROVE  LinkInv'
<1>1. KeepsLinks /\ LinkUnique'
  BY NextKeepsLinks DEF LinkInv
<1>2. CASE UNCHANGED vars
  BY <1>2 DEF LinkInv, Linked, LinkUnique, vars, history
<1>3. ASSUME NEW drop \in SUBSET Reqs, Fails(drop)
      PROVE  LinkInv'
  <2>1. \A q \in Reqs : pc'[q] = "issue" => pc'[q] = pc[q] /\ req'[q] = req[q]
    BY <1>3 DEF Fails
  <2> QED
    BY <1>1, <1>3, <2>1, SlotKeepsLink DEF LinkInv, Fails, history, KeepsLinks, Linked
<1>4. ASSUME NEW r \in Reqs, NEW l, NEW x, Moves(r, l, x),
             l = "issue" => Linked(x.sub, x.email)'
      PROVE  \A q \in Reqs : pc'[q] = "issue" => Linked(req[q].sub, req[q].email)'
  <2> SUFFICES ASSUME NEW q \in Reqs, pc'[q] = "issue"
               PROVE  Linked(req[q].sub, req[q].email)'
    OBVIOUS
  <2>1. CASE q = r
    BY <1>4, <2>1 DEF Moves, Linked
  <2>2. CASE q # r
    BY <1>1, <1>4, <2>2, SlotKeepsLink DEF Moves
  <2> QED
    BY <2>1, <2>2
<1>5. ASSUME NEW r \in Reqs, Arrive(r)
      PROVE  LinkInv'
  <2>1. PICK l \in Labels, x \in LocalsType :
             Moves(r, l, x) /\ (l = "issue" => account[x.email].sub = x.sub)
    BY <1>5, ArriveStep
  <2>2. UNCHANGED <<account, granted, displaced>>
    BY <1>5, ArriveStep
  <2>3. \A q \in Reqs : pc'[q] = "issue" => Linked(req[q].sub, req[q].email)'
    BY <1>4, <2>1, <2>2 DEF Linked
  <2> QED
    BY <1>1, <2>2, <2>3 DEF LinkInv, Linked
<1>6. ASSUME NEW r \in Reqs, Serve(r)
      PROVE  LinkInv'
  <2>1. PICK l \in Labels, x \in LocalsType : Moves(r, l, x) /\ Continues(r, l, x)
    BY <1>6, ServeMoves
  <2>2. l = "issue" => Linked(x.sub, x.email)'
    BY <2>1 DEF Continues, Linked
  <2>3. \A q \in Reqs : pc'[q] = "issue" => Linked(req[q].sub, req[q].email)'
    BY <1>4, <2>1, <2>2
  <2>4. ASSUME NEW s \in Subs, NEW e \in Emails, <<s, e>> \in granted'
        PROVE  Linked(s, e)
    BY <1>6, <2>4, ServeRecords DEF Records, LinkInv, Linked
  <2> QED
    BY <1>1, <2>3, <2>4 DEF LinkInv, KeepsLinks
<1> QED
  BY <1>2, <1>3, <1>5, <1>6, FailureStep DEF Next

\* A Google user comes back to one account, whatever address the ID token names by then and
\* however sign-ins and sign-ups overlap, unless another subject's link overwrote theirs.
THEOREM OneAccount == Spec => []OneAccountPerSubject
<1>1. Init => LinkInv
  BY AccountsAssumption DEF Init, LinkInv, LinkUnique, NoAccount
<1>2. TypeInv /\ LinkInv /\ [Next]_vars => LinkInv'
  BY LinkInvNext
<1>3. LinkInv => OneAccountPerSubject
  BY AccountsAssumption DEF LinkInv, LinkUnique, Linked, OneAccountPerSubject
<1> QED
  BY <1>1, <1>2, <1>3, TypeInvariant, PTL DEF Spec

------------------------------------------------------------------------------
(* Conflicts *)

\* A sign-in that lost the race for a new account knows why: the account exists by now, or the
\* subject has another one.
Raced(r) ==
  \/ account[req[r].email].exists
  \/ \E f \in Emails \ {req[r].email} : Linked(req[r].sub, f)

RaceInv == \A r \in Reqs : pc[r] = "find_raced" => Raced(r)

LEMMA RaceInvNext ==
  ASSUME TypeInv, RaceInv, [Next]_vars
  PROVE  RaceInv'
<1> SUFFICES ASSUME NEW q \in Reqs, pc'[q] = "find_raced"
             PROVE  Raced(q)'
  BY DEF RaceInv
<1>1. KeepsLinks
  BY NextKeepsLinks
<1>2. CASE pc'[q] = pc[q] /\ req'[q] = req[q]
  <2>1. req[q].sub \in Subs /\ req[q].email \in Emails
    BY <1>2, SlotTyped DEF Fits, GoogleLookups
  <2> QED
    BY <1>1, <1>2, <2>1 DEF RaceInv, Raced, KeepsLinks, Linked
<1>3. CASE UNCHANGED vars
  BY <1>2, <1>3 DEF vars
<1>4. CASE Restart \/ \E r \in Reqs : DbThrows(r)
  BY <1>2, <1>4, FailureStep DEF Fails
<1>5. ASSUME NEW r \in Reqs, Arrive(r)
      PROVE  pc'[q] = pc[q] /\ req'[q] = req[q]
  BY <1>5, ArriveStep DEF Moves
<1>6. ASSUME NEW r \in Reqs, Serve(r), q = r
      PROVE  Raced(q)'
  <2>1. PICK l \in Labels, x \in LocalsType : Moves(r, l, x) /\ Continues(r, l, x)
    BY <1>6, ServeMoves
  <2>2. /\ req'[r] = req[r] /\ UNCHANGED account
        /\ account[req[r].email].exists \/ SubTaken(req[r].sub, req[r].email)
    BY <1>6, <2>1 DEF Moves, Continues
  <2> QED
    BY <1>6, <2>2 DEF Raced, SubTaken, LinkedTo, Linked
<1>7. ASSUME NEW r \in Reqs, Serve(r), q # r
      PROVE  pc'[q] = pc[q] /\ req'[q] = req[q]
  BY <1>7, ServeMoves DEF Moves
<1> QED
  BY <1>2, <1>3, <1>4, <1>5, <1>6, <1>7 DEF Next

\* What ConflictsReal promises of slot q.
ConflictReal(q) ==
  \/ account[req[q].email].sub \notin {None, req[q].sub}
  \/ SubTaken(req[q].sub, req[q].email)
  \/ req[q].sub \in displaced

LEMMA RefusedForConflict ==
  ASSUME TypeInv, RaceInv, [Next]_vars, NEW q \in Reqs, Refused(q)
  PROVE  ConflictReal(q)
<1>1. pc[q] \in GoogleLookups /\ pc'[q] = "idle" /\ faults' = faults /\ pc'[q] # pc[q]
  BY DEF Refused, GoogleLookups
<1>2. req[q].sub \in Subs /\ req[q].email \in Emails /\ faults \in Nat
  BY <1>1, SlotTyped, AccountsAssumption DEF Fits, GoogleLookups, TypeInv, TypeOK
<1>3. ~UNCHANGED vars /\ ~Restart /\ \A r \in Reqs : ~DbThrows(r)
  BY <1>1, <1>2 DEF vars, Restart, DbThrows
<1>4. ASSUME NEW r \in Reqs, Arrive(r)
      PROVE  FALSE
  BY <1>1, <1>4, ArriveStep DEF Moves
<1>5. PICK r \in Reqs : Serve(r)
  BY <1>3, <1>4 DEF Next
<1>6. q = r
  BY <1>1, <1>5, ServeMoves DEF Moves
<1>7. \/ FindByEmail(q) \/ LinkGoogleAccount(q) \/ CreateOAuthUser(q) \/ FindRaced(q)
  BY <1>1, <1>5, <1>6
     DEF Serve, GoogleLookups, CreateUser, IssueTokenPair, FindExisting, UpdateProfile, CheckReply,
         SetPhoneVerified, At
<1>8. ASSUME NEW l \in Labels, GoOn(q, l)
      PROVE  l = "idle"
  BY <1>1, <1>8, GoOnMoves DEF Moves
<1>9. AfterFound(account[req[q].email], req[q].sub) \in Labels
  BY <1>2, AfterFoundTyped DEF Labels, DbAwaits, GoogleLookups
<1>10. {"create_oauth_user", "find_raced", "issue"} \subseteq Labels
  BY DEF Labels, DbAwaits, GoogleLookups
<1>11. CASE FindByEmail(q)
  BY <1>2, <1>8, <1>9, <1>10, <1>11, AfterFoundTyped DEF FindByEmail, ConflictReal
<1>12. CASE LinkGoogleAccount(q)
  <2>1. ~Goto(q, "issue")
    BY <1>1, <1>10, GotoMoves DEF Moves
  <2> QED
    BY <1>12, <2>1 DEF LinkGoogleAccount, ConflictReal
<1>13. CASE CreateOAuthUser(q)
  <2>1. ~Goto(q, "issue") /\ ~GoOn(q, AfterCreateFails)
    BY <1>1, <1>8, <1>10, GotoMoves DEF Moves, AfterCreateFails
  <2> QED
    BY <1>13, <2>1 DEF CreateOAuthUser
<1>14. CASE FindRaced(q)
  <2>1. CASE account[req[q].email].exists
    BY <1>2, <1>8, <1>9, <1>14, <2>1, AfterFoundTyped DEF FindRaced, AfterRaced, ConflictReal
  <2>2. CASE ~account[req[q].email].exists
    BY <1>14, <2>2 DEF FindRaced, At, RaceInv, Raced, ConflictReal, Linked, SubTaken, LinkedTo
  <2> QED
    BY <2>1, <2>2
<1> QED
  BY <1>7, <1>11, <1>12, <1>13, <1>14

\* A Google sign-in that no failure cuts short is turned away only for a conflict that exists.
\* A subject whose link was overwritten (displaced) is exempt.
THEOREM ConflictsAreReal == Spec => ConflictsReal
<1>1. Init => RaceInv
  BY DEF Init, RaceInv
<1>2. TypeInv /\ RaceInv /\ [Next]_vars => RaceInv'
  BY RaceInvNext
<1>3. TypeInv /\ RaceInv /\ [Next]_vars
        => [\A r \in Reqs : Refused(r) =>
              \/ account[req[r].email].sub \notin {None, req[r].sub}
              \/ SubTaken(req[r].sub, req[r].email)
              \/ req[r].sub \in displaced]_vars
  BY RefusedForConflict DEF ConflictReal
<1> QED
  BY <1>1, <1>2, <1>3, TypeInvariant, PTL DEF Spec, ConflictsReal

------------------------------------------------------------------------------
(* Verified phone numbers *)

\* The last code that was approved for e is one for its number.
ProvedNumber(e) == proved[e] # None /\ proved[e] = account[e].phone

Working(r, e) == pc[r] \in ProfileAwaits /\ req[r].email = e

\* What the request of slot r knows of the number of its account.
Knows(r) ==
  LET row == account[req[r].email]
  IN  /\ pc[r] \in {"check_code", "set_phone_verified"} => row.phone = req[r].phone
      /\ pc[r] = "set_phone_verified" => proved[req[r].email] = req[r].phone
      /\ pc[r] = "update_profile" => req[r].changed = (row.phone # req[r].phone)

\* Requests that follow one another work on an account one at a time, and on fresh values.
SerialInv ==
  \A e \in Emails \ overlapped :
    /\ \A q, r \in Reqs : Working(q, e) /\ Working(r, e) => q = r
    /\ \A r \in Reqs : Working(r, e) => Knows(r)
    /\ account[e].phoneVerified => ProvedNumber(e)

\* The write of a request that knows its account's number leaves a number that was proved.
LEMMA WriteProved ==
  ASSUME TypeInv, NEW r \in Reqs, Writes(r), UNCHANGED proved, NEW e \in Emails,
         Working(r, e) => Knows(r),
         account[e].phoneVerified => ProvedNumber(e)
  PROVE  account'[e].phoneVerified => ProvedNumber(e)'
<1>1. account \in [Emails -> Row] /\ account[e] \in Row
  BY RowTyped
<1>2. /\ pc[r] # "idle" => req[r].email \in Emails
      /\ pc[r] = "update_profile" => req[r].changed \in BOOLEAN
  BY SlotTyped DEF Fits, LocalsType
<1>3. CASE account'[e] = account[e] \/ ~account'[e].phoneVerified
  BY <1>1, <1>3 DEF ProvedNumber
<1>4. CASE account'[e].phoneVerified = account[e].phoneVerified /\ account'[e].phone = account[e].phone
  BY <1>1, <1>4 DEF ProvedNumber
<1>5. CASE req[r].email # e
  BY <1>2, <1>1, <1>3, <1>5 DEF Writes
<1>6. CASE req[r].email = e
  <2>1. CASE UNCHANGED <<account, displaced>>
    BY <1>3, <2>1
  <2>2. CASE account' = [account EXCEPT ![e] = NewUser(req[r].phone)]
             \/ account' = [account EXCEPT ![e] = NewOAuthUser(req[r].sub)]
    BY <1>1, <1>3, <2>2 DEF NewUser, NewOAuthUser
  <2>3. CASE account' = [account EXCEPT ![e].sub = req[r].sub]
    BY <1>1, <1>4, <2>3 DEF Row
  <2>4. CASE pc[r] = "update_profile"
             /\ account' = [account EXCEPT ![e] = Patched(@, req[r].phone, req[r].changed)]
    <3>1. req[r].changed = (account[e].phone # req[r].phone)
      BY <1>6, <2>4 DEF Working, Knows, ProfileAwaits
    <3>2. /\ account'[e].phone = req[r].phone
          /\ account'[e].phoneVerified = (account[e].phoneVerified
                                            /\ KeepsVerified(req[r].phone, req[r].changed))
      BY <1>1, <2>4 DEF Patched, Row
    <3> QED
      BY <1>1, <3>1, <3>2 DEF KeepsVerified, ProvedNumber
  <2>5. CASE pc[r] = "set_phone_verified"
             /\ account' = [account EXCEPT ![e].phoneVerified = TRUE]
    <3>1. /\ account[e].phone = req[r].phone /\ proved[e] = req[r].phone
          /\ req[r].phone # None
      BY <1>6, <2>5, SlotTyped, AccountsAssumption DEF Working, Knows, ProfileAwaits, Fits
    <3> QED
      BY <1>1, <2>5, <3>1 DEF Row, ProvedNumber
  <2> QED
    BY <1>6, <2>1, <2>2, <2>3, <2>4, <2>5 DEF Writes
<1> QED
  BY <1>5, <1>6

\* Twilio's approval of a code concerns the account's number.
LEMMA ReplyProved ==
  ASSUME TypeInv, NEW r \in Reqs, pc[r] = "check_code", UNCHANGED account,
         proved' = [proved EXCEPT ![req[r].email] = req[r].phone], NEW e \in Emails,
         Working(r, e) => Knows(r),
         account[e].phoneVerified => ProvedNumber(e)
  PROVE  account'[e].phoneVerified => ProvedNumber(e)'
<1>1. /\ proved \in [Emails -> Phones \cup {None}]
      /\ req[r].email \in Emails /\ req[r].phone \in Phones /\ req[r].phone # None
  BY SlotTyped, AccountsAssumption DEF TypeInv, TypeOK, Fits
<1>2. CASE req[r].email = e
  BY <1>1, <1>2 DEF Working, Knows, ProfileAwaits, ProvedNumber
<1>3. CASE req[r].email # e
  BY <1>1, <1>3 DEF ProvedNumber
<1> QED
  BY <1>2, <1>3

\* A write by another slot than the one that works on e leaves e's number alone.
LEMMA WriteElsewhere ==
  ASSUME TypeInv, NEW r \in Reqs, Writes(r), NEW e \in Emails, account[e].exists, ~Working(r, e)
  PROVE  account'[e].phone = account[e].phone
<1>1. account \in [Emails -> Row] /\ account[e] \in Row
  BY RowTyped
<1>2. pc[r] # "idle" => req[r].email \in Emails
  BY SlotTyped DEF Fits
<1>3. CASE req[r].email # e
  BY <1>1, <1>2, <1>3 DEF Writes
<1>4. CASE req[r].email = e
  BY <1>1, <1>2, <1>4 DEF Writes, Working, ProfileAwaits, Row
<1> QED
  BY <1>3, <1>4

LEMMA SerialFails ==
  ASSUME TypeInv, SerialInv, NEW drop \in SUBSET Reqs, Fails(drop)
  PROVE  SerialInv'
<1>1. \A r \in Reqs : pc'[r] # "idle" => pc'[r] = pc[r] /\ req'[r] = req[r]
  BY DEF Fails
<1>2. \A r \in Reqs, e \in Emails : Working(r, e)' => Working(r, e)
  BY <1>1 DEF Working, ProfileAwaits
<1>3. UNCHANGED <<account, proved, overlapped>>
  BY DEF Fails, history
<1>4. \A r \in Reqs, e \in Emails : Working(r, e)' /\ Knows(r) => Knows(r)'
  BY <1>1, <1>3 DEF Working, Knows, ProfileAwaits
<1> QED
  BY <1>2, <1>3, <1>4 DEF SerialInv, ProvedNumber

LEMMA SerialArrive ==
  ASSUME TypeInv, SerialInv, NEW r \in Reqs, Arrive(r)
  PROVE  SerialInv'
<1>1. PICK l \in Labels, x \in LocalsType :
           /\ Moves(r, l, x)
           /\ \/ l \in {"create_user", "find_email", "issue"}
              \/ /\ l \in {"find_existing", "check_code"}
                 /\ l = "check_code" => account[x.email].phone = x.phone
                 /\ Busy(x.email) => x.email \in overlapped'
  BY ArriveStep
<1>2. /\ UNCHANGED <<account, proved>> /\ overlapped \subseteq overlapped'
      /\ pc[r] = "idle"
  BY ArriveStep
<1> SUFFICES ASSUME NEW e \in Emails \ overlapped'
             PROVE  /\ \A p, q \in Reqs : Working(p, e)' /\ Working(q, e)' => p = q
                    /\ \A q \in Reqs : Working(q, e)' => Knows(q)'
                    /\ account[e].phoneVerified => ProvedNumber(e)
  BY <1>2 DEF SerialInv, ProvedNumber
<1>3. \A q \in Reqs : q # r /\ Working(q, e)' => Working(q, e) /\ (Knows(q) => Knows(q)')
  BY <1>1, <1>2 DEF Moves, Working, Knows
<1>4. Working(r, e)' => Knows(r)' /\ ~Busy(e)
  BY <1>1, <1>2 DEF Moves, Working, Knows, ProfileAwaits
<1>5. ~Busy(e) => \A q \in Reqs : ~Working(q, e)
  BY DEF Busy, Working
<1> QED
  BY <1>2, <1>3, <1>4, <1>5 DEF SerialInv

LEMMA SerialServe ==
  ASSUME TypeInv, SerialInv, NEW r \in Reqs, Serve(r)
  PROVE  SerialInv'
<1>1. PICK l \in Labels, x \in LocalsType : Moves(r, l, x) /\ Continues(r, l, x)
  BY ServeMoves
<1>2. Writes(r) /\ Records(r) /\ overlapped' = overlapped
  BY ServeWrites, ServeRecords DEF Records
<1> SUFFICES ASSUME NEW e \in Emails \ overlapped
             PROVE  /\ \A p, q \in Reqs : Working(p, e)' /\ Working(q, e)' => p = q
                    /\ \A q \in Reqs : Working(q, e)' => Knows(q)'
                    /\ account'[e].phoneVerified => ProvedNumber(e)'
  BY <1>2 DEF SerialInv
<1>3. \A q \in Reqs : Working(q, e)' => Working(q, e)
  BY <1>1 DEF Moves, Continues, Working, ProfileAwaits
<1>4. ASSUME NEW q \in Reqs, Working(q, e)'
      PROVE  Knows(q)'
  <2>1. CASE q = r
    <3>1. Knows(r) /\ Working(r, e)
      BY <1>3, <1>4, <2>1 DEF SerialInv
    <3>2. pc'[r] \in ProfileAwaits /\ pc'[r] = l /\ req'[r] = x
      BY <1>1, <1>4, <2>1 DEF Moves, Working
    <3>3. CASE pc[r] = "find_existing" /\ l = "update_profile" /\ UNCHANGED account
      BY <1>1, <2>1, <3>2, <3>3 DEF Continues, Knows
    <3>4. CASE pc[r] = "check_code" /\ l = "set_phone_verified" /\ UNCHANGED account
      BY <1>1, <2>1, <3>1, <3>2, <3>4 DEF Continues, Knows
    <3> QED
      BY <1>1, <3>2, <3>3, <3>4 DEF Continues, ProfileAwaits
  <2>2. CASE q # r
    <3>1. Knows(q) /\ ~Working(r, e) /\ Working(q, e)
      BY <1>3, <1>4, <2>2 DEF SerialInv
    <3>2. account[e].exists
      BY <3>1 DEF TypeInv, TypeOK, Working
    <3>3. account'[e].phone = account[e].phone
      BY <1>2, <3>1, <3>2, WriteElsewhere
    <3>4. pc'[q] = pc[q] /\ req'[q] = req[q] /\ req[q].email = e
      BY <1>1, <2>2, <3>1 DEF Moves, Working
    <3>5. proved'[e] = proved[e]
      BY <1>2, <3>1, SlotTyped DEF Records, Working, ProfileAwaits, Fits, TypeInv, TypeOK
    <3> QED
      BY <3>1, <3>3, <3>4, <3>5 DEF Knows
  <2> QED
    BY <2>1, <2>2
<1>5. account'[e].phoneVerified => ProvedNumber(e)'
  BY <1>2, WriteProved, ReplyProved DEF SerialInv, Records
<1> QED
  BY <1>3, <1>4, <1>5 DEF SerialInv

\* As long as an account's profile and phone requests follow one another, phoneVerified means
\* that the last code Twilio approved was one for the number stored.
THEOREM PhoneIsProved == Spec => []PhoneProved
<1>1. Init => SerialInv
  BY DEF Init, SerialInv, Working, ProfileAwaits, NoAccount
<1>2. ASSUME TypeInv, SerialInv, [Next]_vars
      PROVE  SerialInv'
  <2>1. CASE UNCHANGED vars
    BY <1>2, <2>1 DEF SerialInv, Working, Knows, ProvedNumber, vars, history
  <2> QED
    BY <1>2, <2>1, FailureStep, SerialFails, SerialArrive, SerialServe DEF Next
<1>3. SerialInv => PhoneProved
  BY DEF SerialInv, PhoneProved, ProvedNumber
<1> QED
  BY <1>1, <1>2, <1>3, TypeInvariant, PTL DEF Spec

------------------------------------------------------------------------------
(* Links without overlapping sign-ins *)

\* At most one sign-in at a time is between the lookup of address e and its link.
SignsInAlone(e) ==
  \A q, r \in Reqs :
    /\ pc[q] \in GoogleLookups /\ req[q].email = e
    /\ pc[r] \in GoogleLookups /\ req[r].email = e
    => q = r

\* A sign-in that is about to link the account of e has found it without a link.
FreshLink(e) ==
  \A r \in Reqs : pc[r] = "link" /\ req[r].email = e => account[e].sub = None

LEMMA LinksWhatIsFree ==
  ASSUME TypeInv, NEW r \in Reqs, FindByEmail(r) \/ FindRaced(r), pc'[r] = "link"
  PROVE  account[req[r].email].sub = None
<1> DEFINE row == account[req[r].email]
<1>1. pc[r] \in {"find_email", "find_raced"} /\ req[r].sub \in Subs
  BY SlotTyped DEF FindByEmail, FindRaced, At, Fits, GoogleLookups
<1>2. PICK l \in {AfterFound(row, req[r].sub), "create_oauth_user", "idle"} : GoOn(r, l)
  BY DEF FindByEmail, FindRaced, AfterRaced
<1>3. l \in Labels
  BY <1>1, <1>2, AfterFoundTyped DEF Labels, DbAwaits, GoogleLookups
<1>4. l = "link"
  BY <1>2, <1>3, GoOnMoves DEF Moves
<1> QED
  BY <1>2, <1>4 DEF AfterFound

\* Only the link or the creation of an account by one of the sign-ins for e changes its link.
LEMMA LinkWrites ==
  ASSUME TypeInv, NEW e \in Emails, NEW r \in Reqs, Writes(r), account'[e].sub # account[e].sub
  PROVE  /\ req[r].email = e /\ pc[r] \in GoogleLookups
         /\ pc[r] = "link" \/ ~account[e].exists
<1>1. account \in [Emails -> Row] /\ account[e] \in Row
      /\ (account[e].sub # None => account[e].exists)
  BY RowTyped
<1>2. pc[r] # "idle" => req[r].email \in Emails /\ req[r] \in LocalsType
  BY SlotTyped DEF Fits
<1>3. req[r].email = e
  BY <1>1, <1>2 DEF Writes
<1>4. CASE pc[r] = "create_user" /\ account' = [account EXCEPT ![e] = NewUser(req[r].phone)]
           /\ ~account[e].exists
  BY <1>1, <1>4 DEF NewUser
<1>5. CASE pc[r] = "update_profile"
           /\ account' = [account EXCEPT ![e] = Patched(@, req[r].phone, req[r].changed)]
  BY <1>1, <1>5 DEF Patched, Row
<1>6. CASE pc[r] = "set_phone_verified" /\ account' = [account EXCEPT ![e].phoneVerified = TRUE]
  BY <1>1, <1>6 DEF Row
<1> QED
  BY <1>3, <1>4, <1>5, <1>6 DEF Writes, GoogleLookups

\* A step while sign-ins for e are alone: none links e on an outdated row, and none overwrites
\* its link.
LEMMA AloneStep ==
  ASSUME TypeInv, NEW e \in Emails, SignsInAlone(e), FreshLink(e), [Next]_vars
  PROVE  /\ FreshLink(e)'
         /\ account[e].sub # None => account'[e].sub = account[e].sub
<1>1. CASE UNCHANGED vars
  BY <1>1 DEF FreshLink, vars
<1>2. ASSUME NEW drop \in SUBSET Reqs, Fails(drop)
      PROVE  FreshLink(e)' /\ UNCHANGED account
  BY <1>2 DEF Fails, FreshLink
<1>3. ASSUME NEW r \in Reqs, Arrive(r)
      PROVE  FreshLink(e)' /\ UNCHANGED account
  BY <1>3, ArriveStep DEF Moves, FreshLink
<1>4. ASSUME NEW r \in Reqs, Serve(r)
      PROVE  /\ FreshLink(e)'
             /\ account[e].sub # None => account'[e].sub = account[e].sub
  <2>1. PICK l \in Labels, x \in LocalsType : Moves(r, l, x) /\ Continues(r, l, x)
    BY <1>4, ServeMoves
  <2>2. Writes(r)
    BY <1>4, ServeWrites
  <2>3. ASSUME account'[e].sub # account[e].sub
        PROVE  account[e].sub = None
    <3>1. req[r].email = e /\ (pc[r] = "link" \/ ~account[e].exists)
      BY <2>2, <2>3, LinkWrites
    <3> QED
      BY <2>2, <2>3, <3>1, LinkWrites, RowTyped DEF FreshLink
  <2>4. ASSUME NEW q \in Reqs, pc'[q] = "link", req'[q].email = e
        PROVE  account'[e].sub = None
    <3>1. CASE q = r
      <4>1. /\ pc[r] \in {"find_email", "find_raced"} /\ UNCHANGED account /\ req'[r] = req[r]
        BY <2>1, <2>4, <3>1 DEF Moves, Continues
      <4>2. FindByEmail(r) \/ FindRaced(r)
        BY <1>4, <4>1
           DEF Serve, CreateUser, LinkGoogleAccount, CreateOAuthUser, IssueTokenPair, FindExisting,
               UpdateProfile, CheckReply, SetPhoneVerified, At
      <4> QED
        BY <2>4, <3>1, <4>1, <4>2, LinksWhatIsFree
    <3>2. CASE q # r
      <4>1. pc[q] = "link" /\ req[q].email = e
        BY <2>1, <2>4, <3>2 DEF Moves
      <4>2. account[e].sub = None
        BY <4>1 DEF FreshLink
      <4>3. ~(pc[r] \in GoogleLookups /\ req[r].email = e)
        BY <3>2, <4>1 DEF SignsInAlone, GoogleLookups
      <4> QED
        BY <2>2, <4>2, <4>3, LinkWrites
    <3> QED
      BY <3>1, <3>2
  <2> QED
    BY <2>3, <2>4 DEF FreshLink
<1> QED
  BY <1>1, <1>2, <1>3, <1>4, FailureStep DEF Next, vars

\* An account keeps the Google link it has, as long as the sign-ins for its address follow one
\* another, whatever the other requests do and whatever fails: the check that refuses a second
\* subject is overtaken by a sign-in for the same address only.
THEOREM LinkStays ==
  ASSUME NEW e \in Emails
  PROVE  Spec /\ []SignsInAlone(e)
           => [][account[e].sub # None => account'[e].sub = account[e].sub]_vars
<1>1. Init => FreshLink(e)
  BY DEF Init, FreshLink
<1>2. TypeInv /\ SignsInAlone(e) /\ FreshLink(e) /\ [Next]_vars => FreshLink(e)'
  BY AloneStep
<1>3. TypeInv /\ SignsInAlone(e) /\ FreshLink(e) /\ [Next]_vars
        => [account[e].sub # None => account'[e].sub = account[e].sub]_vars
  BY AloneStep
<1> QED
  BY <1>1, <1>2, <1>3, TypeInvariant, PTL DEF Spec

AllAlone == \A e \in Emails : SignsInAlone(e)

\* When the sign-ins for one address never overlap, no subject's link is overwritten, and every
\* Google user comes back to one account, without exception.
THEOREM NobodyDisplaced ==
  Spec /\ []AllAlone
    => [](/\ displaced = {}
          /\ \A s \in Subs, e \in Emails, f \in Emails :
               <<s, e>> \in granted /\ <<s, f>> \in granted => e = f)
<1> DEFINE Fresh == displaced = {} /\ \A e \in Emails : FreshLink(e)
<1>1. Init => Fresh
  BY DEF Init, FreshLink
<1>2. ASSUME TypeInv, AllAlone, Fresh, [Next]_vars
      PROVE  Fresh'
  <2>1. \A e \in Emails : FreshLink(e)'
    BY <1>2, AloneStep DEF AllAlone
  <2>2. ASSUME NEW r \in Reqs, Serve(r)
        PROVE  UNCHANGED displaced
    <3>1. Writes(r)
      BY <1>2, <2>2, ServeWrites
    <3>2. CASE pc[r] = "link"
               /\ displaced' = displaced \cup Overwritten(account[req[r].email].sub, req[r].sub)
      <4>1. account[req[r].email].sub = None
        BY <1>2, <3>2, SlotTyped DEF Fits, FreshLink
      <4> QED
        BY <3>2, <4>1 DEF Overwritten
    <3> QED
      BY <3>1, <3>2 DEF Writes
  <2>3. UNCHANGED vars => UNCHANGED displaced
    BY DEF vars, history
  <2>4. UNCHANGED displaced
    BY <1>2, <2>2, <2>3, ArriveStep, FailureStep DEF Next, Fails, history
  <2> QED
    BY <1>2, <2>1, <2>4
<1>3. Fresh /\ OneAccountPerSubject
        => /\ displaced = {}
           /\ \A s \in Subs, e \in Emails, f \in Emails :
                <<s, e>> \in granted /\ <<s, f>> \in granted => e = f
  BY DEF OneAccountPerSubject
<1> HIDE DEF Fresh
<1> QED
  BY <1>1, <1>2, <1>3, TypeInvariant, OneAccount, PTL DEF Spec
===============================================================================
