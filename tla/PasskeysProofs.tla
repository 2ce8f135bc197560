---------------------------- MODULE PasskeysProofs ----------------------------
(***************************************************************************)
(* Proofs about Passkeys, for every number of users, passkeys, overlapping *)
(* requests, challenges and signatures.                                    *)
(***************************************************************************)
EXTENDS Passkeys, SequenceTheorems, TLAPS

\* What a slot's locals hold at each await.
Fits(l, x) ==
  /\ l # "idle" => x.user \in Users
  /\ l \in Verifying => /\ x.response \in made /\ UserOf(x.response) = x.user
                        /\ KindOf(x.response) = x.kind
  /\ l = "insert_credential" => x.kind = "REGISTRATION"
  /\ l \in {"find_credential", "update_counter", "issue"} => x.kind = "AUTHENTICATION"

TypeInv == TypeOK /\ \A r \in Reqs : Fits(pc[r], req[r])

------------------------------------------------------------------------------
(* Slots *)

\* Slot r goes to l with the locals x, and no other slot moves.
Moves(r, l, x) ==
  /\ pc' \in [Reqs -> Labels] /\ req' \in [Reqs -> LocalsType]
  /\ pc'[r] = l /\ req'[r] = x
  /\ \A q \in Reqs : q # r => pc'[q] = pc[q] /\ req'[q] = req[q]

LEMMA LabelsTyped ==
  /\ Verifying \subseteq Labels /\ {"delete_old", "create", "idle"} \subseteq Labels
  /\ "idle" \notin Verifying /\ "delete_old" \notin Verifying /\ "create" \notin Verifying
<1> QED
  BY DEF Labels, Verifying

LEMMA LocalsTyped ==
  /\ NoResponse \in ResponseType /\ NoReq \in LocalsType
  /\ \A u \in Users, kind \in Kinds, p \in ResponseType, valid \in BOOLEAN :
       Locals(u, kind, p, valid, 0, 0) \in LocalsType
<1>1. NoResponse \in ResponseType
  BY PasskeysAssumption DEF NoResponse, Response, ResponseType
<1> QED
  BY <1>1 DEF NoReq, Locals, LocalsType, Kinds

LEMMA SlotTyped ==
  ASSUME TypeInv, NEW r \in Reqs
  PROVE  /\ pc \in [Reqs -> Labels] /\ req \in [Reqs -> LocalsType]
         /\ req[r] \in LocalsType /\ Fits(pc[r], req[r])
<1> QED
  BY DEF TypeInv, TypeOK

LEMMA BeginMoves ==
  ASSUME TypeInv, NEW r \in Reqs, NEW l \in Labels, NEW x \in LocalsType, Begin(r, l, x)
  PROVE  pc[r] = "idle" /\ Moves(r, l, x)
<1> QED
  BY SlotTyped DEF Begin, At, Moves

LEMMA GotoMoves ==
  ASSUME TypeInv, NEW r \in Reqs, NEW l \in Labels, Goto(r, l)
  PROVE  Moves(r, l, req[r])
<1> QED
  BY SlotTyped DEF Goto, Moves

LEMMA FinishMoves ==
  ASSUME TypeInv, NEW r \in Reqs, Finish(r)
  PROVE  Moves(r, "idle", NoReq)
<1> QED
  BY SlotTyped, LabelsTyped, LocalsTyped DEF Finish, Moves

\* A response is one to a challenge that is on record.
LEMMA ResponseTyped ==
  ASSUME TypeInv, NEW p \in made
  PROVE  /\ p \in ResponseType /\ p.cred \in Creds /\ p.counter \in 0..MaxSignatures
         /\ p.challenge \in DOMAIN challenge /\ challenge[p.challenge] \in ChallengeType
         /\ UserOf(p) \in Users /\ KindOf(p) \in Kinds
<1>1. p \in ResponseType /\ p.challenge \in DOMAIN challenge /\ p.cred \in Creds
  BY DEF TypeInv, TypeOK
<1>2. challenge[p.challenge] \in ChallengeType
  BY <1>1, ElementOfSeq DEF TypeInv, TypeOK
<1> QED
  BY <1>1, <1>2 DEF ResponseType, ChallengeType, UserOf, KindOf

------------------------------------------------------------------------------
(* Challenges *)

\* What any step leaves of a row.
RowKept(old, new) ==
  /\ new.user = old.user /\ new.kind = old.kind /\ new.seen = old.seen
  /\ new.status = "active" => old.status = "active"
  /\ old.status = "deleted" => new.status = "deleted"
  /\ old.kept => new.kept

RowsKept ==
  /\ challenge' \in Seq(ChallengeType)
  /\ DOMAIN challenge \subseteq DOMAIN challenge' /\ Len(challenge) <= Len(challenge')
  /\ \A i \in DOMAIN challenge : RowKept(challenge[i], challenge'[i])

LEMMA RowFacts ==
  ASSUME NEW row \in ChallengeType
  PROVE  /\ RowKept(row, row)
         /\ \A status \in {"expired", "deleted"} :
              /\ WithStatus(row, status) \in ChallengeType
              /\ WithStatus(row, status).status = status
              /\ row.status = "active" \/ status = "deleted"
                   => RowKept(row, WithStatus(row, status))
         /\ Spent(row) \in ChallengeType /\ Spent(row).status = "deleted"
         /\ RowKept(row, Spent(row))
         /\ Keep(row) \in ChallengeType /\ Keep(row).kept /\ RowKept(row, Keep(row))
<1> QED
  BY DEF ChallengeType, RowKept, WithStatus, Spent, Keep

LEMMA ChallengeFacts ==
  ASSUME TypeInv
  PROVE  /\ challenge \in Seq(ChallengeType) /\ Len(challenge) \in Nat
         /\ DOMAIN challenge = 1..Len(challenge)
         /\ \A i \in DOMAIN challenge : challenge[i] \in ChallengeType
<1>1. challenge \in Seq(ChallengeType)
  BY DEF TypeInv, TypeOK
<1> QED
  BY <1>1, LenProperties, ElementOfSeq

LEMMA SameRows ==
  ASSUME TypeInv, UNCHANGED challenge
  PROVE  RowsKept
<1> QED
  BY ChallengeFacts, RowFacts DEF RowsKept

\* Writing one row.
LEMMA WriteRow ==
  ASSUME TypeInv, NEW i \in DOMAIN challenge, NEW row \in ChallengeType,
         challenge' = [challenge EXCEPT ![i] = row], RowKept(challenge[i], row)
  PROVE  RowsKept /\ challenge'[i] = row /\ DOMAIN challenge' = DOMAIN challenge
<1>1. /\ challenge' \in Seq(ChallengeType) /\ Len(challenge') = Len(challenge)
      /\ DOMAIN challenge' = DOMAIN challenge /\ challenge'[i] = row
      /\ \A j \in DOMAIN challenge : j # i => challenge'[j] = challenge[j]
  BY ChallengeFacts, ExceptSeq
<1> QED
  BY <1>1, ChallengeFacts, RowFacts DEF RowsKept

LEMMA DeleteOldRows ==
  ASSUME TypeInv, NEW r \in Reqs, DeleteOldChallenges(r)
  PROVE  /\ RowsKept /\ DOMAIN challenge' = DOMAIN challenge
         /\ Len(challenge') = Len(challenge)
         /\ \A i \in DOMAIN challenge :
              /\ challenge[i].user = req[r].user /\ challenge[i].kind = req[r].kind
              => challenge'[i].status = "deleted"
<1> DEFINE Row(i) == IF i \in Deleted(req[r].user, req[r].kind)
                     THEN WithStatus(challenge[i], "deleted") ELSE challenge[i]
<1>1. challenge' = [i \in 1..Len(challenge) |-> Row(i)] /\ Len(challenge) \in Nat
  BY ChallengeFacts DEF DeleteOldChallenges
<1>2. \A i \in 1..Len(challenge) : Row(i) \in ChallengeType /\ RowKept(challenge[i], Row(i))
  BY ChallengeFacts, RowFacts
<1>3. \A i \in 1..Len(challenge) :
        /\ challenge[i].user = req[r].user /\ challenge[i].kind = req[r].kind
        => Row(i).status = "deleted"
  BY ChallengeFacts, RowFacts DEF Deleted, Matching
<1> HIDE DEF Row
<1>4. challenge' \in Seq(ChallengeType) /\ Len(challenge') = Len(challenge)
      /\ DOMAIN challenge' = 1..Len(challenge)
  BY <1>1, <1>2, SeqDef, LenProperties
<1> QED
  BY <1>1, <1>2, <1>3, <1>4, ChallengeFacts DEF RowsKept

LEMMA CreateRows ==
  ASSUME TypeInv, NEW r \in Reqs, CreateChallenge(r)
  PROVE  /\ RowsKept /\ DOMAIN challenge' = 1..(Len(challenge) + 1)
         /\ \A i \in DOMAIN challenge : challenge'[i] = challenge[i]
         /\ challenge'[Len(challenge) + 1].user = req[r].user
         /\ challenge'[Len(challenge) + 1].kind = req[r].kind
         /\ challenge'[Len(challenge) + 1].seen = req[r].seen
         /\ challenge'[Len(challenge) + 1] \in ChallengeType
<1> DEFINE new == NewChallenge(req[r].user, req[r].kind, req[r].seen)
<1>1. req[r].user \in Users /\ req[r].kind \in Kinds /\ req[r].seen \in Nat
  BY SlotTyped DEF CreateChallenge, At, Fits, LocalsType
<1>2. /\ new \in ChallengeType
      /\ new.user = req[r].user /\ new.kind = req[r].kind /\ new.seen = req[r].seen
  BY <1>1 DEF NewChallenge, ChallengeType
<1>3. challenge' = Append(challenge, new)
  BY DEF CreateChallenge
<1> HIDE DEF new
<1>4. /\ challenge' \in Seq(ChallengeType) /\ Len(challenge') = Len(challenge) + 1
      /\ DOMAIN challenge' = 1..(Len(challenge) + 1)
      /\ \A i \in 1..Len(challenge) : challenge'[i] = challenge[i]
      /\ challenge'[Len(challenge) + 1] = new
  BY <1>2, <1>3, ChallengeFacts, AppendProperties, LenProperties
<1> QED
  BY <1>2, <1>4, ChallengeFacts, RowFacts DEF RowsKept

LEMMA DeleteRow ==
  ASSUME TypeInv, NEW r \in Reqs, DeleteChallenge(r)
  PROVE  LET i == req[r].response.challenge
         IN  /\ RowsKept /\ DOMAIN challenge' = DOMAIN challenge
             /\ challenge'[i].status = "deleted" \/ challenge'[i].kept
<1> DEFINE i == req[r].response.challenge
<1>1. i \in DOMAIN challenge /\ challenge[i] \in ChallengeType
  BY SlotTyped, ResponseTyped DEF DeleteChallenge, At, Fits, Verifying
<1>2. CASE challenge' = [challenge EXCEPT ![i] = Spent(@)]
  BY <1>1, <1>2, WriteRow, RowFacts
<1>3. CASE challenge' = [challenge EXCEPT ![i] = Keep(@)]
  BY <1>1, <1>3, WriteRow, RowFacts
<1> QED
  BY <1>2, <1>3 DEF DeleteChallenge

------------------------------------------------------------------------------
(* What each action does *)

\* A request that arrives takes an idle slot and leaves the tables alone.  One that verifies a
\* response has found its challenge active.
LEMMA ArriveStep ==
  ASSUME TypeInv, NEW r \in Reqs, Arrive(r)
  PROVE  /\ pc[r] = "idle" /\ UNCHANGED <<challenge, credential, made, accepted, repeated, faults>>
         /\ overlapped \subseteq overlapped' /\ overlapped' \subseteq Users
         /\ contested \subseteq contested' /\ contested' \subseteq made
         /\ \E l \in Labels, x \in LocalsType :
              /\ Moves(r, l, x) /\ Fits(l, x)
              /\ (\E s \in Reqs : Verified(x.response, s)) => x.response \in contested'
              /\ Busy(x.user) => x.user \in overlapped'
              /\ \/ l = "delete_old"
                 \/ /\ l \in {"delete_challenge", "find_credential"}
                    /\ l = "delete_challenge" => x.kind = "REGISTRATION"
                    /\ challenge[x.response.challenge].status = "active"
<1>1. ASSUME NEW l \in Labels, NEW x \in LocalsType, x.user \in Users, Begin(r, l, x)
      PROVE  /\ pc[r] = "idle" /\ Moves(r, l, x)
             /\ UNCHANGED <<challenge, credential, made, accepted, repeated, faults>>
             /\ overlapped \subseteq overlapped' /\ overlapped' \subseteq Users
             /\ contested \subseteq contested' /\ contested' \subseteq made
             /\ (\E s \in Reqs : Verified(x.response, s)) => x.response \in contested'
             /\ Busy(x.user) => x.user \in overlapped'
  <2>1. overlapped \subseteq Users /\ contested \subseteq made
    BY DEF TypeInv, TypeOK
  <2>2. (\E s \in Reqs : Verified(x.response, s)) => x.response \in made
    BY SlotTyped DEF Verified, Fits
  <2>3. NoteOverlap(x.user) /\ NoteContest(x.response)
        /\ UNCHANGED <<challenge, credential, made, accepted, repeated, faults>>
    BY <1>1 DEF Begin
  <2>4. /\ contested \subseteq contested' /\ contested' \subseteq made
        /\ (\E s \in Reqs : Verified(x.response, s)) => x.response \in contested'
    BY <2>1, <2>2, <2>3 DEF NoteContest
  <2> QED
    BY <1>1, <2>1, <2>3, <2>4, BeginMoves DEF NoteOverlap
<1>2. ASSUME NEW u \in Users, NEW kind \in Kinds, Options(r, u, kind)
      PROVE  \E x \in LocalsType :
               x.user \in Users /\ Fits("delete_old", x) /\ Begin(r, "delete_old", x)
  <2> DEFINE x == Locals(u, kind, NoResponse, FALSE, 0, 0)
  <2>1. x \in LocalsType /\ x.user \in Users
    BY LocalsTyped DEF Locals
  <2>2. Fits("delete_old", x)
    BY <2>1, LabelsTyped DEF Fits
  <2>3. Begin(r, "delete_old", x)
    BY <1>2 DEF Options
  <2> QED
    BY <2>1, <2>2, <2>3
<1>3. ASSUME NEW p \in made, NEW kind \in Kinds, NEW valid \in BOOLEAN,
             NEW l \in {"delete_challenge", "find_credential"},
             Verify(r, p, kind, l, valid),
             kind = IF l = "find_credential" THEN "AUTHENTICATION" ELSE "REGISTRATION"
      PROVE  \E x \in LocalsType :
               /\ x.user \in Users /\ Fits(l, x) /\ Begin(r, l, x)
               /\ challenge[x.response.challenge].status = "active"
               /\ l = "delete_challenge" => x.kind = "REGISTRATION"
  <2> DEFINE x == Locals(UserOf(p), kind, p, valid, 0, 0)
  <2>1. x \in LocalsType /\ x.user = UserOf(p) /\ x.kind = kind /\ x.response = p
    BY ResponseTyped, LocalsTyped DEF Locals
  <2>2. KindOf(p) = kind /\ UserOf(p) \in Users
    BY <1>3, ResponseTyped DEF Verify
  <2>3. Fits(l, x)
    BY <1>3, <2>1, <2>2 DEF Fits, Verifying
  <2>4. Begin(r, l, x) /\ challenge[p.challenge].status = "active"
    BY <1>3 DEF Verify, Latest
  <2> HIDE DEF x
  <2> QED
    BY <1>3, <2>1, <2>2, <2>3, <2>4
<1>4. {"delete_old", "delete_challenge", "find_credential"} \subseteq Labels
  BY LabelsTyped DEF Verifying
<1>5. CASE \E u \in Users, kind \in Kinds : Options(r, u, kind)
  BY <1>1, <1>2, <1>4, <1>5
<1>6. CASE \E p \in made, valid \in BOOLEAN : RegistrationVerify(r, p, valid)
  <2>1. \E x \in LocalsType :
          /\ x.user \in Users /\ Fits("delete_challenge", x) /\ Begin(r, "delete_challenge", x)
          /\ challenge[x.response.challenge].status = "active" /\ x.kind = "REGISTRATION"
    BY <1>3, <1>6 DEF RegistrationVerify, Kinds
  <2> QED
    BY <1>1, <1>4, <2>1
<1>7. CASE \E p \in made : AuthenticationVerify(r, p)
  <2>1. \E x \in LocalsType :
          /\ x.user \in Users /\ Fits("find_credential", x) /\ Begin(r, "find_credential", x)
          /\ challenge[x.response.challenge].status = "active"
    BY <1>3, <1>7 DEF AuthenticationVerify, Kinds
  <2> QED
    BY <1>1, <1>4, <2>1
<1> QED
  BY <1>5, <1>6, <1>7 DEF Arrive

\* Where the slot of a request under way may go, and with what locals.
Continues(r, l, x) ==
  \/ l = "idle" /\ x = NoReq
  \/ /\ pc[r] = "delete_old" /\ l = "create"
     /\ x.user = req[r].user /\ x.kind = req[r].kind /\ x.seen = Len(challenge)
  \/ /\ pc[r] = "find_credential" /\ l = "delete_challenge"
     /\ x.user = req[r].user /\ x.kind = req[r].kind /\ x.response = req[r].response
     /\ LET row == credential[x.response.cred]
        IN  /\ row.owner = x.user /\ row.row = x.row
            /\ ~CounterStale(x.response.counter, row.counter)
  \/ /\ pc[r] = "delete_challenge" /\ l \in {"insert_credential", "update_counter"}
     /\ x = req[r] /\ (l = "insert_credential" <=> x.kind = "REGISTRATION")
  \/ pc[r] = "update_counter" /\ l = "issue" /\ x = req[r]

LEMMA ServeMoves ==
  ASSUME TypeInv, NEW r \in Reqs, Serve(r)
  PROVE  /\ pc[r] # "idle"
         /\ \E l \in Labels, x \in LocalsType :
              Moves(r, l, x) /\ Fits(l, x) /\ Continues(r, l, x)
<1>0. "idle" \in Labels /\ NoReq \in LocalsType /\ Fits("idle", NoReq)
  BY LabelsTyped, LocalsTyped DEF Fits
<1>1. CASE Finish(r) /\ pc[r] # "idle"
  BY <1>0, <1>1, FinishMoves DEF Continues
<1>2. CASE CreateChallenge(r) \/ InsertCredential(r) \/ IssueTokenPair(r)
  BY <1>1, <1>2 DEF CreateChallenge, InsertCredential, IssueTokenPair, At
<1>3. CASE DeleteOldChallenges(r)
  <2> DEFINE x == [req[r] EXCEPT !.seen = Len(challenge)]
  <2>1. pc[r] = "delete_old" /\ req[r] \in LocalsType /\ req[r].user \in Users
    BY <1>3, SlotTyped DEF DeleteOldChallenges, At, Fits
  <2>2. x \in LocalsType /\ x.user = req[r].user /\ x.kind = req[r].kind
        /\ x.seen = Len(challenge)
    BY <2>1, ChallengeFacts DEF LocalsType
  <2>3. "create" \in Labels /\ Fits("create", x)
    BY <2>1, <2>2, LabelsTyped DEF Fits
  <2>4. Moves(r, "create", x)
    BY <1>3, <2>2, <2>3, SlotTyped DEF DeleteOldChallenges, Moves
  <2>5. Continues(r, "create", x)
    BY <2>1, <2>2 DEF Continues
  <2> HIDE DEF x
  <2> QED
    BY <2>1, <2>2, <2>3, <2>4, <2>5
<1>4. CASE FindCredential(r)
  <2>1. /\ pc[r] = "find_credential" /\ req[r] \in LocalsType /\ Fits("find_credential", req[r])
        /\ req[r].response.cred \in Creds
    BY <1>4, SlotTyped, ResponseTyped DEF FindCredential, At, Fits, Verifying
  <2>2. CASE Finish(r)
    BY <1>1, <2>1, <2>2
  <2>3. ASSUME NEW valid \in BOOLEAN,
               pc' = [pc EXCEPT ![r] = "delete_challenge"],
               req' = [req EXCEPT ![r].valid = valid,
                                  ![r].row = credential[req[r].response.cred].row],
               credential[req[r].response.cred].owner = req[r].user,
               ~CounterStale(req[r].response.counter, credential[req[r].response.cred].counter)
        PROVE  \E l \in Labels, x \in LocalsType :
                 Moves(r, l, x) /\ Fits(l, x) /\ Continues(r, l, x)
    <3> DEFINE x == [req[r] EXCEPT !.valid = valid, !.row = credential[req[r].response.cred].row]
    <3>1. credential[req[r].response.cred].row \in Nat
      BY <2>1 DEF TypeInv, TypeOK
    <3>2. /\ x \in LocalsType /\ x.user = req[r].user /\ x.kind = req[r].kind
          /\ x.response = req[r].response /\ x.row = credential[req[r].response.cred].row
      BY <2>1, <3>1 DEF LocalsType
    <3>3. "delete_challenge" \in Labels /\ Fits("delete_challenge", x)
      BY <2>1, <3>2, LabelsTyped DEF Fits, Verifying
    <3>4. req' = [req EXCEPT ![r] = x]
      BY <2>3, SlotTyped DEF LocalsType
    <3>5. Moves(r, "delete_challenge", x)
      BY <2>3, <3>2, <3>3, <3>4, SlotTyped DEF Moves
    <3>6. Continues(r, "delete_challenge", x)
      BY <2>1, <2>3, <3>2 DEF Continues
    <3> HIDE DEF x
    <3> QED
      BY <3>2, <3>3, <3>5, <3>6
  <2> QED
    BY <1>4, <2>1, <2>2, <2>3 DEF FindCredential
<1>5. CASE DeleteChallenge(r)
  <2>1. pc[r] = "delete_challenge" /\ req[r] \in LocalsType /\ Fits("delete_challenge", req[r])
    BY <1>5, SlotTyped DEF DeleteChallenge, At
  <2>2. CASE Finish(r)
    BY <1>1, <2>1, <2>2
  <2>3. ASSUME NEW l \in {"insert_credential", "update_counter"}, Goto(r, l),
               l = "insert_credential" <=> req[r].kind = "REGISTRATION"
        PROVE  \E x \in LocalsType : Moves(r, l, x) /\ Fits(l, x) /\ Continues(r, l, x)
    <3>1. l \in Labels
      BY LabelsTyped DEF Verifying
    <3>2. Moves(r, l, req[r])
      BY <2>3, <3>1, GotoMoves
    <3>3. Fits(l, req[r])
      BY <2>1, <2>3 DEF Fits, Verifying, LocalsType, Kinds
    <3> QED
      BY <2>1, <2>3, <3>2, <3>3 DEF Continues
  <2>4. {"insert_credential", "update_counter"} \subseteq Labels
    BY LabelsTyped DEF Verifying
  <2>5. \/ Finish(r)
        \/ Goto(r, "insert_credential") /\ req[r].kind = "REGISTRATION"
        \/ Goto(r, "update_counter") /\ req[r].kind # "REGISTRATION"
    BY <1>5 DEF DeleteChallenge, GoOn, AfterDelete
  <2> QED
    BY <2>1, <2>2, <2>3, <2>4, <2>5
<1>6. CASE UpdateCounter(r)
  <2>1. pc[r] = "update_counter" /\ req[r] \in LocalsType /\ Fits("update_counter", req[r])
    BY <1>6, SlotTyped DEF UpdateCounter, At
  <2>2. "issue" \in Labels /\ Fits("issue", req[r])
    BY <2>1, LabelsTyped DEF Fits, Verifying
  <2>3. Moves(r, "issue", req[r])
    BY <1>6, <2>2, GotoMoves DEF UpdateCounter
  <2> QED
    BY <2>1, <2>2, <2>3 DEF Continues
<1> QED
  BY <1>2, <1>3, <1>4, <1>5, <1>6 DEF Serve

\* What a step of slot r writes about the passkey of its response.
CredentialWritten(r) ==
  LET p == req[r].response
      row == credential[p.cred]
  IN  /\ pc[r] \notin {"insert_credential", "update_counter"} => UNCHANGED credential
      /\ pc[r] = "insert_credential" =>
           credential' = IF row.owner # None THEN credential
                         ELSE [credential EXCEPT ![p.cred] =
                                 Credential(req[r].user, p.counter, row.row + 1)]
      /\ pc[r] = "update_counter" =>
           credential' = IF row.owner = req[r].user /\ row.row = req[r].row
                         THEN [credential EXCEPT ![p.cred] = Counted(@, p.counter)]
                         ELSE credential

\* What it does to the challenges, and adds to the history.
Records(r) ==
  LET p == req[r].response
  IN  /\ RowsKept /\ UNCHANGED <<made, overlapped, contested>> /\ faults' \in 0..MaxFaults
      /\ pc[r] # "issue" => UNCHANGED <<accepted, repeated>>
      /\ pc[r] = "issue" => /\ accepted' = accepted \cup {p}
                            /\ repeated' = repeated \cup ({p} \cap accepted)
      /\ pc[r] = "delete_challenge" => \/ challenge'[p.challenge].status = "deleted"
                                       \/ challenge'[p.challenge].kept

LEMMA ServeRecords ==
  ASSUME TypeInv, NEW r \in Reqs, Serve(r)
  PROVE  CredentialWritten(r) /\ Records(r)
<1>0. faults \in 0..MaxFaults /\ MaxFaults \in Nat
  BY PasskeysAssumption DEF TypeInv, TypeOK
<1>1. CASE DeleteOldChallenges(r) \/ CreateChallenge(r)
  BY <1>0, <1>1, DeleteOldRows, CreateRows
     DEF DeleteOldChallenges, CreateChallenge, At, CredentialWritten, Records, history
<1>2. CASE FindCredential(r) \/ InsertCredential(r) \/ UpdateCounter(r) \/ IssueTokenPair(r)
  <2>1. RowsKept
    BY <1>2, SameRows
       DEF FindCredential, InsertCredential, UpdateCounter, IssueTokenPair
  <2> QED
    BY <1>0, <1>2, <2>1
       DEF FindCredential, InsertCredential, UpdateCounter, IssueTokenPair, At,
           CredentialWritten, Records, history
<1>3. CASE DeleteChallenge(r)
  <2>1. /\ RowsKept
        /\ \/ challenge'[req[r].response.challenge].status = "deleted"
           \/ challenge'[req[r].response.challenge].kept
    BY <1>3, DeleteRow
  <2>2. pc[r] = "delete_challenge" /\ UNCHANGED <<credential, history>>
        /\ faults' \in 0..MaxFaults
    BY <1>0, <1>3 DEF DeleteChallenge, At
  <2> QED
    BY <2>1, <2>2 DEF CredentialWritten, Records, history
<1> QED
  BY <1>1, <1>2, <1>3 DEF Serve

------------------------------------------------------------------------------
(* Types *)

CredentialType == [owner : Users \cup {None}, counter : 0..MaxSignatures, row : Nat]

LEMMA FitsKept ==
  ASSUME TypeInv, RowsKept, made \subseteq made', NEW l, NEW x, Fits(l, x)
  PROVE  Fits(l, x)'
<1>1. l \in Verifying => /\ x.response \in made' /\ UserOf(x.response)' = x.user
                         /\ KindOf(x.response)' = x.kind
  BY ResponseTyped DEF Fits, RowsKept, RowKept, UserOf, KindOf
<1> QED
  BY <1>1 DEF Fits

\* The slots keep the types when the slot that moved fits its new await.
LEMMA SlotsFit ==
  ASSUME TypeInv, RowsKept, made \subseteq made', NEW r \in Reqs,
         NEW l \in Labels, NEW x \in LocalsType, Moves(r, l, x), Fits(l, x)
  PROVE  \A q \in Reqs : Fits(pc[q], req[q])'
<1> SUFFICES ASSUME NEW q \in Reqs
             PROVE  Fits(pc[q], req[q])'
  OBVIOUS
<1>1. \E k, y : Fits(k, y) /\ pc'[q] = k /\ req'[q] = y
  <2>1. CASE q = r
    BY <2>1 DEF Moves
  <2>2. CASE q # r
    BY <2>2 DEF Moves, TypeInv
  <2> QED
    BY <2>1, <2>2
<1>2. PICK k, y : Fits(k, y) /\ pc'[q] = k /\ req'[q] = y
  BY <1>1
<1>3. Fits(k, y)'
  BY <1>2, FitsKept
<1> QED
  BY <1>2, <1>3 DEF Fits

\* So do the slots that stay.
LEMMA SlotsStay ==
  ASSUME TypeInv, RowsKept, made \subseteq made', UNCHANGED <<pc, req>>
  PROVE  \A q \in Reqs : Fits(pc[q], req[q])'
<1> SUFFICES ASSUME NEW q \in Reqs
             PROVE  Fits(pc[q], req[q])'
  OBVIOUS
<1>1. PICK k, y : Fits(k, y) /\ pc'[q] = k /\ req'[q] = y
  BY DEF TypeInv
<1>2. Fits(k, y)'
  BY <1>1, FitsKept
<1> QED
  BY <1>1, <1>2 DEF Fits

\* What else a step must leave in its type.
TablesTyped ==
  /\ RowsKept /\ made \subseteq made' /\ made' \subseteq ResponseType
  /\ \A p \in made' : p.challenge \in DOMAIN challenge' /\ p.cred \in Creds
  /\ credential' \in [Creds -> CredentialType]
  /\ accepted' \subseteq made' /\ repeated' \subseteq accepted'
  /\ overlapped' \subseteq Users /\ contested' \subseteq made'
  /\ faults' \in 0..MaxFaults

LEMMA TypeStep ==
  ASSUME TablesTyped, pc' \in [Reqs -> Labels], req' \in [Reqs -> LocalsType],
         \A q \in Reqs : Fits(pc[q], req[q])'
  PROVE  TypeInv'
<1> QED
  BY DEF TypeInv, TypeOK, TablesTyped, RowsKept, CredentialType, Fits

LEMMA SameTables ==
  ASSUME TypeInv, UNCHANGED <<made, credential, accepted, repeated>>, RowsKept,
         overlapped' \subseteq Users, contested' \subseteq made, faults' \in 0..MaxFaults
  PROVE  TablesTyped
<1> QED
  BY DEF TypeInv, TypeOK, TablesTyped, RowsKept, CredentialType

LEMMA CredentialTyped ==
  ASSUME TypeInv, NEW r \in Reqs, CredentialWritten(r)
  PROVE  credential' \in [Creds -> CredentialType]
<1> DEFINE p == req[r].response
<1>1. credential \in [Creds -> CredentialType]
  BY DEF TypeInv, TypeOK, CredentialType
<1>2. CASE pc[r] \notin {"insert_credential", "update_counter"}
  BY <1>1, <1>2 DEF CredentialWritten
<1>3. CASE pc[r] \in {"insert_credential", "update_counter"}
  <2>1. /\ p.cred \in Creds /\ p.counter \in 0..MaxSignatures /\ req[r].user \in Users
        /\ credential[p.cred] \in CredentialType
    BY <1>1, <1>3, SlotTyped, ResponseTyped DEF Fits, Verifying
  <2>2. Credential(req[r].user, p.counter, credential[p.cred].row + 1) \in CredentialType
    BY <2>1 DEF Credential, CredentialType
  <2>3. Counted(credential[p.cred], p.counter) \in CredentialType
    BY <2>1 DEF Counted, CredentialType
  <2> QED
    BY <1>1, <1>3, <2>1, <2>2, <2>3 DEF CredentialWritten
<1> QED
  BY <1>2, <1>3

LEMMA InitTyped ==
  ASSUME Init
  PROVE  TypeInv
<1>1. NoCredential \in CredentialType
  BY PasskeysAssumption DEF NoCredential, Credential, CredentialType
<1>2. /\ "idle" \in Labels /\ NoReq \in LocalsType /\ "idle" \notin Verifying
      /\ Fits("idle", NoReq)
  BY LabelsTyped, LocalsTyped DEF Fits
<1>3. <<>> \in Seq(ChallengeType)
  BY EmptySeq
<1> QED
  BY <1>1, <1>2, <1>3, PasskeysAssumption DEF Init, TypeInv, TypeOK, CredentialType

LEMMA ArriveTyped ==
  ASSUME TypeInv, NEW r \in Reqs, Arrive(r)
  PROVE  TypeInv' /\ TablesTyped
<1>1. PICK l \in Labels, x \in LocalsType : Moves(r, l, x) /\ Fits(l, x)
  BY ArriveStep
<1>2. TablesTyped
  <2>1. UNCHANGED <<challenge, credential, made, accepted, repeated, faults>>
        /\ overlapped' \subseteq Users /\ contested' \subseteq made
    BY ArriveStep
  <2>2. faults' \in 0..MaxFaults
    BY <2>1 DEF TypeInv, TypeOK
  <2> QED
    BY <2>1, <2>2, SameRows, SameTables
<1>3. \A q \in Reqs : Fits(pc[q], req[q])'
  BY <1>1, <1>2, SlotsFit DEF TablesTyped
<1> QED
  BY <1>1, <1>2, <1>3, TypeStep DEF Moves

LEMMA ServeTyped ==
  ASSUME TypeInv, NEW r \in Reqs, Serve(r)
  PROVE  TypeInv' /\ TablesTyped
<1>1. PICK l \in Labels, x \in LocalsType : Moves(r, l, x) /\ Fits(l, x)
  BY ServeMoves
<1>2. Records(r) /\ CredentialWritten(r) /\ Fits(pc[r], req[r])
  BY ServeRecords, SlotTyped
<1>3. /\ made' = made /\ accepted' \subseteq made /\ repeated' \subseteq accepted'
      /\ overlapped' \subseteq Users /\ contested' \subseteq made
  BY <1>2 DEF Records, Fits, Verifying, TypeInv, TypeOK
<1>4. TablesTyped
  BY <1>2, <1>3, CredentialTyped DEF Records, RowsKept, TablesTyped, TypeInv, TypeOK
<1>5. \A q \in Reqs : Fits(pc[q], req[q])'
  BY <1>1, <1>4, SlotsFit DEF TablesTyped
<1> QED
  BY <1>1, <1>4, <1>5, TypeStep DEF Moves

LEMMA ElsewhereTyped ==
  ASSUME TypeInv, Elsewhere
  PROVE  TypeInv' /\ TablesTyped
<1>0. /\ UNCHANGED <<pc, req, accepted, repeated, contested, faults>>
      /\ contested \subseteq made
      /\ pc \in [Reqs -> Labels] /\ req \in [Reqs -> LocalsType]
      /\ credential \in [Creds -> CredentialType] /\ overlapped \subseteq Users
      /\ made \subseteq ResponseType /\ accepted \subseteq made /\ repeated \subseteq accepted
      /\ faults \in 0..MaxFaults
  BY DEF Elsewhere, Attest, Sign, Respond, RemoveWebauthnCredential, Expire, history,
         TypeInv, TypeOK, CredentialType
<1>1. ASSUME NEW i \in DOMAIN challenge, NEW c \in Creds, NEW n \in 0..MaxSignatures,
             Respond(Response(i, c, n))
      PROVE  TablesTyped
  <2>1. Response(i, c, n) \in ResponseType /\ Response(i, c, n).challenge = i
        /\ Response(i, c, n).cred = c
    BY ChallengeFacts DEF Response, ResponseType
  <2>2. RowsKept /\ UNCHANGED <<challenge, credential, overlapped>>
    BY <1>1, SameRows DEF Respond
  <2> QED
    BY <1>0, <1>1, <2>1, <2>2 DEF Respond, TablesTyped, TypeInv, TypeOK
<1>2. ASSUME NEW u \in Users, NEW c \in Creds, RemoveWebauthnCredential(u, c)
      PROVE  TablesTyped
  <2>1. credential' \in [Creds -> CredentialType]
    BY <1>0, <1>2 DEF RemoveWebauthnCredential, CredentialType
  <2>2. RowsKept /\ UNCHANGED <<challenge, made>> /\ overlapped' \subseteq Users
    BY <1>0, <1>2, SameRows DEF RemoveWebauthnCredential, NoteOverlap
  <2> QED
    BY <1>0, <2>1, <2>2 DEF TablesTyped, TypeInv, TypeOK
<1>3. ASSUME NEW i \in DOMAIN challenge, Expire(i)
      PROVE  TablesTyped
  <2>1. RowsKept /\ UNCHANGED <<made, credential, overlapped>>
    BY <1>3, WriteRow, RowFacts, ChallengeFacts DEF Expire, history
  <2> QED
    BY <1>0, <2>1, SameTables
<1>4. TablesTyped
  <2>1. 0 \in 0..MaxSignatures
    BY PasskeysAssumption
  <2> QED
    BY <1>1, <1>2, <1>3, <2>1 DEF Elsewhere, Attest, Sign
<1>5. \A q \in Reqs : Fits(pc[q], req[q])'
  BY <1>0, <1>4, SlotsStay DEF TablesTyped
<1> QED
  BY <1>0, <1>4, <1>5, TypeStep

\* Every slot that a failure empties is idle, and the tables and history stay.
Fails(drop) ==
  /\ pc' = [q \in Reqs |-> IF q \in drop THEN "idle" ELSE pc[q]]
  /\ req' = [q \in Reqs |-> IF q \in drop THEN NoReq ELSE req[q]]
  /\ UNCHANGED <<challenge, credential, history>> /\ faults' \in 0..MaxFaults

LEMMA FailureStep ==
  ASSUME TypeInv, Restart \/ \E r \in Reqs : DbThrows(r)
  PROVE  \E drop \in SUBSET Reqs : Fails(drop)
<1>1. /\ faults \in 0..MaxFaults /\ MaxFaults \in Nat
      /\ pc \in [Reqs -> Labels] /\ req \in [Reqs -> LocalsType]
  BY PasskeysAssumption DEF TypeInv, TypeOK
<1>2. CASE Restart
  <2>1. Fails(Reqs)
    BY <1>1, <1>2 DEF Restart, Fails
  <2> QED
    BY <2>1
<1>3. ASSUME NEW r \in Reqs, DbThrows(r)
      PROVE  \E drop \in SUBSET Reqs : Fails(drop)
  <2>1. /\ pc' = [q \in Reqs |-> IF q \in {r} THEN "idle" ELSE pc[q]]
        /\ req' = [q \in Reqs |-> IF q \in {r} THEN NoReq ELSE req[q]]
    BY <1>1, <1>3 DEF DbThrows, Finish
  <2>2. UNCHANGED <<challenge, credential, history>> /\ faults' \in 0..MaxFaults
    BY <1>1, <1>3 DEF DbThrows, history
  <2>3. Fails({r})
    BY <2>1, <2>2 DEF Fails
  <2> QED
    BY <2>3
<1> QED
  BY <1>2, <1>3

LEMMA FailsTyped ==
  ASSUME TypeInv, NEW drop \in SUBSET Reqs, Fails(drop)
  PROVE  TypeInv' /\ TablesTyped
<1>1. "idle" \in Labels /\ NoReq \in LocalsType /\ Fits("idle", NoReq)
  BY LabelsTyped, LocalsTyped DEF Fits
<1>2. pc' \in [Reqs -> Labels] /\ req' \in [Reqs -> LocalsType]
  BY <1>1, SlotTyped DEF Fails, TypeInv, TypeOK
<1>3. TablesTyped
  BY SameRows, SameTables DEF Fails, history, TypeInv, TypeOK
<1>4. ASSUME NEW q \in Reqs
      PROVE  Fits(pc[q], req[q])'
  <2>1. PICK k, y : Fits(k, y) /\ pc'[q] = k /\ req'[q] = y
    BY <1>1 DEF Fails, TypeInv
  <2>2. Fits(k, y)'
    BY <1>3, <2>1, FitsKept DEF TablesTyped
  <2> QED
    BY <2>1, <2>2 DEF Fits
<1> QED
  BY <1>2, <1>3, <1>4, TypeStep

LEMMA NextTyped ==
  ASSUME TypeInv, [Next]_vars
  PROVE  TypeInv' /\ TablesTyped
<1>1. CASE UNCHANGED vars
  <2>1. TablesTyped
    BY <1>1, SameRows, SameTables DEF vars, history, TypeInv, TypeOK
  <2>2. \A q \in Reqs : Fits(pc[q], req[q])'
    BY <1>1, <2>1, SlotsStay DEF vars, TablesTyped
  <2> QED
    BY <1>1, <2>1, <2>2, TypeStep DEF vars, TypeInv, TypeOK
<1>2. CASE Restart \/ \E r \in Reqs : DbThrows(r)
  BY <1>2, FailureStep, FailsTyped
<1>3. ASSUME NEW r \in Reqs, Arrive(r) \/ Serve(r)
      PROVE  TypeInv' /\ TablesTyped
  BY <1>3, ArriveTyped, ServeTyped
<1> QED
  BY <1>1, <1>2, <1>3, ElsewhereTyped DEF Next

LEMMA TypeInvariant == Spec => []TypeInv
<1>1. Init => TypeInv
  BY InitTyped
<1>2. TypeInv /\ [Next]_vars => TypeInv'
  BY NextTyped
<1> QED
  BY <1>1, <1>2, PTL DEF Spec

\* Rows, responses and slots keep their types, every response is one to a challenge, and a
\* handler verifies a response of its own user.
THEOREM TypeCorrect == Spec => []TypeOK
<1>1. TypeInv => TypeOK
  BY DEF TypeInv
<1> QED
  BY <1>1, TypeInvariant, PTL

------------------------------------------------------------------------------
(* Challenges are replaced *)

\* The older rows of slot r's user and kind are deleted.
Cleared(r) ==
  /\ req[r].seen \in 0..Len(challenge)
  /\ \A i \in DOMAIN challenge :
       /\ challenge[i].user = req[r].user /\ challenge[i].kind = req[r].kind
       /\ i <= req[r].seen
       => challenge[i].status = "deleted"

\* A row knows of older rows only, and a request that has deleted them still finds them so.
ReplaceInv ==
  /\ ChallengesReplaced
  /\ \A j \in DOMAIN challenge : challenge[j].seen <= Len(challenge)
  /\ \A r \in Reqs : pc[r] = "create" => Cleared(r)

\* What the old rows promise stays true of them.
LEMMA OldRowsKept ==
  ASSUME TypeInv, ReplaceInv, RowsKept
  PROVE  /\ \A i, j \in DOMAIN challenge :
              /\ challenge'[i].user = challenge'[j].user /\ challenge'[i].kind = challenge'[j].kind
              /\ i <= challenge'[j].seen
              => challenge'[i].status = "deleted"
         /\ \A j \in DOMAIN challenge : challenge'[j].seen <= Len(challenge)
         /\ \A r \in Reqs : pc[r] = "create" /\ req'[r] = req[r] => Cleared(r)'
<1>1. /\ Len(challenge) \in Nat /\ Len(challenge') \in Nat /\ Len(challenge) <= Len(challenge')
      /\ DOMAIN challenge = 1..Len(challenge) /\ DOMAIN challenge' = 1..Len(challenge')
  BY ChallengeFacts, LenProperties DEF RowsKept
<1>2. ASSUME NEW r \in Reqs, pc[r] = "create", req'[r] = req[r]
      PROVE  Cleared(r)'
  <2>1. Cleared(r)
    BY <1>2 DEF ReplaceInv
  <2> QED
    BY <1>1, <1>2, <2>1 DEF Cleared, RowsKept, RowKept
<1>3. \A j \in DOMAIN challenge : challenge'[j].seen <= Len(challenge)
  BY DEF ReplaceInv, RowsKept, RowKept
<1>4. ASSUME NEW i \in DOMAIN challenge, NEW j \in DOMAIN challenge,
             challenge'[i].user = challenge'[j].user, challenge'[i].kind = challenge'[j].kind,
             i <= challenge'[j].seen
      PROVE  challenge'[i].status = "deleted"
  BY <1>4 DEF ReplaceInv, ChallengesReplaced, RowsKept, RowKept
<1> QED
  BY <1>2, <1>3, <1>4

LEMMA ReplaceSame ==
  ASSUME TypeInv, ReplaceInv, RowsKept, DOMAIN challenge' = DOMAIN challenge,
         \A q \in Reqs : pc'[q] = "create" =>
           (pc[q] = "create" /\ req'[q] = req[q]) \/ Cleared(q)'
  PROVE  ReplaceInv'
<1>1. Len(challenge') = Len(challenge)
  BY ChallengeFacts, LenProperties DEF RowsKept
<1>2. ChallengesReplaced'
  BY OldRowsKept DEF ChallengesReplaced
<1> QED
  BY <1>1, <1>2, OldRowsKept DEF ReplaceInv

LEMMA ReplaceCreate ==
  ASSUME TypeInv, ReplaceInv, NEW r \in Reqs, CreateChallenge(r)
  PROVE  ReplaceInv'
<1> DEFINE n == Len(challenge) + 1
<1>1. /\ Len(challenge) \in Nat /\ DOMAIN challenge = 1..Len(challenge)
      /\ RowsKept /\ DOMAIN challenge' = 1..n
      /\ \A i \in DOMAIN challenge : challenge'[i] = challenge[i]
      /\ challenge'[n].user = req[r].user /\ challenge'[n].kind = req[r].kind
      /\ challenge'[n].seen = req[r].seen
  BY ChallengeFacts, CreateRows
<1>2. Len(challenge') = n
  BY <1>1, LenProperties DEF RowsKept
<1>3. Cleared(r)
  BY DEF ReplaceInv, CreateChallenge, At
<1>4. ASSUME NEW i \in 1..n, NEW j \in 1..n,
             challenge'[i].user = challenge'[j].user, challenge'[i].kind = challenge'[j].kind,
             i <= challenge'[j].seen
      PROVE  challenge'[i].status = "deleted"
  <2>1. challenge'[j].seen <= Len(challenge)
    <3>1. CASE j = n
      BY <1>1, <1>3, <3>1 DEF Cleared
    <3>2. CASE j # n
      BY <1>1, <3>2, OldRowsKept
    <3> QED
      BY <3>1, <3>2
  <2>2. challenge'[j].seen \in Nat
    <3>1. challenge'[j] \in ChallengeType
      BY <1>1, ElementOfSeq DEF RowsKept
    <3> QED
      BY <3>1 DEF ChallengeType
  <2>3. i \in DOMAIN challenge
    BY <1>1, <1>4, <2>1, <2>2
  <2>4. CASE j = n
    BY <1>1, <1>3, <1>4, <2>3, <2>4 DEF Cleared
  <2>5. CASE j # n
    BY <1>1, <1>4, <2>3, <2>5, OldRowsKept
  <2> QED
    BY <2>4, <2>5
<1>5. \A j \in 1..n : challenge'[j].seen <= n
  <2> SUFFICES ASSUME NEW j \in 1..n
               PROVE  challenge'[j].seen <= n
    OBVIOUS
  <2>1. CASE j = n
    BY <1>1, <1>3, <2>1 DEF Cleared
  <2>2. CASE j # n
    <3>1. challenge'[j].seen <= Len(challenge) /\ challenge'[j].seen \in Nat
      BY <1>1, <2>2, OldRowsKept, ChallengeFacts DEF ChallengeType
    <3> QED
      BY <1>1, <3>1
  <2> QED
    BY <2>1, <2>2
<1>6. \A q \in Reqs : pc'[q] = "create" => pc[q] = "create" /\ req'[q] = req[q]
  BY SlotTyped DEF CreateChallenge, Finish
<1>7. ChallengesReplaced'
  BY <1>1, <1>4 DEF ChallengesReplaced
<1> QED
  BY <1>1, <1>2, <1>5, <1>6, <1>7, OldRowsKept DEF ReplaceInv

LEMMA ReplaceDeleteOld ==
  ASSUME TypeInv, ReplaceInv, NEW r \in Reqs, DeleteOldChallenges(r)
  PROVE  ReplaceInv'
<1>1. /\ RowsKept /\ DOMAIN challenge' = DOMAIN challenge /\ Len(challenge') = Len(challenge)
      /\ \A i \in DOMAIN challenge :
           /\ challenge[i].user = req[r].user /\ challenge[i].kind = req[r].kind
           => challenge'[i].status = "deleted"
  BY DeleteOldRows
<1>2. PICK l \in Labels, x \in LocalsType : Moves(r, l, x) /\ Continues(r, l, x)
  BY ServeMoves DEF Serve
<1>3. /\ req'[r].user = req[r].user /\ req'[r].kind = req[r].kind
      /\ req'[r].seen = Len(challenge)
  BY SlotTyped DEF DeleteOldChallenges, LocalsType
<1>4. Cleared(r)'
  BY <1>1, <1>3, ChallengeFacts DEF Cleared, RowsKept, RowKept
<1>5. \A q \in Reqs : q # r => pc'[q] = pc[q] /\ req'[q] = req[q]
  BY <1>2 DEF Moves
<1> QED
  BY <1>1, <1>4, <1>5, ReplaceSame

LEMMA ReplaceNext ==
  ASSUME TypeInv, ReplaceInv, [Next]_vars
  PROVE  ReplaceInv'
<1>1. RowsKept
  BY NextTyped DEF TablesTyped
<1>2. CASE UNCHANGED vars
  BY <1>1, <1>2, ReplaceSame DEF vars
<1>3. CASE Restart \/ \E r \in Reqs : DbThrows(r)
  BY <1>1, <1>3, FailureStep, ReplaceSame DEF Fails
<1>4. CASE Elsewhere
  <2>1. UNCHANGED <<pc, req>>
    BY <1>4 DEF Elsewhere, Attest, Sign, Respond, RemoveWebauthnCredential, Expire
  <2>2. DOMAIN challenge' = DOMAIN challenge
    BY <1>4 DEF Elsewhere, Attest, Sign, Respond, RemoveWebauthnCredential, Expire
  <2> QED
    BY <1>1, <2>1, <2>2, ReplaceSame
<1>5. ASSUME NEW r \in Reqs, Arrive(r)
      PROVE  ReplaceInv'
  <2>1. \A q \in Reqs : pc'[q] = "create" => pc[q] = "create" /\ req'[q] = req[q]
    BY <1>5, ArriveStep DEF Moves
  <2>2. UNCHANGED challenge
    BY <1>5, ArriveStep
  <2> QED
    BY <1>1, <2>1, <2>2, ReplaceSame
<1>6. ASSUME NEW r \in Reqs, Serve(r), ~CreateChallenge(r), ~DeleteOldChallenges(r)
      PROVE  ReplaceInv'
  <2>1. pc[r] # "delete_old"
    BY <1>6 DEF Serve, FindCredential, DeleteChallenge, InsertCredential, UpdateCounter,
                IssueTokenPair, At
  <2>2. \A q \in Reqs : pc'[q] = "create" => pc[q] = "create" /\ req'[q] = req[q]
    BY <1>6, <2>1, ServeMoves DEF Moves, Continues
  <2>3. DOMAIN challenge' = DOMAIN challenge
    BY <1>6, DeleteRow DEF Serve, FindCredential, InsertCredential, UpdateCounter, IssueTokenPair
  <2> QED
    BY <1>1, <2>2, <2>3, ReplaceSame
<1> QED
  BY <1>2, <1>3, <1>4, <1>5, <1>6, ReplaceCreate, ReplaceDeleteOld DEF Next

\* A new challenge replaces every one of its user and kind created before its request began to
\* delete them, also those that overlapping requests left behind together.
THEOREM Replaced == Spec => []ChallengesReplaced
<1>1. Init => ReplaceInv
  BY DEF Init, ReplaceInv, ChallengesReplaced
<1>2. TypeInv /\ ReplaceInv /\ [Next]_vars => ReplaceInv'
  BY ReplaceNext
<1>3. ReplaceInv => ChallengesReplaced
  BY DEF ReplaceInv
<1> QED
  BY <1>1, <1>2, <1>3, TypeInvariant, PTL DEF Spec

------------------------------------------------------------------------------
(* Responses and passkeys *)

\* A credential is created once, for one user, before it signs, and registered for that user.
MadeInv ==
  /\ \A p, q \in made : p.cred = q.cred =>
       /\ UserOf(p) = UserOf(q)
       /\ KindOf(p) = "REGISTRATION" /\ KindOf(q) = "REGISTRATION" => p = q
  /\ \A p \in made : KindOf(p) = "AUTHENTICATION" =>
       credential[p.cred].row > 0 /\ (p.cred \in Counting => p.counter > 0)
  /\ \A p \in made : credential[p.cred].owner \in {None, UserOf(p)}
  /\ \A c \in Creds : credential[c].row > 0 \/ credential[c].owner # None
                        => \E p \in made : p.cred = c
  /\ \A p \in accepted : KindOf(p) = "AUTHENTICATION"

\* The user, the kind and the challenge of a response stay.
LEMMA ResponseKept ==
  ASSUME TypeInv, RowsKept, NEW p \in made
  PROVE  /\ UserOf(p)' = UserOf(p) /\ KindOf(p)' = KindOf(p)
         /\ challenge[p.challenge].status = "deleted"
              => challenge'[p.challenge].status = "deleted"
         /\ challenge[p.challenge].kept => challenge'[p.challenge].kept
         /\ challenge'[p.challenge].status = "active" => challenge[p.challenge].status = "active"
<1> QED
  BY ResponseTyped DEF RowsKept, RowKept, UserOf, KindOf

\* How a step may change a passkey's rows: only their owner registers, counts or removes.
CredentialSteps ==
  \A c \in Creds :
    \/ credential'[c] = credential[c]
    \/ /\ credential'[c].row >= credential[c].row
       /\ \E p \in made : p.cred = c /\ credential'[c].owner \in {None, UserOf(p)}

LEMMA WrittenSteps ==
  ASSUME TypeInv, MadeInv, NEW r \in Reqs, CredentialWritten(r)
  PROVE  CredentialSteps
<1> DEFINE p == req[r].response
<1>1. credential \in [Creds -> CredentialType]
  BY DEF TypeInv, TypeOK, CredentialType
<1>2. CASE pc[r] \notin {"insert_credential", "update_counter"}
  BY <1>2 DEF CredentialWritten, CredentialSteps
<1>3. CASE pc[r] \in {"insert_credential", "update_counter"}
  <2>1. /\ p \in made /\ p.cred \in Creds /\ UserOf(p) = req[r].user
        /\ credential[p.cred] \in CredentialType
    BY <1>1, <1>3, SlotTyped, ResponseTyped DEF Fits, Verifying
  <2>2. /\ Credential(req[r].user, p.counter, credential[p.cred].row + 1).owner = UserOf(p)
        /\ Credential(req[r].user, p.counter, credential[p.cred].row + 1).row
             >= credential[p.cred].row
    BY <2>1 DEF Credential, CredentialType
  <2>3. /\ Counted(credential[p.cred], p.counter).owner = credential[p.cred].owner
        /\ Counted(credential[p.cred], p.counter).row >= credential[p.cred].row
    BY <2>1 DEF Counted, CredentialType
  <2>4. credential[p.cred].owner \in {None, UserOf(p)}
    BY <2>1 DEF MadeInv
  <2> QED
    BY <1>1, <1>3, <2>1, <2>2, <2>3, <2>4 DEF CredentialWritten, CredentialSteps
<1> QED
  BY <1>2, <1>3

\* Such steps keep what is known of responses that were there before.
LEMMA MadeKept ==
  ASSUME TypeInv, MadeInv, RowsKept, CredentialSteps, UNCHANGED made, TypeInv',
         \A p \in accepted' : KindOf(p) = "AUTHENTICATION"
  PROVE  MadeInv'
<1>1. \A p \in made : UserOf(p)' = UserOf(p) /\ KindOf(p)' = KindOf(p)
  BY ResponseKept
<1>2. \A c \in Creds : credential[c].row \in Nat /\ credential'[c].row \in Nat
  BY DEF TypeInv, TypeOK
<1>3. \A p \in made : p.cred \in Creds
  BY ResponseTyped
<1>4. ASSUME NEW p \in made
      PROVE  /\ credential[p.cred].row > 0 => credential'[p.cred].row > 0
             /\ credential'[p.cred].owner \in {None, UserOf(p)}
  BY <1>2, <1>3 DEF CredentialSteps, MadeInv
<1>5. ASSUME NEW c \in Creds, credential'[c].row > 0 \/ credential'[c].owner # None
      PROVE  \E p \in made : p.cred = c
  BY <1>5 DEF CredentialSteps, MadeInv
<1>6. accepted' \subseteq made
  BY DEF TypeInv, TypeOK
<1>7. \A p, q \in made : p.cred = q.cred =>
        /\ UserOf(p)' = UserOf(q)'
        /\ KindOf(p)' = "REGISTRATION" /\ KindOf(q)' = "REGISTRATION" => p = q
  BY <1>1 DEF MadeInv
<1>8. \A p \in made : KindOf(p)' = "AUTHENTICATION" =>
        credential'[p.cred].row > 0 /\ (p.cred \in Counting => p.counter > 0)
  BY <1>1, <1>4 DEF MadeInv
<1>9. \A p \in made : credential'[p.cred].owner \in {None, UserOf(p)'}
  BY <1>1, <1>4
<1>10. \A p \in accepted' : KindOf(p)' = "AUTHENTICATION"
  BY <1>1, <1>6
<1> QED
  BY <1>5, <1>7, <1>8, <1>9, <1>10 DEF MadeInv

\* A new response is the first of its credential, or a signature of a registered one.
LEMMA MadeMore ==
  ASSUME TypeInv, MadeInv, NEW i \in DOMAIN challenge, NEW c \in Creds,
         NEW n \in 0..MaxSignatures, Attest(i, c) \/ Sign(i, c, n)
  PROVE  MadeInv' /\ \E new : /\ made' = made \cup {new} /\ new.cred = c
                              /\ \/ \A p \in made : p.cred # c
                                 \/ KindOf(new) = "AUTHENTICATION"
<1>1. PICK k \in 0..MaxSignatures :
           /\ Respond(Response(i, c, k))
           /\ \/ challenge[i].kind = "REGISTRATION" /\ \A p \in made : p.cred # c
              \/ /\ challenge[i].kind = "AUTHENTICATION" /\ credential[c].row > 0
                 /\ \E p \in made : p.cred = c /\ UserOf(p) = challenge[i].user
                 /\ c \in Counting => \A p \in made : p.cred = c => p.counter < k
  <2>1. 0 \in 0..MaxSignatures
    BY PasskeysAssumption
  <2> QED
    BY <2>1 DEF Attest, Sign
<1> DEFINE new == Response(i, c, k)
<1>2. new.challenge = i /\ new.cred = c /\ new.counter = k
  BY DEF Response
<1>3. /\ made' = made \cup {new} /\ UNCHANGED <<challenge, credential, accepted>>
  BY <1>1 DEF Respond
<1>4. UserOf(new) = challenge[i].user /\ KindOf(new) = challenge[i].kind
  BY <1>2 DEF UserOf, KindOf
<1> HIDE DEF new
<1>5. \A p \in made' : UserOf(p)' = UserOf(p) /\ KindOf(p)' = KindOf(p)
  BY <1>3 DEF UserOf, KindOf
<1>6. \A p \in made : p.counter \in Nat
  BY ResponseTyped, PasskeysAssumption
<1>7. /\ \A p \in made : p.cred = c => UserOf(p) = UserOf(new)
      /\ KindOf(new) = "REGISTRATION" => \A p \in made : p.cred # c
      /\ KindOf(new) = "AUTHENTICATION" => /\ credential[c].row > 0
                                           /\ c \in Counting => new.counter > 0
      /\ credential[c].owner \in {None, UserOf(new)}
      /\ (\A p \in made : p.cred # c) \/ KindOf(new) = "AUTHENTICATION"
  <2>1. CASE challenge[i].kind = "REGISTRATION" /\ \A p \in made : p.cred # c
    <3>1. credential[c].owner = None
      BY <2>1 DEF MadeInv
    <3> QED
      BY <1>4, <2>1, <3>1
  <2>2. CASE /\ challenge[i].kind = "AUTHENTICATION" /\ credential[c].row > 0
             /\ \E p \in made : p.cred = c /\ UserOf(p) = challenge[i].user
             /\ c \in Counting => \A p \in made : p.cred = c => p.counter < k
    <3>1. \A p \in made : p.cred = c => UserOf(p) = UserOf(new)
      BY <1>4, <2>2 DEF MadeInv
    <3>2. c \in Counting => new.counter > 0
      BY <1>2, <1>6, <2>2
    <3>3. credential[c].owner \in {None, UserOf(new)}
      BY <2>2, <3>1 DEF MadeInv
    <3> QED
      BY <1>4, <2>2, <3>1, <3>2, <3>3
  <2> QED
    BY <1>1, <2>1, <2>2
<1>8. \A p, q \in made' : p.cred = q.cred =>
        /\ UserOf(p) = UserOf(q)
        /\ KindOf(p) = "REGISTRATION" /\ KindOf(q) = "REGISTRATION" => p = q
  BY <1>2, <1>3, <1>7 DEF MadeInv
<1>9. \A p \in made' : KindOf(p) = "AUTHENTICATION" =>
        credential[p.cred].row > 0 /\ (p.cred \in Counting => p.counter > 0)
  BY <1>2, <1>3, <1>7 DEF MadeInv
<1>10. \A p \in made' : credential[p.cred].owner \in {None, UserOf(p)}
  BY <1>2, <1>3, <1>7 DEF MadeInv
<1>11. /\ \A d \in Creds : credential[d].row > 0 \/ credential[d].owner # None
                             => \E p \in made' : p.cred = d
       /\ \A p \in accepted : KindOf(p) = "AUTHENTICATION" /\ p \in made'
  BY <1>3 DEF MadeInv, TypeInv, TypeOK
<1>12. MadeInv'
  <2>1. \A p, q \in made' : p.cred = q.cred =>
          /\ UserOf(p)' = UserOf(q)'
          /\ KindOf(p)' = "REGISTRATION" /\ KindOf(q)' = "REGISTRATION" => p = q
    BY <1>5, <1>8
  <2>2. \A p \in made' : KindOf(p)' = "AUTHENTICATION" =>
          credential'[p.cred].row > 0 /\ (p.cred \in Counting => p.counter > 0)
    BY <1>3, <1>5, <1>9
  <2>3. \A p \in made' : credential'[p.cred].owner \in {None, UserOf(p)'}
    BY <1>3, <1>5, <1>10
  <2>4. \A p \in accepted' : KindOf(p)' = "AUTHENTICATION"
    BY <1>3, <1>5, <1>11
  <2>5. \A d \in Creds : credential'[d].row > 0 \/ credential'[d].owner # None
                           => \E p \in made' : p.cred = d
    BY <1>3, <1>11
  <2> QED
    BY <2>1, <2>2, <2>3, <2>4, <2>5 DEF MadeInv
<1> QED
  BY <1>2, <1>3, <1>7, <1>12

LEMMA MadeNext ==
  ASSUME TypeInv, MadeInv, [Next]_vars
  PROVE  MadeInv'
<1>1. RowsKept /\ TypeInv'
  BY NextTyped DEF TablesTyped
<1>2. CASE UNCHANGED <<challenge, credential, made, accepted>>
  BY <1>1, <1>2, MadeKept DEF CredentialSteps, MadeInv
<1>3. CASE UNCHANGED vars
  BY <1>2, <1>3 DEF vars, history
<1>4. CASE Restart \/ \E r \in Reqs : DbThrows(r)
  BY <1>2, <1>4, FailureStep DEF Fails, history
<1>5. ASSUME NEW r \in Reqs, Arrive(r)
      PROVE  MadeInv'
  BY <1>2, <1>5, ArriveStep
<1>6. ASSUME NEW r \in Reqs, Serve(r)
      PROVE  MadeInv'
  <2>1. CredentialWritten(r) /\ Records(r) /\ Fits(pc[r], req[r])
    BY <1>6, ServeRecords, SlotTyped
  <2>2. \A p \in accepted' : KindOf(p) = "AUTHENTICATION"
    BY <2>1 DEF Records, Fits, Verifying, MadeInv
  <2> QED
    BY <1>1, <2>1, <2>2, WrittenSteps, MadeKept DEF Records
<1>7. CASE \E i \in DOMAIN challenge, c \in Creds :
             Attest(i, c) \/ \E n \in 0..MaxSignatures : Sign(i, c, n)
  <2>1. 0 \in 0..MaxSignatures
    BY PasskeysAssumption
  <2> QED
    BY <1>7, <2>1, MadeMore
<1>8. ASSUME NEW u \in Users, NEW c \in Creds, RemoveWebauthnCredential(u, c)
      PROVE  MadeInv'
  <2>1. UNCHANGED <<challenge, made, accepted>>
    BY <1>8 DEF RemoveWebauthnCredential
  <2>2. credential[c].owner # None /\ \E p \in made : p.cred = c
    BY <1>8, PasskeysAssumption DEF RemoveWebauthnCredential, MadeInv
  <2>3. CredentialSteps
    BY <1>8, <2>2 DEF RemoveWebauthnCredential, CredentialSteps, TypeInv, TypeOK
  <2> QED
    BY <1>1, <2>1, <2>3, MadeKept DEF MadeInv
<1>9. ASSUME NEW i \in DOMAIN challenge, Expire(i)
      PROVE  MadeInv'
  BY <1>1, <1>9, MadeKept DEF Expire, history, CredentialSteps, MadeInv
<1> QED
  BY <1>3, <1>4, <1>5, <1>6, <1>7, <1>8, <1>9 DEF Next, Elsewhere

------------------------------------------------------------------------------
(* Users without overlapping requests *)

Kept(p) == challenge[p.challenge].kept
Gone(p) == challenge[p.challenge].status = "deleted" \/ Kept(p)

\* The counter of a passkey that has not been replaced has reached the response's.
Behind(p) ==
  LET row == credential[p.cred]
  IN  p.cred \in Counting /\ row.row <= 1 /\ row.owner # None => p.counter <= row.counter
Excused(p) == Kept(p) /\ (p.cred \notin Counting \/ credential[p.cred].row > 1)

\* What a response leaves behind once it has been used.
PastOK(p) ==
  /\ p \in accepted => Gone(p) /\ Behind(p)
  /\ p \in repeated => Excused(p)
  /\ KindOf(p) = "REGISTRATION" => /\ credential[p.cred].row > 0 => Gone(p)
                                   /\ credential[p.cred].row > 1 => Kept(p)

\* What a handler knows of its response at the await l, with the locals x.
SlotOK(l, x) ==
  LET p == x.response
      row == credential[p.cred]
  IN  /\ l = "find_credential" /\ p \in accepted => Kept(p)
      /\ l \in {"delete_challenge", "update_counter", "issue"} /\ p \in accepted => Excused(p)
      /\ l \in {"insert_credential", "update_counter", "issue"} => Gone(p)
      /\ l \in {"delete_challenge", "insert_credential"} /\ x.kind = "REGISTRATION" =>
           (row.row > 0 => Kept(p))
      /\ l \in {"delete_challenge", "update_counter"} /\ x.kind = "AUTHENTICATION" =>
           row.owner = x.user /\ row.row = x.row /\ row.counter <= p.counter
      /\ l = "issue" => Behind(p)

Working(r, u) == pc[r] # "idle" /\ req[r].user = u

Alone(u) == \A q, r \in Reqs : Working(q, u) /\ Working(r, u) => q = r
Past(u) == \A p \in made : UserOf(p) = u => PastOK(p)
Slots(u) == \A r \in Reqs : Working(r, u) => SlotOK(pc[r], req[r])

SerialInv == \A u \in Users \ overlapped : Alone(u) /\ Past(u) /\ Slots(u)

\* A step that leaves the user's passkeys and the use of his responses alone.
Still(u) ==
  /\ RowsKept /\ made \subseteq made'
  /\ \A p \in made : UserOf(p) = u =>
       /\ credential'[p.cred] = credential[p.cred]
       /\ (p \in accepted' <=> p \in accepted) /\ (p \in repeated' <=> p \in repeated)

LEMMA StillFacts ==
  ASSUME TypeInv, NEW u \in Users, Still(u), NEW p \in made, UserOf(p) = u
  PROVE  /\ PastOK(p) => PastOK(p)'
         /\ Kept(p) => Kept(p)'
         /\ Gone(p) => Gone(p)'
         /\ Behind(p)' = Behind(p)
         /\ Excused(p) => Excused(p)'
<1>1. /\ credential'[p.cred] = credential[p.cred] /\ KindOf(p)' = KindOf(p)
      /\ p \in accepted' <=> p \in accepted
      /\ p \in repeated' <=> p \in repeated
  BY ResponseKept DEF Still
<1>2. (Kept(p) => Kept(p)') /\ (Gone(p) => Gone(p)')
  BY ResponseKept DEF Still, Kept, Gone
<1>3. Behind(p)' = Behind(p)
  BY <1>1 DEF Behind
<1>4. Excused(p) => Excused(p)'
  BY <1>1, <1>2 DEF Excused
<1> QED
  BY <1>1, <1>2, <1>3, <1>4 DEF PastOK

LEMMA StillSlot ==
  ASSUME TypeInv, NEW u \in Users, Still(u), NEW l, NEW x, Fits(l, x), x.user = u, SlotOK(l, x)
  PROVE  SlotOK(l, x)'
<1>1. CASE l \in Verifying
  <2>1. x.response \in made /\ UserOf(x.response) = u
    BY <1>1 DEF Fits
  <2>2. /\ credential'[x.response.cred] = credential[x.response.cred]
        /\ x.response \in accepted' <=> x.response \in accepted
    BY <2>1 DEF Still
  <2> QED
    BY <2>1, <2>2, StillFacts DEF SlotOK
<1>2. CASE l \notin Verifying
  BY <1>2 DEF SlotOK, Verifying
<1> QED
  BY <1>1, <1>2

LEMMA StillPast ==
  ASSUME TypeInv, NEW u \in Users, Still(u), Past(u), UNCHANGED made
  PROVE  Past(u)'
<1> SUFFICES ASSUME NEW p \in made, UserOf(p)' = u
             PROVE  PastOK(p)'
  BY DEF Past
<1>1. UserOf(p) = u
  BY ResponseKept DEF Still
<1> QED
  BY <1>1, StillFacts DEF Past

\* Slots that stay, or go idle.
LEMMA StillSlots ==
  ASSUME TypeInv, NEW u \in Users, Still(u), Alone(u), Slots(u),
         \A q \in Reqs : \/ pc'[q] = pc[q] /\ req'[q] = req[q]
                         \/ pc'[q] = "idle"
                         \/ req'[q].user # u
  PROVE  Alone(u)' /\ Slots(u)'
<1>1. \A q \in Reqs : Working(q, u)' => Working(q, u) /\ pc'[q] = pc[q] /\ req'[q] = req[q]
  BY DEF Working
<1>2. ASSUME NEW q \in Reqs, Working(q, u)'
      PROVE  SlotOK(pc[q], req[q])'
  <2>1. PICK l, x : l = pc[q] /\ x = req[q]
    OBVIOUS
  <2>2. Fits(l, x) /\ x.user = u /\ SlotOK(l, x) /\ pc'[q] = l /\ req'[q] = x
    BY <1>1, <1>2, <2>1, SlotTyped DEF Slots, Working
  <2>3. SlotOK(l, x)'
    BY <2>2, StillSlot
  <2> QED
    BY <2>2, <2>3 DEF SlotOK
<1> QED
  BY <1>1, <1>2 DEF Alone, Slots

\* The user's only slot moves.
LEMMA MovedSlot ==
  ASSUME TypeInv, NEW u \in Users, NEW r \in Reqs, NEW l, NEW x, Moves(r, l, x),
         \A q \in Reqs : Working(q, u) => q = r,
         l = "idle" \/ SlotOK(l, x)'
  PROVE  Alone(u)' /\ Slots(u)'
<1>1. \A q \in Reqs : Working(q, u)' => q = r
  BY DEF Moves, Working
<1>2. Working(r, u)' => SlotOK(pc[r], req[r])'
  BY DEF Moves, Working, SlotOK
<1> QED
  BY <1>1, <1>2 DEF Alone, Slots

LEMMA SerialArrive ==
  ASSUME TypeInv, MadeInv, SerialInv, NEW r \in Reqs, Arrive(r)
  PROVE  SerialInv'
<1> SUFFICES ASSUME NEW u \in Users \ overlapped'
             PROVE  Alone(u)' /\ Past(u)' /\ Slots(u)'
  BY DEF SerialInv
<1>1. /\ pc[r] = "idle" /\ UNCHANGED <<challenge, credential, made, accepted, repeated>>
      /\ overlapped \subseteq overlapped'
  BY ArriveStep
<1>2. PICK l \in Labels, x \in LocalsType :
        /\ Moves(r, l, x) /\ Fits(l, x)
        /\ Busy(x.user) => x.user \in overlapped'
        /\ \/ l = "delete_old"
           \/ /\ l \in {"delete_challenge", "find_credential"}
              /\ l = "delete_challenge" => x.kind = "REGISTRATION"
              /\ challenge[x.response.challenge].status = "active"
  BY ArriveStep
<1>3. u \in Users /\ Alone(u) /\ Past(u) /\ Slots(u)
  BY <1>1 DEF SerialInv
<1>4. Still(u)
  BY <1>1, SameRows DEF Still
<1>5. Past(u)'
  BY <1>1, <1>3, <1>4, StillPast
<1>6. CASE x.user # u
  BY <1>2, <1>3, <1>4, <1>5, <1>6, StillSlots DEF Moves
<1>7. CASE x.user = u
  <2>1. \A q \in Reqs : ~Working(q, u)
    BY <1>2, <1>7 DEF Busy, Working
  <2>2. SlotOK(l, x)
    <3>1. CASE l = "delete_old"
      BY <3>1 DEF SlotOK
    <3>2. CASE l \in {"delete_challenge", "find_credential"}
      <4> DEFINE p == x.response
      <4>1. p \in made /\ UserOf(p) = u /\ KindOf(p) = x.kind
        BY <1>2, <1>7, <3>2 DEF Fits, Verifying
      <4>2. PastOK(p) /\ challenge[p.challenge].status = "active"
        BY <1>2, <1>3, <3>2, <4>1 DEF Past
      <4>3. Gone(p) => Kept(p)
        BY <4>2 DEF Gone
      <4>4. p \in accepted => KindOf(p) = "AUTHENTICATION"
        BY DEF MadeInv
      <4> QED
        BY <1>2, <3>2, <4>1, <4>2, <4>3, <4>4 DEF SlotOK, PastOK
    <3> QED
      BY <1>2, <3>1, <3>2
  <2>3. SlotOK(l, x)'
    BY <1>2, <1>3, <1>4, <1>7, <2>2, StillSlot
  <2> QED
    BY <1>2, <1>3, <1>5, <2>1, <2>3, MovedSlot
<1> QED
  BY <1>5, <1>6, <1>7

LEMMA ContinuesTo ==
  ASSUME NEW r \in Reqs, NEW l, NEW x, Continues(r, l, x)
  PROVE  \/ l = "idle"
         \/ pc[r] = "delete_old" /\ l = "create"
         \/ pc[r] = "find_credential" /\ l = "delete_challenge"
         \/ pc[r] = "delete_challenge" /\ l \in {"insert_credential", "update_counter"}
         \/ pc[r] = "update_counter" /\ l = "issue" /\ x = req[r]
<1> QED
  BY DEF Continues

\* A step of another user's slot writes no passkey and records no response of this user.
LEMMA StillServe ==
  ASSUME TypeInv, MadeInv, NEW u \in Users, NEW r \in Reqs, Serve(r),
         req[r].user # u \/ pc[r] \notin {"insert_credential", "update_counter", "issue"}
  PROVE  Still(u)
<1>1. CredentialWritten(r) /\ Records(r) /\ Fits(pc[r], req[r])
  BY ServeRecords, SlotTyped
<1>2. ASSUME NEW p \in made, UserOf(p) = u
      PROVE  /\ credential'[p.cred] = credential[p.cred]
             /\ (p \in accepted' <=> p \in accepted) /\ (p \in repeated' <=> p \in repeated)
  <2>1. CASE pc[r] \notin {"insert_credential", "update_counter", "issue"}
    BY <1>1, <2>1 DEF CredentialWritten, Records
  <2>2. CASE pc[r] \in {"insert_credential", "update_counter", "issue"} /\ req[r].user # u
    <3>1. req[r].response \in made /\ UserOf(req[r].response) # u
      BY <1>1, <2>2 DEF Fits, Verifying
    <3>2. p # req[r].response /\ p.cred # req[r].response.cred
      BY <1>2, <3>1 DEF MadeInv
    <3>3. credential \in [Creds -> CredentialType]
      BY DEF TypeInv, TypeOK, CredentialType
    <3>4. p \in accepted' <=> p \in accepted
      BY <1>1, <3>2 DEF Records
    <3>5. p \in repeated' <=> p \in repeated
      BY <1>1, <3>2 DEF Records
    <3>6. credential'[p.cred] = credential[p.cred]
      BY <1>1, <2>2, <3>2, <3>3, ResponseTyped DEF CredentialWritten
    <3> QED
      BY <3>4, <3>5, <3>6
  <2> QED
    BY <2>1, <2>2
<1> QED
  BY <1>1, <1>2 DEF Still, Records

\* Finding the passkey, deleting the challenge, and the options.
LEMMA SerialBefore ==
  ASSUME TypeInv, MadeInv, SerialInv, NEW u \in Users \ overlapped, NEW r \in Reqs, Serve(r),
         req[r].user = u, pc[r] \notin {"insert_credential", "update_counter", "issue"}
  PROVE  Alone(u)' /\ Past(u)' /\ Slots(u)'
<1>1. Records(r) /\ Fits(pc[r], req[r]) /\ pc[r] # "idle"
  BY ServeRecords, SlotTyped, ServeMoves
<1>2. PICK l \in Labels, x \in LocalsType : Moves(r, l, x) /\ Fits(l, x) /\ Continues(r, l, x)
  BY ServeMoves
<1>3. Alone(u) /\ Past(u) /\ Slots(u) /\ Still(u)
  BY StillServe DEF SerialInv
<1>4. Past(u)' /\ \A q \in Reqs : Working(q, u) => q = r
  BY <1>1, <1>3, StillPast DEF Records, Alone, Working
<1>5. PICK y : y = req[r] /\ SlotOK(pc[r], y)
  BY <1>1, <1>3 DEF Slots, Working
<1>6. CASE l \in {"idle", "create"}
  <2>1. l = "idle" \/ SlotOK(l, x)'
    BY <1>6 DEF SlotOK
  <2> QED
    BY <1>2, <1>4, <2>1, MovedSlot
<1>7. CASE pc[r] = "find_credential" /\ l = "delete_challenge"
  <2> DEFINE p == x.response
  <2>1. /\ x.user = u /\ x.kind = "AUTHENTICATION" /\ p = y.response /\ p \in made
        /\ UserOf(p) = u /\ KindOf(p) = "AUTHENTICATION" /\ credential[p.cred].owner = u
        /\ credential[p.cred].row = x.row
        /\ ~CounterStale(p.counter, credential[p.cred].counter)
    BY <1>1, <1>2, <1>5, <1>7 DEF Continues, Fits, Verifying
  <2>2. p.counter \in Nat /\ credential[p.cred].counter \in Nat /\ credential[p.cred].row \in Nat
    BY <2>1, ResponseTyped, PasskeysAssumption DEF TypeInv, TypeOK
  <2>3. credential[p.cred].counter <= p.counter
    BY <2>1, <2>2 DEF CounterStale
  <2>4. ASSUME p \in accepted
        PROVE  Excused(p)
    <3>1. Kept(p) /\ Behind(p)
      BY <1>3, <1>5, <1>7, <2>1, <2>4 DEF SlotOK, Past, PastOK
    <3>2. p.cred \in Counting => p.counter > 0
      BY <2>1 DEF MadeInv
    <3>3. u # None
      BY PasskeysAssumption
    <3> QED
      BY <2>1, <2>2, <3>1, <3>2, <3>3 DEF Excused, Behind, CounterStale
  <2>5. SlotOK(l, x)
    BY <1>7, <2>1, <2>3, <2>4 DEF SlotOK
  <2>6. SlotOK(l, x)'
    BY <1>2, <1>3, <2>1, <2>5, StillSlot
  <2> QED
    BY <1>2, <1>4, <2>6, MovedSlot
<1>8. CASE pc[r] = "delete_challenge" /\ l \in {"insert_credential", "update_counter"}
  <2> DEFINE p == x.response
  <2>1. /\ x = y /\ x.user = u /\ (l = "insert_credential" <=> x.kind = "REGISTRATION")
        /\ Fits("delete_challenge", x)
    BY <1>1, <1>2, <1>5, <1>8 DEF Continues
  <2>2. p \in made /\ SlotOK("delete_challenge", x) /\ x.kind \in Kinds /\ UserOf(p) = u
    BY <1>5, <1>8, <2>1 DEF Fits, Verifying, LocalsType
  <2>3. SlotOK("delete_challenge", x)'
    BY <1>3, <2>1, <2>2, StillSlot
  <2>4. Gone(p)'
    BY <1>1, <1>5, <1>8, <2>1 DEF Records, Gone, Kept
  <2>5. SlotOK(l, x)'
    BY <1>8, <2>1, <2>2, <2>3, <2>4 DEF SlotOK, Kinds
  <2> QED
    BY <1>2, <1>4, <2>5, MovedSlot
<1>9. \/ l \in {"idle", "create"}
      \/ pc[r] = "find_credential" /\ l = "delete_challenge"
      \/ pc[r] = "delete_challenge" /\ l \in {"insert_credential", "update_counter"}
      \/ pc[r] = "update_counter"
  BY <1>2, ContinuesTo
<1> QED
  BY <1>6, <1>7, <1>8, <1>9

\* Registering the passkey, and counting.
LEMMA SerialWrite ==
  ASSUME TypeInv, MadeInv, SerialInv, NEW u \in Users \ overlapped, NEW r \in Reqs, Serve(r),
         req[r].user = u, pc[r] \in {"insert_credential", "update_counter"}
  PROVE  Alone(u)' /\ Past(u)' /\ Slots(u)'
<1>0. PICK p, c : p = req[r].response /\ c = p.cred
  OBVIOUS
<1> DEFINE old == credential[c]
           new == credential'[c]
<1>1. Records(r) /\ CredentialWritten(r) /\ Fits(pc[r], req[r])
  BY ServeRecords, SlotTyped
<1>2. PICK l \in Labels, x \in LocalsType : Moves(r, l, x) /\ Fits(l, x) /\ Continues(r, l, x)
  BY ServeMoves
<1>3. Alone(u) /\ Past(u) /\ Slots(u)
  BY DEF SerialInv
<1>4. /\ \A q \in Reqs : Working(q, u) => q = r
      /\ SlotOK(pc[r], req[r])
  BY <1>3 DEF Alone, Slots, Working
<1>5. /\ RowsKept /\ UNCHANGED <<made, accepted, repeated>>
      /\ p \in made /\ UserOf(p) = u /\ KindOf(p) = req[r].kind /\ c \in Creds
  BY <1>0, <1>1, ResponseTyped DEF Records, Fits, Verifying
<1>6. /\ credential \in [Creds -> CredentialType] /\ old \in CredentialType
      /\ p.counter \in Nat /\ old.counter \in Nat /\ old.row \in Nat
  BY <1>5, ResponseTyped, PasskeysAssumption DEF TypeInv, TypeOK, CredentialType
<1>7. \/ new = old
      \/ pc[r] = "insert_credential" /\ old.owner = None /\ new.row = old.row + 1
      \/ pc[r] = "update_counter" /\ new.row = old.row /\ new.owner = old.owner
           /\ new.counter = p.counter
  BY <1>0, <1>1, <1>5, <1>6 DEF CredentialWritten, Credential, Counted, CredentialType
<1>8. \A d \in Creds : d # c => credential'[d] = credential[d]
  BY <1>0, <1>1, <1>5, <1>6 DEF CredentialWritten
<1>9. /\ pc[r] = "insert_credential" => Gone(p) /\ (old.row > 0 => Kept(p))
                                        /\ KindOf(p) = "REGISTRATION"
      /\ pc[r] = "update_counter" =>
           /\ Gone(p) /\ KindOf(p) = "AUTHENTICATION" /\ (p \in accepted => Excused(p))
           /\ old.owner = u /\ old.row = req[r].row /\ old.counter <= p.counter
  BY <1>0, <1>1, <1>4, <1>5 DEF SlotOK, Fits
<1>10. new.row \in Nat /\ old.row <= new.row /\ (old.owner # None => new.row = old.row)
  BY <1>6, <1>7
<1>11. ASSUME NEW q \in made, UserOf(q) = u
       PROVE  PastOK(q)'
  <2>1. PastOK(q) /\ q.cred \in Creds /\ KindOf(q) \in Kinds /\ KindOf(q)' = KindOf(q)
    BY <1>3, <1>5, <1>11, ResponseTyped, ResponseKept DEF Past
  <2>2. (Kept(q) => Kept(q)') /\ (Gone(q) => Gone(q)')
    BY <1>5, ResponseKept DEF Kept, Gone
  <2>3. CASE q.cred # c
    BY <1>5, <1>8, <2>1, <2>2, <2>3 DEF PastOK, Behind, Excused
  <2>4. CASE q.cred = c
    <3>1. q \in repeated => Excused(q)'
      BY <1>6, <1>10, <2>1, <2>2, <2>4 DEF PastOK, Excused
    <3>2. KindOf(q) = "REGISTRATION" => /\ new.row > 0 => Gone(q)
                                        /\ new.row > 1 => Kept(q)
      <4>1. CASE new.row = old.row
        BY <2>1, <2>4, <4>1 DEF PastOK
      <4>2. CASE pc[r] = "insert_credential" /\ new.row = old.row + 1
        <5>1. KindOf(q) = "REGISTRATION" => q = p
          BY <1>0, <1>5, <1>9, <2>4, <4>2 DEF MadeInv
        <5>2. Gone(p) /\ (old.row > 0 => Kept(p))
          BY <1>9, <4>2
        <5> QED
          BY <1>6, <4>2, <5>1, <5>2
      <4> QED
        BY <1>7, <4>1, <4>2
    <3>3. ASSUME q \in accepted
          PROVE  Behind(q)'
      <4>1. Behind(q) /\ old.row > 0 /\ q.counter \in Nat
        BY <2>1, <2>4, <3>3, ResponseTyped, PasskeysAssumption DEF PastOK, MadeInv
      <4> QED
        BY <1>6, <1>7, <1>9, <2>4, <4>1 DEF Behind
    <3> QED
      BY <1>5, <2>1, <2>2, <2>4, <3>1, <3>2, <3>3 DEF PastOK
  <2> QED
    BY <2>3, <2>4
<1>12. Past(u)'
  BY <1>5, <1>11, ResponseKept DEF Past
<1>13. CASE l = "idle"
  BY <1>2, <1>4, <1>12, <1>13, MovedSlot
<1>14. CASE pc[r] = "update_counter" /\ l = "issue" /\ x = req[r]
  <2>1. Gone(p)' /\ (p \in accepted => Excused(p)')
    <3>1. (Gone(p) => Gone(p)') /\ (Kept(p) => Kept(p)')
      BY <1>5, ResponseKept DEF Gone, Kept
    <3>2. Excused(p) => Excused(p)'
      BY <1>0, <1>6, <1>10, <3>1 DEF Excused
    <3> QED
      BY <1>9, <1>14, <3>1, <3>2
  <2>2. new.counter = p.counter
    BY <1>0, <1>1, <1>5, <1>6, <1>9, <1>14 DEF CredentialWritten, Counted, CredentialType
  <2>3. Behind(p)'
    BY <1>0, <1>6, <2>2 DEF Behind
  <2>4. SlotOK(l, x)'
    BY <1>0, <1>5, <1>14, <2>1, <2>3 DEF SlotOK
  <2> QED
    BY <1>2, <1>4, <1>12, <2>4, MovedSlot
<1>15. \/ l = "idle"
       \/ pc[r] = "update_counter" /\ l = "issue" /\ x = req[r]
  BY <1>2, ContinuesTo
<1> QED
  BY <1>13, <1>14, <1>15

\* Granting the sign-in.
LEMMA SerialIssue ==
  ASSUME TypeInv, MadeInv, SerialInv, NEW u \in Users \ overlapped, NEW r \in Reqs, Serve(r),
         req[r].user = u, pc[r] = "issue"
  PROVE  Alone(u)' /\ Past(u)' /\ Slots(u)'
<1>0. PICK p : p = req[r].response
  OBVIOUS
<1>1. /\ Records(r) /\ UNCHANGED credential /\ Fits("issue", req[r])
      /\ p \in made /\ UserOf(p) = u /\ KindOf(p) = "AUTHENTICATION"
  BY <1>0, ServeRecords, SlotTyped DEF CredentialWritten, Fits, Verifying
<1>2. PICK l \in Labels, x \in LocalsType : Moves(r, l, x) /\ Continues(r, l, x)
  BY ServeMoves
<1>3. Alone(u) /\ Past(u) /\ Slots(u)
  BY DEF SerialInv
<1>4. /\ \A q \in Reqs : Working(q, u) => q = r
      /\ SlotOK("issue", req[r])
  BY <1>3 DEF Alone, Slots, Working
<1>5. Gone(p) /\ Behind(p) /\ (p \in accepted => Excused(p))
  BY <1>0, <1>4 DEF SlotOK
<1>6. /\ accepted' = accepted \cup {p} /\ repeated' = repeated \cup ({p} \cap accepted)
      /\ RowsKept /\ UNCHANGED made
  BY <1>0, <1>1 DEF Records
<1>7. ASSUME NEW q \in made, UserOf(q)' = u
      PROVE  PastOK(q)'
  <2>1. PastOK(q) /\ KindOf(q)' = KindOf(q)
    BY <1>3, <1>6, <1>7, ResponseKept DEF Past
  <2>2. (Kept(q) => Kept(q)') /\ (Gone(q) => Gone(q)')
    BY <1>6, ResponseKept DEF Kept, Gone
  <2>3. Behind(q)' = Behind(q) /\ (Excused(q) => Excused(q)')
    BY <1>1, <2>2 DEF Behind, Excused
  <2>4. /\ q \in accepted' => Gone(q) /\ Behind(q)
        /\ q \in repeated' => Excused(q)
    BY <1>5, <1>6, <2>1 DEF PastOK
  <2> QED
    BY <1>1, <2>1, <2>2, <2>3, <2>4 DEF PastOK
<1>8. Past(u)'
  BY <1>6, <1>7 DEF Past
<1>9. l = "idle"
  BY <1>2, ContinuesTo
<1> QED
  BY <1>2, <1>4, <1>8, <1>9, MovedSlot

LEMMA SerialServe ==
  ASSUME TypeInv, MadeInv, SerialInv, NEW r \in Reqs, Serve(r)
  PROVE  SerialInv'
<1>1. overlapped' = overlapped /\ made' = made
  BY ServeRecords DEF Records
<1> SUFFICES ASSUME NEW u \in Users \ overlapped
             PROVE  Alone(u)' /\ Past(u)' /\ Slots(u)'
  BY <1>1 DEF SerialInv
<1>2. CASE req[r].user = u
  BY <1>2, SerialBefore, SerialWrite, SerialIssue
<1>3. CASE req[r].user # u
  <2>1. Still(u)
    BY <1>3, StillServe
  <2>2. PICK l \in Labels, x \in LocalsType : Moves(r, l, x) /\ Continues(r, l, x)
    BY ServeMoves
  <2>3. l = "idle" \/ x.user = req[r].user
    BY <2>2 DEF Continues
  <2>4. \A q \in Reqs : \/ pc'[q] = pc[q] /\ req'[q] = req[q]
                        \/ pc'[q] = "idle"
                        \/ req'[q].user # u
    BY <1>3, <2>2, <2>3 DEF Moves
  <2> QED
    BY <1>1, <2>1, <2>4, StillPast, StillSlots DEF SerialInv
<1> QED
  BY <1>2, <1>3

\* Slots and the use of responses stay, or slots go idle.
LEMMA SerialStill ==
  ASSUME TypeInv, SerialInv, RowsKept, UNCHANGED <<credential, made, accepted, repeated>>,
         overlapped \subseteq overlapped',
         \A q \in Reqs : \/ pc'[q] = pc[q] /\ req'[q] = req[q]
                         \/ pc'[q] = "idle"
  PROVE  SerialInv'
<1> SUFFICES ASSUME NEW u \in Users \ overlapped'
             PROVE  Alone(u)' /\ Past(u)' /\ Slots(u)'
  BY DEF SerialInv
<1>1. u \in Users /\ Alone(u) /\ Past(u) /\ Slots(u)
  BY DEF SerialInv
<1>2. Still(u)
  BY DEF Still
<1> QED
  BY <1>1, <1>2, StillPast, StillSlots

LEMMA SerialRespond ==
  ASSUME TypeInv, MadeInv, SerialInv, NEW i \in DOMAIN challenge, NEW c \in Creds,
         NEW n \in 0..MaxSignatures, Attest(i, c) \/ Sign(i, c, n)
  PROVE  SerialInv'
<1>1. PICK new : /\ made' = made \cup {new} /\ new.cred = c
                 /\ \/ \A p \in made : p.cred # c
                    \/ KindOf(new) = "AUTHENTICATION"
  BY MadeMore
<1>2. /\ UNCHANGED <<challenge, credential, pc, req, accepted, repeated, overlapped>>
      /\ accepted \subseteq made /\ repeated \subseteq accepted
  BY DEF Attest, Sign, Respond, TypeInv, TypeOK
<1> SUFFICES ASSUME NEW u \in Users \ overlapped
             PROVE  Alone(u)' /\ Past(u)' /\ Slots(u)'
  BY <1>2 DEF SerialInv
<1>3. Alone(u) /\ Past(u) /\ Slots(u)
  BY DEF SerialInv
<1>4. Still(u)
  BY <1>1, <1>2, SameRows DEF Still
<1>5. Alone(u)' /\ Slots(u)'
  BY <1>2, <1>3, <1>4, StillSlots
<1>6. ASSUME NEW p \in made', UserOf(p)' = u
      PROVE  PastOK(p)'
  <2>1. CASE p \in made
    <3>1. UserOf(p) = u
      BY <1>2, <1>6 DEF UserOf
    <3> QED
      BY <1>3, <1>4, <2>1, <3>1, StillFacts DEF Past
  <2>2. CASE p \notin made
    <3>1. p = new /\ p \notin accepted' /\ p \notin repeated'
      BY <1>1, <1>2, <2>2
    <3>2. KindOf(p)' = KindOf(p) /\ credential' = credential
      BY <1>2 DEF KindOf
    <3>3. KindOf(p) = "REGISTRATION" => ~(credential[c].row > 0)
      BY <1>1, <3>1 DEF MadeInv
    <3>4. KindOf(p) = "REGISTRATION" => ~(credential[c].row > 1)
      <4>1. credential[c].row \in Nat
        BY DEF TypeInv, TypeOK
      <4> QED
        BY <3>3, <4>1
    <3> QED
      BY <1>1, <3>1, <3>2, <3>3, <3>4 DEF PastOK
  <2> QED
    BY <2>1, <2>2
<1> QED
  BY <1>5, <1>6 DEF Past

LEMMA SerialRemove ==
  ASSUME TypeInv, MadeInv, SerialInv, NEW v \in Users, NEW c \in Creds,
         RemoveWebauthnCredential(v, c)
  PROVE  SerialInv'
<1>1. /\ UNCHANGED <<challenge, pc, req, made, accepted, repeated>>
      /\ credential[c].owner = v /\ overlapped \subseteq overlapped'
      /\ Busy(v) => v \in overlapped'
      /\ \A d \in Creds : d # c => credential'[d] = credential[d]
      /\ credential'[c].owner = None /\ credential'[c].row = credential[c].row
  BY DEF RemoveWebauthnCredential, NoteOverlap, TypeInv, TypeOK
<1> SUFFICES ASSUME NEW u \in Users \ overlapped'
             PROVE  Alone(u)' /\ Past(u)' /\ Slots(u)'
  BY DEF SerialInv
<1>2. u \in Users /\ Alone(u) /\ Past(u) /\ Slots(u)
  BY <1>1 DEF SerialInv
<1>3. CASE u # v
  <2>1. \A p \in made : UserOf(p) = u => p.cred # c
    BY <1>1, <1>3, PasskeysAssumption DEF MadeInv
  <2>2. Still(u)
    BY <1>1, <2>1, SameRows, ResponseTyped DEF Still
  <2> QED
    BY <1>1, <1>2, <2>2, StillPast, StillSlots
<1>4. CASE u = v
  <2>1. \A q \in Reqs : ~Working(q, u)'
    BY <1>1, <1>4 DEF Busy, Working
  <2>2. ASSUME NEW p \in made, UserOf(p)' = u
        PROVE  PastOK(p)'
    <3>1. PastOK(p) /\ KindOf(p)' = KindOf(p) /\ p.cred \in Creds
      BY <1>1, <1>2, <2>2, ResponseTyped DEF Past, UserOf, KindOf
    <3>2. (Kept(p)' <=> Kept(p)) /\ (Gone(p)' <=> Gone(p))
      BY <1>1 DEF Kept, Gone
    <3>3. credential'[p.cred].row = credential[p.cred].row /\ (Behind(p) => Behind(p)')
      BY <1>1, <3>1 DEF Behind
    <3>4. Excused(p) => Excused(p)'
      BY <3>2, <3>3 DEF Excused
    <3> QED
      BY <1>1, <3>1, <3>2, <3>3, <3>4 DEF PastOK
  <2> QED
    BY <1>1, <2>1, <2>2 DEF Alone, Past, Slots
<1> QED
  BY <1>3, <1>4

LEMMA SerialNext ==
  ASSUME TypeInv, MadeInv, SerialInv, [Next]_vars
  PROVE  SerialInv'
<1>1. RowsKept
  BY NextTyped DEF TablesTyped
<1>2. CASE UNCHANGED vars
  BY <1>1, <1>2, SerialStill DEF vars, history
<1>3. CASE Restart \/ \E r \in Reqs : DbThrows(r)
  <2>1. PICK drop \in SUBSET Reqs : Fails(drop)
    BY <1>3, FailureStep
  <2> QED
    BY <1>1, <2>1, SerialStill DEF Fails, history
<1>4. ASSUME NEW i \in DOMAIN challenge, Expire(i)
      PROVE  SerialInv'
  BY <1>1, <1>4, SerialStill DEF Expire, history
<1>5. CASE \E i \in DOMAIN challenge, c \in Creds :
             Attest(i, c) \/ \E n \in 0..MaxSignatures : Sign(i, c, n)
  <2>1. 0 \in 0..MaxSignatures
    BY PasskeysAssumption
  <2> QED
    BY <1>5, <2>1, SerialRespond
<1> QED
  BY <1>2, <1>3, <1>4, <1>5, SerialArrive, SerialServe, SerialRemove DEF Next, Elsewhere

LEMMA SerialInvariant == Spec => [](MadeInv /\ SerialInv)
<1>1. Init => MadeInv /\ SerialInv
  BY DEF Init, MadeInv, SerialInv, Alone, Past, Slots, Working, NoCredential, Credential
<1>2. TypeInv /\ (MadeInv /\ SerialInv) /\ [Next]_vars => (MadeInv /\ SerialInv)'
  BY MadeNext, SerialNext
<1> QED
  BY <1>1, <1>2, TypeInvariant, PTL DEF Spec

\* A passkey that its user removed does not come back by its registration response, unless
\* requests overlap or deleting the challenge failed.
THEOREM StaysRemoved == Spec => []RemovedForGood
<1>1. TypeInv /\ SerialInv => RemovedForGood
  BY ResponseTyped DEF SerialInv, Past, PastOK, Kept, RemovedForGood
<1> QED
  BY <1>1, TypeInvariant, SerialInvariant, PTL

------------------------------------------------------------------------------
(* A challenge that was deleted is not found again *)

\* As long as no two sign-ins verify p at once and deleting its challenge does not fail, one
\* sign-in verifies p at a time, and once it is past the deletion nobody finds the challenge.
OnceOK(p) ==
  p \notin contested /\ ~Kept(p) =>
    /\ \A q, r \in Reqs : Verified(p, q) /\ Verified(p, r) => q = r
    /\ \A r \in Reqs :
         Verified(p, r) /\ pc[r] \in {"update_counter", "issue"}
         => challenge[p.challenge].status # "active"
    /\ p \in accepted => /\ challenge[p.challenge].status # "active"
                         /\ \A r \in Reqs : ~Verified(p, r)
    /\ p \notin repeated

OnceInv == \A p \in made : OnceOK(p)

LEMMA OnceFrame ==
  ASSUME TypeInv, RowsKept, NEW p \in made, OnceOK(p), contested \subseteq contested',
         (p \in accepted' <=> p \in accepted) /\ (p \in repeated' <=> p \in repeated),
         \A r \in Reqs : Verified(p, r)' =>
           /\ Verified(p, r)
           /\ pc'[r] \in {"update_counter", "issue"} =>
                \/ pc[r] \in {"update_counter", "issue"}
                \/ challenge'[p.challenge].status = "deleted" \/ challenge'[p.challenge].kept
  PROVE  OnceOK(p)'
<1>1. p.challenge \in DOMAIN challenge
  BY ResponseTyped
<1>2. /\ challenge'[p.challenge].status = "active" => challenge[p.challenge].status = "active"
      /\ Kept(p) => Kept(p)'
  BY <1>1 DEF RowsKept, RowKept, Kept
<1> SUFFICES ASSUME p \notin contested', ~Kept(p)'
             PROVE  /\ \A q, r \in Reqs : Verified(p, q)' /\ Verified(p, r)' => q = r
                    /\ \A r \in Reqs :
                         Verified(p, r)' /\ pc'[r] \in {"update_counter", "issue"}
                         => challenge'[p.challenge].status # "active"
                    /\ p \in accepted' => /\ challenge'[p.challenge].status # "active"
                                          /\ \A r \in Reqs : ~Verified(p, r)'
                    /\ p \notin repeated'
  BY DEF OnceOK
<1>3. p \notin contested /\ ~Kept(p)
  BY <1>2
<1>4. ~challenge'[p.challenge].kept
  BY DEF Kept
<1>5. ASSUME NEW r \in Reqs, Verified(p, r)', pc'[r] \in {"update_counter", "issue"}
      PROVE  challenge'[p.challenge].status # "active"
  BY <1>2, <1>3, <1>4, <1>5 DEF OnceOK
<1> QED
  BY <1>2, <1>3, <1>5 DEF OnceOK

\* Slots stay, or go idle.
LEMMA OnceStill ==
  ASSUME TypeInv, OnceInv, RowsKept, UNCHANGED <<made, accepted, repeated, contested>>,
         \A r \in Reqs : (pc'[r] = pc[r] /\ req'[r] = req[r]) \/ pc'[r] = "idle"
  PROVE  OnceInv'
<1> SUFFICES ASSUME NEW p \in made
             PROVE  OnceOK(p)'
  BY DEF OnceInv
<1>1. \A r \in Reqs : Verified(p, r)' => Verified(p, r) /\ pc'[r] = pc[r]
  BY LabelsTyped DEF Verified
<1> QED
  BY <1>1, OnceFrame DEF OnceInv

LEMMA OnceArrive ==
  ASSUME TypeInv, OnceInv, NEW r \in Reqs, Arrive(r)
  PROVE  OnceInv'
<1>1. /\ pc[r] = "idle" /\ UNCHANGED <<challenge, made, accepted, repeated>>
      /\ contested \subseteq contested'
  BY ArriveStep
<1>2. PICK l \in Labels, x \in LocalsType :
        /\ Moves(r, l, x)
        /\ (\E s \in Reqs : Verified(x.response, s)) => x.response \in contested'
        /\ \/ l = "delete_old"
           \/ /\ l \in {"delete_challenge", "find_credential"}
              /\ challenge[x.response.challenge].status = "active"
  BY ArriveStep
<1> SUFFICES ASSUME NEW p \in made
             PROVE  OnceOK(p)'
  BY <1>1 DEF OnceInv
<1>3. \A q \in Reqs : q # r => (Verified(p, q)' <=> Verified(p, q)) /\ pc'[q] = pc[q]
  BY <1>2 DEF Moves, Verified
<1>4. OnceOK(p) /\ RowsKept
  BY <1>1, SameRows DEF OnceInv
<1>5. CASE ~Verified(p, r)'
  BY <1>1, <1>3, <1>4, <1>5, OnceFrame
<1>6. CASE Verified(p, r)'
  <2>1. l # "delete_old" /\ x.response = p /\ pc'[r] = l
    BY <1>2, <1>6, LabelsTyped DEF Moves, Verified
  <2>2. challenge[p.challenge].status = "active" /\ pc'[r] \notin {"update_counter", "issue"}
    BY <1>2, <2>1
  <2> SUFFICES ASSUME p \notin contested', ~Kept(p)'
               PROVE  OnceOK(p)'
    BY DEF OnceOK
  <2>3. \A s \in Reqs : ~Verified(p, s)
    BY <1>2, <2>1
  <2>4. p \notin contested /\ ~Kept(p)
    BY <1>1 DEF Kept
  <2>5. p \notin accepted /\ p \notin repeated
    BY <1>4, <2>2, <2>4 DEF OnceOK
  <2> QED
    BY <1>1, <1>3, <2>2, <2>3, <2>5 DEF OnceOK
<1> QED
  BY <1>5, <1>6

LEMMA OnceServe ==
  ASSUME TypeInv, OnceInv, NEW r \in Reqs, Serve(r)
  PROVE  OnceInv'
<1>1. Records(r) /\ RowsKept /\ UNCHANGED <<made, contested>> /\ Fits(pc[r], req[r])
  BY ServeRecords, SlotTyped DEF Records
<1>2. PICK l \in Labels, x \in LocalsType : Moves(r, l, x) /\ Continues(r, l, x)
  BY ServeMoves
<1> SUFFICES ASSUME NEW p \in made
             PROVE  OnceOK(p)'
  BY <1>1 DEF OnceInv
<1>3. OnceOK(p)
  BY DEF OnceInv
<1>4. \A q \in Reqs : q # r => (Verified(p, q)' <=> Verified(p, q)) /\ pc'[q] = pc[q]
  BY <1>2 DEF Moves, Verified
<1>5. CASE pc[r] = "issue" /\ p = req[r].response
  <2>1. ~Verified(p, r)' /\ Verified(p, r)
    <3>1. l = "idle"
      BY <1>2, <1>5, ContinuesTo
    <3> QED
      BY <1>1, <1>2, <1>5, <3>1, LabelsTyped DEF Moves, Verified, Fits, Verifying
  <2>2. accepted' = accepted \cup {p} /\ repeated' = repeated \cup ({p} \cap accepted)
    BY <1>1, <1>5 DEF Records
  <2> SUFFICES ASSUME p \notin contested', ~Kept(p)'
               PROVE  OnceOK(p)'
    BY DEF OnceOK
  <2>3. /\ p \notin contested /\ ~Kept(p)
        /\ challenge'[p.challenge].status = "active" => challenge[p.challenge].status = "active"
    BY <1>1, ResponseTyped DEF RowsKept, RowKept, Kept
  <2>4. /\ p \notin accepted /\ p \notin repeated
        /\ challenge[p.challenge].status # "active"
        /\ \A q \in Reqs : Verified(p, q) => q = r
    BY <1>3, <1>5, <2>1, <2>3 DEF OnceOK
  <2> QED
    BY <1>4, <2>1, <2>2, <2>3, <2>4 DEF OnceOK
<1>6. CASE ~(pc[r] = "issue" /\ p = req[r].response)
  <2>1. (p \in accepted' <=> p \in accepted) /\ (p \in repeated' <=> p \in repeated)
    BY <1>1, <1>6 DEF Records
  <2>2. ASSUME Verified(p, r)'
        PROVE  /\ Verified(p, r)
               /\ pc'[r] \in {"update_counter", "issue"} =>
                    \/ pc[r] \in {"update_counter", "issue"}
                    \/ challenge'[p.challenge].status = "deleted"
                    \/ challenge'[p.challenge].kept
    <3>1. l \in Verifying /\ x.kind = "AUTHENTICATION" /\ x.response = p /\ pc'[r] = l
      BY <1>2, <2>2 DEF Moves, Verified
    <3>2. CASE pc[r] = "find_credential" /\ l = "delete_challenge"
      BY <1>2, <3>1, <3>2 DEF Continues, Verified, Verifying
    <3>3. CASE pc[r] = "delete_challenge" /\ x = req[r]
      BY <1>1, <3>1, <3>3 DEF Records, Verified, Verifying
    <3>4. CASE pc[r] = "update_counter" /\ x = req[r]
      BY <3>1, <3>4 DEF Verified, Verifying
    <3> QED
      BY <1>2, <3>1, <3>2, <3>3, <3>4, LabelsTyped DEF Continues
  <2> QED
    BY <1>1, <1>3, <1>4, <2>1, <2>2, OnceFrame
<1> QED
  BY <1>5, <1>6

LEMMA OnceRespond ==
  ASSUME TypeInv, MadeInv, OnceInv, NEW i \in DOMAIN challenge, NEW c \in Creds,
         NEW n \in 0..MaxSignatures, Attest(i, c) \/ Sign(i, c, n)
  PROVE  OnceInv'
<1>1. PICK new : made' = made \cup {new}
  BY MadeMore
<1>2. /\ UNCHANGED <<challenge, pc, req, accepted, repeated, contested>>
      /\ accepted \subseteq made /\ repeated \subseteq accepted
  BY DEF Attest, Sign, Respond, TypeInv, TypeOK
<1>3. \A p, r : (Verified(p, r)' <=> Verified(p, r)) /\ (Kept(p)' <=> Kept(p))
  BY <1>2 DEF Verified, Kept
<1>4. ASSUME NEW p \in made
      PROVE  OnceOK(p)'
  BY <1>2, <1>3, <1>4 DEF OnceInv, OnceOK
<1>5. ASSUME NEW p, p \notin made
      PROVE  OnceOK(p)'
  <2>1. \A r \in Reqs : ~Verified(p, r)
    BY <1>5, SlotTyped DEF Verified, Fits
  <2> QED
    BY <1>2, <1>3, <1>5, <2>1 DEF OnceOK
<1> QED
  BY <1>4, <1>5 DEF OnceInv

LEMMA OnceNext ==
  ASSUME TypeInv, MadeInv, OnceInv, [Next]_vars
  PROVE  OnceInv'
<1>1. RowsKept
  BY NextTyped DEF TablesTyped
<1>2. CASE UNCHANGED vars
  BY <1>1, <1>2, OnceStill DEF vars, history
<1>3. CASE Restart \/ \E r \in Reqs : DbThrows(r)
  <2>1. PICK drop \in SUBSET Reqs : Fails(drop)
    BY <1>3, FailureStep
  <2> QED
    BY <1>1, <2>1, OnceStill DEF Fails, history
<1>4. CASE \E i \in DOMAIN challenge : Expire(i)
  BY <1>1, <1>4, OnceStill DEF Expire, history
<1>5. CASE \E u \in Users, c \in Creds : RemoveWebauthnCredential(u, c)
  BY <1>1, <1>5, OnceStill DEF RemoveWebauthnCredential
<1>6. CASE \E i \in DOMAIN challenge, c \in Creds :
             Attest(i, c) \/ \E n \in 0..MaxSignatures : Sign(i, c, n)
  <2>1. 0 \in 0..MaxSignatures
    BY PasskeysAssumption
  <2> QED
    BY <1>6, <2>1, OnceRespond
<1> QED
  BY <1>2, <1>3, <1>4, <1>5, <1>6, OnceArrive, OnceServe DEF Next, Elsewhere

\* A passkey response signs in once, unless two sign-ins verify it at once, or deleting its
\* challenge failed and requests overlap, or the passkey does not count or has been replaced.
THEOREM AcceptedOnce == Spec => []ResponseOnce
<1>1. TypeInv /\ SerialInv /\ OnceInv => ResponseOnce
  <2> SUFFICES ASSUME TypeInv, SerialInv, OnceInv, NEW p \in repeated, p \notin contested
               PROVE  Kept(p) /\ (UserOf(p) \in overlapped \/ Excused(p))
    BY DEF ResponseOnce, Excused, Kept
  <2>1. p \in made
    BY DEF TypeInv, TypeOK
  <2>2. Kept(p)
    BY <2>1 DEF OnceInv, OnceOK
  <2>3. CASE UserOf(p) \notin overlapped
    BY <2>1, <2>3, ResponseTyped DEF SerialInv, Past, PastOK, Excused
  <2> QED
    BY <2>2, <2>3
<1>2. Init => OnceInv
  BY DEF Init, OnceInv
<1>3. TypeInv /\ (MadeInv /\ SerialInv) /\ OnceInv /\ [Next]_vars => OnceInv'
  BY OnceNext
<1> QED
  BY <1>1, <1>2, <1>3, TypeInvariant, SerialInvariant, PTL DEF Spec
=============================================================================
