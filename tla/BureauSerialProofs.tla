-------------------------- MODULE BureauSerialProofs --------------------------
(***************************************************************************)
(* For clients that wait for each answer (Serial), BureauConnection        *)
(* implements BureauWizard, for every number of users, connections and     *)
(* keys and every bound on faults and restarts.                            *)
(***************************************************************************)
EXTENDS BureauConnectionProofs

\* The state a connection is in while a handler that waits at label l works on it.
Fits(l, s) ==
  /\ l = "write_identity" => s = "AWAITING_IDENTITY"
  /\ l = "write_address" => s = "AWAITING_ADDRESS"
  /\ l \in {"create_consent", "ensure_jobs", "await_user", "write_kiq"} => s = "AWAITING_CONSENT"
  /\ l = "await_answers" => s = "AWAITING_EXPERIAN_KIQ"
  /\ l \in {"write_token", "reject_conn"} => s \in {"AWAITING_CONSENT", "AWAITING_EXPERIAN_KIQ"}
  /\ l \in {"mark_poll", "undecrypt_conn", "start_job", "await_report", "insert_score",
            "complete_job", "complete_conn", "fail_job", "fail_conn"} => s = "PROCESSING"

\* A handler works on a connection of its user, which is in the state it was loaded in; a
\* handler about to create one found no other in progress and there still is none.
SerialLocal(r) ==
  /\ pc[r] \notin {"idle", "create"} =>
       /\ conn[req[r].conn].owner = UserOf[r]
       /\ Fits(pc[r], conn[req[r].conn].state)
  /\ pc[r] = "create" => \A c \in Conns : conn[c].owner = UserOf[r] => conn[c].state \notin NonTerminal

SerialInv ==
  /\ \A c \in Conns : conn[c].state = "ABSENT" <=> conn[c].owner = None
  /\ \A r \in Reqs : SerialLocal(r)

\* A handler's write touches no connection of another handler.
LEMMA SerialWrite ==
  ASSUME Serial, TypeInv, SerialInv, NEW r \in Reqs, NEW c \in Conns, NEW row \in Row,
         row.owner = UserOf[r], row.state # "ABSENT", conn[c].owner \in {UserOf[r], None},
         conn' = [conn EXCEPT ![c] = row] \/ conn' = conn,
         NEW l \in Labels \ {"create"}, pc' = [pc EXCEPT ![r] = l],
         \A q \in Reqs : q # r => req'[q] = req[q],
         l # "idle" => /\ req'[r].conn \in Conns
                       /\ conn'[req'[r].conn].owner = UserOf[r]
                       /\ Fits(l, conn'[req'[r].conn].state)
  PROVE  SerialInv'
<1>a. \A q \in Reqs : UserOf[q] # None
  BY BureauAssumption
<1>b. \A q \in Reqs : q # r => UserOf[q] # UserOf[r]
  BY DEF Serial
<1>0. /\ conn \in [Conns -> Row] /\ pc \in [Reqs -> Labels]
      /\ \A q \in Reqs : pc[q] \notin {"idle", "create"} => req[q].conn \in Conns
      /\ \A d \in Conns : conn[d].state = "ABSENT" <=> conn[d].owner = None
      /\ \A q \in Reqs : SerialLocal(q)
  BY DEF TypeInv, SlotsOK, TablesOK, SerialInv
<1>1. \A d \in Conns : conn'[d] = conn[d] \/ (d = c /\ conn'[d] = row)
  BY <1>0
<1>2. \A d \in Conns : conn'[d].state = "ABSENT" <=> conn'[d].owner = None
  BY <1>0, <1>1, <1>a
<1>3. ASSUME NEW q \in Reqs PROVE SerialLocal(q)'
  <2>1. CASE q = r
    BY <1>0, <2>1 DEF SerialLocal
  <2>2. CASE q # r
    <3>1. pc'[q] = pc[q] /\ req'[q] = req[q] /\ UserOf[q] # UserOf[r] /\ UserOf[q] # None
      BY <1>0, <1>a, <1>b, <2>2
    <3>2. pc[q] \notin {"idle", "create"} => conn'[req[q].conn] = conn[req[q].conn]
      BY <1>0, <1>1, <3>1 DEF SerialLocal
    <3>3. \A d \in Conns : conn'[d].owner = UserOf[q] => conn'[d] = conn[d]
      BY <1>1, <3>1
    <3> QED
      BY <1>0, <3>1, <3>2, <3>3 DEF SerialLocal
  <2> QED
    BY <2>1, <2>2
<1> QED
  BY <1>2, <1>3 DEF SerialInv

\* A handler that only moves keeps its connection's state fitting.
LEMMA SerialMove ==
  ASSUME TypeInv, SerialInv, NEW r \in Reqs, conn' = conn,
         NEW l \in Labels, pc' = [pc EXCEPT ![r] = l],
         \A q \in Reqs : q # r => req'[q] = req[q],
         l \notin {"idle", "create"} => /\ conn[req'[r].conn].owner = UserOf[r]
                                        /\ Fits(l, conn[req'[r].conn].state),
         l = "create" => \A c \in Conns : conn[c].owner = UserOf[r] => conn[c].state \notin NonTerminal
  PROVE  SerialInv'
<1>0. /\ pc \in [Reqs -> Labels]
      /\ \A d \in Conns : conn[d].state = "ABSENT" <=> conn[d].owner = None
      /\ \A q \in Reqs : SerialLocal(q)
  BY DEF TypeInv, SlotsOK, SerialInv
<1>1. ASSUME NEW q \in Reqs PROVE SerialLocal(q)'
  <2>1. CASE q = r
    BY <1>0, <2>1 DEF SerialLocal
  <2>2. CASE q # r
    BY <1>0, <2>2 DEF SerialLocal
  <2> QED
    BY <2>1, <2>2
<1> QED
  BY <1>0, <1>1 DEF SerialInv

\* The stage map of a step that writes one row, or none.
LEMMA WizardWrite ==
  ASSUME TypeInv, NEW c \in Conns, NEW row \in Row, row.owner = conn[c].owner,
         row.state = conn[c].state \/ row.state \in Wizard!Steps[conn[c].state],
         row.state \in NonTerminal \cup Terminal \/ row.state = conn[c].state,
         conn' = [conn EXCEPT ![c] = row] \/ conn' = conn
  PROVE  [Wizard!Next]_(Wizard!wizard)
<1>0. conn \in [Conns -> Row]
  BY DEF TypeInv, TablesOK
<1>1. CASE conn' = conn
  BY <1>1 DEF Wizard!wizard
<1>2. CASE conn' = [conn EXCEPT ![c] = row]
  <2>1. /\ [d \in Conns |-> conn'[d].state] = [[d \in Conns |-> conn[d].state] EXCEPT ![c] = row.state]
        /\ [d \in Conns |-> conn'[d].owner] = [d \in Conns |-> conn[d].owner]
    BY <1>0, <1>2
  <2>2. CASE row.state = conn[c].state
    <3>1. [d \in Conns |-> conn'[d].state] = [d \in Conns |-> conn[d].state]
      BY <1>0, <2>1, <2>2
    <3> QED
      BY <2>1, <3>1 DEF Wizard!wizard
  <2>3. CASE row.state # conn[c].state
    <3>1. row.state \in Wizard!Active \cup {"COMPLETE", "FAILED"}
      BY <2>3 DEF Wizard!Active, NonTerminal, Terminal
    <3>2. Wizard!Step(c, row.state)
      BY <1>0, <2>1, <2>3 DEF Wizard!Step
    <3> QED
      BY <3>1, <3>2 DEF Wizard!Next
  <2> QED
    BY <2>2, <2>3
<1> QED
  BY <1>1, <1>2

\* A step that leaves the connections alone is a stutter of the wizard.
LEMMA WizardStutter == conn' = conn => [Wizard!Next]_(Wizard!wizard)
  BY DEF Wizard!wizard

\* The first stretch of a request.
LEMMA ArriveSerial ==
  ASSUME TypeInv, SerialInv, NEW r \in Reqs, Arrive(r)
  PROVE  SerialInv' /\ [Wizard!Next]_(Wizard!wizard)
<1>0. conn' = conn
  BY DEF Arrive, StartConnection, SubmitIdentity, SubmitAddress, SubmitConsent, SubmitKiqAnswers,
     GetConnectionStatus, OnlyMoves, tables
<1> SUFFICES SerialInv'
  BY <1>0, WizardStutter
<1>1. ASSUME NEW op \in {"identity", "address", "consent", "kiq", "status"}, NEW c \in Conns,
             NEW l \in Labels \ {"idle", "create"}, Begin(r, op, c, l),
             conn[c].owner = UserOf[r], Fits(l, conn[c].state)
      PROVE  SerialInv'
  BY <1>0, <1>1, MovesLocal, SerialMove
<1>2. CASE StartConnection(r)
  <2>1. "create" \in Labels
    BY DEF Labels, DbAwaits
  <2>2. \A c \in Conns : conn[c].owner = UserOf[r] => conn[c].state \notin NonTerminal
    BY <1>2 DEF StartConnection, ActiveFor
  <2>3. pc' = [pc EXCEPT ![r] = "create"] /\ \A q \in Reqs : q # r => req'[q] = req[q]
    BY <1>2, <2>1, MovesLocal DEF StartConnection
  <2> QED
    BY <1>0, <2>1, <2>2, <2>3, SerialMove
<1>3. ASSUME NEW c \in Conns, SubmitIdentity(r, c) \/ SubmitAddress(r, c) \/ SubmitConsent(r, c)
      PROVE  SerialInv'
  BY <1>1, <1>3 DEF SubmitIdentity, SubmitAddress, SubmitConsent, LoadedIn, Fits, Labels, DbAwaits
<1>4. ASSUME NEW c \in Conns, SubmitKiqAnswers(r, c) \/ GetConnectionStatus(r, c)
      PROVE  SerialInv'
  BY <1>1, <1>4 DEF SubmitKiqAnswers, GetConnectionStatus, LoadedIn, Fits, Labels, DbAwaits
<1> QED
  BY <1>2, <1>3, <1>4 DEF Arrive

\* Handlers that leave the connections alone.
LEMMA ServeSerial ==
  ASSUME TypeInv, SerialInv, NEW r \in Reqs,
         \/ CreateConsent(r) \/ EnsurePullJobs(r) \/ UserReply(r) \/ AnswersReply(r)
         \/ RejectJob(r) \/ PullLoad(r) \/ UndecryptJob(r) \/ StartJob(r) \/ ReportReply(r)
         \/ InsertScore(r) \/ CompleteJob(r) \/ FailJob(r) \/ FreshRead(r) \/ ReplyStatus(r)
         \/ DbThrows(r)
  PROVE  SerialInv' /\ [Wizard!Next]_(Wizard!wizard)
<1> DEFINE c == req[r].conn
<1>0. conn' = conn
  BY DEF CreateConsent, EnsurePullJobs, UserReply, AnswersReply, RejectJob, PullLoad, UndecryptJob,
     StartJob, ReportReply, InsertScore, CompleteJob, FailJob, FreshRead, ReplyStatus, DbThrows,
     OnlyMoves, JobWritten, tables
<1> SUFFICES SerialInv'
  BY <1>0, WizardStutter
<1>1. /\ req \in [Reqs -> Req]
      /\ pc[r] \notin {"idle", "create"} => conn[c].owner = UserOf[r] /\ Fits(pc[r], conn[c].state)
  BY DEF TypeInv, SlotsOK, SerialInv, SerialLocal
<1>2. ASSUME NEW l \in Labels \ {"idle", "create"}, Goto(r, l), pc[r] \notin {"idle", "create"},
             Fits(l, conn[c].state)
      PROVE  SerialInv'
  <2>1. pc' = [pc EXCEPT ![r] = l] /\ req' = req /\ req'[r].conn = c
    BY <1>2, MovesLocal
  <2> HIDE DEF c
  <2> QED
    BY <1>0, <1>1, <1>2, <2>1, SerialMove
<1>3. Finish(r) => SerialInv'
  <2>1. "idle" \in Labels
    BY DEF Labels
  <2> QED
    BY <1>0, <2>1, MovesLocal, SerialMove
<1>4. ASSUME NEW l \in {"mark_poll", "list_jobs"}, pc' = [pc EXCEPT ![r] = l],
             \A q \in Reqs : q # r => req'[q] = req[q], req'[r].conn = c,
             pc[r] \notin {"idle", "create"}, Fits(l, conn[c].state)
      PROVE  SerialInv'
  <2>1. l \in Labels
    BY DEF Labels, DbAwaits
  <2> HIDE DEF c
  <2> QED
    BY <1>0, <1>1, <1>4, <2>1, SerialMove
<1>5. CASE CreateConsent(r) \/ EnsurePullJobs(r)
  BY <1>1, <1>2, <1>3, <1>5 DEF CreateConsent, AfterConsent, EnsurePullJobs, At, Fits, Labels, DbAwaits
<1>6. CASE UserReply(r) \/ AnswersReply(r)
  BY <1>1, <1>2, <1>3, <1>6 DEF UserReply, AfterUserReply, AnswersReply, At, Fits, Labels, DbAwaits
<1>7. CASE UndecryptJob(r) \/ StartJob(r) \/ ReportReply(r)
  BY <1>1, <1>2, <1>7 DEF UndecryptJob, StartJob, ReportReply, AfterReport, At, Fits, Labels, DbAwaits,
     GuardedAwaits
<1>8. CASE InsertScore(r) \/ CompleteJob(r) \/ FailJob(r)
  BY <1>1, <1>2, <1>8 DEF InsertScore, AfterInsert, CompleteJob, FailJob, At, Fits, Labels, DbAwaits,
     GuardedAwaits
<1>9. CASE RejectJob(r) \/ ReplyStatus(r)
  BY <1>3, <1>9 DEF RejectJob, ReplyStatus
<1>10. CASE PullLoad(r)
  <2>1. CASE Goto(r, "fresh_read")
    BY <1>2, <1>10, <2>1 DEF PullLoad, At, Fits, Labels, DbAwaits
  <2>2. CASE /\ conn[c].state = "PROCESSING"
             /\ pc' = [pc EXCEPT ![r] = "mark_poll"]
             /\ req' = [req EXCEPT ![r].token = conn[c].token]
    <3>1. req'[r].conn = c /\ \A q \in Reqs : q # r => req'[q] = req[q]
      BY <1>1, <2>2 DEF Req
    <3> QED
      BY <1>4, <1>10, <2>2, <3>1 DEF PullLoad, At, Fits
  <2> QED
    BY <1>10, <2>1, <2>2 DEF PullLoad
<1>11. CASE FreshRead(r)
  <2>1. CASE /\ pc' = [pc EXCEPT ![r] = "list_jobs"]
             /\ req' = [req EXCEPT ![r].seen = conn[c].state]
    <3>1. req'[r].conn = c /\ \A q \in Reqs : q # r => req'[q] = req[q]
      BY <1>1, <2>1 DEF Req
    <3> QED
      BY <1>4, <1>11, <2>1, <3>1 DEF FreshRead, At, Fits
  <2> QED
    BY <1>3, <1>11, <2>1 DEF FreshRead
<1>12. CASE DbThrows(r)
  BY <1>1, <1>2, <1>3, <1>12 DEF DbThrows, GuardedAwaits, Fits, Labels, DbAwaits
<1> QED
  BY <1>5, <1>6, <1>7, <1>8, <1>9, <1>10, <1>11, <1>12

\* Handlers that write their connection.
LEMMA WritersSerial ==
  ASSUME Serial, TypeInv, SerialInv, NEW r \in Reqs,
         \/ WriteIdentity(r) \/ WriteAddress(r) \/ WriteKiq(r) \/ WriteToken(r)
         \/ RejectConnection(r) \/ MarkPoll(r) \/ UndecryptConnection(r)
         \/ CompleteConnection(r) \/ FailConnection(r)
  PROVE  SerialInv' /\ [Wizard!Next]_(Wizard!wizard)
<1> DEFINE c == req[r].conn
<1>1. /\ c \in Conns /\ conn[c] \in Row /\ conn \in [Conns -> Row]
      /\ conn[c].owner = UserOf[r] /\ conn[c].state # "ABSENT"
      /\ Fits(pc[r], conn[c].state)
  <2>1. pc[r] \notin {"idle", "create"}
    BY DEF WriteIdentity, WriteAddress, WriteKiq, WriteToken, RejectConnection, MarkPoll,
       UndecryptConnection, CompleteConnection, FailConnection, At
  <2> QED
    BY <2>1, BureauAssumption DEF TypeInv, SlotsOK, TablesOK, SerialInv, SerialLocal
<1>2. piiKey \in Keys /\ UserOf[r] \in Users
  BY BureauAssumption DEF TypeInv, TablesOK
<1>3. ASSUME NEW row \in Row, row.owner = conn[c].owner, row.state \in NonTerminal \cup Terminal,
             row.state = conn[c].state \/ row.state \in Wizard!Steps[conn[c].state],
             conn' = [conn EXCEPT ![c] = row] \/ conn' = conn,
             NEW l \in Labels \ {"create"},
             \/ Finish(r) /\ l = "idle"
             \/ Goto(r, l) /\ Fits(l, row.state) /\ Fits(l, conn[c].state)
      PROVE  SerialInv' /\ [Wizard!Next]_(Wizard!wizard)
  <2>1. row.state # "ABSENT"
    BY <1>3 DEF NonTerminal, Terminal
  <2>2. /\ pc' = [pc EXCEPT ![r] = l]
        /\ \A q \in Reqs : q # r => req'[q] = req[q]
        /\ l # "idle" => req'[r].conn = c
    BY <1>3, MovesLocal
  <2> HIDE DEF c
  <2>3. conn'[c] = row \/ conn'[c] = conn[c]
    BY <1>1, <1>3
  <2>4. l # "idle" => Fits(l, conn'[c].state)
    BY <1>3, <2>2, <2>3 DEF Finish
  <2>5. SerialInv'
    <3>1. row.owner = UserOf[r] /\ conn[c].owner \in {UserOf[r], None}
      BY <1>1, <1>3
    <3>2. l # "idle" => /\ req'[r].conn \in Conns
                        /\ conn'[req'[r].conn].owner = UserOf[r]
                        /\ Fits(l, conn'[req'[r].conn].state)
      BY <1>1, <2>2, <2>3, <2>4, <3>1
    <3>3. c \in Conns
      BY <1>1
    <3> QED
      BY <1>3, <2>1, <2>2, <3>1, <3>2, <3>3, SerialWrite
  <2>6. [Wizard!Next]_(Wizard!wizard)
    BY <1>1, <1>3, WizardWrite
  <2> QED
    BY <2>5, <2>6
<1>4. ASSUME NEW row \in Row, row.owner = conn[c].owner, row.state \in NonTerminal \cup Terminal,
             row.state = conn[c].state \/ row.state \in Wizard!Steps[conn[c].state],
             \/ UpdateConnection(r, row, Finish(r), Finish(r))
             \/ \E l \in Labels \ {"create"} : /\ UpdateConnection(r, row, Goto(r, l), Goto(r, l))
                                            /\ Fits(l, row.state) /\ Fits(l, conn[c].state)
      PROVE  SerialInv' /\ [Wizard!Next]_(Wizard!wizard)
  <2>1. "idle" \in Labels \ {"create"}
    BY DEF Labels
  <2>2. conn' = [conn EXCEPT ![c] = row] \/ conn' = conn
    BY <1>4 DEF UpdateConnection
  <2>3. \E l \in Labels \ {"create"} :
           \/ Finish(r) /\ l = "idle"
           \/ Goto(r, l) /\ Fits(l, row.state) /\ Fits(l, conn[c].state)
    BY <1>4, <2>1 DEF UpdateConnection
  <2> HIDE DEF c
  <2> QED
    BY <1>3, <1>4, <2>2, <2>3
<1>5. CASE WriteIdentity(r)
  <2> DEFINE row == [conn[c] EXCEPT !.identity = piiKey, !.state = "AWAITING_ADDRESS"]
  <2>1. row \in Row /\ row.owner = conn[c].owner /\ row.state = "AWAITING_ADDRESS"
    BY <1>1, <1>2, RowsTyped DEF Row
  <2>2. conn[c].state = "AWAITING_IDENTITY"
    BY <1>1, <1>5 DEF WriteIdentity, At, Fits
  <2>3. UpdateConnection(r, row, Finish(r), Finish(r))
    BY <1>5 DEF WriteIdentity
  <2> HIDE DEF row, c
  <2> QED
    BY <1>4, <2>1, <2>2, <2>3 DEF Wizard!Steps, NonTerminal
<1>6. CASE WriteAddress(r)
  <2> DEFINE row == [conn[c] EXCEPT !.address = piiKey, !.state = "AWAITING_CONSENT"]
  <2>1. row \in Row /\ row.owner = conn[c].owner /\ row.state = "AWAITING_CONSENT"
    BY <1>1, <1>2, RowsTyped DEF Row
  <2>2. conn[c].state = "AWAITING_ADDRESS"
    BY <1>1, <1>6 DEF WriteAddress, At, Fits
  <2>3. UpdateConnection(r, row, Finish(r), Finish(r))
    BY <1>6 DEF WriteAddress
  <2> HIDE DEF row, c
  <2> QED
    BY <1>4, <2>1, <2>2, <2>3 DEF Wizard!Steps, NonTerminal
<1>7. CASE WriteKiq(r)
  <2> DEFINE row == WithQuestions(conn[c])
  <2>1. row \in Row /\ row.owner = conn[c].owner /\ row.state = "AWAITING_EXPERIAN_KIQ"
    BY <1>1, <1>2, RowsTyped DEF Row, WithQuestions
  <2>2. conn[c].state = "AWAITING_CONSENT"
    BY <1>1, <1>7 DEF WriteKiq, At, Fits
  <2>3. UpdateConnection(r, row, Finish(r), Finish(r))
    BY <1>7 DEF WriteKiq
  <2> HIDE DEF row, c
  <2> QED
    BY <1>4, <2>1, <2>2, <2>3 DEF Wizard!Steps, NonTerminal
<1>8. CASE WriteToken(r)
  <2> DEFINE row == WithToken(conn[c])
  <2>1. row \in Row /\ row.owner = conn[c].owner /\ row.state = "PROCESSING"
    BY <1>1, <1>2, RowsTyped DEF Row, WithToken
  <2>2. conn[c].state \in {"AWAITING_CONSENT", "AWAITING_EXPERIAN_KIQ"}
    BY <1>1, <1>8 DEF WriteToken, At, Fits
  <2>3. UpdateConnection(r, row, Goto(r, "pull_load"), Goto(r, "pull_load"))
    BY <1>8 DEF WriteToken
  <2>4. "pull_load" \in Labels /\ \A s \in States : Fits("pull_load", s)
    BY DEF Labels, DbAwaits, Fits
  <2>5. row.state \in States /\ conn[c].state \in States
    BY <1>1, <2>1 DEF Row
  <2> HIDE DEF row, c
  <2> QED
    BY <1>4, <2>1, <2>2, <2>3, <2>4, <2>5 DEF Wizard!Steps, NonTerminal
<1>9. CASE RejectConnection(r) \/ UndecryptConnection(r) \/ FailConnection(r)
  <2> DEFINE row == AsFailed(conn[c])
  <2>1. row \in Row /\ row.owner = conn[c].owner /\ row.state = "FAILED"
    BY <1>1, <1>2, RowsTyped DEF Row, AsFailed
  <2>2. conn[c].state \in {"AWAITING_CONSENT", "AWAITING_EXPERIAN_KIQ", "PROCESSING"}
    BY <1>1, <1>9 DEF RejectConnection, UndecryptConnection, FailConnection, At, Fits
  <2>3. \E l \in {"reject_job", "undecrypt_job", "fresh_read"} :
           UpdateConnection(r, row, Goto(r, l), Goto(r, l))
    BY <1>9 DEF RejectConnection, UndecryptConnection, FailConnection
  <2>4. \A l \in {"reject_job", "undecrypt_job", "fresh_read"} :
           l \in Labels \ {"create"} /\ Fits(l, row.state) /\ Fits(l, conn[c].state)
    BY DEF Labels, DbAwaits, Fits
  <2> HIDE DEF row, c
  <2> QED
    BY <1>4, <2>1, <2>2, <2>3, <2>4 DEF Wizard!Steps, Terminal
<1>10. CASE CompleteConnection(r)
  <2> DEFINE row == AsComplete(conn[c])
  <2>1. row \in Row /\ row.owner = conn[c].owner /\ row.state = "COMPLETE"
    BY <1>1, <1>2, RowsTyped DEF Row, AsComplete
  <2>2. conn[c].state = "PROCESSING"
    BY <1>1, <1>10 DEF CompleteConnection, At, Fits
  <2>3. UpdateConnection(r, row, Goto(r, "fresh_read"), Goto(r, "fresh_read"))
    BY <1>10 DEF CompleteConnection
  <2>4. "fresh_read" \in Labels \ {"create"}
        /\ Fits("fresh_read", row.state) /\ Fits("fresh_read", conn[c].state)
    BY DEF Labels, DbAwaits, Fits
  <2> HIDE DEF row, c
  <2> QED
    BY <1>4, <2>1, <2>2, <2>3, <2>4 DEF Wizard!Steps, Terminal
<1>11. CASE MarkPoll(r)
  <2> DEFINE row == AsPolled(conn[c])
  <2>1. row \in Row /\ row.owner = conn[c].owner /\ row.state = conn[c].state
    BY <1>1, <1>2, RowsTyped DEF Row, AsPolled
  <2>2. conn[c].state = "PROCESSING"
    BY <1>1, <1>11 DEF MarkPoll, At, Fits
  <2>3. \E l \in {"start_job", "undecrypt_conn"} : UpdateConnection(r, row, Goto(r, l), Goto(r, l))
    BY <1>11 DEF MarkPoll
  <2>4. \A l \in {"start_job", "undecrypt_conn"} : l \in Labels \ {"create"} /\ Fits(l, "PROCESSING")
    BY DEF Labels, DbAwaits, Fits
  <2> HIDE DEF row, c
  <2> QED
    BY <1>4, <2>1, <2>2, <2>3, <2>4 DEF NonTerminal
<1> QED
  BY <1>5, <1>6, <1>7, <1>8, <1>9, <1>10, <1>11

\* A new connection: the user has no other in progress, and no handler works on its id.
LEMMA CreateConnectionSerial ==
  ASSUME Serial, TypeInv, SerialInv, NEW r \in Reqs, CreateConnection(r)
  PROVE  SerialInv' /\ [Wizard!Next]_(Wizard!wizard)
<1> DEFINE row == NewConnection(UserOf[r])
<1>1. PICK c \in Conns : conn[c].state = "ABSENT" /\ conn' = [conn EXCEPT ![c] = row]
  BY DEF CreateConnection, FreeIds
<1>2. /\ conn \in [Conns -> Row] /\ UserOf[r] \in Users
      /\ conn[c].owner = None
      /\ \A d \in Conns : conn[d].owner = UserOf[r] => conn[d].state \notin NonTerminal
  BY <1>1, BureauAssumption
  DEF TypeInv, TablesOK, SerialInv, SerialLocal, CreateConnection, At
<1>3. row \in Row /\ row.owner = UserOf[r] /\ row.state = "AWAITING_IDENTITY"
  BY <1>1, <1>2, RowsTyped DEF TypeInv, TablesOK, NewConnection, NoRow
<1>4. /\ pc' = [pc EXCEPT ![r] = "idle"] /\ "idle" \in Labels \ {"create"}
      /\ \A q \in Reqs : q # r => req'[q] = req[q]
  BY MovesLocal DEF CreateConnection, Labels
<1> HIDE DEF row
<1>5. SerialInv'
  BY <1>1, <1>2, <1>3, <1>4, SerialWrite
<1>6. Wizard!Begin(UserOf[r], c)
  <2>1. /\ [d \in Conns |-> conn'[d].state]
             = [[d \in Conns |-> conn[d].state] EXCEPT ![c] = "AWAITING_IDENTITY"]
        /\ [d \in Conns |-> conn'[d].owner]
             = [[d \in Conns |-> conn[d].owner] EXCEPT ![c] = UserOf[r]]
    BY <1>1, <1>2, <1>3
  <2> QED
    BY <1>1, <1>2, <2>1 DEF Wizard!Begin, Wizard!Active, NonTerminal
<1> QED
  BY <1>2, <1>5, <1>6 DEF Wizard!Next

\* Every step keeps the invariant, and is a step of the documented wizard or a stutter.
LEMMA SerialStep ==
  ASSUME Serial, TypeInv, SerialInv, [Next]_vars
  PROVE  SerialInv' /\ [Wizard!Next]_(Wizard!wizard)
<1>1. ASSUME NEW r \in Reqs, Serve(r) \/ DbThrows(r)
      PROVE  SerialInv' /\ [Wizard!Next]_(Wizard!wizard)
  BY <1>1, ServeSerial, WritersSerial, CreateConnectionSerial DEF Serve
<1>2. CASE Restart
  <2>1. conn' = conn /\ \A r \in Reqs : pc'[r] = "idle"
    BY <1>2 DEF Restart, tables
  <2>2. SerialInv'
    BY <2>1 DEF SerialInv, SerialLocal
  <2> QED
    BY <2>1, <2>2, WizardStutter
<1>3. ASSUME NEW c \in Conns, DebounceExpires(c)
      PROVE  SerialInv' /\ [Wizard!Next]_(Wizard!wizard)
  <2> DEFINE row == [conn[c] EXCEPT !.polled = FALSE]
  <2>1. conn \in [Conns -> Row] /\ conn[c] \in Row /\ piiKey \in Keys
    BY DEF TypeInv, TablesOK
  <2>2. conn' = [conn EXCEPT ![c] = row] /\ pc' = pc /\ req' = req
    BY <1>3 DEF DebounceExpires
  <2>3. row \in Row /\ row.owner = conn[c].owner /\ row.state = conn[c].state
    BY <2>1 DEF Row
  <2> HIDE DEF row
  <2>4. [Wizard!Next]_(Wizard!wizard)
    BY <2>2, <2>3, WizardWrite
  <2>5. \A d \in Conns : conn'[d].owner = conn[d].owner /\ conn'[d].state = conn[d].state
    BY <2>1, <2>2, <2>3
  <2>6. \A r \in Reqs : pc[r] \notin {"idle", "create"} => req[r].conn \in Conns
    BY DEF TypeInv, SlotsOK
  <2>7. SerialInv'
    BY <2>2, <2>5, <2>6 DEF SerialInv, SerialLocal
  <2> QED
    BY <2>4, <2>7
<1>4. CASE UNCHANGED vars
  <2>1. conn' = conn /\ pc' = pc /\ req' = req
    BY <1>4 DEF vars
  <2> QED
    BY <2>1, WizardStutter DEF SerialInv, SerialLocal
<1> QED
  BY <1>1, <1>2, <1>3, <1>4, ArriveSerial DEF Next

\* For clients that wait for each answer the code keeps the documented wizard: one
\* connection in progress per user, stages in order, none left after COMPLETE or FAILED.
THEOREM ImplementsWizard == ASSUME Serial PROVE Spec => WizardSpec
<1>1. Init => SerialInv
  BY DEF Init, NoRow, SerialInv, SerialLocal
<1>2. Init => Wizard!Init
  BY DEF Init, NoRow, Wizard!Init
<1>3. TypeInv /\ SerialInv /\ [Next]_vars => SerialInv' /\ [Wizard!Next]_(Wizard!wizard)
  BY SerialStep
<1> QED
  BY <1>1, <1>2, <1>3, TypeInvariant, PTL DEF Spec, WizardSpec, Wizard!Spec

\* openapi.yaml:729 holds for clients that wait for each answer, whatever fails in between: a
\* user has one connection in progress at most.
THEOREM OneAtATime == ASSUME Serial PROVE Spec => []OneInProgress
<1>1. ASSUME NEW u \in Users
      PROVE  IsFiniteSet(SlotsOf(u)) /\ Cardinality(SlotsOf(u)) <= 1
  <2>1. CASE SlotsOf(u) = {}
    BY <2>1, FS_EmptySet
  <2>2. CASE SlotsOf(u) # {}
    <3>1. PICK r \in SlotsOf(u) : TRUE
      BY <2>2
    <3>2. SlotsOf(u) = {r}
      BY <3>1 DEF SlotsOf, Serial
    <3>3. IsFiniteSet({r}) /\ Cardinality({r}) = 1
      BY FS_Singleton
    <3> QED
      BY <3>2, <3>3
  <2> QED
    BY <2>1, <2>2
<1>2. FiniteSlots
  BY <1>1 DEF FiniteSlots
<1>3. ProgressInv => OneInProgress
  <2> SUFFICES ASSUME ProgressInv, NEW u \in Users
               PROVE  Cardinality(ActiveFor(u)) <= 1
    BY DEF OneInProgress
  <2>1. IsFiniteSet(InProgress(u)) /\ IsFiniteSet(Creating(u))
    BY <1>1, FS_Subset DEF ProgressInv, Creating
  <2>2. IsFiniteSet(ActiveFor(u)) /\ Cardinality(ActiveFor(u)) <= Cardinality(InProgress(u))
    BY <2>1, FS_Subset DEF InProgress
  <2>3. Cardinality(InProgress(u)) + Cardinality(Creating(u)) <= Cardinality(SlotsOf(u))
    BY DEF ProgressInv
  <2> QED
    BY <1>1, <2>1, <2>2, <2>3, FS_CardinalityType
<1> QED
  BY <1>2, <1>3, ProgressInvariant, PTL

\* assertState keeps its word for such clients: no step is applied to a complete or failed
\* connection, although it is checked before the awaits that precede the write.
THEOREM SettledForGood == ASSUME Serial PROVE Spec => StaysSettled
<1>1. ASSUME [Wizard!Next]_(Wizard!wizard), NEW c \in Conns, conn[c].state \in Terminal
      PROVE  conn'[c].state \in Terminal
  <2> DEFINE stage == [d \in Conns |-> conn[d].state]
  <2>1. CASE UNCHANGED Wizard!wizard
    <3>1. stage' = stage
      BY <2>1 DEF Wizard!wizard
    <3>2. stage[c] = conn[c].state /\ stage'[c] = conn'[c].state
      OBVIOUS
    <3> QED
      BY <1>1, <3>1, <3>2
  <2>2. ASSUME NEW d \in Conns, NEW u \in Users, Wizard!Begin(u, d)
        PROVE  conn'[c].state \in Terminal
    <3>1. stage[d] = "ABSENT" /\ stage' = [stage EXCEPT ![d] = "AWAITING_IDENTITY"]
      BY <2>2 DEF Wizard!Begin
    <3>2. stage[c] = conn[c].state /\ stage'[c] = conn'[c].state /\ stage[c] # "ABSENT"
      BY <1>1 DEF Terminal
    <3> HIDE DEF stage
    <3> QED
      BY <1>1, <3>1, <3>2 DEF stage
  <2>3. ASSUME NEW d \in Conns, NEW s, Wizard!Step(d, s)
        PROVE  conn'[c].state \in Terminal
    <3>1. s \in Wizard!Steps[stage[d]] /\ stage' = [stage EXCEPT ![d] = s]
      BY <2>3 DEF Wizard!Step
    <3>2. stage[c] = conn[c].state /\ stage'[c] = conn'[c].state
      OBVIOUS
    <3>3. Wizard!Steps[stage[c]] = {}
      BY <1>1, <3>2 DEF Terminal, Wizard!Steps
    <3>4. stage'[c] = stage[c]
      BY <3>1, <3>3
    <3> QED
      BY <1>1, <3>2, <3>4
  <2> QED
    BY <1>1, <2>1, <2>2, <2>3 DEF Wizard!Next
<1>2. [Wizard!Next]_(Wizard!wizard)
        => \A c \in Conns : conn[c].state \in Terminal => conn'[c].state \in Terminal
  BY <1>1
<1>3. TypeInv /\ SerialInv /\ [Next]_vars
        => SerialInv' /\ [\A c \in Conns : conn[c].state \in Terminal => conn'[c].state \in Terminal]_vars
  BY <1>2, SerialStep
<1>4. Init => SerialInv
  BY DEF Init, NoRow, SerialInv, SerialLocal
<1> QED
  BY <1>3, <1>4, TypeInvariant, PTL DEF Spec, StaysSettled

------------------------------------------------------------------------------
(* Complete replies *)

\* What a handler knows of its connection on the way to the two writes and to the reply.
CompleteLocal(r) ==
  /\ pc[r] = "complete_conn" => job[req[r].conn]["EXPERIAN"] = "COMPLETE"
  /\ pc[r] \in {"reject_job", "undecrypt_job"} => conn[req[r].conn].state # "COMPLETE"
  /\ pc[r] = "list_jobs" /\ req[r].seen = "COMPLETE" => conn[req[r].conn].state = "COMPLETE"

\* The EXPERIAN job of a complete connection is complete and stays so.
CompleteInv ==
  /\ \A c \in Conns : conn[c].state = "COMPLETE" => job[c]["EXPERIAN"] = "COMPLETE"
  /\ \A r \in Reqs : CompleteLocal(r)

\* A handler that writes only its connection and its jobs disturbs no other handler.
LEMMA CompleteWrite ==
  ASSUME Serial, TypeInv, SerialInv, CompleteInv, NEW r \in Reqs, NEW c \in Conns,
         conn[c].owner \in {UserOf[r], None},
         \A d \in Conns : d # c => conn'[d] = conn[d] /\ job'[d] = job[d],
         conn'[c].state = "COMPLETE" => job'[c]["EXPERIAN"] = "COMPLETE",
         \A q \in Reqs : q # r => pc'[q] = pc[q] /\ req'[q] = req[q],
         CompleteLocal(r)'
  PROVE  CompleteInv'
<1>1. ASSUME NEW q \in Reqs, q # r
      PROVE  CompleteLocal(q)'
  <2>1. UserOf[q] # UserOf[r] /\ UserOf[q] # None
    BY <1>1, BureauAssumption DEF Serial
  <2>2. pc'[q] = pc[q] /\ req'[q] = req[q] /\ CompleteLocal(q)
    BY <1>1 DEF CompleteInv
  <2>3. CASE pc[q] \in {"idle", "create"}
    BY <2>2, <2>3 DEF CompleteLocal
  <2>4. CASE pc[q] \notin {"idle", "create"}
    <3>1. req[q].conn \in Conns /\ conn[req[q].conn].owner = UserOf[q]
      BY <2>4 DEF TypeInv, SlotsOK, SerialInv, SerialLocal
    <3>2. conn'[req[q].conn] = conn[req[q].conn] /\ job'[req[q].conn] = job[req[q].conn]
      BY <2>1, <3>1
    <3> QED
      BY <2>2, <3>2 DEF CompleteLocal
  <2> QED
    BY <2>3, <2>4
<1>2. \A d \in Conns : conn'[d].state = "COMPLETE" => job'[d]["EXPERIAN"] = "COMPLETE"
  BY DEF CompleteInv
<1> QED
  BY <1>1, <1>2 DEF CompleteInv

\* Neither does a step that moves one handler and changes no state and no job.
LEMMA CompleteMove ==
  ASSUME TypeInv, CompleteInv, NEW r \in Reqs, job' = job,
         \A c \in Conns : conn'[c].state = conn[c].state,
         \A q \in Reqs : q # r => pc'[q] = pc[q] /\ req'[q] = req[q],
         CompleteLocal(r)'
  PROVE  CompleteInv'
<1>1. ASSUME NEW q \in Reqs, q # r
      PROVE  CompleteLocal(q)'
  <2>1. pc[q] \notin {"idle", "create"} => req[q].conn \in Conns
    BY DEF TypeInv, SlotsOK
  <2> QED
    BY <1>1, <2>1 DEF CompleteInv, CompleteLocal
<1> QED
  BY <1>1 DEF CompleteInv

\* A handler at one of the other awaits, or at none, has nothing to know.
LEMMA NothingToKnow ==
  ASSUME NEW r \in Reqs,
         pc'[r] \notin {"complete_conn", "reject_job", "undecrypt_job", "list_jobs"}
  PROVE  CompleteLocal(r)'
  BY DEF CompleteLocal

\* Handlers that only move.
LEMMA MoversComplete ==
  ASSUME TypeInv, CompleteInv, NEW r \in Reqs,
         \/ Arrive(r) \/ CreateConsent(r) \/ UserReply(r) \/ AnswersReply(r) \/ PullLoad(r)
         \/ ReportReply(r) \/ InsertScore(r) \/ FreshRead(r) \/ ReplyStatus(r) \/ DbThrows(r)
  PROVE  CompleteInv'
<1>1. /\ pc \in [Reqs -> Labels] /\ req \in [Reqs -> Req]
      /\ pc[r] \notin {"idle", "create"} => req[r].conn \in Conns
  BY DEF TypeInv, SlotsOK
<1> DEFINE quiet == Labels \ {"complete_conn", "reject_job", "undecrypt_job", "list_jobs"}
<1>2. ASSUME UNCHANGED <<conn, job>>, NEW l \in quiet, pc' = [pc EXCEPT ![r] = l],
             \A q \in Reqs : q # r => req'[q] = req[q]
      PROVE  CompleteInv'
  <2>1. CompleteLocal(r)'
    BY <1>1, <1>2, NothingToKnow
  <2> QED
    BY <1>1, <1>2, <2>1, CompleteMove
<1>3. ASSUME UNCHANGED <<conn, job>>, NEW l \in quiet, Goto(r, l)
      PROVE  CompleteInv'
  BY <1>2, <1>3, MovesLocal
<1>4. ASSUME UNCHANGED <<conn, job>>, Finish(r)
      PROVE  CompleteInv'
  BY <1>2, <1>4, MovesLocal DEF Labels
<1>5. UNCHANGED <<conn, job>>
  BY DEF Arrive, StartConnection, SubmitIdentity, SubmitAddress, SubmitConsent, SubmitKiqAnswers,
     GetConnectionStatus, CreateConsent, UserReply, AnswersReply, PullLoad, ReportReply,
     InsertScore, FreshRead, ReplyStatus, DbThrows, OnlyMoves, tables
<1>6. CASE Arrive(r)
  <2>1. ASSUME NEW op \in {"start", "identity", "address", "consent", "kiq", "status"},
               NEW c \in Conns \cup {None}, NEW l \in quiet, Begin(r, op, c, l)
        PROVE  CompleteInv'
    BY <1>2, <1>5, <2>1, MovesLocal
  <2> QED
    BY <1>6, <2>1 DEF Arrive, StartConnection, SubmitIdentity, SubmitAddress, SubmitConsent,
       SubmitKiqAnswers, GetConnectionStatus, Labels, DbAwaits
<1>7. CASE CreateConsent(r)
  BY <1>3, <1>4, <1>5, <1>7 DEF CreateConsent, AfterConsent, Labels, DbAwaits
<1>8. CASE UserReply(r) \/ AnswersReply(r)
  BY <1>3, <1>4, <1>5, <1>8 DEF UserReply, AfterUserReply, AnswersReply, Labels, DbAwaits
<1>9. CASE PullLoad(r)
  <2>1. CASE Goto(r, "fresh_read")
    BY <1>3, <1>5, <2>1 DEF Labels, DbAwaits
  <2>2. CASE /\ pc' = [pc EXCEPT ![r] = "mark_poll"]
             /\ req' = [req EXCEPT ![r].token = conn[req[r].conn].token]
    BY <1>1, <1>2, <1>5, <2>2 DEF Labels, DbAwaits
  <2> QED
    BY <1>9, <2>1, <2>2 DEF PullLoad
<1>10. CASE ReportReply(r) \/ InsertScore(r)
  BY <1>3, <1>5, <1>10 DEF ReportReply, AfterReport, InsertScore, AfterInsert, Labels, DbAwaits,
     GuardedAwaits
<1>11. CASE FreshRead(r)
  <2>1. CASE /\ pc' = [pc EXCEPT ![r] = "list_jobs"]
             /\ req' = [req EXCEPT ![r].seen = conn[req[r].conn].state]
    <3>1. /\ pc'[r] = "list_jobs" /\ req'[r].conn = req[r].conn
          /\ req'[r].seen = conn[req[r].conn].state
          /\ \A q \in Reqs : q # r => pc'[q] = pc[q] /\ req'[q] = req[q]
      BY <1>1, <2>1 DEF Req
    <3>2. CompleteLocal(r)'
      BY <1>5, <3>1 DEF CompleteLocal
    <3> QED
      BY <1>5, <3>1, <3>2, CompleteMove
  <2> QED
    BY <1>4, <1>5, <1>11, <2>1 DEF FreshRead
<1>12. CASE ReplyStatus(r)
  BY <1>4, <1>5, <1>12 DEF ReplyStatus
<1>13. CASE DbThrows(r)
  BY <1>3, <1>4, <1>5, <1>13 DEF DbThrows, Labels, DbAwaits
<1> QED
  BY <1>6, <1>7, <1>8, <1>9, <1>10, <1>11, <1>12, <1>13

\* Handlers that write their connection or its jobs.
LEMMA WritersComplete ==
  ASSUME Serial, TypeInv, SerialInv, CompleteInv, NEW r \in Reqs,
         \/ WriteIdentity(r) \/ WriteAddress(r) \/ WriteKiq(r) \/ WriteToken(r)
         \/ RejectConnection(r) \/ MarkPoll(r) \/ UndecryptConnection(r)
         \/ CompleteConnection(r) \/ FailConnection(r)
         \/ EnsurePullJobs(r) \/ RejectJob(r) \/ UndecryptJob(r) \/ StartJob(r)
         \/ CompleteJob(r) \/ FailJob(r)
  PROVE  CompleteInv'
<1> DEFINE c == req[r].conn
<1>1. /\ c \in Conns /\ conn[c].owner = UserOf[r] /\ Fits(pc[r], conn[c].state)
      /\ CompleteLocal(r)
  <2>1. pc[r] \notin {"idle", "create"}
    BY DEF WriteIdentity, WriteAddress, WriteKiq, WriteToken, RejectConnection, MarkPoll,
       UndecryptConnection, CompleteConnection, FailConnection, EnsurePullJobs, RejectJob,
       UndecryptJob, StartJob, CompleteJob, FailJob, At
  <2> QED
    BY <2>1 DEF TypeInv, SlotsOK, SerialInv, SerialLocal, CompleteInv
<1>2. /\ conn \in [Conns -> Row] /\ job \in [Conns -> [Bureaus -> JobStatus]]
      /\ pc \in [Reqs -> Labels] /\ req \in [Reqs -> Req] /\ "EXPERIAN" \in Bureaus
  BY DEF TypeInv, SlotsOK, TablesOK, Bureaus
<1>3. ASSUME NEW row, NEW status,
             conn' = [conn EXCEPT ![c] = row] \/ conn' = conn,
             job' = [job EXCEPT ![c]["EXPERIAN"] = status] \/ (job' = job /\ status = job[c]["EXPERIAN"]),
             conn'[c].state = "COMPLETE" => status = "COMPLETE",
             NEW l \in Labels, Goto(r, l) \/ (l = "idle" /\ Finish(r)),
             l = "complete_conn" => status = "COMPLETE",
             l \in {"reject_job", "undecrypt_job"} => conn'[c].state # "COMPLETE",
             l # "list_jobs"
      PROVE  CompleteInv'
  <2>1. /\ pc' = [pc EXCEPT ![r] = l] /\ (l # "idle" => req' = req)
        /\ \A q \in Reqs : q # r => req'[q] = req[q]
    BY <1>3, MovesLocal
  <2>2. job'[c]["EXPERIAN"] = status
    BY <1>1, <1>2, <1>3
  <2>3. l # "idle" => req'[r].conn = c
    BY <2>1
  <2> HIDE DEF c
  <2>4. \A d \in Conns : d # c => conn'[d] = conn[d] /\ job'[d] = job[d]
    BY <1>2, <1>3
  <2>5. pc'[r] = l /\ \A q \in Reqs : q # r => pc'[q] = pc[q]
    BY <1>2, <2>1
  <2>6. CompleteLocal(r)'
    BY <1>3, <2>2, <2>3, <2>5 DEF CompleteLocal
  <2>7. conn[c].owner \in {UserOf[r], None} /\ c \in Conns
    BY <1>1
  <2> QED
    BY <1>3, <2>1, <2>2, <2>4, <2>5, <2>6, <2>7, CompleteWrite
<1>4. ASSUME NEW row, row.state # "COMPLETE" \/ job[c]["EXPERIAN"] = "COMPLETE", job' = job,
             NEW l \in Labels \ {"complete_conn", "list_jobs"},
             \/ UpdateConnection(r, row, Goto(r, l), Goto(r, l))
             \/ l = "idle" /\ UpdateConnection(r, row, Finish(r), Finish(r)),
             l \in {"reject_job", "undecrypt_job"} =>
               row.state # "COMPLETE" /\ conn[c].state # "COMPLETE"
      PROVE  CompleteInv'
  <2>1. conn' = [conn EXCEPT ![c] = row] \/ conn' = conn
    BY <1>4 DEF UpdateConnection
  <2>2. Goto(r, l) \/ (l = "idle" /\ Finish(r))
    BY <1>4 DEF UpdateConnection
  <2>3. conn[c].state = "COMPLETE" => job[c]["EXPERIAN"] = "COMPLETE"
    BY <1>1 DEF CompleteInv
  <2>4. conn'[c] = row \/ conn'[c] = conn[c]
    BY <1>1, <1>2, <2>1
  <2> HIDE DEF c
  <2> QED
    BY <1>3, <1>4, <2>1, <2>2, <2>3, <2>4
<1>5. ASSUME NEW status, UpdatePullJob(c, status), UNCHANGED conn,
             status = "COMPLETE" \/ conn[c].state # "COMPLETE",
             NEW l \in {"idle", "fresh_read", "await_report", "complete_conn", "fail_conn"},
             l = "complete_conn" => status = "COMPLETE",
             Goto(r, l) \/ (l = "idle" /\ Finish(r))
      PROVE  CompleteInv'
  <2>1. l \in Labels
    BY DEF Labels, DbAwaits, GuardedAwaits
  <2> HIDE DEF c
  <2> QED
    BY <1>3, <1>5, <2>1 DEF UpdatePullJob
<1>6. CASE WriteIdentity(r) \/ WriteAddress(r) \/ WriteKiq(r)
  <2>1. CASE WriteIdentity(r)
    <3> DEFINE row == [conn[c] EXCEPT !.identity = piiKey, !.state = "AWAITING_ADDRESS"]
    <3>1. row.state = "AWAITING_ADDRESS" /\ "idle" \in Labels
      BY <1>1, <1>2 DEF Row, WithQuestions, Labels
    <3>2. UpdateConnection(r, row, Finish(r), Finish(r)) /\ job' = job
      BY <2>1 DEF WriteIdentity, ConnWritten
    <3> HIDE DEF row, c
    <3> QED
      BY <1>4, <3>1, <3>2
  <2>2. CASE WriteAddress(r)
    <3> DEFINE row == [conn[c] EXCEPT !.address = piiKey, !.state = "AWAITING_CONSENT"]
    <3>1. row.state = "AWAITING_CONSENT" /\ "idle" \in Labels
      BY <1>1, <1>2 DEF Row, WithQuestions, Labels
    <3>2. UpdateConnection(r, row, Finish(r), Finish(r)) /\ job' = job
      BY <2>2 DEF WriteAddress, ConnWritten
    <3> HIDE DEF row, c
    <3> QED
      BY <1>4, <3>1, <3>2
  <2>3. CASE WriteKiq(r)
    <3> DEFINE row == WithQuestions(conn[c])
    <3>1. row.state = "AWAITING_EXPERIAN_KIQ" /\ "idle" \in Labels
      BY <1>1, <1>2 DEF Row, WithQuestions, Labels
    <3>2. UpdateConnection(r, row, Finish(r), Finish(r)) /\ job' = job
      BY <2>3 DEF WriteKiq, ConnWritten
    <3> HIDE DEF row, c
    <3> QED
      BY <1>4, <3>1, <3>2
  <2> QED
    BY <1>6, <2>1, <2>2, <2>3
<1>7. CASE WriteToken(r)
  <2>1. WithToken(conn[c]).state = "PROCESSING" /\ "pull_load" \in Labels
    BY <1>1, <1>2 DEF WithToken, Row, Labels, DbAwaits
  <2> QED
    BY <1>4, <1>7, <2>1 DEF WriteToken, ConnWritten
<1>8. CASE RejectConnection(r) \/ UndecryptConnection(r) \/ FailConnection(r)
  <2>1. /\ AsFailed(conn[c]).state = "FAILED"
        /\ {"reject_job", "undecrypt_job", "fresh_read"} \subseteq Labels
    BY <1>1, <1>2 DEF AsFailed, Row, Labels, DbAwaits
  <2>2. conn[c].state # "COMPLETE"
    BY <1>1, <1>8 DEF RejectConnection, UndecryptConnection, FailConnection, At, Fits
  <2> QED
    BY <1>4, <1>8, <2>1, <2>2
       DEF RejectConnection, UndecryptConnection, FailConnection, ConnWritten
<1>9. CASE MarkPoll(r)
  <2>1. /\ AsPolled(conn[c]).state = conn[c].state /\ conn[c].state = "PROCESSING"
        /\ {"start_job", "undecrypt_conn"} \subseteq Labels
    BY <1>1, <1>2, <1>9 DEF MarkPoll, At, Fits, AsPolled, Row, Labels, DbAwaits
  <2> QED
    BY <1>4, <1>9, <2>1 DEF MarkPoll, ConnWritten
<1>10. CASE CompleteConnection(r)
  <2>1. job[c]["EXPERIAN"] = "COMPLETE" /\ "fresh_read" \in Labels
    BY <1>1, <1>10 DEF CompleteConnection, CompleteLocal, At, Labels, DbAwaits
  <2> QED
    BY <1>4, <1>10, <2>1 DEF CompleteConnection, ConnWritten
<1>11. CASE EnsurePullJobs(r)
  <2>1. conn' = conn /\ job' = [job EXCEPT ![c] = PendingJobs(@)] /\ Goto(r, "await_user")
    BY <1>11 DEF EnsurePullJobs
  <2>2. conn[c].state # "COMPLETE" /\ "await_user" \in Labels
    BY <1>1, <1>11 DEF EnsurePullJobs, At, Fits, Labels
  <2>3. pc'[r] = "await_user" /\ \A q \in Reqs : q # r => pc'[q] = pc[q] /\ req'[q] = req[q]
    BY <1>2, <2>1, <2>2, MovesLocal
  <2>4. CompleteLocal(r)'
    BY <2>3, NothingToKnow
  <2> HIDE DEF c
  <2>5. \A d \in Conns : d # c => conn'[d] = conn[d] /\ job'[d] = job[d]
    BY <1>2, <2>1
  <2>6. c \in Conns /\ conn[c].owner \in {UserOf[r], None} /\ conn'[c].state # "COMPLETE"
    BY <1>1, <2>1, <2>2
  <2> QED
    BY <2>3, <2>4, <2>5, <2>6, CompleteWrite
<1>12. CASE RejectJob(r) \/ UndecryptJob(r)
  <2>1. conn[c].state # "COMPLETE"
    BY <1>1, <1>12 DEF RejectJob, UndecryptJob, CompleteLocal, At
  <2> QED
    BY <1>5, <1>12, <2>1 DEF RejectJob, UndecryptJob, JobWritten
<1>13. CASE StartJob(r) \/ FailJob(r)
  <2>1. conn[c].state # "COMPLETE"
    BY <1>1, <1>13 DEF StartJob, FailJob, At, Fits
  <2> QED
    BY <1>5, <1>13, <2>1 DEF StartJob, FailJob, JobWritten
<1>14. CASE CompleteJob(r)
  BY <1>5, <1>14 DEF CompleteJob, JobWritten
<1> QED
  BY <1>6, <1>7, <1>8, <1>9, <1>10, <1>11, <1>12, <1>13, <1>14

LEMMA CompleteStep ==
  ASSUME Serial, TypeInv, SerialInv, CompleteInv, [Next]_vars
  PROVE  CompleteInv'
<1>1. ASSUME NEW r \in Reqs, CreateConnection(r)
      PROVE  CompleteInv'
  <2> DEFINE row == NewConnection(UserOf[r])
  <2>1. PICK c \in Conns : conn[c].state = "ABSENT" /\ conn' = [conn EXCEPT ![c] = row]
    BY <1>1 DEF CreateConnection, FreeIds
  <2>2. row.state # "COMPLETE"
    BY DEF NewConnection, NoRow
  <2>3. conn[c].owner = None /\ conn \in [Conns -> Row] /\ pc \in [Reqs -> Labels]
    BY <2>1 DEF SerialInv, TypeInv, SlotsOK, TablesOK
  <2> HIDE DEF row
  <2>4. /\ pc' = [pc EXCEPT ![r] = "idle"] /\ job' = job
        /\ \A q \in Reqs : q # r => req'[q] = req[q]
    BY <1>1, MovesLocal DEF CreateConnection, ConnWritten
  <2>5. CompleteLocal(r)'
    BY <2>3, <2>4, NothingToKnow
  <2> QED
    BY <2>1, <2>2, <2>3, <2>4, <2>5, CompleteWrite
<1>2. ASSUME NEW r \in Reqs, Arrive(r) \/ Serve(r) \/ DbThrows(r)
      PROVE  CompleteInv'
  BY <1>1, <1>2, MoversComplete, WritersComplete DEF Serve
<1>3. CASE Restart
  BY <1>3 DEF Restart, tables, CompleteInv, CompleteLocal
<1>4. ASSUME UNCHANGED <<job, pc, req>>, \A d \in Conns : conn'[d].state = conn[d].state
      PROVE  CompleteInv'
  <2>1. \A r \in Reqs : pc[r] \notin {"idle", "create"} => req[r].conn \in Conns
    BY DEF TypeInv, SlotsOK
  <2> QED
    BY <1>4, <2>1 DEF CompleteInv, CompleteLocal
<1>5. ASSUME NEW c \in Conns, DebounceExpires(c)
      PROVE  CompleteInv'
  <2>1. \A d \in Conns : conn'[d].state = conn[d].state
    BY <1>5 DEF DebounceExpires, TypeInv, TablesOK, Row
  <2> QED
    BY <1>4, <1>5, <2>1 DEF DebounceExpires
<1>6. CASE UNCHANGED vars
  BY <1>4, <1>6 DEF vars
<1> QED
  BY <1>2, <1>3, <1>5, <1>6 DEF Next

\* For clients that wait for each answer a status reply that says COMPLETE lists the EXPERIAN
\* job as COMPLETE, whatever failures, restarts and other users' requests come in between.
THEOREM RepliesComplete == ASSUME Serial PROVE Spec => CompleteReplies
<1>1. Init => SerialInv /\ CompleteInv
  BY DEF Init, NoRow, SerialInv, SerialLocal, CompleteInv, CompleteLocal
<1>2. TypeInv /\ SerialInv /\ CompleteInv /\ [Next]_vars => SerialInv' /\ CompleteInv'
  BY SerialStep, CompleteStep
<1>3. TypeInv /\ CompleteInv /\ [Next]_vars =>
        [\A r \in Reqs : ReplyStatus(r) /\ req[r].seen = "COMPLETE" =>
           job[req[r].conn]["EXPERIAN"] = "COMPLETE"]_vars
  BY DEF TypeInv, SlotsOK, CompleteInv, CompleteLocal, ReplyStatus, At
<1> QED
  BY <1>1, <1>2, <1>3, TypeInvariant, PTL DEF Spec, CompleteReplies

------------------------------------------------------------------------------
(* A connection settles *)

Owns(r, c) == conn[c].owner = UserOf[r]

\* What a step of q does to a connection: nothing, unless it is q's user's or nobody's yet.
LEMMA Touches ==
  ASSUME TypeInv, SerialInv, NEW q \in Reqs, Arrive(q) \/ Serve(q) \/ DbThrows(q),
         NEW c \in Conns
  PROVE  /\ conn'[c] # conn[c] => conn[c].owner \in {None, UserOf[q]}
         /\ conn'[c].owner \in {conn[c].owner, UserOf[q]}
         /\ consents \subseteq consents'
         /\ c \in consents' \ consents => conn[c].owner = UserOf[q]
         /\ \A r \in Reqs : r # q => req'[r] = req[r]
<1> DEFINE d == req[q].conn
<1>0. /\ conn \in [Conns -> Row] /\ req \in [Reqs -> Req]
      /\ pc[q] \notin {"idle", "create"} => d \in Conns /\ conn[d].owner = UserOf[q]
      /\ \A e \in Conns : conn[e].state = "ABSENT" => conn[e].owner = None
  BY DEF TypeInv, SlotsOK, TablesOK, SerialInv, SerialLocal
<1>1. CASE Arrive(q)
  <2>1. conn' = conn /\ consents' = consents /\ \E v : req' = [req EXCEPT ![q] = v]
    BY <1>1 DEF Arrive, StartConnection, SubmitIdentity, SubmitAddress, SubmitConsent,
       SubmitKiqAnswers, GetConnectionStatus, Begin, OnlyMoves, tables
  <2> QED
    BY <1>0, <2>1
<1>2. CASE \/ EnsurePullJobs(q) \/ UserReply(q) \/ AnswersReply(q) \/ RejectJob(q)
           \/ UndecryptJob(q) \/ StartJob(q) \/ ReportReply(q) \/ InsertScore(q)
           \/ CompleteJob(q) \/ FailJob(q) \/ ReplyStatus(q) \/ DbThrows(q)
  <2>1. conn' = conn /\ consents' = consents /\ (req' = req \/ req' = [req EXCEPT ![q] = NoReq])
    BY <1>2 DEF EnsurePullJobs, UserReply, AnswersReply, RejectJob, UndecryptJob, StartJob,
       ReportReply, InsertScore, CompleteJob, FailJob, ReplyStatus, DbThrows, Goto, Finish,
       JobWritten, OnlyMoves, tables
  <2> QED
    BY <1>0, <2>1
<1>3. CASE PullLoad(q) \/ FreshRead(q)
  <2>1. conn' = conn /\ consents' = consents /\ \A r \in Reqs : r # q => req'[r] = req[r]
    BY <1>0, <1>3 DEF PullLoad, FreshRead, Goto, Finish, OnlyMoves, tables
  <2> QED
    BY <2>1
<1>4. CASE CreateConsent(q)
  <2>1. /\ conn' = conn /\ consents' = consents \cup {d} /\ pc[q] = "create_consent"
        /\ req' = req \/ req' = [req EXCEPT ![q] = NoReq]
    BY <1>4 DEF CreateConsent, At, Goto, Finish
  <2> QED
    BY <1>0, <2>1
<1>5. CASE \/ WriteIdentity(q) \/ WriteAddress(q) \/ WriteKiq(q) \/ WriteToken(q)
           \/ RejectConnection(q) \/ MarkPoll(q) \/ UndecryptConnection(q)
           \/ CompleteConnection(q) \/ FailConnection(q)
  <2>1. pc[q] \notin {"idle", "create"} /\ consents' = consents
    BY <1>5 DEF WriteIdentity, WriteAddress, WriteKiq, WriteToken, RejectConnection, MarkPoll,
       UndecryptConnection, CompleteConnection, FailConnection, At, ConnWritten
  <2>2. conn[d] \in Row
    BY <1>0, <2>1
  <2>3. \E row : /\ row.owner = conn[d].owner
                 /\ conn' = [conn EXCEPT ![d] = row] \/ conn' = conn
                 /\ req' = req \/ req' = [req EXCEPT ![q] = NoReq]
    <3> HIDE DEF d
    <3>1. /\ AsFailed(conn[d]).owner = conn[d].owner /\ AsComplete(conn[d]).owner = conn[d].owner
          /\ AsPolled(conn[d]).owner = conn[d].owner /\ WithToken(conn[d]).owner = conn[d].owner
          /\ WithQuestions(conn[d]).owner = conn[d].owner
          /\ [conn[d] EXCEPT !.identity = piiKey, !.state = "AWAITING_ADDRESS"].owner = conn[d].owner
          /\ [conn[d] EXCEPT !.address = piiKey, !.state = "AWAITING_CONSENT"].owner = conn[d].owner
      BY <2>2 DEF AsFailed, AsComplete, AsPolled, WithToken, WithQuestions, Row
    <3> USE DEF d
    <3>2. ASSUME NEW row, row.owner = conn[d].owner,
                 \/ UpdateConnection(q, row, Finish(q), Finish(q))
                 \/ \E l : UpdateConnection(q, row, Goto(q, l), Goto(q, l))
          PROVE  /\ conn' = [conn EXCEPT ![d] = row] \/ conn' = conn
                 /\ req' = req \/ req' = [req EXCEPT ![q] = NoReq]
      BY <3>2 DEF UpdateConnection, Goto, Finish
    <3>3. CASE WriteIdentity(q) \/ WriteAddress(q)
      BY <3>1, <3>2, <3>3 DEF WriteIdentity, WriteAddress
    <3>4. CASE WriteKiq(q) \/ WriteToken(q) \/ RejectConnection(q)
      BY <3>1, <3>2, <3>4 DEF WriteKiq, WriteToken, RejectConnection
    <3>5. CASE MarkPoll(q)
      BY <3>1, <3>2, <3>5 DEF MarkPoll
    <3>6. CASE UndecryptConnection(q) \/ CompleteConnection(q) \/ FailConnection(q)
      BY <3>1, <3>2, <3>6 DEF UndecryptConnection, CompleteConnection, FailConnection
    <3> QED
      BY <1>5, <3>3, <3>4, <3>5, <3>6
  <2> HIDE DEF d
  <2> QED
    BY <1>0, <2>1, <2>3
<1>6. CASE CreateConnection(q)
  <2>1. PICK e \in Conns : /\ conn[e].state = "ABSENT"
                           /\ conn' = [conn EXCEPT ![e] = NewConnection(UserOf[q])]
    BY <1>6 DEF CreateConnection, FreeIds
  <2>2. consents' = consents /\ req' = [req EXCEPT ![q] = NoReq]
    BY <1>6 DEF CreateConnection, ConnWritten, Finish
  <2>3. NewConnection(UserOf[q]).owner = UserOf[q]
    BY DEF NewConnection, NoRow
  <2> QED
    BY <1>0, <2>1, <2>2, <2>3
<1> QED
  BY <1>1, <1>2, <1>3, <1>4, <1>5, <1>6 DEF Serve

\* So no other client's request comes between a client and its connection.
LEMMA OthersLeave ==
  ASSUME Serial, TypeInv, SerialInv, NEW q \in Reqs, Arrive(q) \/ Serve(q) \/ DbThrows(q),
         NEW r \in Reqs, q # r, NEW c \in Conns, Owns(r, c)
  PROVE  /\ conn'[c] = conn[c] /\ (c \in consents' <=> c \in consents)
         /\ pc'[r] = pc[r] /\ req'[r] = req[r]
<1>1. UserOf[q] # UserOf[r] /\ UserOf[r] # None
  BY BureauAssumption DEF Serial
<1>2. pc'[r] = pc[r]
  BY OthersStay DEF TypeInv, SlotsOK
<1> QED
  BY <1>1, <1>2, Touches DEF Owns

\* The stage a connection is in may only change to one that follows it.
LEMMA StageStep ==
  ASSUME TypeInv, [Wizard!Next]_(Wizard!wizard), NEW c \in Conns
  PROVE  IF conn[c].state = "ABSENT"
         THEN conn'[c].state \in {"ABSENT", "AWAITING_IDENTITY"}
         ELSE /\ conn'[c].owner = conn[c].owner
              /\ conn'[c].state \in {conn[c].state} \cup Wizard!Steps[conn[c].state]
<1> DEFINE stage == [d \in Conns |-> conn[d].state]
           owner == [d \in Conns |-> conn[d].owner]
<1>1. /\ stage[c] = conn[c].state /\ stage'[c] = conn'[c].state
      /\ owner[c] = conn[c].owner /\ owner'[c] = conn'[c].owner
      /\ DOMAIN stage = Conns /\ DOMAIN owner = Conns
  OBVIOUS
<1>2. CASE UNCHANGED Wizard!wizard
  <2>1. stage' = stage /\ owner' = owner
    BY <1>2 DEF Wizard!wizard
  <2> HIDE DEF stage, owner
  <2> QED
    BY <1>1, <2>1
<1>3. ASSUME NEW d \in Conns, NEW u \in Users, Wizard!Begin(u, d)
      PROVE  IF stage[c] = "ABSENT"
             THEN stage'[c] \in {"ABSENT", "AWAITING_IDENTITY"}
             ELSE owner'[c] = owner[c] /\ stage'[c] = stage[c]
  <2>1. /\ stage[d] = "ABSENT" /\ stage' = [stage EXCEPT ![d] = "AWAITING_IDENTITY"]
        /\ owner' = [owner EXCEPT ![d] = u]
    BY <1>3 DEF Wizard!Begin
  <2> HIDE DEF stage, owner
  <2> QED
    BY <1>1, <2>1
<1>4. ASSUME NEW d \in Conns, NEW s, Wizard!Step(d, s)
      PROVE  owner'[c] = owner[c] /\ stage'[c] \in {stage[c]} \cup Wizard!Steps[stage[c]]
  <2>1. s \in Wizard!Steps[stage[d]] /\ stage' = [stage EXCEPT ![d] = s] /\ owner' = owner
    BY <1>4 DEF Wizard!Step
  <2> HIDE DEF stage, owner
  <2> QED
    BY <1>1, <2>1
<1>5. Wizard!Steps["ABSENT"] = {}
  BY DEF Wizard!Steps
<1> HIDE DEF stage, owner
<1> QED
  BY <1>1, <1>2, <1>3, <1>4, <1>5 DEF Wizard!Next

\* The awaits of a handler that has taken the report of its connection upon itself.
ReportAwaits ==
  {"mark_poll", "undecrypt_conn", "start_job", "await_report", "insert_score", "complete_job",
   "complete_conn", "fail_job", "fail_conn"}

Processing(r, c) == conn[c].state = "PROCESSING" /\ Owns(r, c)

\* r's handler will fetch c's report, or is at it.
Settling(r, c) ==
  /\ req[r].conn = c
  /\ pc[r] \in ReportAwaits \/ (pc[r] = "pull_load" /\ ~Debounced(r, conn[c]))

\* Unless something fails, a handler that is at it ends with the connection complete or failed.
LEMMA SettlingServed ==
  ASSUME Serial, TypeInv, SafetyInv, NEW r \in Reqs, NEW c \in Conns,
         Processing(r, c), Settling(r, c), Serve(r), faults' = faults
  PROVE  Settling(r, c)' \/ conn'[c].state \in Terminal
<1>0. /\ conn \in [Conns -> Row] /\ conn[c] \in Row /\ pc \in [Reqs -> Labels]
      /\ req \in [Reqs -> Req] /\ req[r].conn = c /\ conn[c].state = "PROCESSING"
      /\ conn[c].token # None /\ faults \in Nat
  BY BureauAssumption DEF TypeInv, SlotsOK, TablesOK, SafetyInv, RowInv, Processing, Settling
<1>1. ASSUME NEW l \in ReportAwaits, pc' = [pc EXCEPT ![r] = l], req'[r].conn = req[r].conn
      PROVE  Settling(r, c)'
  BY <1>0, <1>1 DEF Settling
<1>2. CASE pc[r] = "pull_load"
  <2>1. PullLoad(r) /\ ~Debounced(r, conn[c])
    BY <1>2 DEF Serve, CreateConnection, WriteIdentity, WriteAddress, CreateConsent, EnsurePullJobs,
       UserReply, WriteKiq, WriteToken, RejectConnection, RejectJob, AnswersReply, MarkPoll,
       UndecryptConnection, UndecryptJob, StartJob, ReportReply, InsertScore, CompleteJob,
       CompleteConnection, FailJob, FailConnection, FreshRead, ReplyStatus, At, Settling, ReportAwaits
  <2>2. pc' = [pc EXCEPT ![r] = "mark_poll"] /\ req' = [req EXCEPT ![r].token = conn[c].token]
    BY <1>0, <2>1 DEF PullLoad
  <2>3. req'[r].conn = req[r].conn
    BY <1>0, <2>2 DEF Req
  <2> QED
    BY <1>1, <2>2, <2>3 DEF ReportAwaits
<1>3. CASE pc[r] \in ReportAwaits
  <2>1. \/ MarkPoll(r) \/ UndecryptConnection(r) \/ StartJob(r) \/ ReportReply(r)
        \/ InsertScore(r) \/ CompleteJob(r) \/ CompleteConnection(r) \/ FailJob(r)
        \/ FailConnection(r)
    BY <1>3 DEF Serve, CreateConnection, WriteIdentity, WriteAddress, CreateConsent, EnsurePullJobs,
       UserReply, WriteKiq, WriteToken, RejectConnection, RejectJob, AnswersReply, PullLoad,
       UndecryptJob, FreshRead, ReplyStatus, At, ReportAwaits
  <2>2. CASE \/ StartJob(r) \/ ReportReply(r) \/ InsertScore(r) \/ CompleteJob(r) \/ FailJob(r)
    BY <1>1, <2>2 DEF StartJob, ReportReply, AfterReport, InsertScore, AfterInsert, CompleteJob,
       FailJob, Goto, ReportAwaits
  <2>3. CASE MarkPoll(r)
    <3>1. \E l \in {"start_job", "undecrypt_conn"} : Goto(r, l)
      BY <2>3 DEF MarkPoll, UpdateConnection
    <3> QED
      BY <1>1, <3>1 DEF Goto, ReportAwaits
  <2>4. CASE UndecryptConnection(r) \/ CompleteConnection(r) \/ FailConnection(r)
    <3>1. faults' # faults + 1
      BY <1>0
    <3>2. conn' = [conn EXCEPT ![c] = AsFailed(conn[c])]
            \/ conn' = [conn EXCEPT ![c] = AsComplete(conn[c])]
      BY <1>0, <2>4, <3>1 DEF UndecryptConnection, CompleteConnection, FailConnection,
         UpdateConnection
    <3>3. AsFailed(conn[c]).state = "FAILED" /\ AsComplete(conn[c]).state = "COMPLETE"
      BY <1>0 DEF AsFailed, AsComplete, Row
    <3> QED
      BY <1>0, <3>2, <3>3 DEF Terminal
  <2> QED
    BY <2>1, <2>2, <2>3, <2>4
<1> QED
  BY <1>2, <1>3 DEF Settling

\* Only a handler that goes on to fetch the report starts the debounce of its connection.
LEMMA PolledByReaders ==
  ASSUME TypeInv, NEW q \in Reqs, Arrive(q) \/ Serve(q) \/ DbThrows(q), NEW c \in Conns,
         ~conn[c].polled
  PROVE  ~conn'[c].polled \/ (MarkPoll(q) /\ req[q].conn = c)
<1> DEFINE d == req[q].conn
<1>0. conn \in [Conns -> Row] /\ (pc[q] \notin {"idle", "create"} => d \in Conns)
  BY DEF TypeInv, SlotsOK, TablesOK
<1>1. CASE \/ Arrive(q) \/ CreateConsent(q) \/ EnsurePullJobs(q) \/ UserReply(q) \/ AnswersReply(q)
           \/ RejectJob(q) \/ PullLoad(q) \/ UndecryptJob(q) \/ StartJob(q) \/ ReportReply(q)
           \/ InsertScore(q) \/ CompleteJob(q) \/ FailJob(q) \/ FreshRead(q) \/ ReplyStatus(q)
           \/ DbThrows(q)
  <2>1. conn' = conn
    BY <1>1 DEF Arrive, StartConnection, SubmitIdentity, SubmitAddress, SubmitConsent,
       SubmitKiqAnswers, GetConnectionStatus, CreateConsent, EnsurePullJobs, UserReply, AnswersReply,
       RejectJob, PullLoad, UndecryptJob, StartJob, ReportReply, InsertScore, CompleteJob, FailJob,
       FreshRead, ReplyStatus, DbThrows, JobWritten, OnlyMoves, tables
  <2> QED
    BY <2>1
<1>2. CASE CreateConnection(q)
  <2>1. \E e \in Conns, u \in Users : conn' = [conn EXCEPT ![e] = NewConnection(u)]
    BY <1>2, BureauAssumption DEF CreateConnection, FreeIds
  <2>2. \A u \in Users : ~NewConnection(u).polled
    BY DEF NewConnection, NoRow
  <2> QED
    BY <1>0, <2>1, <2>2
<1>3. CASE MarkPoll(q)
  <2>1. pc[q] = "mark_poll" /\ \E row : conn' = [conn EXCEPT ![d] = row] \/ conn' = conn
    BY <1>3 DEF MarkPoll, UpdateConnection, At
  <2> QED
    BY <1>0, <1>3, <2>1
<1>4. CASE \/ WriteIdentity(q) \/ WriteAddress(q) \/ WriteKiq(q) \/ WriteToken(q)
           \/ RejectConnection(q) \/ UndecryptConnection(q) \/ CompleteConnection(q)
           \/ FailConnection(q)
  <2>1. d \in Conns /\ conn[d] \in Row
    BY <1>0, <1>4 DEF WriteIdentity, WriteAddress, WriteKiq, WriteToken, RejectConnection,
       UndecryptConnection, CompleteConnection, FailConnection, At
  <2>2. \E row : /\ conn' = [conn EXCEPT ![d] = row] \/ conn' = conn
                 /\ row \in {AsFailed(conn[d]), AsComplete(conn[d]), WithToken(conn[d]),
                             WithQuestions(conn[d]),
                             [conn[d] EXCEPT !.identity = piiKey, !.state = "AWAITING_ADDRESS"],
                             [conn[d] EXCEPT !.address = piiKey, !.state = "AWAITING_CONSENT"]}
    BY <1>4 DEF WriteIdentity, WriteAddress, WriteKiq, WriteToken, RejectConnection,
       UndecryptConnection, CompleteConnection, FailConnection, UpdateConnection
  <2> HIDE DEF d
  <2>3. \A row \in {AsFailed(conn[d]), AsComplete(conn[d]), WithToken(conn[d]),
                    WithQuestions(conn[d]),
                    [conn[d] EXCEPT !.identity = piiKey, !.state = "AWAITING_ADDRESS"],
                    [conn[d] EXCEPT !.address = piiKey, !.state = "AWAITING_CONSENT"]} :
          row.polled = conn[d].polled
    BY <2>1 DEF AsFailed, AsComplete, WithToken, WithQuestions, Row
  <2> QED
    BY <1>0, <2>1, <2>2, <2>3
<1> QED
  BY <1>1, <1>2, <1>3, <1>4 DEF Serve

\* What a step does to a connection in PROCESSING and to the handler that settles it.
LEMMA ProcessingStep ==
  ASSUME Serial, TypeInv, SafetyInv, SerialInv, NEW r \in Reqs, NEW c \in Conns,
         Processing(r, c), [Next]_vars
  PROVE  /\ Processing(r, c)' \/ conn'[c].state \in Terminal
         /\ Settling(r, c) /\ [UNCHANGED <<faults, restarts>>]_vars
              => Settling(r, c)' \/ conn'[c].state \in Terminal
         /\ ~conn[c].polled => ~conn'[c].polled \/ Settling(r, c)
         /\ ~conn[c].polled /\ <<GetConnectionStatus(r, c)>>_vars => Settling(r, c)'
<1>0. /\ conn \in [Conns -> Row] /\ conn[c] \in Row /\ pc \in [Reqs -> Labels]
      /\ req \in [Reqs -> Req] /\ conn[c].state = "PROCESSING" /\ Owns(r, c)
      /\ faults \in Nat /\ restarts \in Nat
  BY BureauAssumption DEF TypeInv, SlotsOK, TablesOK, Processing
<1>1. Processing(r, c)' \/ conn'[c].state \in Terminal
  <2>1. [Wizard!Next]_(Wizard!wizard)
    BY SerialStep
  <2>2. /\ conn'[c].owner = conn[c].owner
        /\ conn'[c].state \in {"PROCESSING", "COMPLETE", "FAILED"}
    BY <1>0, <2>1, StageStep DEF Wizard!Steps
  <2> QED
    BY <1>0, <2>2 DEF Processing, Owns, Terminal
<1>2. ASSUME Settling(r, c), UNCHANGED <<faults, restarts>>
      PROVE  Settling(r, c)' \/ conn'[c].state \in Terminal
  <2>1. faults' # faults + 1 /\ restarts' # restarts + 1
    BY <1>0, <1>2
  <2>2. CASE Serve(r)
    BY <1>2, <2>2, SettlingServed
  <2>3. ~Arrive(r) /\ ~DbThrows(r) /\ ~Restart
    BY <1>2, <2>1 DEF Settling, ReportAwaits, Arrive, StartConnection, SubmitIdentity,
       SubmitAddress, SubmitConsent, SubmitKiqAnswers, GetConnectionStatus, LoadedIn, At, DbThrows,
       Restart
  <2>4. ASSUME NEW q \in Reqs, q # r, Arrive(q) \/ Serve(q) \/ DbThrows(q)
        PROVE  Settling(r, c)'
    <3>1. conn'[c] = conn[c] /\ pc'[r] = pc[r] /\ req'[r] = req[r]
      BY <1>0, <2>4, OthersLeave
    <3> QED
      BY <1>2, <3>1 DEF Settling, Debounced
  <2>5. ASSUME NEW d \in Conns, DebounceExpires(d)
        PROVE  Settling(r, c)'
    <3>1. pc' = pc /\ req' = req /\ (conn'[c] = conn[c] \/ ~conn'[c].polled)
      BY <1>0, <2>5 DEF DebounceExpires, Row
    <3> QED
      BY <1>2, <3>1 DEF Settling, Debounced
  <2>6. CASE UNCHANGED vars
    BY <1>2, <2>6 DEF vars, Settling, Debounced
  <2> QED
    BY <2>2, <2>3, <2>4, <2>5, <2>6 DEF Next
<1>3. ASSUME ~conn[c].polled
      PROVE  ~conn'[c].polled \/ Settling(r, c)
  <2>1. ASSUME NEW q \in Reqs, MarkPoll(q), req[q].conn = c
        PROVE  Settling(r, c)
    <3>1. pc[q] = "mark_poll" /\ conn[c].owner = UserOf[q]
      BY <2>1 DEF MarkPoll, At, SerialInv, SerialLocal
    <3>2. q = r
      BY <1>0, <3>1 DEF Owns, Serial
    <3> QED
      BY <2>1, <3>1, <3>2 DEF Settling, ReportAwaits
  <2>2. ASSUME Restart \/ (\E d \in Conns : DebounceExpires(d)) \/ UNCHANGED vars
        PROVE  ~conn'[c].polled
    BY <1>0, <1>3, <2>2 DEF Restart, DebounceExpires, tables, vars, Row
  <2> QED
    BY <1>3, <2>1, <2>2, PolledByReaders DEF Next
<1>4. ASSUME ~conn[c].polled, GetConnectionStatus(r, c)
      PROVE  Settling(r, c)'
  <2>1. conn' = conn /\ Begin(r, "status", c, "pull_load")
    BY <1>0, <1>4 DEF GetConnectionStatus, OnlyMoves, tables
  <2>2. pc'[r] = "pull_load" /\ req'[r].conn = c
    BY <1>0, <2>1, MovesLocal DEF Labels, DbAwaits
  <2> QED
    BY <1>4, <2>1, <2>2 DEF Settling, Debounced
<1> QED
  BY <1>1, <1>2, <1>3, <1>4 DEF vars

\* A connection that is there was started from a slot of its owner's.
HasSlot(c) == conn[c].state # "ABSENT" => \E r \in Reqs : Owns(r, c)
OwnersInv == SerialInv /\ \A c \in Conns : HasSlot(c)

LEMMA OwnersInvariant == ASSUME Serial PROVE Spec => []OwnersInv
<1>1. Init => OwnersInv
  BY DEF Init, NoRow, SerialInv, SerialLocal, HasSlot, OwnersInv
<1>2. ASSUME TypeInv, SerialInv, NEW c \in Conns, HasSlot(c), [Next]_vars
      PROVE  HasSlot(c)'
  <2>1. [Wizard!Next]_(Wizard!wizard) /\ SerialInv'
    BY <1>2, SerialStep
  <2>2. CASE conn[c].state # "ABSENT"
    BY <1>2, <2>1, <2>2, StageStep DEF HasSlot, Owns
  <2>3. CASE conn[c].state = "ABSENT"
    <3>1. ASSUME NEW q \in Reqs, Arrive(q) \/ Serve(q) \/ DbThrows(q)
          PROVE  conn'[c].owner \in {None, UserOf[q]}
      BY <1>2, <2>3, <3>1, Touches DEF SerialInv
    <3>2. ASSUME Restart \/ (\E d \in Conns : DebounceExpires(d)) \/ UNCHANGED vars
          PROVE  conn'[c].owner = None
      BY <1>2, <2>3, <3>2
      DEF Restart, DebounceExpires, tables, vars, TypeInv, TablesOK, Row, SerialInv
    <3>3. conn'[c].state # "ABSENT" => conn'[c].owner # None
      BY <2>1 DEF SerialInv
    <3> QED
      BY <1>2, <3>1, <3>2, <3>3 DEF Next, HasSlot, Owns
  <2> QED
    BY <2>2, <2>3
<1>3. TypeInv /\ OwnersInv /\ [Next]_vars => OwnersInv'
  BY <1>2, SerialStep DEF OwnersInv
<1> QED
  BY <1>1, <1>3, TypeInvariant, PTL DEF Spec

\* What the settling of a connection needs of its client, of time and of the environment: the
\* client polls again and again when it may (what SF_vars(GetConnectionStatus(r, c)) says,
\* enabled exactly when Idle(r) /\ Owns(r, c)), each debounce expires (WF_vars(DebounceExpires(c))
\* says so), and the database and the process fail finitely often (MaxFaults and MaxRestarts
\* bound them).
Polls(r, c) == []<>(Idle(r) /\ Owns(r, c)) => []<><<GetConnectionStatus(r, c)>>_vars
PollDue(c) == ~conn[c].polled
Elapses(c) == []<>PollDue(c)
FailuresEnd == <>[][UNCHANGED <<faults, restarts>>]_vars

Settled(c) == conn[c].state \in Terminal
Settles(r, c) == [](Processing(r, c) => <>Settled(c))

LEMMA SettlesOne ==
  ASSUME Serial, NEW r \in Reqs, NEW c \in Conns
  PROVE  Spec /\ Served(r) /\ Polls(r, c) /\ Elapses(c) /\ FailuresEnd => Settles(r, c)
<1>1. /\ TypeInv /\ SafetyInv /\ SerialInv /\ Processing(r, c) /\ [Next]_vars
        => /\ Processing(r, c)' \/ Settled(c)'
           /\ Settling(r, c) /\ [UNCHANGED <<faults, restarts>>]_vars
                => Settling(r, c)' \/ Settled(c)'
           /\ PollDue(c) => PollDue(c)' \/ Settling(r, c)
           /\ PollDue(c) /\ <<GetConnectionStatus(r, c)>>_vars => Settling(r, c)'
  BY ProcessingStep DEF Settled, PollDue
<1>2. Settling(r, c) => pc[r] # "idle"
  BY DEF Settling, ReportAwaits
<1>3. Processing(r, c) => Owns(r, c)
  BY DEF Processing
<1>4. (Idle(r) <=> pc[r] = "idle") /\ (Idle(r) <=> ~(pc[r] # "idle"))
  BY DEF Idle
<1>5. Spec /\ Served(r) => (pc[r] # "idle" ~> pc[r] = "idle")
  BY AnsweredOne
<1>6. OwnersInv => SerialInv
  BY DEF OwnersInv
<1>7. Spec => []OwnersInv
  BY OwnersInvariant
<1> QED
  BY <1>1, <1>2, <1>3, <1>4, <1>5, <1>6, <1>7, SafetyInvariant, PTL
  DEF Spec, Polls, Elapses, FailuresEnd, Settles

\* A connection in PROCESSING reaches COMPLETE or FAILED for a client that waits for each
\* answer and keeps polling, after whatever crashes, changes of the PII key and failing
\* database calls, once these stop.
THEOREM PollingSettles ==
  ASSUME Serial
  PROVE  Spec /\ FailuresEnd
           /\ (\A r \in Reqs : Served(r)) /\ (\A c \in Conns : Elapses(c))
           /\ (\A r \in Reqs : \A c \in Conns : Polls(r, c))
         => ProcessingSettles
<1> SUFFICES ASSUME NEW c \in Conns
             PROVE  Spec /\ FailuresEnd /\ (\A r \in Reqs : Served(r)) /\ Elapses(c)
                      /\ (\A r \in Reqs : Polls(r, c))
                    => (conn[c].state = "PROCESSING" ~> conn[c].state \in Terminal)
  BY DEF ProcessingSettles
<1>1. Spec /\ FailuresEnd /\ (\A r \in Reqs : Served(r)) /\ Elapses(c)
        /\ (\A r \in Reqs : Polls(r, c))
      => \A r \in Reqs : Settles(r, c)
  BY SettlesOne
<1>2. (\A r \in Reqs : Settles(r, c)) => [](\A r \in Reqs : Processing(r, c) => <>Settled(c))
  BY DEF Settles
<1>3. (\A r \in Reqs : Processing(r, c) => <>Settled(c))
      => ((\E r \in Reqs : Processing(r, c)) => <>Settled(c))
  OBVIOUS
<1>4. OwnersInv /\ conn[c].state = "PROCESSING" => \E r \in Reqs : Processing(r, c)
  BY DEF OwnersInv, HasSlot, Processing
<1>5. Settled(c) <=> conn[c].state \in Terminal
  BY DEF Settled
<1>6. Spec => []OwnersInv
  BY OwnersInvariant
<1> QED
  BY <1>1, <1>2, <1>3, <1>4, <1>5, <1>6, PTL

------------------------------------------------------------------------------
(* A client that goes on finishes *)

Unharmed == faults = 0 /\ restarts = 0

\* The awaits of the consent request that has the consent on record.
ConsentAwaits == {"ensure_jobs", "await_user", "write_kiq", "write_token", "reject_conn"}
Consenting(r, c) == req[r].conn = c /\ pc[r] \in ConsentAwaits

\* While nothing has failed, every PII column is readable with the current key, and a consent
\* on record is one whose request goes on to move the connection: nothing holds a client up.
OpenInv ==
  Unharmed =>
    \A c \in Conns :
      /\ conn[c].identity \in {None, piiKey} /\ conn[c].address \in {None, piiKey}
      /\ conn[c].session \in {None, piiKey}
      /\ c \in consents => conn[c].state \notin {"ABSENT", "AWAITING_IDENTITY", "AWAITING_ADDRESS"}
      /\ c \in consents /\ conn[c].state = "AWAITING_CONSENT" => \E r \in Reqs : Consenting(r, c)

\* r's handler is at a step of c's wizard.
Working(r, c) == req[r].conn = c /\ pc[r] \in StepAwaits \cup {"reject_conn"}

\* What strands a connection: its consent is on record and no handler goes on with it, so that
\* every later submission meets the unique connectionId; or what the next step needs was
\* encrypted under another key.
Stranded(c) ==
  /\ c \in consents /\ conn[c].state = "AWAITING_CONSENT"
  /\ \A r \in Reqs : ~Consenting(r, c)
Unreadable(c) ==
  \/ /\ conn[c].state = "AWAITING_CONSENT"
     /\ ~(Decrypts(conn[c].identity) /\ Decrypts(conn[c].address))
  \/ conn[c].state = "AWAITING_EXPERIAN_KIQ" /\ ~Decrypts(conn[c].session)
Stuck(c) == Stranded(c) \/ Unreadable(c)

\* Experian's answer to a verification is a token, a set of questions or a failure.
LEMMA UserReplies == \A exp \in SubmitUserResults : AfterUserReply(exp) # "unexpected"
  BY DEF SubmitUserResults, SubmitUserResult, UserThrew, UserVerified, UserQuestioned, AfterUserReply

LEMMA UnharmedStep ==
  ASSUME TypeInv, Unharmed', [Next]_vars
  PROVE  /\ Unharmed /\ faults' = faults /\ restarts' = restarts /\ piiKey' = piiKey
         /\ ~Restart /\ \A r \in Reqs : ~DbThrows(r)
<1>0. faults \in Nat /\ restarts \in Nat
  BY BureauAssumption DEF TypeInv, TablesOK
<1>1. ~Restart /\ \A r \in Reqs : ~DbThrows(r)
  BY <1>0 DEF Restart, DbThrows, Unharmed
<1>2. ASSUME NEW r \in Reqs, Arrive(r)
      PROVE  faults' = faults /\ restarts' = restarts /\ piiKey' = piiKey
  BY <1>2 DEF Arrive, StartConnection, SubmitIdentity, SubmitAddress, SubmitConsent,
     SubmitKiqAnswers, GetConnectionStatus, OnlyMoves, server
<1>3. ASSUME NEW r \in Reqs,
             \/ CreateConnection(r) \/ CreateConsent(r) \/ EnsurePullJobs(r) \/ UserReply(r)
             \/ RejectJob(r) \/ AnswersReply(r) \/ PullLoad(r) \/ UndecryptJob(r) \/ StartJob(r)
             \/ ReportReply(r) \/ InsertScore(r) \/ CompleteJob(r) \/ FailJob(r) \/ FreshRead(r)
             \/ ReplyStatus(r)
      PROVE  faults' = faults /\ restarts' = restarts /\ piiKey' = piiKey
  BY <1>3 DEF CreateConnection, CreateConsent, EnsurePullJobs, UserReply, RejectJob, AnswersReply,
     PullLoad, UndecryptJob, StartJob, ReportReply, InsertScore, CompleteJob, FailJob, FreshRead,
     ReplyStatus, OnlyMoves, ConnWritten, JobWritten, server
<1>4. ASSUME NEW r \in Reqs,
             \/ WriteIdentity(r) \/ WriteAddress(r) \/ WriteKiq(r) \/ WriteToken(r)
             \/ RejectConnection(r) \/ MarkPoll(r) \/ UndecryptConnection(r)
             \/ CompleteConnection(r) \/ FailConnection(r)
      PROVE  faults' = faults /\ restarts' = restarts /\ piiKey' = piiKey
  <2>1. (faults' = faults \/ faults' = faults + 1) /\ restarts' = restarts /\ piiKey' = piiKey
    BY <1>4 DEF WriteIdentity, WriteAddress, WriteKiq, WriteToken, RejectConnection, MarkPoll,
       UndecryptConnection, CompleteConnection, FailConnection, UpdateConnection, ConnWritten, server
  <2> QED
    BY <1>0, <2>1 DEF Unharmed
<1>5. ASSUME (\E c \in Conns : DebounceExpires(c)) \/ UNCHANGED vars
      PROVE  faults' = faults /\ restarts' = restarts /\ piiKey' = piiKey
  BY <1>5 DEF DebounceExpires, server, vars
<1>6. faults' = faults /\ restarts' = restarts /\ piiKey' = piiKey
  BY <1>1, <1>2, <1>3, <1>4, <1>5 DEF Next, Serve
<1> QED
  BY <1>1, <1>6 DEF Unharmed

\* A PII column is left alone, cleared or written under the current key.
LEMMA ColumnsWritten ==
  ASSUME TypeInv, NEW q \in Reqs, Arrive(q) \/ Serve(q) \/ DbThrows(q), NEW c \in Conns
  PROVE  /\ conn'[c].identity \in {conn[c].identity, None, piiKey}
         /\ conn'[c].address \in {conn[c].address, None, piiKey}
         /\ conn'[c].session \in {conn[c].session, None, piiKey}
<1> DEFINE d == req[q].conn
<1>0. conn \in [Conns -> Row] /\ (pc[q] \notin {"idle", "create"} => d \in Conns)
  BY DEF TypeInv, SlotsOK, TablesOK
<1>1. CASE \/ Arrive(q) \/ CreateConsent(q) \/ EnsurePullJobs(q) \/ UserReply(q) \/ AnswersReply(q)
           \/ RejectJob(q) \/ PullLoad(q) \/ UndecryptJob(q) \/ StartJob(q) \/ ReportReply(q)
           \/ InsertScore(q) \/ CompleteJob(q) \/ FailJob(q) \/ FreshRead(q) \/ ReplyStatus(q)
           \/ DbThrows(q)
  <2>1. conn' = conn
    BY <1>1 DEF Arrive, StartConnection, SubmitIdentity, SubmitAddress, SubmitConsent,
       SubmitKiqAnswers, GetConnectionStatus, CreateConsent, EnsurePullJobs, UserReply, AnswersReply,
       RejectJob, PullLoad, UndecryptJob, StartJob, ReportReply, InsertScore, CompleteJob, FailJob,
       FreshRead, ReplyStatus, DbThrows, JobWritten, OnlyMoves, tables
  <2> QED
    BY <2>1
<1>2. CASE CreateConnection(q)
  <2>1. \E e \in Conns, u \in Users : conn' = [conn EXCEPT ![e] = NewConnection(u)]
    BY <1>2, BureauAssumption DEF CreateConnection, FreeIds
  <2>2. \A u \in Users : {NewConnection(u).identity, NewConnection(u).address,
                          NewConnection(u).session} = {None}
    BY DEF NewConnection, NoRow
  <2> QED
    BY <1>0, <2>1, <2>2
<1>3. CASE \/ WriteIdentity(q) \/ WriteAddress(q) \/ WriteKiq(q) \/ WriteToken(q)
           \/ RejectConnection(q) \/ MarkPoll(q) \/ UndecryptConnection(q)
           \/ CompleteConnection(q) \/ FailConnection(q)
  <2> DEFINE rows == {AsFailed(conn[d]), AsComplete(conn[d]), AsPolled(conn[d]),
                      WithToken(conn[d]), WithQuestions(conn[d]),
                      [conn[d] EXCEPT !.identity = piiKey, !.state = "AWAITING_ADDRESS"],
                      [conn[d] EXCEPT !.address = piiKey, !.state = "AWAITING_CONSENT"]}
  <2>1. d \in Conns /\ conn[d] \in Row
    BY <1>0, <1>3 DEF WriteIdentity, WriteAddress, WriteKiq, WriteToken, RejectConnection, MarkPoll,
       UndecryptConnection, CompleteConnection, FailConnection, At
  <2>2. \E row \in rows : conn' = [conn EXCEPT ![d] = row] \/ conn' = conn
    BY <1>3 DEF WriteIdentity, WriteAddress, WriteKiq, WriteToken, RejectConnection, MarkPoll,
       UndecryptConnection, CompleteConnection, FailConnection, UpdateConnection
  <2> HIDE DEF d
  <2>3. \A row \in rows : /\ row.identity \in {conn[d].identity, None, piiKey}
                          /\ row.address \in {conn[d].address, None, piiKey}
                          /\ row.session \in {conn[d].session, None, piiKey}
    BY <2>1 DEF AsFailed, AsComplete, AsPolled, WithToken, WithQuestions, Row
  <2> HIDE DEF rows
  <2> QED
    BY <1>0, <2>1, <2>2, <2>3
<1> QED
  BY <1>1, <1>2, <1>3 DEF Serve

\* A consent request that has the consent on record moves its connection on.
LEMMA ConsentingServed ==
  ASSUME TypeInv, SerialInv, NEW r \in Reqs, NEW c \in Conns, Consenting(r, c), Serve(r),
         faults' = faults
  PROVE  Consenting(r, c)' \/ conn'[c].state \notin {conn[c].state, "AWAITING_CONSENT"}
<1>0. /\ conn \in [Conns -> Row] /\ conn[c] \in Row /\ pc \in [Reqs -> Labels]
      /\ req[r].conn = c /\ faults' # faults + 1 /\ Fits(pc[r], conn[c].state)
  BY BureauAssumption
  DEF TypeInv, SlotsOK, TablesOK, Consenting, ConsentAwaits, SerialInv, SerialLocal
<1>1. ASSUME NEW l \in ConsentAwaits, Goto(r, l)
      PROVE  Consenting(r, c)'
  BY <1>0, <1>1 DEF Goto, Consenting
<1>2. EnsurePullJobs(r) \/ UserReply(r) \/ WriteKiq(r) \/ WriteToken(r) \/ RejectConnection(r)
  BY DEF Consenting, ConsentAwaits, Serve, CreateConnection, WriteIdentity, WriteAddress,
     CreateConsent, RejectJob, AnswersReply, PullLoad, MarkPoll, UndecryptConnection, UndecryptJob,
     StartJob, ReportReply, InsertScore, CompleteJob, CompleteConnection, FailJob, FailConnection,
     FreshRead, ReplyStatus, At
<1>3. CASE EnsurePullJobs(r)
  BY <1>1, <1>3 DEF EnsurePullJobs, ConsentAwaits
<1>4. CASE UserReply(r)
  <2>1. PICK exp \in SubmitUserResults :
           IF AfterUserReply(exp) = "unexpected" THEN Finish(r) ELSE Goto(r, AfterUserReply(exp))
    BY <1>4 DEF UserReply
  <2>2. AfterUserReply(exp) \in ConsentAwaits
    BY UserReplies DEF AfterUserReply, ConsentAwaits
  <2> QED
    BY <1>1, <2>1, <2>2, UserReplies
<1>5. /\ WithQuestions(conn[c]).state = "AWAITING_EXPERIAN_KIQ"
      /\ WithToken(conn[c]).state = "PROCESSING" /\ AsFailed(conn[c]).state = "FAILED"
  BY <1>0 DEF WithQuestions, WithToken, AsFailed, Row
<1>6. CASE WriteKiq(r)
  <2>1. conn' = [conn EXCEPT ![c] = WithQuestions(conn[c])] /\ pc[r] = "write_kiq"
    BY <1>0, <1>6 DEF WriteKiq, UpdateConnection, At
  <2> QED
    BY <1>0, <1>5, <2>1 DEF Fits
<1>7. CASE WriteToken(r)
  <2>1. conn' = [conn EXCEPT ![c] = WithToken(conn[c])] /\ pc[r] = "write_token"
    BY <1>0, <1>7 DEF WriteToken, UpdateConnection, At
  <2> QED
    BY <1>0, <1>5, <2>1 DEF Fits
<1>8. CASE RejectConnection(r)
  <2>1. conn' = [conn EXCEPT ![c] = AsFailed(conn[c])] /\ pc[r] = "reject_conn"
    BY <1>0, <1>8 DEF RejectConnection, UpdateConnection, At
  <2> QED
    BY <1>0, <1>5, <2>1 DEF Fits
<1> QED
  BY <1>2, <1>3, <1>4, <1>6, <1>7, <1>8

LEMMA OpenStep ==
  ASSUME Serial, TypeInv, SerialInv, OpenInv, [Next]_vars
  PROVE  OpenInv'
<1> SUFFICES ASSUME Unharmed', NEW c \in Conns
             PROVE  /\ conn'[c].identity \in {None, piiKey'} /\ conn'[c].address \in {None, piiKey'}
                    /\ conn'[c].session \in {None, piiKey'}
                    /\ c \in consents' => conn'[c].state \notin {"ABSENT", "AWAITING_IDENTITY", "AWAITING_ADDRESS"}
                    /\ c \in consents' /\ conn'[c].state = "AWAITING_CONSENT"
                         => \E r \in Reqs : Consenting(r, c)'
  BY DEF OpenInv
<1>1. /\ Unharmed /\ faults' = faults /\ piiKey' = piiKey
      /\ ~Restart /\ \A r \in Reqs : ~DbThrows(r)
  BY UnharmedStep
<1>2. /\ conn[c].identity \in {None, piiKey} /\ conn[c].address \in {None, piiKey}
      /\ conn[c].session \in {None, piiKey}
      /\ c \in consents => conn[c].state \notin {"ABSENT", "AWAITING_IDENTITY", "AWAITING_ADDRESS"}
      /\ c \in consents /\ conn[c].state = "AWAITING_CONSENT" => \E r \in Reqs : Consenting(r, c)
  BY <1>1 DEF OpenInv
<1>3. CASE (\E d \in Conns : DebounceExpires(d)) \/ UNCHANGED vars
  <2>1. /\ pc' = pc /\ req' = req /\ consents' = consents
        /\ conn'[c].state = conn[c].state /\ conn'[c].identity = conn[c].identity
        /\ conn'[c].address = conn[c].address /\ conn'[c].session = conn[c].session
    BY <1>3 DEF DebounceExpires, vars, TypeInv, TablesOK, Row
  <2> QED
    BY <1>1, <1>2, <2>1 DEF Consenting
<1>4. ASSUME NEW q \in Reqs, Arrive(q) \/ Serve(q)
      PROVE  /\ conn'[c].identity \in {None, piiKey} /\ conn'[c].address \in {None, piiKey}
             /\ conn'[c].session \in {None, piiKey}
             /\ c \in consents' => conn'[c].state \notin {"ABSENT", "AWAITING_IDENTITY", "AWAITING_ADDRESS"}
             /\ c \in consents' /\ conn'[c].state = "AWAITING_CONSENT"
                  => \E r \in Reqs : Consenting(r, c)'
  <2>1. /\ conn'[c].identity \in {None, piiKey} /\ conn'[c].address \in {None, piiKey}
        /\ conn'[c].session \in {None, piiKey}
    BY <1>2, <1>4, ColumnsWritten
  <2>2. IF conn[c].state = "ABSENT"
        THEN conn'[c].state \in {"ABSENT", "AWAITING_IDENTITY"}
        ELSE conn'[c].state \in {conn[c].state} \cup Wizard!Steps[conn[c].state]
    BY SerialStep, StageStep
  <2>3. conn[c].state \in States
    BY DEF TypeInv, TablesOK, Row
  <2>4. CASE c \in consents' \ consents
    <3>1. CreateConsent(q) /\ req[q].conn = c
      BY <1>4, <2>4 DEF Arrive, Serve, StartConnection, SubmitIdentity, SubmitAddress,
         SubmitConsent, SubmitKiqAnswers, GetConnectionStatus, CreateConnection, WriteIdentity,
         WriteAddress, CreateConsent, EnsurePullJobs, UserReply, WriteKiq, WriteToken,
         RejectConnection, RejectJob, AnswersReply, PullLoad, MarkPoll, UndecryptConnection,
         UndecryptJob, StartJob, ReportReply, InsertScore, CompleteJob, CompleteConnection, FailJob,
         FailConnection, FreshRead, ReplyStatus, OnlyMoves, tables, ConnWritten, JobWritten
    <3>2. conn' = conn /\ conn[c].state = "AWAITING_CONSENT" /\ Goto(q, "ensure_jobs")
      BY <2>4, <3>1 DEF CreateConsent, AfterConsent, At, SerialInv, SerialLocal, Fits
    <3>3. Consenting(q, c)'
      BY <3>1, <3>2 DEF Goto, Consenting, ConsentAwaits, TypeInv, SlotsOK
    <3> QED
      BY <2>1, <3>2, <3>3
  <2>5. CASE c \in consents
    <3>1. conn'[c].state \notin {"ABSENT", "AWAITING_IDENTITY", "AWAITING_ADDRESS"}
      BY <1>2, <2>2, <2>3, <2>5
      DEF Wizard!Steps, States, NonTerminal, Terminal
    <3>2. ASSUME conn'[c].state = "AWAITING_CONSENT"
          PROVE  \E r \in Reqs : Consenting(r, c)'
      <4>1. conn[c].state = "AWAITING_CONSENT"
        BY <1>2, <2>2, <2>3, <2>5, <3>2
        DEF Wizard!Steps, States, NonTerminal, Terminal
      <4>2. PICK r \in Reqs : Consenting(r, c)
        BY <1>2, <2>5, <4>1
      <4>3. Owns(r, c)
        BY <4>2 DEF Consenting, ConsentAwaits, Owns, SerialInv, SerialLocal
      <4>4. CASE q # r
        BY <1>4, <4>2, <4>3, <4>4, OthersLeave DEF Consenting
      <4>5. CASE q = r
        <5>1. ~Arrive(r)
          BY <4>2 DEF Consenting, ConsentAwaits, Arrive, StartConnection, SubmitIdentity,
             SubmitAddress, SubmitConsent, SubmitKiqAnswers, GetConnectionStatus, LoadedIn, At
        <5> QED
          BY <1>1, <1>4, <3>2, <4>2, <4>5, <5>1, ConsentingServed
      <4> QED
        BY <4>4, <4>5
    <3> QED
      BY <2>1, <3>1, <3>2
  <2>6. CASE c \notin consents'
    BY <2>1, <2>6
  <2> QED
    BY <2>4, <2>5, <2>6
<1> QED
  BY <1>1, <1>3, <1>4 DEF Next

LEMMA OpenInvariant == ASSUME Serial PROVE Spec => [](OwnersInv /\ OpenInv)
<1>1. Init => OpenInv
  BY DEF Init, NoRow, OpenInv
<1>2. TypeInv /\ OwnersInv /\ OpenInv /\ [Next]_vars => OpenInv'
  BY OpenStep DEF OwnersInv
<1>3. Spec => []OwnersInv
  BY OwnersInvariant
<1> QED
  BY <1>1, <1>2, <1>3, TypeInvariant, PTL DEF Spec

\* Unless something fails, each stretch of a step's handler brings it closer to the write that
\* moves its connection, or finds a consent on record that nobody goes on with.
LEMMA WorkingServed ==
  ASSUME Serial, TypeInv, SerialInv, NEW r \in Reqs, NEW c \in Conns, Owns(r, c),
         Working(r, c), Serve(r), faults' = faults
  PROVE  Working(r, c)' \/ conn'[c].state # conn[c].state \/ Stranded(c)'
<1>0. /\ conn \in [Conns -> Row] /\ conn[c] \in Row /\ pc \in [Reqs -> Labels]
      /\ req[r].conn = c /\ faults' # faults + 1 /\ Fits(pc[r], conn[c].state)
  BY BureauAssumption
  DEF TypeInv, SlotsOK, TablesOK, Working, StepAwaits, SerialInv, SerialLocal
<1>1. ASSUME NEW l \in StepAwaits \cup {"reject_conn"}, Goto(r, l)
      PROVE  Working(r, c)'
  BY <1>0, <1>1 DEF Goto, Working
<1>2. CASE pc[r] \in ConsentAwaits
  <2>1. Consenting(r, c)' \/ conn'[c].state # conn[c].state
    BY <1>0, <1>2, ConsentingServed DEF Consenting
  <2> QED
    BY <2>1 DEF Consenting, ConsentAwaits, Working, StepAwaits
<1>3. CASE pc[r] = "create_consent"
  <2>1. CreateConsent(r)
    BY <1>3 DEF Serve, CreateConnection, WriteIdentity, WriteAddress, EnsurePullJobs, UserReply,
       WriteKiq, WriteToken, RejectConnection, RejectJob, AnswersReply, PullLoad, MarkPoll,
       UndecryptConnection, UndecryptJob, StartJob, ReportReply, InsertScore, CompleteJob,
       CompleteConnection, FailJob, FailConnection, FreshRead, ReplyStatus, At
  <2>2. CASE c \notin consents
    BY <1>0, <1>1, <2>1, <2>2 DEF CreateConsent, AfterConsent, StepAwaits
  <2>3. CASE c \in consents
    <3>1. /\ conn' = conn /\ consents' = consents /\ conn[c].state = "AWAITING_CONSENT"
          /\ pc' = [pc EXCEPT ![r] = "idle"] /\ req' = [req EXCEPT ![r] = NoReq]
      BY <1>0, <1>3, <2>1, <2>3 DEF CreateConsent, AfterConsent, Finish, Fits
    <3>2. ASSUME NEW q \in Reqs, Consenting(q, c)'
          PROVE  FALSE
      <4>1. q # r /\ Consenting(q, c)
        BY <1>0, <3>1, <3>2 DEF Consenting, ConsentAwaits, TypeInv, SlotsOK
      <4>2. Owns(q, c)
        BY <4>1 DEF Consenting, ConsentAwaits, Owns, SerialInv, SerialLocal
      <4> QED
        BY <4>1, <4>2 DEF Owns, Serial
    <3> QED
      BY <2>3, <3>1, <3>2 DEF Stranded
  <2> QED
    BY <2>2, <2>3
<1>4. CASE pc[r] = "await_answers"
  <2>1. AnswersReply(r)
    BY <1>4 DEF Serve, CreateConnection, WriteIdentity, WriteAddress, CreateConsent, EnsurePullJobs,
       UserReply, WriteKiq, WriteToken, RejectConnection, RejectJob, PullLoad, MarkPoll,
       UndecryptConnection, UndecryptJob, StartJob, ReportReply, InsertScore, CompleteJob,
       CompleteConnection, FailJob, FailConnection, FreshRead, ReplyStatus, At
  <2>2. Goto(r, "write_token") \/ Goto(r, "reject_conn")
    BY <2>1 DEF AnswersReply
  <2> QED
    BY <1>1, <2>2 DEF StepAwaits
<1>5. CASE pc[r] \in {"write_identity", "write_address"}
  <2>1. WriteIdentity(r) \/ WriteAddress(r)
    BY <1>5 DEF Serve, CreateConnection, CreateConsent, EnsurePullJobs, UserReply, WriteKiq,
       WriteToken, RejectConnection, RejectJob, AnswersReply, PullLoad, MarkPoll,
       UndecryptConnection, UndecryptJob, StartJob, ReportReply, InsertScore, CompleteJob,
       CompleteConnection, FailJob, FailConnection, FreshRead, ReplyStatus, At
  <2>2. /\ [conn[c] EXCEPT !.identity = piiKey, !.state = "AWAITING_ADDRESS"].state = "AWAITING_ADDRESS"
        /\ [conn[c] EXCEPT !.address = piiKey, !.state = "AWAITING_CONSENT"].state = "AWAITING_CONSENT"
    BY <1>0 DEF Row
  <2>3. CASE WriteIdentity(r)
    <3>1. pc[r] = "write_identity" /\ conn' = [conn EXCEPT ![c] =
             [conn[c] EXCEPT !.identity = piiKey, !.state = "AWAITING_ADDRESS"]]
      BY <1>0, <2>3 DEF WriteIdentity, UpdateConnection, At
    <3> QED
      BY <1>0, <2>2, <3>1 DEF Fits
  <2>4. CASE WriteAddress(r)
    <3>1. pc[r] = "write_address" /\ conn' = [conn EXCEPT ![c] =
             [conn[c] EXCEPT !.address = piiKey, !.state = "AWAITING_CONSENT"]]
      BY <1>0, <2>4 DEF WriteAddress, UpdateConnection, At
    <3> QED
      BY <1>0, <2>2, <3>1 DEF Fits
  <2> QED
    BY <2>1, <2>3, <2>4
<1>6. pc[r] # "create"
  BY DEF Working, StepAwaits
<1> QED
  BY <1>2, <1>3, <1>4, <1>5, <1>6 DEF Working, StepAwaits, ConsentAwaits

\* What each request of the wizard needs to be taken up, and what taking it up does.
IdentityDue(r, c) == LoadedIn(r, c, "AWAITING_IDENTITY")
AddressDue(r, c) == LoadedIn(r, c, "AWAITING_ADDRESS") /\ conn[c].identity # None
ConsentDue(r, c) ==
  LoadedIn(r, c, "AWAITING_CONSENT") /\ Decrypts(conn[c].identity) /\ Decrypts(conn[c].address)
AnswersDue(r, c) ==
  LoadedIn(r, c, "AWAITING_EXPERIAN_KIQ") /\ conn[c].session # None /\ Decrypts(conn[c].session)

InStage(r, c, s) == conn[c].state = s /\ Owns(r, c)

\* Nothing keeps a user from the next step of the wizard but columns that cannot be read: the
\* guards of the request that is due are open whenever no other is being served.
LEMMA NextStepDue ==
  ASSUME SafetyInv, NEW r \in Reqs, NEW c \in Conns, Idle(r), ~Unreadable(c)
  PROVE  /\ InStage(r, c, "AWAITING_IDENTITY") => IdentityDue(r, c)
         /\ InStage(r, c, "AWAITING_ADDRESS") => AddressDue(r, c)
         /\ InStage(r, c, "AWAITING_CONSENT") => ConsentDue(r, c)
         /\ InStage(r, c, "AWAITING_EXPERIAN_KIQ") => AnswersDue(r, c)
<1>1. RowInv(c)
  BY DEF SafetyInv
<1> QED
  BY <1>1 DEF RowInv, Idle, InStage, Owns, IdentityDue, AddressDue, ConsentDue, AnswersDue,
     LoadedIn, At, Unreadable

LEMMA SubmitWorks ==
  ASSUME TypeInv, NEW r \in Reqs, NEW c \in Conns,
         \/ SubmitIdentity(r, c) \/ SubmitAddress(r, c) \/ SubmitConsent(r, c)
         \/ SubmitKiqAnswers(r, c)
  PROVE  Working(r, c)'
<1>1. ASSUME NEW op \in {"identity", "address", "consent", "kiq"}, NEW l \in StepAwaits,
             Begin(r, op, c, l)
      PROVE  Working(r, c)'
  <2>1. l \in Labels /\ pc \in [Reqs -> Labels]
    BY DEF StepAwaits, Labels, DbAwaits, TypeInv, SlotsOK
  <2>2. pc' = [pc EXCEPT ![r] = l] /\ req'[r].conn = c
    BY <1>1, <2>1, MovesLocal
  <2> QED
    BY <2>1, <2>2 DEF Working
<1> QED
  BY <1>1 DEF SubmitIdentity, SubmitAddress, SubmitConsent, SubmitKiqAnswers, StepAwaits

\* What a step does to a connection that waits for its user and to the handler at work on it.
LEMMA WorkingStep ==
  ASSUME Serial, TypeInv, SerialInv, NEW r \in Reqs, NEW c \in Conns, Owns(r, c),
         Working(r, c), UNCHANGED <<faults, restarts>>, [Next]_vars
  PROVE  Working(r, c)' \/ conn'[c].state # conn[c].state \/ Stranded(c)'
<1>1. faults' = faults /\ ~Restart /\ \A q \in Reqs : ~DbThrows(q)
  <2>1. faults \in Nat /\ restarts \in Nat
    BY BureauAssumption DEF TypeInv, TablesOK
  <2> QED
    BY <2>1 DEF Restart, DbThrows
<1>2. ~Arrive(r)
  BY DEF Working, StepAwaits, Arrive, StartConnection, SubmitIdentity, SubmitAddress, SubmitConsent,
     SubmitKiqAnswers, GetConnectionStatus, LoadedIn, At
<1>3. ASSUME NEW q \in Reqs, q # r, Arrive(q) \/ Serve(q)
      PROVE  Working(r, c)'
  BY <1>3, OthersLeave DEF Working
<1>4. CASE (\E d \in Conns : DebounceExpires(d)) \/ UNCHANGED vars
  BY <1>4 DEF DebounceExpires, vars, Working
<1> QED
  BY <1>1, <1>2, <1>3, <1>4, WorkingServed DEF Next

Due(r, c) == IdentityDue(r, c) \/ AddressDue(r, c) \/ ConsentDue(r, c) \/ AnswersDue(r, c)
Submit(r, c) ==
  SubmitIdentity(r, c) \/ SubmitAddress(r, c) \/ SubmitConsent(r, c) \/ SubmitKiqAnswers(r, c)

\* A client that goes on: it sends the request that is due again and again while it may.  The
\* fairness of the four requests in ClientFairness says so, Due(r, c) being when one of them
\* is enabled.
Submits(r, c) == []<>Due(r, c) => []<><<Submit(r, c)>>_vars

WaitingStages ==
  {"AWAITING_IDENTITY", "AWAITING_ADDRESS", "AWAITING_CONSENT", "AWAITING_EXPERIAN_KIQ"}
After(r, c, s) == Owns(r, c) /\ conn[c].state \in Wizard!Steps[s]
Advances(r, c, s) == [](InStage(r, c, s) => <>(After(r, c, s) \/ Stuck(c)))

LEMMA StagesAdvance ==
  ASSUME Serial, NEW r \in Reqs, NEW c \in Conns, NEW s \in WaitingStages
  PROVE  Spec /\ FailuresEnd /\ Served(r) /\ Submits(r, c) => Advances(r, c, s)
<1>1. TypeInv /\ OwnersInv /\ InStage(r, c, s) /\ [Next]_vars
        => InStage(r, c, s)' \/ After(r, c, s)'
  <2> SUFFICES ASSUME TypeInv, SerialInv, InStage(r, c, s), [Next]_vars
               PROVE  InStage(r, c, s)' \/ After(r, c, s)'
    BY DEF OwnersInv
  <2>1. [Wizard!Next]_(Wizard!wizard)
    BY SerialStep
  <2>2. conn[c].state = s /\ s # "ABSENT"
    BY DEF InStage, WaitingStages
  <2> QED
    BY <2>1, <2>2, StageStep DEF InStage, After, Owns
<1>2. TypeInv /\ OwnersInv /\ InStage(r, c, s) /\ Working(r, c) /\ [Next]_vars
        /\ [UNCHANGED <<faults, restarts>>]_vars
      => Working(r, c)' \/ ~InStage(r, c, s)' \/ Stuck(c)'
  <2> SUFFICES ASSUME TypeInv, SerialInv, InStage(r, c, s), Working(r, c), [Next]_vars,
                      [UNCHANGED <<faults, restarts>>]_vars
               PROVE  Working(r, c)' \/ ~InStage(r, c, s)' \/ Stuck(c)'
    BY DEF OwnersInv
  <2>1. UNCHANGED <<faults, restarts>>
    BY DEF vars
  <2> QED
    BY <2>1, WorkingStep DEF InStage, Stuck
<1>3. TypeInv /\ <<Submit(r, c)>>_vars => Working(r, c)'
  BY SubmitWorks DEF Submit
<1>4. SafetyInv /\ InStage(r, c, s) /\ Idle(r) => Due(r, c) \/ Stuck(c)
  BY NextStepDue DEF Due, WaitingStages, Stuck
<1>5. /\ Working(r, c) => pc[r] # "idle"
      /\ Idle(r) <=> pc[r] = "idle"
      /\ Idle(r) <=> ~(pc[r] # "idle")
  BY DEF Working, StepAwaits, Idle
<1>6. Spec /\ Served(r) => (pc[r] # "idle" ~> pc[r] = "idle")
  BY AnsweredOne
<1>7. Spec => []OwnersInv
  BY OwnersInvariant
<1> QED
  BY <1>1, <1>2, <1>3, <1>4, <1>5, <1>6, <1>7, SafetyInvariant, PTL
  DEF Spec, Submits, Advances, FailuresEnd

Ongoing(r, c) == conn[c].state \in NonTerminal /\ Owns(r, c)
Finishes(r, c) == [](Ongoing(r, c) => <>(Settled(c) \/ Stuck(c)))

LEMMA FinishesOne ==
  ASSUME Serial, NEW r \in Reqs, NEW c \in Conns
  PROVE  Spec /\ FailuresEnd /\ Served(r) /\ Polls(r, c) /\ Elapses(c) /\ Submits(r, c)
           => Finishes(r, c)
<1> DEFINE Premise == Spec /\ FailuresEnd /\ Served(r) /\ Submits(r, c)
<1>1. Premise => Advances(r, c, "AWAITING_IDENTITY")
  BY StagesAdvance DEF WaitingStages
<1>2. Premise => Advances(r, c, "AWAITING_ADDRESS")
  BY StagesAdvance DEF WaitingStages
<1>3. Premise => Advances(r, c, "AWAITING_CONSENT")
  BY StagesAdvance DEF WaitingStages
<1>4. Premise => Advances(r, c, "AWAITING_EXPERIAN_KIQ")
  BY StagesAdvance DEF WaitingStages
<1>5. Spec /\ Served(r) /\ Polls(r, c) /\ Elapses(c) /\ FailuresEnd => Settles(r, c)
  BY SettlesOne
<1>6. /\ Ongoing(r, c) => \/ InStage(r, c, "AWAITING_IDENTITY") \/ InStage(r, c, "AWAITING_ADDRESS")
                          \/ InStage(r, c, "AWAITING_CONSENT")
                          \/ InStage(r, c, "AWAITING_EXPERIAN_KIQ") \/ Processing(r, c)
      /\ After(r, c, "AWAITING_IDENTITY") => InStage(r, c, "AWAITING_ADDRESS")
      /\ After(r, c, "AWAITING_ADDRESS") => InStage(r, c, "AWAITING_CONSENT")
      /\ After(r, c, "AWAITING_CONSENT")
           => InStage(r, c, "AWAITING_EXPERIAN_KIQ") \/ Processing(r, c) \/ Settled(c)
      /\ After(r, c, "AWAITING_EXPERIAN_KIQ") => Processing(r, c) \/ Settled(c)
  BY DEF Ongoing, NonTerminal, Terminal, InStage, Processing, After, Settled, Wizard!Steps
<1> QED
  BY <1>1, <1>2, <1>3, <1>4, <1>5, <1>6, PTL DEF Settles, Advances, Finishes

\* A client that waits for each answer, sends the request that is due and polls sees every
\* connection complete or fail, after whatever crashes, changes of the PII key and failing
\* database calls, but for two dead ends: a consent on record that nobody goes on with, and
\* PII that the current key cannot read.
THEOREM FinishesOrStuck ==
  ASSUME Serial
  PROVE  Spec /\ FailuresEnd /\ (\A r \in Reqs : Served(r)) /\ (\A c \in Conns : Elapses(c))
           /\ (\A r \in Reqs : \A c \in Conns : Polls(r, c) /\ Submits(r, c))
         => \A c \in Conns : conn[c].state \in NonTerminal ~> (Settled(c) \/ Stuck(c))
<1> SUFFICES ASSUME NEW c \in Conns
             PROVE  Spec /\ FailuresEnd /\ (\A r \in Reqs : Served(r)) /\ Elapses(c)
                      /\ (\A r \in Reqs : Polls(r, c) /\ Submits(r, c))
                    => (conn[c].state \in NonTerminal ~> (Settled(c) \/ Stuck(c)))
  OBVIOUS
<1>1. Spec /\ FailuresEnd /\ (\A r \in Reqs : Served(r)) /\ Elapses(c)
        /\ (\A r \in Reqs : Polls(r, c) /\ Submits(r, c))
      => \A r \in Reqs : Finishes(r, c)
  BY FinishesOne
<1>2. (\A r \in Reqs : Finishes(r, c))
      => [](\A r \in Reqs : Ongoing(r, c) => <>(Settled(c) \/ Stuck(c)))
  BY DEF Finishes
<1>3. (\A r \in Reqs : Ongoing(r, c) => <>(Settled(c) \/ Stuck(c)))
      => ((\E r \in Reqs : Ongoing(r, c)) => <>(Settled(c) \/ Stuck(c)))
  OBVIOUS
<1>4. OwnersInv /\ conn[c].state \in NonTerminal => \E r \in Reqs : Ongoing(r, c)
  BY DEF OwnersInv, HasSlot, Ongoing, NonTerminal
<1>5. Spec => []OwnersInv
  BY OwnersInvariant
<1> QED
  BY <1>1, <1>2, <1>3, <1>4, <1>5, PTL

\* Without crash or database failure there is no dead end: the wizard always finishes for such
\* a client.
THEOREM GoingOnFinishes ==
  ASSUME Serial
  PROVE  Spec /\ (\A r \in Reqs : Served(r)) /\ (\A c \in Conns : Elapses(c))
           /\ (\A r \in Reqs : \A c \in Conns : Polls(r, c) /\ Submits(r, c))
         => WizardFinishes
<1> SUFFICES ASSUME NEW c \in Conns
             PROVE  Spec /\ []Unharmed /\ (\A r \in Reqs : Served(r))
                      /\ (\A d \in Conns : Elapses(d))
                      /\ (\A r \in Reqs : \A d \in Conns : Polls(r, d) /\ Submits(r, d))
                    => (conn[c].state \in NonTerminal ~> conn[c].state \in Terminal)
  BY DEF WizardFinishes, Unharmed
<1>1. Spec /\ FailuresEnd /\ (\A r \in Reqs : Served(r)) /\ (\A d \in Conns : Elapses(d))
        /\ (\A r \in Reqs : \A d \in Conns : Polls(r, d) /\ Submits(r, d))
      => (conn[c].state \in NonTerminal ~> (Settled(c) \/ Stuck(c)))
  BY FinishesOrStuck
<1>2. Unharmed /\ Unharmed' => UNCHANGED <<faults, restarts>>
  BY DEF Unharmed
<1>3. SafetyInv /\ OpenInv /\ Unharmed => ~Stuck(c)
  <2> SUFFICES ASSUME SafetyInv, OpenInv, Unharmed
               PROVE  ~Stuck(c)
    OBVIOUS
  <2>1. /\ conn[c].identity \in {None, piiKey} /\ conn[c].address \in {None, piiKey}
        /\ conn[c].session \in {None, piiKey} /\ RowInv(c)
        /\ c \in consents /\ conn[c].state = "AWAITING_CONSENT" => \E r \in Reqs : Consenting(r, c)
    BY DEF OpenInv, SafetyInv
  <2> QED
    BY <2>1 DEF RowInv, Stuck, Stranded, Unreadable, Decrypts
<1>4. Settled(c) <=> conn[c].state \in Terminal
  BY DEF Settled
<1>5. Spec => [](OwnersInv /\ OpenInv)
  BY OpenInvariant
<1> QED
  BY <1>1, <1>2, <1>3, <1>4, <1>5, SafetyInvariant, PTL DEF FailuresEnd

\* A handler that does not go on with the consent of a stranded connection does not begin to.
LEMMA StrandedSlot ==
  ASSUME TypeInv, SerialInv, NEW q \in Reqs, Arrive(q) \/ Serve(q) \/ DbThrows(q),
         NEW c \in Conns, Stranded(c)
  PROVE  ~Consenting(q, c)'
<1> SUFFICES ASSUME Consenting(q, c)'
             PROVE  FALSE
  OBVIOUS
<1>0. /\ pc \in [Reqs -> Labels] /\ req \in [Reqs -> Req] /\ ~Consenting(q, c)
      /\ c \in consents /\ conn[c].state = "AWAITING_CONSENT"
      /\ pc'[q] \in ConsentAwaits /\ req'[q].conn = c
      /\ pc[q] \notin {"idle", "create"} => Fits(pc[q], conn[req[q].conn].state)
  BY DEF TypeInv, SlotsOK, Stranded, Consenting, SerialInv, SerialLocal
<1>1. ~Arrive(q)
  <2> SUFFICES ASSUME NEW op \in {"start", "identity", "address", "consent", "kiq", "status"},
                      NEW d \in Conns \cup {None},
                      NEW l \in {"create", "write_identity", "write_address", "create_consent",
                                 "await_answers", "pull_load", "fresh_read"},
                      Begin(q, op, d, l)
               PROVE  FALSE
    BY DEF Arrive, StartConnection, SubmitIdentity, SubmitAddress, SubmitConsent,
       SubmitKiqAnswers, GetConnectionStatus
  <2> QED
    BY <1>0 DEF Begin, ConsentAwaits
<1>2. /\ pc[q] \in ConsentAwaits \cup {"create_consent", "await_answers"}
      /\ req'[q].conn = req[q].conn
  BY <1>0, <1>1
  DEF Serve, CreateConnection, WriteIdentity, WriteAddress, CreateConsent, EnsurePullJobs,
      UserReply, WriteKiq, WriteToken, RejectConnection, RejectJob, AnswersReply, PullLoad,
      MarkPoll, UndecryptConnection, UndecryptJob, StartJob, ReportReply, InsertScore, CompleteJob,
      CompleteConnection, FailJob, FailConnection, FreshRead, ReplyStatus, DbThrows, At, Goto,
      Finish, UpdateConnection, AfterConsent, AfterReport, AfterInsert, ConsentAwaits
<1>3. req[q].conn = c /\ pc[q] \in {"create_consent", "await_answers"}
  BY <1>0, <1>2 DEF Consenting
<1>4. pc[q] = "create_consent"
  BY <1>0, <1>3 DEF Fits
<1>5. CreateConsent(q) \/ DbThrows(q)
  BY <1>1, <1>4 DEF Serve, CreateConnection, WriteIdentity, WriteAddress, EnsurePullJobs, UserReply,
     WriteKiq, WriteToken, RejectConnection, RejectJob, AnswersReply, PullLoad, MarkPoll,
     UndecryptConnection, UndecryptJob, StartJob, ReportReply, InsertScore, CompleteJob,
     CompleteConnection, FailJob, FailConnection, FreshRead, ReplyStatus, At
<1>6. Finish(q)
  BY <1>0, <1>3, <1>4, <1>5 DEF CreateConsent, AfterConsent, DbThrows, GuardedAwaits
<1> QED
  BY <1>0, <1>6 DEF Finish, ConsentAwaits

\* Nor does any other handler write its state.
LEMMA StrandedRow ==
  ASSUME TypeInv, SerialInv, NEW q \in Reqs, Arrive(q) \/ Serve(q) \/ DbThrows(q),
         NEW c \in Conns, Stranded(c)
  PROVE  conn'[c].state = conn[c].state
<1> SUFFICES ASSUME conn'[c].state # conn[c].state
             PROVE  FALSE
  OBVIOUS
<1>0. /\ conn \in [Conns -> Row] /\ ~Consenting(q, c) /\ conn[c].state = "AWAITING_CONSENT"
      /\ pc[q] \notin {"idle", "create"} => Fits(pc[q], conn[req[q].conn].state)
  BY DEF TypeInv, TablesOK, Stranded, SerialInv, SerialLocal
<1>1. CASE \/ Arrive(q) \/ CreateConsent(q) \/ EnsurePullJobs(q) \/ UserReply(q) \/ AnswersReply(q)
           \/ RejectJob(q) \/ PullLoad(q) \/ UndecryptJob(q) \/ StartJob(q) \/ ReportReply(q)
           \/ InsertScore(q) \/ CompleteJob(q) \/ FailJob(q) \/ FreshRead(q) \/ ReplyStatus(q)
           \/ DbThrows(q)
  <2>1. conn' = conn
    BY <1>1 DEF Arrive, StartConnection, SubmitIdentity, SubmitAddress, SubmitConsent,
       SubmitKiqAnswers, GetConnectionStatus, CreateConsent, EnsurePullJobs, UserReply, AnswersReply,
       RejectJob, PullLoad, UndecryptJob, StartJob, ReportReply, InsertScore, CompleteJob, FailJob,
       FreshRead, ReplyStatus, DbThrows, JobWritten, OnlyMoves, tables
  <2> QED
    BY <2>1
<1>2. CASE CreateConnection(q)
  <2>1. \E e \in Conns : conn[e].state = "ABSENT" /\ \E row : conn' = [conn EXCEPT ![e] = row]
    BY <1>2 DEF CreateConnection, FreeIds
  <2> QED
    BY <1>0, <2>1
<1>3. CASE \/ WriteIdentity(q) \/ WriteAddress(q) \/ WriteKiq(q) \/ WriteToken(q)
           \/ RejectConnection(q) \/ MarkPoll(q) \/ UndecryptConnection(q)
           \/ CompleteConnection(q) \/ FailConnection(q)
  <2>1. /\ \E row : conn' = [conn EXCEPT ![req[q].conn] = row] \/ conn' = conn
        /\ pc[q] \in {"write_identity", "write_address", "write_kiq", "write_token", "reject_conn",
                      "mark_poll", "undecrypt_conn", "complete_conn", "fail_conn"}
    BY <1>3 DEF WriteIdentity, WriteAddress, WriteKiq, WriteToken, RejectConnection, MarkPoll,
       UndecryptConnection, CompleteConnection, FailConnection, UpdateConnection, At
  <2>2. req[q].conn = c
    BY <1>0, <2>1
  <2>3. pc[q] \in ConsentAwaits
    BY <1>0, <2>1, <2>2 DEF Fits, ConsentAwaits
  <2> QED
    BY <1>0, <2>2, <2>3 DEF Consenting
<1> QED
  BY <1>1, <1>2, <1>3 DEF Serve

\* A consent on record that nobody goes on with strands its connection for good, whatever the
\* client and the environment do: BureauStranded shows that one restart is enough.  The
\* connection blocks its user's start from then on.
THEOREM StrandedForGood ==
  ASSUME Serial
  PROVE  Spec => [][\A c \in Conns : Stranded(c) => Stranded(c)']_vars
<1>1. ASSUME TypeInv, SerialInv, NEW c \in Conns, Stranded(c), [Next]_vars
      PROVE  Stranded(c)'
  <2>1. /\ conn \in [Conns -> Row] /\ conn[c] \in Row /\ pc \in [Reqs -> Labels]
        /\ req \in [Reqs -> Req] /\ c \in consents /\ conn[c].state = "AWAITING_CONSENT"
    BY <1>1 DEF TypeInv, SlotsOK, TablesOK, Stranded
  <2>2. ASSUME NEW q \in Reqs, Arrive(q) \/ Serve(q) \/ DbThrows(q), NEW r \in Reqs
        PROVE  ~Consenting(r, c)'
    <3>1. CASE r # q
      <4>1. pc'[r] = pc[r] /\ req'[r] = req[r]
        BY <1>1, <2>2, <3>1, OthersStay, Touches DEF TypeInv, SlotsOK
      <4> QED
        BY <1>1, <4>1 DEF Stranded, Consenting
    <3>2. CASE r = q
      BY <1>1, <2>1, <2>2, <3>2, StrandedSlot
    <3> QED
      BY <3>1, <3>2
  <2>3. ASSUME NEW q \in Reqs, Arrive(q) \/ Serve(q) \/ DbThrows(q)
        PROVE  conn'[c].state = "AWAITING_CONSENT" /\ c \in consents'
    BY <1>1, <2>1, <2>3, StrandedRow, Touches
  <2>4. CASE Restart \/ (\E d \in Conns : DebounceExpires(d)) \/ UNCHANGED vars
    <3>1. /\ consents' = consents /\ conn'[c].state = conn[c].state
          /\ (pc' = pc /\ req' = req) \/ \A r \in Reqs : pc'[r] = "idle"
      BY <2>1, <2>4 DEF Restart, DebounceExpires, tables, vars, Row
    <3> QED
      BY <1>1, <2>1, <3>1 DEF Stranded, Consenting, ConsentAwaits
  <2> QED
    BY <1>1, <2>2, <2>3, <2>4 DEF Next, Stranded
<1>2. TypeInv /\ SerialInv /\ [Next]_vars
        => [\A c \in Conns : Stranded(c) => Stranded(c)']_vars
  BY <1>1
<1>3. OwnersInv => SerialInv
  BY DEF OwnersInv
<1> QED
  BY <1>2, <1>3, TypeInvariant, OwnersInvariant, PTL DEF Spec
===============================================================================
