------------------------ MODULE BureauConnectionProofs ------------------------
(***************************************************************************)
(* Proofs about BureauConnection, for every set of users, connections,     *)
(* request slots and keys and every bound on faults and restarts.          *)
(***************************************************************************)
EXTENDS BureauConnection, FiniteSetTheorems, TLAPS

------------------------------------------------------------------------------
(* Types *)

\* The local variables of an idle slot and of a handler that just began are typed.
LEMMA LocalsTyped ==
  /\ NoReq \in Req
  /\ \A op \in {"start", "identity", "address", "consent", "kiq", "status"},
        c \in Conns \cup {None} : [NoReq EXCEPT !.op = op, !.conn = c] \in Req
  BY DEF NoReq, Req, Blob, States, Terminal, NonTerminal

\* The slots are typed, and a handler past its first await works on a connection.
SlotsOK ==
  /\ pc \in [Reqs -> Labels] /\ req \in [Reqs -> Req]
  /\ \A r \in Reqs : pc[r] \notin {"idle", "create"} => req[r].conn \in Conns

\* The tables and the rest of the state are typed.
TablesOK ==
  /\ conn \in [Conns -> Row]
  /\ consents \subseteq Conns /\ scored \subseteq Conns
  /\ job \in [Conns -> [Bureaus -> JobStatus]]
  /\ piiKey \in Keys
  /\ registered \in [Conns -> Nat]
  /\ faults \in 0..MaxFaults /\ restarts \in 0..MaxRestarts

\* The ways a handler moves keep the slots in order.
LEMMA Moves ==
  ASSUME SlotsOK, NEW r \in Reqs
  PROVE  /\ \A l \in Labels : pc[r] \notin {"idle", "create"} /\ Goto(r, l) => SlotsOK'
         /\ Finish(r) => SlotsOK'
         /\ \A op \in {"identity", "address", "consent", "kiq", "status"}, c \in Conns, l \in Labels :
              Begin(r, op, c, l) => SlotsOK'
         /\ Begin(r, "start", None, "create") => SlotsOK'
<1>1. /\ pc \in [Reqs -> Labels] /\ req \in [Reqs -> Req]
      /\ "idle" \in Labels /\ "create" \in Labels
  BY DEF SlotsOK, Labels, DbAwaits
<1>2. \A l \in Labels : pc[r] \notin {"idle", "create"} /\ Goto(r, l) => SlotsOK'
  BY <1>1 DEF SlotsOK, Goto
<1>3. Finish(r) => SlotsOK'
  BY <1>1, LocalsTyped DEF SlotsOK, Finish
<1>4. ASSUME NEW op \in {"start", "identity", "address", "consent", "kiq", "status"},
             NEW c \in Conns \cup {None}, NEW l \in Labels, Begin(r, op, c, l),
             c \in Conns \/ l = "create"
      PROVE  SlotsOK'
  <2> DEFINE local == [NoReq EXCEPT !.op = op, !.conn = c]
  <2>1. local \in Req /\ local.conn = c
    BY LocalsTyped DEF Req
  <2>2. pc' = [pc EXCEPT ![r] = l] /\ req' = [req EXCEPT ![r] = local]
    BY <1>4 DEF Begin
  <2> HIDE DEF local
  <2> QED
    BY <1>1, <1>4, <2>1, <2>2 DEF SlotsOK
<1> QED
  BY <1>1, <1>2, <1>3, <1>4

\* Every row the service writes is a row of the table.
LEMMA RowsTyped ==
  ASSUME NEW row \in Row, NEW u \in Users, piiKey \in Keys
  PROVE  /\ NewConnection(u) \in Row
         /\ WithToken(row) \in Row
         /\ WithQuestions(row) \in Row
         /\ AsFailed(row) \in Row
         /\ AsComplete(row) \in Row
         /\ AsPolled(row) \in Row
         /\ [row EXCEPT !.identity = piiKey, !.state = "AWAITING_ADDRESS"] \in Row
         /\ [row EXCEPT !.address = piiKey, !.state = "AWAITING_CONSENT"] \in Row
         /\ [row EXCEPT !.polled = FALSE] \in Row
<1> USE DEF Row, Blob, States, NonTerminal, Terminal
<1>1. NoRow \in Row
  BY DEF NoRow
<1>2. \A any \in Row : [any EXCEPT !.owner = u, !.state = "AWAITING_IDENTITY"] \in Row
  OBVIOUS
<1>3. NewConnection(u) \in Row
  BY <1>1, <1>2 DEF NewConnection
<1>4. WithToken(row) \in Row
  BY DEF WithToken
<1>5. WithQuestions(row) \in Row
  BY DEF WithQuestions
<1>6. AsFailed(row) \in Row /\ AsComplete(row) \in Row /\ AsPolled(row) \in Row
  BY DEF AsFailed, AsComplete, AsPolled
<1>7. /\ [row EXCEPT !.identity = piiKey, !.state = "AWAITING_ADDRESS"] \in Row
      /\ [row EXCEPT !.address = piiKey, !.state = "AWAITING_CONSENT"] \in Row
      /\ [row EXCEPT !.polled = FALSE] \in Row
  OBVIOUS
<1> QED
  BY <1>3, <1>4, <1>5, <1>6, <1>7

\* The statuses updatePullJob writes keep the job table typed.
LEMMA JobsTyped ==
  ASSUME job \in [Conns -> [Bureaus -> JobStatus]], NEW c \in Conns,
         NEW status \in {"IN_FLIGHT", "COMPLETE", "FAILED"}
  PROVE  UpdatePullJob(c, status) => job' \in [Conns -> [Bureaus -> JobStatus]]
  BY DEF UpdatePullJob, Bureaus, JobStatus

\* No step leaves the slots in disorder.
LEMMA SlotsStep == SlotsOK /\ TablesOK /\ [Next]_vars => SlotsOK'
<1> SUFFICES ASSUME SlotsOK, TablesOK, [Next]_vars
             PROVE  SlotsOK'
  OBVIOUS
<1>1. ASSUME NEW r \in Reqs, Arrive(r)
      PROVE  SlotsOK'
  BY <1>1, Moves DEF Arrive, StartConnection, SubmitIdentity, SubmitAddress, SubmitConsent,
     SubmitKiqAnswers, GetConnectionStatus, Labels, DbAwaits
<1>2. ASSUME NEW r \in Reqs, Serve(r)
      PROVE  SlotsOK'
  <2>1. ASSUME pc[r] \notin {"idle", "create"}, NEW l \in Labels, Goto(r, l)
        PROVE  SlotsOK'
    BY <2>1, Moves
  <2>2. Finish(r) => SlotsOK'
    BY Moves
  <2>3. CASE \/ CreateConnection(r) \/ WriteIdentity(r) \/ WriteAddress(r) \/ WriteKiq(r)
             \/ RejectJob(r) \/ ReplyStatus(r)
    BY <2>2, <2>3 DEF CreateConnection, WriteIdentity, WriteAddress, WriteKiq, RejectJob,
       ReplyStatus, UpdateConnection
  <2>4. CASE CreateConsent(r) \/ EnsurePullJobs(r)
    BY <2>1, <2>2, <2>4 DEF CreateConsent, AfterConsent, EnsurePullJobs, At, Labels, DbAwaits
  <2>5. CASE UserReply(r) \/ AnswersReply(r) \/ ReportReply(r)
    BY <2>1, <2>2, <2>5 DEF UserReply, AfterUserReply, AnswersReply, ReportReply, AfterReport,
       At, Labels, DbAwaits, GuardedAwaits
  <2>6. CASE WriteToken(r) \/ RejectConnection(r) \/ MarkPoll(r) \/ UndecryptConnection(r)
             \/ CompleteConnection(r) \/ FailConnection(r)
    BY <2>1, <2>6 DEF WriteToken, RejectConnection, MarkPoll, UndecryptConnection,
       CompleteConnection, FailConnection, UpdateConnection, At, Labels, DbAwaits
  <2>7. CASE UndecryptJob(r) \/ StartJob(r) \/ InsertScore(r) \/ CompleteJob(r) \/ FailJob(r)
    BY <2>1, <2>7 DEF UndecryptJob, StartJob, InsertScore, AfterInsert, CompleteJob, FailJob,
       At, Labels, DbAwaits, GuardedAwaits
  <2>8. CASE PullLoad(r)
    <3>1. conn[req[r].conn].token \in Blob
      BY <2>8 DEF PullLoad, At, SlotsOK, TablesOK, Row
    <3>2. CASE Goto(r, "fresh_read")
      BY <2>1, <2>8, <3>2 DEF PullLoad, At, Labels, DbAwaits
    <3>3. CASE /\ pc' = [pc EXCEPT ![r] = "mark_poll"]
               /\ req' = [req EXCEPT ![r].token = conn[req[r].conn].token]
      BY <2>8, <3>1, <3>3 DEF PullLoad, At, SlotsOK, Req, Labels, DbAwaits
    <3> QED
      BY <2>8, <3>2, <3>3 DEF PullLoad
  <2>9. CASE FreshRead(r)
    <3>1. conn[req[r].conn].state \in States
      BY <2>9 DEF FreshRead, At, SlotsOK, TablesOK, Row
    <3>2. CASE /\ pc' = [pc EXCEPT ![r] = "list_jobs"]
               /\ req' = [req EXCEPT ![r].seen = conn[req[r].conn].state]
      BY <2>9, <3>1, <3>2 DEF FreshRead, At, SlotsOK, Req, Labels, DbAwaits
    <3> QED
      BY <2>2, <2>9, <3>2 DEF FreshRead
  <2> QED
    BY <1>2, <2>3, <2>4, <2>5, <2>6, <2>7, <2>8, <2>9 DEF Serve
<1>3. ASSUME NEW r \in Reqs, DbThrows(r)
      PROVE  SlotsOK'
  BY <1>3, Moves DEF DbThrows, GuardedAwaits, Labels, DbAwaits
<1>4. CASE Restart
  BY <1>4, LocalsTyped DEF Restart, SlotsOK, Labels
<1>5. CASE UNCHANGED vars \/ \E c \in Conns : DebounceExpires(c)
  BY <1>5 DEF vars, DebounceExpires, SlotsOK
<1> QED
  BY <1>1, <1>2, <1>3, <1>4, <1>5 DEF Next

\* No step puts a value outside its column's type into a table.
LEMMA TablesStep == SlotsOK /\ TablesOK /\ [Next]_vars => TablesOK'
<1> SUFFICES ASSUME SlotsOK, TablesOK, [Next]_vars
             PROVE  TablesOK'
  OBVIOUS
<1>0. /\ conn \in [Conns -> Row] /\ job \in [Conns -> [Bureaus -> JobStatus]] /\ piiKey \in Keys
      /\ MaxFaults \in Nat /\ faults \in 0..MaxFaults
      /\ MaxRestarts \in Nat /\ restarts \in 0..MaxRestarts
  BY BureauAssumption DEF TablesOK
<1>1. ASSUME OnlyMoves
      PROVE  TablesOK'
  BY <1>1 DEF OnlyMoves, tables, server, TablesOK
<1>2. ASSUME NEW r \in Reqs, Arrive(r)
      PROVE  TablesOK'
  BY <1>1, <1>2 DEF Arrive, StartConnection, SubmitIdentity, SubmitAddress, SubmitConsent,
     SubmitKiqAnswers, GetConnectionStatus
<1>3. ASSUME NEW r \in Reqs, Serve(r)
      PROVE  TablesOK'
  <2> DEFINE c == req[r].conn
  <2>1. CASE UserReply(r) \/ AnswersReply(r) \/ PullLoad(r) \/ ReportReply(r) \/ FreshRead(r)
             \/ ReplyStatus(r)
    BY <1>1, <2>1 DEF UserReply, AnswersReply, PullLoad, ReportReply, FreshRead, ReplyStatus
  <2>2. CASE CreateConnection(r)
    <3>1. NewConnection(UserOf[r]) \in Row
      <4>1. UserOf[r] \in Users
        BY BureauAssumption
      <4>2. PICK row \in Row : TRUE
        BY <1>0, <2>2 DEF CreateConnection, FreeIds
      <4> QED
        BY <1>0, <4>1, <4>2, RowsTyped
    <3>2. conn' \in [Conns -> Row]
      BY <1>0, <2>2, <3>1 DEF CreateConnection
    <3> QED
      BY <2>2, <3>2 DEF CreateConnection, ConnWritten, server, TablesOK
  <2>3. ASSUME ~At(r, "idle"), ~At(r, "create")
        PROVE  c \in Conns /\ conn[c] \in Row
    BY <1>0, <2>3 DEF SlotsOK, At
  <2>4. ASSUME NEW row \in Row, ConnWritten,
               \/ conn' = [conn EXCEPT ![c] = row] /\ faults' = faults
               \/ conn' = conn /\ faults < MaxFaults /\ faults' = faults + 1
        PROVE  TablesOK'
    BY <1>0, <2>4 DEF ConnWritten, server, TablesOK
  <2>5. CASE \/ WriteIdentity(r) \/ WriteAddress(r) \/ WriteKiq(r) \/ WriteToken(r)
             \/ RejectConnection(r) \/ MarkPoll(r) \/ UndecryptConnection(r)
             \/ CompleteConnection(r) \/ FailConnection(r)
    <3>1. c \in Conns /\ conn[c] \in Row
      BY <2>3, <2>5 DEF WriteIdentity, WriteAddress, WriteKiq, WriteToken, RejectConnection,
         MarkPoll, UndecryptConnection, CompleteConnection, FailConnection, At
    <3>2. UserOf[r] \in Users
      BY BureauAssumption
    <3>3. \E row \in Row :
            /\ ConnWritten
            /\ \/ conn' = [conn EXCEPT ![c] = row] /\ faults' = faults
               \/ conn' = conn /\ faults < MaxFaults /\ faults' = faults + 1
      <4> HIDE DEF c
      <4>1. CASE WriteIdentity(r) \/ WriteAddress(r)
        BY <1>0, <3>1, <3>2, <4>1, RowsTyped DEF WriteIdentity, WriteAddress, UpdateConnection, c
      <4>2. CASE WriteKiq(r) \/ WriteToken(r) \/ MarkPoll(r) \/ CompleteConnection(r)
        BY <1>0, <3>1, <3>2, <4>2, RowsTyped DEF WriteKiq, WriteToken, MarkPoll, CompleteConnection,
           UpdateConnection, c
      <4>3. CASE RejectConnection(r) \/ UndecryptConnection(r) \/ FailConnection(r)
        BY <1>0, <3>1, <3>2, <4>3, RowsTyped DEF RejectConnection, UndecryptConnection,
           FailConnection, UpdateConnection, c
      <4> QED
        BY <2>5, <4>1, <4>2, <4>3
    <3> QED
      BY <2>4, <3>3
  <2>6. CASE RejectJob(r) \/ UndecryptJob(r) \/ StartJob(r) \/ CompleteJob(r) \/ FailJob(r)
    <3>1. c \in Conns
      BY <2>3, <2>6 DEF RejectJob, UndecryptJob, StartJob, CompleteJob, FailJob, At
    <3>2. job' \in [Conns -> [Bureaus -> JobStatus]] /\ JobWritten
      BY <1>0, <2>6, <3>1, JobsTyped DEF RejectJob, UndecryptJob, StartJob, CompleteJob, FailJob
    <3> QED
      BY <3>2 DEF JobWritten, server, TablesOK
  <2>7. CASE CreateConsent(r) \/ InsertScore(r)
    <3>1. c \in Conns
      BY <2>3, <2>7 DEF CreateConsent, InsertScore, At
    <3> QED
      BY <2>7, <3>1 DEF CreateConsent, InsertScore, server, TablesOK
  <2>8. CASE EnsurePullJobs(r)
    <3>1. c \in Conns
      BY <2>3, <2>8 DEF EnsurePullJobs, At
    <3>2. PendingJobs(job[c]) \in [Bureaus -> JobStatus]
      BY <1>0, <3>1 DEF PendingJobs, Bureaus, JobStatus
    <3>3. job' = [job EXCEPT ![c] = PendingJobs(job[c])]
      BY <2>8 DEF EnsurePullJobs
    <3>4. registered' \in [Conns -> Nat]
      BY <2>8, <3>1 DEF EnsurePullJobs, TablesOK
    <3> QED
      BY <1>0, <2>8, <3>1, <3>2, <3>3, <3>4 DEF EnsurePullJobs, server, TablesOK
  <2> QED
    BY <1>3, <2>1, <2>2, <2>5, <2>6, <2>7, <2>8 DEF Serve
<1>4. ASSUME NEW r \in Reqs, DbThrows(r)
      PROVE  TablesOK'
  BY <1>0, <1>4 DEF DbThrows, tables, server, TablesOK
<1>5. CASE Restart
  BY <1>0, <1>5 DEF Restart, tables, TablesOK
<1>6. ASSUME NEW c \in Conns, DebounceExpires(c)
      PROVE  TablesOK'
  <2>1. conn' = [conn EXCEPT ![c] = [conn[c] EXCEPT !.polled = FALSE]]
    BY <1>6 DEF DebounceExpires
  <2>2. [conn[c] EXCEPT !.polled = FALSE] \in Row
    BY <1>0 DEF Row
  <2> QED
    BY <1>0, <1>6, <2>1, <2>2 DEF DebounceExpires, server, TablesOK
<1>7. CASE UNCHANGED vars
  BY <1>7 DEF vars, TablesOK
<1> QED
  BY <1>2, <1>3, <1>4, <1>5, <1>6, <1>7 DEF Next

\* Every reachable state is typed and its handlers work on connections.
TypeInv == SlotsOK /\ TablesOK

LEMMA TypeInvariant == Spec => []TypeInv
<1>1. Init => TypeInv
  <2> SUFFICES ASSUME Init PROVE TypeInv
    OBVIOUS
  <2>1. SlotsOK
    BY LocalsTyped DEF Init, SlotsOK, Labels
  <2>2. NoRow \in Row
    BY DEF NoRow, Row, Blob, States
  <2>3. TablesOK
    BY BureauAssumption, <2>2 DEF Init, TablesOK, JobStatus
  <2> QED
    BY <2>1, <2>3 DEF TypeInv
<1>2. TypeInv /\ [Next]_vars => TypeInv'
  BY SlotsStep, TablesStep DEF TypeInv
<1> QED
  BY <1>1, <1>2, PTL DEF Spec

\* Type correctness: every table, column and local variable of every handler has a value
\* of its type, for every interleaving, fault and restart.
THEOREM TypeCorrect == Spec => []TypeOK
<1>1. TypeInv => TypeOK
  BY DEF TypeInv, SlotsOK, TablesOK, TypeOK
<1> QED
  BY <1>1, TypeInvariant, PTL

------------------------------------------------------------------------------
(* Safety under every interleaving *)

\* The identity of the connection went to Experian, after its pull jobs were created.
Sent(c) == job[c]["EXPERIAN"] # "NONE" /\ registered[c] = 1

\* The awaits of a handler that holds an answer of Experian, or waits for one.
SentLabels ==
  {"await_user", "reject_conn", "reject_job", "write_kiq", "write_token", "await_answers",
   "mark_poll", "undecrypt_conn", "undecrypt_job", "start_job", "await_report",
   "insert_score", "complete_job", "complete_conn", "fail_job", "fail_conn"}

\* What the tables say of a connection.
RowInv(c) ==
  /\ conn[c].state = "ABSENT" => conn[c].identity = None
  /\ conn[c].state = "AWAITING_ADDRESS" => conn[c].identity # None
  /\ conn[c].state = "AWAITING_CONSENT" => conn[c].identity # None /\ conn[c].address # None
  /\ conn[c].state = "AWAITING_EXPERIAN_KIQ" => conn[c].session # None /\ conn[c].kiq # None
  /\ conn[c].state = "PROCESSING" => conn[c].token # None
  /\ conn[c].state \in {"AWAITING_EXPERIAN_KIQ", "PROCESSING"} => Sent(c)
  /\ conn[c].state = "COMPLETE" => c \in scored
  /\ job[c]["EXPERIAN"] = "COMPLETE" => c \in scored
  /\ conn[c].state = "FAILED" => conn[c].failureCode
  /\ registered[c] \in {0, 1}
  /\ registered[c] = 1 => c \in consents
  /\ c \in scored => registered[c] = 1

\* What a handler may rely on when it resumes, whatever the others did in the meantime.
LocalInv(r) ==
  LET c == req[r].conn
  IN  /\ pc[r] = "write_address" => conn[c].identity # None
      /\ pc[r] = "ensure_jobs" => c \in consents /\ registered[c] = 0
      /\ pc[r] \in SentLabels => Sent(c)
      /\ pc[r] \in {"complete_job", "complete_conn"} => c \in scored

\* The unique consent record lets one handler per connection on to Experian.
OneSender ==
  \A q, r \in Reqs :
    pc[q] = "ensure_jobs" /\ pc[r] = "ensure_jobs" /\ req[q].conn = req[r].conn => q = r

SafetyInv ==
  /\ \A c \in Conns : RowInv(c)
  /\ \A r \in Reqs : LocalInv(r)
  /\ OneSender

\* The row a handler writes for its connection c keeps what is known of c.
RowFits(c, row) ==
  /\ row.state = "ABSENT" => row.identity = None
  /\ conn[c].identity # None => row.identity # None
  /\ row.state = "AWAITING_ADDRESS" => row.identity # None
  /\ row.state = "AWAITING_CONSENT" => row.identity # None /\ row.address # None
  /\ row.state = "AWAITING_EXPERIAN_KIQ" => row.session # None /\ row.kiq # None
  /\ row.state = "PROCESSING" => row.token # None
  /\ row.state \in {"AWAITING_EXPERIAN_KIQ", "PROCESSING"} => Sent(c)
  /\ row.state = "COMPLETE" => c \in scored
  /\ row.state = "FAILED" => row.failureCode

\* A handler that writes a fitting row, or whose write is swallowed, breaks nothing.
LEMMA ConnWriteSafe ==
  ASSUME TypeInv, SafetyInv, NEW r \in Reqs, NEW c \in Conns, NEW row \in Row, ConnWritten,
         RowFits(c, row), conn' = [conn EXCEPT ![c] = row] \/ conn' = conn,
         NEW l \in Labels \ {"write_address", "ensure_jobs", "complete_job", "complete_conn"},
         pc' = [pc EXCEPT ![r] = l],
         \A q \in Reqs : q # r => req'[q] = req[q],
         l \in SentLabels => Sent(req'[r].conn)
  PROVE  SafetyInv'
<1>0. /\ conn \in [Conns -> Row] /\ pc \in [Reqs -> Labels]
      /\ \A d \in Conns : RowInv(d)
      /\ \A q \in Reqs : LocalInv(q)
      /\ OneSender
  BY DEF TypeInv, SlotsOK, TablesOK, SafetyInv
<1>1. consents' = consents /\ job' = job /\ scored' = scored /\ registered' = registered
  BY DEF ConnWritten
<1>2. ASSUME NEW d \in Conns PROVE RowInv(d)'
  <2>1. conn'[d] = conn[d] \/ (d = c /\ conn'[d] = row)
    BY <1>0
  <2> QED
    BY <1>0, <1>1, <2>1 DEF RowInv, RowFits, Sent
<1>3. ASSUME NEW q \in Reqs PROVE LocalInv(q)'
  <2>1. CASE q = r
    BY <1>0, <1>1, <2>1 DEF LocalInv, Sent
  <2>2. CASE q # r
    <3>1. pc'[q] = pc[q] /\ req'[q] = req[q]
      BY <1>0, <2>2
    <3>2. pc[q] = "write_address" => req[q].conn \in Conns
      BY DEF TypeInv, SlotsOK
    <3>3. conn[req[q].conn].identity # None /\ req[q].conn \in Conns
             => conn'[req[q].conn].identity # None
      BY <1>0 DEF RowFits
    <3> QED
      BY <1>0, <1>1, <3>1, <3>2, <3>3 DEF LocalInv, Sent
  <2> QED
    BY <2>1, <2>2
<1>4. OneSender'
  BY <1>0 DEF OneSender
<1> QED
  BY <1>2, <1>3, <1>4 DEF SafetyInv

\* A handler that only moves to an await it is entitled to breaks nothing.
LEMMA MoveSafe ==
  ASSUME TypeInv, SafetyInv, NEW r \in Reqs, NEW l \in Labels \ {"ensure_jobs"},
         UNCHANGED <<tables, registered>>,
         pc' = [pc EXCEPT ![r] = l],
         \A q \in Reqs : q # r => req'[q] = req[q],
         l = "write_address" => conn[req'[r].conn].identity # None,
         l \in SentLabels => Sent(req'[r].conn),
         l \in {"complete_job", "complete_conn"} => req'[r].conn \in scored
  PROVE  SafetyInv'
<1>0. /\ pc \in [Reqs -> Labels]
      /\ \A d \in Conns : RowInv(d)
      /\ \A q \in Reqs : LocalInv(q)
      /\ OneSender
  BY DEF TypeInv, SlotsOK, SafetyInv
<1>1. conn' = conn /\ consents' = consents /\ job' = job /\ scored' = scored /\ registered' = registered
  BY DEF tables
<1>2. \A d \in Conns : RowInv(d)'
  BY <1>0, <1>1 DEF RowInv, Sent
<1>3. ASSUME NEW q \in Reqs PROVE LocalInv(q)'
  <2>1. CASE q = r
    BY <1>0, <1>1, <2>1 DEF LocalInv, Sent
  <2>2. CASE q # r
    <3>1. pc'[q] = pc[q] /\ req'[q] = req[q]
      BY <1>0, <2>2
    <3> QED
      BY <1>0, <1>1, <3>1 DEF LocalInv, Sent
  <2> QED
    BY <2>1, <2>2
<1>4. OneSender'
  BY <1>0 DEF OneSender
<1> QED
  BY <1>2, <1>3, <1>4 DEF SafetyInv

\* A handler that updates the EXPERIAN job, complete only with a score, breaks nothing.
LEMMA JobWriteSafe ==
  ASSUME TypeInv, SafetyInv, NEW r \in Reqs, NEW c \in Conns, JobWritten, Sent(c),
         NEW status \in {"IN_FLIGHT", "COMPLETE", "FAILED"}, UpdatePullJob(c, status),
         status = "COMPLETE" => c \in scored,
         NEW l \in Labels \ {"write_address", "ensure_jobs", "complete_job"},
         pc' = [pc EXCEPT ![r] = l],
         \A q \in Reqs : q # r => req'[q] = req[q],
         l \in SentLabels => req'[r].conn = c,
         l = "complete_conn" => req'[r].conn \in scored
  PROVE  SafetyInv'
<1>0. /\ pc \in [Reqs -> Labels] /\ job \in [Conns -> [Bureaus -> JobStatus]]
      /\ \A d \in Conns : RowInv(d)
      /\ \A q \in Reqs : LocalInv(q)
      /\ OneSender
  BY DEF TypeInv, SlotsOK, TablesOK, SafetyInv
<1>1. conn' = conn /\ consents' = consents /\ scored' = scored /\ registered' = registered
  BY DEF JobWritten
<1>2. /\ \A d \in Conns : job'[d]["EXPERIAN"] = IF d = c THEN status ELSE job[d]["EXPERIAN"]
      /\ job[c]["EXPERIAN"] # "NONE" /\ job' \in [Conns -> [Bureaus -> JobStatus]]
  BY <1>0, JobsTyped DEF UpdatePullJob, Bureaus
<1>3. \A d \in Conns : Sent(d) => Sent(d)'
  BY <1>1, <1>2 DEF Sent
<1>4. ASSUME NEW d \in Conns PROVE RowInv(d)'
  BY <1>0, <1>1, <1>2, <1>3 DEF RowInv
<1>5. ASSUME NEW q \in Reqs PROVE LocalInv(q)'
  <2>1. pc[q] \in SentLabels => req[q].conn \in Conns
    BY DEF TypeInv, SlotsOK, SentLabels
  <2>2. CASE q = r
    <3>1. l \in SentLabels => Sent(c)'
      BY <1>3
    <3> QED
      BY <1>0, <1>1, <2>2, <3>1 DEF LocalInv
  <2>3. CASE q # r
    BY <1>0, <1>1, <1>3, <2>1, <2>3 DEF LocalInv
  <2> QED
    BY <2>2, <2>3
<1>6. OneSender'
  BY <1>0 DEF OneSender
<1> QED
  BY <1>4, <1>5, <1>6 DEF SafetyInv

\* How the three ways to move change the slots: r's only.
LEMMA MovesLocal ==
  ASSUME TypeInv, NEW r \in Reqs
  PROVE  /\ \A l \in Labels : Goto(r, l) => /\ pc' = [pc EXCEPT ![r] = l]
                                        /\ req' = req
         /\ Finish(r) => /\ pc' = [pc EXCEPT ![r] = "idle"]
                         /\ \A q \in Reqs : q # r => req'[q] = req[q]
         /\ \A op \in {"start", "identity", "address", "consent", "kiq", "status"},
               c \in Conns \cup {None}, l \in Labels :
              Begin(r, op, c, l) => /\ pc' = [pc EXCEPT ![r] = l]
                                    /\ \A q \in Reqs : q # r => req'[q] = req[q]
                                    /\ req'[r].conn = c
<1>1. req \in [Reqs -> Req]
  BY DEF TypeInv, SlotsOK
<1>2. ASSUME NEW op \in {"start", "identity", "address", "consent", "kiq", "status"},
             NEW c \in Conns \cup {None}, NEW l \in Labels, Begin(r, op, c, l)
      PROVE  /\ pc' = [pc EXCEPT ![r] = l]
             /\ \A q \in Reqs : q # r => req'[q] = req[q]
             /\ req'[r].conn = c
  <2> DEFINE local == [NoReq EXCEPT !.op = op, !.conn = c]
  <2>1. local.conn = c
    BY DEF NoReq
  <2>2. pc' = [pc EXCEPT ![r] = l] /\ req' = [req EXCEPT ![r] = local]
    BY <1>2 DEF Begin
  <2> HIDE DEF local
  <2> QED
    BY <1>1, <2>1, <2>2
<1>3. Finish(r) => \A q \in Reqs : q # r => req'[q] = req[q]
  BY <1>1 DEF Finish
<1> QED
  BY <1>2, <1>3 DEF Goto, Finish

\* The first stretch of a request.
LEMMA ArriveSafe ==
  ASSUME TypeInv, SafetyInv, NEW r \in Reqs, Arrive(r)
  PROVE  SafetyInv'
<1>0. \A c \in Conns : RowInv(c)
  BY DEF SafetyInv
<1>1. UNCHANGED <<tables, registered>>
  BY DEF Arrive, StartConnection, SubmitIdentity, SubmitAddress, SubmitConsent, SubmitKiqAnswers,
     GetConnectionStatus, OnlyMoves
<1>2. ASSUME NEW op \in {"start", "identity", "address", "consent", "kiq", "status"},
             NEW c \in Conns \cup {None},
             NEW l \in Labels \ {"ensure_jobs", "complete_job", "complete_conn"}, Begin(r, op, c, l),
             l = "write_address" => conn[c].identity # None,
             l \in SentLabels => Sent(c)
      PROVE  SafetyInv'
  BY <1>1, <1>2, MovesLocal, MoveSafe
<1>3. CASE StartConnection(r)
  BY <1>2, <1>3 DEF StartConnection, Labels, DbAwaits, SentLabels
<1>4. ASSUME NEW c \in Conns,
             SubmitIdentity(r, c) \/ SubmitConsent(r, c) \/ GetConnectionStatus(r, c)
      PROVE  SafetyInv'
  BY <1>2, <1>4 DEF SubmitIdentity, SubmitConsent, GetConnectionStatus, Labels, DbAwaits, SentLabels
<1>5. ASSUME NEW c \in Conns, SubmitAddress(r, c)
      PROVE  SafetyInv'
  BY <1>2, <1>5 DEF SubmitAddress, Labels, DbAwaits, SentLabels
<1>6. ASSUME NEW c \in Conns, SubmitKiqAnswers(r, c)
      PROVE  SafetyInv'
  <2>1. Sent(c)
    BY <1>0, <1>6 DEF SubmitKiqAnswers, LoadedIn, RowInv
  <2> QED
    BY <1>2, <1>6, <2>1 DEF SubmitKiqAnswers, Labels
<1> QED
  BY <1>3, <1>4, <1>5, <1>6 DEF Arrive

\* A handler that writes its connection's row.
LEMMA RowWritersSafe ==
  ASSUME TypeInv, SafetyInv, NEW r \in Reqs,
         \/ WriteIdentity(r) \/ WriteAddress(r) \/ WriteKiq(r) \/ WriteToken(r)
         \/ RejectConnection(r) \/ MarkPoll(r) \/ UndecryptConnection(r)
         \/ CompleteConnection(r) \/ FailConnection(r)
  PROVE  SafetyInv'
<1> DEFINE c == req[r].conn
<1>1. c \in Conns /\ conn[c] \in Row /\ RowInv(c) /\ LocalInv(r)
  BY DEF WriteIdentity, WriteAddress, WriteKiq, WriteToken, RejectConnection, MarkPoll,
     UndecryptConnection, CompleteConnection, FailConnection, At, TypeInv, SlotsOK, TablesOK, SafetyInv
<1>2. ConnWritten
  BY DEF WriteIdentity, WriteAddress, WriteKiq, WriteToken, RejectConnection, MarkPoll,
     UndecryptConnection, CompleteConnection, FailConnection
<1>3. piiKey \in Keys /\ piiKey # None
  BY BureauAssumption DEF TypeInv, TablesOK
<1>4. \A u \in {UserOf[r]} : u \in Users
  BY BureauAssumption
<1>5. ASSUME NEW row \in Row, RowFits(c, row),
             NEW l \in Labels \ {"write_address", "ensure_jobs", "complete_job", "complete_conn"},
             l \in SentLabels => Sent(c),
             UpdateConnection(r, row, Goto(r, l), Goto(r, l))
      PROVE  SafetyInv'
  <2>1. conn' = [conn EXCEPT ![c] = row] \/ conn' = conn
    BY <1>5 DEF UpdateConnection
  <2>2. pc' = [pc EXCEPT ![r] = l] /\ req' = req
    BY <1>5, MovesLocal DEF UpdateConnection
  <2> HIDE DEF c
  <2>3. req'[r].conn = c
    BY <2>2 DEF c
  <2> QED
    BY <1>1, <1>2, <1>5, <2>1, <2>2, <2>3, ConnWriteSafe
<1>6. ASSUME NEW row \in Row, RowFits(c, row), UpdateConnection(r, row, Finish(r), Finish(r))
      PROVE  SafetyInv'
  <2>1. conn' = [conn EXCEPT ![c] = row] \/ conn' = conn
    BY <1>6 DEF UpdateConnection
  <2>2. pc' = [pc EXCEPT ![r] = "idle"] /\ \A q \in Reqs : q # r => req'[q] = req[q]
    BY <1>6, MovesLocal DEF UpdateConnection
  <2>3. "idle" \in Labels /\ "idle" \notin SentLabels
    BY DEF Labels, SentLabels
  <2> HIDE DEF c
  <2> QED
    BY <1>1, <1>2, <1>6, <2>1, <2>2, <2>3, ConnWriteSafe
<1>7. CASE WriteIdentity(r)
  <2> DEFINE row == [conn[c] EXCEPT !.identity = piiKey, !.state = "AWAITING_ADDRESS"]
  <2>1. row \in Row /\ RowFits(c, row)
    BY <1>1, <1>3, <1>4, RowsTyped DEF RowFits, Row
  <2>2. UpdateConnection(r, row, Finish(r), Finish(r))
    BY <1>7 DEF WriteIdentity
  <2> HIDE DEF row
  <2> QED
    BY <1>6, <2>1, <2>2
<1>8. CASE WriteAddress(r)
  <2> DEFINE row == [conn[c] EXCEPT !.address = piiKey, !.state = "AWAITING_CONSENT"]
  <2>1. row \in Row /\ RowFits(c, row)
    BY <1>1, <1>3, <1>4, <1>8, RowsTyped DEF RowFits, Row, LocalInv, WriteAddress, At
  <2>2. UpdateConnection(r, row, Finish(r), Finish(r))
    BY <1>8 DEF WriteAddress
  <2> HIDE DEF row
  <2> QED
    BY <1>6, <2>1, <2>2
<1>9. CASE WriteKiq(r)
  <2>1. WithQuestions(conn[c]) \in Row /\ RowFits(c, WithQuestions(conn[c]))
    BY <1>1, <1>3, <1>4, <1>9, RowsTyped
    DEF RowFits, Row, LocalInv, WriteKiq, At, SentLabels, WithQuestions
  <2> QED
    BY <1>6, <1>9, <2>1 DEF WriteKiq
<1>10. CASE WriteToken(r)
  <2>1. WithToken(conn[c]) \in Row /\ RowFits(c, WithToken(conn[c]))
    BY <1>1, <1>3, <1>4, <1>10, RowsTyped
    DEF RowFits, Row, LocalInv, WriteToken, At, SentLabels, WithToken
  <2> QED
    BY <1>5, <1>10, <2>1 DEF WriteToken, Labels, DbAwaits, SentLabels
<1>11. CASE RejectConnection(r) \/ UndecryptConnection(r) \/ FailConnection(r)
  <2>1. AsFailed(conn[c]) \in Row /\ RowFits(c, AsFailed(conn[c]))
    BY <1>1, <1>3, <1>4, RowsTyped DEF RowFits, Row, AsFailed
  <2>2. Sent(c)
    BY <1>1, <1>11 DEF LocalInv, RejectConnection, UndecryptConnection, FailConnection, At, SentLabels
  <2> QED
    BY <1>5, <1>11, <2>1, <2>2 DEF RejectConnection, UndecryptConnection, FailConnection, Labels, DbAwaits
<1>12. CASE MarkPoll(r)
  <2>1. AsPolled(conn[c]) \in Row /\ RowFits(c, AsPolled(conn[c]))
    BY <1>1, <1>3, <1>4, RowsTyped DEF RowFits, RowInv, Row, AsPolled
  <2>2. Sent(c)
    BY <1>1, <1>12 DEF LocalInv, MarkPoll, At, SentLabels
  <2> QED
    BY <1>5, <1>12, <2>1, <2>2 DEF MarkPoll, Labels, DbAwaits
<1>13. CASE CompleteConnection(r)
  <2>1. AsComplete(conn[c]) \in Row /\ RowFits(c, AsComplete(conn[c]))
    BY <1>1, <1>3, <1>4, <1>13, RowsTyped
    DEF RowFits, Row, LocalInv, CompleteConnection, At, AsComplete
  <2> QED
    BY <1>5, <1>13, <2>1 DEF CompleteConnection, Labels, DbAwaits, SentLabels
<1> QED
  BY <1>7, <1>8, <1>9, <1>10, <1>11, <1>12, <1>13

\* A handler that updates the EXPERIAN job.
LEMMA JobWritersSafe ==
  ASSUME TypeInv, SafetyInv, NEW r \in Reqs,
         RejectJob(r) \/ UndecryptJob(r) \/ StartJob(r) \/ CompleteJob(r) \/ FailJob(r)
  PROVE  SafetyInv'
<1> DEFINE c == req[r].conn
<1>1. c \in Conns /\ Sent(c) /\ LocalInv(r) /\ JobWritten
  BY DEF RejectJob, UndecryptJob, StartJob, CompleteJob, FailJob, At, TypeInv, SlotsOK, SafetyInv,
     LocalInv, SentLabels
<1>2. ASSUME NEW status \in {"IN_FLIGHT", "COMPLETE", "FAILED"}, UpdatePullJob(c, status),
             status = "COMPLETE" => c \in scored,
             NEW l \in Labels \ {"write_address", "ensure_jobs", "complete_job"}, Goto(r, l),
             l = "complete_conn" => c \in scored
      PROVE  SafetyInv'
  <2>1. pc' = [pc EXCEPT ![r] = l] /\ req' = req /\ req'[r].conn = c
    BY <1>2, MovesLocal
  <2> HIDE DEF c
  <2> QED
    BY <1>1, <1>2, <2>1, JobWriteSafe
<1>3. CASE RejectJob(r)
  <2>1. pc' = [pc EXCEPT ![r] = "idle"] /\ \A q \in Reqs : q # r => req'[q] = req[q]
    BY <1>3, MovesLocal DEF RejectJob
  <2>2. "idle" \in Labels /\ "idle" \notin SentLabels /\ UpdatePullJob(c, "FAILED")
    BY <1>3 DEF Labels, SentLabels, RejectJob
  <2> HIDE DEF c
  <2> QED
    BY <1>1, <2>1, <2>2, JobWriteSafe
<1>4. CASE UndecryptJob(r) \/ StartJob(r) \/ FailJob(r)
  BY <1>2, <1>4 DEF UndecryptJob, StartJob, FailJob, Labels, DbAwaits
<1>5. CASE CompleteJob(r)
  BY <1>1, <1>2, <1>5 DEF CompleteJob, LocalInv, At, Labels, DbAwaits, GuardedAwaits
<1> QED
  BY <1>3, <1>4, <1>5

\* Recording the consent: whoever finds none on record goes on to Experian, alone.
LEMMA CreateConsentSafe ==
  ASSUME TypeInv, SafetyInv, NEW r \in Reqs, CreateConsent(r)
  PROVE  SafetyInv'
<1> DEFINE c == req[r].conn
<1>0. /\ pc \in [Reqs -> Labels] /\ c \in Conns
      /\ \A d \in Conns : RowInv(d)
      /\ \A q \in Reqs : LocalInv(q)
      /\ OneSender
  BY DEF TypeInv, SlotsOK, SafetyInv, CreateConsent, At
<1>1. /\ conn' = conn /\ job' = job /\ scored' = scored /\ registered' = registered
      /\ consents' = consents \cup {c}
  BY DEF CreateConsent
<1>2. /\ \A q \in Reqs : q # r => pc'[q] = pc[q] /\ req'[q] = req[q]
      /\ \/ pc'[r] = "idle"
         \/ pc'[r] = "ensure_jobs" /\ c \notin consents /\ req'[r] = req[r]
  <2>1. "idle" \in Labels /\ "ensure_jobs" \in Labels
    BY DEF Labels, DbAwaits
  <2> QED
    BY <1>0, <2>1, MovesLocal DEF CreateConsent, AfterConsent
<1>3. \A d \in Conns : RowInv(d)'
  BY <1>0, <1>1 DEF RowInv, Sent
<1>4. ASSUME NEW q \in Reqs PROVE LocalInv(q)'
  <2>1. CASE q = r
    BY <1>0, <1>1, <1>2, <2>1 DEF LocalInv, RowInv, SentLabels
  <2>2. CASE q # r
    BY <1>0, <1>1, <1>2, <2>2 DEF LocalInv, Sent
  <2> QED
    BY <2>1, <2>2
<1>5. OneSender'
  <2> SUFFICES ASSUME NEW p \in Reqs, NEW q \in Reqs,
                      pc'[p] = "ensure_jobs", pc'[q] = "ensure_jobs", req'[p].conn = req'[q].conn
               PROVE  p = q
    BY DEF OneSender
  <2> QED
    BY <1>0, <1>2 DEF OneSender, LocalInv
<1> QED
  BY <1>3, <1>4, <1>5 DEF SafetyInv

\* The one handler past the consent record creates the jobs and calls /v3/user.
LEMMA EnsurePullJobsSafe ==
  ASSUME TypeInv, SafetyInv, NEW r \in Reqs, EnsurePullJobs(r)
  PROVE  SafetyInv'
<1> DEFINE c == req[r].conn
<1>0. /\ pc \in [Reqs -> Labels] /\ c \in Conns
      /\ job \in [Conns -> [Bureaus -> JobStatus]] /\ registered \in [Conns -> Nat]
      /\ \A d \in Conns : RowInv(d)
      /\ \A q \in Reqs : LocalInv(q)
      /\ OneSender
  BY DEF TypeInv, SlotsOK, TablesOK, SafetyInv, EnsurePullJobs, At
<1>1. /\ conn' = conn /\ scored' = scored /\ consents' = consents
      /\ pc' = [pc EXCEPT ![r] = "await_user"] /\ req' = req
  BY DEF EnsurePullJobs, Goto
<1>2. /\ pc[r] = "ensure_jobs" /\ c \in consents /\ registered[c] = 0
  BY <1>0 DEF EnsurePullJobs, At, LocalInv
<1>3. /\ \A d \in Conns \ {c} : job'[d] = job[d] /\ registered'[d] = registered[d]
      /\ registered'[c] = 1
      /\ job'[c]["EXPERIAN"] # "NONE"
      /\ job'[c]["EXPERIAN"] = "COMPLETE" => job[c]["EXPERIAN"] = "COMPLETE"
  BY <1>0, <1>2 DEF EnsurePullJobs, PendingJobs, Bureaus
<1>4. \A d \in Conns : Sent(d) => Sent(d)'
  BY <1>3, <1>2 DEF Sent
<1>5. ASSUME NEW d \in Conns PROVE RowInv(d)'
  BY <1>0, <1>1, <1>2, <1>3, <1>4 DEF RowInv, Sent
<1>6. ASSUME NEW q \in Reqs PROVE LocalInv(q)'
  <2>1. CASE q = r
    BY <1>0, <1>1, <1>3, <2>1 DEF LocalInv, Sent, SentLabels
  <2>2. CASE q # r
    <3>1. pc'[q] = pc[q] /\ req'[q] = req[q]
      BY <1>0, <1>1, <2>2
    <3>2. pc[q] \in SentLabels \cup {"ensure_jobs"} => req[q].conn \in Conns
      BY DEF TypeInv, SlotsOK, SentLabels
    <3>3. pc[q] = "ensure_jobs" => req[q].conn # c
      BY <1>0, <1>2, <2>2 DEF OneSender
    <3> QED
      BY <1>0, <1>1, <1>3, <1>4, <3>1, <3>2, <3>3 DEF LocalInv
  <2> QED
    BY <2>1, <2>2
<1>7. OneSender'
  BY <1>0, <1>1 DEF OneSender
<1> QED
  BY <1>5, <1>6, <1>7 DEF SafetyInv

\* The first row of a new connection, on an id that no handler works on.
LEMMA CreateConnectionSafe ==
  ASSUME TypeInv, SafetyInv, NEW r \in Reqs, CreateConnection(r)
  PROVE  SafetyInv'
<1>1. PICK c \in Conns : /\ conn[c].state = "ABSENT"
                        /\ conn' = [conn EXCEPT ![c] = NewConnection(UserOf[r])]
  BY DEF CreateConnection, FreeIds
<1>2. NewConnection(UserOf[r]) \in Row
  BY <1>1, RowsTyped, BureauAssumption DEF TypeInv, TablesOK
<1>3. RowFits(c, NewConnection(UserOf[r]))
  BY <1>1 DEF RowFits, NewConnection, NoRow, SafetyInv, RowInv
<1>4. pc' = [pc EXCEPT ![r] = "idle"] /\ \A q \in Reqs : q # r => req'[q] = req[q]
  BY MovesLocal DEF CreateConnection
<1>5. ConnWritten /\ "idle" \in Labels /\ "idle" \notin SentLabels
  BY DEF CreateConnection, Labels, SentLabels
<1> QED
  BY <1>1, <1>2, <1>3, <1>4, <1>5, ConnWriteSafe

\* The score snapshot, of a connection whose identity was sent.
LEMMA InsertScoreSafe ==
  ASSUME TypeInv, SafetyInv, NEW r \in Reqs, InsertScore(r)
  PROVE  SafetyInv'
<1> DEFINE c == req[r].conn
<1>0. /\ pc \in [Reqs -> Labels] /\ c \in Conns /\ Sent(c)
      /\ \A d \in Conns : RowInv(d)
      /\ \A q \in Reqs : LocalInv(q)
      /\ OneSender
  BY DEF TypeInv, SlotsOK, SafetyInv, LocalInv, SentLabels, InsertScore, At
<1>1. /\ conn' = conn /\ job' = job /\ consents' = consents /\ registered' = registered
      /\ scored' = scored \cup {c}
      /\ pc' = [pc EXCEPT ![r] = "complete_job"] /\ req' = req
  BY DEF InsertScore, AfterInsert, Goto
<1>2. \A d \in Conns : RowInv(d)'
  BY <1>0, <1>1 DEF RowInv, Sent
<1>3. \A q \in Reqs : LocalInv(q)'
  BY <1>0, <1>1 DEF LocalInv, Sent, SentLabels
<1>4. OneSender'
  BY <1>0, <1>1 DEF OneSender
<1> QED
  BY <1>2, <1>3, <1>4 DEF SafetyInv

\* The steps of a handler that change no table.
LEMMA ReadersSafe ==
  ASSUME TypeInv, SafetyInv, NEW r \in Reqs,
         \/ UserReply(r) \/ AnswersReply(r) \/ PullLoad(r) \/ ReportReply(r)
         \/ FreshRead(r) \/ ReplyStatus(r) \/ DbThrows(r)
  PROVE  SafetyInv'
<1> DEFINE c == req[r].conn
<1>0. /\ req \in [Reqs -> Req]
      /\ pc[r] \notin {"idle", "create"} => c \in Conns /\ RowInv(c)
      /\ LocalInv(r)
  BY DEF TypeInv, SlotsOK, SafetyInv
<1>1. UNCHANGED <<tables, registered>>
  BY DEF UserReply, AnswersReply, PullLoad, ReportReply, FreshRead, ReplyStatus, DbThrows, OnlyMoves
<1>2. ASSUME NEW l \in Labels \ {"ensure_jobs", "write_address", "complete_job", "complete_conn"},
             Goto(r, l), l \in SentLabels => Sent(c)
      PROVE  SafetyInv'
  <2>1. pc' = [pc EXCEPT ![r] = l] /\ req' = req /\ req'[r].conn = c
    BY <1>2, MovesLocal
  <2> HIDE DEF c
  <2> QED
    BY <1>1, <1>2, <2>1, MoveSafe
<1>3. Finish(r) => SafetyInv'
  <2>1. "idle" \in Labels /\ "idle" \notin SentLabels
    BY DEF Labels, SentLabels
  <2> QED
    BY <1>1, <2>1, MovesLocal, MoveSafe
<1>4. CASE UserReply(r)
  <2>1. Sent(c)
    BY <1>0, <1>4 DEF UserReply, At, LocalInv, SentLabels
  <2> QED
    BY <1>2, <1>3, <1>4, <2>1 DEF UserReply, AfterUserReply, Labels, DbAwaits
<1>5. CASE AnswersReply(r) \/ ReportReply(r)
  <2>1. Sent(c)
    BY <1>0, <1>5 DEF AnswersReply, ReportReply, At, LocalInv, SentLabels
  <2> QED
    BY <1>2, <1>5, <2>1 DEF AnswersReply, ReportReply, AfterReport, Labels, DbAwaits, GuardedAwaits
<1>6. CASE PullLoad(r)
  <2>1. CASE Goto(r, "fresh_read")
    BY <1>2, <2>1 DEF Labels, DbAwaits, SentLabels
  <2>2. CASE /\ conn[c].state = "PROCESSING"
             /\ pc' = [pc EXCEPT ![r] = "mark_poll"]
             /\ req' = [req EXCEPT ![r].token = conn[c].token]
    <3>1. Sent(c)
      BY <1>0, <1>6, <2>2 DEF PullLoad, At, RowInv
    <3>2. req'[r].conn = c /\ \A q \in Reqs : q # r => req'[q] = req[q]
      BY <1>0, <2>2 DEF Req
    <3>3. "mark_poll" \in Labels
      BY DEF Labels, DbAwaits
    <3> HIDE DEF c
    <3> QED
      BY <1>1, <2>2, <3>1, <3>2, <3>3, MoveSafe
  <2> QED
    BY <1>6, <2>1, <2>2 DEF PullLoad
<1>7. CASE FreshRead(r)
  <2>1. CASE /\ pc' = [pc EXCEPT ![r] = "list_jobs"]
             /\ req' = [req EXCEPT ![r].seen = conn[c].state]
    <3>1. \A q \in Reqs : q # r => req'[q] = req[q]
      BY <1>0, <2>1
    <3>2. "list_jobs" \in Labels /\ "list_jobs" \notin SentLabels
      BY DEF Labels, DbAwaits, SentLabels
    <3> QED
      BY <1>1, <2>1, <3>1, <3>2, MoveSafe
  <2> QED
    BY <1>3, <1>7, <2>1 DEF FreshRead
<1>8. CASE ReplyStatus(r)
  BY <1>3, <1>8 DEF ReplyStatus
<1>9. CASE DbThrows(r)
  <2>1. pc[r] \in GuardedAwaits => Sent(c)
    BY <1>0 DEF LocalInv, GuardedAwaits, SentLabels
  <2> QED
    BY <1>2, <1>3, <1>9, <2>1 DEF DbThrows, Labels, DbAwaits
<1> QED
  BY <1>4, <1>5, <1>6, <1>7, <1>8, <1>9

\* Every step keeps the safety invariant.
LEMMA SafetyStep == TypeInv /\ SafetyInv /\ [Next]_vars => SafetyInv'
<1> SUFFICES ASSUME TypeInv, SafetyInv, [Next]_vars
             PROVE  SafetyInv'
  OBVIOUS
<1>1. ASSUME NEW r \in Reqs, Arrive(r)
      PROVE  SafetyInv'
  BY <1>1, ArriveSafe
<1>2. ASSUME NEW r \in Reqs, Serve(r)
      PROVE  SafetyInv'
  BY <1>2, RowWritersSafe, JobWritersSafe, CreateConsentSafe, EnsurePullJobsSafe,
     CreateConnectionSafe, InsertScoreSafe, ReadersSafe DEF Serve
<1>3. ASSUME NEW r \in Reqs, DbThrows(r)
      PROVE  SafetyInv'
  BY <1>3, ReadersSafe
<1>4. CASE Restart
  BY <1>4 DEF Restart, tables, SafetyInv, RowInv, LocalInv, OneSender, Sent, SentLabels
<1>5. ASSUME NEW c \in Conns, DebounceExpires(c)
      PROVE  SafetyInv'
  <2>0. /\ conn \in [Conns -> Row]
        /\ \A d \in Conns : RowInv(d)
        /\ \A q \in Reqs : LocalInv(q) /\ (pc[q] = "write_address" => req[q].conn \in Conns)
        /\ OneSender
    BY DEF TypeInv, SlotsOK, TablesOK, SafetyInv
  <2>1. conn' = [conn EXCEPT ![c] = [conn[c] EXCEPT !.polled = FALSE]]
    BY <1>5 DEF DebounceExpires
  <2>2. \A d \in Conns : /\ conn'[d].state = conn[d].state
                         /\ conn'[d].identity = conn[d].identity
                         /\ conn'[d].address = conn[d].address
                         /\ conn'[d].session = conn[d].session
                         /\ conn'[d].kiq = conn[d].kiq
                         /\ conn'[d].token = conn[d].token
                         /\ conn'[d].failureCode = conn[d].failureCode
    BY <2>0, <2>1 DEF Row
  <2>3. /\ consents' = consents /\ job' = job /\ scored' = scored /\ registered' = registered
        /\ pc' = pc /\ req' = req
    BY <1>5 DEF DebounceExpires
  <2>4. \A d \in Conns : RowInv(d)'
    BY <2>0, <2>2, <2>3 DEF RowInv, Sent
  <2>5. \A q \in Reqs : LocalInv(q)'
    BY <2>0, <2>2, <2>3 DEF LocalInv, Sent
  <2>6. OneSender'
    BY <2>0, <2>3 DEF OneSender
  <2> QED
    BY <2>4, <2>5, <2>6 DEF SafetyInv
<1>6. CASE UNCHANGED vars
  BY <1>6 DEF vars, SafetyInv, RowInv, LocalInv, OneSender, Sent
<1> QED
  BY <1>1, <1>2, <1>3, <1>4, <1>5, <1>6 DEF Next

LEMMA SafetyInvariant == Spec => [](TypeInv /\ SafetyInv)
<1>1. Init => SafetyInv
  BY DEF Init, NoRow, SafetyInv, RowInv, LocalInv, OneSender, Sent, SentLabels, Bureaus
<1> QED
  BY <1>1, TypeInvariant, SafetyStep, PTL DEF Spec

\* A connection never waits for a step whose predecessors' outcome is not stored: the
\* missing-column branches of submitAddress, submitConsent, submitKiqAnswers and
\* tryPullExperianReport are dead code, however requests overlap, fail or are cut short.
THEOREM StepsStored == Spec => []PriorStepsStored
<1>1. SafetyInv => PriorStepsStored
  BY DEF SafetyInv, RowInv, PriorStepsStored
<1> QED
  BY <1>1, SafetyInvariant, PTL

\* updatePullJob always finds its row.
THEOREM JobRowsExist == Spec => []JobRowExists
<1>1. SafetyInv => JobRowExists
  BY DEF SafetyInv, LocalInv, Sent, SentLabels, JobRowExists
<1> QED
  BY <1>1, SafetyInvariant, PTL

\* Whatever is marked complete has its score on record.
THEOREM CompleteHasScore == Spec => []ScoreBacked
<1>1. SafetyInv => ScoreBacked
  BY DEF SafetyInv, RowInv, ScoreBacked
<1> QED
  BY <1>1, SafetyInvariant, PTL

\* Whatever failed says why.
THEOREM FailureHasCode == Spec => []FailureExplained
<1>1. SafetyInv => FailureExplained
  BY DEF SafetyInv, RowInv, FailureExplained
<1> QED
  BY <1>1, SafetyInvariant, PTL

\* /v3/user is called at most once per connection.
THEOREM IdentitySentOnce == Spec => []RegisteredOnce
<1>1. SafetyInv => RegisteredOnce
  BY DEF SafetyInv, RowInv, RegisteredOnce
<1> QED
  BY <1>1, SafetyInvariant, PTL

\* The wizard implements the consent ledger: consent before the identity leaves, once, and a
\* score only for an identity that was sent.
THEOREM ImplementsLedger == Spec => LedgerSpec
<1>1. Init => Ledger!Init
  BY DEF Init, Ledger!Init
<1>2. TypeInv /\ SafetyInv /\ [Next]_vars => [Ledger!Next]_(Ledger!ledger)
  <2> SUFFICES ASSUME TypeInv, SafetyInv, [Next]_vars
               PROVE  [Ledger!Next]_(Ledger!ledger)
    OBVIOUS
  <2>1. ASSUME UNCHANGED <<consents, registered, scored>>
        PROVE  [Ledger!Next]_(Ledger!ledger)
    BY <2>1 DEF Ledger!ledger
  <2>2. ASSUME NEW r \in Reqs, CreateConsent(r)
        PROVE  [Ledger!Next]_(Ledger!ledger)
    <3>1. req[r].conn \in Conns
      BY <2>2 DEF CreateConsent, At, TypeInv, SlotsOK
    <3>2. CASE req[r].conn \in consents
      BY <2>1, <2>2, <3>2 DEF CreateConsent
    <3>3. CASE req[r].conn \notin consents
      <4>1. Ledger!Consent(req[r].conn)
        BY <2>2, <3>3 DEF CreateConsent, Ledger!Consent
      <4> QED
        BY <3>1, <4>1 DEF Ledger!Next
    <3> QED
      BY <3>2, <3>3
  <2>3. ASSUME NEW r \in Reqs, EnsurePullJobs(r)
        PROVE  [Ledger!Next]_(Ledger!ledger)
    <3>1. /\ req[r].conn \in Conns /\ req[r].conn \in consents
          /\ registered[req[r].conn] = 0
      BY <2>3 DEF EnsurePullJobs, At, TypeInv, SlotsOK, SafetyInv, LocalInv
    <3>2. Ledger!Register(req[r].conn)
      BY <2>3, <3>1 DEF EnsurePullJobs, Ledger!Register
    <3> QED
      BY <3>1, <3>2 DEF Ledger!Next
  <2>4. ASSUME NEW r \in Reqs, InsertScore(r)
        PROVE  [Ledger!Next]_(Ledger!ledger)
    <3> DEFINE c == req[r].conn
    <3>1. c \in Conns /\ registered[c] = 1
      BY <2>4 DEF InsertScore, At, TypeInv, SlotsOK, SafetyInv, LocalInv, SentLabels, Sent
    <3>2. Ledger!Score(c)
      BY <2>4, <3>1 DEF InsertScore, Ledger!Score
    <3> QED
      BY <3>1, <3>2 DEF Ledger!Next
  <2>5. CASE UNCHANGED vars
    BY <2>1, <2>5 DEF vars
  <2>6. CASE Restart \/ \E c \in Conns : DebounceExpires(c)
    BY <2>1, <2>6 DEF Restart, DebounceExpires, tables
  <2>7. ASSUME NEW r \in Reqs, Arrive(r) \/ DbThrows(r)
        PROVE  [Ledger!Next]_(Ledger!ledger)
    BY <2>1, <2>7 DEF Arrive, StartConnection, SubmitIdentity, SubmitAddress, SubmitConsent,
       SubmitKiqAnswers, GetConnectionStatus, DbThrows, OnlyMoves, tables
  <2>8. ASSUME NEW r \in Reqs, Serve(r)
        PROVE  [Ledger!Next]_(Ledger!ledger)
    <3>1. ASSUME OnlyMoves \/ ConnWritten \/ JobWritten
          PROVE  [Ledger!Next]_(Ledger!ledger)
      BY <2>1, <3>1 DEF OnlyMoves, ConnWritten, JobWritten, tables
    <3>2. CreateConsent(r) \/ EnsurePullJobs(r) \/ InsertScore(r)
            \/ OnlyMoves \/ ConnWritten \/ JobWritten
      BY <2>8 DEF Serve, CreateConnection, WriteIdentity, WriteAddress, UserReply, WriteKiq,
         WriteToken, RejectConnection, RejectJob, AnswersReply, PullLoad, MarkPoll,
         UndecryptConnection, UndecryptJob, StartJob, ReportReply, CompleteJob,
         CompleteConnection, FailJob, FailConnection, FreshRead, ReplyStatus
    <3> QED
      BY <2>2, <2>3, <2>4, <3>1, <3>2
  <2> QED
    BY <2>5, <2>6, <2>7, <2>8 DEF Next
<1> QED
  BY <1>1, <1>2, SafetyInvariant, PTL DEF Spec, LedgerSpec, Ledger!Spec

\* Whatever overlaps and fails, a connection that Experian knows of, that is past its consent or
\* that has a score has its consent on record.
THEOREM ConsentFirst ==
  Spec => [](\A c \in Conns :
               \/ registered[c] # 0 \/ c \in scored \/ job[c]["EXPERIAN"] = "COMPLETE"
               \/ conn[c].state \in {"AWAITING_EXPERIAN_KIQ", "PROCESSING", "COMPLETE"}
               => c \in consents)
<1>1. SafetyInv => \A c \in Conns :
               \/ registered[c] # 0 \/ c \in scored \/ job[c]["EXPERIAN"] = "COMPLETE"
               \/ conn[c].state \in {"AWAITING_EXPERIAN_KIQ", "PROCESSING", "COMPLETE"}
               => c \in consents
  BY DEF SafetyInv, RowInv, Sent
<1> QED
  BY <1>1, SafetyInvariant, PTL

------------------------------------------------------------------------------
(* How many connections a user can have in progress *)

SlotsOf(u) == {r \in Reqs : UserOf[r] = u}

\* A user's requests are finitely many at a time.
FiniteSlots == \A u \in Users : IsFiniteSet(SlotsOf(u))

\* The awaits of a handler that may still put its connection into a stage of the wizard.
StepAwaits ==
  {"write_identity", "write_address", "create_consent", "ensure_jobs", "await_user", "write_kiq",
   "write_token", "await_answers"}

Creating(u) == {r \in SlotsOf(u) : pc[r] = "create"}
Stepping(u) == {req[r].conn : r \in {q \in SlotsOf(u) : pc[q] \in StepAwaits}}
InProgress(u) == ActiveFor(u) \cup Stepping(u)

\* A row has an owner once it is there, and a handler works on a row of its user.
OwnInv ==
  /\ \A c \in Conns : conn[c].state = "ABSENT" <=> conn[c].owner = None
  /\ \A r \in Reqs : pc[r] \notin {"idle", "create"} => conn[req[r].conn].owner = UserOf[r]

\* A connection in progress, or about to be again, has a slot of its own, and so has each
\* connection that is about to be created.
ProgressInv ==
  \A u \in Users :
    /\ IsFiniteSet(InProgress(u))
    /\ Cardinality(InProgress(u)) + Cardinality(Creating(u)) <= Cardinality(SlotsOf(u))

\* What a step of slot r other than the start and the creation does to slots and stages.
StepBy(r) ==
  /\ \A q \in Reqs : q # r => pc'[q] = pc[q] /\ req'[q] = req[q]
  /\ pc'[r] # "create"
  /\ pc'[r] \notin {"idle", "create"} => conn[req'[r].conn].owner = UserOf[r]
  /\ pc'[r] \in StepAwaits =>
       \/ pc[r] \in StepAwaits /\ req'[r].conn = req[r].conn
       \/ req'[r].conn \in ActiveFor(UserOf[r])
  /\ \A d \in Conns :
       /\ conn'[d].owner = conn[d].owner
       /\ \/ conn'[d].state = conn[d].state
          \/ conn'[d].state \in Terminal /\ d = req[r].conn /\ pc[r] \notin {"idle", "create"}
          \/ conn'[d].state \in NonTerminal /\ d = req[r].conn /\ pc[r] \in StepAwaits

\* A handler that only moves.
LEMMA MoveSteps ==
  ASSUME TypeInv, OwnInv, NEW r \in Reqs, conn' = conn
  PROVE  /\ Finish(r) => StepBy(r)
         /\ \A l \in Labels : /\ Goto(r, l) /\ pc[r] \notin {"idle", "create"} /\ l # "create"
                              /\ (l \in StepAwaits => pc[r] \in StepAwaits)
                              => StepBy(r)
<1>1. pc \in [Reqs -> Labels] /\ "idle" \notin StepAwaits /\ "idle" \in Labels
  BY DEF TypeInv, SlotsOK, StepAwaits, Labels
<1>2. Finish(r) => StepBy(r)
  BY <1>1, MovesLocal DEF StepBy
<1>3. ASSUME NEW l \in Labels, Goto(r, l), pc[r] \notin {"idle", "create"}, l # "create",
             l \in StepAwaits => pc[r] \in StepAwaits
      PROVE  StepBy(r)
  <2>1. pc' = [pc EXCEPT ![r] = l] /\ req' = req
    BY <1>3, MovesLocal
  <2> QED
    BY <1>1, <1>3, <2>1 DEF StepBy, OwnInv
<1> QED
  BY <1>2, <1>3

\* The first stretch of a request other than a start.
LEMMA ArriveSteps ==
  ASSUME TypeInv, OwnInv, NEW r \in Reqs, Arrive(r)
  PROVE  StartConnection(r) \/ StepBy(r)
<1>0. conn' = conn /\ pc \in [Reqs -> Labels]
  BY DEF Arrive, StartConnection, SubmitIdentity, SubmitAddress, SubmitConsent, SubmitKiqAnswers,
     GetConnectionStatus, OnlyMoves, tables, TypeInv, SlotsOK
<1>1. ASSUME NEW op \in {"identity", "address", "consent", "kiq", "status"}, NEW c \in Conns,
             NEW l \in Labels \ {"create"}, Begin(r, op, c, l), conn[c].owner = UserOf[r],
             l \in StepAwaits => conn[c].state \in NonTerminal
      PROVE  StepBy(r)
  <2>1. /\ pc' = [pc EXCEPT ![r] = l] /\ req'[r].conn = c
        /\ \A q \in Reqs : q # r => req'[q] = req[q]
    BY <1>1, MovesLocal
  <2> QED
    BY <1>0, <1>1, <2>1 DEF StepBy, ActiveFor
<1>2. ASSUME NEW c \in Conns, SubmitIdentity(r, c) \/ SubmitAddress(r, c) \/ SubmitConsent(r, c)
      PROVE  StepBy(r)
  BY <1>1, <1>2 DEF SubmitIdentity, SubmitAddress, SubmitConsent, LoadedIn, Labels, DbAwaits,
     NonTerminal
<1>3. ASSUME NEW c \in Conns, SubmitKiqAnswers(r, c) \/ GetConnectionStatus(r, c)
      PROVE  StepBy(r)
  BY <1>1, <1>3 DEF SubmitKiqAnswers, GetConnectionStatus, LoadedIn, Labels, DbAwaits, NonTerminal,
     StepAwaits
<1> QED
  BY <1>2, <1>3 DEF Arrive

\* A handler that leaves the connections alone.
LEMMA ServeSteps ==
  ASSUME TypeInv, OwnInv, NEW r \in Reqs,
         \/ CreateConsent(r) \/ EnsurePullJobs(r) \/ UserReply(r) \/ AnswersReply(r)
         \/ RejectJob(r) \/ PullLoad(r) \/ UndecryptJob(r) \/ StartJob(r) \/ ReportReply(r)
         \/ InsertScore(r) \/ CompleteJob(r) \/ FailJob(r) \/ FreshRead(r) \/ ReplyStatus(r)
         \/ DbThrows(r)
  PROVE  StepBy(r)
<1>0. /\ conn' = conn /\ pc \in [Reqs -> Labels] /\ req \in [Reqs -> Req]
      /\ pc[r] \notin {"idle", "create"} => conn[req[r].conn].owner = UserOf[r]
  BY DEF CreateConsent, EnsurePullJobs, UserReply, AnswersReply, RejectJob, PullLoad, UndecryptJob,
     StartJob, ReportReply, InsertScore, CompleteJob, FailJob, FreshRead, ReplyStatus, DbThrows,
     OnlyMoves, JobWritten, tables, TypeInv, SlotsOK, OwnInv
<1>1. ASSUME NEW l \in Labels \ {"create"}, Goto(r, l), pc[r] \notin {"idle", "create"},
             l \in StepAwaits => pc[r] \in StepAwaits
      PROVE  StepBy(r)
  BY <1>0, <1>1, MoveSteps
<1>2. Finish(r) => StepBy(r)
  BY <1>0, MoveSteps
<1>3. ASSUME NEW l \in {"mark_poll", "list_jobs"}, pc' = [pc EXCEPT ![r] = l],
             \A q \in Reqs : q # r => req'[q] = req[q], req'[r].conn = req[r].conn,
             pc[r] \notin {"idle", "create"}
      PROVE  StepBy(r)
  BY <1>0, <1>3 DEF StepBy, StepAwaits
<1>4. CASE CreateConsent(r) \/ EnsurePullJobs(r)
  BY <1>1, <1>2, <1>4 DEF CreateConsent, AfterConsent, EnsurePullJobs, At, StepAwaits, Labels,
     DbAwaits
<1>5. CASE UserReply(r) \/ AnswersReply(r)
  BY <1>1, <1>2, <1>5 DEF UserReply, AfterUserReply, AnswersReply, At, StepAwaits, Labels, DbAwaits
<1>6. CASE UndecryptJob(r) \/ StartJob(r) \/ ReportReply(r)
  BY <1>1, <1>6 DEF UndecryptJob, StartJob, ReportReply, AfterReport, At, StepAwaits, Labels,
     DbAwaits, GuardedAwaits
<1>7. CASE InsertScore(r) \/ CompleteJob(r) \/ FailJob(r)
  BY <1>1, <1>7 DEF InsertScore, AfterInsert, CompleteJob, FailJob, At, StepAwaits, Labels,
     DbAwaits, GuardedAwaits
<1>8. CASE RejectJob(r) \/ ReplyStatus(r)
  BY <1>2, <1>8 DEF RejectJob, ReplyStatus
<1>9. CASE PullLoad(r)
  <2>1. CASE Goto(r, "fresh_read")
    BY <1>1, <1>9, <2>1 DEF PullLoad, At, StepAwaits, Labels, DbAwaits
  <2>2. CASE /\ pc' = [pc EXCEPT ![r] = "mark_poll"]
             /\ req' = [req EXCEPT ![r].token = conn[req[r].conn].token]
    BY <1>0, <1>3, <1>9, <2>2 DEF PullLoad, At, Req
  <2> QED
    BY <1>9, <2>1, <2>2 DEF PullLoad
<1>10. CASE FreshRead(r)
  <2>1. CASE /\ pc' = [pc EXCEPT ![r] = "list_jobs"]
             /\ req' = [req EXCEPT ![r].seen = conn[req[r].conn].state]
    BY <1>0, <1>3, <1>10, <2>1 DEF FreshRead, At, Req
  <2> QED
    BY <1>2, <1>10, <2>1 DEF FreshRead
<1>11. CASE DbThrows(r)
  BY <1>1, <1>2, <1>11 DEF DbThrows, GuardedAwaits, StepAwaits, Labels, DbAwaits
<1> QED
  BY <1>4, <1>5, <1>6, <1>7, <1>8, <1>9, <1>10, <1>11

\* A handler that writes its connection.
LEMMA WriterSteps ==
  ASSUME TypeInv, OwnInv, NEW r \in Reqs,
         \/ WriteIdentity(r) \/ WriteAddress(r) \/ WriteKiq(r) \/ WriteToken(r)
         \/ RejectConnection(r) \/ MarkPoll(r) \/ UndecryptConnection(r)
         \/ CompleteConnection(r) \/ FailConnection(r)
  PROVE  StepBy(r)
<1> DEFINE c == req[r].conn
<1>1. /\ c \in Conns /\ conn[c] \in Row /\ conn \in [Conns -> Row] /\ conn[c].owner = UserOf[r]
      /\ pc[r] \notin {"idle", "create"} /\ pc \in [Reqs -> Labels]
  <2>1. pc[r] \notin {"idle", "create"}
    BY DEF WriteIdentity, WriteAddress, WriteKiq, WriteToken, RejectConnection, MarkPoll,
       UndecryptConnection, CompleteConnection, FailConnection, At
  <2> QED
    BY <2>1 DEF TypeInv, SlotsOK, TablesOK, OwnInv
<1>2. ASSUME NEW row, row.owner = conn[c].owner,
             \/ row.state = conn[c].state
             \/ row.state \in Terminal
             \/ row.state \in NonTerminal /\ pc[r] \in StepAwaits,
             \/ UpdateConnection(r, row, Finish(r), Finish(r))
             \/ \E l \in Labels \ ({"create"} \cup StepAwaits) :
                  UpdateConnection(r, row, Goto(r, l), Goto(r, l))
      PROVE  StepBy(r)
  <2>1. conn' = [conn EXCEPT ![c] = row] \/ conn' = conn
    BY <1>2 DEF UpdateConnection
  <2>2. \/ Finish(r)
        \/ \E l \in Labels \ ({"create"} \cup StepAwaits) : Goto(r, l)
    BY <1>2 DEF UpdateConnection
  <2>3. PICK l \in Labels \ ({"create"} \cup StepAwaits) :
           /\ pc' = [pc EXCEPT ![r] = l]
           /\ \A q \in Reqs : q # r => req'[q] = req[q]
           /\ l # "idle" => req'[r].conn = c
    <3>1. "idle" \in Labels \ ({"create"} \cup StepAwaits)
      BY DEF Labels, StepAwaits
    <3> QED
      BY <2>2, <3>1, MovesLocal
  <2> HIDE DEF c
  <2>4. \A d \in Conns : \/ conn'[d] = conn[d]
                         \/ d = c /\ conn'[d] = row
    BY <1>1, <2>1
  <2>5. \A d \in Conns :
          /\ conn'[d].owner = conn[d].owner
          /\ \/ conn'[d].state = conn[d].state
             \/ conn'[d].state \in Terminal /\ d = c
             \/ conn'[d].state \in NonTerminal /\ d = c /\ pc[r] \in StepAwaits
    BY <1>2, <2>4
  <2>6. /\ \A q \in Reqs : q # r => pc'[q] = pc[q]
        /\ pc'[r] = l
    BY <1>1, <2>3
  <2>7. pc'[r] \notin {"idle", "create"} => conn[req'[r].conn].owner = UserOf[r]
    BY <1>1, <2>3, <2>6
  <2> QED
    BY <1>1, <2>3, <2>5, <2>6, <2>7 DEF StepBy, c
<1>3. ASSUME NEW row, row.owner = conn[c].owner,
             \/ row.state = conn[c].state
             \/ row.state \in Terminal
             \/ row.state \in NonTerminal /\ pc[r] \in StepAwaits,
             NEW l \in {"pull_load", "reject_job", "start_job", "undecrypt_conn", "undecrypt_job",
                        "fresh_read"},
             UpdateConnection(r, row, Goto(r, l), Goto(r, l))
      PROVE  StepBy(r)
  <2>1. l \in Labels \ ({"create"} \cup StepAwaits)
    BY DEF Labels, DbAwaits, StepAwaits
  <2> HIDE DEF c
  <2> QED
    BY <1>2, <1>3, <2>1
<1>4. CASE WriteIdentity(r)
  <2> DEFINE row == [conn[c] EXCEPT !.identity = piiKey, !.state = "AWAITING_ADDRESS"]
  <2>1. row.owner = conn[c].owner /\ row.state \in NonTerminal /\ pc[r] \in StepAwaits
    BY <1>1, <1>4 DEF Row, NonTerminal, WriteIdentity, At, StepAwaits
  <2>2. UpdateConnection(r, row, Finish(r), Finish(r))
    BY <1>4 DEF WriteIdentity
  <2> HIDE DEF row, c
  <2> QED
    BY <1>2, <2>1, <2>2
<1>5. CASE WriteAddress(r)
  <2> DEFINE row == [conn[c] EXCEPT !.address = piiKey, !.state = "AWAITING_CONSENT"]
  <2>1. row.owner = conn[c].owner /\ row.state \in NonTerminal /\ pc[r] \in StepAwaits
    BY <1>1, <1>5 DEF Row, NonTerminal, WriteAddress, At, StepAwaits
  <2>2. UpdateConnection(r, row, Finish(r), Finish(r))
    BY <1>5 DEF WriteAddress
  <2> HIDE DEF row, c
  <2> QED
    BY <1>2, <2>1, <2>2
<1>6. CASE WriteKiq(r)
  <2> DEFINE row == WithQuestions(conn[c])
  <2>1. row.owner = conn[c].owner /\ row.state \in NonTerminal /\ pc[r] \in StepAwaits
    BY <1>1, <1>6 DEF Row, NonTerminal, WithQuestions, WriteKiq, At, StepAwaits
  <2>2. UpdateConnection(r, row, Finish(r), Finish(r))
    BY <1>6 DEF WriteKiq
  <2> HIDE DEF row, c
  <2> QED
    BY <1>2, <2>1, <2>2
<1>7. CASE WriteToken(r)
  <2> DEFINE row == WithToken(conn[c])
  <2>1. row.owner = conn[c].owner /\ row.state \in NonTerminal /\ pc[r] \in StepAwaits
    BY <1>1, <1>7 DEF Row, NonTerminal, WithToken, WriteToken, At, StepAwaits
  <2>2. UpdateConnection(r, row, Goto(r, "pull_load"), Goto(r, "pull_load"))
    BY <1>7 DEF WriteToken
  <2> HIDE DEF row, c
  <2> QED
    BY <1>3, <2>1, <2>2
<1>8. CASE RejectConnection(r) \/ UndecryptConnection(r) \/ FailConnection(r)
  <2> DEFINE row == AsFailed(conn[c])
  <2>1. row.owner = conn[c].owner /\ row.state \in Terminal
    BY <1>1 DEF Row, Terminal, AsFailed
  <2>2. \E l \in {"reject_job", "undecrypt_job", "fresh_read"} :
           UpdateConnection(r, row, Goto(r, l), Goto(r, l))
    BY <1>8 DEF RejectConnection, UndecryptConnection, FailConnection
  <2> HIDE DEF row, c
  <2> QED
    BY <1>3, <2>1, <2>2
<1>9. CASE CompleteConnection(r)
  <2> DEFINE row == AsComplete(conn[c])
  <2>1. row.owner = conn[c].owner /\ row.state \in Terminal
    BY <1>1 DEF Row, Terminal, AsComplete
  <2>2. UpdateConnection(r, row, Goto(r, "fresh_read"), Goto(r, "fresh_read"))
    BY <1>9 DEF CompleteConnection
  <2> HIDE DEF row, c
  <2> QED
    BY <1>3, <2>1, <2>2
<1>10. CASE MarkPoll(r)
  <2> DEFINE row == AsPolled(conn[c])
  <2>1. row.owner = conn[c].owner /\ row.state = conn[c].state
    BY <1>1 DEF Row, AsPolled
  <2>2. \E l \in {"start_job", "undecrypt_conn"} : UpdateConnection(r, row, Goto(r, l), Goto(r, l))
    BY <1>10 DEF MarkPoll
  <2> HIDE DEF row, c
  <2> QED
    BY <1>3, <2>1, <2>2
<1> QED
  BY <1>4, <1>5, <1>6, <1>7, <1>8, <1>9, <1>10

\* What follows for the invariant when no connection comes into progress.
LEMMA ProgressShrinks ==
  ASSUME ProgressInv, FiniteSlots,
         \A u \in Users : InProgress(u)' \subseteq InProgress(u) /\ Creating(u)' \subseteq Creating(u)
  PROVE  ProgressInv'
<1> SUFFICES ASSUME NEW u \in Users
             PROVE  /\ IsFiniteSet(InProgress(u)')
                    /\ Cardinality(InProgress(u)') + Cardinality(Creating(u)')
                         <= Cardinality(SlotsOf(u))
  BY DEF ProgressInv, SlotsOf
<1>1. IsFiniteSet(SlotsOf(u)) /\ IsFiniteSet(Creating(u)) /\ IsFiniteSet(InProgress(u))
  BY FS_Subset DEF FiniteSlots, Creating, ProgressInv
<1>2. /\ IsFiniteSet(InProgress(u)') /\ Cardinality(InProgress(u)') <= Cardinality(InProgress(u))
      /\ IsFiniteSet(Creating(u)') /\ Cardinality(Creating(u)') <= Cardinality(Creating(u))
  BY <1>1, FS_Subset
<1>3. /\ Cardinality(InProgress(u)) + Cardinality(Creating(u)) <= Cardinality(SlotsOf(u))
      /\ Cardinality(InProgress(u)') \in Nat /\ Cardinality(InProgress(u)) \in Nat
      /\ Cardinality(Creating(u)') \in Nat /\ Cardinality(Creating(u)) \in Nat
      /\ Cardinality(SlotsOf(u)) \in Nat
  BY <1>1, <1>2, FS_CardinalityType DEF ProgressInv
<1> QED
  BY <1>2, <1>3

\* A step of a handler frees slots and connections, or none.
LEMMA StepByKeeps ==
  ASSUME TypeInv, TypeInv', OwnInv, ProgressInv, FiniteSlots, NEW r \in Reqs, StepBy(r)
  PROVE  OwnInv' /\ ProgressInv'
<1>0. /\ \A q \in Reqs : pc[q] \notin {"idle", "create"} => req[q].conn \in Conns
      /\ \A q \in Reqs : pc'[q] \notin {"idle", "create"} => req'[q].conn \in Conns
      /\ "idle" \notin StepAwaits /\ "create" \notin StepAwaits
      /\ "ABSENT" \notin NonTerminal /\ "ABSENT" \notin Terminal
      /\ NonTerminal \cap Terminal = {}
  BY DEF TypeInv, SlotsOK, StepAwaits, NonTerminal, Terminal
<1>1. OwnInv'
  <2>1. \A c \in Conns : conn'[c].state = "ABSENT" <=> conn'[c].owner = None
    <3>1. \A c \in Conns : conn[c].state = "ABSENT" <=> conn[c].owner = None
      BY DEF OwnInv
    <3>2. pc[r] \notin {"idle", "create"} => conn[req[r].conn].owner # None
      BY BureauAssumption DEF OwnInv
    <3> QED
      BY <1>0, <3>1, <3>2 DEF StepBy
  <2>2. ASSUME NEW q \in Reqs, pc'[q] \notin {"idle", "create"}
        PROVE  conn'[req'[q].conn].owner = UserOf[q]
    <3>1. CASE q = r
      BY <1>0, <2>2, <3>1 DEF StepBy
    <3>2. CASE q # r
      BY <1>0, <2>2, <3>2 DEF StepBy, OwnInv
    <3> QED
      BY <3>1, <3>2
  <2> QED
    BY <2>1, <2>2 DEF OwnInv
<1>2. ASSUME NEW u \in Users
      PROVE  InProgress(u)' \subseteq InProgress(u) /\ Creating(u)' \subseteq Creating(u)
  <2>1. Creating(u)' \subseteq Creating(u)
    BY DEF StepBy, Creating, SlotsOf
  <2>2. ASSUME NEW d \in ActiveFor(u)'
        PROVE  d \in InProgress(u)
    <3>1. d \in Conns /\ conn'[d].owner = u /\ conn'[d].state \in NonTerminal
      BY <2>2 DEF ActiveFor
    <3>2. CASE conn'[d].state = conn[d].state
      BY <3>1, <3>2 DEF StepBy, ActiveFor, InProgress
    <3>3. CASE d = req[r].conn /\ pc[r] \in StepAwaits
      BY <1>0, <3>1, <3>3 DEF StepBy, OwnInv, Stepping, SlotsOf, InProgress
    <3> QED
      BY <1>0, <3>1, <3>2, <3>3 DEF StepBy
  <2>3. ASSUME NEW q \in SlotsOf(u), pc'[q] \in StepAwaits
        PROVE  req'[q].conn \in InProgress(u)
    <3>1. CASE q = r
      BY <2>3, <3>1 DEF StepBy, SlotsOf, Stepping, InProgress
    <3>2. CASE q # r
      BY <2>3, <3>2 DEF StepBy, SlotsOf, Stepping, InProgress
    <3> QED
      BY <3>1, <3>2
  <2>4. InProgress(u)' = ActiveFor(u)' \cup {req'[q].conn : q \in {p \in SlotsOf(u) : pc'[p] \in StepAwaits}}
    BY DEF InProgress, Stepping, SlotsOf
  <2> QED
    BY <2>1, <2>2, <2>3, <2>4
<1> QED
  BY <1>1, <1>2, ProgressShrinks

\* A start finds none of its user's connections in progress: those about to be again have
\* slots of their own.
LEMMA StartKeeps ==
  ASSUME TypeInv, OwnInv, ProgressInv, FiniteSlots, NEW r \in Reqs, StartConnection(r)
  PROVE  OwnInv' /\ ProgressInv'
<1>0. /\ pc' = [pc EXCEPT ![r] = "create"] /\ conn' = conn /\ pc[r] = "idle"
      /\ \A q \in Reqs : q # r => req'[q] = req[q]
      /\ pc \in [Reqs -> Labels] /\ "create" \notin StepAwaits /\ "idle" \notin StepAwaits
  <2>1. "create" \in Labels
    BY DEF Labels, DbAwaits
  <2> QED
    BY <2>1, MovesLocal
    DEF StartConnection, At, OnlyMoves, tables, TypeInv, SlotsOK, StepAwaits
<1>1. OwnInv'
  BY <1>0 DEF OwnInv
<1>2. ASSUME NEW u \in Users, u # UserOf[r]
      PROVE  InProgress(u)' = InProgress(u) /\ Creating(u)' = Creating(u)
  <2>1. \A q \in SlotsOf(u) : q # r /\ q \in Reqs
    BY <1>2 DEF SlotsOf
  <2>2. ActiveFor(u)' = ActiveFor(u)
    BY <1>0 DEF ActiveFor
  <2>3. Creating(u)' = Creating(u)
    BY <1>0, <2>1 DEF Creating, SlotsOf
  <2>4. Stepping(u)' = Stepping(u)
    BY <1>0, <2>1 DEF Stepping, SlotsOf
  <2> QED
    BY <2>2, <2>3, <2>4 DEF InProgress
<1>3. ASSUME NEW u \in Users, u = UserOf[r]
      PROVE  /\ IsFiniteSet(InProgress(u)')
             /\ Cardinality(InProgress(u)') + Cardinality(Creating(u)') <= Cardinality(SlotsOf(u))
  <2> DEFINE C == Creating(u) \cup {r}
             P == Stepping(u)
             free == SlotsOf(u) \ C
             slot == [d \in P |-> CHOOSE q \in SlotsOf(u) : pc[q] \in StepAwaits /\ req[q].conn = d]
  <2>1. InProgress(u)' = P
    <3>1. ActiveFor(u)' = {}
      BY <1>0, <1>3 DEF StartConnection, ActiveFor
    <3>2. Stepping(u)' = Stepping(u)
      BY <1>0 DEF Stepping, SlotsOf
    <3> QED
      BY <3>1, <3>2 DEF InProgress
  <2>2. Creating(u)' = C
    BY <1>0, <1>3 DEF Creating, SlotsOf
  <2>3. C \subseteq SlotsOf(u) /\ IsFiniteSet(SlotsOf(u)) /\ IsFiniteSet(C)
    <3>1. C \subseteq SlotsOf(u)
      BY <1>3 DEF Creating, SlotsOf
    <3>2. IsFiniteSet(SlotsOf(u))
      BY DEF FiniteSlots
    <3> QED
      BY <3>1, <3>2, FS_Subset
  <2>4. \A d \in P : slot[d] \in SlotsOf(u) /\ pc[slot[d]] \in StepAwaits /\ req[slot[d]].conn = d
    <3>1. \A d \in P : \E q \in SlotsOf(u) : pc[q] \in StepAwaits /\ req[q].conn = d
      BY DEF Stepping
    <3> QED
      BY <3>1
  <2> HIDE DEF P, slot
  <2>5. \A d \in P : slot[d] \in free
    BY <1>0, <2>4 DEF Creating
  <2>6. slot \in Injection(P, free)
    <3>1. slot \in [P -> free]
      BY <2>5 DEF slot
    <3>2. \A d, e \in P : slot[d] = slot[e] => d = e
      BY <2>4
    <3> QED
      BY <3>1, <3>2 DEF Injection, IsInjective
  <2> HIDE DEF C
  <2>7. IsFiniteSet(free) /\ Cardinality(free) = Cardinality(SlotsOf(u)) - Cardinality(C)
    <3>1. SlotsOf(u) \cap C = C
      BY <2>3
    <3> QED
      BY <2>3, <3>1, FS_Difference
  <2> HIDE DEF free
  <2>8. IsFiniteSet(P) /\ Cardinality(P) <= Cardinality(free)
    BY <2>6, <2>7, FS_Injection
  <2>9. /\ Cardinality(P) \in Nat /\ Cardinality(C) \in Nat /\ Cardinality(free) \in Nat
        /\ Cardinality(SlotsOf(u)) \in Nat
    BY <2>3, <2>7, <2>8, FS_CardinalityType
  <2> QED
    BY <2>1, <2>2, <2>7, <2>8, <2>9
<1>4. ProgressInv'
  BY <1>2, <1>3 DEF ProgressInv, SlotsOf
<1> QED
  BY <1>1, <1>4

\* A creation turns the slot that had found nothing in progress into a connection.
LEMMA CreateKeeps ==
  ASSUME TypeInv, TypeInv', OwnInv, ProgressInv, FiniteSlots, NEW r \in Reqs,
         CreateConnection(r)
  PROVE  OwnInv' /\ ProgressInv'
<1> DEFINE row == NewConnection(UserOf[r])
<1>1. PICK c \in Conns : conn[c].state = "ABSENT" /\ conn' = [conn EXCEPT ![c] = row]
  BY DEF CreateConnection, FreeIds
<1>2. row.owner = UserOf[r] /\ row.state # "ABSENT" /\ UserOf[r] # None /\ UserOf[r] \in Users
  BY BureauAssumption DEF NewConnection, NoRow
<1>3. /\ pc' = [pc EXCEPT ![r] = "idle"] /\ pc[r] = "create"
      /\ \A q \in Reqs : q # r => req'[q] = req[q]
      /\ pc \in [Reqs -> Labels] /\ conn \in [Conns -> Row]
      /\ "create" \notin StepAwaits /\ "idle" \notin StepAwaits
  BY MovesLocal DEF CreateConnection, At, TypeInv, SlotsOK, TablesOK, StepAwaits
<1> HIDE DEF row
<1>4. conn'[c] = row /\ \A d \in Conns : d # c => conn'[d] = conn[d]
  BY <1>1, <1>3
<1>5. OwnInv'
  <2>1. \A q \in Reqs : pc[q] \notin {"idle", "create"} => req[q].conn \in Conns /\ req[q].conn # c
    BY <1>1, BureauAssumption DEF TypeInv, SlotsOK, OwnInv
  <2> QED
    BY <1>1, <1>2, <1>3, <1>4, <2>1 DEF OwnInv
<1>6. ASSUME NEW u \in Users
      PROVE  /\ Stepping(u)' = Stepping(u)
             /\ u # UserOf[r] => ActiveFor(u)' \subseteq ActiveFor(u) /\ Creating(u)' = Creating(u)
             /\ u = UserOf[r] => /\ ActiveFor(u)' \subseteq ActiveFor(u) \cup {c}
                                 /\ Creating(u)' = Creating(u) \ {r} /\ r \in Creating(u)
  <2>1. Stepping(u)' = Stepping(u)
    BY <1>3 DEF Stepping, SlotsOf
  <2>2. u # UserOf[r] => ActiveFor(u)' \subseteq ActiveFor(u) /\ Creating(u)' = Creating(u)
    BY <1>2, <1>3, <1>4 DEF ActiveFor, Creating, SlotsOf
  <2>3. u = UserOf[r] => /\ ActiveFor(u)' \subseteq ActiveFor(u) \cup {c}
                         /\ Creating(u)' = Creating(u) \ {r} /\ r \in Creating(u)
    BY <1>3, <1>4 DEF ActiveFor, Creating, SlotsOf
  <2> QED
    BY <2>1, <2>2, <2>3
<1>7. ASSUME NEW u \in Users
      PROVE  /\ IsFiniteSet(InProgress(u)')
             /\ Cardinality(InProgress(u)') + Cardinality(Creating(u)') <= Cardinality(SlotsOf(u))
  <2>1. IsFiniteSet(SlotsOf(u)) /\ IsFiniteSet(Creating(u)) /\ IsFiniteSet(InProgress(u))
    BY FS_Subset DEF FiniteSlots, Creating, ProgressInv
  <2>2. /\ Cardinality(InProgress(u)) + Cardinality(Creating(u)) <= Cardinality(SlotsOf(u))
        /\ Cardinality(InProgress(u)) \in Nat /\ Cardinality(Creating(u)) \in Nat
        /\ Cardinality(SlotsOf(u)) \in Nat
    BY <2>1, FS_CardinalityType DEF ProgressInv
  <2>3. CASE u # UserOf[r]
    <3>1. InProgress(u)' \subseteq InProgress(u) /\ Creating(u)' = Creating(u)
      BY <1>6, <2>3 DEF InProgress
    <3>2. /\ IsFiniteSet(InProgress(u)')
          /\ Cardinality(InProgress(u)') <= Cardinality(InProgress(u))
          /\ Cardinality(InProgress(u)') \in Nat
      BY <2>1, <3>1, FS_Subset, FS_CardinalityType
    <3> QED
      BY <2>2, <3>1, <3>2
  <2>4. CASE u = UserOf[r]
    <3>1. InProgress(u)' \subseteq InProgress(u) \cup {c}
      BY <1>6, <2>4 DEF InProgress
    <3>2. /\ IsFiniteSet(InProgress(u) \cup {c})
          /\ Cardinality(InProgress(u) \cup {c}) <= Cardinality(InProgress(u)) + 1
          /\ Cardinality(InProgress(u) \cup {c}) \in Nat
      <4>1. /\ IsFiniteSet(InProgress(u) \cup {c})
            /\ Cardinality(InProgress(u) \cup {c})
                 = IF c \in InProgress(u) THEN Cardinality(InProgress(u))
                                         ELSE Cardinality(InProgress(u)) + 1
        BY <2>1, FS_AddElement
      <4>2. CASE c \in InProgress(u)
        BY <2>2, <4>1, <4>2
      <4>3. CASE c \notin InProgress(u)
        BY <2>2, <4>1, <4>3
      <4> QED
        BY <4>2, <4>3
    <3>3. /\ IsFiniteSet(InProgress(u)')
          /\ Cardinality(InProgress(u)') <= Cardinality(InProgress(u) \cup {c})
          /\ Cardinality(InProgress(u)') \in Nat
      BY <3>1, <3>2, FS_Subset, FS_CardinalityType
    <3>4. Cardinality(Creating(u)') = Cardinality(Creating(u)) - 1
      BY <1>6, <2>1, <2>4, FS_RemoveElement
    <3>5. Cardinality(InProgress(u)') <= Cardinality(InProgress(u)) + 1
      BY <2>2, <3>2, <3>3
    <3> HIDE DEF InProgress, Creating
    <3> QED
      BY <2>2, <3>3, <3>4, <3>5
  <2> QED
    BY <2>3, <2>4
<1> QED
  BY <1>5, <1>7 DEF ProgressInv, SlotsOf

LEMMA ProgressStep ==
  ASSUME TypeInv, TypeInv', OwnInv, ProgressInv, FiniteSlots, [Next]_vars
  PROVE  OwnInv' /\ ProgressInv'
<1>1. ASSUME NEW r \in Reqs, Arrive(r) \/ Serve(r) \/ DbThrows(r)
      PROVE  OwnInv' /\ ProgressInv'
  <2>1. StartConnection(r) \/ CreateConnection(r) \/ StepBy(r)
    BY <1>1, ArriveSteps, ServeSteps, WriterSteps DEF Serve
  <2> QED
    BY <2>1, StartKeeps, CreateKeeps, StepByKeeps
<1>2. ASSUME \A d \in Conns : conn'[d].owner = conn[d].owner /\ conn'[d].state = conn[d].state,
             \/ \A r \in Reqs : pc'[r] = "idle"
             \/ pc' = pc /\ req' = req
      PROVE  OwnInv' /\ ProgressInv'
  <2>1. /\ \A q \in Reqs : pc[q] \notin {"idle", "create"} => req[q].conn \in Conns
        /\ "idle" \notin StepAwaits
    BY DEF TypeInv, SlotsOK, StepAwaits
  <2>2. OwnInv'
    BY <1>2, <2>1 DEF OwnInv
  <2>3. ASSUME NEW u \in Users
        PROVE  InProgress(u)' \subseteq InProgress(u) /\ Creating(u)' \subseteq Creating(u)
    <3>1. ActiveFor(u)' = ActiveFor(u)
      BY <1>2 DEF ActiveFor
    <3>2. Creating(u)' \subseteq Creating(u)
      BY <1>2 DEF Creating, SlotsOf
    <3>3. Stepping(u)' \subseteq Stepping(u)
      BY <1>2, <2>1 DEF Stepping, SlotsOf
    <3> QED
      BY <3>1, <3>2, <3>3 DEF InProgress
  <2> QED
    BY <2>2, <2>3, ProgressShrinks
<1>3. CASE Restart
  BY <1>2, <1>3 DEF Restart, tables
<1>4. ASSUME NEW c \in Conns, DebounceExpires(c)
      PROVE  OwnInv' /\ ProgressInv'
  <2>1. \A d \in Conns : conn'[d].owner = conn[d].owner /\ conn'[d].state = conn[d].state
    BY <1>4 DEF DebounceExpires, TypeInv, TablesOK, Row
  <2> QED
    BY <1>2, <1>4, <2>1 DEF DebounceExpires
<1>5. CASE UNCHANGED vars
  BY <1>2, <1>5 DEF vars
<1> QED
  BY <1>1, <1>3, <1>4, <1>5 DEF Next

LEMMA ProgressInvariant == ASSUME FiniteSlots PROVE Spec => []ProgressInv
<1>1. Init => OwnInv /\ ProgressInv
  <2> SUFFICES ASSUME Init PROVE OwnInv /\ ProgressInv
    OBVIOUS
  <2>1. OwnInv
    BY DEF Init, NoRow, OwnInv
  <2>2. ASSUME NEW u \in Users
        PROVE  InProgress(u) = {} /\ Creating(u) = {} /\ IsFiniteSet(SlotsOf(u))
    <3>1. ActiveFor(u) = {}
      BY DEF Init, NoRow, ActiveFor, NonTerminal
    <3>2. Creating(u) = {} /\ Stepping(u) = {}
      BY DEF Init, Creating, Stepping, StepAwaits, SlotsOf
    <3>3. IsFiniteSet(SlotsOf(u))
      BY DEF FiniteSlots
    <3> QED
      BY <3>1, <3>2, <3>3 DEF InProgress
  <2>3. ProgressInv
    <3>1. IsFiniteSet({}) /\ Cardinality({}) = 0
      BY FS_EmptySet
    <3>2. \A u \in Users : Cardinality(SlotsOf(u)) \in Nat
      BY <2>2, FS_CardinalityType
    <3> QED
      BY <2>2, <3>1, <3>2 DEF ProgressInv
  <2> QED
    BY <2>1, <2>3
<1>2. TypeInv /\ TypeInv' /\ OwnInv /\ ProgressInv /\ [Next]_vars => OwnInv' /\ ProgressInv'
  BY ProgressStep
<1> QED
  BY <1>1, <1>2, TypeInvariant, PTL DEF Spec

\* However its requests overlap, fail or are cut short, and whichever settled connections
\* overtaken steps re-open, a user has at most as many connections in progress as requests
\* that can be under way at once.
BoundedInProgress == \A u \in Users : Cardinality(ActiveFor(u)) <= Cardinality(SlotsOf(u))

THEOREM InProgressBounded == ASSUME FiniteSlots PROVE Spec => []BoundedInProgress
<1>1. ProgressInv => BoundedInProgress
  <2> SUFFICES ASSUME ProgressInv, NEW u \in Users
               PROVE  Cardinality(ActiveFor(u)) <= Cardinality(SlotsOf(u))
    BY DEF BoundedInProgress
  <2>1. IsFiniteSet(SlotsOf(u)) /\ IsFiniteSet(Creating(u)) /\ IsFiniteSet(InProgress(u))
    BY FS_Subset DEF FiniteSlots, Creating, ProgressInv
  <2>2. IsFiniteSet(ActiveFor(u)) /\ Cardinality(ActiveFor(u)) <= Cardinality(InProgress(u))
    BY <2>1, FS_Subset DEF InProgress
  <2>3. Cardinality(InProgress(u)) + Cardinality(Creating(u)) <= Cardinality(SlotsOf(u))
    BY DEF ProgressInv
  <2> QED
    BY <2>1, <2>2, <2>3, FS_CardinalityType
<1> QED
  BY <1>1, ProgressInvariant, PTL

------------------------------------------------------------------------------
(* Every request is answered *)

\* How many stretches a handler may have left at most when it waits at label l.
Left(l) ==
  CASE l \in {"create", "write_identity", "write_address", "write_kiq", "reject_job",
              "list_jobs"} -> 1
    [] l \in {"reject_conn", "fresh_read"} -> 2
    [] l \in {"fail_conn", "undecrypt_job"} -> 3
    [] l \in {"fail_job", "undecrypt_conn"} -> 4
    [] l = "complete_conn" -> 5
    [] l = "complete_job" -> 6
    [] l = "insert_score" -> 7
    [] l = "await_report" -> 8
    [] l = "start_job" -> 9
    [] l = "mark_poll" -> 10
    [] l = "pull_load" -> 11
    [] l = "write_token" -> 12
    [] l \in {"await_user", "await_answers"} -> 13
    [] l = "ensure_jobs" -> 14
    [] l = "create_consent" -> 15
    [] OTHER -> 0

Idle(r) == pc[r] = "idle"
Within(r, n) == pc[r] # "idle" /\ Left(pc[r]) <= n

\* A suspended request is served again and again until it is done: what node's event loop,
\* the driver and the time-outs of fetch give.  WF_vars(Serve(r)) says the same, since
\* Serve(r) is enabled at every await.
Served(r) == []<>Idle(r) \/ []<><<Serve(r)>>_vars

LEMMA LeftTyped == \A l \in Labels \ {"idle"} : Left(l) \in 1..15
  BY DEF Labels, DbAwaits, GuardedAwaits, Left

\* No stretch of a handler, and no failure in it, leads to an await with as many or more left.
LEMMA StretchCloser ==
  ASSUME TypeInv, NEW r \in Reqs, Serve(r) \/ DbThrows(r)
  PROVE  Idle(r)' \/ (pc'[r] \in Labels \ {"idle"} /\ Left(pc'[r]) < Left(pc[r]))
<1>0. pc \in [Reqs -> Labels]
  BY DEF TypeInv, SlotsOK
<1>1. Finish(r) => Idle(r)'
  BY <1>0 DEF Finish, Idle
<1>2. ASSUME NEW l \in Labels \ {"idle"}, Left(l) < Left(pc[r]), pc' = [pc EXCEPT ![r] = l]
      PROVE  Idle(r)' \/ (pc'[r] \in Labels \ {"idle"} /\ Left(pc'[r]) < Left(pc[r]))
  BY <1>0, <1>2
<1>3. CASE \/ CreateConnection(r) \/ WriteIdentity(r) \/ WriteAddress(r) \/ WriteKiq(r)
           \/ RejectJob(r) \/ ReplyStatus(r)
  BY <1>1, <1>3 DEF CreateConnection, WriteIdentity, WriteAddress, WriteKiq, RejectJob,
     ReplyStatus, UpdateConnection
<1>4. CASE CreateConsent(r) \/ EnsurePullJobs(r)
  BY <1>1, <1>2, <1>4 DEF CreateConsent, AfterConsent, EnsurePullJobs, Goto, At, Left, Labels,
     DbAwaits
<1>5. CASE UserReply(r) \/ AnswersReply(r)
  BY <1>1, <1>2, <1>5 DEF UserReply, AfterUserReply, AnswersReply, Goto, At, Left, Labels, DbAwaits
<1>6. CASE WriteToken(r) \/ RejectConnection(r) \/ MarkPoll(r)
  BY <1>2, <1>6 DEF WriteToken, RejectConnection, MarkPoll, UpdateConnection, Goto, At, Left,
     Labels, DbAwaits
<1>7. CASE UndecryptConnection(r) \/ CompleteConnection(r) \/ FailConnection(r)
  BY <1>2, <1>7 DEF UndecryptConnection, CompleteConnection, FailConnection, UpdateConnection,
     Goto, At, Left, Labels, DbAwaits, GuardedAwaits
<1>8. CASE UndecryptJob(r) \/ StartJob(r) \/ ReportReply(r)
  BY <1>2, <1>8 DEF UndecryptJob, StartJob, ReportReply, AfterReport, Goto, At, Left, Labels,
     DbAwaits, GuardedAwaits
<1>9. CASE InsertScore(r) \/ CompleteJob(r) \/ FailJob(r)
  BY <1>2, <1>9 DEF InsertScore, AfterInsert, CompleteJob, FailJob, Goto, At, Left, Labels,
     DbAwaits, GuardedAwaits
<1>10. CASE PullLoad(r)
  <2>1. pc' = [pc EXCEPT ![r] = "fresh_read"] \/ pc' = [pc EXCEPT ![r] = "mark_poll"]
    BY <1>10 DEF PullLoad, Goto
  <2> QED
    BY <1>2, <1>10, <2>1 DEF PullLoad, At, Left, Labels, DbAwaits
<1>11. CASE FreshRead(r)
  <2>1. Finish(r) \/ pc' = [pc EXCEPT ![r] = "list_jobs"]
    BY <1>11 DEF FreshRead
  <2> QED
    BY <1>1, <1>2, <1>11, <2>1 DEF FreshRead, At, Left, Labels, DbAwaits
<1>12. CASE DbThrows(r)
  BY <1>1, <1>2, <1>12 DEF DbThrows, GuardedAwaits, Goto, Left, Labels, DbAwaits
<1> QED
  BY <1>3, <1>4, <1>5, <1>6, <1>7, <1>8, <1>9, <1>10, <1>11, <1>12 DEF Serve

\* A request's steps leave the awaits of all others alone.
LEMMA OthersStay ==
  ASSUME NEW q \in Reqs, Arrive(q) \/ Serve(q) \/ DbThrows(q),
         NEW r \in Reqs, q # r, pc \in [Reqs -> Labels]
  PROVE  pc'[r] = pc[r]
<1> SUFFICES \E l : pc' = [pc EXCEPT ![q] = l]
  OBVIOUS
<1>1. CASE Arrive(q)
  BY <1>1 DEF Arrive, StartConnection, SubmitIdentity, SubmitAddress, SubmitConsent,
     SubmitKiqAnswers, GetConnectionStatus, Begin
<1>2. CASE \/ CreateConnection(q) \/ WriteIdentity(q) \/ WriteAddress(q) \/ WriteKiq(q)
           \/ WriteToken(q) \/ RejectConnection(q) \/ UndecryptConnection(q)
           \/ CompleteConnection(q) \/ FailConnection(q)
  BY <1>2 DEF CreateConnection, WriteIdentity, WriteAddress, WriteKiq, WriteToken,
     RejectConnection, UndecryptConnection, CompleteConnection, FailConnection,
     UpdateConnection, Goto, Finish
<1>3. CASE MarkPoll(q)
  BY <1>3 DEF MarkPoll, UpdateConnection, Goto
<1>4. CASE \/ EnsurePullJobs(q) \/ AnswersReply(q) \/ RejectJob(q) \/ UndecryptJob(q)
           \/ StartJob(q) \/ ReportReply(q) \/ InsertScore(q) \/ CompleteJob(q)
           \/ FailJob(q) \/ ReplyStatus(q)
  BY <1>4 DEF EnsurePullJobs, AnswersReply, RejectJob, UndecryptJob, StartJob, ReportReply,
     InsertScore, CompleteJob, FailJob, ReplyStatus, Goto, Finish
<1>5. CASE CreateConsent(q) \/ UserReply(q)
  BY <1>5 DEF CreateConsent, UserReply, Goto, Finish
<1>6. CASE PullLoad(q) \/ FreshRead(q)
  BY <1>6 DEF PullLoad, FreshRead, Goto, Finish
<1>7. CASE DbThrows(q)
  BY <1>7 DEF DbThrows, Goto, Finish
<1> QED
  BY <1>1, <1>2, <1>3, <1>4, <1>5, <1>6, <1>7 DEF Serve

\* No step takes a request further from its answer, and each of its own brings it closer.
LEMMA Closer ==
  ASSUME TypeInv, NEW r \in Reqs, NEW n \in 1..15, Within(r, n), [Next]_vars
  PROVE  /\ Within(r, n)' \/ Idle(r)'
         /\ <<Serve(r)>>_vars => Within(r, n - 1)' \/ Idle(r)'
<1>0. pc \in [Reqs -> Labels] /\ Left(pc[r]) \in 1..15
  BY LeftTyped DEF TypeInv, SlotsOK, Within
<1>1. ASSUME Serve(r) \/ DbThrows(r)
      PROVE  Within(r, n - 1)' \/ Idle(r)'
  <2>1. CASE pc'[r] \in Labels \ {"idle"} /\ Left(pc'[r]) < Left(pc[r])
    <3>1. Left(pc'[r]) \in 1..15
      BY <2>1, LeftTyped
    <3>2. Left(pc'[r]) <= n - 1 /\ pc'[r] # "idle"
      BY <1>0, <2>1, <3>1 DEF Within
    <3> QED
      BY <3>2 DEF Within
  <2> QED
    BY <1>1, <2>1, StretchCloser
<1>2. Within(r, n - 1)' => Within(r, n)'
  <2>1. pc'[r] \in Labels \ {"idle"} => Left(pc'[r]) \in 1..15
    BY LeftTyped
  <2>2. TypeInv'
    BY SlotsStep, TablesStep DEF TypeInv
  <2> QED
    BY <2>1, <2>2 DEF Within, TypeInv, SlotsOK
<1>3. ASSUME NEW q \in Reqs, Arrive(q) \/ Serve(q) \/ DbThrows(q), q # r
      PROVE  Within(r, n)'
  <2>1. pc'[r] = pc[r]
    BY <1>0, <1>3, OthersStay
  <2> QED
    BY <2>1 DEF Within
<1>4. ~Arrive(r)
  BY DEF Within, Arrive, StartConnection, SubmitIdentity, SubmitAddress, SubmitConsent,
     SubmitKiqAnswers, GetConnectionStatus, LoadedIn, At
<1>5. CASE Restart
  BY <1>5 DEF Restart, Idle
<1>6. ASSUME UNCHANGED vars \/ \E c \in Conns : DebounceExpires(c)
      PROVE  Within(r, n)'
  <2>1. pc' = pc
    BY <1>6 DEF vars, DebounceExpires
  <2> QED
    BY <2>1 DEF Within
<1>7. Within(r, n)' \/ Idle(r)'
  BY <1>1, <1>2, <1>3, <1>4, <1>5, <1>6 DEF Next
<1> QED
  BY <1>1, <1>7

Nears(r, n, m) == Within(r, n) ~> Within(r, m) \/ Idle(r)

LEMMA OneCloser ==
  ASSUME NEW r \in Reqs, NEW n \in 1..15, NEW m \in 0..14, n = m + 1
  PROVE  Spec /\ Served(r) => Nears(r, n, m)
<1>1. TypeInv /\ Within(r, n) /\ [Next]_vars
         => /\ Within(r, n)' \/ Idle(r)'
            /\ <<Serve(r)>>_vars => Within(r, m)' \/ Idle(r)'
  BY Closer
<1>2. Within(r, n) => ~Idle(r)
  BY DEF Within, Idle
<1> QED
  BY <1>1, <1>2, TypeInvariant, PTL DEF Spec, Served, Nears

\* Whatever other requests do to its connection, a request that is served again and again is
\* answered, after fifteen awaits at most.
LEMMA AnsweredOne ==
  ASSUME NEW r \in Reqs
  PROVE  Spec /\ Served(r) => (pc[r] # "idle" ~> pc[r] = "idle")
<1>1. Spec /\ Served(r) => Nears(r, 1, 0)
  BY OneCloser
<1>2. Spec /\ Served(r) => Nears(r, 2, 1)
  BY OneCloser
<1>3. Spec /\ Served(r) => Nears(r, 3, 2)
  BY OneCloser
<1>4. Spec /\ Served(r) => Nears(r, 4, 3)
  BY OneCloser
<1>5. Spec /\ Served(r) => Nears(r, 5, 4)
  BY OneCloser
<1>6. Spec /\ Served(r) => Nears(r, 6, 5)
  BY OneCloser
<1>7. Spec /\ Served(r) => Nears(r, 7, 6)
  BY OneCloser
<1>8. Spec /\ Served(r) => Nears(r, 8, 7)
  BY OneCloser
<1>9. Spec /\ Served(r) => Nears(r, 9, 8)
  BY OneCloser
<1>10. Spec /\ Served(r) => Nears(r, 10, 9)
  BY OneCloser
<1>11. Spec /\ Served(r) => Nears(r, 11, 10)
  BY OneCloser
<1>12. Spec /\ Served(r) => Nears(r, 12, 11)
  BY OneCloser
<1>13. Spec /\ Served(r) => Nears(r, 13, 12)
  BY OneCloser
<1>14. Spec /\ Served(r) => Nears(r, 14, 13)
  BY OneCloser
<1>15. Spec /\ Served(r) => Nears(r, 15, 14)
  BY OneCloser
<1>16. TypeInv /\ pc[r] # "idle" => Within(r, 15)
  BY LeftTyped DEF TypeInv, SlotsOK, Within
<1>17. ~(TypeInv /\ Within(r, 0))
  BY LeftTyped DEF TypeInv, SlotsOK, Within
<1>18. Idle(r) <=> pc[r] = "idle"
  BY DEF Idle
<1> QED
  BY <1>1, <1>2, <1>3, <1>4, <1>5, <1>6, <1>7, <1>8, <1>9, <1>10, <1>11, <1>12, <1>13, <1>14,
     <1>15, <1>16, <1>17, <1>18, TypeInvariant, PTL DEF Nears

\* So every request is answered.
THEOREM Answered == Spec /\ (\A r \in Reqs : Served(r)) => RequestsAnswered
  BY AnsweredOne DEF RequestsAnswered
===============================================================================
