--------------------------- MODULE BureauConnection ---------------------------
(***************************************************************************)
(* The bureau connection wizard: services/bureauConnection.service.ts over *)
(* repositories/bureauConnection.repository.ts.                            *)
(*                                                                         *)
(* A request slot r \in Reqs serves one HTTP request of the user UserOf[r] *)
(* at a time; pc[r] is the await the handler is suspended at, so one action *)
(* is the code between two awaits and slots interleave at every await.     *)
(* Slots of one user overlap; an injective UserOf is a client that waits   *)
(* for each answer.  Tables are the variables conn, consents, job, scored; *)
(* an encrypted column holds the key it was encrypted under, or None.      *)
(* A request that is refused without changing anything is not a step.      *)
(***************************************************************************)
EXTENDS Naturals, FiniteSets, ExperianConnect

CONSTANTS
  Users,        \* authenticated users
  Conns,        \* ids createConnection can hand out (bound)
  Reqs,         \* request slots (bound on concurrency)
  UserOf,       \* the user each slot's requests come from
  Keys,         \* PII encryption keys a restart can bring up
  None,         \* SQL null
  MaxFaults,    \* bound on failing database calls
  MaxRestarts   \* bound on process restarts

ASSUME BureauAssumption ==
  /\ UserOf \in [Reqs -> Users]
  /\ None \notin Keys /\ None \notin Users /\ None \notin Conns
  /\ MaxFaults \in Nat /\ MaxRestarts \in Nat

VARIABLES
  conn,         \* table BureauConnection
  consents,     \* connections with a BureauConsentRecord (connectionId is unique)
  job,          \* table BureauPullJob: status per connection and bureau
  scored,       \* connections with an EXPERIAN ScoreSnapshot
  piiKey,       \* env.piiEncryptionKeyHex of the running process
  pc, req,      \* per slot: the pending await and the handler's local variables
  registered,   \* Experian: how often a connection's identity was sent to /v3/user
  faults, restarts

vars == <<conn, consents, job, scored, piiKey, pc, req, registered, faults, restarts>>

------------------------------------------------------------------------------
(* Columns and locals *)

NonTerminal == {"AWAITING_IDENTITY", "AWAITING_ADDRESS", "AWAITING_CONSENT",
                "AWAITING_EXPERIAN_KIQ", "PROCESSING"}
Terminal == {"COMPLETE", "FAILED"}
States == NonTerminal \cup Terminal \cup {"ABSENT"}

JobStatus == {"NONE", "PENDING", "PENDING_PROVIDER", "IN_FLIGHT", "COMPLETE", "FAILED"}
Bureaus == {"EXPERIAN", "TRANSUNION", "EQUIFAX"}

Blob == Keys \cup {None}

Row == [owner : Users \cup {None}, state : States, identity : Blob, address : Blob,
        session : Blob, kiq : Blob, token : Blob,
        polled : BOOLEAN,        \* lastProviderPollAt is less than 10 s old
        failureCode : BOOLEAN]   \* userSafeFailureCode is not null

NoRow == [owner |-> None, state |-> "ABSENT", identity |-> None, address |-> None,
          session |-> None, kiq |-> None, token |-> None,
          polled |-> FALSE, failureCode |-> FALSE]

NoReq == [op |-> "none", conn |-> None, token |-> None, seen |-> "ABSENT"]
Req == [op : {"none", "start", "identity", "address", "consent", "kiq", "status"},
        conn : Conns \cup {None},
        token : Blob,            \* experianConsumerTokenEnc as tryPull loaded it
        seen : States]           \* the state getConnectionStatus will report

\* Awaits inside tryPullExperianReport's try block: a throw there runs the catch.
GuardedAwaits == {"insert_score", "complete_job", "complete_conn"}
DbAwaits == GuardedAwaits \cup
  {"create", "write_identity", "write_address", "create_consent", "ensure_jobs",
   "write_kiq", "write_token", "reject_conn", "reject_job", "pull_load", "mark_poll",
   "undecrypt_conn", "undecrypt_job", "start_job", "fail_job", "fail_conn",
   "fresh_read", "list_jobs"}
Labels == DbAwaits \cup {"idle", "await_user", "await_answers", "await_report"}

Decrypts(blob) == blob = piiKey

\* Rows as the service writes them.
NewConnection_UnknownState(u) == [NoRow EXCEPT !.owner = u, !.state = "PENDING"]
NewConnection(u) == [NoRow EXCEPT !.owner = u, !.state = "AWAITING_IDENTITY"]
WithToken_Dropped(row) ==
  [row EXCEPT !.state = "PROCESSING", !.session = None, !.kiq = None]
WithToken(row) ==
  [row EXCEPT !.state = "PROCESSING", !.token = piiKey, !.session = None, !.kiq = None]
WithQuestions(row) ==
  [row EXCEPT !.state = "AWAITING_EXPERIAN_KIQ", !.session = piiKey, !.kiq = piiKey]
AsFailed_NoCode(row) == [row EXCEPT !.state = "FAILED"]
AsFailed(row) == [row EXCEPT !.state = "FAILED", !.failureCode = TRUE]
AsComplete(row) == [row EXCEPT !.state = "COMPLETE", !.failureCode = FALSE]
AsPolled(row) == [row EXCEPT !.polled = TRUE]

\* ensurePullJobsForConnection: an upsert whose update is empty.
PendingJobs_NoExperian(jobs) ==
  [b \in Bureaus |-> IF b # "EXPERIAN" /\ jobs[b] = "NONE" THEN "PENDING_PROVIDER" ELSE jobs[b]]
PendingJobs(jobs) ==
  [b \in Bureaus |-> IF jobs[b] # "NONE" THEN jobs[b]
                     ELSE IF b = "EXPERIAN" THEN "PENDING" ELSE "PENDING_PROVIDER"]

------------------------------------------------------------------------------
(* How a handler moves on *)

Begin(r, op, c, l) ==
  /\ pc' = [pc EXCEPT ![r] = l]
  /\ req' = [req EXCEPT ![r] = [NoReq EXCEPT !.op = op, !.conn = c]]

Goto(r, l) == pc' = [pc EXCEPT ![r] = l] /\ UNCHANGED req

Finish(r) == pc' = [pc EXCEPT ![r] = "idle"] /\ req' = [req EXCEPT ![r] = NoReq]

At(r, l) == pc[r] = l

\* loadOwnedOr404 and assertState, in the handler's first synchronous stretch.
LoadedIn_AnyState(r, c, s) == At(r, "idle") /\ conn[c].owner = UserOf[r]
LoadedIn(r, c, s) == At(r, "idle") /\ conn[c].owner = UserOf[r] /\ conn[c].state = s

\* updateConnectionForUser: rows are never deleted nor change owner, so its findFirst
\* finds the row the handler loaded; a failing update is swallowed and returns null.
UpdateConnection(r, row, saved, swallowed) ==
  \/ conn' = [conn EXCEPT ![req[r].conn] = row] /\ saved /\ UNCHANGED faults
  \/ faults < MaxFaults /\ faults' = faults + 1 /\ swallowed /\ UNCHANGED conn

\* updatePullJob throws if the row is missing (JobRowExists says it never is).
UpdatePullJob(c, status) ==
  /\ job[c]["EXPERIAN"] # "NONE"
  /\ job' = [job EXCEPT ![c]["EXPERIAN"] = status]

server == <<piiKey, restarts>>
tables == <<conn, consents, job, scored>>
OnlyMoves == UNCHANGED <<tables, server, registered, faults>>
ConnWritten == UNCHANGED <<consents, job, scored, server, registered>>
JobWritten == UNCHANGED <<conn, consents, scored, server, registered, faults>>

------------------------------------------------------------------------------
(* POST /start *)

ActiveFor_NotProcessing(u) ==
  {c \in Conns : conn[c].owner = u /\ conn[c].state \in NonTerminal \ {"PROCESSING"}}
ActiveFor(u) == {c \in Conns : conn[c].owner = u /\ conn[c].state \in NonTerminal}

FreeIds == {c \in Conns : conn[c].state = "ABSENT"}
IdLeft == Cardinality({q \in Reqs : At(q, "create")}) < Cardinality(FreeIds)  \* bound

StartConnection(r) ==
  /\ At(r, "idle") /\ ActiveFor(UserOf[r]) = {} /\ IdLeft
  /\ Begin(r, "start", None, "create")
  /\ OnlyMoves

CreateConnection(r) ==
  /\ At(r, "create")
  /\ \E c \in FreeIds : conn' = [conn EXCEPT ![c] = NewConnection(UserOf[r])]
  /\ Finish(r)
  /\ ConnWritten /\ UNCHANGED faults

(* POST /:id/identity and /:id/address *)

SubmitIdentity(r, c) ==
  /\ LoadedIn(r, c, "AWAITING_IDENTITY")
  /\ Begin(r, "identity", c, "write_identity")
  /\ OnlyMoves

WriteIdentity(r) ==
  LET row == [conn[req[r].conn] EXCEPT !.identity = piiKey, !.state = "AWAITING_ADDRESS"]
  IN  /\ At(r, "write_identity")
      /\ UpdateConnection(r, row, Finish(r), Finish(r))
      /\ ConnWritten

SubmitAddress(r, c) ==
  /\ LoadedIn(r, c, "AWAITING_ADDRESS") /\ conn[c].identity # None
  /\ Begin(r, "address", c, "write_address")
  /\ OnlyMoves

WriteAddress(r) ==
  LET row == [conn[req[r].conn] EXCEPT !.address = piiKey, !.state = "AWAITING_CONSENT"]
  IN  /\ At(r, "write_address")
      /\ UpdateConnection(r, row, Finish(r), Finish(r))
      /\ ConnWritten

(* POST /:id/consent *)

SubmitConsent(r, c) ==
  /\ LoadedIn(r, c, "AWAITING_CONSENT")
  /\ Decrypts(conn[c].identity) /\ Decrypts(conn[c].address)
  /\ Begin(r, "consent", c, "create_consent")
  /\ OnlyMoves

\* connectionId is unique in BureauConsentRecord: a second create throws (P2002).
AfterConsent_Upsert(c) == "ensure_jobs"
AfterConsent(c) == IF c \in consents THEN "idle" ELSE "ensure_jobs"

CreateConsent(r) ==
  LET c == req[r].conn
  IN  /\ At(r, "create_consent")
      /\ consents' = consents \cup {c}
      /\ IF AfterConsent(c) = "idle" THEN Finish(r) ELSE Goto(r, AfterConsent(c))
      /\ UNCHANGED <<conn, job, scored, server, registered, faults>>

\* The transaction of upserts, and the call to /v3/user that follows it at once.
EnsurePullJobs(r) ==
  LET c == req[r].conn
  IN  /\ At(r, "ensure_jobs")
      /\ job' = [job EXCEPT ![c] = PendingJobs(@)]
      /\ registered' = [registered EXCEPT ![c] = @ + 1]
      /\ Goto(r, "await_user")
      /\ UNCHANGED <<conn, consents, scored, server, faults>>

AfterUserReply_LeftAsIs(exp) ==
  IF exp.threw THEN "unexpected"
  ELSE IF exp.needsKiq THEN "write_kiq" ELSE "write_token"
AfterUserReply(exp) ==
  IF exp.threw THEN "reject_conn"
  ELSE IF exp.needsKiq /\ ~exp.consumerToken
       THEN IF exp.authSession THEN "write_kiq" ELSE "unexpected"
  ELSE IF exp.consumerToken THEN "write_token" ELSE "unexpected"

UserReply(r) ==
  /\ At(r, "await_user")
  /\ \E exp \in SubmitUserResults :
       IF AfterUserReply(exp) = "unexpected" THEN Finish(r) ELSE Goto(r, AfterUserReply(exp))
  /\ OnlyMoves

WriteKiq(r) ==
  /\ At(r, "write_kiq")
  /\ UpdateConnection(r, WithQuestions(conn[req[r].conn]), Finish(r), Finish(r))
  /\ ConnWritten

\* The token write of submitConsent and of submitKiqAnswers; its result is not looked at.
WriteToken(r) ==
  /\ At(r, "write_token")
  /\ UpdateConnection(r, WithToken(conn[req[r].conn]), Goto(r, "pull_load"), Goto(r, "pull_load"))
  /\ ConnWritten

\* The catch around the two verification calls, which rethrows.
RejectConnection(r) ==
  /\ At(r, "reject_conn")
  /\ UpdateConnection(r, AsFailed(conn[req[r].conn]), Goto(r, "reject_job"), Goto(r, "reject_job"))
  /\ ConnWritten

RejectJob(r) ==
  /\ At(r, "reject_job")
  /\ UpdatePullJob(req[r].conn, "FAILED")
  /\ Finish(r)
  /\ JobWritten

(* POST /:id/experian/kiq-answers *)

SubmitKiqAnswers(r, c) ==
  /\ LoadedIn(r, c, "AWAITING_EXPERIAN_KIQ")
  /\ conn[c].session # None /\ Decrypts(conn[c].session)
  /\ Begin(r, "kiq", c, "await_answers")
  /\ OnlyMoves

AnswersReply(r) ==
  /\ At(r, "await_answers")
  /\ \E verified \in SubmitAnswersResults :
       Goto(r, IF verified THEN "write_token" ELSE "reject_conn")
  /\ OnlyMoves

(* tryPullExperianReport *)

Debounced_Always(r, row) == TRUE
Debounced(r, row) == req[r].op = "status" /\ row.polled

PullLoad(r) ==
  LET row == conn[req[r].conn]
  IN  /\ At(r, "pull_load")
      /\ IF row.state # "PROCESSING" \/ row.token = None \/ Debounced(r, row)
         THEN Goto(r, "fresh_read")
         ELSE /\ pc' = [pc EXCEPT ![r] = "mark_poll"]
              /\ req' = [req EXCEPT ![r].token = row.token]
      /\ OnlyMoves

\* lastProviderPollAt is written, then the token loaded before is decrypted.
MarkPoll(r) ==
  LET next == IF Decrypts(req[r].token) THEN "start_job" ELSE "undecrypt_conn"
  IN  /\ At(r, "mark_poll")
      /\ UpdateConnection(r, AsPolled(conn[req[r].conn]), Goto(r, next), Goto(r, next))
      /\ ConnWritten

UndecryptConnection(r) ==
  /\ At(r, "undecrypt_conn")
  /\ UpdateConnection(r, AsFailed(conn[req[r].conn]),
                       Goto(r, "undecrypt_job"), Goto(r, "undecrypt_job"))
  /\ ConnWritten

UndecryptJob(r) ==
  /\ At(r, "undecrypt_job")
  /\ UpdatePullJob(req[r].conn, "FAILED")
  /\ Goto(r, "fresh_read")
  /\ JobWritten

StartJob(r) ==
  /\ At(r, "start_job")
  /\ UpdatePullJob(req[r].conn, "IN_FLIGHT")
  /\ Goto(r, "await_report")
  /\ JobWritten

AfterReport_RetriesForever(ok) == IF ok THEN "insert_score" ELSE "start_job"
AfterReport_JobFirst(ok) == IF ok THEN "complete_job" ELSE "fail_job"
AfterReport(ok) == IF ok THEN "insert_score" ELSE "fail_job"

ReportReply(r) ==
  /\ At(r, "await_report")
  /\ \E ok \in PullReportResults : Goto(r, AfterReport(ok))
  /\ OnlyMoves

AfterInsert_ConnectionFirst(r) == "complete_conn"
AfterInsert(r) == "complete_job"

InsertScore(r) ==
  /\ At(r, "insert_score")
  /\ scored' = scored \cup {req[r].conn}
  /\ Goto(r, AfterInsert(r))
  /\ UNCHANGED <<conn, consents, job, server, registered, faults>>

CompleteJob(r) ==
  /\ At(r, "complete_job")
  /\ UpdatePullJob(req[r].conn, "COMPLETE")
  /\ Goto(r, "complete_conn")
  /\ JobWritten

CompleteConnection(r) ==
  /\ At(r, "complete_conn")
  /\ UpdateConnection(r, AsComplete(conn[req[r].conn]), Goto(r, "fresh_read"), Goto(r, "fresh_read"))
  /\ ConnWritten

FailJob(r) ==
  /\ At(r, "fail_job")
  /\ UpdatePullJob(req[r].conn, "FAILED")
  /\ Goto(r, "fail_conn")
  /\ JobWritten

FailConnection(r) ==
  /\ At(r, "fail_conn")
  /\ UpdateConnection(r, AsFailed(conn[req[r].conn]), Goto(r, "fresh_read"), Goto(r, "fresh_read"))
  /\ ConnWritten

(* GET /:id/status, and the read that ends submitConsent and submitKiqAnswers *)

GetConnectionStatus(r, c) ==
  /\ At(r, "idle") /\ conn[c].owner = UserOf[r]
  /\ Begin(r, "status", c, IF conn[c].state = "PROCESSING" THEN "pull_load" ELSE "fresh_read")
  /\ OnlyMoves

FreshRead(r) ==
  /\ At(r, "fresh_read")
  /\ IF req[r].op = "status"
     THEN /\ pc' = [pc EXCEPT ![r] = "list_jobs"]
          /\ req' = [req EXCEPT ![r].seen = conn[req[r].conn].state]
     ELSE Finish(r)
  /\ OnlyMoves

\* listPullJobsForConnection and the snapshots of the COMPLETE jobs, then the reply.
ReplyStatus(r) ==
  /\ At(r, "list_jobs")
  /\ Finish(r)
  /\ OnlyMoves

------------------------------------------------------------------------------
(* Failures and time *)

\* A database call throws: inside the try of tryPullExperianReport its catch runs,
\* anywhere else the handler answers 500.
DbThrows(r) ==
  /\ pc[r] \in DbAwaits /\ faults < MaxFaults /\ faults' = faults + 1
  /\ IF pc[r] \in GuardedAwaits THEN Goto(r, "fail_job") ELSE Finish(r)
  /\ UNCHANGED <<tables, server, registered>>

\* The process stops and comes back, perhaps with another key: the requests are lost.
Restart ==
  /\ restarts < MaxRestarts /\ restarts' = restarts + 1
  /\ piiKey' \in Keys
  /\ pc' = [r \in Reqs |-> "idle"] /\ req' = [r \in Reqs |-> NoReq]
  /\ UNCHANGED <<tables, registered, faults>>

\* PROVIDER_POLL_DEBOUNCE_MS pass.
DebounceExpires(c) ==
  /\ conn[c].polled
  /\ conn' = [conn EXCEPT ![c].polled = FALSE]
  /\ UNCHANGED <<consents, job, scored, server, pc, req, registered, faults>>

------------------------------------------------------------------------------
Init ==
  /\ conn = [c \in Conns |-> NoRow]
  /\ consents = {} /\ scored = {}
  /\ job = [c \in Conns |-> [b \in Bureaus |-> "NONE"]]
  /\ piiKey \in Keys
  /\ pc = [r \in Reqs |-> "idle"] /\ req = [r \in Reqs |-> NoReq]
  /\ registered = [c \in Conns |-> 0]
  /\ faults = 0 /\ restarts = 0

\* A new request, up to its first await.
Arrive(r) ==
  \/ StartConnection(r)
  \/ \E c \in Conns : \/ SubmitIdentity(r, c)
                      \/ SubmitAddress(r, c)
                      \/ SubmitConsent(r, c)
                      \/ SubmitKiqAnswers(r, c)
                      \/ GetConnectionStatus(r, c)

\* The next stretch of a request being served.
Serve(r) ==
  \/ CreateConnection(r)
  \/ WriteIdentity(r)
  \/ WriteAddress(r)
  \/ CreateConsent(r)
  \/ EnsurePullJobs(r)
  \/ UserReply(r)
  \/ WriteKiq(r)
  \/ WriteToken(r)
  \/ RejectConnection(r)
  \/ RejectJob(r)
  \/ AnswersReply(r)
  \/ PullLoad(r)
  \/ MarkPoll(r)
  \/ UndecryptConnection(r)
  \/ UndecryptJob(r)
  \/ StartJob(r)
  \/ ReportReply(r)
  \/ InsertScore(r)
  \/ CompleteJob(r)
  \/ CompleteConnection(r)
  \/ FailJob(r)
  \/ FailConnection(r)
  \/ FreshRead(r)
  \/ ReplyStatus(r)

Next ==
  \/ \E r \in Reqs : Arrive(r) \/ Serve(r) \/ DbThrows(r)
  \/ Restart
  \/ \E c \in Conns : DebounceExpires(c)

Spec == Init /\ [][Next]_vars

------------------------------------------------------------------------------
(* What holds whatever the clients do *)

\* Every table, column and local variable has one of the values the schema and the
\* handlers give it.
TypeOK ==
  /\ conn \in [Conns -> Row]
  /\ consents \subseteq Conns /\ scored \subseteq Conns
  /\ job \in [Conns -> [Bureaus -> JobStatus]]
  /\ piiKey \in Keys
  /\ pc \in [Reqs -> Labels] /\ req \in [Reqs -> Req]
  /\ registered \in [Conns -> Nat]
  /\ faults \in 0..MaxFaults /\ restarts \in 0..MaxRestarts

\* A connection waits for a step only with the outcome of the earlier steps stored, even
\* after overlapping requests wrote it in any order: the BureauConnectionCorruptError
\* branches of submitAddress, submitConsent and submitKiqAnswers that test for a missing
\* column, and tryPull's missing-token return, are never taken.
PriorStepsStored ==
  \A c \in Conns :
    /\ conn[c].state = "AWAITING_ADDRESS" => conn[c].identity # None
    /\ conn[c].state = "AWAITING_CONSENT" => None \notin {conn[c].identity, conn[c].address}
    /\ conn[c].state = "AWAITING_EXPERIAN_KIQ" => None \notin {conn[c].session, conn[c].kiq}
    /\ conn[c].state = "PROCESSING" => conn[c].token # None

\* The rows updatePullJob updates exist whenever a handler is about to update one, so
\* prisma's record-not-found error (P2025) never aborts a handler half way.
JobRowExists ==
  \A r \in Reqs :
    pc[r] \in {"await_user", "reject_conn", "reject_job", "mark_poll", "undecrypt_conn",
              "undecrypt_job", "start_job", "await_report", "insert_score", "complete_job",
              "fail_job"}
      => job[req[r].conn]["EXPERIAN"] # "NONE"

\* A client told that the connection or the EXPERIAN job is complete finds a score: a
\* snapshot is on record before either is marked COMPLETE.
ScoreBacked ==
  \A c \in Conns :
    (conn[c].state = "COMPLETE" \/ job[c]["EXPERIAN"] = "COMPLETE") => c \in scored

\* A failed connection always carries the userSafeFailureCode that getConnectionStatus
\* reports with it, whichever of the racing handlers wrote it last.
FailureExplained ==
  \A c \in Conns : conn[c].state = "FAILED" => conn[c].failureCode

\* The wizard keeps its consent ledger: no identity goes to Experian before the consent is
\* recorded nor twice, and no score is stored for an identity that was never sent.  Every call
\* counts: a second one is no step of the ledger.
Ledger == INSTANCE ConsentLedger WITH consented <- consents

LedgerSpec == Ledger!Spec

\* /v3/user is called at most once for a connection, however consents overlap or are
\* retried: the unique connectionId of BureauConsentRecord lets one of them through.
RegisteredOnce == \A c \in Conns : registered[c] <= 1

------------------------------------------------------------------------------
(* What holds for clients that wait for each answer *)

Serial == \A q, r \in Reqs : UserOf[q] = UserOf[r] => q = r

\* The stages every client is told of are those of the documented wizard: one connection
\* in progress per user, moving forward one stage at a time, and final once complete or
\* failed (openapi.yaml, /v1/bureau-connection).
Wizard == INSTANCE BureauWizard WITH
  NoUser <- None,
  stage <- [c \in Conns |-> conn[c].state],
  owner <- [c \in Conns |-> conn[c].owner]

WizardSpec == Wizard!Spec

\* A status reply that says the connection is complete lists the EXPERIAN job as complete.
CompleteReplies ==
  [][\A r \in Reqs :
       ReplyStatus(r) /\ req[r].seen = "COMPLETE" => job[req[r].conn]["EXPERIAN"] = "COMPLETE"]_vars

------------------------------------------------------------------------------
(* Progress *)

\* A request being served goes on: node runs every callback, and calls to Experian and to
\* the database end, with an answer or a time-out.
ServerFairness == \A r \in Reqs : WF_vars(Serve(r))

\* A client that keeps asking for the next step and keeps polling; time passes.
ClientFairness ==
  /\ \A r \in Reqs, c \in Conns : /\ SF_vars(SubmitIdentity(r, c))
                               /\ SF_vars(SubmitAddress(r, c))
                               /\ SF_vars(SubmitConsent(r, c))
                               /\ SF_vars(SubmitKiqAnswers(r, c))
                               /\ SF_vars(GetConnectionStatus(r, c))
  /\ \A c \in Conns : WF_vars(DebounceExpires(c))

FairSpec == Spec /\ ServerFairness /\ ClientFairness

\* Every request is answered, or lost with the process.
RequestsAnswered == \A r \in Reqs : pc[r] # "idle" ~> pc[r] = "idle"

\* A connection in PROCESSING leaves it for good for a client that polls, also after
\* crashes, failing database calls and a change of the PII key.
ProcessingSettles == \A c \in Conns : conn[c].state = "PROCESSING" ~> conn[c].state \in Terminal

\* Without crash or database failure a client that goes on reaches a final state.
WizardFinishes ==
  [](faults = 0 /\ restarts = 0) =>
    \A c \in Conns : conn[c].state \in NonTerminal ~> conn[c].state \in Terminal

------------------------------------------------------------------------------
(* What the repository says and the code does not keep *)

\* bureau.errors.ts:14 "Finish or abandon it before starting another": the connection that
\* blocks a user's start can be finished.
CanBeFinished ==
  \A c \in Conns : conn[c].state \in NonTerminal ~> conn[c].state \in Terminal

\* openapi.yaml:729 "Returns 409 if another non-terminal connection exists for the user".
OneInProgress == \A u \in Users : Cardinality(ActiveFor(u)) <= 1

\* bureauConnection.service.ts:81, the message of assertState, "This step is not valid for
\* the current connection state": no step is applied to a complete or failed connection.
StaysSettled ==
  [][\A c \in Conns : conn[c].state \in Terminal => conn'[c].state \in Terminal]_vars
==============================================================================
