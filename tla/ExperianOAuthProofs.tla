------------------------- MODULE ExperianOAuthProofs -------------------------
(***************************************************************************)
(* Proofs about ExperianOAuth, for every number of callers and tokens,     *)
(* every skew, time-out and lifetime and every bound on faults.            *)
(***************************************************************************)
EXTENDS ExperianOAuth, TLAPS

CacheType == [filled : BOOLEAN, refresh : Tokens, left : Nat, life : Nat]
RunType == [at : {"none"} \cup Outstanding \cup Settled, sent : Tokens,
            ago : 0..HttpTimeout, life : Nat]
CallerType == [at : {"idle", "waiting", "calling"}, run : Runs \cup {None},
               cached : BOOLEAN, ago : 0..HttpTimeout, life : Nat]

RowsOK ==
  /\ \A p \in Runs : run[p].at = "refresh" => run[p].sent # None
  /\ \A c \in Callers : caller[c].at = "waiting" => caller[c].run # None

\* TypeOK, with a name for the type of each row.
TypeInv ==
  /\ cache \in CacheType /\ inFlight \in Runs \cup {None}
  /\ run \in [Runs -> RunType] /\ caller \in [Callers -> CallerType]
  /\ failed \subseteq RefreshTokens /\ faults \in 0..MaxFaults
  /\ RowsOK

LEMMA TypeOKNamed == TypeInv => TypeOK
<1> USE DEF CacheType, RunType, CallerType
<1> QED
  BY Zenon DEF TypeInv, TypeOK, RowsOK

\* The rows the code writes are typed.
LEMMA RowsTyped ==
  /\ NoCache \in CacheType
  /\ \A at \in {"none"} \cup Outstanding \cup Settled, sent \in Tokens, life \in Nat :
       Promise(at, sent, life) \in RunType
  /\ \A at \in {"idle", "waiting", "calling"}, p \in Runs \cup {None}, cached \in BOOLEAN,
        life \in Nat : Caller(at, p, cached, life) \in CallerType
<1>1. 0 \in 0..HttpTimeout
  BY OAuthAssumption
<1>2. NoCache \in CacheType
  BY DEF NoCache, CacheType, Tokens
<1>3. \A at \in {"none"} \cup Outstanding \cup Settled, sent \in Tokens, life \in Nat :
        Promise(at, sent, life) \in RunType
  BY <1>1 DEF Promise, RunType
<1>4. \A at \in {"idle", "waiting", "calling"}, p \in Runs \cup {None}, cached \in BOOLEAN,
         life \in Nat : Caller(at, p, cached, life) \in CallerType
  BY <1>1 DEF Caller, CallerType
<1> QED
  BY <1>2, <1>3, <1>4

\* A tick keeps countdowns and rows typed.
LEMMA TickTyped ==
  /\ \A n \in Nat : Less(n) \in Nat /\ Less(n) <= n /\ n <= Less(n) + 1
  /\ \A row \in RunType, fetching \in BOOLEAN :
       (fetching => row.ago < HttpTimeout) =>
         /\ Older(row, fetching) \in RunType
         /\ Older(row, fetching).at = row.at /\ Older(row, fetching).sent = row.sent
  /\ \A row \in CallerType, fetching \in BOOLEAN :
       (fetching => row.ago < HttpTimeout) =>
         /\ Older(row, fetching) \in CallerType
         /\ Older(row, fetching).at = row.at /\ Older(row, fetching).run = row.run
         /\ Older(row, fetching).cached = row.cached
         /\ Older(row, fetching).life = Less(row.life)
         /\ Older(row, fetching).ago = IF fetching THEN row.ago + 1 ELSE row.ago
<1>1. \A n \in Nat : Less(n) \in Nat /\ Less(n) <= n /\ n <= Less(n) + 1
  BY DEF Less
<1>2. HttpTimeout \in Nat
  BY OAuthAssumption
<1>3. ASSUME NEW row \in RunType, NEW fetching \in BOOLEAN, fetching => row.ago < HttpTimeout
      PROVE  /\ Older(row, fetching) \in RunType
             /\ Older(row, fetching).at = row.at /\ Older(row, fetching).sent = row.sent
  <2>1. (IF fetching THEN row.ago + 1 ELSE row.ago) \in 0..HttpTimeout
    BY <1>2, <1>3 DEF RunType
  <2> QED
    BY <1>1, <2>1 DEF Older, RunType
<1>4. ASSUME NEW row \in CallerType, NEW fetching \in BOOLEAN, fetching => row.ago < HttpTimeout
      PROVE  /\ Older(row, fetching) \in CallerType
             /\ Older(row, fetching).at = row.at /\ Older(row, fetching).run = row.run
             /\ Older(row, fetching).cached = row.cached
             /\ Older(row, fetching).life = Less(row.life)
             /\ Older(row, fetching).ago = IF fetching THEN row.ago + 1 ELSE row.ago
  <2>1. (IF fetching THEN row.ago + 1 ELSE row.ago) \in 0..HttpTimeout
    BY <1>2, <1>4 DEF CallerType
  <2> QED
    BY <1>1, <2>1 DEF Older, CallerType
<1> QED
  BY <1>1, <1>3, <1>4

\* What a grant brings: the cache believes at most HttpTimeout more than Experian grants.
LEMMA GrantedLife ==
  ASSUME NEW ago \in 0..HttpTimeout, NEW stated \in Lives \cup {0}, NEW age \in 0..ago,
         NEW left, left = parseExpiresIn(stated),
         NEW life, life = IF left > age THEN left - age ELSE 0
  PROVE  left \in Nat /\ life \in Nat /\ left <= life + HttpTimeout
<1>1. left \in Nat
  BY OAuthAssumption DEF parseExpiresIn
<1>2. HttpTimeout \in Nat /\ age \in Nat /\ age <= HttpTimeout
  BY OAuthAssumption
<1> QED
  BY <1>1, <1>2

\* A tick leaves every promise where it is.
LEMMA TickKeeps ==
  ASSUME TypeInv, Tick
  PROVE  /\ run' \in [Runs -> RunType]
         /\ \A p \in Runs : run'[p].at = run[p].at /\ run'[p].sent = run[p].sent
<1>1. \A p \in Runs : LET row == Older(run[p], run[p].at \in Outstanding)
                      IN  row \in RunType /\ row.at = run[p].at /\ row.sent = run[p].sent
  <2> TAKE p \in Runs
  <2>1. /\ run[p] \in RunType /\ (run[p].at \in Outstanding) \in BOOLEAN
        /\ run[p].at \in Outstanding => run[p].ago < HttpTimeout
    BY DEF TypeInv, Tick
  <2> QED
    BY <2>1, TickTyped
<1> QED
  BY <1>1 DEF Tick

------------------------------------------------------------------------------
(* Types *)

LEMMA TypeStep == TypeInv /\ [Next]_vars => TypeInv'
<1> SUFFICES ASSUME TypeInv, [Next]_vars
             PROVE  TypeInv'
  OBVIOUS
<1>0. /\ cache \in CacheType /\ inFlight \in Runs \cup {None}
      /\ run \in [Runs -> RunType] /\ caller \in [Callers -> CallerType]
      /\ failed \subseteq RefreshTokens /\ faults \in 0..MaxFaults /\ RowsOK
  BY DEF TypeInv
<1>a. MaxFaults \in Nat /\ (faults < MaxFaults /\ faults' = faults + 1 => faults' \in 0..MaxFaults)
  BY <1>0, OAuthAssumption
<1>1. ASSUME NEW c \in Callers, NEW row \in CallerType, caller' = [caller EXCEPT ![c] = row],
             row.at = "waiting" => row.run # None,
             UNCHANGED <<cache, inFlight, run, failed, faults>>
      PROVE  TypeInv'
  BY <1>0, <1>1 DEF TypeInv, RowsOK
<1>2. ASSUME NEW c \in Callers, UseCache(c)
      PROVE  TypeInv'
  <2>1. Caller("calling", None, TRUE, cache.life) \in CallerType
    BY <1>0, RowsTyped DEF CacheType
  <2> QED
    BY <1>1, <1>2, <2>1 DEF UseCache, Caller
<1>3. ASSUME NEW c \in Callers, JoinRun(c)
      PROVE  TypeInv'
  <2>1. Caller("waiting", inFlight, FALSE, 0) \in CallerType
    BY <1>0, RowsTyped
  <2> QED
    BY <1>1, <1>3, <2>1 DEF JoinRun, Joins, Caller
<1>4. ASSUME NEW c \in Callers, StartRun(c)
      PROVE  TypeInv'
  <2> DEFINE started == Promise(FirstGrant, cache.refresh, 0)
  <2>1. PICK p \in Runs : /\ run' = [run EXCEPT ![p] = started]
                          /\ inFlight' = p
                          /\ caller' = [caller EXCEPT ![c] = Caller("waiting", p, FALSE, 0)]
    BY <1>4 DEF StartRun
  <2>2. started \in RunType /\ (started.at = "refresh" => started.sent # None)
    <3>1. FirstGrant \in Outstanding /\ cache.refresh \in Tokens
      BY <1>0 DEF FirstGrant, Outstanding, CacheType
    <3>2. started \in RunType
      BY <3>1, RowsTyped
    <3> QED
      BY <3>2 DEF Promise, FirstGrant
  <2> DEFINE asking == Caller("waiting", p, FALSE, 0)
  <2>3. asking \in CallerType /\ asking.run # None
    <3>1. asking \in CallerType
      BY RowsTyped
    <3> QED
      BY <3>1, OAuthAssumption DEF Caller
  <2>4. UNCHANGED <<cache, failed, faults>>
    BY <1>4 DEF StartRun
  <2> HIDE DEF started
  <2>5. run' \in [Runs -> RunType]
    BY <1>0, <2>1, <2>2
  <2>6. caller' = [caller EXCEPT ![c] = asking]
    BY <2>1
  <2> HIDE DEF asking
  <2>7. caller' \in [Callers -> CallerType]
    BY <1>0, <2>3, <2>6
  <2>8. RowsOK'
    BY <1>0, <2>1, <2>2, <2>3, <2>6 DEF RowsOK
  <2> QED
    BY <1>0, <2>1, <2>4, <2>5, <2>7, <2>8 DEF TypeInv
<1>5. ASSUME NEW c \in Callers, Resume(c)
      PROVE  TypeInv'
  <2> DEFINE p == caller[c].run
  <2>1. p \in Runs
    BY <1>0, <1>5 DEF Resume, RowsOK, CallerType
  <2>2. run[p].life \in Nat
    BY <1>0, <2>1 DEF RunType
  <2> HIDE DEF p
  <2>3. /\ Caller("calling", None, FALSE, run[p].life) \in CallerType
        /\ Idle \in CallerType
    BY <2>2, RowsTyped DEF Idle
  <2> QED
    BY <1>1, <1>5, <2>3 DEF Resume, Caller, Idle, p
<1>6. ASSUME NEW c \in Callers, CallEnds(c)
      PROVE  TypeInv'
  <2>1. Idle \in CallerType
    BY RowsTyped DEF Idle
  <2> QED
    BY <1>1, <1>6, <2>1 DEF CallEnds, Caller, Idle
<1>7. ASSUME NEW p \in Runs, NEW row \in RunType, run' = [run EXCEPT ![p] = row],
             row.at # "refresh", cache' \in CacheType, inFlight' \in Runs \cup {None},
             failed' \subseteq RefreshTokens, faults' \in 0..MaxFaults, caller' = caller
      PROVE  TypeInv'
  BY <1>0, <1>7 DEF TypeInv, RowsOK
<1>8. ASSUME NEW p \in Runs, NEW outcome \in Settled, NEW life \in Nat, Settle(p, outcome, life),
             cache' \in CacheType, failed' = failed, faults' \in 0..MaxFaults, caller' = caller
      PROVE  TypeInv'
  <2>1. Promise(outcome, None, life) \in RunType
    BY RowsTyped DEF Tokens
  <2> QED
    BY <1>0, <1>7, <1>8, <2>1 DEF Settle, InFlightAfter, Promise, Settled
<1>9. ASSUME NEW p \in Runs, GrantAnswers(p)
      PROVE  TypeInv'
  <2>1. PICK stated \in Lives \cup {0}, age \in 0..run[p].ago, given \in Tokens \ failed :
          LET left == parseExpiresIn(stated)
              life == IF left > age THEN left - age ELSE 0
          IN  /\ cache' = [filled |-> TRUE, refresh |-> KeptRefresh(given),
                           left |-> left, life |-> life]
              /\ Settle(p, "resolved", life)
    BY <1>9 DEF GrantAnswers
  <2> DEFINE left == parseExpiresIn(stated)
             life == IF left > age THEN left - age ELSE 0
  <2>2. run[p].ago \in 0..HttpTimeout
    BY <1>0 DEF RunType
  <2>3. left \in Nat /\ life \in Nat
    BY <2>2, GrantedLife
  <2>4. /\ cache' = [filled |-> TRUE, refresh |-> KeptRefresh(given), left |-> left, life |-> life]
        /\ Settle(p, "resolved", life)
    BY <2>1
  <2>5. KeptRefresh(given) \in Tokens
    BY <1>0 DEF KeptRefresh, CacheType, Tokens
  <2> HIDE DEF left, life
  <2>6. cache' \in CacheType
    BY <2>3, <2>4, <2>5 DEF CacheType
  <2> QED
    BY <1>0, <1>8, <1>9, <2>3, <2>4, <2>6 DEF GrantAnswers, Settled
<1>10. ASSUME NEW p \in Runs, RefreshFails(p)
      PROVE  TypeInv'
  <2>1. Promise("password", None, 0) \in RunType /\ cache' \in CacheType
    BY <1>10, RowsTyped DEF RefreshFails, AfterFailedRefresh, Outstanding, Tokens
  <2>2. run[p].sent \in RefreshTokens
    BY <1>0, <1>10 DEF RefreshFails, RowsOK, RunType, Tokens
  <2> QED
    BY <1>0, <1>a, <1>7, <1>10, <2>1, <2>2 DEF RefreshFails, Promise
<1>11. ASSUME NEW p \in Runs, PasswordFails(p)
      PROVE  TypeInv'
  BY <1>0, <1>a, <1>8, <1>11 DEF PasswordFails, Settled
<1>12. CASE Tick
  <2>1. cache' \in CacheType
    BY <1>0, <1>12, TickTyped DEF Tick, CacheType
  <2>2. /\ run' \in [Runs -> RunType]
        /\ \A p \in Runs : run'[p].at = run[p].at /\ run'[p].sent = run[p].sent
    BY <1>12, TickKeeps
  <2>3. /\ caller' \in [Callers -> CallerType]
        /\ \A c \in Callers : caller'[c].at = caller[c].at /\ caller'[c].run = caller[c].run
    BY <1>0, <1>12, TickTyped DEF Tick
  <2> QED
    BY <1>0, <1>12, <2>1, <2>2, <2>3 DEF Tick, TypeInv, RowsOK
<1>13. CASE Restart
  <2>1. NoRun \in RunType /\ Idle \in CallerType /\ NoCache \in CacheType
    BY RowsTyped DEF NoRun, Idle, Tokens
  <2> QED
    BY <1>0, <1>a, <1>13, <2>1 DEF Restart, TypeInv, RowsOK, NoRun, Idle, Promise, Caller
<1>14. CASE UNCHANGED vars
  BY <1>0, <1>14 DEF vars, TypeInv, RowsOK
<1> QED
  BY <1>2, <1>3, <1>4, <1>5, <1>6, <1>9, <1>10, <1>11, <1>12, <1>13, <1>14
  DEF Next, GetExperianAccessToken, GrantEnds

LEMMA TypeInvariant == Spec => []TypeInv
<1>1. Init => TypeInv
  <2>1. NoRun \in RunType /\ Idle \in CallerType /\ NoCache \in CacheType
    BY RowsTyped DEF NoRun, Idle, Tokens
  <2> QED
    BY <2>1, OAuthAssumption DEF Init, TypeInv, RowsOK, NoRun, Idle, Promise, Caller
<1> QED
  BY <1>1, TypeStep, PTL DEF Spec

\* Type correctness of the token cache, its promises and its callers.
THEOREM TypeCorrect == Spec => []TypeOK
  BY TypeInvariant, TypeOKNamed, PTL

------------------------------------------------------------------------------
(* One grant at a time *)

LEMMA OneGrantStep == TypeInv /\ OneGrant /\ [Next]_vars => OneGrant'
<1> SUFFICES ASSUME TypeInv, OneGrant, [Next]_vars
             PROVE  OneGrant'
  OBVIOUS
<1>0. /\ run \in [Runs -> RunType] /\ None \notin Runs
      /\ \A p \in Runs : run[p].at \in Outstanding <=> inFlight = p
  BY OAuthAssumption DEF TypeInv, OneGrant
<1>1. ASSUME NEW c \in Callers, UseCache(c) \/ JoinRun(c) \/ Resume(c) \/ CallEnds(c)
      PROVE  OneGrant'
  BY <1>1 DEF UseCache, JoinRun, Resume, CallEnds, OneGrant
<1>2. ASSUME NEW c \in Callers, StartRun(c)
      PROVE  OneGrant'
  BY <1>0, <1>2 DEF StartRun, Joins, Promise, FirstGrant, Outstanding, OneGrant
<1>3. ASSUME NEW p \in Runs, NEW outcome \in Settled, NEW life, Settle(p, outcome, life),
             run[p].at \in Outstanding
      PROVE  OneGrant'
  BY <1>0, <1>3 DEF Settle, InFlightAfter, Promise, Settled, Outstanding, OneGrant
<1>4. ASSUME NEW p \in Runs, GrantAnswers(p) \/ PasswordFails(p)
      PROVE  OneGrant'
  BY <1>3, <1>4 DEF GrantAnswers, PasswordFails, Settled, Outstanding
<1>5. ASSUME NEW p \in Runs, RefreshFails(p)
      PROVE  OneGrant'
  BY <1>0, <1>5 DEF RefreshFails, Promise, Outstanding, OneGrant
<1>6. CASE Tick
  <2>1. \A p \in Runs : run'[p].at = run[p].at
    BY <1>6, TickKeeps
  <2> QED
    BY <1>0, <1>6, <2>1 DEF Tick, OneGrant
<1>7. CASE Restart
  BY <1>0, <1>7 DEF Restart, NoRun, Promise, Outstanding, OneGrant
<1>8. CASE UNCHANGED vars
  BY <1>8 DEF vars, OneGrant
<1> QED
  BY <1>1, <1>2, <1>4, <1>5, <1>6, <1>7, <1>8 DEF Next, GetExperianAccessToken, GrantEnds

LEMMA GrantInvariant == Spec => [](TypeInv /\ OneGrant)
<1>1. Init => OneGrant
  BY OAuthAssumption DEF Init, NoRun, Promise, Outstanding, OneGrant
<1> QED
  BY <1>1, TypeInvariant, OneGrantStep, PTL DEF Spec

\* However many callers find the cache stale, one grant sequence at a time is under way, and
\* it is the one later callers join.
THEOREM SingleFlight == Spec => []OneGrant
  BY GrantInvariant, PTL

------------------------------------------------------------------------------
(* Refresh tokens *)

\* No refresh token whose grant failed is kept anywhere.
RefreshInv == cache.refresh \notin failed /\ FailedNotRetried

LEMMA RefreshStep == TypeInv /\ OneGrant /\ RefreshInv /\ [Next]_vars => RefreshInv'
<1> SUFFICES ASSUME TypeInv, OneGrant, RefreshInv, [Next]_vars
             PROVE  RefreshInv'
  OBVIOUS
<1>0. /\ run \in [Runs -> RunType] /\ failed \subseteq RefreshTokens /\ None \notin RefreshTokens
      /\ cache.refresh \notin failed
      /\ \A p \in Runs : run[p].at = "refresh" => run[p].sent # None /\ run[p].sent \notin failed
      /\ \A p \in Runs : run[p].at \in Outstanding <=> inFlight = p
  BY OAuthAssumption DEF TypeInv, RowsOK, OneGrant, RefreshInv, FailedNotRetried
<1>1. ASSUME NEW c \in Callers, UseCache(c) \/ JoinRun(c) \/ Resume(c) \/ CallEnds(c)
      PROVE  RefreshInv'
  BY <1>1 DEF UseCache, JoinRun, Resume, CallEnds, RefreshInv, FailedNotRetried
<1>2. ASSUME NEW c \in Callers, StartRun(c)
      PROVE  RefreshInv'
  BY <1>0, <1>2 DEF StartRun, Promise, RefreshInv, FailedNotRetried
<1>3. ASSUME NEW p \in Runs, GrantAnswers(p)
      PROVE  RefreshInv'
  <2>1. cache'.refresh \notin failed /\ failed' = failed
    BY <1>0, <1>3 DEF GrantAnswers, KeptRefresh
  <2>2. \A q \in Runs : run'[q] = run[q] \/ run'[q].at = "resolved"
    BY <1>0, <1>3 DEF GrantAnswers, Settle, Promise
  <2> QED
    BY <1>0, <2>1, <2>2 DEF RefreshInv, FailedNotRetried
<1>4. ASSUME NEW p \in Runs, RefreshFails(p)
      PROVE  RefreshInv'
  <2>1. \A q \in Runs : run'[q].at # "refresh"
    BY <1>0, <1>4 DEF RefreshFails, Promise, Outstanding
  <2>2. cache'.refresh \notin failed'
    BY <1>0, <1>4 DEF RefreshFails, AfterFailedRefresh, NoCache
  <2> QED
    BY <2>1, <2>2 DEF RefreshInv, FailedNotRetried
<1>5. ASSUME NEW p \in Runs, PasswordFails(p)
      PROVE  RefreshInv'
  BY <1>0, <1>5 DEF PasswordFails, Settle, Promise, RefreshInv, FailedNotRetried
<1>6. CASE Tick
  <2>1. \A p \in Runs : run'[p].at = run[p].at /\ run'[p].sent = run[p].sent
    BY <1>6, TickKeeps
  <2>2. cache'.refresh = cache.refresh /\ failed' = failed
    BY <1>6 DEF Tick, TypeInv, CacheType
  <2> QED
    BY <1>0, <2>1, <2>2 DEF RefreshInv, FailedNotRetried
<1>7. CASE Restart
  BY <1>0, <1>7 DEF Restart, NoRun, NoCache, Promise, RefreshInv, FailedNotRetried
<1>8. CASE UNCHANGED vars
  BY <1>8 DEF vars, RefreshInv, FailedNotRetried
<1> QED
  BY <1>1, <1>2, <1>3, <1>4, <1>5, <1>6, <1>7, <1>8 DEF Next, GetExperianAccessToken, GrantEnds

\* A refresh token whose grant failed, or timed out, is dropped for good.
THEOREM FailedRefreshDropped == Spec => []FailedNotRetried
<1>1. Init => RefreshInv
  BY DEF Init, NoCache, NoRun, Promise, RefreshInv, FailedNotRetried
<1>2. RefreshInv => FailedNotRetried
  BY DEF RefreshInv
<1> QED
  BY <1>1, <1>2, GrantInvariant, RefreshStep, PTL DEF Spec

------------------------------------------------------------------------------
(* Token lifetimes *)

\* The cache believes at most HttpTimeout more than Experian grants, and a call that
\* carries a cached token started with more than the skew less that delay.
TimeInv ==
  /\ cache.left <= cache.life + HttpTimeout
  /\ \A c \in Callers :
       caller[c].at = "calling" /\ caller[c].cached
         => REFRESH_SKEW < caller[c].life + caller[c].ago + HttpTimeout

LEMMA TimeStep == TypeInv /\ TimeInv /\ [Next]_vars => TimeInv'
<1> SUFFICES ASSUME TypeInv, TimeInv, [Next]_vars
             PROVE  TimeInv'
  OBVIOUS
<1>0. /\ cache \in CacheType /\ run \in [Runs -> RunType] /\ caller \in [Callers -> CallerType]
      /\ cache.left <= cache.life + HttpTimeout
      /\ \A c \in Callers : caller[c].at = "calling" /\ caller[c].cached
                              => REFRESH_SKEW < caller[c].life + caller[c].ago + HttpTimeout
      /\ HttpTimeout \in Nat /\ REFRESH_SKEW \in Nat
  BY OAuthAssumption DEF TypeInv, TimeInv
<1>1. ASSUME NEW c \in Callers, UseCache(c)
      PROVE  TimeInv'
  <2>1. REFRESH_SKEW < cache.life + 0 + HttpTimeout
    BY <1>0, <1>1 DEF UseCache, Usable, CacheType
  <2> QED
    BY <1>0, <1>1, <2>1 DEF UseCache, Caller, TimeInv
<1>2. ASSUME NEW c \in Callers, JoinRun(c) \/ Resume(c) \/ CallEnds(c)
      PROVE  TimeInv'
  BY <1>0, <1>2 DEF JoinRun, Resume, CallEnds, Caller, Idle, TimeInv
<1>3. ASSUME NEW c \in Callers, StartRun(c)
      PROVE  TimeInv'
  BY <1>0, <1>3 DEF StartRun, Caller, TimeInv
<1>4. ASSUME NEW p \in Runs, GrantAnswers(p)
      PROVE  TimeInv'
  <2>1. run[p].ago \in 0..HttpTimeout
    BY <1>0 DEF RunType
  <2>2. cache'.left <= cache'.life + HttpTimeout /\ caller' = caller
    BY <1>4, <2>1, GrantedLife DEF GrantAnswers
  <2> QED
    BY <1>0, <2>2 DEF TimeInv
<1>5. ASSUME NEW p \in Runs, RefreshFails(p) \/ PasswordFails(p)
      PROVE  TimeInv'
  BY <1>0, <1>5 DEF RefreshFails, PasswordFails, AfterFailedRefresh, NoCache, TimeInv
<1>6. CASE Tick
  <2>1. cache'.left = Less(cache.left) /\ cache'.life = Less(cache.life)
    BY <1>0, <1>6 DEF Tick, CacheType
  <2>2. cache'.left <= cache'.life + HttpTimeout
    BY <1>0, <2>1 DEF Less, CacheType
  <2>3. ASSUME NEW c \in Callers, caller'[c].at = "calling", caller'[c].cached
        PROVE  REFRESH_SKEW < caller'[c].life + caller'[c].ago + HttpTimeout
    <3>1. caller'[c] = Older(caller[c], caller[c].at = "calling")
      BY <1>6 DEF Tick
    <3>2. /\ caller'[c].at = caller[c].at /\ caller'[c].cached = caller[c].cached
          /\ caller'[c].life = Less(caller[c].life)
          /\ caller'[c].ago = IF caller[c].at = "calling" THEN caller[c].ago + 1 ELSE caller[c].ago
      BY <1>0, <1>6, <3>1, TickTyped DEF Tick
    <3>3. caller[c].life \in Nat /\ caller[c].ago \in Nat /\ caller[c].life <= Less(caller[c].life) + 1
          /\ Less(caller[c].life) \in Nat
      BY <1>0, TickTyped DEF CallerType
    <3> QED
      BY <1>0, <2>3, <3>2, <3>3
  <2> QED
    BY <2>2, <2>3 DEF TimeInv
<1>7. CASE Restart
  BY <1>0, <1>7 DEF Restart, NoCache, Idle, Caller, TimeInv
<1>8. CASE UNCHANGED vars
  BY <1>8 DEF vars, TimeInv
<1> QED
  BY <1>1, <1>2, <1>3, <1>4, <1>5, <1>6, <1>7, <1>8 DEF Next, GetExperianAccessToken, GrantEnds

\* With a skew of at least two time-outs (90 s and 30 s by default), a token served from the
\* cache outlives the Connect call it authorises.
THEOREM CachedTokenValid == ASSUME SkewCoversTimeouts PROVE Spec => []TokenOutlivesCall
<1>1. Init => TimeInv
  BY OAuthAssumption DEF Init, NoCache, Idle, Caller, TimeInv
<1>2. TypeInv /\ TimeInv => TokenOutlivesCall
  <2> SUFFICES ASSUME TypeInv, TimeInv, NEW c \in Callers,
                      caller[c].at = "calling", caller[c].cached
               PROVE  caller[c].life > 0
    BY DEF TokenOutlivesCall
  <2>1. caller[c].ago \in 0..HttpTimeout /\ caller[c].life \in Nat
    BY DEF TypeInv, CallerType
  <2> QED
    BY <2>1, OAuthAssumption DEF TimeInv, SkewCoversTimeouts
<1> QED
  BY <1>1, <1>2, TypeInvariant, TimeStep, PTL DEF Spec

------------------------------------------------------------------------------
(* Every caller is served *)

Away(c) == caller[c].at = "idle"
Calling(c) == caller[c].at = "calling"
Asking(c, p) == caller[c].at = "waiting" /\ caller[c].run = p /\ run[p].at \in Outstanding
Granted(c) == caller[c].at = "waiting" /\ run[caller[c].run].at = "resolved"
Refused(c) == caller[c].at = "waiting" /\ run[caller[c].run].at = "rejected"

\* The promise a caller awaits is a sequence under way or a settled one: its name is not lent
\* to another while the caller waits.
WaitInv ==
  \A c \in Callers :
    caller[c].at = "waiting" => run[caller[c].run].at \in Outstanding \cup Settled

\* A token request of a caller that is away: it is answered or waits for a grant.
LEMMA Asks ==
  ASSUME TypeInv, OneGrant, NEW c \in Callers, GetExperianAccessToken(c)
  PROVE  /\ Away(c) /\ (Calling(c)' \/ \E p \in Runs : Asking(c, p)')
         /\ \A d \in Callers : d # c => caller'[d] = caller[d]
         /\ \A p \in Runs : run'[p] = run[p] \/ (Unreferenced(p) /\ run'[p].at \in Outstanding)
<1>0. /\ run \in [Runs -> RunType] /\ caller \in [Callers -> CallerType] /\ None \notin Runs
      /\ \A p \in Runs : run[p].at \in Outstanding <=> inFlight = p
      /\ inFlight \in Runs \cup {None}
  BY OAuthAssumption DEF TypeInv, OneGrant
<1>1. CASE UseCache(c)
  BY <1>0, <1>1 DEF UseCache, Caller, Away, Calling
<1>2. CASE JoinRun(c)
  <2>1. inFlight \in Runs /\ run[inFlight].at \in Outstanding
    BY <1>0, <1>2 DEF JoinRun, Joins
  <2> QED
    BY <1>0, <1>2, <2>1 DEF JoinRun, Caller, Away, Asking
<1>3. CASE StartRun(c)
  <2>1. PICK p \in Runs : /\ Unreferenced(p)
                          /\ run' = [run EXCEPT ![p] = Promise(FirstGrant, cache.refresh, 0)]
                          /\ caller' = [caller EXCEPT ![c] = Caller("waiting", p, FALSE, 0)]
    BY <1>3 DEF StartRun
  <2>2. run'[p].at \in Outstanding /\ caller'[c].at = "waiting" /\ caller'[c].run = p
    BY <1>0, <2>1 DEF Promise, FirstGrant, Outstanding, Caller
  <2> QED
    BY <1>0, <1>3, <2>1, <2>2 DEF StartRun, Away, Asking
<1> QED
  BY <1>1, <1>2, <1>3 DEF GetExperianAccessToken

\* The end of an await or of a Connect call.
LEMMA Goes ==
  ASSUME TypeInv, NEW c \in Callers, Resume(c) \/ CallEnds(c)
  PROVE  /\ run' = run /\ \A d \in Callers : d # c => caller'[d] = caller[d]
         /\ \/ Granted(c) /\ Calling(c)'
            \/ Refused(c) /\ Away(c)'
            \/ Calling(c) /\ Away(c)' /\ ~Resume(c)
<1>0. caller \in [Callers -> CallerType]
  BY DEF TypeInv
<1> QED
  BY <1>0 DEF Resume, CallEnds, Settled, Caller, Idle, Granted, Refused, Calling, Away

\* A grant that does not fail resolves its promise.
LEMMA GrantResolves ==
  ASSUME TypeInv, NEW p \in Runs, GrantEnds(p), faults' = faults
  PROVE  /\ caller' = caller /\ run[p].at \in Outstanding /\ run'[p].at = "resolved"
         /\ \A q \in Runs : q # p => run'[q] = run[q]
<1>0. run \in [Runs -> RunType] /\ faults' # faults + 1
  BY OAuthAssumption DEF TypeInv
<1>1. GrantAnswers(p)
  BY <1>0 DEF GrantEnds, RefreshFails, PasswordFails
<1>2. \E life : run' = [run EXCEPT ![p] = Promise("resolved", None, life)]
  BY <1>1 DEF GrantAnswers, Settle
<1> QED
  BY <1>0, <1>1, <1>2 DEF GrantAnswers, Promise

LEMMA TickWaits ==
  ASSUME TypeInv, Tick
  PROVE  /\ \A p \in Runs : run'[p].at = run[p].at
         /\ \A c \in Callers : caller'[c].at = caller[c].at /\ caller'[c].run = caller[c].run
<1>1. ASSUME NEW c \in Callers
      PROVE  LET row == Older(caller[c], caller[c].at = "calling")
             IN  row.at = caller[c].at /\ row.run = caller[c].run
  <2>1. /\ caller[c] \in CallerType /\ (caller[c].at = "calling") \in BOOLEAN
        /\ caller[c].at = "calling" => caller[c].ago < HttpTimeout
    BY DEF TypeInv, Tick
  <2> QED
    BY <2>1, TickTyped
<1> QED
  BY <1>1, TickKeeps DEF Tick

\* What a step without a fault or a crash does to a promise and to a caller.
RunMoves(p) ==
  \/ run'[p].at = run[p].at
  \/ run[p].at \in Outstanding /\ run'[p].at = "resolved"
  \/ Unreferenced(p) /\ run'[p].at \in Outstanding
CallerMoves(c) ==
  \/ caller'[c].at = caller[c].at /\ caller'[c].run = caller[c].run
  \/ Away(c) /\ (Calling(c)' \/ \E p \in Runs : Asking(c, p)')
  \/ Granted(c) /\ Calling(c)'
  \/ Refused(c) /\ Away(c)'
  \/ Calling(c) /\ Away(c)'

LEMMA QuietStep ==
  ASSUME TypeInv, OneGrant, [Next]_vars, faults' = faults
  PROVE  (\A p \in Runs : RunMoves(p)) /\ (\A c \in Callers : CallerMoves(c))
<1>1. ASSUME NEW c \in Callers, GetExperianAccessToken(c)
      PROVE  (\A p \in Runs : RunMoves(p)) /\ (\A d \in Callers : CallerMoves(d))
  BY <1>1, Asks DEF RunMoves, CallerMoves
<1>2. ASSUME NEW c \in Callers, Resume(c) \/ CallEnds(c)
      PROVE  (\A p \in Runs : RunMoves(p)) /\ (\A d \in Callers : CallerMoves(d))
  BY <1>2, Goes DEF RunMoves, CallerMoves
<1>3. ASSUME NEW p \in Runs, GrantEnds(p)
      PROVE  (\A q \in Runs : RunMoves(q)) /\ (\A c \in Callers : CallerMoves(c))
  BY <1>3, GrantResolves DEF RunMoves, CallerMoves
<1>4. CASE Tick
  BY <1>4, TickWaits DEF RunMoves, CallerMoves
<1>5. ~Restart
  BY OAuthAssumption DEF TypeInv, Restart
<1>6. CASE UNCHANGED vars
  BY <1>6 DEF vars, RunMoves, CallerMoves
<1> QED
  BY <1>1, <1>2, <1>3, <1>4, <1>5, <1>6 DEF Next

LEMMA WaitStep == TypeInv /\ OneGrant /\ WaitInv /\ [Next]_vars => WaitInv'
<1> SUFFICES ASSUME TypeInv, OneGrant, WaitInv, [Next]_vars, NEW c \in Callers,
                    caller'[c].at = "waiting"
             PROVE  run'[caller'[c].run].at \in Outstanding \cup Settled
  BY DEF WaitInv
<1>0. /\ run \in [Runs -> RunType] /\ caller \in [Callers -> CallerType] /\ None \notin Runs
      /\ RowsOK
  BY OAuthAssumption DEF TypeInv
<1>1. ASSUME \A p \in Runs : RunMoves(p), CallerMoves(c)
      PROVE  run'[caller'[c].run].at \in Outstanding \cup Settled
  <2>1. CASE caller'[c].at = caller[c].at /\ caller'[c].run = caller[c].run
    <3>1. /\ run[caller[c].run].at \in Outstanding \cup Settled /\ caller[c].run \in Runs
          /\ ~Unreferenced(caller[c].run)
      BY <1>0, <2>1 DEF WaitInv, RowsOK, CallerType, Unreferenced
    <3> QED
      BY <1>1, <2>1, <3>1 DEF RunMoves, Settled
  <2>2. CASE \E p \in Runs : Asking(c, p)'
    BY <2>2 DEF Asking
  <2> QED
    BY <1>1, <2>1, <2>2 DEF CallerMoves, Calling, Away
<1>2. CASE faults' = faults
  BY <1>1, <1>2, QuietStep
<1>3. ASSUME NEW p \in Runs, RefreshFails(p) \/ PasswordFails(p)
      PROVE  run'[caller'[c].run].at \in Outstanding \cup Settled
  <2>1. \E at \in Outstanding \cup Settled : \E life : run' = [run EXCEPT ![p] = Promise(at, None, life)]
    BY <1>3 DEF RefreshFails, PasswordFails, Settle, Outstanding, Settled
  <2>2. caller' = caller /\ \A q \in Runs : run'[q] = run[q] \/ run'[q].at \in Outstanding \cup Settled
    BY <1>0, <1>3, <2>1 DEF RefreshFails, PasswordFails, Promise
  <2>3. caller[c].run \in Runs /\ run[caller[c].run].at \in Outstanding \cup Settled
    BY <1>0, <2>2 DEF WaitInv, RowsOK, CallerType
  <2> QED
    BY <2>2, <2>3
<1>4. CASE Restart
  BY <1>4 DEF Restart, Idle, Caller
<1>5. \/ faults' = faults \/ Restart
      \/ \E p \in Runs : RefreshFails(p) \/ PasswordFails(p)
  BY DEF Next, GetExperianAccessToken, UseCache, JoinRun, StartRun, Resume, CallEnds, GrantEnds,
     GrantAnswers, Tick, vars
<1> QED
  BY <1>2, <1>3, <1>4, <1>5

LEMMA WaitInvariant == Spec => [](TypeInv /\ OneGrant /\ WaitInv)
<1>1. Init => WaitInv
  BY DEF Init, Idle, Caller, WaitInv
<1> QED
  BY <1>1, WaitStep, GrantInvariant, PTL DEF Spec

\* What a caller needs: it asks again when it has no token, node runs the reaction to its
\* promise, every grant ends, and failures end.  Fairness gives the first three: each of the
\* actions is enabled as long as the state it leaves lasts, given a promise name per caller.
\* MaxFaults bounds the failures.
KeepsAsking(c) == []<>~Away(c) \/ []<><<GetExperianAccessToken(c)>>_vars
Resumes(c) == []<>~(Granted(c) \/ Refused(c)) \/ []<><<Resume(c)>>_vars
UnderWay(p) == run[p].at \in Outstanding
Answers(p) == []<>~UnderWay(p) \/ []<><<GrantEnds(p)>>_vars
Quiet == [][faults' = faults]_vars

\* A caller that waits for a grant, or is granted a token, calls Experian with it.
GrantServes(c, p) == [](Quiet /\ (Asking(c, p) \/ Granted(c)) => <>Calling(c))

LEMMA GrantsServe ==
  ASSUME NEW c \in Callers, NEW p \in Runs
  PROVE  Spec /\ Resumes(c) /\ Answers(p) => GrantServes(c, p)
<1>1. TypeInv /\ OneGrant /\ Asking(c, p) /\ [Next]_vars /\ [faults' = faults]_vars
        => /\ Asking(c, p)' \/ Granted(c)'
           /\ <<GrantEnds(p)>>_vars => Granted(c)'
  <2> SUFFICES ASSUME TypeInv, OneGrant, Asking(c, p), [Next]_vars, faults' = faults
               PROVE  /\ Asking(c, p)' \/ Granted(c)'
                      /\ <<GrantEnds(p)>>_vars => Granted(c)'
    BY DEF vars
  <2>1. RunMoves(p) /\ CallerMoves(c)
    BY QuietStep
  <2>2. /\ caller'[c].at = "waiting" /\ caller'[c].run = p
        /\ run'[p].at \in Outstanding \cup {"resolved"}
    BY <2>1 DEF RunMoves, CallerMoves, Asking, Away, Granted, Refused, Calling, Outstanding
  <2>3. GrantEnds(p) => run'[p].at = "resolved"
    BY GrantResolves
  <2> QED
    BY <2>2, <2>3 DEF Asking, Granted
<1>2. TypeInv /\ OneGrant /\ WaitInv /\ Granted(c) /\ [Next]_vars /\ [faults' = faults]_vars
        => /\ Granted(c)' \/ Calling(c)'
           /\ <<Resume(c)>>_vars => Calling(c)'
  <2> SUFFICES ASSUME TypeInv, OneGrant, WaitInv, Granted(c), [Next]_vars, faults' = faults
               PROVE  /\ Granted(c)' \/ Calling(c)'
                      /\ Resume(c) => Calling(c)'
    BY DEF vars
  <2>1. (\A q \in Runs : RunMoves(q)) /\ CallerMoves(c)
    BY QuietStep
  <2>2. caller[c].run \in Runs /\ ~Unreferenced(caller[c].run)
    BY OAuthAssumption DEF TypeInv, RowsOK, CallerType, Granted, Unreferenced
  <2>3. Granted(c)' \/ Calling(c)'
    BY <2>1, <2>2 DEF RunMoves, CallerMoves, Granted, Away, Refused, Calling, Outstanding
  <2>4. Resume(c) => Calling(c)'
    BY Goes DEF Granted, Refused, Calling
  <2> QED
    BY <2>3, <2>4
<1>3. Asking(c, p) => UnderWay(p)
  BY DEF Asking, UnderWay
<1>4. ~(Calling(c) /\ Granted(c))
  BY DEF Calling, Granted
<1> QED
  BY <1>1, <1>2, <1>3, <1>4, WaitInvariant, PTL
  DEF Spec, Resumes, Answers, Quiet, GrantServes

LEMMA AskingServes ==
  ASSUME NEW c \in Callers
  PROVE  Spec /\ Resumes(c) /\ (\A p \in Runs : Answers(p))
           => [](Quiet /\ ((\E p \in Runs : Asking(c, p)) \/ Granted(c)) => <>Calling(c))
<1>1. Spec /\ Resumes(c) /\ (\A p \in Runs : Answers(p)) => \A p \in Runs : GrantServes(c, p)
  BY GrantsServe
<1>2. (\A p \in Runs : GrantServes(c, p))
        => [](\A p \in Runs : Quiet /\ (Asking(c, p) \/ Granted(c)) => <>Calling(c))
  BY DEF GrantServes
<1>3. (\A p \in Runs : Quiet /\ (Asking(c, p) \/ Granted(c)) => <>Calling(c))
        => (Quiet /\ (\E p \in Runs : Asking(c, p) \/ Granted(c)) => <>Calling(c))
  OBVIOUS
<1>4. TypeInv /\ ((\E p \in Runs : Asking(c, p)) \/ Granted(c))
        => \E p \in Runs : Asking(c, p) \/ Granted(c)
  BY OAuthAssumption DEF TypeInv, RowsOK, CallerType, Granted
<1> QED
  BY <1>1, <1>2, <1>3, <1>4, WaitInvariant, PTL

LEMMA ServedOne ==
  ASSUME NEW c \in Callers
  PROVE  Spec /\ KeepsAsking(c) /\ Resumes(c) /\ (\A p \in Runs : Answers(p)) /\ <>Quiet
           => []<>Calling(c)
<1> DEFINE Grantable == (\E p \in Runs : Asking(c, p)) \/ Granted(c)
<1>1. TypeInv /\ OneGrant /\ Away(c) /\ [Next]_vars /\ [faults' = faults]_vars
        => /\ Away(c)' \/ Calling(c)' \/ Grantable'
           /\ <<GetExperianAccessToken(c)>>_vars => Calling(c)' \/ Grantable'
  <2> SUFFICES ASSUME TypeInv, OneGrant, Away(c), [Next]_vars, faults' = faults
               PROVE  /\ Away(c)' \/ Calling(c)' \/ Grantable'
                      /\ GetExperianAccessToken(c) => Calling(c)' \/ Grantable'
    BY DEF vars
  <2>1. CallerMoves(c)
    BY QuietStep
  <2>2. Away(c)' \/ Calling(c)' \/ \E p \in Runs : Asking(c, p)'
    BY <2>1 DEF CallerMoves, Away, Calling, Granted, Refused
  <2> QED
    BY <2>2, Asks
<1>2. TypeInv /\ OneGrant /\ WaitInv /\ Refused(c) /\ [Next]_vars /\ [faults' = faults]_vars
        => /\ Refused(c)' \/ Away(c)'
           /\ <<Resume(c)>>_vars => Away(c)'
  <2> SUFFICES ASSUME TypeInv, OneGrant, WaitInv, Refused(c), [Next]_vars, faults' = faults
               PROVE  /\ Refused(c)' \/ Away(c)'
                      /\ Resume(c) => Away(c)'
    BY DEF vars
  <2>1. (\A q \in Runs : RunMoves(q)) /\ CallerMoves(c)
    BY QuietStep
  <2>2. caller[c].run \in Runs /\ ~Unreferenced(caller[c].run)
    BY OAuthAssumption DEF TypeInv, RowsOK, CallerType, Refused, Unreferenced
  <2>3. Refused(c)' \/ Away(c)'
    BY <2>1, <2>2 DEF RunMoves, CallerMoves, Granted, Away, Refused, Calling, Outstanding
  <2>4. Resume(c) => Away(c)'
    BY Goes DEF Granted, Refused, Calling
  <2> QED
    BY <2>3, <2>4
<1>3. TypeInv /\ WaitInv => Away(c) \/ Calling(c) \/ Refused(c) \/ Grantable
  BY OAuthAssumption
  DEF TypeInv, RowsOK, CallerType, WaitInv, Away, Calling, Refused, Granted, Asking, Settled
<1>4. Spec /\ Resumes(c) /\ (\A p \in Runs : Answers(p))
        => [](Quiet /\ Grantable => <>Calling(c))
  BY AskingServes
<1> HIDE DEF Grantable
<1>5. Spec /\ KeepsAsking(c) /\ Resumes(c) /\ (\A p \in Runs : Answers(p))
        => [](Quiet /\ Away(c) => <>Calling(c))
  BY <1>1, <1>4, WaitInvariant, PTL DEF Spec, KeepsAsking, Quiet
<1>6. Spec /\ Resumes(c) => [](Quiet /\ Refused(c) => <>Away(c))
  BY <1>2, WaitInvariant, PTL DEF Spec, Resumes, Quiet
<1> QED
  BY <1>3, <1>4, <1>5, <1>6, WaitInvariant, PTL DEF Quiet

\* A caller that waits for a token gets one, whatever grants failed and restarts came before:
\* no rejected promise and no dead refresh token stays in its way.
THEOREM EveryCallerServed ==
  Spec /\ <>Quiet /\ (\A c \in Callers : KeepsAsking(c) /\ Resumes(c))
    /\ (\A p \in Runs : Answers(p))
  => CallersServed
<1> SUFFICES ASSUME NEW c \in Callers
             PROVE  Spec /\ <>Quiet /\ KeepsAsking(c) /\ Resumes(c) /\ (\A p \in Runs : Answers(p))
                      => (caller[c].at = "waiting" ~> caller[c].at = "calling")
  BY DEF CallersServed
<1>1. Calling(c) <=> caller[c].at = "calling"
  BY DEF Calling
<1>2. Spec /\ <>Quiet /\ KeepsAsking(c) /\ Resumes(c) /\ (\A p \in Runs : Answers(p))
        => []<>Calling(c)
  BY ServedOne
<1> QED
  BY <1>1, <1>2, PTL
==============================================================================
