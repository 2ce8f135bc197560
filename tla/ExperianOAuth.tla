---------------------------- MODULE ExperianOAuth ----------------------------
(***************************************************************************)
(* The access-token cache of services/experian/experianOAuth.service.ts    *)
(* and its caller, connectPostForm of connectApi.client.ts: the module     *)
(* variables cache and inFlight, the promise of each run of the grant      *)
(* sequence, and the Connect calls that use the tokens.                    *)
(*                                                                         *)
(* Time passes in ticks and every deadline is kept as the time left, so    *)
(* the clock is unbounded.  Every token carries two of them: what the      *)
(* cache believes is left and what is left at Experian, which started the  *)
(* clock while the grant was under way.  With experianMock set the service *)
(* returns a constant and none of this runs.                               *)
(***************************************************************************)
EXTENDS Integers, FiniteSets

CONSTANTS
  Callers,         \* slots for overlapping connectPostForm calls (bound)
  Runs,            \* names for the promises of grant sequences (bound)
  RefreshTokens,   \* refresh tokens Experian hands out (bound)
  None,            \* null, undefined and the empty refresh token
  REFRESH_SKEW,    \* REFRESH_SKEW_MS in ticks
  HttpTimeout,     \* env.experianHttpTimeoutMs in ticks
  DefaultLife,     \* the 1800 s of parseExpiresIn in ticks
  Lives,           \* lifetimes Experian states in expires_in
  MaxFaults        \* bound on failed grants and restarts

ASSUME OAuthAssumption ==
  /\ None \notin Runs /\ None \notin RefreshTokens
  /\ REFRESH_SKEW \in Nat /\ HttpTimeout \in Nat \ {0} /\ MaxFaults \in Nat
  /\ DefaultLife \in Nat \ {0} /\ Lives \subseteq Nat \ {0}

VARIABLES
  cache,      \* the token cache, or NoCache
  inFlight,   \* the promise of the run under way, or None
  run,        \* per promise: the grant outstanding, or how it settled
  caller,     \* per slot: where connectPostForm is
  failed,     \* Experian: refresh tokens presented in a grant that failed
  faults

vars == <<cache, inFlight, run, caller, failed, faults>>

Tokens == RefreshTokens \cup {None}

NoCache == [filled |-> FALSE, refresh |-> None, left |-> 0, life |-> 0]
Promise(at, sent, life) == [at |-> at, sent |-> sent, ago |-> 0, life |-> life]
NoRun == Promise("none", None, 0)
Caller(at, p, cached, life) ==
  [at |-> at, run |-> p, cached |-> cached, ago |-> 0, life |-> life]
Idle == Caller("idle", None, FALSE, 0)

Outstanding == {"refresh", "password"}
Settled == {"resolved", "rejected"}

------------------------------------------------------------------------------
(* The code's decisions *)

\* parseExpiresIn; 0 stands for a missing, unreadable or non-positive expires_in.
parseExpiresIn(stated) == IF stated > 0 THEN stated ELSE DefaultLife

\* The cache is used while more than the skew is left.
Usable_NoSkew == cache.filled /\ cache.left > 0
Usable == cache.filled /\ cache.left > REFRESH_SKEW

Joins_Never == FALSE
Joins == inFlight # None

FirstGrant_Refresh == "refresh"
FirstGrant == IF cache.refresh # None THEN "refresh" ELSE "password"

\* body.refresh_token || prevRefresh || ""
KeptRefresh(given) == IF given # None THEN given ELSE cache.refresh

AfterFailedRefresh_Kept == cache
AfterFailedRefresh == NoCache

\* The finally block.
InFlightAfter_OnSuccess(outcome) == IF outcome = "resolved" THEN None ELSE inFlight
InFlightAfter(outcome) == None

Settle(p, outcome, life) ==
  /\ run' = [run EXCEPT ![p] = Promise(outcome, None, life)]
  /\ inFlight' = InFlightAfter(outcome)

------------------------------------------------------------------------------
(* getExperianAccessToken *)

UseCache(c) ==
  /\ caller[c].at = "idle" /\ Usable
  /\ caller' = [caller EXCEPT ![c] = Caller("calling", None, TRUE, cache.life)]
  /\ UNCHANGED <<cache, inFlight, run, failed, faults>>

JoinRun(c) ==
  /\ caller[c].at = "idle" /\ ~Usable /\ Joins
  /\ caller' = [caller EXCEPT ![c] = Caller("waiting", inFlight, FALSE, 0)]
  /\ UNCHANGED <<cache, inFlight, run, failed, faults>>

\* A promise that no one holds any more may lend its name to a new one.
Unreferenced(p) ==
  /\ run[p].at \notin Outstanding /\ inFlight # p
  /\ \A c \in Callers : caller[c].run # p

\* The sequence runs up to its first fetch before the promise is stored in inFlight.
StartRun(c) ==
  /\ caller[c].at = "idle" /\ ~Usable /\ ~Joins
  /\ \E p \in Runs :
       /\ Unreferenced(p)
       /\ run' = [run EXCEPT ![p] = Promise(FirstGrant, cache.refresh, 0)]
       /\ inFlight' = p
       /\ caller' = [caller EXCEPT ![c] = Caller("waiting", p, FALSE, 0)]
  /\ UNCHANGED <<cache, failed, faults>>

\* applyTokenResponse.  Experian started the token's clock at some time after the request
\* was sent; it may hand out a new refresh token.
GrantAnswers(p) ==
  /\ run[p].at \in Outstanding
  /\ \E stated \in Lives \cup {0}, age \in 0..run[p].ago, given \in Tokens \ failed :
       LET left == parseExpiresIn(stated)
           life == IF left > age THEN left - age ELSE 0
       IN  /\ cache' = [filled |-> TRUE, refresh |-> KeptRefresh(given),
                        left |-> left, life |-> life]
           /\ Settle(p, "resolved", life)
  /\ UNCHANGED <<caller, failed, faults>>

\* Time-out, refusal or unreadable answer to the refresh grant: the catch clears the cache
\* and the password grant is sent.
RefreshFails(p) ==
  /\ run[p].at = "refresh" /\ faults < MaxFaults
  /\ cache' = AfterFailedRefresh
  /\ run' = [run EXCEPT ![p] = Promise("password", None, 0)]
  /\ failed' = failed \cup {run[p].sent}
  /\ faults' = faults + 1
  /\ UNCHANGED <<inFlight, caller>>

\* The same for the password grant, or credentials that are not configured.
PasswordFails(p) ==
  /\ run[p].at = "password" /\ faults < MaxFaults
  /\ Settle(p, "rejected", 0)
  /\ faults' = faults + 1
  /\ UNCHANGED <<cache, caller, failed>>

------------------------------------------------------------------------------
(* connectPostForm *)

\* The await of the promise ends: with a token, or with a throw to the wizard.
Resume(c) ==
  /\ caller[c].at = "waiting" /\ run[caller[c].run].at \in Settled
  /\ caller' = [caller EXCEPT ![c] =
                  IF run[caller[c].run].at = "resolved"
                  THEN Caller("calling", None, FALSE, run[caller[c].run].life)
                  ELSE Idle]
  /\ UNCHANGED <<cache, inFlight, run, failed, faults>>

\* The Connect call is answered or aborted.
CallEnds(c) ==
  /\ caller[c].at = "calling"
  /\ caller' = [caller EXCEPT ![c] = Idle]
  /\ UNCHANGED <<cache, inFlight, run, failed, faults>>

------------------------------------------------------------------------------
(* Time and crashes *)

Less(n) == IF n > 0 THEN n - 1 ELSE 0
Older(row, fetching) ==
  [row EXCEPT !.ago = IF fetching THEN @ + 1 ELSE @, !.life = Less(@)]

\* AbortSignal.timeout ends every fetch after HttpTimeout, and promise reactions run before
\* the process handles anything else: no tick passes over either.
Tick ==
  /\ \A p \in Runs : run[p].at \in Outstanding => run[p].ago < HttpTimeout
  /\ \A c \in Callers :
       /\ caller[c].at = "calling" => caller[c].ago < HttpTimeout
       /\ caller[c].at = "waiting" => run[caller[c].run].at \notin Settled
  /\ cache' = [cache EXCEPT !.left = Less(@), !.life = Less(@)]
  /\ run' = [p \in Runs |-> Older(run[p], run[p].at \in Outstanding)]
  /\ caller' = [c \in Callers |-> Older(caller[c], caller[c].at = "calling")]
  /\ UNCHANGED <<inFlight, failed, faults>>

\* Both module variables are lost with the process.
Restart ==
  /\ faults < MaxFaults /\ faults' = faults + 1
  /\ cache' = NoCache /\ inFlight' = None
  /\ run' = [p \in Runs |-> NoRun] /\ caller' = [c \in Callers |-> Idle]
  /\ UNCHANGED failed

------------------------------------------------------------------------------
Init ==
  /\ cache = NoCache /\ inFlight = None
  /\ run = [p \in Runs |-> NoRun] /\ caller = [c \in Callers |-> Idle]
  /\ failed = {} /\ faults = 0

GetExperianAccessToken(c) == UseCache(c) \/ JoinRun(c) \/ StartRun(c)

GrantEnds(p) == GrantAnswers(p) \/ RefreshFails(p) \/ PasswordFails(p)

Next ==
  \/ \E c \in Callers : GetExperianAccessToken(c) \/ Resume(c) \/ CallEnds(c)
  \/ \E p \in Runs : GrantEnds(p)
  \/ Tick
  \/ Restart

Spec == Init /\ [][Next]_vars

\* Every fetch ends (AbortSignal.timeout) and every promise reaction runs; a caller whose
\* token request failed asks again.
Fairness ==
  /\ \A c \in Callers : /\ WF_vars(GetExperianAccessToken(c))
                        /\ WF_vars(Resume(c))
                        /\ WF_vars(CallEnds(c))
  /\ \A p \in Runs : WF_vars(GrantEnds(p))

FairSpec == Spec /\ Fairness

------------------------------------------------------------------------------
(* Properties *)

\* The module variables, promises and calls have their types; a refresh grant always
\* presents a refresh token and a waiting caller always awaits a promise.
TypeOK ==
  /\ cache \in [filled : BOOLEAN, refresh : Tokens, left : Nat, life : Nat]
  /\ inFlight \in Runs \cup {None}
  /\ run \in [Runs -> [at : {"none"} \cup Outstanding \cup Settled, sent : Tokens,
                       ago : 0..HttpTimeout, life : Nat]]
  /\ caller \in [Callers -> [at : {"idle", "waiting", "calling"}, run : Runs \cup {None},
                             cached : BOOLEAN, ago : 0..HttpTimeout, life : Nat]]
  /\ failed \subseteq RefreshTokens
  /\ faults \in 0..MaxFaults
  /\ \A p \in Runs : run[p].at = "refresh" => run[p].sent # None
  /\ \A c \in Callers : caller[c].at = "waiting" => caller[c].run # None

\* However many callers find the cache stale, at most one grant sequence is under way and
\* it is the one inFlight holds: the finally block never clears or leaves behind another.
OneGrant == \A p \in Runs : run[p].at \in Outstanding <=> inFlight = p

\* A token served from the cache is still valid at Experian when the Connect call that
\* carries it ends, at the latest after HttpTimeout, although Experian started its clock
\* before the cache did: REFRESH_SKEW_MS covers both delays.
TokenOutlivesCall ==
  \A c \in Callers : caller[c].at = "calling" /\ caller[c].cached => caller[c].life > 0

\* A refresh token whose grant failed is never presented again, across any later run.
FailedNotRetried == \A p \in Runs : run[p].at = "refresh" => run[p].sent \notin failed

\* A caller that needs a token gets one once Experian answers: no failed grant leaves a
\* rejected promise, or a dead refresh token, in the way of the next.
CallersServed == \A c \in Callers : caller[c].at = "waiting" ~> caller[c].at = "calling"

\* The deployment's settings: 30 s and 90 s by default; env.ts checks neither.
SkewCoversTimeouts == 2 * HttpTimeout <= REFRESH_SKEW
==============================================================================
