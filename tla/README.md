# Verification of the credit disputor backend

The repository is an Express API over Postgres (Prisma) that signs users in, keeps their
settings and connects them to the credit bureaus through Experian's Connect API. This
directory models the parts of it that keep state across awaits and requests, checks them
with TLC on small instances and proves the main results with TLAPS for every value of the
constants. Paths below are relative to `src/backend/src/` unless they start with `src/`.

## How the program runs, and how it is modelled

One node process serves every request. Between two `await`s a handler runs alone; at an
`await` any other handler may run. There are no locks and almost no transactions (only the
upserts of `ensurePullJobsForConnection` and of the preferences), so a handler that reads a
row, awaits and writes the row again can be overtaken. Every model therefore has

- one action per stretch of a handler between two awaits, named for what the stretch does;
- request slots (`Reqs`, `Callers`) with a `pc`: the await at which the slot is suspended;
- one atomic step per Prisma call, since each is one SQL statement (or one transaction);
- `DbThrows`, a failing database call, and `Restart`, which drops every request and every
  module-level variable and leaves the tables as they are.

A request that is refused without changing anything (404, 409, a body that does not parse)
is not a step: it would be a stutter.

## Inventory

| Component | State | Operations | Hard behaviours | Modules |
|---|---|---|---|---|
| Bureau connection wizard (`services/bureauConnection.service.ts`, its repository and controller) | tables BureauConnection, BureauConsentRecord, BureauPullJob, ScoreSnapshot; the PII key | start, identity, address, consent, KIQ answers, status | overlapping steps and polls, crash between writes, swallowed updates, key change | `BureauConnection` |
| Experian Connect client (`services/experian/experianConnect.service.ts`, `connectApi.client.ts`) | none | submit user, submit answers, pull report | failures of several kinds seen as one throw | `ExperianConnect` |
| Experian OAuth cache (`services/experian/experianOAuth.service.ts`) | `cache`, `inFlight` | get access token: cached, joined, refresh grant, password grant | single flight, expiry against a clock elsewhere, failing refresh | `ExperianOAuth` |
| Sessions and password reset (`services/auth.service.ts`, `settings.service.ts`) | tables RefreshToken, PasswordResetToken, the password | issue, refresh, forgot, reset, change | rotation racing revocation, partial failure | `Sessions` |
| Email one-time codes (`services/otp.service.ts`) | table EmailOtpChallenge | send, verify | attempt limit and single use under overlap | `EmailOtp` |
| TOTP and backup codes (`services/settings.service.ts`, `lib/mfa/`) | tables UserTotp, UserBackupCode | begin, enable, disable, regenerate, sign in | replacement of a batch, stale secret | `SecondFactor` |
| Passkeys (`services/authSigninWebauthn.service.ts`, `settings.service.ts`) | tables WebAuthnChallenge, WebAuthnCredential | options, verify, for sign-in and registration | two verifications of one challenge, a deletion whose error is swallowed, a response sent in again | `Passkeys` |
| Google sign-in (`services/auth.service.ts`) | User.googleSub | find, link or create | a creation race on two unique columns, a link written by id alone | `Accounts` |
| Phone verification (`services/auth.service.ts`, `twilioVerify.service.ts`) | User.phoneNumber, phoneVerified | send, verify, profile change | the number changes during the check | `Accounts` |
| Preferences, rate limiters, middleware, validation, email, crypto, upload, health, configuration | - | - | none that these models could add to | not modelled |

The wizard calls the Connect client, which asks the OAuth cache for a token. Sign-in by
code, passkey or Google ends in the issue of a session. Otherwise components meet only in
the database.

What makes each correct: the wizard keeps its documented stages and never shows a state
without the records behind it, sends an identity once and only after consent, and settles;
the OAuth cache runs one grant at a time and hands out tokens that outlive their use;
sessions never fork and stay dead once revoked; a code or challenge works once; a Google user
keeps one account, and a verified number is one the user has shown a code of.

## Modules

| Module | What it is |
|---|---|
| `ExperianConnect` | what the three Connect calls can return |
| `BureauConnection` | the wizard, await by await; EXTENDS `ExperianConnect` |
| `BureauWizard` | abstract: the wizard as openapi.yaml documents it |
| `ConsentLedger` | abstract: consent, one registration (counted call by call), scores |
| `MCBureauConnection` | the instances of `UserOf` for TLC |
| `BureauConnectionProofs`, `BureauSerialProofs` | theorems about the wizard |
| `ExperianOAuth` | the token cache and the calls that use it |
| `ExperianOAuthProofs` | theorems about the cache |
| `Sessions` | refresh tokens, their rotation and revocation, password reset and change |
| `RefreshChain` | abstract: a session is a chain of tokens that never forks |
| `MCSessions` | the instances of `Accounts` for TLC |
| `SessionsProofs` | theorems about sessions |
| `EmailOtp` | email codes, their sends and verifications, and the requests that use them |
| `MCEmailOtp`, `EmailOtpProofs` | TLC's symmetry; theorems about codes |
| `SecondFactor` | TOTP enrolment, backup codes, the sign-in with a backup code |
| `MCSecondFactor`, `SecondFactorProofs` | TLC's symmetry; theorems about them |
| `Passkeys` | WebAuthn registration and sign-in, the passkeys and the authenticators |
| `MCPasskeys`, `PasskeysProofs` | TLC's symmetry; theorems about them |
| `Accounts` | the User table: sign-up, Google sign-in, profile changes, phone verification |
| `MCAccounts`, `AccountsProofs` | the reassigned address and TLC's symmetry; theorems about accounts |

These components share no table whose changes matter to another, so they are not composed: a
sign-in by code, backup code, passkey or Google ends, for `Sessions`, as one more `SignIn`.
`Accounts` and `EmailOtp` both read User, but different columns of it: for `EmailOtp` a Google
sign-in is one step that creates or verifies the account.

Operators named `Op_Something` just above `Op` are variants of `Op` as a plausible bug would
leave it. No specification uses them; putting one in the place of `Op` shows that a
property really depends on what `Op` does.

### BureauConnection and the code

`conn`, `consents`, `job`, `scored` are the four tables. An encrypted column is abstracted to
the key it was encrypted under (or null), which is what its later decryption depends on;
`lastProviderPollAt` to whether it is less than `PROVIDER_POLL_DEBOUNCE_MS` old (`polled`);
the failure code to whether there is one. `registered` counts the calls of `/v3/user` per
connection: it is Experian's view, which the database does not hold. Each handler begins
with the action of its name (`SubmitConsent`), whose guard is `loadOwnedOr404` and
`assertState` on the row as it is then, and goes on with one action for each later await
(`CreateConsent`, `EnsurePullJobs`, `UserReply`, `WriteToken`, ...). What it decides from the
row it loaded is kept in `req` (the consumer token of `tryPullExperianReport`, the state
`getConnectionStatus` reports) and goes stale there, as in the code. The writes name only
the columns the code names: the rest of the row is whatever other handlers left.
`UpdateConnection` has the swallowed failure of `updateConnectionForUser`, `DbThrows` the
calls that do throw; inside the `try` of `tryPullExperianReport` a throw leads to its catch.

### ExperianOAuth and the code

`cache` and `inFlight` are the module variables. A run of the `async` block is a promise
`run[p]`, either at one of its two fetches or settled; a caller that joins it keeps the
promise even after `inFlight` moved on. Time passes in ticks; deadlines are kept as the time
left, so the clock has no bound. A token has two: `left`, what the cache believes, and
`life`, what is left at Experian, which issued it at any moment between the request and the
answer. `Tick` cannot pass over a fetch that reached `HttpTimeout`.

### Sessions and the code

A session is one successful sign-in with the refresh tokens that descend from it; the code has
no such record, only rows of RefreshToken. A deleted row stays in the model, marked `exchanged`
(by a refresh) or `revoked` (by a password change), to tell who deleted it; no action reads
that mark where the code would find no row. Two histories are about reset links: `applied`, the
links that a password was set with, and `contested`, the links that two resets used at once or whose
reset was lost between the write of the password and the mark. A refresh is a find (`Refresh`), a delete that throws if
the row is gone (`DeleteToken`) and an issue (`IssueToken`). A reset is `ResetPassword` (the
link is valid, then bcrypt), `SetPassword`, `MarkUsed` (which throws if a new link has replaced
the row meanwhile) and `DeleteTokens`; a change of password skips `MarkUsed`. The
backend has no operation by which a user ends one session.

### EmailOtp and the code

`account` is what the handlers read of User, `challenge` the table in the order of `createdAt`.
A code is a value of a small set, so that two codes may be equal. `guesses`, `accepts` and `seen`
of a row are not columns: they count wrong and right answers, and how many rows there
were when the row's send invalidated the others. A send is `InvalidateActiveChallenges` and
`CreateChallenge`; a verification finds a row and compares (`VerifyOtp`), then increments
(`IncrementAttempts`) or consumes (`ConsumeChallenge`), then may set the verified flag and goes on
to the issue. That the requester of a sign-in code passed the password check is `HoldsMfaToken`.

### SecondFactor and the code

Each settings request reads, may refuse, and then writes in a fixed order; `Steps` gives that
order and `todo` what is left of it. `totp` has the secret and the enabled flag, and `proved`,
which is not a column: whether the user has shown a code of that secret. `batch` has the backup
codes by `batchId`, with the number of sign-ins each was accepted for and, not a column either,
`seen`: how many batches there had been when the batch's request deleted the older ones. A sign-in with a backup code
lists the unused codes, compares them one by one in any order, and marks the one that fits with
a conditional update; if another sign-in was faster it goes on with the next (`MarkBackupCodeUsed`).
`overlapped` are the users who had two settings requests under way at once.

### Passkeys and the code

`challenge` is the table in the order of `createdAt`; a deleted or expired row stays, marked, and
`kept` tells that deleting it failed once (`.catch(() => undefined)`). `credential` has at most one
row per credential id, because the column is unique; rows are numbered so that the handler's
`stored.id` can be told from the id of a row registered later. Registration and sign-in run the
same way: options delete the older challenges and create one (`DeleteOldChallenges`,
`CreateChallenge`); a verification finds the latest challenge (`Verify`), a sign-in finds the
passkey (`FindCredential`), the library checks the response, and then the challenge is deleted
(`DeleteChallenge`) before the row is inserted, or the counter written and the tokens issued.
`Attest` and `Sign` are the authenticator: it creates a credential once, and one that counts
(`Counting`) puts a higher counter in each signature. `made`, `accepted` and `repeated` are not in
the database: they are the responses there are, and which of them were granted tokens, once or
again; `contested` are those that two sign-ins were verifying at once. `overlapped` are the users who had
two passkey requests under way at once.

### Accounts and the code

An account is known by its email, which is unique and which nothing changes; `account` has the
other columns that handlers decide on. A Google token is a subject and an address of
`Identities`; an address may be vouched for with two subjects, one after the other, when its owner
changes. `SignInWithGoogle` ends at the first await that follows `findUserByGoogleSub`, and goes on
with `FindByEmail`, `LinkGoogleAccount` or `CreateOAuthUser`, and after a unique violation with
`FindRaced`. `PatchProfile`, `FindExisting` and `UpdateProfile` are the change of a number,
`VerifyPhone`, `CheckReply` (Twilio's answer) and `SetPhoneVerified` its verification. Three
histories: `granted`, which subject got tokens of which account; `displaced`, subjects whose link
another subject's overwrote; `proved`, the number of the last code Twilio approved for an account.
`overlapped` are accounts that had two profile or phone requests under way at once. `Profiles`
bounds the accounts whose owners send such requests: they write one row by its id, so that one
account's owner is enough to meet all the other handlers.

## Runs

| Run | Instance | Shows |
|---|---|---|
| `BureauRace` | three overlapping requests of one user, one connection, two keys, one database fault, one restart | `TypeOK`, `PriorStepsStored`, `JobRowExists`, `ScoreBacked`, `FailureExplained`, `RegisteredOnce`, `LedgerSpec` |
| `BureauLive` | one client that waits for each answer and goes on, two faults, two restarts, two keys | `WizardSpec`, `CompleteReplies`, `RequestsAnswered`, `ProcessingSettles`, `WizardFinishes` |
| `ExperianOAuth` | two callers, two promises, two refresh tokens, skew 3, time-out 1, lifetimes below and above the skew, three faults | `TypeOK`, `OneGrant`, `TokenOutlivesCall`, `FailedNotRetried`, `CallersServed` |
| `Sessions` | two users' sessions, three tokens, a link, three overlapping requests, one fault | `TypeOK`, `RevokedStayDead`, `ChainSpec`, `KeptUnlessRevoked`, `LinkSetsOnce` |
| `EmailOtp` | a user, two overlapping requests, two code values, one attempt, three sends, one fault | `TypeOK`, `GuessesBounded`, `AcceptsBounded`, `CodesReplaced`, `VerifiedFirst` |
| `SecondFactor` | a user, three overlapping requests, two secrets, three batches of one of two codes, one fault | `TypeOK`, `UsedOnce`, `CodesNeedTotp`, `BatchesReplaced`, `EnabledProved` |
| `Passkeys` | a user, two overlapping requests, two passkeys of which one counts, three challenges, one signature each, two rows, one fault | `TypeOK`, `ChallengesReplaced`, `RemovedForGood`, `ResponseOnce` |
| `Accounts` | two addresses, one of them reassigned between two Google subjects, two numbers, two overlapping requests, two faults | `TypeOK`, `OneAccountPerSubject`, `PhoneProved`, `ConflictsReal` |
| `SessionsRevoked` | violated: `PasswordRevokes` | a refresh between its delete and its issue outlives a password change |
| `BureauTwoStarts` | violated: `OneInProgress` | two starts overlap and both create a connection, where openapi.yaml:729 promises a 409 |
| `BureauReopened` | violated: `StaysSettled` | a step overtaken after its state check re-opens a settled connection |
| `BureauStranded` | violated: `CanBeFinished` | a restart after the consent record leaves a connection that can be neither finished nor abandoned |

Why the bounds are enough to be interesting: three slots on one connection let one request
load, a second overtake it and a third observe or overtake both; a wizard has at most one
registration and one token, so a second connection adds nothing to a race on one (it does to
the start, which looks at all of a user's connections: `BureauTwoStarts` has two, and the theorem
`ImplementsWizard` any number of users and connections). One fault and one restart
at any await reach every half-done write; two of each in `BureauLive` let the recovery fail
as well. Slots, keys, promises and refresh tokens are interchangeable; symmetry is used in
`BureauRace`, which checks no liveness. Lifetimes of 2 and 4 ticks against a skew of 3 cover
a token that is never served from the cache and one that is.

`Sessions`: three requests are a refresh, a second refresh or sign-in, and a password change that
overtakes both; three tokens let a session rotate while the other user's lives. The third token
is also the one a fork would take. One link is enough for two resets with it; that a `forgotPassword` deletes and
replaces a link while a reset uses it needs two, which takes TLC too long with three tokens: for `LinkSetsOnce`
that case is left to the theorem `LinkSetsOncePerLink`, for any links. `SessionsRevoked`, with two requests,
has two links. `EmailOtp`: with
one attempt allowed the limit is reached at once, and two verifications that overlap can exceed
it; two overlapping sends leave two active codes for a third to replace. The instance stops when
the three sends are used up and have expired, hence `CHECK_DEADLOCK FALSE`. `SecondFactor`: a third
request is a sign-in or the write that falls between two of another. Three batches are the least
for two that overlapping requests left together and one that replaces both; with two codes to draw
from, two of the three share a code. All sets are symmetric but the users of `Sessions`.

`Passkeys`: the third challenge is the one after two that overlapped, or the sign-in after a
registration, its removal and its response sent in again; one counter value above zero is enough
for a stale one to be equal. `Accounts`: two subjects and two addresses, one of which both
subjects hold in turn, with two requests reach every pair of handlers between any two awaits, and
so every unique violation. Both instances are checked with overlapping requests throughout; what
`overlapped` excuses is only what the properties say of such users.

`CodesNeedTotp` and `EnabledProved` are claimed only for users outside `overlapped`. They say what
sequences of requests, failures and restarts keep, and nothing about requests that overlap, where
without the premise TLC finds both violated. A setup's upsert
that falls between a verification's check and its write has a secret enabled of which no code
was ever shown (openapi.yaml:1201 "not enabled until verify"); a disabling overlapping a
regeneration leaves codes without TOTP (openapi.yaml:1273). That the
premise is enough, with failures and restarts between any two writes, is what the run shows.
`BatchesReplaced` has no premise. Two regenerations that overlap, or one and an enrolment, leave
two usable batches (openapi.yaml:1295 "invalidates previous codes"); the property says that the next
batch replaces both of them, and every other batch there was when its request deleted.

The premises of `PhoneProved` and `RemovedForGood` are needed in the same way, and they too leave
the overlapping requests out.
A profile change that falls between Twilio's approval and `setPhoneVerified` leaves a number
verified that no code was sent to, where src/README.md:76 and openapi.yaml:596 say that changing
the number resets `phoneVerified`. `ResponseOnce` excuses as little as the code allows: two
sign-ins that are verifying one passkey response at once are both granted tokens, so the responses in
`contested` are exempt, whoever else overlaps. All other responses sign in once, unless deleting their
challenge failed; then the signature counter still stands in the way, for users outside `overlapped`,
if the authenticator counts and the passkey has not been replaced. `ConflictsReal` exempts the subjects in
`displaced`, who may be refused for the link that replaced theirs. `LinkSetsOnce` excuses contested
links: two resets with one link both pass the check while the first hashes its password, and both
set theirs; nothing documents the contrary. `OneAccountPerSubject` excuses the subjects in `displaced`: two sign-ins for an
address that Google reassigned can overlap so that the second overwrites the first's link, where
openapi.yaml:360 promises the conflict (409).

`SessionsRevoked` is about a `refresh` of auth.service.ts that has deleted its token and awaits the
read of the user or the issue while `deleteRefreshTokensForUser` runs: its new token is stored
after the revocation, and the session survives the new password. `KeptUnlessRevoked` and
`RevokedStayDead` say what does hold: a token that was there when the revocation ran is dead for good.

Fairness: `ServerFairness` says that a suspended request goes on, which node's event loop, the
database driver and `AbortSignal.timeout` give. `ClientFairness` is not the server's: it is
the client the property is about, one that keeps asking for the next step and polling.
It is strong because a client's step is enabled only while the server is not busy with its last
request. `Fairness` of the token cache is the same for fetches, plus a caller that asks again.
`BureauStranded` is checked under the same fairness, so what it shows is not a client that
stopped.

## Proofs

- `BureauConnectionProofs`. `TypeInv` adds to `TypeOK` that a slot past a handler's first await
  has a connection. `SafetyInv` is `RowInv` (what every state of a row implies about its columns
  and the other tables), `LocalInv` (what a slot at each await may rely on: for instance that a
  slot about to mark the job COMPLETE has a score on record) and `OneSender` (at most one
  slot of a connection between the consent record and the registration, and none once it is
  registered). The conjuncts alone are not inductive: that a row in PROCESSING has a token, for
  example, needs that the rows never lose one, and that a consent is sent once needs to know
  which slots hold a recorded consent that is not sent yet. From these: `TypeCorrect`,
  `StepsStored`, `JobRowsExist`, `CompleteHasScore`, `FailureHasCode`, `IdentitySentOnce`, the
  refinement `ImplementsLedger`, and `ConsentFirst` (whatever Experian knows of, is past its consent or
  has a score has its consent on record). `InProgressBounded` says by how much overlapping starts can
  exceed the documented one connection: never by more than a user's overlapping requests.
  `ProgressInv` counts, for each user, the connections in progress, those that a suspended step can
  still re-open and the slots about to create one: together they are no more than the user's slots,
  because a slot comes to create only while the user has no connection in progress.
- `BureauSerialProofs`. Under `Serial` (no two slots of one user), `SerialInv` says that while a
  handler is suspended the row it works on still has the state the handler saw. From it
  `ImplementsWizard`: the wizard implements `BureauWizard`. `CompleteInv` adds that the job of a
  complete connection is complete, and what a handler on its way to the two writes and to the reply
  knows; from it `RepliesComplete`. `OneAtATime` and `SettledForGood` are the two documented promises
  that `BureauTwoStarts` and `BureauReopened` show broken without `Serial`: for clients that wait for
  each answer they hold, whatever fails. `StrandedForGood` is about the state that `BureauStranded` reaches:
  a consent on record, AWAITING_CONSENT and nobody going on is never left again, whatever the client
  does. Its liveness theorems are described below.
- `ExperianOAuthProofs`. `TypeCorrect`, `SingleFlight`, `FailedRefreshDropped`, and
  `CachedTokenValid`, which assumes `SkewCoversTimeouts` (twice the HTTP time-out is at most the
  refresh skew: 60 s and 90 s by default, but `config/env.ts` lets a deployment set a longer
  time-out). `TimeInv` bounds by how much the cache may overestimate a token's life, by the
  time a fetch took, and how much of the skew a call has used up. `EveryCallerServed`, see below.
- `SessionsProofs`. `ChainInv`: a session has at most one stored token or one slot about to issue
  the next, never both, and a session with a revoked token has neither. It is inductive because a
  slot issues only after its own delete found the row, so the token left when the slot came. From
  it `RevokedForGood`, `OnlyRevocationEnds` and the refinement `ImplementsChain` (whose `Close`
  takes the sessions that a failure, a revocation or a restart ends, possibly several).
  `NeverForks` and `DeadForGood` read off what the chain means: one token at most, a spent one is never
  stored again, and a session that lost its token stays dead. About the violated `PasswordRevokes`:
  `OnlyIssuingSurvives` shows that the sessions that outlive a password change are only those whose next
  token was about to be issued at that moment, so the gap `SessionsRevoked` falls into is the only one;
  `RevokesWhenAlone` that the documented promise holds for a user whose requests do not overlap, unless
  something fails, and whatever other users do. The hypothesis `Alone(u)` is about one user only.
  `LinkSetsOncePerLink` from `LinkInv`: an uncontested link is used by one slot at a time, and once a
  password was set with it, it is no longer valid or that slot is about to mark it.
- `EmailOtpProofs`. `TokensNeedVerified` from `VerifyInv` (a slot about to issue, or past the
  flag it read, has a verified user; a verified user stays so). `NewestReplaces` from `ReplaceInv`:
  the rows a send saw when it invalidated stay consumed, before and after its own row exists.
  `AttemptsBounded` and `UsesBounded` from `CountInv`, which counts: a row's wrong guesses
  and the slots about to add one together stay below the limit plus the number of slots, because
  a slot may join only while the row's counter is below the limit, and likewise for uses.
  `ExactWhenAlone`: for a user whose requests do not overlap the limits are exact, after any failures
  and whatever other users do: `OTP_MAX_ATTEMPTS` (`constants/index.ts:16`) wrong guesses on a code, one
  use, one active code of each purpose. `ExactInv` says that only a code that is active and was
  never accepted can be found, so that the one slot that found it is the only one to spend it.
- `SecondFactorProofs`. `CodesSpentOnce`: a code of a batch that was used is no longer unused, an
  invariant that the conditional update alone keeps, however stale the list of a sign-in.
  `OlderBatchesReplaced`, whatever overlaps, from `ReplacedInv`: the batches that were there when a request
  deleted its user's codes stay without codes, before and after its own batch exists.
  `NoStrayCodes`, `NewBatchReplaces` (at most one batch is valid) and `SecretProved` from `SerialInv`: a user outside
  `overlapped` has at most one settings request under way, and what it has read still
  holds: before `create` the user has no codes and TOTP is enabled, before `mark` the secret is the
  one whose code was shown, before `drop` the codes are gone.
- `PasskeysProofs`. `Replaced` from `ReplaceInv`: what a request saw when it deleted the older
  challenges stays deleted, before and after its own row exists. `MadeInv` says whose passkey is
  whose: a credential is created once, for one user, and only rows of that user ever hold it.
  `AcceptedOnce` rests on `OnceInv`, whatever overlaps: on a response that is not contested, and whose
  challenge no deletion failed to delete, one slot at most is at work; when that slot comes to the counter and
  the tokens the challenge is gone, and once they are granted no slot is at work on it any more.
  `StaysRemoved`, and what `AcceptedOnce` says of the failed deletion, come from `SerialInv`, for users
  outside `overlapped`: a response that
  was granted tokens has a challenge that is deleted, or that a deletion failed to delete, and in
  that case the stored counter has reached its own (`Behind`), so that the library refuses it until
  the passkey is replaced; the slot between the find and the issue knows which of these it relies on.
- `AccountsProofs`. `OneAccount` from `LinkInv`: whoever was granted tokens by Google is still linked
  to that account, unless displaced, and a subject is linked to one account only. `ConflictsAreReal`
  from what each lookup knows of the row that the unique violation was about. `LinkStays`: while the
  sign-ins for an address follow one another, no link of its account is overwritten, whatever the
  other requests do; `NobodyDisplaced` concludes that then `displaced` is empty and `OneAccountPerSubject`
  holds without exception. Its invariant `FreshLink` is that a slot about to link has found an account
  that still has no link. `PhoneIsProved`: outside
  `overlapped`, a slot between Twilio's approval and `setPhoneVerified` holds the number stored.

The proofs assume only the named ASSUMEs of the modules (`BureauAssumption`, `MockAssumption`,
`OAuthAssumption`, `SessionsAssumption`, `OtpAssumption`, `SecondFactorAssumption`,
`PasskeysAssumption`, `AccountsAssumption`), and the hypotheses that the theorems state. Fault and restart bounds are
arbitrary naturals there, the sets arbitrary.

### Liveness

The four liveness properties are theorems too, but not of `FairSpec`: the prover knows nothing of
ENABLED, on which WF and SF rest. Each theorem assumes instead what the fairness formula amounts to,
with the guard of the action written out where the formula has ENABLED:

| Premise | Says | Stands for |
|---|---|---|
| `Served(r)` | slot r is idle, or served, infinitely often | WF of `Serve(r)` |
| `Polls(r, c)` | the client polls infinitely often if it infinitely often may | SF of `GetConnectionStatus(r, c)` |
| `Submits(r, c)` | the same for the request the connection waits for | SF of the four `Submit...(r, c)` |
| `Elapses(c)` | the debounce is over infinitely often | WF of `DebounceExpires(c)` |
| `FailuresEnd` | from some moment on nothing fails | `MaxFaults` and `MaxRestarts` |
| `KeepsAsking(c)`, `Resumes(c)`, `Answers(p)` | the caller asks and goes on, the grant ends | WF of the actions of c and of p, given a promise for each caller |
| `Quiet`, in the end | from some moment on nothing fails | `MaxFaults` of the cache |

That the written guards coincide with ENABLED, and that `FairSpec` implies the premises, TLC found true on
the instances of `BureauLive` and `ExperianOAuth`. `FailuresEnd` and `<>Quiet` follow from the
bounded counters, but only by an induction that the prover cannot do.

- `Answered` (`RequestsAnswered`), for any overlap: `Left` gives each await the number of stretches
  that may still come, and every stretch, failure and catch lowers it.
- `PollingSettles` (`ProcessingSettles`), for clients that wait for each answer: a poll that falls
  outside the debounce takes the connection to COMPLETE or FAILED, unless a failure cuts it short.
- `FinishesOrStuck`: such a client, if it also sends the request that is due, sees every connection
  settle after whatever crashes, key changes and database failures, but for two dead ends: `Stranded`
  (the consent is on record and nobody goes on with it; `StrandedForGood` shows it to be final) and
  `Unreadable` (the next step needs PII that the current key does not decrypt). So the finding of
  `BureauStranded` has no third companion.
- `GoingOnFinishes` (`WizardFinishes`): without failures neither dead end is met, by `OpenInv`.
- `EveryCallerServed` (`CallersServed`): a waiting caller joins, or starts, a grant that ends; a
  rejected promise sends it back to ask again, and it finds neither that promise nor a refresh token
  that failed.

Only model-checked, then: that the fairness formulas imply those premises. Every property of a passing
run is the conclusion of a theorem.

## What is left

- A token that Experian revokes before its stated expiry (`connectApi.client.ts:62`): the code
  has no reaction to the 401, and no document says what should happen, so no property is stated.
- The text messages that a profile change and a resend send: the model has only their codes'
  approval, and not how often they are sent.
- Preferences, if they ever get a second writer: today one transaction writes them.

## Not modelled

Preferences (one transaction over a fixed catalog), rate limiters (a library's counters),
middleware, validation and formatting (stateless), email delivery (returns or throws, which the
callers' models include), avatar upload, health check, configuration. Of Experian: that it may
revoke an access token before its stated expiry (the code has no reaction to that).
