--------------------------- MODULE ExperianConnect ---------------------------
(***************************************************************************)
(* The three calls of services/experian/experianConnect.service.ts, as     *)
(* functions from what connectPostForm hands back to what the caller sees. *)
(* A reply of the Connect API is kept only to the fields the service       *)
(* branches on; a request that throws (no access token, time-out, non-2xx, *)
(* non-JSON body) is the reply with delivered = FALSE.                     *)
(***************************************************************************)

CONSTANT ExperianMock  \* env.experianMock

ASSUME MockAssumption == ExperianMock \in BOOLEAN

Replies == [delivered   : BOOLEAN,   \* connectPostForm returned
            success     : BOOLEAN,   \* FALSE is success === false
            value       : BOOLEAN,   \* a consumer token is present
            authSession : BOOLEAN,   \* a KIQ session is present
            score       : BOOLEAN]   \* RiskModel[0].Score parses to a number

\* throwIfConnectReportedFailure, after a call that may itself have thrown.
Accepted(reply) == reply.delivered /\ reply.success

UserResult == [threw : BOOLEAN, needsKiq : BOOLEAN,
               consumerToken : BOOLEAN, authSession : BOOLEAN]

UserThrew ==
  [threw |-> TRUE, needsKiq |-> FALSE, consumerToken |-> FALSE, authSession |-> FALSE]
UserVerified ==
  [threw |-> FALSE, needsKiq |-> FALSE, consumerToken |-> TRUE, authSession |-> FALSE]
UserQuestioned ==
  [threw |-> FALSE, needsKiq |-> TRUE, consumerToken |-> FALSE, authSession |-> TRUE]

SubmitUserResult(reply) ==
  IF ~Accepted(reply) THEN UserThrew
  ELSE IF reply.value THEN UserVerified
  ELSE IF ~reply.authSession THEN UserThrew
  ELSE UserQuestioned

\* What experianConnectSubmitUser can return; mock mode always asks questions.
SubmitUserResults ==
  IF ExperianMock THEN {UserQuestioned} ELSE {SubmitUserResult(p) : p \in Replies}

\* What experianConnectSubmitAnswers can do: TRUE is a consumer token, FALSE a throw.
SubmitAnswersResults ==
  IF ExperianMock THEN {TRUE} ELSE {Accepted(p) /\ p.value : p \in Replies}

\* What experianConnectPullReport can do: TRUE is a score, FALSE a throw.
PullReportResults ==
  IF ExperianMock THEN {TRUE} ELSE {Accepted(p) /\ p.score : p \in Replies}
==============================================================================
