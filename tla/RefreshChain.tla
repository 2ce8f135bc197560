----------------------------- MODULE RefreshChain -----------------------------
(***************************************************************************)
(* What rotating refresh tokens promise: a session is a chain of tokens,   *)
(* each handed out once and exchanged at most once for the next.  A        *)
(* session holds one token, or is being issued one, or is closed for good; *)
(* it never forks into two.                                                *)
(***************************************************************************)
CONSTANTS Sessions, Tokens, NoSession

VARIABLES
  phase,    \* per session: new, issuing, open or closed
  holder,   \* the session a token can be exchanged by, or NoSession
  spent     \* tokens that were exchanged or revoked

chain == <<phase, holder, spent>>

Init ==
  /\ phase = [s \in Sessions |-> "new"]
  /\ holder = [t \in Tokens |-> NoSession]
  /\ spent = {}

SignIn(s) ==
  /\ phase[s] = "new"
  /\ phase' = [phase EXCEPT ![s] = "issuing"]
  /\ UNCHANGED <<holder, spent>>

Issue(s, t) ==
  /\ phase[s] = "issuing" /\ holder[t] = NoSession /\ t \notin spent
  /\ phase' = [phase EXCEPT ![s] = "open"]
  /\ holder' = [holder EXCEPT ![t] = s]
  /\ UNCHANGED spent

Exchange(s, t) ==
  /\ phase[s] = "open" /\ holder[t] = s
  /\ phase' = [phase EXCEPT ![s] = "issuing"]
  /\ holder' = [holder EXCEPT ![t] = NoSession]
  /\ spent' = spent \cup {t}

\* Sessions end: all of a user's at once when they are revoked, or those whose next token
\* is lost on the way.
Close(S) ==
  /\ \A s \in S : phase[s] \in {"issuing", "open"}
  /\ phase' = [s \in Sessions |-> IF s \in S THEN "closed" ELSE phase[s]]
  /\ holder' = [t \in Tokens |-> IF holder[t] \in S THEN NoSession ELSE holder[t]]
  /\ spent' = spent \cup {t \in Tokens : holder[t] \in S}

Next ==
  \/ \E s \in Sessions :
       \/ SignIn(s)
       \/ \E t \in Tokens : Issue(s, t) \/ Exchange(s, t)
  \/ \E S \in SUBSET Sessions : Close(S)

Spec == Init /\ [][Next]_chain
===============================================================================
