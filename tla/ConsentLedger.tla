---------------------------- MODULE ConsentLedger ----------------------------
(***************************************************************************)
(* What the bureau wizard promises about a consumer's data, whatever the   *)
(* requests, crashes and database errors: nothing about a connection goes  *)
(* to Experian before its consent is on record, the identity goes there at *)
(* most once, and a score is stored only for an identity that was sent.    *)
(* None of the three facts is ever taken back.                             *)
(***************************************************************************)
EXTENDS Naturals

CONSTANT Conns

VARIABLES
  consented,    \* connections whose consent is on record
  registered,   \* per connection, how often its identity went to Experian
  scored        \* connections with a score

ledger == <<consented, registered, scored>>

Init == consented = {} /\ registered = [c \in Conns |-> 0] /\ scored = {}

Consent(c) ==
  /\ c \notin consented
  /\ consented' = consented \cup {c}
  /\ UNCHANGED <<registered, scored>>

Register(c) ==
  /\ c \in consented /\ registered[c] = 0
  /\ registered' = [registered EXCEPT ![c] = @ + 1]
  /\ UNCHANGED <<consented, scored>>

Score(c) ==
  /\ registered[c] = 1
  /\ scored' = scored \cup {c}
  /\ UNCHANGED <<consented, registered>>

Next == \E c \in Conns : Consent(c) \/ Register(c) \/ Score(c)

Spec == Init /\ [][Next]_ledger
==============================================================================
