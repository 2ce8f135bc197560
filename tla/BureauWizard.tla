----------------------------- MODULE BureauWizard -----------------------------
(***************************************************************************)
(* The wizard as its API documents it: a user has at most one connection   *)
(* in progress, each connection moves forward through the wizard's stages  *)
(* one step at a time, and a complete or failed connection stays as it is. *)
(***************************************************************************)
CONSTANTS Conns, Users, NoUser

VARIABLES stage, owner

wizard == <<stage, owner>>

Active == {"AWAITING_IDENTITY", "AWAITING_ADDRESS", "AWAITING_CONSENT",
           "AWAITING_EXPERIAN_KIQ", "PROCESSING"}

\* The stages that may follow each stage.
Steps == [ABSENT                |-> {},
          AWAITING_IDENTITY     |-> {"AWAITING_ADDRESS"},
          AWAITING_ADDRESS      |-> {"AWAITING_CONSENT"},
          AWAITING_CONSENT      |-> {"AWAITING_EXPERIAN_KIQ", "PROCESSING", "FAILED"},
          AWAITING_EXPERIAN_KIQ |-> {"PROCESSING", "FAILED"},
          PROCESSING            |-> {"COMPLETE", "FAILED"},
          COMPLETE              |-> {},
          FAILED                |-> {}]

Init ==
  /\ stage = [c \in Conns |-> "ABSENT"]
  /\ owner = [c \in Conns |-> NoUser]

Begin(u, c) ==
  /\ \A d \in Conns : owner[d] = u => stage[d] \notin Active
  /\ stage[c] = "ABSENT"
  /\ stage' = [stage EXCEPT ![c] = "AWAITING_IDENTITY"]
  /\ owner' = [owner EXCEPT ![c] = u]

Step(c, s) ==
  /\ s \in Steps[stage[c]]
  /\ stage' = [stage EXCEPT ![c] = s]
  /\ UNCHANGED owner

Next ==
  \E c \in Conns : \/ \E u \in Users : Begin(u, c)
                   \/ \E s \in Active \cup {"COMPLETE", "FAILED"} : Step(c, s)

Spec == Init /\ [][Next]_wizard
===============================================================================
