---------------------------- MODULE ValidatedConfig ----------------------------
(***************************************************************************)
(* What the API promises of a configuration that has to be validated       *)
(* before it is used (collector, CTI provider, SMTP relay): the outside    *)
(* service accepts the settings as they are at the instant the             *)
(* configuration becomes active, and an edit of the settings withdraws     *)
(* what was accepted.  Here a validation and the record of its outcome are *)
(* one step; in the services they are two.                                 *)
(***************************************************************************)
CONSTANT Settings   \* the values of the fields that are validated together

VARIABLES settings, active, status, accepted

Status == {"not_tested", "success", "failed"}

Init ==
  /\ settings \in Settings
  /\ active = FALSE
  /\ status = "not_tested"
  /\ accepted = {}

Edit ==
  /\ settings' \in Settings
  /\ active' = FALSE
  /\ status' = "not_tested"
  /\ UNCHANGED accepted

\* A validation that succeeds; the configuration may become active with it.
Accept ==
  /\ accepted' = accepted \cup {settings}
  /\ status' = "success"
  /\ active' \in {active, TRUE}
  /\ UNCHANGED settings

Refuse ==
  /\ status' = "failed"
  /\ active' \in {active, FALSE}
  /\ UNCHANGED <<settings, accepted>>

Withdraw ==
  /\ active' = FALSE
  /\ status' \in {status, "not_tested"}
  /\ UNCHANGED <<settings, accepted>>

Next == Edit \/ Accept \/ Refuse \/ Withdraw

vars == <<settings, active, status, accepted>>

Spec == Init /\ [][Next]_vars
===============================================================================
