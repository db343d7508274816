--------------------------- MODULE WebhookDelivery ---------------------------
(***************************************************************************)
(* What the webhook component promises about one triggered webhook when no *)
(* process stops and the database does not fail: at most Limit HTTP        *)
(* requests, none after one was accepted, and an outcome that is reported  *)
(* once, truthfully and eventually, unless the row is deleted first.       *)
(***************************************************************************)
EXTENDS Naturals

CONSTANTS Triggered,  \* triggered webhooks
          Limit       \* HTTP requests allowed for each

VARIABLES sent,       \* sent[t]: HTTP requests so far
          accepted,   \* accepted[t]: requests the endpoint accepted
          outcome     \* outcome[t]: "none", "pending", "success", "failure", "deleted"

dvars == <<sent, accepted, outcome>>

Init ==
    /\ sent = [t \in Triggered |-> 0]
    /\ accepted = [t \in Triggered |-> 0]
    /\ outcome = [t \in Triggered |-> "none"]

\* A publication triggers some webhooks.
Trigger ==
    /\ \E S \in SUBSET {t \in Triggered : outcome[t] = "none"} :
          outcome' = [t \in Triggered |-> IF t \in S THEN "pending" ELSE outcome[t]]
    /\ UNCHANGED <<sent, accepted>>

\* A job that was already running when the row was deleted may still send.
Attempt(t) ==
    /\ outcome[t] \in {"pending", "deleted"}
    /\ sent[t] < Limit
    /\ accepted[t] = 0
    /\ sent' = [sent EXCEPT ![t] = @ + 1]
    /\ \E a \in {0, 1} : accepted' = [accepted EXCEPT ![t] = a]
    /\ UNCHANGED outcome

Settle(t) ==
    /\ outcome[t] = "pending"
    /\ outcome' = [outcome EXCEPT ![t] =
                      IF accepted[t] = 1 THEN "success" ELSE "failure"]
    /\ UNCHANGED <<sent, accepted>>

Delete ==
    /\ \E S \in SUBSET {t \in Triggered : outcome[t] # "none"} :
          outcome' = [t \in Triggered |-> IF t \in S THEN "deleted" ELSE outcome[t]]
    /\ UNCHANGED <<sent, accepted>>

Next == Trigger \/ Delete \/ \E t \in Triggered : Attempt(t) \/ Settle(t)

Spec == Init /\ [][Next]_dvars

FairSpec == Spec /\ \A t \in Triggered : WF_dvars(Settle(t))
=============================================================================
