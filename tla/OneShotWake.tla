------------------------------ MODULE OneShotWake ------------------------------
(***************************************************************************)
(* What the delivery pipeline promises for one armed subscription,         *)
(* whatever the number of processes, crashes and retries underneath        *)
(* (src/catalog/types.ts "Lifecycle", src/catalog/wake.ts deliverWake):    *)
(* it commits once to one reason, and it settles once, with that reason    *)
(* if the agent was woken and as "failed" if it was not.                   *)
(***************************************************************************)
Reason == {"fired", "expired"}

VARIABLES status,   \* the subscription's recorded status
          reason,   \* the recorded deliverReason, "none" unless delivering
          woken     \* whether the conversation's session ever got the wake

vars == <<status, reason, woken>>

TypeOK == /\ status \in {"armed", "delivering", "failed"} \cup Reason
          /\ reason \in Reason \cup {"none"}
          /\ woken \in BOOLEAN

Init == status = "armed" /\ reason = "none" /\ woken = FALSE

(* One caller establishes why the subscription is being delivered. *)
Commit == /\ status = "armed"
          /\ status' = "delivering"
          /\ reason' \in Reason
          /\ UNCHANGED woken

(* The wake reaches the agent, only ever for a committed subscription. *)
Wake == /\ status = "delivering"
        /\ woken' = TRUE
        /\ UNCHANGED <<status, reason>>

(* A woken subscription settles with the reason it committed to. *)
Settle == /\ status = "delivering" /\ woken
          /\ status' = reason
          /\ reason' = "none"
          /\ UNCHANGED woken

(* Only a subscription whose agent was never woken may be given up. *)
GiveUp == /\ status = "delivering" /\ ~woken
          /\ status' = "failed"
          /\ reason' = "none"
          /\ UNCHANGED woken

Next == Commit \/ Wake \/ Settle \/ GiveUp

Spec == Init /\ [][Next]_vars
================================================================================
