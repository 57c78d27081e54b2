--------------------------------- MODULE Arming ---------------------------------
(***************************************************************************)
(* Arming one "pending" subscription (armPendingForConversation in         *)
(* src/catalog/wake.ts) while its delivery (WakeDelivery) may already be   *)
(* under way: provider.arm makes the subscription known to a watcher       *)
(* before it returns or throws, and updateSubscription is a read of the    *)
(* record followed by a separate write.                                    *)
(*                                                                         *)
(* A member of Turn is one turn.completed handler of the one eve process,  *)
(* whose module-level set armClaimed is a single flag here.                *)
(***************************************************************************)
EXTENDS WakeDelivery

CONSTANT Turn  \* turn.completed handlers of the conversation

VARIABLES
  turn,      \* where each handler is
  seen,      \* the record a handler read last
  claimed,   \* the subscription is in armClaimed
  watched,   \* a watcher in the eve process knows the subscription
  timer,     \* its expiry timer is set
  arms       \* calls of provider.arm, over all restarts

arming == <<turn, seen, claimed, watched, timer, arms>>
allVars == <<vars, arming>>

Pending == [Armed EXCEPT !.status = "pending"]
Delivered == {"delivering", "fired", "expired"}  \* shouldSkipArmFailure
Catching == {"readStatus", "readLease", "readToFail", "writeFailed"}
Trying == {"readToArm", "writeArmed", "arm", "afterArm"}
Past == Trying \cup Catching             \* past the claim
Place == {"idle", "listed"} \cup Past

ArmingTypeOK ==
  /\ sub \in Record \cup {Pending}
  /\ turn \in [Turn -> Place]
  /\ seen \in [Turn -> Record \cup {Pending}]
  /\ claimed \in BOOLEAN /\ watched \in BOOLEAN /\ timer \in BOOLEAN
  /\ arms \in Nat

ArmingInit ==
  /\ StartsAs(Pending)
  /\ turn = [t \in Turn |-> "idle"]
  /\ seen = [t \in Turn |-> Pending]
  /\ claimed = FALSE /\ watched = FALSE /\ timer = FALSE /\ arms = 0

-----------------------------------------------------------------------------
(* armPendingForConversation, the part in its try block *)

Advance(t, from, to) == turn[t] = from /\ turn' = [turn EXCEPT ![t] = to]

(* Mutant: every subscription of the conversation is listed. *)
List_AnyStatus(t) ==
  /\ Advance(t, "idle", "listed")
  /\ UNCHANGED <<vars, seen, claimed, watched, timer, arms>>

(* listSubscriptionsByStatus returns it among the pending ones. *)
List(t) ==
  /\ sub.status = "pending"
  /\ Advance(t, "idle", "listed")
  /\ UNCHANGED <<vars, seen, claimed, watched, timer, arms>>

(* Mutant: nothing remembers which subscriptions are being armed. *)
ClaimArm_Always(t) ==
  /\ Advance(t, "listed", "readToArm")
  /\ UNCHANGED <<vars, seen, claimed, watched, timer, arms>>

(* The claim is checked and set before the first await. *)
ClaimArm(t) ==
  /\ Advance(t, "listed", IF claimed THEN "idle" ELSE "readToArm")
  /\ claimed' = TRUE
  /\ UNCHANGED <<vars, seen, watched, timer, arms>>

ReadRecord(t, from, to) ==
  /\ Advance(t, from, to)
  /\ seen' = [seen EXCEPT ![t] = sub]
  /\ UNCHANGED <<vars, claimed, watched, timer, arms>>

WriteStatus(t, from, status, to) ==
  /\ Advance(t, from, to)
  /\ sub' = [seen[t] EXCEPT !.status = status]
  /\ UNCHANGED <<lease, marker, known, caller, route, reply, history, faults,
                 seen, claimed, watched, timer, arms>>

ReadToArm(t) == ReadRecord(t, "readToArm", "writeArmed")
WriteArmed(t) == WriteStatus(t, "writeArmed", "armed", "arm")

(* The provider registers the subscription, then awaits its own requests. *)
ProviderArm(t) ==
  /\ Advance(t, "arm", "afterArm")
  /\ watched' = TRUE
  /\ arms' = arms + 1
  /\ UNCHANGED <<vars, seen, claimed, timer>>

ArmReturns(t) ==
  /\ Advance(t, "afterArm", "idle")
  /\ timer' = TRUE
  /\ UNCHANGED <<vars, seen, claimed, watched, arms>>

-----------------------------------------------------------------------------
(* Its catch block *)

(* The provider takes its registration back before it rethrows. *)
ArmThrows(t) ==
  /\ turn[t] \in Trying /\ Fault
  /\ turn' = [turn EXCEPT ![t] = "readStatus"]
  /\ watched' = FALSE
  /\ UNCHANGED <<store, known, caller, route, reply, history,
                 seen, claimed, timer, arms>>

ReadStatus(t) == ReadRecord(t, "readStatus", "readLease")

(* isDeliveryLeaseHeld, then shouldSkipArmFailure on what was read. *)
ReadLease(t) ==
  /\ Advance(t, "readLease",
             IF lease # None \/ seen[t].status \in Delivered THEN "idle" ELSE "readToFail")
  /\ UNCHANGED <<vars, seen, claimed, watched, timer, arms>>

ReadToFail(t) == ReadRecord(t, "readToFail", "writeFailed")

(* Mutant: an arm failure has a status of its own. *)
WriteFailed_ArmFailed(t) == WriteStatus(t, "writeFailed", "arm-failed", "idle")

WriteFailed(t) == WriteStatus(t, "writeFailed", "failed", "idle")

(* An error in the catch block leaves the loop; the claim stays. *)
CatchThrows(t) ==
  /\ turn[t] \in Catching /\ Fault
  /\ turn' = [turn EXCEPT ![t] = "idle"]
  /\ UNCHANGED <<store, known, caller, route, reply, history,
                 seen, claimed, watched, timer, arms>>

(* The eve process starts afresh; what it was running crashed one by one.  *)
Restart ==
  /\ Fault
  /\ \A c \in Call : route[c] = "idle" /\ (c \in EveCall => pc[c] = "idle")
  /\ turn' = [t \in Turn |-> "idle"]
  /\ claimed' = FALSE /\ watched' = FALSE /\ timer' = FALSE
  /\ UNCHANGED <<store, known, caller, route, reply, history, seen, arms>>

-----------------------------------------------------------------------------
(* Only a watcher that knows the subscription starts delivering it; the     *)
(* connector's sessions and sweeps list the registry's armed subscriptions. *)
Delivery(c) ==
  /\ \/ Fire(c) /\ watched /\ c \in EveCall
     \/ Fire(c) /\ sub.status = "armed" /\ c \in ConnectorCall
     \/ ExpireTimer(c) /\ timer
     \/ ExpirySweep(c) /\ sub.status = "armed"
     \/ RecoverySweep(c) \/ CallerSteps(c) \/ RouteSteps(c) \/ Failures(c)
  /\ UNCHANGED arming

ArmingSteps(t) ==
  \/ List(t) \/ ClaimArm(t) \/ ReadToArm(t) \/ WriteArmed(t) \/ ProviderArm(t)
  \/ ArmReturns(t) \/ ArmThrows(t) \/ ReadStatus(t) \/ ReadLease(t)
  \/ ReadToFail(t) \/ WriteFailed(t) \/ CatchThrows(t)

ArmingNext ==
  \/ \E t \in Turn : ArmingSteps(t)
  \/ \E c \in Call : Delivery(c)
  \/ Expiries /\ UNCHANGED arming
  \/ Restart

ArmingSpec == ArmingInit /\ [][ArmingNext]_allVars

-----------------------------------------------------------------------------
(* Properties *)

(* "provider.arm is still only ever called once per subscription id"        *)
(* (armPendingForConversation), whatever handlers list it concurrently,     *)
(* whatever fails and however often the process restarts in between.        *)
ArmedOnce == arms <= 1

(* The handler's read and separate write of the record never take a         *)
(* subscription whose delivery began, or that failed, back to "armed".      *)
NeverRearmed ==
  [][sub.status \in Delivered \cup {"failed"} =>
       sub'.status \notin {"pending", "armed"}]_allVars

(* "armPendingForConversation's catch must leave it alone"                  *)
(* (shouldSkipArmFailure): a failing arm never writes "failed" over a       *)
(* subscription that is being delivered or was delivered.                   *)
ArmFailureLeavesDeliveryAlone ==
  [][\A t \in Turn : WriteFailed(t) => sub.status \notin Delivered]_allVars

-----------------------------------------------------------------------------
(* The inductive invariant behind ArmedOnce *)

(* What the writes that take a record as it is rely on. *)
Shaped(record) == /\ DOMAIN record = {"status", "deliverReason", "firedAt"}
                  /\ record.deliverReason \in Reason \cup {"none"}
RecordsShaped ==
  /\ Shaped(sub) /\ \A t \in Turn : Shaped(seen[t])
  /\ reason \in [Call -> Reason \cup {"none"}]

(* One handler at a time is past the claim. *)
OneArmer ==
  /\ \A t \in Turn : turn[t] \in Past => claimed
  /\ \A t, u \in Turn : turn[t] \in Past /\ turn[u] \in Past => t = u

(* As long as the record is pending, or a handler may still be the first,   *)
(* provider.arm has not been called; who is about to call it has written    *)
(* the record.                                                              *)
NotYetArmed ==
  /\ sub.status = "pending" => arms = 0
  /\ \A t \in Turn : /\ turn[t] = "listed" /\ ~ claimed => arms = 0
                     /\ turn[t] \in {"readToArm", "writeArmed", "arm"} => arms = 0
                     /\ turn[t] = "arm" => sub.status # "pending"

(* The part of the invariant that ArmedOnce needs.                          *)
ArmInv ==
  /\ turn \in [Turn -> Place]
  /\ DOMAIN seen = Turn /\ claimed \in BOOLEAN /\ arms \in Nat
  /\ RecordsShaped /\ OneArmer /\ NotYetArmed /\ ArmedOnce

-----------------------------------------------------------------------------
(* The inductive invariant behind ArmingTypeOK and NeverRearmed *)

(* Nobody delivers a subscription whose record is still pending: no watcher *)
(* knows it and no timer is set, and from then on the record and the        *)
(* attempts are as typed as in WakeDelivery.                                *)
PendingIsUntouched ==
  IF sub.status = "pending"
    THEN sub = Pending /\ AtRest /\ ~ watched /\ ~ timer
    ELSE TypeOK /\ ReasonsHeld

(* Between listing a subscription and writing it "armed", the first handler *)
(* has it to itself.                                                        *)
FirstHandler ==
  \A t \in Turn :
    /\ turn[t] = "listed" /\ ~ claimed => sub.status = "pending"
    /\ turn[t] \in {"readToArm", "writeArmed"} => sub.status = "pending"
    /\ turn[t] = "writeArmed" => seen[t] = Pending
    /\ turn[t] \in {"arm", "afterArm"} => sub.status # "pending"

ArmingIInv ==
  /\ ArmInv /\ ArmingTypeOK /\ faults \in 0..MaxFaults
  /\ PendingIsUntouched /\ FirstHandler
================================================================================
