------------------------------ MODULE Arming_proofs ------------------------------
(***************************************************************************)
(* Proofs about Arming for every set of handlers and attempts and every    *)
(* number of faults: provider.arm is called at most once, over all         *)
(* restarts, and the handler's writes never revive a subscription.  What a *)
(* step of the delivery does to its own state is cited from                *)
(* WakeDelivery_proofs.                                                    *)
(***************************************************************************)
EXTENDS Arming, WakeDelivery_proofs

-----------------------------------------------------------------------------
(* The delivery beside the handlers *)

(* What a step of the delivery does to the record and to the reasons: it    *)
(* keeps their shape, and it never writes "pending".                        *)
DeliveryKeeps ==
  /\ Shaped(sub)' /\ reason' \in [Call -> Reason \cup {"none"}]
  /\ sub'.status # "pending" \/ sub' = sub

LEMMA ReturnKeepsReasons ==
  ASSUME reason \in [Call -> Reason \cup {"none"}], NEW c \in Call, Return(c)
  PROVE  reason' \in [Call -> Reason \cup {"none"}]
  BY DEF Return

LEMMA LeaveKeepsReasons ==
  ASSUME reason \in [Call -> Reason \cup {"none"}], NEW c \in Call, Leave(c)
  PROVE  reason' \in [Call -> Reason \cup {"none"}]
  BY ReturnKeepsReasons DEF Leave

LEMMA CasKeeps ==
  ASSUME RecordsShaped, NEW c \in Call, Cas(c)
  PROVE  DeliveryKeeps
  <1>1. reason' = reason /\ reason[c] \in Reason \cup {"none"}
    BY DEF Cas, RecordsShaped
  <1>2. CASE sub' = sub
    BY <1>1, <1>2 DEF DeliveryKeeps, RecordsShaped, Shaped
  <1>3. CASE sub' = [sub EXCEPT !.status = "delivering", !.deliverReason = reason[c]]
    <2>1. /\ DOMAIN sub' = {"status", "deliverReason", "firedAt"}
          /\ sub'.status = "delivering" /\ sub'.deliverReason = reason[c]
      BY <1>3 DEF RecordsShaped, Shaped
    <2> QED
      BY <1>1, <2>1 DEF DeliveryKeeps, RecordsShaped, Shaped
  <1> QED
    BY <1>2, <1>3 DEF Cas

LEMMA WriteTerminalKeeps ==
  ASSUME RecordsShaped, NEW c \in Call, WriteTerminal(c)
  PROVE  DeliveryKeeps
  <1>1. reason' \in [Call -> Reason \cup {"none"}]
    BY LeaveKeepsReasons DEF WriteTerminal, RecordsShaped
  <1>2. /\ DOMAIN sub' = {"status", "deliverReason", "firedAt"}
        /\ sub'.status = Outcome(c) /\ sub'.deliverReason = "none"
    BY DEF WriteTerminal
  <1>3. Outcome(c) # "pending"
    BY DEF Outcome, RecordsShaped, Reason
  <1> QED
    BY <1>1, <1>2, <1>3 DEF DeliveryKeeps, Shaped

LEMMA BeginKeeps ==
  ASSUME RecordsShaped, NEW c \in Call, NEW label,
         NEW r \in Reason \cup {"none"}, Begin(c, label, r)
  PROVE  DeliveryKeeps
  <1>1. sub' = sub /\ reason' = [reason EXCEPT ![c] = r]
    BY DEF Begin, store
  <1>2. reason' \in [Call -> Reason \cup {"none"}]
    BY <1>1 DEF RecordsShaped
  <1> QED
    BY <1>1, <1>2 DEF DeliveryKeeps, RecordsShaped, Shaped

LEMMA TriggersKeep ==
  ASSUME RecordsShaped, NEW c \in Call, Triggers(c)
  PROVE  DeliveryKeeps
  <1>1. CASE Fire(c)
    BY <1>1, BeginKeeps DEF Fire, Reason
  <1>2. CASE ExpireTimer(c)
    BY <1>2, BeginKeeps DEF ExpireTimer, Reason
  <1>3. CASE ExpirySweep(c)
    BY <1>3, BeginKeeps DEF ExpirySweep, Reason
  <1>4. CASE RecoverySweep(c)
    BY <1>4, BeginKeeps DEF RecoverySweep, RecordsShaped, Shaped
  <1> QED
    BY <1>1, <1>2, <1>3, <1>4 DEF Triggers

LEMMA ReturnKeeps ==
  ASSUME RecordsShaped, sub' = sub, NEW c \in Call,
         UNCHANGED reason \/ Return(c) \/ Leave(c)
  PROVE  DeliveryKeeps
  BY ReturnKeepsReasons, LeaveKeepsReasons DEF DeliveryKeeps, RecordsShaped, Shaped

LEMMA CallerKeeps ==
  ASSUME RecordsShaped, NEW c \in Call, CallerSteps(c)
  PROVE  DeliveryKeeps
  <1>1. CASE Cas(c)
    BY <1>1, CasKeeps
  <1>2. CASE WriteTerminal(c)
    BY <1>2, WriteTerminalKeeps
  <1>3. CASE Reread(c)
    <2>1. sub' = sub
      BY <1>3 DEF Reread, store
    <2>2. CASE Return(c)
      BY <2>1, <2>2, ReturnKeeps
    <2>3. CASE reason' = [reason EXCEPT ![c] = sub.deliverReason]
      BY <2>1, <2>3 DEF DeliveryKeeps, RecordsShaped, Shaped
    <2> QED
      BY <1>3, <2>2, <2>3 DEF Reread
  <1>4. CASE SweepChecksLease(c) \/ ReadRaw(c) \/ ReadForUpdate(c)
    BY <1>4, ReturnKeeps DEF SweepChecksLease, ReadRaw, ReadForUpdate, store
  <1>5. CASE AcquireLease(c) \/ ReadMarker(c) \/ ReleaseLease(c)
    BY <1>5, ReturnKeeps DEF AcquireLease, ReadMarker, ReleaseLease, store
  <1>6. CASE Receive(c)
    BY <1>6, ReturnKeeps DEF Receive, store
  <1> QED
    BY <1>1, <1>2, <1>3, <1>4, <1>5, <1>6 DEF CallerSteps

LEMMA RouteKeeps ==
  ASSUME RecordsShaped, NEW c \in Call, RouteSteps(c) \/ RouteFails(c)
  PROVE  DeliveryKeeps
  <1>1. sub' = sub /\ reason' = reason
    BY DEF RouteSteps, RouteLookup, RouteClaim, RouteCollision, RouteSend, RouteClear,
           RouteUpgrade, RouteFails, store, caller
  <1> QED
    BY <1>1, ReturnKeeps

LEMMA DeliveryStep ==
  ASSUME RecordsShaped, NEW c \in Call, Delivery(c)
  PROVE  DeliveryKeeps
  <1>1. CASE Interrupt(c) \/ Crash(c)
    BY <1>1, ReturnKeeps DEF Interrupt, Crash, store
  <1> QED
    BY <1>1, TriggersKeep, CallerKeeps, RouteKeeps DEF Delivery, Triggers, Failures

-----------------------------------------------------------------------------
(* The handlers *)

LEMMA ShapeWritten ==
  ASSUME RecordsShaped, NEW t \in Turn, NEW status, sub' = [seen[t] EXCEPT !.status = status]
  PROVE  Shaped(sub)' /\ sub'.status = status
  <1>1. /\ DOMAIN sub' = {"status", "deliverReason", "firedAt"}
        /\ sub'.status = status /\ sub'.deliverReason = seen[t].deliverReason
    BY DEF RecordsShaped, Shaped
  <1> QED
    BY <1>1 DEF RecordsShaped, Shaped

LEMMA ShapeRead ==
  ASSUME RecordsShaped, DOMAIN seen = Turn, NEW t \in Turn,
         seen' = [seen EXCEPT ![t] = sub], sub' = sub, reason' = reason
  PROVE  RecordsShaped' /\ DOMAIN seen' = Turn
  <1>1. \A u \in Turn : seen'[u] = IF u = t THEN sub ELSE seen[u]
    OBVIOUS
  <1> QED
    BY <1>1 DEF RecordsShaped, Shaped

(* A handler past the claim goes on or leaves.                              *)
LEMMA MoveKeeps ==
  ASSUME ArmInv, NEW t \in Turn, turn[t] \in Past,
         NEW to \in Place \ {"listed"}, turn' = [turn EXCEPT ![t] = to],
         UNCHANGED <<claimed, arms>>, DOMAIN seen' = Turn, RecordsShaped',
         sub'.status = sub.status \/ sub'.status # "pending",
         to \in {"readToArm", "writeArmed", "arm"} => arms = 0,
         to = "arm" => sub'.status # "pending"
  PROVE  ArmInv'
  <1>1. /\ turn' \in [Turn -> Place]
        /\ \A u \in Turn : turn'[u] = IF u = t THEN to ELSE turn[u]
    BY DEF ArmInv
  <1>2. OneArmer'
    BY <1>1 DEF ArmInv, OneArmer
  <1>3. NotYetArmed'
    BY <1>1 DEF ArmInv, NotYetArmed
  <1> QED
    BY <1>1, <1>2, <1>3 DEF ArmInv, ArmedOnce

LEMMA ReadStep ==
  ASSUME ArmInv, NEW t \in Turn, ReadToArm(t) \/ ReadStatus(t) \/ ReadToFail(t)
  PROVE  ArmInv'
  <1> DEFINE to == IF turn[t] = "readToArm" THEN "writeArmed"
                   ELSE IF turn[t] = "readStatus" THEN "readLease" ELSE "writeFailed"
  <1>1. /\ turn[t] \in Past /\ turn' = [turn EXCEPT ![t] = to]
        /\ seen' = [seen EXCEPT ![t] = sub]
        /\ UNCHANGED <<sub, reason, claimed, arms>>
    BY DEF ReadToArm, ReadStatus, ReadToFail, ReadRecord, Advance, Past, Trying, Catching, vars
  <1>2. to \in Place \ {"listed"} /\ to # "arm"
    BY DEF Place, Past, Trying, Catching
  <1>3. to \in {"readToArm", "writeArmed", "arm"} => arms = 0
    BY DEF ArmInv, NotYetArmed
  <1>4. RecordsShaped' /\ DOMAIN seen' = Turn
    BY <1>1, ShapeRead DEF ArmInv
  <1> HIDE DEF to
  <1> QED
    BY <1>1, <1>2, <1>3, <1>4, MoveKeeps

LEMMA WriteStep ==
  ASSUME ArmInv, NEW t \in Turn, WriteArmed(t) \/ WriteFailed(t)
  PROVE  ArmInv'
  <1>1. CASE WriteArmed(t)
    <2>1. /\ turn[t] = "writeArmed" /\ turn' = [turn EXCEPT ![t] = "arm"]
          /\ sub' = [seen[t] EXCEPT !.status = "armed"]
          /\ UNCHANGED <<seen, reason, claimed, arms>>
      BY <1>1 DEF WriteArmed, WriteStatus, Advance, caller
    <2>2. Shaped(sub)' /\ sub'.status = "armed"
      BY <2>1, ShapeWritten DEF ArmInv
    <2>3. RecordsShaped' /\ DOMAIN seen' = Turn
      BY <2>1, <2>2 DEF ArmInv, RecordsShaped, Shaped
    <2>4. turn[t] \in Past /\ "arm" \in Place \ {"listed"} /\ arms = 0
      BY <2>1 DEF ArmInv, NotYetArmed, Place, Past, Trying
    <2> QED
      BY <2>1, <2>2, <2>3, <2>4, MoveKeeps
  <1>2. CASE WriteFailed(t)
    <2>1. /\ turn[t] = "writeFailed" /\ turn' = [turn EXCEPT ![t] = "idle"]
          /\ sub' = [seen[t] EXCEPT !.status = "failed"]
          /\ UNCHANGED <<seen, reason, claimed, arms>>
      BY <1>2 DEF WriteFailed, WriteStatus, Advance, caller
    <2>2. Shaped(sub)' /\ sub'.status = "failed"
      BY <2>1, ShapeWritten DEF ArmInv
    <2>3. RecordsShaped' /\ DOMAIN seen' = Turn
      BY <2>1, <2>2 DEF ArmInv, RecordsShaped, Shaped
    <2>4. turn[t] \in Past /\ "idle" \in Place \ {"listed"}
      BY <2>1 DEF Place, Past, Catching
    <2> QED
      BY <2>1, <2>2, <2>3, <2>4, MoveKeeps
  <1> QED
    BY <1>1, <1>2

(* The steps that leave record and reasons alone.                           *)
LEMMA OtherStep ==
  ASSUME ArmInv, NEW t \in Turn,
         ArmReturns(t) \/ ArmThrows(t) \/ ReadLease(t) \/ CatchThrows(t)
  PROVE  ArmInv'
  <1>1. /\ turn[t] \in Past
        /\ \E to \in {"idle", "readStatus", "readToFail"} : turn' = [turn EXCEPT ![t] = to]
        /\ UNCHANGED <<sub, reason, seen, claimed, arms>>
    BY DEF ArmReturns, ArmThrows, ReadLease, CatchThrows, Advance, Past, Trying, Catching,
           vars, store, caller
  <1>2. PICK to \in {"idle", "readStatus", "readToFail"} : turn' = [turn EXCEPT ![t] = to]
    BY <1>1
  <1>3. to \in Place \ {"listed"} /\ to \notin {"readToArm", "writeArmed", "arm"}
    BY DEF Place, Past, Catching
  <1>4. RecordsShaped' /\ DOMAIN seen' = Turn
    BY <1>1 DEF ArmInv, RecordsShaped, Shaped
  <1> QED
    BY <1>1, <1>2, <1>3, <1>4, MoveKeeps

LEMMA ListStep ==
  ASSUME ArmInv, NEW t \in Turn, List(t)
  PROVE  ArmInv'
  <1>1. /\ turn[t] = "idle" /\ turn' = [turn EXCEPT ![t] = "listed"] /\ arms = 0
        /\ UNCHANGED <<sub, reason, seen, claimed, arms>>
    BY DEF List, Advance, vars, ArmInv, NotYetArmed
  <1>2. /\ turn' \in [Turn -> Place]
        /\ \A u \in Turn : turn'[u] = IF u = t THEN "listed" ELSE turn[u]
    BY <1>1 DEF ArmInv, Place
  <1>3. OneArmer' /\ NotYetArmed'
    BY <1>1, <1>2 DEF ArmInv, OneArmer, NotYetArmed, Past, Trying, Catching
  <1>4. RecordsShaped'
    BY <1>1 DEF ArmInv, RecordsShaped, Shaped
  <1> QED
    BY <1>1, <1>2, <1>3, <1>4 DEF ArmInv, ArmedOnce

(* Only the handler that finds the claim free goes past it.                 *)
LEMMA ClaimArmStep ==
  ASSUME ArmInv, NEW t \in Turn, ClaimArm(t)
  PROVE  ArmInv'
  <1> DEFINE to == IF claimed THEN "idle" ELSE "readToArm"
  <1>1. /\ turn[t] = "listed" /\ turn' = [turn EXCEPT ![t] = to] /\ claimed' = TRUE
        /\ UNCHANGED <<sub, reason, seen, arms>>
    BY DEF ClaimArm, Advance, vars
  <1>2. /\ turn' \in [Turn -> Place]
        /\ \A u \in Turn : turn'[u] = IF u = t THEN to ELSE turn[u]
    BY <1>1 DEF ArmInv, Place, Past, Trying
  <1>3. OneArmer'
    BY <1>1, <1>2 DEF ArmInv, OneArmer, Past, Trying, Catching
  <1>4. NotYetArmed'
    BY <1>1, <1>2 DEF ArmInv, NotYetArmed
  <1>5. RecordsShaped'
    BY <1>1 DEF ArmInv, RecordsShaped, Shaped
  <1> QED
    BY <1>1, <1>2, <1>3, <1>4, <1>5 DEF ArmInv, ArmedOnce

LEMMA ProviderArmStep ==
  ASSUME ArmInv, NEW t \in Turn, ProviderArm(t)
  PROVE  ArmInv'
  <1>1. /\ turn[t] = "arm" /\ turn' = [turn EXCEPT ![t] = "afterArm"]
        /\ arms = 0 /\ arms' = 1 /\ sub.status # "pending" /\ claimed
        /\ UNCHANGED <<sub, reason, seen, claimed>>
    BY DEF ProviderArm, Advance, vars, ArmInv, NotYetArmed, OneArmer, Past, Trying
  <1>2. /\ turn' \in [Turn -> Place]
        /\ \A u \in Turn : turn'[u] = IF u = t THEN "afterArm" ELSE turn[u]
    BY <1>1 DEF ArmInv, Place, Past, Trying
  <1>3. \A u \in Turn \ {t} : turn[u] \notin Past
    BY <1>1 DEF ArmInv, OneArmer, Past, Trying
  <1>4. OneArmer'
    BY <1>1, <1>2, <1>3 DEF OneArmer
  <1>5. NotYetArmed'
    BY <1>1, <1>2, <1>3 DEF NotYetArmed, Past, Trying
  <1>6. RecordsShaped'
    BY <1>1 DEF ArmInv, RecordsShaped, Shaped
  <1> QED
    BY <1>1, <1>2, <1>4, <1>5, <1>6 DEF ArmInv, ArmedOnce

(* A restart forgets the claim, and every handler with it.                  *)
LEMMA RestartStep ==
  ASSUME ArmInv, Restart
  PROVE  ArmInv'
  <1>1. /\ turn' = [t \in Turn |-> "idle"] /\ claimed' = FALSE
        /\ UNCHANGED <<sub, reason, seen, arms>>
    BY DEF Restart, store, caller
  <1>2. turn' \in [Turn -> Place] /\ \A t \in Turn : turn'[t] = "idle"
    BY <1>1 DEF Place
  <1>3. OneArmer' /\ NotYetArmed'
    BY <1>1, <1>2 DEF ArmInv, OneArmer, NotYetArmed, Past, Trying, Catching
  <1>4. RecordsShaped'
    BY <1>1 DEF ArmInv, RecordsShaped, Shaped
  <1> QED
    BY <1>1, <1>2, <1>3, <1>4 DEF ArmInv, ArmedOnce

LEMMA BesideStep ==
  ASSUME ArmInv, UNCHANGED arming, DeliveryKeeps
  PROVE  ArmInv'
  <1>1. UNCHANGED <<turn, seen, claimed, arms>>
    BY DEF arming
  <1>2. RecordsShaped'
    BY <1>1 DEF ArmInv, DeliveryKeeps, RecordsShaped, Shaped
  <1>3. NotYetArmed'
    BY <1>1 DEF ArmInv, DeliveryKeeps, NotYetArmed
  <1>4. OneArmer'
    BY <1>1 DEF ArmInv, OneArmer
  <1> QED
    BY <1>1, <1>2, <1>3, <1>4 DEF ArmInv, ArmedOnce

LEMMA ArmingStep == ArmInv /\ [ArmingNext]_allVars => ArmInv'
  <1> SUFFICES ASSUME ArmInv, [ArmingNext]_allVars PROVE ArmInv'
    OBVIOUS
  <1>1. ASSUME NEW t \in Turn, ArmingSteps(t)
        PROVE  ArmInv'
    BY <1>1, ReadStep, WriteStep, OtherStep, ListStep, ClaimArmStep, ProviderArmStep DEF ArmingSteps
  <1>2. ASSUME NEW c \in Call, Delivery(c)
        PROVE  ArmInv'
    <2>1. DeliveryKeeps
      BY <1>2, DeliveryStep DEF ArmInv
    <2>2. UNCHANGED arming
      BY <1>2 DEF Delivery
    <2> QED
      BY <2>1, <2>2, BesideStep
  <1>3. CASE Expiries /\ UNCHANGED arming
    <2>1. sub' = sub /\ reason' = reason
      BY <1>3 DEF Expiries, LeaseExpires, ClaimExpires, caller
    <2>2. DeliveryKeeps
      BY <2>1 DEF ArmInv, DeliveryKeeps, RecordsShaped, Shaped
    <2> QED
      BY <1>3, <2>2, BesideStep
  <1>4. CASE Restart
    BY <1>4, RestartStep
  <1>5. CASE UNCHANGED allVars
    <2>1. sub' = sub /\ reason' = reason /\ UNCHANGED arming
      BY <1>5 DEF allVars, vars
    <2>2. DeliveryKeeps
      BY <2>1 DEF ArmInv, DeliveryKeeps, RecordsShaped, Shaped
    <2> QED
      BY <2>1, <2>2, BesideStep
  <1> QED
    BY <1>1, <1>2, <1>3, <1>4, <1>5 DEF ArmingNext

LEMMA ArmingStarts == ArmingInit => ArmInv
  <1> SUFFICES ASSUME ArmingInit PROVE ArmInv
    OBVIOUS
  <1>1. /\ turn = [t \in Turn |-> "idle"] /\ seen = [t \in Turn |-> Pending] /\ sub = Pending
        /\ claimed = FALSE /\ arms = 0 /\ reason = [c \in Call |-> "none"]
    BY DEF ArmingInit, StartsAs, AtRest
  <1>2. Shaped(Pending)
    BY DEF Shaped, Pending, Armed
  <1>3. RecordsShaped
    BY <1>1, <1>2 DEF RecordsShaped
  <1>4. OneArmer /\ NotYetArmed
    BY <1>1 DEF OneArmer, NotYetArmed, Past, Trying, Catching
  <1>5. turn \in [Turn -> Place] /\ DOMAIN seen = Turn
    BY <1>1 DEF Place
  <1>6. claimed \in BOOLEAN
    BY <1>1
  <1>7. arms \in Nat /\ arms <= 1
    BY <1>1
  <1> QED
    BY <1>3, <1>4, <1>5, <1>6, <1>7 DEF ArmInv, ArmedOnce

(* "provider.arm is still only ever called once per subscription id"        *)
(* (armPendingForConversation), whatever handlers list it, whatever fails   *)
(* and however often the process restarts.                                  *)
THEOREM ArmsAtMostOnce == ArmingSpec => []ArmedOnce
  <1>1. ArmInv => ArmedOnce
    BY DEF ArmInv
  <1> QED
    BY ArmingStarts, ArmingStep, <1>1, PTL DEF ArmingSpec

-----------------------------------------------------------------------------
(* Types, and who may write what into the record *)

(* The state in which nothing of the delivery has begun has its types.      *)
LEMMA RestIsTyped ==
  ASSUME AtRest, sub' \in Record, faults' \in 0..MaxFaults,
         UNCHANGED <<lease, marker, known, caller, route, reply, history>>
  PROVE  TypeOK' /\ (sub'.status # "delivering" => ReasonsHeld')
  <1>1. Armed \in Record /\ NoMarker \in Marker /\ NoReply \in Reply /\ None \in Stamp
    BY DEF Armed, NoMarker, NoReply, Record, Marker, Reply, Stamp
  <1>2. "idle" \in PC /\ "idle" \in Route /\ "none" \in Reason \cup {"none"}
    BY DEF PC, Route
  <1>3. TypeOK'
    BY <1>1, <1>2 DEF AtRest, TypeOK, caller, history
  <1>4. \A c \in Call : pc'[c] = "idle"
    BY DEF AtRest, caller
  <1> QED
    BY <1>3, <1>4 DEF ReasonsHeld

(* The delivery may not begin while the record is pending.                  *)
LEMMA DeliveryNotPending ==
  ASSUME PendingIsUntouched, (\E c \in Call : Delivery(c)) \/ Expiries
  PROVE  sub.status # "pending" /\ TypeOK /\ ReasonsHeld
  <1> SUFFICES ASSUME sub.status = "pending" PROVE FALSE
    BY DEF PendingIsUntouched
  <1>1. /\ ~ watched /\ ~ timer /\ lease = None /\ marker = NoMarker
        /\ \A c \in Call : pc[c] = "idle" /\ route[c] = "idle"
    BY DEF PendingIsUntouched, AtRest
  <1>2. ~ Expiries
    BY <1>1 DEF Expiries, LeaseExpires, ClaimExpires, NoMarker
  <1>3. ASSUME NEW c \in Call PROVE ~ Delivery(c)
    <2>1. ~ CallerSteps(c)
      BY <1>1 DEF CallerSteps, SweepChecksLease, ReadRaw, Cas, Reread, AcquireLease, ReadMarker,
                  Receive, ReadForUpdate, WriteTerminal, ReleaseLease
    <2>2. ~ RouteSteps(c)
      BY <1>1 DEF RouteSteps, RouteLookup, RouteClaim, RouteCollision, RouteSend, RouteClear, RouteUpgrade
    <2>3. ~ Failures(c)
      BY <1>1 DEF Failures, Interrupt, Crash, RouteFails
    <2> QED
      BY <1>1, <2>1, <2>2, <2>3 DEF Delivery, ExpirySweep, RecoverySweep
  <1> QED
    BY <1>2, <1>3

LEMMA BesideTypes ==
  ASSUME ArmingIInv, (\E c \in Call : Delivery(c)) \/ Expiries, UNCHANGED arming
  PROVE  ArmingTypeOK' /\ faults' \in 0..MaxFaults /\ PendingIsUntouched' /\ FirstHandler'
  <1>1. sub.status # "pending" /\ TypeOK /\ ReasonsHeld
    BY DeliveryNotPending DEF ArmingIInv
  <1>2. [Next]_vars
    BY DEF Delivery, Next, Triggers
  <1>3. TypeOK' /\ ReasonsHeld'
    BY <1>1, <1>2, TypeStep
  <1>4. sub' \in Record /\ sub'.status # "pending"
    BY <1>3 DEF TypeOK, Record, Terminal
  <1>5. ArmingTypeOK'
    BY <1>4 DEF ArmingIInv, ArmingTypeOK, arming
  <1>6. FirstHandler'
    BY <1>1, <1>4 DEF ArmingIInv, FirstHandler, arming
  <1> QED
    BY <1>3, <1>4, <1>5, <1>6 DEF PendingIsUntouched, TypeOK

(* A handler that leaves the record alone leaves the delivery alone.        *)
LEMMA HandlerTypes ==
  ASSUME ArmingIInv, NEW t \in Turn, NEW to \in Place, turn' = [turn EXCEPT ![t] = to],
         UNCHANGED <<store, known, caller, route, reply, history>>,
         UNCHANGED faults \/ Fault,
         seen' = seen \/ seen' = [seen EXCEPT ![t] = sub],
         claimed' = claimed \/ claimed' = TRUE,
         watched' = watched \/ watched' = FALSE \/ (watched' = TRUE /\ sub.status # "pending"),
         timer' = timer \/ (timer' = TRUE /\ sub.status # "pending"),
         arms' = arms \/ arms' = arms + 1
  PROVE  ArmingTypeOK' /\ faults' \in 0..MaxFaults /\ PendingIsUntouched'
  <1>1. faults' \in 0..MaxFaults
    BY FaultsAssumption DEF ArmingIInv, Fault
  <1>2. sub' = sub /\ lease' = lease /\ marker' = marker
    BY DEF store
  <1>3. ArmingTypeOK'
    <2>1. claimed' \in BOOLEAN /\ watched' \in BOOLEAN /\ timer' \in BOOLEAN
      BY Zenon DEF ArmingIInv, ArmingTypeOK
    <2>2. sub' \in Record \cup {Pending} /\ arms' \in Nat
      BY <1>2 DEF ArmingIInv, ArmingTypeOK
    <2>3. turn' \in [Turn -> Place] /\ seen' \in [Turn -> Record \cup {Pending}]
      BY DEF ArmingIInv, ArmingTypeOK
    <2> QED
      BY <2>1, <2>2, <2>3 DEF ArmingTypeOK
  <1>4. PendingIsUntouched'
    <2>1. CASE sub.status = "pending"
      <3>1. AtRest'
        BY <1>2, <2>1 DEF ArmingIInv, PendingIsUntouched, AtRest, caller, history
      <3>2. ~ watched /\ ~ timer /\ sub = Pending
        BY <2>1 DEF ArmingIInv, PendingIsUntouched
      <3>3. ~ watched' /\ ~ timer'
        BY <2>1, <3>2
      <3> QED
        BY <1>2, <2>1, <3>1, <3>2, <3>3 DEF PendingIsUntouched
    <2>2. CASE sub.status # "pending"
      <3>1. TypeOK'
        BY <1>1, <1>2, <2>2 DEF ArmingIInv, PendingIsUntouched, TypeOK, caller, history
      <3>2. ReasonsHeld'
        BY <1>2, <2>2 DEF ArmingIInv, PendingIsUntouched, ReasonsHeld, caller
      <3> QED
        BY <1>2, <2>2, <3>1, <3>2 DEF PendingIsUntouched
    <2> QED
      BY <2>1, <2>2
  <1> QED
    BY <1>1, <1>3, <1>4

(* Where a handler is past the claim the others are not.                    *)
LEMMA OthersNotPast ==
  ASSUME ArmingIInv, NEW t \in Turn, turn[t] \in Past
  PROVE  claimed /\ \A u \in Turn \ {t} : turn[u] \notin Past
  BY DEF ArmingIInv, ArmInv, OneArmer

LEMMA HandlerStep ==
  ASSUME ArmingIInv, NEW t \in Turn,
         \/ List(t) \/ ClaimArm(t) \/ ReadToArm(t) \/ ProviderArm(t) \/ ArmReturns(t)
         \/ ArmThrows(t) \/ ReadStatus(t) \/ ReadLease(t) \/ ReadToFail(t) \/ CatchThrows(t)
  PROVE  ArmingTypeOK' /\ faults' \in 0..MaxFaults /\ PendingIsUntouched' /\ FirstHandler'
  <1> DEFINE Done == ArmingTypeOK' /\ faults' \in 0..MaxFaults /\ PendingIsUntouched'
  <1>0. /\ turn \in [Turn -> Place] /\ DOMAIN seen = Turn
        /\ sub.status = "pending" => sub = Pending
    BY DEF ArmingIInv, ArmingTypeOK, PendingIsUntouched
  <1>1. CASE List(t)
    <2>1. Done
      BY <1>1, HandlerTypes DEF List, Advance, vars, store, caller, history, Place
    <2>2. FirstHandler'
      BY <1>0, <1>1 DEF List, Advance, vars, ArmingIInv, FirstHandler
    <2> QED
      BY <2>1, <2>2
  <1>2. CASE ClaimArm(t)
    <2> DEFINE to == IF claimed THEN "idle" ELSE "readToArm"
    <2>1. to \in Place /\ turn' = [turn EXCEPT ![t] = to]
      BY <1>2 DEF ClaimArm, Advance, Place, Past, Trying
    <2>2. Done
      BY <1>2, <2>1, HandlerTypes DEF ClaimArm, vars, store, caller, history
    <2>3. FirstHandler'
      BY <1>0, <1>2, <2>1 DEF ClaimArm, Advance, vars, ArmingIInv, FirstHandler
    <2> QED
      BY <2>2, <2>3
  <1>3. CASE ReadToArm(t) \/ ReadStatus(t) \/ ReadToFail(t)
    <2>1. PICK to \in {"writeArmed", "readLease", "writeFailed"} :
            /\ turn' = [turn EXCEPT ![t] = to]
            /\ to = "writeArmed" => turn[t] = "readToArm"
            /\ seen' = [seen EXCEPT ![t] = sub] /\ turn[t] \in Past
            /\ UNCHANGED <<vars, claimed, watched, timer, arms>>
      BY <1>3 DEF ReadToArm, ReadStatus, ReadToFail, ReadRecord, Advance, Past, Trying, Catching
    <2>2. to \in Place
      BY DEF Place, Past, Trying, Catching
    <2>3. Done
      BY <2>1, <2>2, HandlerTypes DEF vars, store, caller, history
    <2>4. FirstHandler'
      <3>1. \A u \in Turn \ {t} : turn'[u] = turn[u] /\ turn'[t] = to
        BY <1>0, <2>1
      <3>2. sub' = sub /\ claimed' = claimed /\ seen'[t] = sub /\ turn'[t] = to
        BY <1>0, <2>1 DEF vars
      <3>3. \A u \in Turn \ {t} : turn[u] \notin Past
        BY <2>1, OthersNotPast
      <3>4. to = "writeArmed" => sub = Pending /\ sub.status = "pending"
        BY <1>0, <2>1 DEF ArmingIInv, FirstHandler
      <3> QED
        BY <3>1, <3>2, <3>3, <3>4 DEF ArmingIInv, FirstHandler, Past, Trying
    <2> QED
      BY <2>3, <2>4
  <1>4. CASE ProviderArm(t) \/ ArmReturns(t)
    <2>1. PICK to \in {"afterArm", "idle"} :
            /\ turn' = [turn EXCEPT ![t] = to] /\ turn[t] \in {"arm", "afterArm"}
            /\ UNCHANGED <<vars, seen, claimed>>
            /\ watched' = watched \/ watched' = TRUE
            /\ timer' = timer \/ timer' = TRUE
            /\ arms' = arms \/ arms' = arms + 1
      BY <1>4 DEF ProviderArm, ArmReturns, Advance
    <2>2. to \in Place /\ turn[t] \in Past
      BY <2>1 DEF Place, Past, Trying
    <2>3. sub.status # "pending"
      BY <2>1 DEF ArmingIInv, FirstHandler
    <2>4. Done
      BY <2>1, <2>2, <2>3, HandlerTypes DEF vars, store, caller, history
    <2>5. \A u \in Turn \ {t} : turn[u] \notin Past
      BY <2>2, OthersNotPast
    <2>6. FirstHandler'
      BY <1>0, <2>1, <2>3, <2>5 DEF vars, ArmingIInv, FirstHandler, Past, Trying
    <2> QED
      BY <2>4, <2>6
  <1>5. CASE ArmThrows(t) \/ ReadLease(t) \/ CatchThrows(t)
    <2>1. PICK to \in {"readStatus", "idle", "readToFail"} :
            /\ turn' = [turn EXCEPT ![t] = to] /\ turn[t] \in Past
            /\ UNCHANGED <<store, known, caller, route, reply, history, seen, claimed, timer, arms>>
            /\ UNCHANGED faults \/ Fault
            /\ watched' = watched \/ watched' = FALSE
      BY <1>5 DEF ArmThrows, ReadLease, CatchThrows, Advance, Past, Trying, Catching,
                  vars, store, caller, history
    <2>2. to \in Place
      BY DEF Place, Past, Catching
    <2>3. Done
      BY <2>1, <2>2, HandlerTypes
    <2>4. \A u \in Turn \ {t} : turn[u] \notin Past
      BY <2>1, OthersNotPast
    <2>5. FirstHandler'
      BY <1>0, <2>1, <2>4 DEF store, ArmingIInv, FirstHandler, Past, Trying
    <2> QED
      BY <2>3, <2>5
  <1> QED
    BY <1>1, <1>2, <1>3, <1>4, <1>5

(* The two writes of a handler: "armed" only over the pending record.       *)
LEMMA HandlerWrites ==
  ASSUME ArmingIInv, NEW t \in Turn, WriteArmed(t) \/ WriteFailed(t)
  PROVE  /\ ArmingTypeOK' /\ faults' \in 0..MaxFaults /\ PendingIsUntouched' /\ FirstHandler'
         /\ sub'.status = "failed" \/ (sub.status = "pending" /\ sub'.status = "armed")
  <1>0. /\ turn \in [Turn -> Place] /\ seen \in [Turn -> Record \cup {Pending}]
        /\ faults \in 0..MaxFaults
    BY DEF ArmingIInv, ArmingTypeOK
  <1>1. /\ UNCHANGED <<lease, marker, known, caller, route, reply, history, faults,
                       seen, claimed, watched, timer, arms>>
    BY DEF WriteArmed, WriteFailed, WriteStatus
  <1>2. /\ sub' \in Record /\ turn[t] \in Past
        /\ \/ sub'.status = "failed" /\ turn' = [turn EXCEPT ![t] = "idle"]
           \/ /\ sub.status = "pending" /\ sub' = Armed
              /\ turn' = [turn EXCEPT ![t] = "arm"]
    <2>1. CASE WriteArmed(t)
      <3>1. sub.status = "pending" /\ seen[t] = Pending /\ sub' = [seen[t] EXCEPT !.status = "armed"]
            /\ turn[t] = "writeArmed" /\ turn' = [turn EXCEPT ![t] = "arm"]
        BY <2>1 DEF WriteArmed, WriteStatus, Advance, ArmingIInv, FirstHandler
      <3>2. sub' = Armed
        BY <3>1 DEF Pending, Armed
      <3>3. Armed \in Record
        BY DEF Armed, Record, Stamp
      <3> QED
        BY <3>1, <3>2, <3>3 DEF Past, Trying
    <2>2. CASE WriteFailed(t)
      <3>1. sub' = [seen[t] EXCEPT !.status = "failed"]
            /\ turn[t] = "writeFailed" /\ turn' = [turn EXCEPT ![t] = "idle"]
        BY <2>2 DEF WriteFailed, WriteStatus, Advance
      <3>2. seen[t] \in Record \/ seen[t] = Pending
        BY <1>0
      <3>3. sub' \in Record /\ sub'.status = "failed"
        BY <3>1, <3>2 DEF Record, Pending, Armed, Terminal, Stamp
      <3> QED
        BY <3>1, <3>3 DEF Past, Catching
    <2> QED
      BY <2>1, <2>2
  <1>3. sub'.status \in {"failed", "armed"}
    BY <1>2 DEF Armed
  <1>4. TypeOK' /\ ReasonsHeld'
    <2>1. CASE sub.status = "pending"
      BY <1>0, <1>1, <1>2, <1>3, <2>1, RestIsTyped DEF ArmingIInv, PendingIsUntouched
    <2>2. CASE sub.status # "pending"
      <3>1. TypeOK /\ ReasonsHeld
        BY <2>2 DEF ArmingIInv, PendingIsUntouched
      <3> QED
        BY <1>1, <1>2, <1>3, <3>1 DEF TypeOK, ReasonsHeld, caller, history
    <2> QED
      BY <2>1, <2>2
  <1>5. ArmingTypeOK'
    <2>1. turn' \in [Turn -> Place]
      BY <1>0, <1>2 DEF Place, Past, Trying
    <2> QED
      BY <1>1, <1>2, <2>1 DEF ArmingIInv, ArmingTypeOK
  <1>6. PendingIsUntouched'
    BY <1>3, <1>4 DEF PendingIsUntouched
  <1>7. FirstHandler'
    <2>1. \A u \in Turn \ {t} : turn'[u] = turn[u] /\ turn[u] \notin Past
      BY <1>0, <1>2, OthersNotPast
    <2>2. turn'[t] \in {"idle", "arm"} /\ claimed'
      BY <1>0, <1>1, <1>2, OthersNotPast
    <2> QED
      BY <1>3, <2>1, <2>2 DEF FirstHandler, Past, Trying
  <1> QED
    BY <1>0, <1>1, <1>2, <1>3, <1>5, <1>6, <1>7 DEF Armed

LEMMA RestartTypes ==
  ASSUME ArmingIInv, Restart
  PROVE  ArmingTypeOK' /\ faults' \in 0..MaxFaults /\ PendingIsUntouched' /\ FirstHandler'
  <1>1. /\ turn' = [t \in Turn |-> "idle"] /\ Fault
        /\ claimed' = FALSE /\ watched' = FALSE /\ timer' = FALSE
        /\ UNCHANGED <<sub, lease, marker, known, caller, route, reply, history, seen, arms>>
    BY DEF Restart, store
  <1>2. faults' \in 0..MaxFaults
    BY <1>1, FaultsAssumption DEF ArmingIInv, Fault
  <1>3. ArmingTypeOK'
    BY <1>1 DEF ArmingIInv, ArmingTypeOK, Place
  <1>4. FirstHandler'
    BY <1>1 DEF FirstHandler
  <1>5. CASE sub.status = "pending"
    <2>1. PendingIsUntouched'
      BY <1>1, <1>5 DEF ArmingIInv, PendingIsUntouched, AtRest, caller, history
    <2> QED
      BY <1>2, <1>3, <1>4, <2>1
  <1>6. CASE sub.status # "pending"
    <2>1. TypeOK' /\ ReasonsHeld'
      BY <1>1, <1>2, <1>6 DEF ArmingIInv, PendingIsUntouched, TypeOK, ReasonsHeld, caller, history
    <2>2. PendingIsUntouched'
      BY <1>1, <1>6, <2>1 DEF PendingIsUntouched
    <2> QED
      BY <1>2, <1>3, <1>4, <2>2
  <1> QED
    BY <1>5, <1>6

LEMMA StutterTypes ==
  ASSUME ArmingIInv, UNCHANGED allVars
  PROVE  ArmingIInv'
  <1>1. /\ ArmInv'
    BY ArmingStep DEF ArmingIInv
  <1>2. UNCHANGED <<vars, arming>>
    BY DEF allVars
  <1>3. ArmingTypeOK' /\ faults' \in 0..MaxFaults /\ FirstHandler'
    BY <1>2 DEF vars, arming, ArmingIInv, ArmingTypeOK, FirstHandler
  <1>4. AtRest => AtRest'
    BY <1>2 DEF vars, AtRest
  <1>5. TypeOK /\ ReasonsHeld => TypeOK' /\ ReasonsHeld'
    BY <1>2 DEF vars, TypeOK, ReasonsHeld
  <1>6. PendingIsUntouched'
    BY <1>2, <1>4, <1>5 DEF vars, arming, ArmingIInv, PendingIsUntouched
  <1> QED
    BY <1>1, <1>3, <1>6 DEF ArmingIInv

LEMMA ArmingIInvStep == ArmingIInv /\ [ArmingNext]_allVars => ArmingIInv'
  <1> SUFFICES ASSUME ArmingIInv, [ArmingNext]_allVars PROVE ArmingIInv'
    OBVIOUS
  <1>1. ArmInv'
    BY ArmingStep DEF ArmingIInv
  <1>2. ASSUME NEW t \in Turn, ArmingSteps(t)
        PROVE  ArmingIInv'
    BY <1>1, <1>2, HandlerStep, HandlerWrites DEF ArmingSteps, ArmingIInv
  <1>3. ASSUME NEW c \in Call, Delivery(c)
        PROVE  ArmingIInv'
    <2>1. UNCHANGED arming
      BY <1>3 DEF Delivery
    <2> QED
      BY <1>1, <1>3, <2>1, BesideTypes DEF ArmingIInv
  <1>4. CASE Expiries /\ UNCHANGED arming
    BY <1>1, <1>4, BesideTypes DEF ArmingIInv
  <1>5. CASE Restart
    BY <1>1, <1>5, RestartTypes DEF ArmingIInv
  <1>6. CASE UNCHANGED allVars
    BY <1>6, StutterTypes
  <1> QED
    BY <1>2, <1>3, <1>4, <1>5, <1>6 DEF ArmingNext

LEMMA ArmingIInvInit == ArmingInit => ArmingIInv
  <1> SUFFICES ASSUME ArmingInit PROVE ArmingIInv
    OBVIOUS
  <1>1. ArmInv
    BY ArmingStarts
  <1>2. /\ turn = [t \in Turn |-> "idle"] /\ seen = [t \in Turn |-> Pending] /\ sub = Pending
        /\ claimed = FALSE /\ watched = FALSE /\ timer = FALSE /\ arms = 0
        /\ AtRest /\ faults = 0
    BY DEF ArmingInit, StartsAs
  <1>3. ArmingTypeOK /\ faults \in 0..MaxFaults
    <2>1. claimed \in BOOLEAN /\ watched \in BOOLEAN /\ timer \in BOOLEAN
      BY <1>2
    <2>2. turn \in [Turn -> Place] /\ seen \in [Turn -> Record \cup {Pending}] /\ arms \in Nat
      BY <1>2 DEF Place
    <2>3. faults \in 0..MaxFaults
      BY <1>2, FaultsAssumption
    <2> QED
      BY <1>2, <2>1, <2>2, <2>3 DEF ArmingTypeOK
  <1>4. PendingIsUntouched /\ FirstHandler
    BY <1>2 DEF PendingIsUntouched, FirstHandler, Pending, Armed
  <1> QED
    BY <1>1, <1>3, <1>4 DEF ArmingIInv

(* A subscription is "armed" by the handler that found it pending, and by   *)
(* nobody else.                                                             *)
LEMMA OnlyPendingIsArmed ==
  ASSUME ArmingIInv, [ArmingNext]_allVars
  PROVE  \/ sub' = sub
         \/ sub'.status \notin {"pending", "armed"}
         \/ sub.status = "pending"
  <1>1. ASSUME NEW t \in Turn, ArmingSteps(t)
        PROVE  \/ sub' = sub
               \/ sub'.status \notin {"pending", "armed"}
               \/ sub.status = "pending"
    <2>1. CASE WriteArmed(t) \/ WriteFailed(t)
      BY <2>1, HandlerWrites
    <2>2. CASE ~ (WriteArmed(t) \/ WriteFailed(t))
      BY <1>1, <2>2 DEF ArmingSteps, List, ClaimArm, ReadToArm, ProviderArm, ArmReturns, ArmThrows,
                        ReadStatus, ReadLease, ReadToFail, CatchThrows, ReadRecord, vars, store
    <2> QED
      BY <2>1, <2>2
  <1>2. CASE (\E c \in Call : Delivery(c)) \/ Expiries
    <2>1. sub.status # "pending" /\ TypeOK /\ ReasonsHeld
      BY <1>2, DeliveryNotPending DEF ArmingIInv
    <2>2. [Next]_vars
      BY <1>2 DEF Delivery, Next, Triggers
    <2>3. UNCHANGED sub \/ \E c \in Call : Cas(c) \/ WriteTerminal(c)
      BY <2>2, RecordChanges
    <2>4. ASSUME NEW c \in Call, Cas(c) PROVE sub' = sub \/ sub'.status = "delivering"
      BY <2>1, <2>4 DEF Cas, TypeOK, Record
    <2>5. ASSUME NEW c \in Call, WriteTerminal(c) PROVE sub'.status \in Terminal
      <3>1. Outcome(c) \in Terminal
        BY <2>1, <2>5 DEF WriteTerminal, Outcome, ReasonsHeld, Reason, Terminal
      <3> QED
        BY <2>5, <3>1 DEF WriteTerminal
    <2> QED
      BY <2>3, <2>4, <2>5 DEF Terminal
  <1>3. CASE Restart
    BY <1>3 DEF Restart, store
  <1>4. CASE UNCHANGED allVars
    BY <1>4 DEF allVars, vars
  <1> QED
    BY <1>1, <1>2, <1>3, <1>4 DEF ArmingNext

-----------------------------------------------------------------------------
(* Every variable keeps its type: the record only takes the statuses of     *)
(* types.ts, whichever of the handler's and the delivery's separate reads   *)
(* and writes follow one another (updateSubscription).                      *)
THEOREM ArmingTypes == ArmingSpec => []ArmingTypeOK
  <1>1. ArmingIInv => ArmingTypeOK
    BY DEF ArmingIInv
  <1> QED
    BY ArmingIInvInit, ArmingIInvStep, <1>1, PTL DEF ArmingSpec

(* The read and the separate write of armPendingForConversation never take  *)
(* a subscription whose delivery began, or that failed, back to "armed".    *)
THEOREM NeverRevived == ArmingSpec => NeverRearmed
  <1>1. ArmingIInv /\ [ArmingNext]_allVars =>
          [sub.status \in Delivered \cup {"failed"} =>
             sub'.status \notin {"pending", "armed"}]_allVars
    BY OnlyPendingIsArmed DEF Delivered
  <1> QED
    BY ArmingIInvInit, ArmingIInvStep, <1>1, PTL DEF ArmingSpec, NeverRearmed
================================================================================
