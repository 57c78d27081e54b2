------------------------- MODULE WakeDelivery_proofs -------------------------
(***************************************************************************)
(* Proofs about WakeDelivery for every set of attempts and every number    *)
(* of faults: the inductive invariant IInv, the safety properties that     *)
(* follow from it and the refinement of OneShotWake.                       *)
(***************************************************************************)
EXTENDS WakeDelivery, TLAPS

-----------------------------------------------------------------------------
(* What the helpers of the actions do to the local variables *)

LEMMA GotoMoves ==
  ASSUME TypeOK, NEW c \in Call, NEW label \in PC, Goto(c, label)
  PROVE  /\ pc' \in [Call -> PC]
         /\ pc'[c] = label
         /\ \A d \in Call \ {c} : pc'[d] = pc[d]
  BY DEF TypeOK, Goto

LEMMA ReturnForgets ==
  ASSUME TypeOK, NEW c \in Call, Return(c)
  PROVE  /\ pc' \in [Call -> PC]
         /\ reason' \in [Call -> Reason \cup {"none"}]
         /\ raw' \in [Call -> Record]
         /\ firedAt' \in [Call -> Stamp]
         /\ reply' \in [Call -> Reply]
         /\ pc'[c] = "idle" /\ reply'[c] = NoReply /\ raw'[c] = Armed
         /\ \A d \in Call \ {c} : /\ pc'[d] = pc[d] /\ reason'[d] = reason[d]
                                  /\ raw'[d] = raw[d] /\ firedAt'[d] = firedAt[d]
                                  /\ reply'[d] = reply[d]
  <1> "idle" \in PC /\ Armed \in Record /\ NoReply \in Reply /\ None \in Stamp
    BY DEF PC, Armed, Record, NoReply, Reply, Stamp, Terminal, Reason
  <1> QED
    BY DEF TypeOK, Return, Goto

LEMMA LeaveEnds ==
  ASSUME TypeOK, NEW c \in Call, Leave(c)
  PROVE  /\ pc' \in [Call -> PC]
         /\ reason' \in [Call -> Reason \cup {"none"}]
         /\ raw' \in [Call -> Record]
         /\ firedAt' \in [Call -> Stamp]
         /\ reply' \in [Call -> Reply]
         /\ \/ pc'[c] = "release" /\ reply'[c] = reply[c] /\ raw'[c] = raw[c]
            \/ pc'[c] = "idle" /\ reply'[c] = NoReply /\ raw'[c] = Armed
         /\ \A d \in Call \ {c} : /\ pc'[d] = pc[d] /\ reason'[d] = reason[d]
                                  /\ raw'[d] = raw[d] /\ firedAt'[d] = firedAt[d]
                                  /\ reply'[d] = reply[d]
  <1>1. CASE c \in EveCall
    <2> "release" \in PC
      BY DEF PC
    <2> QED
      BY <1>1, GotoMoves DEF Leave, TypeOK
  <1>2. CASE c \notin EveCall
    BY <1>2, ReturnForgets DEF Leave
  <1> QED
    BY <1>1, <1>2

LEMMA AnswerHeard ==
  ASSUME TypeOK, NEW c \in Call, NEW stamp \in Stamp,
         NEW kind \in {"delivered", "already", "inFlight", "notFound", "error"},
         Answer(c, kind, stamp)
  PROVE  /\ route' \in [Call -> Route]
         /\ reply' \in [Call -> Reply]
         /\ route'[c] = "idle"
         /\ reply'[c] = IF pc[c] = "posted" THEN [kind |-> kind, firedAt |-> stamp]
                                            ELSE reply[c]
         /\ \A d \in Call \ {c} : route'[d] = route[d] /\ reply'[d] = reply[d]
  <1> "idle" \in Route /\ [kind |-> kind, firedAt |-> stamp] \in Reply
    BY DEF Route, Reply
  <1> QED
    BY DEF TypeOK, Answer

LEMMA FaultCounted ==
  ASSUME TypeOK, Fault \/ NoFault
  PROVE  faults' \in 0..MaxFaults
  BY FaultsAssumption DEF TypeOK, Fault, NoFault

-----------------------------------------------------------------------------
(* Types, and the reasons of the attempts and of the record *)

LEMMA TypeStep ==
  ASSUME TypeOK, ReasonsHeld, [Next]_vars
  PROVE  TypeOK' /\ ReasonsHeld'
  <1> USE CallAssumption
  <1> USE DEF TypeOK, ReasonsHeld, store, caller, history, Stamp
  <1>1. ASSUME NEW c \in Call, Triggers(c) PROVE TypeOK' /\ ReasonsHeld'
    BY <1>1 DEF Triggers, Fire, ExpireTimer, ExpirySweep, RecoverySweep, Begin, Goto, Call, Reason, PC, Deciding, Holding, Committed
  <1>2. ASSUME NEW c \in Call, SweepChecksLease(c) PROVE TypeOK' /\ ReasonsHeld'
    BY <1>2, GotoMoves, ReturnForgets DEF SweepChecksLease, PC, Deciding, Holding, Committed
  <1>3. ASSUME NEW c \in Call, ReadRaw(c) PROVE TypeOK' /\ ReasonsHeld'
    BY <1>3, GotoMoves DEF ReadRaw, PC, Deciding, Holding, Committed
  <1>4. ASSUME NEW c \in Call, Cas(c) PROVE TypeOK' /\ ReasonsHeld'
    <2>1. raw[c] \in Record /\ reason[c] \in Reason
      BY <1>4 DEF Cas, Reason
    <2>2. AfterIntent(c) \in PC /\ "read" \in PC
      BY DEF AfterIntent, PC, Deciding, Holding, Committed
    <2>3. pc' \in [Call -> PC] /\ \A d \in Call \ {c} : pc'[d] = pc[d]
      BY <1>4, <2>2, GotoMoves DEF Cas
    <2>4. sub' = sub \/ (/\ sub' \in Record /\ sub'.status = "delivering"
                         /\ sub'.deliverReason \in Reason)
      BY <1>4, <2>1 DEF Cas, Record, Reason, Terminal
    <2>5. /\ sub' \in Record
          /\ sub'.status = "delivering" => sub'.deliverReason \in Reason
      BY <2>4
    <2> QED
      BY <1>4, <2>1, <2>3, <2>5 DEF Cas
  <1>5. ASSUME NEW c \in Call, Reread(c) PROVE TypeOK' /\ ReasonsHeld'
    BY <1>5, GotoMoves, ReturnForgets DEF Reread, AfterIntent, PC, Deciding, Holding, Committed, Record, Reason
  <1>6. ASSUME NEW c \in Call, AcquireLease(c) PROVE TypeOK' /\ ReasonsHeld'
    BY <1>6, GotoMoves, ReturnForgets DEF AcquireLease, PC, Deciding, Holding, Committed
  <1>7. ASSUME NEW c \in Call, ReadMarker(c) PROVE TypeOK' /\ ReasonsHeld'
    BY <1>7, GotoMoves DEF ReadMarker, Marker, Route, PC, Deciding, Holding, Committed
  <1>8. ASSUME NEW c \in Call, Receive(c) PROVE TypeOK' /\ ReasonsHeld'
    BY <1>8, GotoMoves, ReturnForgets, LeaveEnds DEF Receive, Reply, PC, Deciding, Holding, Committed
  <1>9. ASSUME NEW c \in Call, ReadForUpdate(c) PROVE TypeOK' /\ ReasonsHeld'
    BY <1>9, GotoMoves DEF ReadForUpdate, PC, Deciding, Holding, Committed
  <1>10. ASSUME NEW c \in Call, WriteTerminal(c) PROVE TypeOK' /\ ReasonsHeld'
    BY <1>10, LeaveEnds DEF WriteTerminal, Outcome, PC, Deciding, Holding, Committed, Record, Terminal, Reason, Armed
  <1>11. ASSUME NEW c \in Call, ReleaseLease(c) PROVE TypeOK' /\ ReasonsHeld'
    BY <1>11, ReturnForgets DEF ReleaseLease
  <1>12. ASSUME NEW c \in Call, RouteLookup(c) PROVE TypeOK' /\ ReasonsHeld'
    BY <1>12, AnswerHeard, FaultCounted DEF RouteLookup, Route
  <1>13. ASSUME NEW c \in Call, RouteClaim(c) PROVE TypeOK' /\ ReasonsHeld'
    BY <1>13 DEF RouteClaim, Marker, Route
  <1>14. ASSUME NEW c \in Call, RouteCollision(c) PROVE TypeOK' /\ ReasonsHeld'
    BY <1>14, AnswerHeard DEF RouteCollision, Marker
  <1>15. ASSUME NEW c \in Call, RouteSend(c) PROVE TypeOK' /\ ReasonsHeld'
    BY <1>15, FaultCounted DEF RouteSend, Route
  <1>16. ASSUME NEW c \in Call, RouteClear(c) PROVE TypeOK' /\ ReasonsHeld'
    BY <1>16, AnswerHeard DEF RouteClear, Marker, NoMarker
  <1>17. ASSUME NEW c \in Call, RouteUpgrade(c) PROVE TypeOK' /\ ReasonsHeld'
    <2>1. marker' \in Marker /\ faults' \in 0..MaxFaults
      BY <1>17, FaultCounted DEF RouteUpgrade, Marker
    <2>2. Answer(c, "delivered", None)
      BY <1>17 DEF RouteUpgrade
    <2> QED
      BY <1>17, <2>1, <2>2, AnswerHeard DEF RouteUpgrade
  <1>18. ASSUME NEW c \in Call, Interrupt(c) PROVE TypeOK' /\ ReasonsHeld'
    BY <1>18, ReturnForgets, LeaveEnds, FaultCounted DEF Interrupt
  <1>19. ASSUME NEW c \in Call, Crash(c) PROVE TypeOK' /\ ReasonsHeld'
    BY <1>19, ReturnForgets, FaultCounted DEF Crash
  <1>20. ASSUME NEW c \in Call, RouteFails(c) PROVE TypeOK' /\ ReasonsHeld'
    BY <1>20, AnswerHeard, FaultCounted DEF RouteFails
  <1>21. CASE LeaseExpires
    BY <1>21 DEF LeaseExpires
  <1>22. CASE ClaimExpires
    BY <1>22 DEF ClaimExpires, Marker, NoMarker
  <1>23. CASE UNCHANGED vars
    BY <1>23 DEF vars
  <1> QED
    BY <1>1, <1>2, <1>3, <1>4, <1>5, <1>6, <1>7, <1>8, <1>9, <1>10, <1>11, <1>12, <1>13, <1>14, <1>15, <1>16, <1>17, <1>18, <1>19, <1>20, <1>21, <1>22, <1>23
    DEF Next, CallerSteps, RouteSteps, Failures, Expiries

(* Only a won compare-and-swap and a terminal write touch the record.      *)
LEMMA RecordChanges ==
  ASSUME [Next]_vars
  PROVE  \/ UNCHANGED sub
         \/ \E c \in Call : Cas(c) \/ WriteTerminal(c)
  BY DEF Next, vars, store, Triggers, Fire, ExpireTimer, ExpirySweep, RecoverySweep, Begin,
         CallerSteps, SweepChecksLease, ReadRaw, Reread, AcquireLease, ReadMarker,
         Receive, ReadForUpdate, ReleaseLease, RouteSteps, RouteLookup, RouteClaim,
         RouteCollision, RouteSend, RouteClear, RouteUpgrade, Failures, Interrupt,
         Crash, RouteFails, Expiries, LeaseExpires, ClaimExpires

LEMMA ReasonsStep ==
  ASSUME TypeOK, ReasonsKnown, [Next]_vars
  PROVE  ReasonsKnown'
  <1>1. ReasonsHeld'
    BY TypeStep DEF ReasonsKnown
  <1>2. CASE UNCHANGED sub
    BY <1>1, <1>2 DEF ReasonsKnown
  <1>3. ASSUME NEW c \in Call, Cas(c) PROVE ReasonsKnown'
    <2>1. sub' = sub \/ sub'.status = "delivering"
      BY <1>3 DEF Cas, TypeOK, Record
    <2> QED
      BY <1>1, <2>1 DEF ReasonsKnown
  <1>4. ASSUME NEW c \in Call, WriteTerminal(c) PROVE ReasonsKnown'
    <2>1. sub'.deliverReason = "none" /\ sub'.status = Outcome(c)
      BY <1>4 DEF WriteTerminal
    <2>2. Outcome(c) # "armed"
      BY <1>4 DEF Outcome, WriteTerminal, ReasonsKnown, ReasonsHeld, Reason
    <2> QED
      BY <1>1, <2>1, <2>2 DEF ReasonsKnown, Reason
  <1> QED
    BY <1>2, <1>3, <1>4, RecordChanges

(* Everybody past the compare-and-swap works for the recorded intent *)

LEMMA IntentStep ==
  ASSUME IInv, [Next]_vars
  PROVE  IntentShared'
  <1> USE CallAssumption
  <1> USE DEF IInv, IntentShared, TypeOK, store, caller, history, Holding, Committed
  <1>1. ASSUME NEW c \in Call, Triggers(c) PROVE IntentShared'
    BY <1>1 DEF Triggers, Fire, ExpireTimer, ExpirySweep, RecoverySweep, Begin, Goto
  <1>2. ASSUME NEW c \in Call, SweepChecksLease(c) PROVE IntentShared'
    BY <1>2, GotoMoves, ReturnForgets DEF SweepChecksLease, PC, Deciding
  <1>3. ASSUME NEW c \in Call, ReadRaw(c) PROVE IntentShared'
    BY <1>3, GotoMoves DEF ReadRaw, Transitionable, ReasonsKnown, ReasonsHeld, PC, Deciding, Record, Reason, Terminal
  <1>4. ASSUME NEW c \in Call, Cas(c) PROVE IntentShared'
    <2>1. CASE sub = raw[c]
      <3>1. /\ sub.status = "armed" /\ \A d \in Call : pc[d] \notin Committed
        BY <1>4, <2>1 DEF Cas, Armed, ReasonsKnown, Reason, PC, Deciding
      <3>2. /\ sub'.status = "delivering" /\ sub'.deliverReason = reason[c]
            /\ Goto(c, AfterIntent(c)) /\ AfterIntent(c) \in {"lease", "marker"}
        BY <1>4, <2>1 DEF Cas, Armed, AfterIntent
      <3> QED
        BY <1>4, <3>1, <3>2, GotoMoves DEF Cas, PC
    <2>2. CASE sub # raw[c]
      BY <1>4, <2>2, GotoMoves DEF Cas, PC, Deciding
    <2> QED
      BY <2>1, <2>2
  <1>5. ASSUME NEW c \in Call, Reread(c) PROVE IntentShared'
    BY <1>5, GotoMoves, ReturnForgets DEF Reread, AfterIntent, PC, Deciding
  <1>6. ASSUME NEW c \in Call, AcquireLease(c) PROVE IntentShared'
    BY <1>6, GotoMoves, ReturnForgets DEF AcquireLease, PC, Deciding
  <1>7. ASSUME NEW c \in Call, ReadMarker(c) PROVE IntentShared'
    BY <1>7, GotoMoves DEF ReadMarker, PC, Deciding, ReasonsKnown, Reason
  <1>8. ASSUME NEW c \in Call, Receive(c) PROVE IntentShared'
    BY <1>8, GotoMoves, ReturnForgets, LeaveEnds DEF Receive, PC, Deciding
  <1>9. ASSUME NEW c \in Call, ReadForUpdate(c) PROVE IntentShared'
    BY <1>9, GotoMoves DEF ReadForUpdate, PC, Deciding
  <1>10. ASSUME NEW c \in Call, WriteTerminal(c) PROVE IntentShared'
    BY <1>10, LeaveEnds DEF WriteTerminal, Outcome, ReasonsKnown, WakesTraced, AttemptTraced, ConversationDecides, Reason, Deciding
  <1>11. ASSUME NEW c \in Call, ReleaseLease(c) PROVE IntentShared'
    BY <1>11, ReturnForgets DEF ReleaseLease
  <1>12. ASSUME NEW c \in Call, RouteLookup(c) PROVE IntentShared'
    BY <1>12 DEF RouteLookup
  <1>13. ASSUME NEW c \in Call, RouteClaim(c) PROVE IntentShared'
    BY <1>13 DEF RouteClaim
  <1>14. ASSUME NEW c \in Call, RouteCollision(c) PROVE IntentShared'
    BY <1>14 DEF RouteCollision
  <1>15. ASSUME NEW c \in Call, RouteSend(c) PROVE IntentShared'
    BY <1>15 DEF RouteSend
  <1>16. ASSUME NEW c \in Call, RouteClear(c) PROVE IntentShared'
    BY <1>16 DEF RouteClear
  <1>17. ASSUME NEW c \in Call, RouteUpgrade(c) PROVE IntentShared'
    BY <1>17 DEF RouteUpgrade
  <1>18. ASSUME NEW c \in Call, Interrupt(c) PROVE IntentShared'
    BY <1>18, ReturnForgets, LeaveEnds DEF Interrupt
  <1>19. ASSUME NEW c \in Call, Crash(c) PROVE IntentShared'
    BY <1>19, ReturnForgets DEF Crash
  <1>20. ASSUME NEW c \in Call, RouteFails(c) PROVE IntentShared'
    BY <1>20 DEF RouteFails
  <1>21. CASE LeaseExpires
    BY <1>21 DEF LeaseExpires
  <1>22. CASE ClaimExpires
    BY <1>22 DEF ClaimExpires
  <1>23. CASE UNCHANGED vars
    BY <1>23 DEF vars
  <1> QED
    BY <1>1, <1>2, <1>3, <1>4, <1>5, <1>6, <1>7, <1>8, <1>9, <1>10, <1>11, <1>12, <1>13, <1>14, <1>15, <1>16, <1>17, <1>18, <1>19, <1>20, <1>21, <1>22, <1>23
    DEF Next, CallerSteps, RouteSteps, Failures, Expiries

(* Every wake is traced to the attempt that sent it *)

LEMMA AnswerTraced ==
  ASSUME IInv, NEW c \in Call, route[c] # "idle", NEW stamp \in Stamp,
         NEW kind \in {"delivered", "already", "inFlight", "notFound", "error"},
         Answer(c, kind, stamp), UNCHANGED <<caller, wakes>>,
         kind = "delivered" => c \in wakes,
         kind = "already" => stamp \in wakes
  PROVE  \A d \in Call : AttemptTraced(d)'
  <1> SUFFICES ASSUME NEW d \in Call PROVE AttemptTraced(d)'
    OBVIOUS
  <1>1. /\ UNCHANGED <<pc, firedAt, raw, wakes>>
        /\ AttemptTraced(d)
    BY DEF IInv, WakesTraced, caller
  <1>2. CASE d # c
    <2> route'[d] = route[d] /\ reply'[d] = reply[d]
      BY <1>2, AnswerHeard DEF IInv
    <2> QED
      BY <1>1 DEF AttemptTraced
  <1>3. CASE d = c /\ pc[c] = "posted"
    <2> route'[c] = "idle" /\ reply'[c] = [kind |-> kind, firedAt |-> stamp]
      BY <1>3, AnswerHeard DEF IInv
    <2> QED
      BY <1>1, <1>3 DEF AttemptTraced, Deciding
  <1>4. CASE d = c /\ pc[c] # "posted"
    <2> route'[c] = "idle" /\ reply'[c] = reply[c]
      BY <1>4, AnswerHeard DEF IInv
    <2> QED
      BY <1>1, <1>4 DEF AttemptTraced
  <1> QED
    BY <1>2, <1>3, <1>4

LEMMA WakesStep ==
  ASSUME IInv, [Next]_vars
  PROVE  WakesTraced'
  <1> USE CallAssumption
  <1> USE DEF IInv, WakesTraced, store, history
  <1>1. ASSUME NEW c \in Call, Triggers(c) PROVE WakesTraced'
    BY <1>1 DEF Triggers, Fire, ExpireTimer, ExpirySweep, RecoverySweep, Begin, Fresh, Goto, Deciding, AttemptTraced, TypeOK, caller, NoReply
  <1>2. ASSUME NEW c \in Call, SweepChecksLease(c) PROVE WakesTraced'
    BY <1>2, GotoMoves, ReturnForgets DEF SweepChecksLease, PC, Deciding, Armed, AttemptTraced, TypeOK, caller, NoReply
  <1>3. ASSUME NEW c \in Call, ReadRaw(c) PROVE WakesTraced'
    BY <1>3, GotoMoves DEF ReadRaw, PC, Deciding, AttemptTraced, TypeOK, caller, NoReply
  <1>4. ASSUME NEW c \in Call, Cas(c) PROVE WakesTraced'
    <2>1. raw[c].firedAt = None /\ sub'.firedAt \in {sub.firedAt, None}
      <3>1. raw[c] = [status |-> "armed", deliverReason |-> "none", firedAt |-> None]
        BY <1>4 DEF Cas, IntentShared, Armed
      <3>2. CASE sub = raw[c]
        <4> sub' = [[status |-> "armed", deliverReason |-> "none", firedAt |-> None]
                    EXCEPT !.status = "delivering", !.deliverReason = reason[c]]
          BY <1>4, <3>1, <3>2 DEF Cas
        <4> QED
          BY <3>1
      <3>3. CASE sub # raw[c]
        BY <1>4, <3>1, <3>3 DEF Cas
      <3> QED
        BY <3>2, <3>3
    <2>2. sub' = sub \/ sub'.status = "delivering"
      BY <1>4 DEF Cas, IntentShared, Armed
    <2>3. pc' \in [Call -> PC] /\ pc'[c] \in {"lease", "marker", "read"}
          /\ \A d \in Call \ {c} : pc'[d] = pc[d]
      BY <1>4, GotoMoves DEF Cas, AfterIntent, PC, Deciding, Holding, Committed
    <2>4. \A d \in Call : AttemptTraced(d)'
      BY <1>4, <2>3 DEF Cas, AttemptTraced, Deciding
    <2> QED
      BY <1>4, <2>1, <2>2, <2>4 DEF Cas, Reason
  <1>5. ASSUME NEW c \in Call, Reread(c) PROVE WakesTraced'
    BY <1>5, GotoMoves, ReturnForgets DEF Reread, AfterIntent, PC, Deciding, Holding, Committed, Armed, AttemptTraced, TypeOK, caller, NoReply
  <1>6. ASSUME NEW c \in Call, AcquireLease(c) PROVE WakesTraced'
    BY <1>6, GotoMoves, ReturnForgets DEF AcquireLease, PC, Deciding, Holding, Committed, Armed, AttemptTraced, TypeOK, caller, NoReply
  <1>7. ASSUME NEW c \in Call, ReadMarker(c) PROVE WakesTraced'
    BY <1>7, GotoMoves DEF ReadMarker, PC, Deciding, Holding, Committed, NoReply, AttemptTraced, TypeOK, caller, NoReply
  <1>8. ASSUME NEW c \in Call, Receive(c) PROVE WakesTraced'
    BY <1>8, GotoMoves, ReturnForgets, LeaveEnds DEF Receive, PC, Deciding, Holding, Committed, NoReply, Armed, AttemptTraced, TypeOK, caller, NoReply
  <1>9. ASSUME NEW c \in Call, ReadForUpdate(c) PROVE WakesTraced'
    BY <1>9, GotoMoves DEF ReadForUpdate, PC, Deciding, Holding, Committed, AttemptTraced, TypeOK, caller, NoReply
  <1>10. ASSUME NEW c \in Call, WriteTerminal(c) PROVE WakesTraced'
    BY <1>10, LeaveEnds DEF WriteTerminal, Outcome, ReasonsKnown, Reason, Deciding, Armed, AttemptTraced, TypeOK, caller, NoReply
  <1>11. ASSUME NEW c \in Call, ReleaseLease(c) PROVE WakesTraced'
    BY <1>11, ReturnForgets DEF ReleaseLease, Deciding, Armed, AttemptTraced, TypeOK, caller, NoReply
  <1>12. ASSUME NEW c \in Call, RouteLookup(c) PROVE WakesTraced'
    <2>1. CASE ~known /\ Answer(c, "notFound", None)
      BY <1>12, <2>1, AnswerTraced DEF RouteLookup, Stamp
    <2>2. CASE known /\ Answer(c, "error", None)
      BY <1>12, <2>2, AnswerTraced DEF RouteLookup, Stamp
    <2>3. CASE route' = [route EXCEPT ![c] = "claim"] /\ UNCHANGED reply
      <3> \A d \in Call : AttemptTraced(d)'
        BY <1>12, <2>3 DEF RouteLookup, AttemptTraced, TypeOK, caller, Deciding
      <3> QED
        BY <1>12, <2>3 DEF RouteLookup
    <2> QED
      BY <1>12, <2>1, <2>2, <2>3 DEF RouteLookup
  <1>13. ASSUME NEW c \in Call, RouteClaim(c) PROVE WakesTraced'
    BY <1>13 DEF RouteClaim, AttemptTraced, TypeOK, caller, NoReply
  <1>14. ASSUME NEW c \in Call, RouteCollision(c) PROVE WakesTraced'
    BY <1>14, AnswerTraced DEF RouteCollision, TypeOK, Marker, Stamp
  <1>15. ASSUME NEW c \in Call, RouteSend(c) PROVE WakesTraced'
    BY <1>15 DEF RouteSend, Deciding, AttemptTraced, TypeOK, caller, NoReply
  <1>16. ASSUME NEW c \in Call, RouteClear(c) PROVE WakesTraced'
    BY <1>16, AnswerTraced DEF RouteClear, NoMarker, Stamp
  <1>17. ASSUME NEW c \in Call, RouteUpgrade(c) PROVE WakesTraced'
    BY <1>17, AnswerTraced DEF RouteUpgrade, AttemptTraced, Stamp
  <1>18. ASSUME NEW c \in Call, Interrupt(c) PROVE WakesTraced'
    BY <1>18, ReturnForgets, LeaveEnds DEF Interrupt, Deciding, Holding, Armed, AttemptTraced, TypeOK, caller, NoReply
  <1>19. ASSUME NEW c \in Call, Crash(c) PROVE WakesTraced'
    BY <1>19, ReturnForgets DEF Crash, Deciding, Armed, AttemptTraced, TypeOK, caller, NoReply
  <1>20. ASSUME NEW c \in Call, RouteFails(c) PROVE WakesTraced'
    BY <1>20, AnswerTraced DEF RouteFails, Stamp
  <1>21. CASE LeaseExpires
    BY <1>21 DEF LeaseExpires, AttemptTraced, TypeOK, caller, NoReply
  <1>22. CASE ClaimExpires
    BY <1>22 DEF ClaimExpires, NoMarker, AttemptTraced, TypeOK, caller, NoReply
  <1>23. CASE UNCHANGED vars
    BY <1>23 DEF vars, AttemptTraced
  <1> QED
    BY <1>1, <1>2, <1>3, <1>4, <1>5, <1>6, <1>7, <1>8, <1>9, <1>10, <1>11, <1>12, <1>13, <1>14, <1>15, <1>16, <1>17, <1>18, <1>19, <1>20, <1>21, <1>22, <1>23
    DEF Next, CallerSteps, RouteSteps, Failures, Expiries

(* 404s come from unknown conversations, wakes go to known ones *)

LEMMA AnswerDecides ==
  ASSUME IInv, NEW c \in Call, route[c] # "idle", NEW stamp \in Stamp,
         NEW kind \in {"delivered", "already", "inFlight", "notFound", "error"},
         Answer(c, kind, stamp), UNCHANGED known,
         kind = "notFound" => ~known
  PROVE  \A d \in Call : /\ reply'[d].kind = "notFound" => ~known'
                         /\ route'[d] \notin {"idle", "lookup"} => known'
  <1> SUFFICES ASSUME NEW d \in Call
               PROVE  /\ reply'[d].kind = "notFound" => ~known
                      /\ route'[d] \notin {"idle", "lookup"} => known
    OBVIOUS
  <1> /\ reply[d].kind = "notFound" => ~known
      /\ route[d] \notin {"idle", "lookup"} => known
    BY DEF IInv, ConversationDecides
  <1>1. CASE d # c
    BY <1>1, AnswerHeard DEF IInv
  <1>2. CASE d = c
    <2> route'[c] = "idle"
      BY AnswerHeard DEF IInv
    <2> reply'[c] = [kind |-> kind, firedAt |-> stamp] \/ reply'[c] = reply[c]
      BY AnswerHeard DEF IInv
    <2> QED
      BY <1>2
  <1> QED
    BY <1>1, <1>2

LEMMA ConversationStep ==
  ASSUME IInv, [Next]_vars
  PROVE  ConversationDecides'
  <1> USE CallAssumption
  <1> USE DEF IInv, ConversationDecides, TypeOK, store, caller, history
  <1>1. ASSUME NEW c \in Call, Triggers(c) PROVE ConversationDecides'
    BY <1>1 DEF Triggers, Fire, ExpireTimer, ExpirySweep, RecoverySweep, Begin
  <1>2. ASSUME NEW c \in Call, SweepChecksLease(c) PROVE ConversationDecides'
    BY <1>2, ReturnForgets DEF SweepChecksLease, NoReply
  <1>3. ASSUME NEW c \in Call, ReadRaw(c) PROVE ConversationDecides'
    BY <1>3 DEF ReadRaw
  <1>4. ASSUME NEW c \in Call, Cas(c) PROVE ConversationDecides'
    BY <1>4 DEF Cas, IntentShared, Armed
  <1>5. ASSUME NEW c \in Call, Reread(c) PROVE ConversationDecides'
    BY <1>5, ReturnForgets DEF Reread, NoReply
  <1>6. ASSUME NEW c \in Call, AcquireLease(c) PROVE ConversationDecides'
    BY <1>6, ReturnForgets DEF AcquireLease, NoReply
  <1>7. ASSUME NEW c \in Call, ReadMarker(c) PROVE ConversationDecides'
    BY <1>7 DEF ReadMarker
  <1>8. ASSUME NEW c \in Call, Receive(c) PROVE ConversationDecides'
    BY <1>8, ReturnForgets, LeaveEnds DEF Receive, NoReply
  <1>9. ASSUME NEW c \in Call, ReadForUpdate(c) PROVE ConversationDecides'
    BY <1>9 DEF ReadForUpdate
  <1>10. ASSUME NEW c \in Call, WriteTerminal(c) PROVE ConversationDecides'
    BY <1>10, LeaveEnds DEF WriteTerminal, Outcome, ReasonsKnown, Reason, NoReply
  <1>11. ASSUME NEW c \in Call, ReleaseLease(c) PROVE ConversationDecides'
    BY <1>11, ReturnForgets DEF ReleaseLease, NoReply
  <1>12. ASSUME NEW c \in Call, RouteLookup(c) PROVE ConversationDecides'
    <2>1. CASE ~known /\ Answer(c, "notFound", None)
      BY <1>12, <2>1, AnswerDecides DEF RouteLookup, Stamp
    <2>2. CASE known /\ Answer(c, "error", None)
      BY <1>12, <2>2, AnswerDecides DEF RouteLookup, Stamp
    <2>3. CASE known /\ UNCHANGED reply
      BY <1>12, <2>3 DEF RouteLookup
    <2> QED
      BY <1>12, <2>1, <2>2, <2>3 DEF RouteLookup
  <1>13. ASSUME NEW c \in Call, RouteClaim(c) PROVE ConversationDecides'
    BY <1>13 DEF RouteClaim
  <1>14. ASSUME NEW c \in Call, RouteCollision(c) PROVE ConversationDecides'
    BY <1>14, AnswerDecides DEF RouteCollision, Marker, Stamp
  <1>15. ASSUME NEW c \in Call, RouteSend(c) PROVE ConversationDecides'
    BY <1>15 DEF RouteSend
  <1>16. ASSUME NEW c \in Call, RouteClear(c) PROVE ConversationDecides'
    BY <1>16, AnswerDecides DEF RouteClear, Stamp
  <1>17. ASSUME NEW c \in Call, RouteUpgrade(c) PROVE ConversationDecides'
    BY <1>17, AnswerDecides DEF RouteUpgrade, Stamp
  <1>18. ASSUME NEW c \in Call, Interrupt(c) PROVE ConversationDecides'
    BY <1>18, ReturnForgets, LeaveEnds DEF Interrupt, NoReply
  <1>19. ASSUME NEW c \in Call, Crash(c) PROVE ConversationDecides'
    BY <1>19, ReturnForgets DEF Crash, NoReply
  <1>20. ASSUME NEW c \in Call, RouteFails(c) PROVE ConversationDecides'
    BY <1>20, AnswerDecides DEF RouteFails, Stamp
  <1>21. CASE LeaseExpires
    BY <1>21 DEF LeaseExpires
  <1>22. CASE ClaimExpires
    BY <1>22 DEF ClaimExpires
  <1>23. CASE UNCHANGED vars
    BY <1>23 DEF vars
  <1> QED
    BY <1>1, <1>2, <1>3, <1>4, <1>5, <1>6, <1>7, <1>8, <1>9, <1>10, <1>11, <1>12, <1>13, <1>14, <1>15, <1>16, <1>17, <1>18, <1>19, <1>20, <1>21, <1>22, <1>23
    DEF Next, CallerSteps, RouteSteps, Failures, Expiries

(* While no claim in use has expired, the marker names whoever may send *)

LEMMA ClaimStep ==
  ASSUME IInv, [Next]_vars
  PROVE  ClaimGuards'
  <1> USE CallAssumption
  <1> USE DEF IInv, ClaimGuards, TypeOK, store, caller, history
  <1>1. ASSUME NEW c \in Call, Triggers(c) PROVE ClaimGuards'
    BY <1>1 DEF Triggers, Fire, ExpireTimer, ExpirySweep, RecoverySweep, Begin
  <1>2. ASSUME NEW c \in Call, SweepChecksLease(c) PROVE ClaimGuards'
    BY <1>2 DEF SweepChecksLease
  <1>3. ASSUME NEW c \in Call, ReadRaw(c) PROVE ClaimGuards'
    BY <1>3 DEF ReadRaw
  <1>4. ASSUME NEW c \in Call, Cas(c) PROVE ClaimGuards'
    BY <1>4 DEF Cas
  <1>5. ASSUME NEW c \in Call, Reread(c) PROVE ClaimGuards'
    BY <1>5 DEF Reread
  <1>6. ASSUME NEW c \in Call, AcquireLease(c) PROVE ClaimGuards'
    BY <1>6 DEF AcquireLease
  <1>7. ASSUME NEW c \in Call, ReadMarker(c) PROVE ClaimGuards'
    BY <1>7 DEF ReadMarker
  <1>8. ASSUME NEW c \in Call, Receive(c) PROVE ClaimGuards'
    BY <1>8 DEF Receive
  <1>9. ASSUME NEW c \in Call, ReadForUpdate(c) PROVE ClaimGuards'
    BY <1>9 DEF ReadForUpdate
  <1>10. ASSUME NEW c \in Call, WriteTerminal(c) PROVE ClaimGuards'
    BY <1>10 DEF WriteTerminal
  <1>11. ASSUME NEW c \in Call, ReleaseLease(c) PROVE ClaimGuards'
    BY <1>11 DEF ReleaseLease
  <1>12. ASSUME NEW c \in Call, RouteLookup(c) PROVE ClaimGuards'
    BY <1>12, AnswerHeard DEF RouteLookup, Stamp
  <1>13. ASSUME NEW c \in Call, RouteClaim(c) PROVE ClaimGuards'
    BY <1>13 DEF RouteClaim, WakesTraced, AttemptTraced
  <1>14. ASSUME NEW c \in Call, RouteCollision(c) PROVE ClaimGuards'
    BY <1>14, AnswerHeard DEF RouteCollision, Marker, Stamp
  <1>15. ASSUME NEW c \in Call, RouteSend(c) PROVE ClaimGuards'
    BY <1>15 DEF RouteSend
  <1>16. ASSUME NEW c \in Call, RouteClear(c) PROVE ClaimGuards'
    <2> SUFFICES ASSUME ~lapsed
                 PROVE  /\ \A d \in Call : route'[d] \in {"send", "upgrade"} =>
                                  marker' = [phase |-> "sending", by |-> d]
                        /\ \A d \in wakes : marker'.by = d
      BY <1>16 DEF RouteClear
    <2>1. /\ c \notin wakes /\ route'[c] = "idle"
          /\ \A d \in Call \ {c} : route'[d] = route[d]
      <3> AttemptTraced(c) /\ route[c] = "clear"
        BY <1>16 DEF RouteClear, WakesTraced
      <3> Answer(c, "error", None) /\ None \in Stamp
        BY <1>16 DEF RouteClear, Stamp
      <3> QED
        BY AnswerHeard DEF AttemptTraced
    <2>2. CASE marker = [phase |-> "sending", by |-> c]
      <3> marker.by = c
        BY <2>2
      <3> wakes = {}
        BY <2>1
      <3> \A d \in Call \ {c} : route[d] \notin {"send", "upgrade"}
        <4> TAKE d \in Call \ {c}
        <4> marker # [phase |-> "sending", by |-> d]
          BY <2>2
        <4> QED
          OBVIOUS
      <3> QED
        BY <2>1
    <2>3. CASE marker # [phase |-> "sending", by |-> c]
      BY <1>16, <2>1, <2>3 DEF RouteClear
    <2> QED
      BY <2>2, <2>3
  <1>17. ASSUME NEW c \in Call, RouteUpgrade(c) PROVE ClaimGuards'
    <2> SUFFICES ASSUME ~lapsed
                 PROVE  /\ \A d \in Call : route'[d] \in {"send", "upgrade"} =>
                                  marker' = [phase |-> "sending", by |-> d]
                        /\ \A d \in wakes : marker'.by = d
      BY <1>17 DEF RouteUpgrade
    <2>1. marker = [phase |-> "sending", by |-> c]
      BY <1>17 DEF RouteUpgrade
    <2>2. marker'.by = marker.by
      BY <1>17, <2>1 DEF RouteUpgrade
    <2>3. \A d \in Call : route'[d] \notin {"send", "upgrade"}
      <3> TAKE d \in Call
      <3>1. route'[c] = "idle" /\ (d # c => route'[d] = route[d])
        BY <1>17, AnswerHeard DEF RouteUpgrade, Stamp
      <3>2. d # c => marker # [phase |-> "sending", by |-> d]
        BY <2>1
      <3> QED
        BY <3>1, <3>2
    <2> QED
      BY <2>2, <2>3
  <1>18. ASSUME NEW c \in Call, Interrupt(c) PROVE ClaimGuards'
    BY <1>18 DEF Interrupt
  <1>19. ASSUME NEW c \in Call, Crash(c) PROVE ClaimGuards'
    BY <1>19 DEF Crash
  <1>20. ASSUME NEW c \in Call, RouteFails(c) PROVE ClaimGuards'
    BY <1>20, AnswerHeard DEF RouteFails, Stamp
  <1>21. CASE LeaseExpires
    BY <1>21 DEF LeaseExpires
  <1>22. CASE ClaimExpires
    <2> SUFFICES ASSUME ~lapsed'
                 PROVE  /\ \A d \in Call : route'[d] \notin {"send", "upgrade"}
                        /\ wakes' = {}
      OBVIOUS
    <2>1. ~lapsed /\ marker.by \notin wakes /\ route[marker.by] # "send"
      BY <1>22 DEF ClaimExpires, ClaimInUse
    <2>2. wakes = {}
      BY <2>1
    <2>3. ASSUME NEW d \in Call PROVE route[d] \notin {"send", "upgrade"}
      <3> route[d] # "upgrade"
        BY <2>2 DEF WakesTraced, AttemptTraced
      <3> route[d] = "send" => marker.by = d
        BY <2>1
      <3> QED
        BY <2>1
    <2> QED
      BY <1>22, <2>2, <2>3 DEF ClaimExpires
  <1>23. CASE UNCHANGED vars
    BY <1>23 DEF vars
  <1> QED
    BY <1>1, <1>2, <1>3, <1>4, <1>5, <1>6, <1>7, <1>8, <1>9, <1>10, <1>11, <1>12, <1>13, <1>14, <1>15, <1>16, <1>17, <1>18, <1>19, <1>20, <1>21, <1>22, <1>23
    DEF Next, CallerSteps, RouteSteps, Failures, Expiries

-----------------------------------------------------------------------------
(* The invariant and what follows from it *)

LEMMA IInvInit == Init => IInv
  <1> USE DEF Init, StartsAs, AtRest
  <1> SUFFICES ASSUME Init PROVE IInv
    OBVIOUS
  <1>1. TypeOK
    <2> Armed \in Record /\ NoMarker \in Marker /\ NoReply \in Reply /\ None \in Stamp
      BY DEF Armed, NoMarker, NoReply, Record, Marker, Reply, Stamp
    <2> "idle" \in PC /\ "idle" \in Route /\ "none" \in Reason \cup {"none"} /\ 0 \in 0..MaxFaults
      BY FaultsAssumption DEF PC, Route
    <2> QED
      BY DEF TypeOK
  <1>2. ReasonsKnown /\ IntentShared
    BY DEF ReasonsKnown, ReasonsHeld, IntentShared, Committed, Holding, Reason, Armed
  <1>3. WakesTraced
    BY DEF WakesTraced, AttemptTraced, Deciding, Reason, Armed, NoMarker, NoReply
  <1>4. ConversationDecides /\ ClaimGuards
    BY DEF ConversationDecides, ClaimGuards, Armed, NoReply
  <1> QED
    BY <1>1, <1>2, <1>3, <1>4 DEF IInv

LEMMA IInvStep == IInv /\ [Next]_vars => IInv'
  <1> SUFFICES ASSUME IInv, [Next]_vars PROVE IInv'
    OBVIOUS
  <1>1. TypeOK' /\ ReasonsKnown'
    BY TypeStep, ReasonsStep DEF IInv, ReasonsKnown
  <1>2. IntentShared'
    BY IntentStep
  <1>3. WakesTraced'
    BY WakesStep
  <1>4. ConversationDecides'
    BY ConversationStep
  <1>5. ClaimGuards'
    BY ClaimStep
  <1> QED
    BY <1>1, <1>2, <1>3, <1>4, <1>5 DEF IInv

(* For every set of attempts and every number of faults, the reachable     *)
(* states satisfy the inductive invariant.                                 *)
THEOREM Invariance == Spec => []IInv
  BY IInvInit, IInvStep, PTL DEF Spec

(* Every variable keeps its type.                                          *)
THEOREM TypeCorrect == Spec => []TypeOK
  <1>1. IInv => TypeOK
    BY DEF IInv
  <1> QED
    BY <1>1, Invariance, PTL

(* A settled record carries the firedAt of a wake the session received,    *)
(* and a failed one belongs to an agent that was never woken (wake.ts,     *)
(* deliverWake and the route's claim).                                     *)
THEOREM RecordMatchesAgentAlways == Spec => []RecordMatchesAgent
  <1>1. IInv => RecordMatchesAgent
    BY DEF IInv, RecordMatchesAgent, WakesTraced, ConversationDecides
  <1> QED
    BY <1>1, Invariance, PTL

(* At most one wake per subscription, unless a claim in use expired.       *)
THEOREM AtMostOneWakeAlways == Spec => []AtMostOneWake
  <1>1. IInv => AtMostOneWake
    BY DEF IInv, AtMostOneWake, ClaimGuards
  <1> QED
    BY <1>1, Invariance, PTL

(* A missed compare-and-swap always finds the intent settled by another.   *)
THEOREM MissedCasIsSettledAlways == Spec => []MissedCasIsSettled
  <1>1. IInv => MissedCasIsSettled
    <2> SUFFICES ASSUME IInv, NEW c \in Call, pc[c] = "cas", raw[c] # sub
                 PROVE  ~Transitionable(sub)
      BY DEF MissedCasIsSettled
    <2>1. sub # Armed
      BY DEF IInv, IntentShared
    <2>2. sub.status # "armed" /\ sub \in Record
      BY <2>1 DEF IInv, ReasonsKnown, TypeOK
    <2>3. sub.status \in {"armed", "delivering"} \cup Terminal
      BY <2>2 DEF Record
    <2>4. sub.status = "delivering" => sub.deliverReason # "none"
      BY DEF IInv, ReasonsKnown, ReasonsHeld, Reason
    <2> QED
      BY <2>2, <2>3, <2>4 DEF Transitionable
  <1> QED
    BY <1>1, Invariance, PTL

-----------------------------------------------------------------------------
(* How one step may change the record, and the refinement *)

(* Only send() wakes anybody.                                              *)
LEMMA WakesChange ==
  ASSUME IInv, [Next]_vars
  PROVE  \/ UNCHANGED wakes
         \/ \E c \in Call : RouteSend(c) /\ wakes' = wakes \cup {c}
  BY DEF Next, vars, history, Triggers, Fire, ExpireTimer, ExpirySweep, RecoverySweep, Begin,
         CallerSteps, SweepChecksLease, ReadRaw, Cas, Reread, AcquireLease, ReadMarker,
         Receive, ReadForUpdate, WriteTerminal, ReleaseLease, RouteSteps, RouteLookup,
         RouteClaim, RouteCollision, RouteSend, RouteClear, RouteUpgrade, Failures,
         Interrupt, Crash, RouteFails, Expiries, LeaseExpires, ClaimExpires

(* A won compare-and-swap commits an armed subscription to the reason.     *)
LEMMA CasCommits ==
  ASSUME IInv, NEW c \in Call, Cas(c)
  PROVE  /\ UNCHANGED <<wakes, lapsed>>
         /\ \/ UNCHANGED sub
            \/ /\ sub.status = "armed"
               /\ sub'.status = "delivering"
               /\ sub'.deliverReason \in Reason
  <1>1. raw[c] = [status |-> "armed", deliverReason |-> "none", firedAt |-> None]
    BY DEF Cas, IInv, IntentShared, Armed
  <1>2. reason[c] \in Reason
    BY DEF Cas, IInv, ReasonsKnown, ReasonsHeld
  <1>3. CASE sub = raw[c] /\ sub' = [raw[c] EXCEPT !.status = "delivering",
                                                !.deliverReason = reason[c]]
    BY <1>1, <1>2, <1>3 DEF Cas, history
  <1>4. CASE UNCHANGED sub
    BY <1>4 DEF Cas, history
  <1> QED
    BY <1>3, <1>4 DEF Cas

(* A terminal write either settles the recorded intent, truthfully, or     *)
(* repeats the terminal status already there.                              *)
LEMMA WriteSettles ==
  ASSUME IInv, NEW c \in Call, WriteTerminal(c)
  PROVE  /\ UNCHANGED <<wakes, lapsed>>
         /\ sub'.deliverReason = "none"
         /\ \/ /\ sub'.status = "failed" /\ wakes = {}
               /\ sub.status \in {"delivering", "failed"}
               /\ sub'.firedAt = None
            \/ /\ sub'.status \in Reason /\ sub'.firedAt \in wakes
               /\ \/ sub.status = "delivering" /\ sub'.status = sub.deliverReason
                  \/ sub.status = sub'.status
  <1>1. /\ pc[c] = "write" /\ reason[c] \in Reason /\ AttemptTraced(c)
        /\ sub' = [status |-> Outcome(c), deliverReason |-> "none",
                   firedAt |-> IF Outcome(c) = "failed" THEN raw[c].firedAt ELSE firedAt[c]]
        /\ UNCHANGED <<wakes, lapsed>>
    BY DEF WriteTerminal, IInv, ReasonsKnown, ReasonsHeld, WakesTraced, history
  <1>2. \/ sub.status = "delivering" /\ sub.deliverReason = reason[c]
        \/ sub.status \in {reason[c], "failed"}
    BY <1>1 DEF IInv, IntentShared, Committed, Holding
  <1>3. CASE reply[c].kind = "notFound"
    <2>1. wakes = {} /\ sub.status \notin Reason
      BY <1>3 DEF IInv, ConversationDecides, WakesTraced
    <2>2. raw[c].firedAt = None
      BY <1>1, <2>1 DEF AttemptTraced
    <2> QED
      BY <1>1, <1>2, <1>3, <2>1, <2>2 DEF Outcome
  <1>4. CASE reply[c].kind # "notFound"
    <2>1. firedAt[c] \in wakes
      BY <1>1, <1>4 DEF AttemptTraced
    <2>2. sub.status # "failed"
      BY <2>1 DEF IInv, ConversationDecides
    <2>3. Outcome(c) = reason[c] /\ reason[c] # "failed"
      BY <1>1, <1>4 DEF Outcome, Reason
    <2> QED
      BY <1>1, <1>2, <2>1, <2>2, <2>3
  <1> QED
    BY <1>3, <1>4

(* No step of any process ever changes a terminal status, and the recorded *)
(* firedAt changes only if the agent was really woken twice.               *)
THEOREM TerminalStaysFinal == Spec => TerminalIsFinal
  <1>1. IInv /\ IInv' /\ [Next]_vars =>
          [sub.status \in Terminal =>
             /\ sub'.status = sub.status
             /\ sub'.firedAt # sub.firedAt => lapsed]_vars
    <2> SUFFICES ASSUME IInv, [Next]_vars, sub.status \in Terminal, sub' # sub
                 PROVE  /\ sub'.status = sub.status
                        /\ sub'.firedAt # sub.firedAt => lapsed
      OBVIOUS
    <2>1. PICK c \in Call : Cas(c) \/ WriteTerminal(c)
      BY RecordChanges
    <2>2. ~Cas(c)
      BY CasCommits DEF Terminal
    <2>3. WriteTerminal(c)
      BY <2>1, <2>2
    <2>4. sub'.status = sub.status
      BY <2>3, WriteSettles DEF IInv, WakesTraced, Terminal, Reason
    <2>5. ASSUME ~lapsed PROVE sub'.firedAt = sub.firedAt
      <3>1. CASE sub.status \in Reason
        <4>1. sub'.firedAt \in wakes /\ sub.firedAt \in wakes
          BY <2>3, <2>4, <3>1, WriteSettles DEF IInv, WakesTraced, Reason
        <4> QED
          BY <2>5, <4>1 DEF IInv, ClaimGuards
      <3>2. CASE sub.status = "failed"
        <4>1. sub'.firedAt = None
          BY <2>3, <2>4, <3>2, WriteSettles DEF Reason
        <4>2. sub.firedAt \in wakes \cup {None} /\ wakes = {}
          BY <3>2 DEF IInv, WakesTraced, ConversationDecides
        <4> QED
          BY <4>1, <4>2
      <3> QED
        BY <3>1, <3>2 DEF Terminal, Reason
    <2> QED
      BY <2>4, <2>5
  <1> QED
    BY <1>1, Invariance, PTL DEF Spec, TerminalIsFinal

(* The pipeline implements the one-shot wake: the won compare-and-swap is  *)
(* Commit, send() is Wake, and the terminal write is Settle or GiveUp.     *)
THEOREM Refinement == Spec => ImplementsOneShotWake
  <1> USE DEF OneShot!vars
  <1>1. Init => OneShot!Init
    BY DEF Init, StartsAs, AtRest, OneShot!Init, Armed
  <1>2. IInv /\ [Next]_vars => [OneShot!Next]_OneShot!vars
    <2> SUFFICES ASSUME IInv, [Next]_vars PROVE [OneShot!Next]_OneShot!vars
      OBVIOUS
    <2>1. CASE UNCHANGED <<sub, wakes>>
      BY <2>1
    <2>2. ASSUME NEW c \in Call, RouteSend(c), wakes' = wakes \cup {c}
          PROVE  [OneShot!Next]_OneShot!vars
      <3>1. sub' = sub /\ wakes' # {}
        BY <2>2 DEF RouteSend, store
      <3>2. CASE wakes # {}
        BY <3>1, <3>2
      <3>3. CASE wakes = {}
        <4>1. sub.status # "failed" /\ sub.status \notin Reason
          BY <2>2, <3>3 DEF IInv, ConversationDecides, WakesTraced, RouteSend
        <4>2. sub.status = "delivering"
          BY <2>2, <4>1 DEF IInv, TypeOK, Record, Terminal, Reason, IntentShared, RouteSend
        <4> QED
          BY <3>1, <3>3, <4>2 DEF OneShot!Next, OneShot!Wake
      <3> QED
        BY <3>2, <3>3
    <2>3. ASSUME NEW c \in Call, Cas(c), sub' # sub PROVE OneShot!Next
      BY <2>3, CasCommits DEF OneShot!Next, OneShot!Commit, OneShot!Reason, Reason
    <2>4. ASSUME NEW c \in Call, WriteTerminal(c) PROVE [OneShot!Next]_OneShot!vars
      <3>1. sub.status = "delivering" => sub.deliverReason \in Reason
        BY DEF IInv, ReasonsKnown, ReasonsHeld
      <3>2. sub.status # "delivering" => sub.deliverReason = "none"
        BY DEF IInv, ReasonsKnown, ReasonsHeld, TypeOK, Record
      <3> QED
        BY <2>4, <3>1, <3>2, WriteSettles
        DEF OneShot!Next, OneShot!Settle, OneShot!GiveUp, Reason
    <2> QED
      BY <2>1, <2>2, <2>3, <2>4, RecordChanges, WakesChange
  <1> QED
    BY <1>1, <1>2, Invariance, PTL DEF Spec, ImplementsOneShotWake, OneShot!Spec
================================================================================
