------------------------------ MODULE MCEveProcess ------------------------------
(***************************************************************************)
(* What runs in the eve process: its three watchers, the turn cap and the  *)
(* conversation.  They share no state, so one run explores them one at a   *)
(* time: Init chooses the component that is `explored`, the others stand   *)
(* still in a single state.                                                *)
(***************************************************************************)
EXTENDS ClockProvider, EdgarWatcher, AlpacaPriceStream, AlpacaOrderStream, TurnCap, Conversation

CONSTANTS Components, \* those that a run explores
          Conditions  \* the circumstances in which it explores the prices

VARIABLE explored

ASSUME EveAssumption ==
  /\ ClockAssumption /\ EdgarWatcherAssumption /\ AlpacaPriceStreamAssumption
  /\ AlpacaOrderStreamAssumption /\ ConversationAssumption
  /\ Components \subseteq {"clock", "edgar", "prices", "orders", "cap", "conversation"}
  /\ Conditions \subseteq SUBSET Circumstances

vars ==
  <<explored, timersVars, watcherVars, priceVars, orderVars, capVars, convVars>>

(* A component that is not explored keeps to one of its initial states. *)
Init ==
  /\ explored \in Components
  /\ TimersInit /\ WatcherInit /\ PriceInit /\ OrderInit /\ CapInit /\ ConversationInit
  /\ IF explored = "prices"
       THEN circumstances \in Conditions
       ELSE circumstances = {} /\ feed = "iex" /\ market = <<CHOOSE p \in Price : TRUE>>
  /\ explored # "conversation" => ~ atOnce /\ ~ anytime

(* One component steps, the others stand still. *)
Rest(component) ==
  /\ UNCHANGED explored
  /\ IF component = "clock" THEN TRUE ELSE UNCHANGED timersVars
  /\ IF component = "edgar" THEN TRUE ELSE UNCHANGED watcherVars
  /\ IF component = "prices" THEN TRUE ELSE UNCHANGED priceVars
  /\ IF component = "orders" THEN TRUE ELSE UNCHANGED orderVars
  /\ IF component = "cap" THEN TRUE ELSE UNCHANGED capVars
  /\ IF component = "conversation" THEN TRUE ELSE UNCHANGED convVars

Next ==
  \/ explored = "clock" /\ TimersNext /\ Rest("clock")
  \/ explored = "edgar" /\ WatcherNext /\ Rest("edgar")
  \/ explored = "prices" /\ PriceNext /\ Rest("prices")
  \/ explored = "orders" /\ OrderNext /\ Rest("orders")
  \/ explored = "cap" /\ CapNext /\ Rest("cap")
  \/ explored = "conversation" /\ ConversationNext /\ Rest("conversation")

Spec == Init /\ [][Next]_vars

(* What the component that is explored assumes of its scheduling. *)
Fairness ==
  \/ explored = "clock" /\ TimersFairness
  \/ explored = "edgar" /\ WatcherFairness
  \/ explored = "orders" /\ OrderFairness
  \/ explored = "conversation" /\ ConversationFairness

FairSpec == Spec /\ Fairness

-----------------------------------------------------------------------------
(* Properties of the components *)

(* Every variable keeps its type. *)
Types ==
  /\ TimersTypeOK /\ WatcherTypeOK /\ PriceTypeOK
  /\ OrderTypeOK /\ CapTypeOK /\ ConversationTypeOK

(* The clock's timers and records are those of the subscriptions that still
   need them: none after disarm(), whatever attempt was in flight, no record
   without a timer or an attempt, no armed subscription without either
   (src/catalog/providers/clock.ts:46-54, 98-150). *)
TimersMatchRecords == NoTimerAfterDisarm /\ NoRecordLeaks /\ ArmedIsWatched

(* Each watcher keeps up exactly the watches that somebody has claimed: one
   live poll loop per CIK whose cached promise is good
   (src/catalog/providers/edgar.ts:84-160, 200-228), a symbol subscribed
   while it is watched, a trade_updates stream while an order is routed to
   it, and nothing left of what has ended
   (src/catalog/providers/alpaca.ts:154-156, 179-188, 245-246, 336-339). *)
WatchesMatchClaims ==
  /\ OnePollLoop /\ ClaimIsLive /\ CachedPromiseIsGood
  /\ SubscribedWhileWatched /\ StreamWhileRouted /\ NoEntryLeft

(* A price wake tells of a crossing from a price that was current since the
   arming, as far as the API's answer keeps to the stream's order, and an
   order wake of an order that has ended, whatever is lost or out of order;
   and while the connection holds and the seed keeps its order, or is a tick,
   no crossing is missed
   (src/catalog/providers/alpaca.ts:108-143, 166-170, 234-243, 353-356). *)
WakesAreTrue == NoFalseCrossing /\ NoFalseOrderWake /\ NothingMissed

(* The recorded session finds its conversation, with one chat at a time no
   other session does, and a session that lives from subscription to wake is
   woken once (src/catalog/registry.ts:257-281, src/catalog/wake.ts:80-85). *)
ConversationIsReached == RecordIsIndexed /\ OnlyTheRecordIsIndexed /\ WokenOnce

(* A timer that is due, a filing that is news to a watch and an order that
   ends while the stream is up wake whoever waits for them, and every arm
   returns: armed, or failed with nothing kept
   (src/catalog/providers/clock.ts:98-134, edgar.ts:162-228, alpaca.ts:327-333
   and src/catalog/wake.ts:794-806). *)
WatchersWake ==
  /\ explored = "clock" => ClockFires
  /\ explored = "edgar" => NewFilingWakes /\ WatchArmEnds
  /\ explored = "orders" => TerminalOrderWakes /\ OrderArmEnds

(* A wake that has begun is settled, over the cap or not, and after a reload
   the record comes to name the live session again although repeated wakes
   use up the same daily cap
   (src/catalog/registry.ts:257-261, src/agent/channels/catalog.ts:93-98). *)
ConversationHeals == explored = "conversation" => WakeSettles /\ RecordHeals

-----------------------------------------------------------------------------
(* Values of the constants *)

EveryFiling == [s \in Sub |-> Filing]
OneOrder == [s \in OrderSubs |-> "o1"]
TwoOrders == [s \in OrderSubs |-> IF s = "s3" THEN "o2" ELSE "o1"]
================================================================================
