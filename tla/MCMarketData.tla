------------------------------ MODULE MCMarketData ------------------------------
(***************************************************************************)
(* Small instances of the connector's Alpaca session: its fenced cursor    *)
(* writes, the price session with its gap replays, the replay itself over  *)
(* timestamps, and the reconciliation of orders.  They share no state, so  *)
(* one run explores them one at a time: MarketInit chooses `explored`, the *)
(* others stand still.                                                     *)
(***************************************************************************)
EXTENDS FencedCursor, AlpacaSession, GapReplay, OrderReconciliation

CONSTANTS Components, \* those that a run explores
          Conditions  \* the circumstances in which it explores the price session

VARIABLE explored

marketVars == <<explored, vars, pricesVars, gapVars, ordersVars>>

ASSUME MarketAssumption ==
  /\ FencedCursorAssumption /\ AlpacaSessionAssumption
  /\ GapReplayAssumption /\ OrderReconciliationAssumption
  /\ Conditions \subseteq SUBSET Circumstances

(* Values of the constants that are functions, for the cfgs. *)
Listing == <<"s1", "s2", "s3">>
ShortListing == <<"s1", "s2">>
SharedOrder == [s \in OrderSubs |-> IF s = "s3" THEN "o2" ELSE "o1"]
OrderEach == [s \in OrderSubs |-> IF s = "s2" THEN "o2" ELSE "o1"]

-----------------------------------------------------------------------------
(* Timestamps with their nanoseconds from every exchange, or timestamps that
   were cut to milliseconds on the way, from one. *)
Timestamped ==
  \/ liveRaw /\ restRaw /\ venues = Exchange
  \/ ~ liveRaw /\ ~ restRaw /\ venues = {1}

(* What is not explored starts in one state only. *)
MarketInit ==
  /\ explored \in Components
  /\ Init /\ PricesInit /\ GapInit /\ OrdersInit
  /\ sessions = IF circumstances = {} THEN 0 ELSE MaxSessions - 1
  /\ IF explored = "prices" THEN circumstances \in Conditions
                            ELSE circumstances = {} /\ market = <<1>>
  /\ Timestamped
  /\ explored # "gap" =>
       /\ direction = "below" /\ liveRaw
       /\ tape = <<[ms |-> 1, ns |-> 0, exchange |-> 1, id |-> 1, price |-> 1]>>

(* One component steps, the others stand still. *)
MarketNext ==
  \/ explored = "fenced" /\ Next /\ UNCHANGED <<explored, pricesVars, gapVars, ordersVars>>
  \/ explored = "prices" /\ PricesNext /\ UNCHANGED <<explored, vars, gapVars, ordersVars>>
  \/ explored = "gap" /\ GapNext /\ UNCHANGED <<explored, vars, pricesVars, ordersVars>>
  \/ explored = "orders" /\ OrdersNext /\ UNCHANGED <<explored, vars, pricesVars, gapVars>>

MarketSpec == MarketInit /\ [][MarketNext]_marketVars

(* What the component that is explored assumes of its scheduling. *)
MarketFairness ==
  \/ explored = "fenced" /\ Fairness
  \/ explored = "prices" /\ PricesFairness
  \/ explored = "orders" /\ OrdersFairness

MarketFairSpec == MarketSpec /\ MarketFairness

-----------------------------------------------------------------------------
(* Properties of the components; IInv, CleanEndPersists, NeverRegresses,
   ReplayIsUninterrupted and CoveredWhileSteady are their own *)

(* Every variable keeps its type. *)
Types == TypeOK /\ PricesTypeOK /\ GapTypeOK /\ OrdersTypeOK

(* A wake is for what happened after the subscription: the trade that crossed
   ("never replay/credit a crossing from before a subscription existed"), or
   the end of its order; no crossing is lost in a gap, and a live trade is
   judged against the trade before it
   (src/connector/lib/alpaca-session.ts, src/catalog/providers/gap-replay.ts). *)
WakesAreTrue ==
  /\ circumstances \subseteq {"quiet", "young", "failure", "flap"} => NoFalsePriceWake
  /\ circumstances = {} => WakesAtCrossing /\ NothingMissed /\ PreviousIsCurrent
  /\ NoFalseOrderWake

(* A shutdown gets through both drains although writes are rejected, a
   crossing after the seed wakes its subscription, and an order that ends
   wakes its own although its update is lost
   (src/connector/lib/serial-queue.ts, alpaca-session.ts:671). *)
SessionsComplete ==
  /\ explored = "fenced" => ShutdownEnds
  /\ explored = "prices" => CrossingWakes
  /\ explored = "orders" => TerminalOrderWakes
================================================================================
