--------------------------- MODULE AlpacaOrderStream ---------------------------
(***************************************************************************)
(* order.filled in the eve process (src/catalog/providers/alpaca.ts): the  *)
(* shared stream of trade updates, opened by the first subscription and    *)
(* closed after the last, the routing table and the check of the order     *)
(* when a subscription is armed.  wake.ts is reduced to what it does to    *)
(* the provider: one delivery per subscription, then a disarm.             *)
(***************************************************************************)
EXTENDS Naturals, FiniteSets

CONSTANTS OrderSubs, Orders, OrderOf,
          MaxRejections, MaxOrderDrops, \* bounds on what the server may do
          Reauth \* whether a stream that has worked may be rejected later

AlpacaOrderStreamAssumption ==
  /\ OrderOf \in [OrderSubs -> Orders]
  /\ MaxRejections \in Nat /\ MaxOrderDrops \in Nat /\ Reauth \in BOOLEAN

VARIABLES
  orderSub,  \* the registry's status of each subscription
  order,  \* the broker's status of each order
  tradingStream, \* tradingStream and what has become of it
  acked,  \* tradingStreamListening has resolved
  orderWire,  \* terminal updates on their way
  routed, \* orderFilledSubs
  orderTask,  \* where armOrderFilled is in each subscription's arm
  orderAnswer, \* what getOrder has answered
  rejections, orderDrops

env == <<rejections, orderDrops>>
orderConnection == <<tradingStream, acked, orderWire>>
orderVars == <<orderSub, order, orderConnection, routed, orderTask, orderAnswer, env>>

Working == {"authenticated", "listening"}

OrderTypeOK ==
  /\ orderSub \in [OrderSubs -> {"new", "armed", "delivering", "fired", "expired", "failed"}]
  /\ order \in [Orders -> {"open", "terminal"}]
  /\ tradingStream \in {"none", "connecting", "authenticated", "listening", "down", "rejected"}
  /\ acked \in BOOLEAN /\ orderWire \subseteq Orders /\ routed \subseteq OrderSubs
  /\ orderTask \in [OrderSubs -> {"idle", "auth", "ack", "asking", "lost"}]
  /\ orderAnswer \in [OrderSubs -> {"none", "open", "terminal"}]
  /\ rejections \in 0..MaxRejections /\ orderDrops \in 0..MaxOrderDrops

OrderInit ==
  /\ orderSub = [s \in OrderSubs |-> "new"] /\ order = [o \in Orders |-> "open"]
  /\ tradingStream = "none" /\ acked = FALSE /\ orderWire = {} /\ routed = {}
  /\ orderTask = [s \in OrderSubs |-> "idle"] /\ orderAnswer = [s \in OrderSubs |-> "none"]
  /\ rejections = 0 /\ orderDrops = 0

-----------------------------------------------------------------------------
(* The server *)

OrderEnds(o) ==
  /\ order[o] = "open"
  /\ order' = [order EXCEPT ![o] = "terminal"]
  /\ orderWire' = IF tradingStream = "listening" THEN orderWire \cup {o} ELSE orderWire
  /\ UNCHANGED <<orderSub, tradingStream, acked, routed, orderTask, orderAnswer, env>>

(* The awaits of an arm that have nothing to wait for pass at once.  The
   acknowledgement is a promise of the stream: resolved once, it stays
   resolved, whatever happens to the connection. *)
Passes(at, from, to) == [s \in OrderSubs |-> IF at[s] = from THEN to ELSE at[s]]

(* Mutant: every arm waits for an acknowledgement of its own. *)
AfterAuth_Afresh == "ack"

AfterAuth == IF acked THEN "asking" ELSE "ack"

TradingAuthenticated ==
  /\ tradingStream \in {"connecting", "down"}
  /\ tradingStream' = "authenticated"
  /\ orderTask' = Passes(orderTask, "auth", AfterAuth)
  /\ UNCHANGED <<orderSub, order, acked, orderWire, routed, orderAnswer, env>>

(* onConnect asks for the updates, the server acknowledges. *)
Listening ==
  /\ tradingStream = "authenticated"
  /\ tradingStream' = "listening" /\ acked' = TRUE
  /\ orderTask' = Passes(orderTask, "ack", "asking")
  /\ UNCHANGED <<orderSub, order, orderWire, routed, orderAnswer, env>>

TradingRejected ==
  /\ tradingStream = "connecting" \/ (Reauth /\ tradingStream = "down")
  /\ rejections < MaxRejections
  /\ rejections' = rejections + 1 /\ tradingStream' = "rejected"
  /\ UNCHANGED <<orderSub, order, acked, orderWire, routed, orderTask, orderAnswer, orderDrops>>

TradingDrops ==
  /\ tradingStream \in Working /\ orderDrops < MaxOrderDrops
  /\ orderDrops' = orderDrops + 1
  /\ tradingStream' = "down" /\ orderWire' = {}
  /\ UNCHANGED <<orderSub, order, acked, routed, orderTask, orderAnswer, rejections>>

-----------------------------------------------------------------------------
(* The table and the stream *)

(* Mutant: an empty table keeps its stream. *)
Keeps_Always(left) == TRUE

(* maybeCloseTradingStream, after unregisterOrderFilledSub *)
Keeps(left) == left # {}

(* closeTradingStream: who waits for its acknowledgement waits for ever. *)
Close(after) ==
  /\ tradingStream' = "none" /\ acked' = FALSE /\ orderWire' = {}
  /\ orderTask' = [s \in OrderSubs |-> IF after[s] = "ack" THEN "lost" ELSE after[s]]

Unregister(gone, after) ==
  /\ routed' = routed \ gone
  /\ IF Keeps(routed \ gone) THEN orderTask' = after /\ UNCHANGED orderConnection ELSE Close(after)

IdleTask(s) == [orderTask EXCEPT ![s] = "idle"]

-----------------------------------------------------------------------------
(* wake.ts *)

(* tryTransitionToDelivering *)
Claim(targets) ==
  orderSub' = [s \in OrderSubs |->
                 IF s \in targets /\ orderSub[s] = "armed" THEN "delivering" ELSE orderSub[s]]

(* deliverWake's end: the terminal status, then disarm. *)
OrderDelivered(s) ==
  /\ orderSub[s] = "delivering"
  /\ orderSub' = [orderSub EXCEPT ![s] = "fired"]
  /\ Unregister({s}, orderTask)
  /\ UNCHANGED <<order, orderAnswer, env>>

(* The timer starts when arm has returned. *)
OrderExpires(s) ==
  /\ orderSub[s] = "armed" /\ orderTask[s] = "idle"
  /\ orderSub' = [orderSub EXCEPT ![s] = "expired"]
  /\ Unregister({s}, orderTask)
  /\ UNCHANGED <<order, orderAnswer, env>>

-----------------------------------------------------------------------------
(* armOrderFilled *)

(* Mutant: the routing entry is left to the end of the arm. *)
RegisterOrderFilledSub_Not(s) == UNCHANGED routed

registerOrderFilledSub(s) == routed' = routed \cup {s}

(* Up to the first await: the entry in the table, then ensureTradingStream. *)
ArmOrder(s) ==
  /\ orderSub[s] = "new"
  /\ orderSub' = [orderSub EXCEPT ![s] = "armed"]
  /\ orderTask' = [orderTask EXCEPT ![s] = IF tradingStream \in Working THEN AfterAuth ELSE "auth"]
  /\ registerOrderFilledSub(s)
  /\ tradingStream' = IF tradingStream = "none" THEN "connecting" ELSE tradingStream
  /\ UNCHANGED <<order, acked, orderWire, orderAnswer, env>>

ToFailed(failing) ==
  orderSub' = [s \in OrderSubs |->
                 IF s \in failing /\ orderSub[s] = "armed" THEN "failed" ELSE orderSub[s]]

(* Mutant: the entry of a failed arm stays. *)
FailedEntries_Kept(failing) == {}

FailedEntries(failing) == failing

(* All who wait for the authentication hear of the rejection at once; the
   first of them drops the stream. *)
NotAuthenticated ==
  LET failing == {s \in OrderSubs : orderTask[s] = "auth"}
  IN /\ tradingStream = "rejected" /\ failing # {}
     /\ ToFailed(failing)
     /\ routed' = routed \ FailedEntries(failing)
     /\ Close([s \in OrderSubs |-> IF s \in failing THEN "idle" ELSE orderTask[s]])
     /\ UNCHANGED <<order, orderAnswer, env>>

(* The broker answers getOrder; the answer takes its time. *)
OrderAnswered(s) ==
  /\ orderTask[s] = "asking" /\ orderAnswer[s] = "none"
  /\ orderAnswer' = [orderAnswer EXCEPT ![s] = order[OrderOf[s]]]
  /\ UNCHANGED <<orderSub, order, orderConnection, routed, orderTask, env>>

(* Mutant: any answer wakes. *)
SeedWakes_Any(s) == orderAnswer[s] # "none"

SeedWakes(s) == orderAnswer[s] = "terminal"

ArmReturns(s) ==
  /\ orderTask[s] = "asking" /\ orderAnswer[s] # "none"
  /\ Claim({t \in {s} : SeedWakes(t)})
  /\ orderTask' = IdleTask(s) /\ orderAnswer' = [orderAnswer EXCEPT ![s] = "none"]
  /\ UNCHANGED <<order, orderConnection, routed, env>>

GetOrderFails(s) ==
  /\ orderTask[s] = "asking"
  /\ ToFailed({s}) /\ Unregister(FailedEntries({s}), IdleTask(s))
  /\ orderAnswer' = [orderAnswer EXCEPT ![s] = "none"]
  /\ UNCHANGED <<order, env>>

(* Every watcher of the order. *)
subscriptionsForOrderUpdate(o) == {s \in routed : OrderOf[s] = o}

handleTradeUpdate(o) ==
  /\ o \in orderWire
  /\ orderWire' = orderWire \ {o}
  /\ Claim(subscriptionsForOrderUpdate(o))
  /\ UNCHANGED <<order, tradingStream, acked, routed, orderTask, orderAnswer, env>>

-----------------------------------------------------------------------------
OrderNext ==
  \/ \E o \in Orders : OrderEnds(o) \/ handleTradeUpdate(o)
  \/ TradingAuthenticated \/ Listening \/ TradingRejected \/ TradingDrops \/ NotAuthenticated
  \/ \E s \in OrderSubs : ArmOrder(s) \/ OrderAnswered(s) \/ ArmReturns(s)
                          \/ GetOrderFails(s) \/ OrderDelivered(s) \/ OrderExpires(s)

OrderSpec == OrderInit /\ [][OrderNext]_orderVars

(* The process's own steps, the server's answers, and an update that is sent. *)
OrderFairness ==
  /\ WF_orderVars(TradingAuthenticated \/ TradingRejected)
  /\ WF_orderVars(Listening) /\ WF_orderVars(NotAuthenticated)
  /\ \A s \in OrderSubs : /\ WF_orderVars(OrderAnswered(s))
                          /\ WF_orderVars(ArmReturns(s) \/ GetOrderFails(s))
                          /\ WF_orderVars(OrderDelivered(s))
  /\ \A o \in Orders : WF_orderVars(handleTradeUpdate(o))

OrderFairSpec == OrderSpec /\ OrderFairness

-----------------------------------------------------------------------------
(* Properties *)

(* A wake is for an order that has ended
   (src/catalog/providers/alpaca.ts:234-243, 353-356). *)
NoFalseOrderWake ==
  \A s \in OrderSubs : orderSub[s] \in {"delivering", "fired"} => order[OrderOf[s]] = "terminal"

(* The shared stream is there exactly while somebody watches an order
   (src/catalog/providers/alpaca.ts:245-246). *)
StreamWhileRouted == tradingStream # "none" <=> routed # {}

(* When a subscription has ended and its arm too, nothing of it is left in
   the table (src/catalog/providers/alpaca.ts:336-339). *)
NoEntryLeft ==
  \A s \in OrderSubs : orderSub[s] \in {"new", "fired", "expired", "failed"} => s \notin routed

(* Whoever waits for an order that has ended is woken, unless the
   subscription expires or could not be armed, wherever the end falls between
   the steps of the arm (src/catalog/providers/alpaca.ts:327-333). *)
TerminalOrderWakes ==
  \A s \in OrderSubs :
    (orderSub[s] = "armed" /\ order[OrderOf[s]] = "terminal") ~> orderSub[s] # "armed"

(* Every arm comes to an end; the arms of a conversation wait for each other
   (src/catalog/wake.ts:794-806). *)
OrderArmEnds == \A s \in OrderSubs : orderTask[s] # "idle" ~> orderTask[s] = "idle"

-----------------------------------------------------------------------------
(* The inductive invariant behind them *)

NewsIsTrue ==
  /\ \A o \in orderWire : order[o] = "terminal"
  /\ \A s \in OrderSubs : orderAnswer[s] = "terminal" => order[OrderOf[s]] = "terminal"

(* Before the first authentication everyone in the table waits for it, so   *)
(* that a rejection concerns them all.                                      *)
AllWaitForAuth ==
  ~ Reauth /\ tradingStream \in {"connecting", "rejected"} =>
    \A s \in routed : orderTask[s] = "auth"

OrderInv ==
  /\ OrderTypeOK /\ NoFalseOrderWake /\ NewsIsTrue /\ NoEntryLeft
  /\ AllWaitForAuth /\ (~ Reauth => StreamWhileRouted)

================================================================================
