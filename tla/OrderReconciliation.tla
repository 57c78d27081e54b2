-------------------------- MODULE OrderReconciliation --------------------------
(***************************************************************************)
(* The order.filled leg of the connector's sessions: one account-wide      *)
(* stream of trade updates and a routing table, a connection that may drop *)
(* them, and the reconciliation that asks the REST API about a batch of    *)
(* the watched orders at every tick of a session                           *)
(* (src/catalog/providers/order-reconciliation.ts and the orders' part of  *)
(* src/connector/lib/alpaca-session.ts).  A delivery is one step           *)
(* (WakeDelivery has its own steps) and there is one session at a time     *)
(* (FencedCursor and RunForever have two).                                 *)
(***************************************************************************)
EXTENDS Naturals, Sequences, FiniteSets, SequencesExt, SortedSequences

CONSTANTS OrderSubs, Orders, OrderOf, \* the subscriptions and the orders they watch
          Index,        \* the order in which the registry lists the subscriptions
          BatchSize,    \* ORDER_RECONCILIATION_BATCH_SIZE
          SessionTicks, \* membership ticks of a session
          MaxCrashes,   \* bound: sessions that end at an arbitrary step
          None,
          Churn         \* whether new subscriptions keep coming, in the places of old ones

OrderReconciliationAssumption ==
  /\ IsFiniteSet(OrderSubs) /\ OrderSubs # {} /\ None \notin OrderSubs
  /\ OrderOf \in [OrderSubs -> Orders]
  /\ Index \in [1..Cardinality(OrderSubs) -> OrderSubs] /\ IsInjective(Index)
  /\ BatchSize \in Nat \ {0} /\ SessionTicks \in Nat \ {0}
  /\ MaxCrashes \in Nat /\ Churn \in BOOLEAN

VARIABLES
  orderSub, \* the registry: the status of each subscription
  order,    \* the broker: whether an order is open or has a terminal status
  orderSession, ticks, crashes,
  orderConn, frames, \* the stream; terminal updates on their way
  route,    \* orderSubsById
  offset,   \* orderReconciliationOffset
  sweep,    \* the reconciliation that is under way
  listed, steady, passed \* history: the last list, the ticks it has not changed for,
                         \* the batches that have left a listed subscription out

stream == <<orderConn, frames>>
history == <<listed, steady, passed>>
ordersVars ==
  <<orderSub, order, orderSession, ticks, crashes, stream, route, offset, sweep, history>>

NoSweep == [at |-> "idle", batch |-> <<>>, asked |-> {}, terminal |-> {}]
Ceiling(n) == (n + BatchSize - 1) \div BatchSize
Most == Ceiling(Cardinality(OrderSubs)) + 1 \* where the counts of ticks saturate

OrdersTypeOK ==
  /\ orderSub \in [OrderSubs -> {"new", "armed", "fired", "expired"}]
  /\ order \in [Orders -> {"open", "terminal"}]
  /\ orderSession \in {"off", "on"} /\ ticks \in 0..SessionTicks + 1 /\ crashes \in 0..MaxCrashes
  /\ orderConn \in {"up", "down"} /\ frames \subseteq Orders
  /\ route \in [Orders -> OrderSubs \cup {None}]
  /\ offset \in 0..Cardinality(OrderSubs) - 1
  /\ sweep.at \in {"idle", "asking"} /\ Len(sweep.batch) <= BatchSize
  /\ Range(sweep.batch) \subseteq OrderSubs /\ IsInjective(sweep.batch)
  /\ sweep.asked \subseteq Orders /\ sweep.terminal \subseteq Orders
  /\ Range(listed) \subseteq OrderSubs
  /\ steady \in 0..Most /\ passed \in [OrderSubs -> 0..Most]

OrdersInit ==
  /\ orderSub = [s \in OrderSubs |-> "new"] /\ order = [o \in Orders |-> "open"]
  /\ orderSession = "off" /\ ticks = 0 /\ crashes = 0
  /\ orderConn = "down" /\ frames = {}
  /\ route = [o \in Orders |-> None] /\ offset = 0 /\ sweep = NoSweep
  /\ listed = <<>> /\ steady = 0 /\ passed = [s \in OrderSubs |-> 0]

-----------------------------------------------------------------------------
(* The registry and the broker *)

OrderArmed(s) == orderSub[s] = "armed"

ArmOrder(s) ==
  /\ orderSub[s] = "new" \/ (Churn /\ orderSub[s] \in {"fired", "expired"})
  /\ orderSub' = [orderSub EXCEPT ![s] = "armed"]
  /\ passed' = [passed EXCEPT ![s] = 0]
  /\ UNCHANGED <<order, orderSession, ticks, crashes, stream, route, offset, sweep, listed, steady>>

OrderExpires(s) ==
  /\ OrderArmed(s)
  /\ orderSub' = [orderSub EXCEPT ![s] = "expired"]
  /\ UNCHANGED <<order, orderSession, ticks, crashes, stream, route, offset, sweep, history>>

(* The broker's side of connectTradingStream: an update is sent once, to the
   connection that is there. *)
OrderEnds(o) ==
  /\ order[o] = "open"
  /\ order' = [order EXCEPT ![o] = "terminal"]
  /\ frames' = IF orderConn = "up" THEN frames \cup {o} ELSE frames
  /\ UNCHANGED <<orderSub, orderSession, ticks, crashes, orderConn, route, offset, sweep, history>>

TradingDrops ==
  /\ orderConn = "up"
  /\ orderConn' = "down" /\ frames' = {}
  /\ UNCHANGED <<orderSub, order, orderSession, ticks, crashes, route, offset, sweep, history>>

(* onConnect subscribes to the updates again. *)
TradingReconnects ==
  /\ orderSession = "on" /\ orderConn = "down"
  /\ orderConn' = "up"
  /\ UNCHANGED <<orderSub, order, orderSession, ticks, crashes, frames, route, offset, sweep,
                 history>>

-----------------------------------------------------------------------------
(* Deliveries *)

(* tryTransitionToDelivering lets only an armed subscription through. *)
DeliverOrders(targets) ==
  orderSub' = [s \in OrderSubs |-> IF s \in targets /\ OrderArmed(s) THEN "fired" ELSE orderSub[s]]

(* A live update goes to the subscription the table has for its order.  A
   delivery that fails is not tried again. *)
handleLiveTradeUpdate(o) ==
  /\ orderSession = "on" /\ o \in frames
  /\ frames' = frames \ {o}
  /\ \/ DeliverOrders({route[o]})
     \/ UNCHANGED orderSub
  /\ UNCHANGED <<order, orderSession, ticks, crashes, orderConn, route, offset, sweep, history>>

-----------------------------------------------------------------------------
(* The reconciliation *)

(* Mutant: the batch starts at the head of the list whatever the offset. *)
TakeReconciliationBatch_Head(items, from) ==
  SubSeq(items, 1, IF BatchSize < Len(items) THEN BatchSize ELSE Len(items))

takeReconciliationBatch(items, from) ==
  LET n == Len(items) size == IF BatchSize < n THEN BatchSize ELSE n
  IN [i \in 1..size |-> items[((from + i - 1) % n) + 1]]

(* readDesiredAlpacaOrderSubscriptions *)
DesiredOrders == Filtered(Index, {i \in DOMAIN Index : OrderArmed(Index[i])})

Rotated(list, batch) == (offset + Len(batch)) % Len(list)

(* Of several subscriptions to one order the last one has the route. *)
Routing(list) ==
  [o \in Orders |-> LET watching == {i \in DOMAIN list : OrderOf[list[i]] = o}
                    IN IF watching = {} THEN None ELSE list[Max(watching)]]

Saturated(n) == IF n < Most THEN n + 1 ELSE Most

Observe(list, batch) ==
  /\ listed' = list
  /\ steady' = IF list = listed THEN Saturated(steady) ELSE 0
  /\ passed' = [s \in OrderSubs |-> IF s \in Range(list) /\ s \notin Range(batch)
                                    THEN Saturated(passed[s]) ELSE 0]

(* recheckOrderMembership and the same lines at the start of a session: the
   table, the batch and the offset, up to the first REST call. *)
Reconcile ==
  LET list == DesiredOrders batch == takeReconciliationBatch(list, offset)
  IN /\ route' = Routing(list)
     /\ IF list = <<>>
        THEN UNCHANGED <<offset, sweep>> /\ Observe(list, <<>>)
        ELSE /\ offset' = Rotated(list, batch)
             /\ sweep' = [at |-> "asking", batch |-> batch,
                          asked |-> {OrderOf[s] : s \in Range(batch)}, terminal |-> {}]
             /\ Observe(list, batch)

IsTerminal(o) == order[o] = "terminal"

(* One of the lookups getOrderStatuses makes at the same time. *)
Lookup(o) ==
  /\ o \in sweep.asked
  /\ sweep' = [sweep EXCEPT !.asked = @ \ {o},
                            !.terminal = IF IsTerminal(o) THEN @ \cup {o} ELSE @]
  /\ UNCHANGED <<orderSub, order, orderSession, ticks, crashes, stream, route, offset, history>>

(* A rejected lookup leaves its order to a later tick. *)
LookupFails(o) ==
  /\ o \in sweep.asked
  /\ sweep' = [sweep EXCEPT !.asked = @ \ {o}]
  /\ UNCHANGED <<orderSub, order, orderSession, ticks, crashes, stream, route, offset, history>>

(* Mutant: every decision goes to the first subscription of the batch. *)
FirstFor_Head(o) == sweep.batch[1]

(* batch.find *)
FirstFor(o) == sweep.batch[Min({i \in DOMAIN sweep.batch : OrderOf[sweep.batch[i]] = o})]

(* reconcileOrderStatuses emits one decision per order; the tick ends when
   all are delivered. *)
DecideOrders ==
  /\ sweep.at = "asking" /\ sweep.asked = {}
  /\ DeliverOrders({FirstFor(o) : o \in sweep.terminal})
  /\ sweep' = NoSweep
  /\ UNCHANGED <<order, orderSession, ticks, crashes, stream, route, offset, history>>

-----------------------------------------------------------------------------
(* The session *)

(* runFencedAlpacaSession: a new context and stream, and the first sweep once
   the server has acknowledged the subscription to the updates. *)
StartOrders ==
  /\ orderSession = "off"
  /\ orderSession' = "on" /\ ticks' = 0
  /\ orderConn' = "up"
  /\ Reconcile
  /\ UNCHANGED <<orderSub, order, crashes, frames>>

recheckOrderMembership ==
  /\ orderSession = "on" /\ sweep.at = "idle" /\ ticks < SessionTicks
  /\ ticks' = ticks + 1
  /\ Reconcile
  /\ UNCHANGED <<orderSub, order, orderSession, crashes, stream>>

OrdersEnd ==
  /\ orderSession' = "off" /\ ticks' = 0
  /\ orderConn' = "down" /\ frames' = {}
  /\ route' = [o \in Orders |-> None] /\ offset' = 0 /\ sweep' = NoSweep
  /\ listed' = <<>> /\ steady' = 0 /\ UNCHANGED passed
  /\ UNCHANGED <<orderSub, order>>

EndOrders ==
  /\ orderSession = "on" /\ sweep.at = "idle" /\ ticks = SessionTicks
  /\ OrdersEnd
  /\ UNCHANGED crashes

(* The step fails: the process ends, or a delivery of the sweep rejects. *)
CrashOrders ==
  /\ orderSession = "on" /\ crashes < MaxCrashes
  /\ crashes' = crashes + 1
  /\ OrdersEnd

-----------------------------------------------------------------------------
OrdersNext ==
  \/ \E s \in OrderSubs : ArmOrder(s) \/ OrderExpires(s)
  \/ \E o \in Orders : OrderEnds(o) \/ handleLiveTradeUpdate(o) \/ Lookup(o) \/ LookupFails(o)
  \/ TradingDrops \/ TradingReconnects
  \/ StartOrders \/ recheckOrderMembership \/ DecideOrders \/ EndOrders \/ CrashOrders

OrdersSpec == OrdersInit /\ [][OrdersNext]_ordersVars

(* The session's loop runs, and a lookup that is made again and again
   succeeds.  Nothing makes an order end, a stream stay up or an update arrive. *)
OrdersFairness ==
  /\ WF_ordersVars(StartOrders) /\ WF_ordersVars(recheckOrderMembership)
  /\ WF_ordersVars(DecideOrders) /\ WF_ordersVars(EndOrders)
  /\ \A o \in Orders : SF_ordersVars(Lookup(o)) /\ WF_ordersVars(LookupFails(o) \/ Lookup(o))

OrdersFairSpec == OrdersSpec /\ OrdersFairness

-----------------------------------------------------------------------------
(* Properties *)

(* A subscription is woken only for an order that has ended: neither a sweep's
   answer nor its decision reaches the watcher of another order
   (src/connector/lib/alpaca-session.ts:715-721). *)
NoFalseOrderWake == \A s \in OrderSubs : orderSub[s] = "fired" => order[OrderOf[s]] = "terminal"

(* While the list stays as it is, no watched order is left out of more batches
   than the list has batches (src/catalog/providers/order-reconciliation.ts:81). *)
CoveredWhileSteady ==
  \A s \in Range(listed) :
    steady >= Ceiling(Len(listed)) => passed[s] < Ceiling(Len(listed))

(* An order that ends, whether or not its update arrives, wakes whoever waits
   for it, unless the subscription expires before
   (src/docs/architecture.md:357, src/connector/lib/alpaca-session.ts:671). *)
TerminalOrderWakes ==
  \A s \in OrderSubs : (OrderArmed(s) /\ order[OrderOf[s]] = "terminal") ~> ~ OrderArmed(s)

================================================================================
