----------------------------- MODULE AlpacaSession -----------------------------
(***************************************************************************)
(* The price-crossing leg of the connector's sessions                      *)
(* (src/connector/lib/alpaca-session.ts) for one symbol: live trades, the  *)
(* buffer they go to while the symbol is seeded, seeding from the cursor   *)
(* or afresh, the replay after a reconnect, the membership recheck, the    *)
(* shutdown.  The symbol's trades are numbered in their order (GapReplay   *)
(* has the order itself) and stand for their cursors; a price is the trade *)
(* it was read from.  Cursor writes are atomic here (FencedCursor has      *)
(* their races), deliveries are one step (WakeDelivery has theirs).        *)
(*                                                                         *)
(* `circumstances` are the events the environment is allowed to cause:      *)
(*   quiet     a session that starts with no trade since the cursor        *)
(*   snapshot  a trade while a REST snapshot is on its way                 *)
(*   stale     a subscription armed after a gap, before the next live trade*)
(*   young     an interruption before the cursor has passed an armedAt     *)
(*   failure   a failing request, or a crash before a decision is recorded *)
(*   overlap   a recheck and a reconnect at the same time                  *)
(*   flap      an interruption while the trades of the one before replay   *)
(*   lag       a trade in the REST history before it is in the stream      *)
(***************************************************************************)
EXTENDS Naturals, Sequences, FiniteSets, FiniteSetsExt

CONSTANTS PriceSubs, Below,  \* the subscriptions; those for price.crossesBelow
          Price, Threshold,
          MaxTrades, MaxDrops, MaxSessions \* bounds

AlpacaSessionAssumption ==
  /\ Below \subseteq PriceSubs
  /\ Price \subseteq Nat /\ Threshold \in Nat
  /\ MaxTrades \in Nat \ {0} /\ MaxDrops \in Nat /\ MaxSessions \in Nat \ {0}

Circumstances == {"quiet", "snapshot", "stale", "young", "failure", "overlap", "flap",
                  "lag"}

VARIABLES
  circumstances, \* those that may happen
  market,    \* the trades' prices
  priceSub,  \* the registry's records
  persisted, \* the persisted cursor; 0 is none
  priceSession, sessions,
  priceConn, drops,
  streaming, \* whether the server sends the symbol's trades
  heard,     \* the last trade the connection has carried or missed
  seeding, priceBuffer, known, pendingCursor, \* seedingSymbols, tradeBuffers,
                                              \* lastKnownPriceBySymbol, pendingCursorBySymbol
  watch, previous, \* watchesBySubId
  sending,   \* live deliveries under way
  lane, queued, \* the main task and the replay task; replayQueue
  since      \* history: the trade a subscription was first seeded from

connection == <<priceConn, drops, streaming, heard>>
memory == <<seeding, priceBuffer, known, pendingCursor, watch, previous>>
tasks == <<lane, queued>>
world == <<circumstances, market, priceSub>>
run == <<priceSession, sessions>>
pricesVars == <<world, persisted, run, connection, memory, sending, tasks, since>>

Lanes == {"main", "replay"}
Task(at, ready, fresh, cur) ==
  [at |-> at, ready |-> ready, fresh |-> fresh, cur |-> cur, merged |-> {}, recorded |-> TRUE]
Idle == Task("idle", {}, {}, 0)
Latest == Len(market)
IsArmed(s) == priceSub[s].status = "armed"

(* How far a task is, the subscriptions it seeds from the cursor and those  *)
(* it seeds afresh, its cursor, the trades to decide on, and whether every  *)
(* delivery was recorded.                                                   *)
LaneState == [at : {"idle", "join", "ack", "read", "fetch", "decide", "advance", "drain",
                    "fresh", "snapshot"},
              ready : SUBSET PriceSubs, fresh : SUBSET PriceSubs, cur : 0..Latest,
              merged : SUBSET (1..Latest), recorded : BOOLEAN]

PricesTypeOK ==
  /\ circumstances \subseteq Circumstances
  /\ market \in UNION {[1..n -> Price] : n \in 1..MaxTrades}
  /\ priceSub \in [PriceSubs -> [status : {"new", "armed", "fired", "expired"},
                                 armedAt : 0..MaxTrades, trade : 0..MaxTrades]]
  /\ persisted \in 0..Latest /\ pendingCursor \in 0..Latest
  /\ known \in 0..Latest /\ heard \in 0..Latest
  /\ priceSession \in {"off", "on", "closing"} /\ sessions \in 0..MaxSessions
  /\ priceConn \in {"up", "down"} /\ drops \in 0..MaxDrops
  /\ streaming \in BOOLEAN /\ seeding \in BOOLEAN
  /\ priceBuffer \subseteq 1..Latest
  /\ watch \subseteq PriceSubs
  /\ previous \in [PriceSubs -> 0..Latest] /\ since \in [PriceSubs -> 0..Latest]
  /\ sending \subseteq PriceSubs \X (1..Latest)
  /\ lane \in [Lanes -> LaneState]
  /\ queued \in 0..MaxDrops

PricesInit ==
  /\ circumstances \in SUBSET Circumstances
  /\ market \in {<<p>> : p \in Price}
  /\ priceSub = [s \in PriceSubs |-> [status |-> "new", armedAt |-> 0, trade |-> 0]]
  /\ persisted = 0 /\ priceSession = "off" /\ sessions \in 0..MaxSessions - 1
  /\ priceConn = "down" /\ drops = 0 /\ streaming = FALSE /\ heard = 0
  /\ seeding = FALSE /\ priceBuffer = {} /\ known = 0 /\ pendingCursor = 0
  /\ watch = {} /\ previous = [s \in PriceSubs |-> 0]
  /\ sending = {} /\ lane = [l \in Lanes |-> Idle] /\ queued = 0
  /\ since = [s \in PriceSubs |-> 0]

-----------------------------------------------------------------------------
(* Predicates *)

(* Mutant: a price that was past the threshold already counts. *)
Crosses_Level(s, i, j) == IF s \in Below THEN market[j] < Threshold ELSE market[j] > Threshold

crosses(s, i, j) ==
  IF s \in Below THEN market[i] >= Threshold /\ market[j] < Threshold
                 ELSE market[i] <= Threshold /\ market[j] > Threshold

(* replayThroughCrossingPredicate: the trades of a replay that cross. *)
Crossings(s, cur, merged) ==
  {t \in merged : crosses(s, Max({cur} \cup {i \in merged : i < t}), t)}

(* Mutant: any cursor will do. *)
Ready_AnyCursor(s, cursor) == cursor # 0

(* partitionByCursorReadiness: armed at or before the cursor's trade. *)
Ready(s, cursor) == cursor > priceSub[s].armedAt

(* The circumstances under which an interruption is harmless. *)
Covered(cursor) ==
  "young" \in circumstances \/ \A s \in watch : IsArmed(s) => cursor > priceSub[s].armedAt
Prompt == "lag" \in circumstances \/ priceConn = "down" \/ ~ streaming \/ heard = Latest

Quiet(l, trades) == \A t \in trades : t <= lane[l].cur
Primed(l) == \A s \in lane[l].ready : previous[s] # 0

Seed(s, t) == [since EXCEPT ![s] = IF @ = 0 THEN t ELSE @]

-----------------------------------------------------------------------------
(* Trades *)

TradeHappens(p) ==
  /\ Latest < MaxTrades
  /\ "snapshot" \in circumstances \/ \A l \in Lanes : lane[l].at \notin {"fresh", "snapshot"}
  /\ "lag" \in circumstances \/ Prompt
  /\ market' = Append(market, p)
  /\ UNCHANGED <<circumstances, priceSub, persisted, run, connection, memory, sending, tasks,
                 since>>

Buffered(t) == priceBuffer \cup {t}

TradeDecides(t, write) ==
  /\ pendingCursor' = t
  /\ persisted' = IF write THEN Max({persisted, t}) ELSE persisted
  /\ sending' = sending \cup
       {<<s, t>> : s \in {w \in watch : previous[w] # 0 /\ crosses(w, previous[w], t)}}
  /\ previous' = [s \in PriceSubs |-> IF s \in watch THEN t ELSE previous[s]]

(* No callback runs between the last drain and the end of a seeding that    *)
(* awaits nothing.                                                          *)
handleLiveTrade ==
  LET t == heard + 1
  IN /\ \A l \in Lanes : lane[l].at # "fresh"
     /\ priceSession # "off" /\ priceConn = "up" /\ streaming /\ heard < Latest
     /\ heard' = t
     /\ IF priceSession = "closing"
          THEN UNCHANGED <<persisted, memory, sending>>
          ELSE /\ known' = t
               /\ IF seeding
                    THEN /\ priceBuffer' = Buffered(t)
                         /\ UNCHANGED <<persisted, pendingCursor, previous, sending>>
                    ELSE UNCHANGED priceBuffer /\ \E write \in BOOLEAN : TradeDecides(t, write)
               /\ UNCHANGED <<seeding, watch>>
     /\ UNCHANGED <<world, run, priceConn, drops, streaming, tasks, since>>

(* tryTransitionToDelivering lets only an armed subscription through. *)
FiredAt(s, t) == IF IsArmed(s) THEN [priceSub[s] EXCEPT !.status = "fired", !.trade = t]
                               ELSE priceSub[s]

(* guardedDeliver of a live trade *)
DeliverPrice(s, t) ==
  /\ <<s, t>> \in sending /\ sending' = sending \ {<<s, t>>}
  /\ \/ priceSub' = [priceSub EXCEPT ![s] = FiredAt(s, t)]
     \/ "failure" \in circumstances /\ UNCHANGED priceSub
  /\ UNCHANGED <<circumstances, market, persisted, run, connection, memory, tasks, since>>

-----------------------------------------------------------------------------
(* Seeding *)

Goes(l, state) == lane' = [lane EXCEPT ![l] = state]

ReadSeedCursor(l) ==
  LET ready == {s \in lane[l].ready : Ready(s, persisted)}
  IN /\ lane[l].at = "read" /\ Prompt
     /\ Goes(l, Task(IF ready = {} THEN "fresh" ELSE "fetch",
                     ready, lane[l].ready \ ready, persisted))
     /\ since' = [s \in PriceSubs |-> IF s \in ready /\ since[s] = 0 THEN persisted ELSE since[s]]
     /\ UNCHANGED <<world, persisted, run, connection, memory, sending, queued>>

(* Trades after the cursor go on to the predicate. *)
Merge(l, trades) ==
  LET merged == {t \in trades : t > lane[l].cur}
  IN /\ Goes(l, [lane[l] EXCEPT !.at = IF merged = {} THEN "drain" ELSE "decide",
                                 !.merged = merged])
     /\ priceBuffer' = {}

(* getHistoricalTrades, and what was buffered meanwhile *)
Fetch(l) ==
  /\ lane[l].at = "fetch" /\ Prompt
  /\ \E end \in heard..Latest :
       /\ Merge(l, (lane[l].cur .. end) \cup priceBuffer)
       /\ "quiet" \in circumstances \/ Primed(l) \/ ~ Quiet(l, 1..end)
  /\ UNCHANGED <<world, persisted, run, connection, seeding, known, pendingCursor,
                 watch, previous, sending, queued, since>>

(* replayAndAdvance: every ready watch runs the trades from the cursor's    *)
(* price; some deliveries may fail.                                         *)
Decide(l) ==
  LET hits(s) == Crossings(s, lane[l].cur, lane[l].merged)
      firing == {s \in lane[l].ready : hits(s) # {}}
  IN /\ lane[l].at = "decide"
     /\ \E failed \in IF "failure" \in circumstances THEN SUBSET firing ELSE {{}} :
          /\ priceSub' = [s \in PriceSubs |-> IF s \in firing \ failed THEN FiredAt(s, Min(hits(s)))
                                                                        ELSE priceSub[s]]
          /\ Goes(l, [lane[l] EXCEPT !.at = "advance", !.recorded = failed = {}])
     /\ previous' = [s \in PriceSubs |-> IF s \in lane[l].ready THEN Max(lane[l].merged)
                                                                 ELSE previous[s]]
     /\ UNCHANGED <<circumstances, market, persisted, run, connection, seeding, priceBuffer, known,
                    pendingCursor, watch, sending, queued, since>>

NextCursor(l) == Max(lane[l].merged)

Advance(l) ==
  /\ lane[l].at = "advance"
  /\ IF lane[l].recorded
       THEN /\ persisted' = Max({persisted, NextCursor(l)})
            /\ pendingCursor' = IF NextCursor(l) >= persisted THEN NextCursor(l) ELSE pendingCursor
            /\ Goes(l, [lane[l] EXCEPT !.at = "drain", !.cur = NextCursor(l), !.merged = {}])
       ELSE /\ Goes(l, [lane[l] EXCEPT !.at = "drain", !.merged = {}])
            /\ UNCHANGED <<persisted, pendingCursor>>
  /\ UNCHANGED <<world, run, connection, seeding, priceBuffer, known, watch, previous,
                 sending, queued, since>>

(* Mutant: one pass is enough. *)
Drain_Once(l) ==
  /\ lane[l].at = "drain" /\ Prompt
  /\ Goes(l, [lane[l] EXCEPT !.at = "fresh"]) /\ UNCHANGED priceBuffer
  /\ UNCHANGED <<world, persisted, run, connection, seeding, known, pendingCursor,
                 watch, previous, sending, queued, since>>

(* drainBuffer, to a fixed point *)
Drain(l) ==
  /\ lane[l].at = "drain" /\ Prompt
  /\ IF priceBuffer # {} THEN Merge(l, priceBuffer)
                         ELSE Goes(l, [lane[l] EXCEPT !.at = "fresh"]) /\ UNCHANGED priceBuffer
  /\ UNCHANGED <<world, persisted, run, connection, seeding, known, pendingCursor,
                 watch, previous, sending, queued, since>>

SeededFrom(l, s, t) ==
  /\ previous' = [previous EXCEPT ![s] = t]
  /\ since' = Seed(s, t)
  /\ Goes(l, [lane[l] EXCEPT !.at = "fresh", !.fresh = @ \ {s}, !.merged = {}])

(* freshSeedPrice: the last live price, or else a REST snapshot. *)
FreshSeed(l) ==
  /\ lane[l].at = "fresh"
  /\ \E s \in lane[l].fresh :
       \/ known # 0 /\ SeededFrom(l, s, known)
       \/ /\ known = 0
          /\ Goes(l, [lane[l] EXCEPT !.at = "snapshot", !.merged = {Latest}])
          /\ UNCHANGED <<previous, since>>
  /\ UNCHANGED <<world, persisted, run, connection, seeding, priceBuffer, known,
                 pendingCursor, watch, sending, queued>>

Snapshot(l) ==
  /\ lane[l].at = "snapshot"
  /\ \E s \in lane[l].fresh, t \in lane[l].merged : SeededFrom(l, s, t)
  /\ UNCHANGED <<world, persisted, run, connection, seeding, priceBuffer, known,
                 pendingCursor, watch, sending, queued>>

(* A queued replay starts as soon as the one before it ends. *)
NextReplay == Task("read", watch, {}, 0)
Requeues(l) == l = "replay" /\ queued > 0 /\ priceSession = "on" /\ watch # {}

(* Mutant: the symbol stays in seedingSymbols. *)
StillSeeding_Always(l) == TRUE
StillSeeding(l) == Requeues(l)

Seeded(l) ==
  /\ lane[l].at = "fresh" /\ lane[l].fresh = {}
  /\ seeding' = StillSeeding(l)
  /\ Goes(l, IF Requeues(l) THEN NextReplay ELSE Idle)
  /\ queued' = IF l = "main" THEN queued ELSE IF queued > 0 THEN queued - 1 ELSE 0
  /\ UNCHANGED <<world, persisted, run, connection, priceBuffer, known, pendingCursor,
                 watch, previous, sending, since>>

-----------------------------------------------------------------------------
(* The connection *)

StockDrops ==
  /\ priceSession = "on" /\ priceConn = "up" /\ drops < MaxDrops
  /\ "overlap" \in circumstances \/ lane["main"].at = "idle"
  /\ "flap" \in circumstances \/ lane["replay"].at = "idle"
  /\ Covered(persisted)
  /\ "stale" \in circumstances \/ \A s \in PriceSubs : IsArmed(s) => s \in watch
  /\ priceConn' = "down" /\ drops' = drops + 1
  /\ UNCHANGED <<world, persisted, run, streaming, heard, memory, sending, tasks, since>>

(* Mutant: the watches go on as they were. *)
OnReconnected_LogsOnly == UNCHANGED <<seeding, lane, queued>>

(* onReconnected: replayAfterStockReconnect now, or after the one that runs. *)
onReconnected ==
  IF lane["replay"].at = "idle"
    THEN /\ seeding' = (seeding \/ watch # {})
         /\ Goes("replay", IF watch # {} THEN NextReplay ELSE Idle)
         /\ UNCHANGED queued
    ELSE queued' = queued + 1 /\ UNCHANGED <<seeding, lane>>

StockReconnects ==
  /\ priceSession # "off" /\ priceConn = "down"
  /\ priceConn' = "up" /\ heard' = Latest
  /\ IF priceSession = "on" THEN onReconnected ELSE UNCHANGED <<seeding, lane, queued>>
  /\ UNCHANGED <<world, persisted, run, drops, streaming, priceBuffer, known, pendingCursor,
                 watch, previous, sending, since>>

-----------------------------------------------------------------------------
(* Membership *)

Desired == {s \in PriceSubs : IsArmed(s)}
Undisturbed == "overlap" \in circumstances \/ (priceConn = "up" /\ lane["replay"].at = "idle")

(* computeMembershipDelta, after the watches nobody desires are gone: the   *)
(* symbol is to be subscribed when no watch is left for it.                 *)
recheckPriceMembership ==
  LET kept == watch \cap Desired
      new == Desired \ kept
  IN /\ priceSession = "on" /\ lane["main"].at = "idle" /\ Undisturbed
     /\ watch' = kept
     /\ \/ new = {} /\ watch # kept /\ UNCHANGED <<seeding, lane>>
        \/ new # {} /\ kept # {} /\ UNCHANGED seeding
           /\ Goes("main", Task("join", {}, new, 0))
        \/ new # {} /\ kept = {} /\ seeding' = TRUE
           /\ Goes("main", Task("ack", {}, new, 0))
     /\ UNCHANGED <<world, persisted, run, connection, priceBuffer, known, pendingCursor,
                    previous, sending, queued, since>>

(* A new watch on a symbol that is live; a known price is there at once.    *)
Join ==
  /\ lane["main"].at = "join" /\ Prompt
  /\ LET price == IF known # 0 THEN known ELSE Latest
         new == lane["main"].fresh
     IN /\ previous' = [s \in PriceSubs |-> IF s \in new THEN price ELSE previous[s]]
        /\ since' = [s \in PriceSubs |-> IF s \in new /\ since[s] = 0 THEN price ELSE since[s]]
        /\ watch' = watch \cup new
  /\ Goes("main", Idle)
  /\ UNCHANGED <<world, persisted, run, connection, seeding, priceBuffer, known,
                 pendingCursor, sending, queued>>

(* waitForTradeSubscriptionAck *)
Ack ==
  /\ lane["main"].at = "ack" /\ priceConn = "up"
  /\ streaming' = TRUE /\ heard' = IF streaming THEN heard ELSE Latest
  /\ watch' = watch \cup lane["main"].fresh
  /\ Goes("main", Task("read", lane["main"].fresh, {}, 0))
  /\ UNCHANGED <<world, persisted, run, priceConn, drops, seeding, priceBuffer, known,
                 pendingCursor, previous, sending, queued, since>>

-----------------------------------------------------------------------------
(* Sessions and subscriptions *)

Forget ==
  /\ priceConn' = "down" /\ streaming' = FALSE /\ heard' = 0
  /\ seeding' = FALSE /\ priceBuffer' = {} /\ known' = 0 /\ pendingCursor' = 0
  /\ watch' = {} /\ previous' = [s \in PriceSubs |-> 0]
  /\ sending' = {} /\ lane' = [l \in Lanes |-> Idle] /\ queued' = 0

Start ==
  /\ priceSession = "off" /\ sessions < MaxSessions
  /\ priceSession' = "on" /\ sessions' = sessions + 1
  /\ priceConn' = "up" /\ heard' = Latest
  /\ UNCHANGED <<world, persisted, drops, streaming, memory, sending, tasks, since>>

(* The last session stays, so that liveness can be asked of it.             *)
BeginShutdown ==
  /\ priceSession = "on" /\ lane["main"].at = "idle" /\ sessions < MaxSessions
  /\ Covered(Max({persisted, pendingCursor}))
  /\ priceSession' = "closing"
  /\ UNCHANGED <<world, persisted, sessions, connection, memory, sending, tasks, since>>

(* Mutant: the pending cursor is not flushed. *)
FlushPendingCursors_Not == persisted
flushPendingCursors == Max({persisted, pendingCursor})

(* Both drains and the flush between them *)
EndShutdown ==
  /\ priceSession = "closing" /\ \A l \in Lanes : lane[l].at = "idle"
  /\ sending = {}
  /\ priceSession' = "off" /\ persisted' = flushPendingCursors
  /\ Forget
  /\ UNCHANGED <<world, sessions, drops, since>>

(* A request of a seeding fails: the replay task gives the symbol up, the   *)
(* main task takes the session down.                                        *)
SeedingFails(l) ==
  /\ "failure" \in circumstances /\ lane[l].at \in {"read", "fetch", "snapshot"}
  /\ IF l = "replay" THEN /\ seeding' = Requeues(l)
                          /\ Goes(l, IF Requeues(l) THEN NextReplay ELSE Idle)
                          /\ queued' = (IF queued > 0 THEN queued - 1 ELSE 0)
                          /\ UNCHANGED priceSession
                     ELSE /\ sessions < MaxSessions /\ priceSession' = "closing"
                          /\ Goes(l, Idle) /\ UNCHANGED <<seeding, queued>>
  /\ UNCHANGED <<world, persisted, sessions, connection, priceBuffer, known, pendingCursor, watch,
                 previous, sending, since>>

CrashSession ==
  /\ priceSession # "off" /\ sessions < MaxSessions
  /\ Covered(persisted) /\ ("failure" \in circumstances \/ \A late \in sending : late[2] > persisted)
  /\ priceSession' = "off" /\ Forget
  /\ UNCHANGED <<world, persisted, sessions, drops, since>>

ArmPrice(s) ==
  /\ priceSub[s].status = "new"
  /\ "stale" \in circumstances \/ known = 0 \/ (priceConn = "up" /\ known = Latest)
  /\ priceSub' = [priceSub EXCEPT ![s].status = "armed", ![s].armedAt = Latest]
  /\ UNCHANGED <<circumstances, market, persisted, run, connection, memory, sending, tasks, since>>

PriceExpires(s) ==
  /\ IsArmed(s) /\ priceSub' = [priceSub EXCEPT ![s].status = "expired"]
  /\ UNCHANGED <<circumstances, market, persisted, run, connection, memory, sending, tasks, since>>

Seeding(l) ==
  \/ ReadSeedCursor(l) \/ Fetch(l) \/ Decide(l) \/ Advance(l) \/ Drain(l)
  \/ FreshSeed(l) \/ Snapshot(l) \/ Seeded(l)

PricesNext ==
  \/ \E p \in Price : TradeHappens(p)
  \/ handleLiveTrade
  \/ \E s \in PriceSubs : ArmPrice(s) \/ PriceExpires(s) \/ \E t \in 1..Latest : DeliverPrice(s, t)
  \/ \E l \in Lanes : Seeding(l) \/ SeedingFails(l)
  \/ StockDrops \/ StockReconnects \/ recheckPriceMembership \/ Join \/ Ack
  \/ Start \/ BeginShutdown \/ EndShutdown \/ CrashSession

PricesSpec == PricesInit /\ [][PricesNext]_pricesVars

(* Requests are answered, the SDK reconnects, the recheck comes round every *)
(* fifteen seconds and the run is restarted after a session.                *)
PricesFairness ==
  /\ WF_pricesVars(handleLiveTrade) /\ WF_pricesVars(StockReconnects)
  /\ WF_pricesVars(Start) /\ WF_pricesVars(EndShutdown)
  /\ WF_pricesVars(recheckPriceMembership) /\ WF_pricesVars(Join) /\ WF_pricesVars(Ack)
  /\ \A l \in Lanes : WF_pricesVars(Seeding(l))
  /\ \A s \in PriceSubs : WF_pricesVars(\E t \in 1..Latest : DeliverPrice(s, t))

PricesFairSpec == PricesSpec /\ PricesFairness

-----------------------------------------------------------------------------
(* Properties *)

(* The trades at which a subscription should fire, if it existed by then.   *)
Past(s, t) == IF s \in Below THEN market[t] < Threshold ELSE market[t] > Threshold
Entry(s, t) == t > 1 /\ Past(s, t) /\ ~ Past(s, t - 1)

(* "never replay/credit a crossing from before a subscription existed"      *)
(* (alpaca-session.ts): a woken subscription saw a crossing after armedAt.  *)
NoFalsePriceWake == \A s \in PriceSubs : priceSub[s].status = "fired" =>
  \E t \in 1..priceSub[s].trade : t > priceSub[s].armedAt /\ Entry(s, t)

(* "run every trade through the predicate" (architecture.md): the wake is   *)
(* for the trade that crossed, not for a later one.                         *)
WakesAtCrossing == \A s \in PriceSubs : priceSub[s].status = "fired" => Entry(s, priceSub[s].trade)

(* The session is at rest: live, nothing buffering, nothing under way.      *)
AtRest == /\ priceSession = "on" /\ priceConn = "up" /\ streaming /\ heard = Latest
          /\ sending = {} /\ \A l \in Lanes : lane[l].at = "idle"

(* "if the price crossed the threshold AND recovered entirely within the    *)
(* gap ... the crossing is silently lost and the agent never wakes"         *)
(* (gap-replay.ts): from the price a subscription was first seeded with,    *)
(* every crossing wakes it, whatever gaps and sessions lie in between.      *)
NothingMissed == AtRest => \A s \in watch :
  IsArmed(s) => \A t \in 1..Latest : t > since[s] => ~ Entry(s, t)

(* A live trade is judged against the trade before it: at rest, a watch's   *)
(* previous is the last trade's price (handleLiveTrade, seedFromCursorReplay).*)
PreviousIsCurrent == AtRest => \A s \in watch : IsArmed(s) => market[previous[s]] = market[Latest]

(* A crossing after the seed wakes the subscription, unless it expires.     *)
CrossingWakes == \A s \in PriceSubs :
  (IsArmed(s) /\ since[s] # 0 /\ \E t \in 1..Latest : t > since[s] /\ Entry(s, t)) ~> ~ IsArmed(s)
================================================================================
