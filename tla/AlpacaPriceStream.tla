--------------------------- MODULE AlpacaPriceStream ---------------------------
(***************************************************************************)
(* Price crossings in the eve process (src/catalog/providers/alpaca.ts)    *)
(* for one symbol: the shared market-data stream, the watches, the seed    *)
(* from the REST API (feed iex) or from the first tick (feed test).  Trades*)
(* are numbered; a price is the trade it was read from.  A delivery is the *)
(* claim and, later, the disarm (WakeDelivery has what lies between).      *)
(* Nothing orders the API's answer and the stream: `circumstances` are what*)
(* may happen between the two,                                             *)
(*   race    a trade is handled while a seed is on its way,                *)
(*   ahead   the API answers with a trade the stream has still to show,    *)
(*   behind  it answers with an older one than the last the stream showed. *)
(***************************************************************************)
EXTENDS Naturals, Sequences, FiniteSets

CONSTANTS PriceSubs, Below, \* the subscriptions; those for price.crossesBelow
          Price, Threshold,
          MaxTrades, MaxPriceDrops \* bounds

Circumstances == {"race", "ahead", "behind"}

AlpacaPriceStreamAssumption ==
  /\ Below \subseteq PriceSubs /\ Price \subseteq Nat /\ Threshold \in Nat
  /\ MaxTrades \in Nat \ {0} /\ MaxPriceDrops \in Nat

VARIABLES
  feed,       \* ALPACA_DATA_FEED
  circumstances, \* those that may happen
  market,     \* the trades' prices
  priceSub,   \* the registry's records
  stockStream, subscribed, \* stockStream; whether the symbol is subscribed on it
  priceWire,  \* trades on their way
  watched, previous, \* priceSubs
  priceTask, priceAnswer, \* where armPriceCross is; the trade getLatestTrade answers with
  priceDrops,
  since       \* history: the trade a subscription was first seeded from

priceConnection == <<stockStream, subscribed, priceWire, priceDrops>>
setting == <<feed, circumstances>>
priceVars ==
  <<setting, market, priceSub, priceConnection, watched, previous, priceTask, priceAnswer,
    since>>

Latest == Len(market)

(* The last trade that was handled or will never be shown. *)
Shown == Latest - Len(priceWire)

PriceTypeOK ==
  /\ feed \in {"iex", "test"} /\ circumstances \subseteq Circumstances
  /\ market \in Seq(Price) /\ Latest \in 1..MaxTrades
  /\ priceSub \in [PriceSubs -> [status : {"new", "armed", "delivering", "ended", "failed"},
                                 armedAt : 0..MaxTrades, trade : 0..MaxTrades]]
  /\ stockStream \in {"none", "connecting", "authenticated", "down", "rejected"}
  /\ subscribed \in BOOLEAN
  /\ priceWire \in Seq(1..Latest)
  /\ watched \subseteq PriceSubs
  /\ previous \in [PriceSubs -> 0..Latest] /\ since \in [PriceSubs -> 0..Latest]
  /\ priceTask \in [PriceSubs -> {"idle", "auth", "seed"}]
  /\ priceAnswer \in [PriceSubs -> 0..Latest]
  /\ priceDrops \in 0..MaxPriceDrops

(* The feed test asks the API nothing. *)
PriceInit ==
  /\ feed \in {"iex", "test"} /\ circumstances \in SUBSET Circumstances
  /\ feed = "test" => circumstances = {}
  /\ market \in {<<p>> : p \in Price}
  /\ priceSub = [s \in PriceSubs |-> [status |-> "new", armedAt |-> 0, trade |-> 0]]
  /\ stockStream = "none" /\ subscribed = FALSE /\ priceWire = <<>> /\ priceDrops = 0
  /\ watched = {} /\ previous = [s \in PriceSubs |-> 0]
  /\ priceTask = [s \in PriceSubs |-> "idle"] /\ priceAnswer = [s \in PriceSubs |-> 0]
  /\ since = [s \in PriceSubs |-> 0]

-----------------------------------------------------------------------------
(* The exchange and the connection *)

TradeHappens(p) ==
  /\ Latest < MaxTrades
  /\ market' = Append(market, p)
  /\ priceWire' = IF stockStream = "authenticated" /\ subscribed
                  THEN Append(priceWire, Latest + 1) ELSE priceWire
  /\ UNCHANGED <<setting, priceSub, stockStream, subscribed, priceDrops, watched, previous,
                 priceTask, priceAnswer, since>>

StockDrops ==
  /\ stockStream = "authenticated" /\ priceDrops < MaxPriceDrops
  /\ priceDrops' = priceDrops + 1
  /\ stockStream' = "down" /\ priceWire' = <<>>
  /\ UNCHANGED <<setting, market, priceSub, subscribed, watched, previous, priceTask,
                 priceAnswer, since>>

-----------------------------------------------------------------------------
(* disarmPriceCross *)

(* Mutant: the symbol goes with the first of its watchers. *)
StillWatched_Not(left) == FALSE

StillWatched(left) == left # {}

disarmPriceCross(gone) ==
  /\ watched' = watched \ gone
  /\ IF gone \cap watched = {} \/ StillWatched(watched \ gone)
     THEN UNCHANGED <<subscribed, priceWire>>
     ELSE subscribed' = FALSE /\ priceWire' = <<>>

(* deliverWake's end *)
PriceDelivered(s) ==
  /\ priceSub[s].status = "delivering"
  /\ priceSub' = [priceSub EXCEPT ![s].status = "ended"]
  /\ disarmPriceCross({s})
  /\ UNCHANGED <<setting, market, stockStream, priceDrops, previous, priceTask,
                 priceAnswer, since>>

(* The timer starts when arm has returned. *)
PriceExpires(s) ==
  /\ priceSub[s].status = "armed" /\ priceTask[s] = "idle"
  /\ priceSub' = [priceSub EXCEPT ![s].status = "ended"]
  /\ disarmPriceCross({s})
  /\ UNCHANGED <<setting, market, stockStream, priceDrops, previous, priceTask,
                 priceAnswer, since>>

-----------------------------------------------------------------------------
(* armPriceCross *)

Subscribing == IF feed = "iex" THEN "seed" ELSE "idle"

(* Up to the first await; ensureStockStream keeps the stream it has, a
   rejected one too.  armedAt is the last trade the stream has shown by then. *)
ArmPrice(s) ==
  /\ priceSub[s].status = "new"
  /\ priceSub' = [priceSub EXCEPT ![s].status = "armed", ![s].armedAt = Shown]
  /\ watched' = watched \cup {s}
  /\ stockStream' = IF stockStream = "none" THEN "connecting" ELSE stockStream
  /\ priceTask' =
       [priceTask EXCEPT ![s] = IF stockStream = "authenticated" THEN Subscribing ELSE "auth"]
  /\ subscribed' = (subscribed \/ stockStream = "authenticated")
  /\ UNCHANGED <<setting, market, priceWire, priceDrops, previous, priceAnswer, since>>

(* Every arm that waits for the authentication goes on at once: it subscribes
   the symbol and, with the feed iex, asks for the latest trade.  The SDK
   subscribes its symbols again when it has reconnected. *)
StockAuthenticated ==
  /\ stockStream \in {"connecting", "down"}
  /\ stockStream' = "authenticated"
  /\ subscribed' = (subscribed \/ \E s \in PriceSubs : priceTask[s] = "auth")
  /\ priceTask' = [s \in PriceSubs |-> IF priceTask[s] = "auth" THEN Subscribing ELSE priceTask[s]]
  /\ UNCHANGED <<setting, market, priceSub, priceWire, priceDrops, watched, previous,
                 priceAnswer, since>>

StockRejected ==
  /\ stockStream = "connecting"
  /\ stockStream' = "rejected"
  /\ UNCHANGED <<setting, market, priceSub, subscribed, priceWire, priceDrops, watched,
                 previous, priceTask, priceAnswer, since>>

(* shouldSkipArmFailure *)
Failure(status) == IF status = "armed" THEN "failed" ELSE status

PriceArmFails(s) ==
  /\ (priceTask[s] = "auth" /\ stockStream = "rejected") \/ priceTask[s] = "seed"
  /\ priceTask' = [priceTask EXCEPT ![s] = "idle"] /\ priceAnswer' = [priceAnswer EXCEPT ![s] = 0]
  /\ disarmPriceCross({s})
  /\ priceSub' = [priceSub EXCEPT ![s].status = Failure(@)]
  /\ UNCHANGED <<setting, market, stockStream, priceDrops, previous, since>>

(* The API answers, whatever is still on the wire; the answer takes its time. *)
PriceAnswered(s) ==
  /\ priceTask[s] = "seed" /\ priceAnswer[s] = 0
  /\ \E t \in 1..Latest :
       /\ "ahead" \in circumstances \/ t <= Shown
       /\ "behind" \in circumstances \/ Shown <= t
       /\ priceAnswer' = [priceAnswer EXCEPT ![s] = t]
  /\ UNCHANGED <<setting, market, priceSub, priceConnection, watched, previous, priceTask,
                 since>>

(* Mutant: the answer is not used. *)
SeedValue_Not(s) == previous[s]

(* The answer replaces whatever ticks have put there. *)
SeedValue(s) == priceAnswer[s]

FirstSeed(s, t) == IF since[s] = 0 THEN t ELSE since[s]

SeedArrives(s) ==
  /\ priceTask[s] = "seed" /\ priceAnswer[s] # 0
  /\ previous' = [previous EXCEPT ![s] = SeedValue(s)]
  /\ since' = [since EXCEPT ![s] = FirstSeed(s, priceAnswer[s])]
  /\ priceTask' = [priceTask EXCEPT ![s] = "idle"] /\ priceAnswer' = [priceAnswer EXCEPT ![s] = 0]
  /\ UNCHANGED <<setting, market, priceSub, priceConnection, watched>>

-----------------------------------------------------------------------------
(* handleTrade *)

(* Mutant: a price that was past the threshold already counts. *)
Crosses_Level(s, i, j) == IF s \in Below THEN market[j] < Threshold ELSE market[j] > Threshold

(* Mutant: the directions are swapped. *)
Crosses_Swapped(s, i, j) ==
  IF s \in Below THEN market[i] <= Threshold /\ market[j] > Threshold
                 ELSE market[i] >= Threshold /\ market[j] < Threshold

crosses(s, i, j) ==
  IF s \in Below THEN market[i] >= Threshold /\ market[j] < Threshold
                 ELSE market[i] <= Threshold /\ market[j] > Threshold

Woken(t) ==
  {s \in watched : previous[s] # 0 /\ priceSub[s].status = "armed" /\ crosses(s, previous[s], t)}

handleTrade ==
  /\ priceWire # <<>>
  /\ "race" \in circumstances \/ \A s \in PriceSubs : priceTask[s] # "seed"
  /\ LET t == Head(priceWire)
     IN /\ priceSub' = [s \in PriceSubs |->
             IF s \in Woken(t) THEN [priceSub[s] EXCEPT !.status = "delivering", !.trade = t]
                               ELSE priceSub[s]]
        /\ previous' = [s \in PriceSubs |-> IF s \in watched THEN t ELSE previous[s]]
        /\ since' = [s \in PriceSubs |-> IF s \in watched THEN FirstSeed(s, t) ELSE since[s]]
  /\ priceWire' = Tail(priceWire)
  /\ UNCHANGED <<setting, market, stockStream, subscribed, priceDrops, watched, priceTask,
                 priceAnswer>>

-----------------------------------------------------------------------------
PriceNext ==
  \/ \E p \in Price : TradeHappens(p)
  \/ StockDrops \/ StockAuthenticated \/ StockRejected \/ handleTrade
  \/ \E s \in PriceSubs : \/ ArmPrice(s) \/ PriceArmFails(s) \/ PriceAnswered(s) \/ SeedArrives(s)
                          \/ PriceDelivered(s) \/ PriceExpires(s)

PriceSpec == PriceInit /\ [][PriceNext]_priceVars

-----------------------------------------------------------------------------
(* Properties *)

Truly(s, i, j) ==
  IF s \in Below THEN market[i] >= Threshold /\ market[j] < Threshold
                 ELSE market[i] <= Threshold /\ market[j] > Threshold

(* A wake tells of a trade after the arming that crossed from a price the
   market has had: one that was current when the subscription was armed, or
   later, unless the API's answer is behind the stream; and an earlier one,
   unless the answer is ahead of it
   (src/catalog/providers/alpaca.ts:108-143, 166-170). *)
NoFalseCrossing ==
  \A s \in PriceSubs :
    LET wake == priceSub[s]
    IN wake.trade # 0 =>
         /\ wake.armedAt < wake.trade
         /\ \E i \in 1..Latest :
              /\ "behind" \in circumstances \/ wake.armedAt <= i
              /\ "ahead" \in circumstances \/ i < wake.trade
              /\ Truly(s, i, wake.trade)

(* With every tick handled and no seed on its way, a subscription that is
   still armed has seen no crossing since the first price it was seeded with,
   as long as the connection holds and the seed's answer and the stream keep
   their order (src/catalog/providers/alpaca.ts:108-143, 166-170). *)
NothingMissed ==
  /\ priceDrops = 0 /\ circumstances = {} /\ priceWire = <<>> /\ stockStream = "authenticated"
  => \A s \in watched :
      priceSub[s].status = "armed" /\ priceTask[s] = "idle" /\ since[s] # 0 =>
        \A t \in since[s] + 1..Latest : ~ Truly(s, t - 1, t)

(* The symbol is subscribed exactly while somebody watches it, from the
   subscription of the first one's arm on; nobody's disarm takes it from the
   others (src/catalog/providers/alpaca.ts:154-156, 179-188). *)
SubscribedWhileWatched ==
  /\ \A s \in watched : priceTask[s] # "auth" => subscribed
  /\ subscribed => watched # {}

-----------------------------------------------------------------------------
(* The inductive invariant behind them *)

(* The wire has the latest trades without a gap. *)
WireIsTail ==
  /\ Len(priceWire) < Latest
  /\ \A i \in 1..Len(priceWire) : priceWire[i] = Shown + i
  /\ priceWire # <<>> => stockStream = "authenticated" /\ subscribed

WaitsForAuth ==
  \A s \in PriceSubs : priceTask[s] = "auth" =>
    /\ stockStream # "authenticated" /\ s \in watched /\ since[s] = 0
    /\ priceSub[s].status = "armed"

(* A price that was current when s was armed, or later, and was shown. *)
Current(s, t) ==
  /\ "behind" \in circumstances \/ priceSub[s].armedAt <= t
  /\ "ahead" \in circumstances \/ t <= Shown

(* So is every price a watch knows. *)
IsCurrent(s) ==
  /\ priceSub[s].armedAt <= Shown /\ priceSub[s].trade <= Shown
  /\ IF priceSub[s].status = "new"
       THEN /\ s \notin watched /\ priceTask[s] = "idle" /\ priceSub[s].trade = 0
            /\ previous[s] = 0 /\ priceAnswer[s] = 0 /\ since[s] = 0
       ELSE /\ priceSub[s].armedAt # 0
            /\ \A t \in {previous[s], priceAnswer[s], since[s]} \ {0} : Current(s, t)

PricesAreCurrent == \A s \in PriceSubs : IsCurrent(s)

(* The stream of those who are seeded is up, until it drops. *)
SeededWhileUp ==
  /\ stockStream = "down" => priceDrops # 0
  /\ \A s \in PriceSubs :
       priceDrops = 0 /\ (since[s] # 0 \/ priceTask[s] = "seed") => stockStream = "authenticated"

(* An answer stays the last trade shown when nothing is handled meanwhile. *)
AnswerIsLatest ==
  /\ feed = "test" => circumstances = {}
  /\ \A s \in PriceSubs : priceTask[s] # "seed" => priceAnswer[s] = 0
  /\ feed = "test" => \A s \in PriceSubs : priceTask[s] # "seed"
  /\ priceDrops = 0 /\ circumstances = {} =>
       \A s \in watched : priceAnswer[s] # 0 => priceAnswer[s] = Shown

(* A watch compares every trade with the one before it. *)
NothingPassed ==
  priceDrops = 0 /\ circumstances = {} =>
    \A s \in watched : priceSub[s].status = "armed" /\ since[s] # 0 =>
      previous[s] = Shown /\ \A t \in since[s] + 1..Shown : ~ Truly(s, t - 1, t)

PriceInv ==
  /\ PriceTypeOK /\ WireIsTail /\ SubscribedWhileWatched /\ WaitsForAuth
  /\ PricesAreCurrent /\ SeededWhileUp /\ AnswerIsLatest /\ NothingPassed
  /\ NoFalseCrossing

================================================================================
