------------------------------- MODULE GapReplay -------------------------------
(***************************************************************************)
(* Gap replay for one symbol (src/catalog/providers/gap-replay.ts): the    *)
(* operators that order, merge and filter trades and run them through the  *)
(* crossing predicate (crossing.ts), driven by a connection that drops and *)
(* comes back, and compared with a stream that was never interrupted.      *)
(*                                                                         *)
(* A timestamp is a millisecond and the digits after it.  Either source    *)
(* may leave the digits out, as the SDK does when the wire shape has none. *)
(***************************************************************************)
EXTENDS Integers, Sequences, FiniteSets, SequencesExt, SortedSequences

CONSTANTS MaxMs, MaxNs,  \* timestamps
          Exchange, GapPrice, GapThreshold,
          MaxGapTrades,
          NoTrade

GapReplayAssumption ==
  /\ MaxMs \in Nat \ {0} /\ MaxNs \in Nat
  /\ Exchange \subseteq Nat /\ GapPrice \subseteq Nat /\ GapThreshold \in Nat
  /\ MaxGapTrades \in Nat \ {0}
  /\ NoTrade \notin [timestamp : [ms : 1..MaxMs, ns : 0..MaxNs], exchange : Exchange,
                    id : 1..MaxGapTrades]

VARIABLES
  direction,        \* of the subscription
  venues,           \* the exchanges that trade the symbol
  liveRaw, restRaw, \* whether the source keeps timestampRaw
  tape,             \* the trades there were, oldest first
  gapConn,          \* the connection
  gapBuffer,        \* tradeBuffers, in the live stream's form
  before,           \* how many trades there were when the stream was subscribed
  gapCursor,        \* the persisted cursor
  gapPrevious,      \* the price at the cursor, and the watch's previous
  fired,            \* the trade the subscription fired on
  decided           \* how many trades went through the predicate

gapConnection == <<gapConn, gapBuffer, before>>
gapWatch == <<gapCursor, gapPrevious, fired, decided>>
sources == <<direction, venues, liveRaw, restRaw>>
gapVars == <<sources, tape, gapConnection, gapWatch>>

-----------------------------------------------------------------------------
(* Timestamps *)

(* The missing digits become zeros. *)
padTimestampToNanoseconds(ms) == [ms |-> ms, ns |-> 0]

Timestamp(t, raw) == IF raw THEN [ms |-> t.ms, ns |-> t.ns]
                            ELSE padTimestampToNanoseconds(t.ms)

ReplayTrade(t, raw) == [timestamp |-> Timestamp(t, raw), exchange |-> t.exchange,
                        id |-> t.id, price |-> t.price]

toReplayTrade(t) == ReplayTrade(t, liveRaw)

-----------------------------------------------------------------------------
(* Order *)

Earlier(s, t) == s.ms < t.ms \/ (s.ms = t.ms /\ s.ns < t.ns)

(* Mutant: trades of one instant compare as equal. *)
CompareReplayTrades_TimeOnly(a, b) == Earlier(a.timestamp, b.timestamp)

(* compareReplayTrades(a, b) < 0 *)
compareReplayTrades(a, b) ==
  \/ Earlier(a.timestamp, b.timestamp)
  \/ /\ a.timestamp = b.timestamp
     /\ \/ a.exchange < b.exchange
        \/ a.exchange = b.exchange /\ a.id < b.id

cursorFromTrade(trade) ==
  [timestamp |-> trade.timestamp, exchange |-> trade.exchange, id |-> trade.id]

isCursorNewerThan(candidate, current) == compareReplayTrades(current, candidate)

(* Array.prototype.sort: of two trades the later one is not the smaller.    *)
Sorted(trades) ==
  LET places == 1..Cardinality(trades)
  IN CHOOSE f \in [places -> trades] :
       \A i, j \in places : i < j => f[i] # f[j] /\ ~ compareReplayTrades(f[j], f[i])

(* Mutant: the buffered trades follow the historical ones. *)
MergeGapTrades_Concatenated(historical, buffered) ==
  Sorted(historical) \o Sorted(buffered \ historical)

(* Equal id, exchange and timestamp mean one trade; the rest is sorted. *)
mergeGapTrades(historical, buffered) == Sorted(historical \cup buffered)

(* Mutant: the inclusive start of the historical fetch is not undone. *)
FilterTradesAfterCursor_KeepsInstant(c, trades) ==
  Filtered(trades, {i \in DOMAIN trades : ~ Earlier(trades[i].timestamp, c.timestamp)})

filterTradesAfterCursor(c, trades) ==
  Filtered(trades, {i \in DOMAIN trades : compareReplayTrades(c, trades[i])})

advanceCursor(current, trades) ==
  IF trades # <<>> /\ isCursorNewerThan(cursorFromTrade(Last(trades)), current)
    THEN cursorFromTrade(Last(trades)) ELSE current

-----------------------------------------------------------------------------
(* The predicate *)

gapCrosses(dir, prev, current) ==
  IF dir = "below" THEN prev >= GapThreshold /\ current < GapThreshold
                   ELSE prev <= GapThreshold /\ current > GapThreshold

PriceBefore(prev, trades, i) == IF i = 1 THEN prev ELSE trades[i - 1].price

GapCrossings(prev, trades) ==
  {i \in DOMAIN trades : gapCrosses(direction, PriceBefore(prev, trades, i), trades[i].price)}

(* Mutant: the watch is seeded from the newest trade. *)
ReplayThroughCrossingPredicate_Reseeds(prev, trades) ==
  [firstCrossingTrade |-> NoTrade,
   finalPrevious |-> IF trades = <<>> THEN prev ELSE Last(trades).price]

(* Mutant: a gap without trades leaves no price. *)
ReplayThroughCrossingPredicate_EmptyGap(prev, trades) ==
  LET hits == GapCrossings(prev, trades)
  IN [firstCrossingTrade |-> IF hits = {} THEN NoTrade ELSE cursorFromTrade(trades[Min(hits)]),
      finalPrevious |-> IF trades = <<>> THEN 0 ELSE Last(trades).price]

(* The first trade that crosses, and the price to go on from. *)
replayThroughCrossingPredicate(prev, trades) ==
  LET hits == GapCrossings(prev, trades)
  IN [firstCrossingTrade |-> IF hits = {} THEN NoTrade ELSE cursorFromTrade(trades[Min(hits)]),
      finalPrevious |-> IF trades = <<>> THEN prev ELSE Last(trades).price]

-----------------------------------------------------------------------------
(* The connection *)

Trade == [ms : 1..MaxMs, ns : 0..MaxNs, exchange : Exchange, price : GapPrice]
Numbered(t, n) == [ms |-> t.ms, ns |-> t.ns, exchange |-> t.exchange, id |-> n, price |-> t.price]
ReplayTrades == [timestamp : [ms : 1..MaxMs, ns : 0..MaxNs], exchange : Exchange,
                 id : 1..MaxGapTrades, price : GapPrice]
Cursors == {cursorFromTrade(trade) : trade \in ReplayTrades}

GapTypeOK ==
  /\ direction \in {"below", "above"}
  /\ venues \subseteq Exchange /\ liveRaw \in BOOLEAN /\ restRaw \in BOOLEAN
  /\ Len(tape) \in 1..MaxGapTrades
  /\ \A i \in DOMAIN tape : \E t \in Trade : tape[i] = Numbered(t, i)
  /\ gapConn \in {"live", "down", "seeding"}
  /\ gapBuffer \subseteq ReplayTrades
  /\ before \in 0..MaxGapTrades
  /\ gapCursor \in Cursors /\ gapPrevious \in GapPrice
  /\ fired \in Cursors \cup {NoTrade}
  /\ decided \in Nat

(* The stream has been live for one trade. *)
GapInit ==
  /\ direction \in {"below", "above"}
  /\ venues \in SUBSET Exchange /\ liveRaw \in BOOLEAN /\ restRaw \in BOOLEAN
  /\ tape \in {<<Numbered(t, 1)>> : t \in {trade \in Trade : trade.exchange \in venues}}
  /\ gapConn = "live" /\ gapBuffer = {} /\ before = 0
  /\ gapCursor = cursorFromTrade(toReplayTrade(tape[1]))
  /\ gapPrevious = tape[1].price
  /\ fired = NoTrade /\ decided = 1

Process(trades) ==
  LET replay == replayThroughCrossingPredicate(gapPrevious, trades)
  IN /\ fired' = IF fired = NoTrade THEN replay.firstCrossingTrade ELSE fired
     /\ gapPrevious' = replay.finalPrevious
     /\ gapCursor' = advanceCursor(gapCursor, trades)
     /\ decided' = decided + Len(trades)

(* The next trade.  Ids count up; of two trades of one instant the one on   *)
(* the later exchange comes second, since nobody outside can know better.   *)
Follows(t, last) ==
  \/ Earlier(Timestamp(last, TRUE), Timestamp(t, TRUE))
  \/ Timestamp(last, TRUE) = Timestamp(t, TRUE) /\ last.exchange <= t.exchange

Happens(t) ==
  /\ Len(tape) < MaxGapTrades /\ t.exchange \in venues /\ Follows(t, Last(tape))
  /\ tape' = Append(tape, Numbered(t, Len(tape) + 1))

TradeWhileLive(t) ==
  /\ gapConn = "live" /\ Happens(t)
  /\ Process(<<toReplayTrade(Last(tape'))>>)
  /\ UNCHANGED <<sources, gapConnection>>

TradeWhileDown(t) ==
  /\ gapConn = "down" /\ Happens(t)
  /\ UNCHANGED <<sources, gapConnection, gapWatch>>

TradeWhileSeeding(t) ==
  /\ gapConn = "seeding" /\ Happens(t)
  /\ gapBuffer' = gapBuffer \cup {toReplayTrade(Last(tape'))}
  /\ UNCHANGED <<sources, gapConn, before, gapWatch>>

GapBegins == /\ gapConn = "live" /\ gapConn' = "down"
             /\ UNCHANGED <<sources, tape, gapBuffer, before, gapWatch>>

Subscribe == /\ gapConn = "down" /\ gapConn' = "seeding"
             /\ before' = Len(tape)
             /\ UNCHANGED <<sources, tape, gapBuffer, gapWatch>>

(* Everything from the cursor's millisecond to the acknowledgement, and     *)
(* some of what came after it.                                              *)
getHistoricalTrades(recent) ==
  {ReplayTrade(tape[i], restRaw) :
     i \in {j \in 1..before \cup recent : tape[j].ms >= gapCursor.timestamp.ms}}

performGapReplay ==
  /\ gapConn = "seeding" /\ gapConn' = "live"
  /\ \E recent \in SUBSET (before + 1 .. Len(tape)) :
       Process(filterTradesAfterCursor(gapCursor,
                 mergeGapTrades(getHistoricalTrades(recent), gapBuffer)))
  /\ gapBuffer' = {} /\ before' = 0
  /\ UNCHANGED <<sources, tape>>

GapNext == \/ \E t \in Trade : TradeWhileLive(t) \/ TradeWhileDown(t) \/ TradeWhileSeeding(t)
           \/ GapBegins \/ Subscribe \/ performGapReplay

GapSpec == GapInit /\ [][GapNext]_gapVars

-----------------------------------------------------------------------------
(* Properties *)

(* The threshold as a level: the stream fires where it first gets past it.  *)
GapPast(i) == IF direction = "below" THEN tape[i].price < GapThreshold
                                     ELSE tape[i].price > GapThreshold
Entries == {i \in 2..Len(tape) : GapPast(i) /\ ~ GapPast(i - 1)}
Stream(i) == cursorFromTrade(toReplayTrade(tape[i]))

(* Both sources give a trade the same timestamp, and if that is only its    *)
(* millisecond, one exchange numbers all of them.                           *)
SourcesAgree == liveRaw = restRaw /\ (liveRaw \/ \E e \in Exchange : venues = {e})

(* "every trade run through the crossing predicate in order - never just    *)
(* re-seeding from the last value" and "the SAME trade set always sorts the *)
(* same way regardless of which source (historical fetch or live buffer)    *)
(* produced each entry" (gap-replay.ts): when the watch is live again it    *)
(* has fired on the trade it would have fired on without the gap, goes on   *)
(* from the last trade's price and cursor (advanceCursor), and every trade  *)
(* went through the predicate once.                                         *)
ReplayIsUninterrupted ==
  SourcesAgree /\ gapConn = "live" =>
    /\ fired = IF Entries = {} THEN NoTrade ELSE Stream(Min(Entries))
    /\ gapPrevious = Last(tape).price
    /\ gapCursor = Stream(Len(tape))
    /\ decided = Len(tape)
================================================================================
