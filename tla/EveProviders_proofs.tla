------------------------- MODULE EveProviders_proofs -------------------------
(***************************************************************************)
(* The watchers of the eve process for any subscriptions, filings, trades  *)
(* and orders, however long they run: the inductive invariants of the      *)
(* clock provider, the EDGAR watcher and the two Alpaca streams.           *)
(***************************************************************************)
EXTENDS ClockProvider, EdgarWatcher, AlpacaPriceStream, AlpacaOrderStream, TLAPS

-----------------------------------------------------------------------------
(* The clock provider *)

(* The timers that an arm and a retry set. *)
LEMMA TimerTypes ==
  ASSUME ClockAssumption, clockNow \in 0..MaxClockNow
  PROVE  /\ ChunkTimer \in Timer /\ RetryTimer \in Timer
         /\ ChunkTimer.kind = "chunk" /\ RetryTimer.kind = "retry"
  BY DEF ClockAssumption, ChunkTimer, RetryTimer, Timer, DueAt, nextChunkDelay, Least, Greatest

(* disarm() keeps the type of the records. *)
LEMMA DisarmedTypes ==
  ASSUME TimersTypeOK, NoState \notin Object, Disarmed(object)
  PROVE  object' \in [Object -> [timer : Timer \cup {NoTimer}, cancelled : BOOLEAN,
                                 inFlight : BOOLEAN]]
  <1>1. CASE clockState = NoState
    BY <1>1 DEF Disarmed, TimersTypeOK
  <1>2. CASE clockState # NoState
    <2>1. object' = [object EXCEPT ![clockState].cancelled = TRUE]
      BY <1>2 DEF Disarmed
    <2>2. [object[clockState] EXCEPT !.cancelled = TRUE] \in
            [timer : Timer \cup {NoTimer}, cancelled : BOOLEAN, inFlight : BOOLEAN]
      BY <1>2 DEF TimersTypeOK
    <2> QED
      BY <2>1, <2>2 DEF TimersTypeOK
  <1> QED
    BY <1>1, <1>2

(* Every step of the clock keeps the types. *)
LEMMA TimersTypeStep ==
  ASSUME ClockAssumption, TimersInv, [TimersNext]_timersVars
  PROVE  TimersTypeOK'
  <1> USE DEF TimersInv, TimersTypeOK, ClockAssumption, Object, Fresh, NotFiring,
    FireHasTheRecord, TimerIsTheRecords, Running, NotArmedYet, Nobody
  <1>1. CASE ArmClock
    <2>1. [Fresh EXCEPT !.timer = ChunkTimer] \in
            [timer : Timer \cup {NoTimer}, cancelled : BOOLEAN, inFlight : BOOLEAN]
      BY TimerTypes
    <2>2. object' \in [Object -> [timer : Timer \cup {NoTimer}, cancelled : BOOLEAN,
                                  inFlight : BOOLEAN]]
      BY ONLY <1>1, <2>1, TimersInv DEF ArmClock, TimersInv, TimersTypeOK
    <2> QED
      BY <1>1, <2>2, TimerTypes DEF ArmClock
  <1>2. CASE ExpiryFires
    BY <1>2 DEF ExpiryFires
  <1>3. CASE Recover
    BY <1>3 DEF Recover
  <1>4. CASE RivalSettles
    BY <1>4 DEF RivalSettles
  <1>5. CASE RivalDisarms
    <2>1. object' \in [Object -> [timer : Timer \cup {NoTimer}, cancelled : BOOLEAN,
                                  inFlight : BOOLEAN]]
      BY <1>5, DisarmedTypes DEF RivalDisarms
    <2> QED
      BY <1>5, <2>1 DEF RivalDisarms, Disarmed
  <1>6. CASE ConnectorSettles
    BY <1>6 DEF ConnectorSettles
  <1>7. CASE Tick
    BY <1>7 DEF Tick
  <1>8. ASSUME NEW t \in pending, ChunkEnds(t) PROVE TimersTypeOK'
    BY <1>8, TimerTypes DEF ChunkEnds
  <1>9. ASSUME NEW t \in pending, NEW c \in Attempt, Fire(t, c) PROVE TimersTypeOK'
    BY <1>9 DEF Fire, Due, At
  <1>10. ASSUME NEW c \in Attempt, ReadSubscription(c) PROVE TimersTypeOK'
    BY <1>10 DEF ReadSubscription, At, FireGoto, Exit
  <1>11. ASSUME NEW c \in Attempt, Transition(c) PROVE TimersTypeOK'
    BY <1>11 DEF Transition, At, FireGoto, ClockFault
  <1>12. ASSUME NEW c \in Attempt, DeliverTime(c) PROVE TimersTypeOK'
    <2>1. object' \in [Object -> [timer : Timer \cup {NoTimer}, cancelled : BOOLEAN,
                                  inFlight : BOOLEAN]]
      <3>1. CASE Disarmed(object)
        BY <3>1, DisarmedTypes
      <3>2. CASE UNCHANGED object
        BY <3>2
      <3> QED
        BY <1>12, <3>1, <3>2 DEF DeliverTime
    <2>2. fire' \in [Attempt ->
              [at : {"idle", "read", "transition", "deliver", "returned", "reread"},
               state : Object \cup {NoState}]]
      BY <1>12 DEF DeliverTime, FireGoto
    <2>3. clockState' \in Object \cup {NoState} /\ pending' \subseteq Timer
      BY <1>12 DEF DeliverTime, Disarmed
    <2>4. clockFaults' \in 0..MaxClockFaults
      BY <1>12 DEF DeliverTime, ClockFault
    <2> QED
      BY <1>12, <2>1, <2>2, <2>3, <2>4 DEF DeliverTime
  <1>13. ASSUME NEW c \in Attempt, Returned(c) PROVE TimersTypeOK'
    BY <1>13 DEF Returned, At, FireGoto, Exit
  <1>14. ASSUME NEW c \in Attempt, Reread(c) PROVE TimersTypeOK'
    BY <1>14, TimerTypes DEF Reread, At, Retry, CleanUp, Exit
  <1>15. ASSUME NEW c \in Attempt, FireThrows(c) PROVE TimersTypeOK'
    BY <1>15, TimerTypes DEF FireThrows, At, Retry, CleanUp, Exit, ClockFault
  <1>16. CASE UNCHANGED timersVars
    BY <1>16 DEF timersVars
  <1> QED
    BY <1>1, <1>2, <1>3, <1>4, <1>5, <1>6, <1>7, <1>8, <1>9, <1>10, <1>11, <1>12, <1>13, <1>14,
       <1>15, <1>16
    DEF TimersNext, Rival, FireSteps

(* A call of fire() keeps the record to itself. *)
LEMMA FireStep ==
  ASSUME ClockAssumption, TimersInv, [TimersNext]_timersVars
  PROVE  FireHasTheRecord'
  <1> USE DEF TimersInv, TimersTypeOK, FireHasTheRecord, TimerIsTheRecords, RetriesAreDue,
    DisarmCancels, NotArmedYet, Nobody, Running, Object, NotFiring, Fresh, ClockAssumption, State
  <1>1. CASE ArmClock
    BY <1>1, TimerTypes DEF ArmClock
  <1>2. CASE ExpiryFires
    BY <1>2 DEF ExpiryFires
  <1>3. CASE Recover
    BY <1>3 DEF Recover
  <1>4. CASE RivalSettles
    BY <1>4 DEF RivalSettles
  <1>5. CASE RivalDisarms
    BY <1>5 DEF RivalDisarms, Disarmed
  <1>6. CASE ConnectorSettles
    BY <1>6 DEF ConnectorSettles
  <1>7. CASE Tick
    BY <1>7 DEF Tick
  <1>8. ASSUME NEW t \in pending, ChunkEnds(t) PROVE FireHasTheRecord'
    BY <1>8, TimerTypes DEF ChunkEnds
  <1>9. ASSUME NEW t \in pending, NEW c \in Attempt, Fire(t, c) PROVE FireHasTheRecord'
    BY <1>9 DEF Fire, Due, At
  <1>10. ASSUME NEW c \in Attempt, ReadSubscription(c) PROVE FireHasTheRecord'
    BY <1>10 DEF ReadSubscription, At, FireGoto, Exit
  <1>11. ASSUME NEW c \in Attempt, Transition(c) PROVE FireHasTheRecord'
    BY <1>11 DEF Transition, At, FireGoto, ClockFault
  <1>12. ASSUME NEW c \in Attempt, DeliverTime(c) PROVE FireHasTheRecord'
    BY <1>12 DEF DeliverTime, At, FireGoto, ClockFault, Disarmed
  <1>13. ASSUME NEW c \in Attempt, Returned(c) PROVE FireHasTheRecord'
    BY <1>13 DEF Returned, At, FireGoto, Exit
  <1>14. ASSUME NEW c \in Attempt, Reread(c) PROVE FireHasTheRecord'
    BY <1>14, TimerTypes DEF Reread, At, Retry, CleanUp, Exit
  <1>15. ASSUME NEW c \in Attempt, FireThrows(c) PROVE FireHasTheRecord'
    BY <1>15, TimerTypes DEF FireThrows, At, Retry, CleanUp, Exit, ClockFault
  <1>16. CASE UNCHANGED timersVars
    BY <1>16 DEF timersVars
  <1> QED
    BY <1>1, <1>2, <1>3, <1>4, <1>5, <1>6, <1>7, <1>8, <1>9, <1>10, <1>11, <1>12, <1>13, <1>14,
       <1>15, <1>16
    DEF TimersNext, Rival, FireSteps

(* Without such a call the record keeps its one timer. *)
LEMMA TimerStep ==
  ASSUME ClockAssumption, TimersInv, [TimersNext]_timersVars
  PROVE  TimerIsTheRecords'
  <1> USE DEF TimersInv, TimersTypeOK, FireHasTheRecord, TimerIsTheRecords, RetriesAreDue,
    DisarmCancels, NotArmedYet, Nobody, Running, Object, NotFiring, Fresh, ClockAssumption, State
  <1>1. CASE ArmClock
    BY <1>1, TimerTypes DEF ArmClock
  <1>2. CASE ExpiryFires
    BY <1>2 DEF ExpiryFires
  <1>3. CASE Recover
    BY <1>3 DEF Recover
  <1>4. CASE RivalSettles
    BY <1>4 DEF RivalSettles
  <1>5. CASE RivalDisarms
    BY <1>5 DEF RivalDisarms, Disarmed
  <1>6. CASE ConnectorSettles
    BY <1>6 DEF ConnectorSettles
  <1>7. CASE Tick
    BY <1>7 DEF Tick
  <1>8. ASSUME NEW t \in pending, ChunkEnds(t) PROVE TimerIsTheRecords'
    BY <1>8, TimerTypes DEF ChunkEnds
  <1>9. ASSUME NEW t \in pending, NEW c \in Attempt, Fire(t, c) PROVE TimerIsTheRecords'
    BY <1>9 DEF Fire, Due, At
  <1>10. ASSUME NEW c \in Attempt, ReadSubscription(c) PROVE TimerIsTheRecords'
    BY <1>10 DEF ReadSubscription, At, FireGoto, Exit
  <1>11. ASSUME NEW c \in Attempt, Transition(c) PROVE TimerIsTheRecords'
    BY <1>11 DEF Transition, At, FireGoto, ClockFault
  <1>12. ASSUME NEW c \in Attempt, DeliverTime(c) PROVE TimerIsTheRecords'
    BY <1>12 DEF DeliverTime, At, FireGoto, ClockFault, Disarmed
  <1>13. ASSUME NEW c \in Attempt, Returned(c) PROVE TimerIsTheRecords'
    BY <1>13 DEF Returned, At, FireGoto, Exit
  <1>14. ASSUME NEW c \in Attempt, Reread(c) PROVE TimerIsTheRecords'
    BY <1>14, TimerTypes DEF Reread, At, Retry, CleanUp, Exit
  <1>15. ASSUME NEW c \in Attempt, FireThrows(c) PROVE TimerIsTheRecords'
    BY <1>15, TimerTypes DEF FireThrows, At, Retry, CleanUp, Exit, ClockFault
  <1>16. CASE UNCHANGED timersVars
    BY <1>16 DEF timersVars
  <1> QED
    BY <1>1, <1>2, <1>3, <1>4, <1>5, <1>6, <1>7, <1>8, <1>9, <1>10, <1>11, <1>12, <1>13, <1>14,
       <1>15, <1>16
    DEF TimersNext, Rival, FireSteps

(* Retries stay due, a disarmed record stays cancelled, and nothing begins
   before the arm. *)
LEMMA RestStep ==
  ASSUME ClockAssumption, TimersInv, [TimersNext]_timersVars
  PROVE  RetriesAreDue' /\ DisarmCancels' /\ NotArmedYet'
  <1> USE DEF TimersInv, TimersTypeOK, FireHasTheRecord, TimerIsTheRecords, RetriesAreDue,
    DisarmCancels, NotArmedYet, Nobody, Running, Object, NotFiring, Fresh, ClockAssumption, State
  <1>1. CASE ArmClock
    BY <1>1, TimerTypes DEF ArmClock
  <1>2. CASE ExpiryFires
    BY <1>2 DEF ExpiryFires
  <1>3. CASE Recover
    BY <1>3 DEF Recover
  <1>4. CASE RivalSettles
    BY <1>4 DEF RivalSettles
  <1>5. CASE RivalDisarms
    BY <1>5 DEF RivalDisarms, Disarmed
  <1>6. CASE ConnectorSettles
    BY <1>6 DEF ConnectorSettles
  <1>7. CASE Tick
    BY <1>7 DEF Tick
  <1>8. ASSUME NEW t \in pending, ChunkEnds(t)
        PROVE  RetriesAreDue' /\ DisarmCancels' /\ NotArmedYet'
    BY <1>8, TimerTypes DEF ChunkEnds
  <1>9. ASSUME NEW t \in pending, NEW c \in Attempt, Fire(t, c)
        PROVE  RetriesAreDue' /\ DisarmCancels' /\ NotArmedYet'
    BY <1>9 DEF Fire, Due, At
  <1>10. ASSUME NEW c \in Attempt, ReadSubscription(c)
         PROVE  RetriesAreDue' /\ DisarmCancels' /\ NotArmedYet'
    BY <1>10 DEF ReadSubscription, At, FireGoto, Exit
  <1>11. ASSUME NEW c \in Attempt, Transition(c)
         PROVE  RetriesAreDue' /\ DisarmCancels' /\ NotArmedYet'
    BY <1>11 DEF Transition, At, FireGoto, ClockFault
  <1>12. ASSUME NEW c \in Attempt, DeliverTime(c)
         PROVE  RetriesAreDue' /\ DisarmCancels' /\ NotArmedYet'
    BY <1>12 DEF DeliverTime, At, FireGoto, ClockFault, Disarmed
  <1>13. ASSUME NEW c \in Attempt, Returned(c)
         PROVE  RetriesAreDue' /\ DisarmCancels' /\ NotArmedYet'
    BY <1>13 DEF Returned, At, FireGoto, Exit
  <1>14. ASSUME NEW c \in Attempt, Reread(c)
         PROVE  RetriesAreDue' /\ DisarmCancels' /\ NotArmedYet'
    BY <1>14, TimerTypes DEF Reread, At, Retry, CleanUp, Exit
  <1>15. ASSUME NEW c \in Attempt, FireThrows(c)
         PROVE  RetriesAreDue' /\ DisarmCancels' /\ NotArmedYet'
    BY <1>15, TimerTypes DEF FireThrows, At, Retry, CleanUp, Exit, ClockFault
  <1>16. CASE UNCHANGED timersVars
    BY <1>16 DEF timersVars
  <1> QED
    BY <1>1, <1>2, <1>3, <1>4, <1>5, <1>6, <1>7, <1>8, <1>9, <1>10, <1>11, <1>12, <1>13, <1>14,
       <1>15, <1>16
    DEF TimersNext, Rival, FireSteps

(* The timers begin in the invariant and every step keeps it. *)
LEMMA TimersStart ==
  ASSUME ClockAssumption, TimersInit
  PROVE  TimersInv
  <1>1. Nobody
    BY DEF TimersInit, Nobody, Running, NotFiring
  <1>2. TimersTypeOK
    <2>1. Fresh \in [timer : Timer \cup {NoTimer}, cancelled : BOOLEAN, inFlight : BOOLEAN]
      BY DEF Fresh
    <2>2. NotFiring \in
            [at : {"idle", "read", "transition", "deliver", "returned", "reread"},
             state : Object \cup {NoState}]
      BY DEF NotFiring
    <2>3. clockNow \in 0..MaxClockNow /\ clockFaults \in 0..MaxClockFaults
      BY DEF ClockAssumption, TimersInit
    <2> QED
      BY <2>1, <2>2, <2>3 DEF TimersInit, TimersTypeOK
  <1>3. DisarmCancels
    BY DEF TimersInit, DisarmCancels, Object, Fresh
  <1> QED
    BY <1>1, <1>2, <1>3
    DEF TimersInit, TimersInv, FireHasTheRecord, TimerIsTheRecords, RetriesAreDue, NotArmedYet,
      Nobody

(* Every step of the clock keeps its invariant. *)
LEMMA TimersStep ==
  ASSUME ClockAssumption, TimersInv, [TimersNext]_timersVars
  PROVE  TimersInv'
  BY TimersTypeStep, FireStep, TimerStep, RestStep DEF TimersInv

(* What the invariant says of timers, records and armed subscriptions. *)
LEMMA TimersAreTheRecords ==
  ASSUME ClockAssumption, TimersInv
  PROVE  NoTimerAfterDisarm /\ NoRecordLeaks /\ ArmedIsWatched
  <1> USE DEF TimersInv, FireHasTheRecord, TimerIsTheRecords, DisarmCancels, Nobody
  <1>1. NoState # 1
    BY DEF ClockAssumption
  <1>2. NoTimerAfterDisarm
    BY <1>1 DEF NoTimerAfterDisarm
  <1>3. NoRecordLeaks
    BY <1>1 DEF NoRecordLeaks
  <1>4. ArmedIsWatched
    BY <1>1 DEF ArmedIsWatched
  <1> QED
    BY <1>2, <1>3, <1>4

(* A chunk that ends before the target is a whole one. *)
LEMMA ChunkIsLong ==
  ASSUME ClockAssumption, clockNow \in 0..MaxClockNow
  PROVE  ChunkTimer.at = clockNow + MaxTimeout \/ Target <= ChunkTimer.at
  BY DEF ClockAssumption, ChunkTimer, DueAt, nextChunkDelay, Least, Greatest

(* No step sets a shorter one. *)
LEMMA ChunkStep ==
  ASSUME ClockAssumption, TimersInv, [TimersNext]_timersVars, NEW t \in pending' \ pending,
         t.kind = "chunk"
  PROVE  t.at = clockNow + MaxTimeout \/ Target <= t.at
  <1>1. clockNow \in 0..MaxClockNow
    BY DEF TimersInv, TimersTypeOK
  <1>2. \/ pending' \subseteq pending \/ pending' \subseteq pending \cup {ChunkTimer}
        \/ pending' \subseteq pending \cup {RetryTimer}
    BY DEF TimersNext, timersVars, Rival, FireSteps, ArmClock, Tick, ChunkEnds, Fire,
      ReadSubscription, Transition, DeliverTime, Returned, Reread, FireThrows, Retry, CleanUp,
      ExpiryFires, Recover, RivalSettles, RivalDisarms, ConnectorSettles, Disarmed
  <1>3. t # RetryTimer
    BY <1>1, TimerTypes
  <1>4. t = ChunkTimer
    BY <1>2, <1>3
  <1> QED
    BY <1>1, <1>4, ChunkIsLong

-----------------------------------------------------------------------------
(* The EDGAR watcher *)

(* The types, in three groups: the counts and times ... *)
TimesOK ==
  /\ secNow \in 0..MaxSecNow /\ accepted \in [Filing -> 0..Never]
  /\ armedAt \in [Sub -> 0..Never] /\ cutoff \in [Watch -> 0..Never]
  /\ fetchFaults \in 0..MaxFetchFaults

(* ... the places of the arms, watches and polls ... *)
PlacesOK ==
  /\ status \in [Sub -> {"pending", "armed", "delivering", "settled", "failed"}]
  /\ arm \in [Sub -> {"ready", "resolve", "claim", "await", "done"}]
  /\ waitsFor \in [Sub -> 0..MaxWatch]
  /\ creation \in [Watch -> {"none", "pending", "resolved", "rejected"}]
  /\ live \in 0..MaxWatch /\ watchCreation \in 0..MaxWatch /\ ticking \subseteq Watch

(* ... and the sets. *)
SetsOK ==
  /\ wokenBy \in [Sub -> Filing \cup {None}]
  /\ seen \in [Watch -> SUBSET Filing]
  /\ members \in [Watch -> SUBSET Sub]
  /\ subCik \subseteq Sub
  /\ poll \in [Poll -> [watch : 0..MaxWatch, filings : SUBSET Filing]]
  /\ offers \subseteq Filing \X Sub

(* Together they are the type of the watcher. *)
LEMMA WatcherTypeParts == WatcherTypeOK <=> TimesOK /\ PlacesOK /\ SetsOK
  BY DEF WatcherTypeOK, TimesOK, PlacesOK, SetsOK

(* The next watch is the first that has not been created. *)
LEMMA NextWatchIsUnused ==
  ASSUME EdgarWatcherAssumption, CreatedInOrder, Unused # {}
  PROVE  /\ NextWatch \in Watch /\ creation[NextWatch] = "none"
         /\ \A w \in Watch : creation[w] = "none" <=> NextWatch <= w
  <1>1. PICK next \in 1..MaxWatch + 1 : \A w \in Watch : creation[w] = "none" <=> next <= w
    BY DEF CreatedInOrder
  <1>2. next \in Unused /\ \A v \in Unused : next <= v
    BY <1>1 DEF Unused, Watch, EdgarWatcherAssumption
  <1>3. NextWatch \in Unused /\ \A v \in Unused : NextWatch <= v
    BY <1>2 DEF NextWatch
  <1>4. NextWatch = next
    BY <1>2, <1>3 DEF Unused, Watch, EdgarWatcherAssumption
  <1> QED
    BY <1>1, <1>3, <1>4 DEF Unused

(* What a claim leaves behind on the live watch. *)
LEMMA ClaimedInserts ==
  ASSUME EdgarWatcherAssumption, WatcherInv, NEW s \in Sub, Claimed(s), live = waitsFor[s]
  PROVE  /\ live \in Watch
         /\ members' = [members EXCEPT ![live] = members[live] \cup {s}]
         /\ subCik' = subCik \cup {s}
         /\ arm' = [arm EXCEPT ![s] = "done"] /\ waitsFor' = [waitsFor EXCEPT ![s] = 0]
         /\ UNCHANGED <<creation, live, watchCreation, ticking>>
  <1>1. live \in Watch
    BY DEF WatcherInv, WatcherTypeOK, AwaitsACreation, Claimed, Watch, EdgarWatcherAssumption
  <1> QED
    BY <1>1 DEF Claimed, Insert

(* Every step keeps the counts and times. *)
LEMMA TimesStep ==
  ASSUME EdgarWatcherAssumption, WatcherInv, [WatcherNext]_watcherVars
  PROVE  TimesOK'
  <1>0. TimesOK /\ PlacesOK /\ SetsOK
    BY WatcherTypeParts DEF WatcherInv
  <1> USE DEF WatcherInv, EdgarWatcherAssumption, Watch, TimesOK, PlacesOK, Never
  <1>1. CASE Advance
    BY <1>0, <1>1 DEF Advance, record, claim, watch
  <1>2. ASSUME NEW f \in Filing, File(f) PROVE TimesOK'
    BY <1>0, <1>2 DEF File, record, claim, watch
  <1>3. ASSUME NEW s \in Sub, WriteArmed(s) PROVE TimesOK'
    BY <1>0, <1>3 DEF WriteArmed, sec, watch
  <1>4. ASSUME NEW s \in Sub, ResolveCik(s) PROVE TimesOK'
    BY <1>0, <1>4 DEF ResolveCik, FetchFault, WatchArmFails, sec, watch
  <1>5. ASSUME NEW s \in Sub, ClaimWatch(s) PROVE TimesOK'
    <2>1. CASE watchCreation # 0
      BY <1>0, <1>5, NextWatchIsUnused, <2>1 DEF ClaimWatch, Await, sec, record, Create
    <2>2. CASE watchCreation = 0
      <3>1. NextWatch \in Watch /\ cutoff' = [cutoff EXCEPT ![NextWatch] = armedAt[s]]
        BY <1>5, <2>2, NextWatchIsUnused DEF ClaimWatch, Create
      <3> QED
        BY <1>0, <1>5, <3>1 DEF ClaimWatch, sec, record
    <2> QED
      BY <2>1, <2>2
  <1>6. ASSUME NEW s \in Sub, Claimed(s) PROVE TimesOK'
    BY <1>0, <1>6 DEF Claimed, Insert, sec, record
  <1>7. ASSUME NEW s \in Sub, ClaimRejected(s) PROVE TimesOK'
    BY <1>0, <1>7 DEF ClaimRejected, WatchArmFails, sec, watch
  <1>8. ASSUME NEW s \in Sub, WatchExpires(s) PROVE TimesOK'
    BY <1>0, <1>8 DEF WatchExpires, sec, claim, watch
  <1>9. ASSUME NEW s \in Sub, Settle(s) PROVE TimesOK'
    BY <1>0, <1>9 DEF Settle, TearDown, sec, claim
  <1>10. ASSUME NEW w \in Watch, CreateWatch(w) PROVE TimesOK'
    BY <1>0, <1>10 DEF CreateWatch, sec, record, claim
  <1>11. ASSUME NEW w \in Watch, CreateFails(w) PROVE TimesOK'
    BY <1>0, <1>11 DEF CreateFails, FetchFault, sec, record, claim
  <1>12. ASSUME NEW p \in Poll, PollFetches(p) PROVE TimesOK'
    BY <1>0, <1>12 DEF PollFetches, sec, record, claim, watch
  <1>13. ASSUME NEW p \in Poll, PollHandles(p) PROVE TimesOK'
    BY <1>0, <1>13 DEF PollHandles, sec, record, claim
  <1>14. ASSUME NEW p \in Poll, PollFails(p) PROVE TimesOK'
    BY <1>0, <1>14 DEF PollFails, FetchFault, sec, record, claim, watch
  <1>15. ASSUME NEW o \in offers, DeliverFiling(o) PROVE TimesOK'
    BY <1>0, <1>15 DEF DeliverFiling, FetchFault, sec, claim, watch
  <1>16. CASE UNCHANGED watcherVars
    BY <1>0, <1>16 DEF watcherVars, sec, record, claim, watch
  <1> QED
    BY <1>1, <1>2, <1>3, <1>4, <1>5, <1>6, <1>7, <1>8, <1>9, <1>10, <1>11, <1>12, <1>13, <1>14,
       <1>15, <1>16
    DEF WatcherNext, ArmSteps

(* Every step keeps the places of arms, watches and polls. *)
LEMMA PlacesStep ==
  ASSUME EdgarWatcherAssumption, WatcherInv, [WatcherNext]_watcherVars
  PROVE  PlacesOK'
  <1>0. TimesOK /\ PlacesOK /\ SetsOK
    BY WatcherTypeParts DEF WatcherInv
  <1> USE DEF WatcherInv, EdgarWatcherAssumption, Watch, PlacesOK
  <1>1. CASE Advance
    BY <1>0, <1>1 DEF Advance, record, claim, watch
  <1>2. ASSUME NEW f \in Filing, File(f) PROVE PlacesOK'
    BY <1>0, <1>2 DEF File, record, claim, watch
  <1>3. ASSUME NEW s \in Sub, WriteArmed(s) PROVE PlacesOK'
    BY <1>0, <1>3 DEF WriteArmed, sec, watch
  <1>4. ASSUME NEW s \in Sub, ResolveCik(s) PROVE PlacesOK'
    <2>1. CASE arm' = [arm EXCEPT ![s] = "claim"] /\ UNCHANGED <<status, waitsFor>>
      BY <1>0, <1>4, <2>1 DEF ResolveCik, FetchFault, WatchArmFails, sec, watch
    <2>2. CASE WatchArmFails(s)
      BY <1>0, <1>4, <2>2 DEF ResolveCik, FetchFault, WatchArmFails, sec, watch
    <2> QED
      BY <1>4, <2>1, <2>2 DEF ResolveCik
  <1>5. ASSUME NEW s \in Sub, ClaimWatch(s) PROVE PlacesOK'
    <2>1. CASE watchCreation # 0
      BY <1>0, <1>5, NextWatchIsUnused, <2>1 DEF ClaimWatch, Await, sec, record, Create
    <2>2. CASE watchCreation = 0
      <3>1. NextWatch \in Watch
        BY <1>5, <2>2, NextWatchIsUnused DEF ClaimWatch, Create
      <3>2. creation' = [creation EXCEPT ![NextWatch] = "pending"] /\ watchCreation' = NextWatch
        BY <1>5, <2>2 DEF ClaimWatch, Create
      <3>3. arm' = [arm EXCEPT ![s] = "await"] /\ waitsFor' = [waitsFor EXCEPT ![s] = NextWatch]
        BY <1>5, <2>2 DEF ClaimWatch, Create, Await
      <3> QED
        BY <1>0, <1>5, NextWatchIsUnused, <3>1, <3>2, <3>3 DEF ClaimWatch, record
    <2> QED
      BY <2>1, <2>2
  <1>6. ASSUME NEW s \in Sub, Claimed(s) PROVE PlacesOK'
    <2>1. /\ arm' = [arm EXCEPT ![s] = "done"] \/ arm' = [arm EXCEPT ![s] = "claim"]
          /\ waitsFor' = [waitsFor EXCEPT ![s] = 0]
          /\ UNCHANGED <<status, creation, live, watchCreation, ticking>>
      BY <1>6 DEF Claimed, Insert, record
    <2> QED
      BY <1>0, <2>1
  <1>7. ASSUME NEW s \in Sub, ClaimRejected(s) PROVE PlacesOK'
    BY <1>0, <1>7 DEF ClaimRejected, WatchArmFails, sec, watch
  <1>8. ASSUME NEW s \in Sub, WatchExpires(s) PROVE PlacesOK'
    BY <1>0, <1>8 DEF WatchExpires, sec, claim, watch
  <1>9. ASSUME NEW s \in Sub, Settle(s) PROVE PlacesOK'
    <2>1. status' \in [Sub -> {"pending", "armed", "delivering", "settled", "failed"}]
      BY <1>0, <1>9 DEF Settle
    <2>2. \/ ticking' = ticking \ {live} /\ live' = 0 /\ watchCreation' = 0
          \/ UNCHANGED <<ticking, live, watchCreation>>
      BY <1>9 DEF Settle, TearDown
    <2>3. UNCHANGED <<arm, waitsFor, creation>>
      BY <1>9 DEF Settle, claim
    <2>4. live' \in 0..MaxWatch /\ watchCreation' \in 0..MaxWatch /\ ticking' \subseteq Watch
      <3>1. 0 \in 0..MaxWatch /\ live \in 0..MaxWatch /\ watchCreation \in 0..MaxWatch
            /\ ticking \subseteq Watch
        BY <1>0
      <3> QED
        BY ONLY <2>2, <3>1
    <2> QED
      BY <1>0, <2>1, <2>3, <2>4
  <1>10. ASSUME NEW w \in Watch, CreateWatch(w) PROVE PlacesOK'
    BY <1>0, <1>10 DEF CreateWatch, sec, record, claim
  <1>11. ASSUME NEW w \in Watch, CreateFails(w) PROVE PlacesOK'
    BY <1>0, <1>11 DEF CreateFails, FetchFault, sec, record, claim
  <1>12. ASSUME NEW p \in Poll, PollFetches(p) PROVE PlacesOK'
    BY <1>0, <1>12 DEF PollFetches, sec, record, claim, watch
  <1>13. ASSUME NEW p \in Poll, PollHandles(p) PROVE PlacesOK'
    BY <1>0, <1>13 DEF PollHandles, sec, record, claim
  <1>14. ASSUME NEW p \in Poll, PollFails(p) PROVE PlacesOK'
    BY <1>0, <1>14 DEF PollFails, FetchFault, sec, record, claim, watch
  <1>15. ASSUME NEW o \in offers, DeliverFiling(o) PROVE PlacesOK'
    BY <1>0, <1>15 DEF DeliverFiling, FetchFault, sec, claim, watch
  <1>16. CASE UNCHANGED watcherVars
    BY <1>0, <1>16 DEF watcherVars, sec, record, claim, watch
  <1> QED
    BY <1>1, <1>2, <1>3, <1>4, <1>5, <1>6, <1>7, <1>8, <1>9, <1>10, <1>11, <1>12, <1>13, <1>14,
       <1>15, <1>16
    DEF WatcherNext, ArmSteps

(* Every step keeps the types of the sets. *)
LEMMA SetsStep ==
  ASSUME EdgarWatcherAssumption, WatcherInv, [WatcherNext]_watcherVars
  PROVE  SetsOK'
  <1>0. TimesOK /\ PlacesOK /\ SetsOK
    BY WatcherTypeParts DEF WatcherInv
  <1> USE DEF WatcherInv, EdgarWatcherAssumption, Watch, SetsOK, PlacesOK, NoPoll, Filed,
    seedAccessionSet, diffNewFilings
  <1>1. CASE Advance
    BY <1>0, <1>1 DEF Advance, record, claim, watch
  <1>2. ASSUME NEW f \in Filing, File(f) PROVE SetsOK'
    BY <1>0, <1>2 DEF File, record, claim, watch
  <1>3. ASSUME NEW s \in Sub, WriteArmed(s) PROVE SetsOK'
    BY <1>0, <1>3 DEF WriteArmed, sec, watch
  <1>4. ASSUME NEW s \in Sub, ResolveCik(s) PROVE SetsOK'
    BY <1>0, <1>4 DEF ResolveCik, FetchFault, WatchArmFails, sec, watch
  <1>5. ASSUME NEW s \in Sub, ClaimWatch(s) PROVE SetsOK'
    BY <1>0, <1>5, NextWatchIsUnused DEF ClaimWatch, Await, sec, record, Create
  <1>6. ASSUME NEW s \in Sub, Claimed(s) PROVE SetsOK'
    <2>1. CASE live = waitsFor[s]
      <3>1. /\ live \in Watch /\ members' = [members EXCEPT ![live] = members[live] \cup {s}]
            /\ subCik' = subCik \cup {s}
        BY <1>6, <2>1, ClaimedInserts
      <3> QED
        BY <1>0, <1>6, <3>1 DEF Claimed, record
    <2>2. CASE live # waitsFor[s]
      BY <1>0, <1>6, <2>2 DEF Claimed, Insert, sec, record
    <2> QED
      BY <2>1, <2>2
  <1>7. ASSUME NEW s \in Sub, ClaimRejected(s) PROVE SetsOK'
    BY <1>0, <1>7 DEF ClaimRejected, WatchArmFails, sec, watch
  <1>8. ASSUME NEW s \in Sub, WatchExpires(s) PROVE SetsOK'
    BY <1>0, <1>8 DEF WatchExpires, sec, claim, watch
  <1>9. ASSUME NEW s \in Sub, Settle(s) PROVE SetsOK'
    <2>1. CASE s \in subCik /\ live # 0
      <3>1. live \in Watch /\ members' = [members EXCEPT ![live] = members[live] \ {s}]
        BY <1>0, <1>9, <2>1 DEF Settle
      <3> QED
        BY <1>0, <1>9, <3>1 DEF Settle
    <2>2. CASE ~ (s \in subCik /\ live # 0)
      BY <1>0, <1>9, <2>2 DEF Settle
    <2> QED
      BY <2>1, <2>2
  <1>10. ASSUME NEW w \in Watch, CreateWatch(w) PROVE SetsOK'
    BY <1>0, <1>10 DEF CreateWatch, sec, record, claim
  <1>11. ASSUME NEW w \in Watch, CreateFails(w) PROVE SetsOK'
    BY <1>0, <1>11 DEF CreateFails, FetchFault, sec, record, claim
  <1>12. ASSUME NEW p \in Poll, PollFetches(p) PROVE SetsOK'
    BY <1>0, <1>12 DEF PollFetches, sec, record, claim, watch
  <1>13. ASSUME NEW p \in Poll, PollHandles(p) PROVE SetsOK'
    <2>1. seen' \in [Watch -> SUBSET Filing]
      BY <1>0, <1>13 DEF PollHandles, sec, record, claim
    <2>2. poll' \in [Poll -> [watch : 0..MaxWatch, filings : SUBSET Filing]]
      BY <1>0, <1>13 DEF PollHandles, sec, record, claim
    <2>3. poll[p] \in [watch : 0..MaxWatch, filings : SUBSET Filing]
      BY <1>0, <1>13
    <2> DEFINE w == poll[p].watch
               fresh == poll[p].filings \ seen[w]
    <2>4. w \in Watch
      BY <1>13, <2>3 DEF PollHandles, PollsAWatch
    <2>5. fresh \subseteq Filing /\ members[w] \subseteq Sub
      BY <1>0, <2>3, <2>4
    <2>6. offers' = offers \cup {o \in fresh \X members[w] : o[1] \in Wants[o[2]]}
      BY <1>13 DEF PollHandles
    <2> HIDE DEF w, fresh
    <2>7. offers' \subseteq Filing \X Sub
      BY <1>0, <2>5, <2>6
    <2> QED
      BY <1>0, <1>13, <2>1, <2>2, <2>7 DEF PollHandles, sec, record, claim
  <1>14. ASSUME NEW p \in Poll, PollFails(p) PROVE SetsOK'
    BY <1>0, <1>14 DEF PollFails, FetchFault, sec, record, claim, watch
  <1>15. ASSUME NEW o \in offers, DeliverFiling(o) PROVE SetsOK'
    BY <1>0, <1>15 DEF DeliverFiling, FetchFault, sec, claim, watch
  <1>16. CASE UNCHANGED watcherVars
    BY <1>0, <1>16 DEF watcherVars, sec, record, claim, watch
  <1> QED
    BY <1>1, <1>2, <1>3, <1>4, <1>5, <1>6, <1>7, <1>8, <1>9, <1>10, <1>11, <1>12, <1>13, <1>14,
       <1>15, <1>16
    DEF WatcherNext, ArmSteps

(* The interval that runs and the cached promise are those of the live watch. *)
LEMMA OneLoopStep ==
  ASSUME EdgarWatcherAssumption, WatcherInv, [WatcherNext]_watcherVars
  PROVE  OnePollLoop' /\ CachedPromiseIsGood' /\ PromiseOfTheLive'
  <1> USE DEF WatcherInv, EdgarWatcherAssumption, Watch, WatcherTypeOK, OnePollLoop,
    CachedPromiseIsGood, PromiseOfTheLive
  <1>1. CASE Advance
    BY <1>1 DEF Advance, record, claim, watch
  <1>2. ASSUME NEW f \in Filing, File(f)
        PROVE  OnePollLoop' /\ CachedPromiseIsGood' /\ PromiseOfTheLive'
    BY <1>2 DEF File, record, claim, watch
  <1>3. ASSUME NEW s \in Sub, WriteArmed(s)
        PROVE  OnePollLoop' /\ CachedPromiseIsGood' /\ PromiseOfTheLive'
    BY <1>3 DEF WriteArmed, sec, watch
  <1>4. ASSUME NEW s \in Sub, ResolveCik(s)
        PROVE  OnePollLoop' /\ CachedPromiseIsGood' /\ PromiseOfTheLive'
    BY <1>4 DEF ResolveCik, FetchFault, WatchArmFails, sec, watch
  <1>5. ASSUME NEW s \in Sub, ClaimWatch(s)
        PROVE  OnePollLoop' /\ CachedPromiseIsGood' /\ PromiseOfTheLive'
    BY <1>5, NextWatchIsUnused DEF ClaimWatch, Await, sec, record, Create
  <1>6. ASSUME NEW s \in Sub, Claimed(s)
        PROVE  OnePollLoop' /\ CachedPromiseIsGood' /\ PromiseOfTheLive'
    BY <1>6 DEF Claimed, Insert, sec, record
  <1>7. ASSUME NEW s \in Sub, ClaimRejected(s)
        PROVE  OnePollLoop' /\ CachedPromiseIsGood' /\ PromiseOfTheLive'
    BY <1>7 DEF ClaimRejected, WatchArmFails, sec, watch
  <1>8. ASSUME NEW s \in Sub, WatchExpires(s)
        PROVE  OnePollLoop' /\ CachedPromiseIsGood' /\ PromiseOfTheLive'
    BY <1>8 DEF WatchExpires, sec, claim, watch
  <1>9. ASSUME NEW s \in Sub, Settle(s)
        PROVE  OnePollLoop' /\ CachedPromiseIsGood' /\ PromiseOfTheLive'
    BY <1>9 DEF Settle, TearDown, sec, claim
  <1>10. ASSUME NEW w \in Watch, CreateWatch(w)
         PROVE  OnePollLoop' /\ CachedPromiseIsGood' /\ PromiseOfTheLive'
    BY <1>10 DEF CreateWatch, sec, record, claim
  <1>11. ASSUME NEW w \in Watch, CreateFails(w)
         PROVE  OnePollLoop' /\ CachedPromiseIsGood' /\ PromiseOfTheLive'
    BY <1>11 DEF CreateFails, FetchFault, sec, record, claim
  <1>12. ASSUME NEW p \in Poll, PollFetches(p)
         PROVE  OnePollLoop' /\ CachedPromiseIsGood' /\ PromiseOfTheLive'
    BY <1>12 DEF PollFetches, sec, record, claim, watch
  <1>13. ASSUME NEW p \in Poll, PollHandles(p)
         PROVE  OnePollLoop' /\ CachedPromiseIsGood' /\ PromiseOfTheLive'
    BY <1>13 DEF PollHandles, sec, record, claim
  <1>14. ASSUME NEW p \in Poll, PollFails(p)
         PROVE  OnePollLoop' /\ CachedPromiseIsGood' /\ PromiseOfTheLive'
    BY <1>14 DEF PollFails, FetchFault, sec, record, claim, watch
  <1>15. ASSUME NEW o \in offers, DeliverFiling(o)
         PROVE  OnePollLoop' /\ CachedPromiseIsGood' /\ PromiseOfTheLive'
    BY <1>15 DEF DeliverFiling, FetchFault, sec, claim, watch
  <1>16. CASE UNCHANGED watcherVars
    BY <1>16 DEF watcherVars, sec, record, claim, watch
  <1> QED
    BY <1>1, <1>2, <1>3, <1>4, <1>5, <1>6, <1>7, <1>8, <1>9, <1>10, <1>11, <1>12, <1>13, <1>14,
       <1>15, <1>16
    DEF WatcherNext, ArmSteps

(* A claimed subscription stays on the live watch until disarm(). *)
LEMMA ClaimedStep ==
  ASSUME EdgarWatcherAssumption, WatcherInv, [WatcherNext]_watcherVars
  PROVE  ClaimedIsOnIt'
  <1> USE DEF WatcherInv, EdgarWatcherAssumption, Watch, WatcherTypeOK, OnePollLoop,
    CachedPromiseIsGood, PromiseOfTheLive, ClaimedIsOnIt
  <1>1. CASE Advance
    BY <1>1 DEF Advance, record, claim, watch
  <1>2. ASSUME NEW f \in Filing, File(f) PROVE ClaimedIsOnIt'
    BY <1>2 DEF File, record, claim, watch
  <1>3. ASSUME NEW s \in Sub, WriteArmed(s) PROVE ClaimedIsOnIt'
    BY <1>3 DEF WriteArmed, sec, watch
  <1>4. ASSUME NEW s \in Sub, ResolveCik(s) PROVE ClaimedIsOnIt'
    BY <1>4 DEF ResolveCik, FetchFault, WatchArmFails, sec, watch
  <1>5. ASSUME NEW s \in Sub, ClaimWatch(s) PROVE ClaimedIsOnIt'
    BY <1>5, NextWatchIsUnused DEF ClaimWatch, Await, sec, record, Create
  <1>6. ASSUME NEW s \in Sub, Claimed(s) PROVE ClaimedIsOnIt'
    <2>1. CASE live = waitsFor[s]
      <3>1. /\ members' = [members EXCEPT ![live] = members[live] \cup {s}] /\ live \in Watch
            /\ subCik' = subCik \cup {s} /\ live' = live
        BY <1>6, <2>1, ClaimedInserts
      <3>2. members \in [Watch -> SUBSET Sub] /\ ClaimedIsOnIt
        OBVIOUS
      <3> QED
        BY ONLY <3>1, <3>2 DEF ClaimedIsOnIt
    <2>2. CASE live # waitsFor[s]
      BY <1>6, <2>2 DEF Claimed, Insert, sec, record
    <2> QED
      BY <2>1, <2>2
  <1>7. ASSUME NEW s \in Sub, ClaimRejected(s) PROVE ClaimedIsOnIt'
    BY <1>7 DEF ClaimRejected, WatchArmFails, sec, watch
  <1>8. ASSUME NEW s \in Sub, WatchExpires(s) PROVE ClaimedIsOnIt'
    BY <1>8 DEF WatchExpires, sec, claim, watch
  <1>9. ASSUME NEW s \in Sub, Settle(s) PROVE ClaimedIsOnIt'
    BY <1>9 DEF Settle, TearDown, sec, claim
  <1>10. ASSUME NEW w \in Watch, CreateWatch(w) PROVE ClaimedIsOnIt'
    BY <1>10 DEF CreateWatch, sec, record, claim
  <1>11. ASSUME NEW w \in Watch, CreateFails(w) PROVE ClaimedIsOnIt'
    BY <1>11 DEF CreateFails, FetchFault, sec, record, claim
  <1>12. ASSUME NEW p \in Poll, PollFetches(p) PROVE ClaimedIsOnIt'
    BY <1>12 DEF PollFetches, sec, record, claim, watch
  <1>13. ASSUME NEW p \in Poll, PollHandles(p) PROVE ClaimedIsOnIt'
    BY <1>13 DEF PollHandles, sec, record, claim
  <1>14. ASSUME NEW p \in Poll, PollFails(p) PROVE ClaimedIsOnIt'
    BY <1>14 DEF PollFails, FetchFault, sec, record, claim, watch
  <1>15. ASSUME NEW o \in offers, DeliverFiling(o) PROVE ClaimedIsOnIt'
    BY <1>15 DEF DeliverFiling, FetchFault, sec, claim, watch
  <1>16. CASE UNCHANGED watcherVars
    BY <1>16 DEF watcherVars, sec, record, claim, watch
  <1> QED
    BY <1>1, <1>2, <1>3, <1>4, <1>5, <1>6, <1>7, <1>8, <1>9, <1>10, <1>11, <1>12, <1>13, <1>14,
       <1>15, <1>16
    DEF WatcherNext, ArmSteps

(* A step creates the next watch or none, and the cached promise is that of
   the live one. *)
LEMMA CreatedStep ==
  ASSUME EdgarWatcherAssumption, WatcherInv, [WatcherNext]_watcherVars
  PROVE  CreatedInOrder'
  <1> USE DEF WatcherInv, EdgarWatcherAssumption, Watch, WatcherTypeOK, CreatedInOrder
  <1>1. CASE Advance
    BY <1>1 DEF Advance, record, claim, watch
  <1>2. ASSUME NEW f \in Filing, File(f) PROVE CreatedInOrder'
    BY <1>2 DEF File, record, claim, watch
  <1>3. ASSUME NEW s \in Sub, WriteArmed(s) PROVE CreatedInOrder'
    BY <1>3 DEF WriteArmed, sec, watch
  <1>4. ASSUME NEW s \in Sub, ResolveCik(s) PROVE CreatedInOrder'
    BY <1>4 DEF ResolveCik, FetchFault, WatchArmFails, sec, watch
  <1>5. ASSUME NEW s \in Sub, ClaimWatch(s) PROVE CreatedInOrder'
    <2>1. CASE watchCreation # 0
      BY <1>5, <2>1 DEF ClaimWatch
    <2>2. CASE watchCreation = 0
      <3>1. /\ NextWatch \in Watch
            /\ \A w \in Watch : creation[w] = "none" <=> NextWatch <= w
            /\ creation' = [creation EXCEPT ![NextWatch] = "pending"]
        BY <1>5, <2>2, NextWatchIsUnused DEF ClaimWatch, Create
      <3>2. \A w \in Watch : creation'[w] = "none" <=> NextWatch + 1 <= w
        BY <3>1
      <3>3. NextWatch + 1 \in 1..MaxWatch + 1
        BY <3>1
      <3> QED
        BY <3>2, <3>3
    <2> QED
      BY <2>1, <2>2
  <1>6. ASSUME NEW s \in Sub, Claimed(s) PROVE CreatedInOrder'
    BY <1>6 DEF Claimed, Insert, sec, record
  <1>7. ASSUME NEW s \in Sub, ClaimRejected(s) PROVE CreatedInOrder'
    BY <1>7 DEF ClaimRejected, WatchArmFails, sec, watch
  <1>8. ASSUME NEW s \in Sub, WatchExpires(s) PROVE CreatedInOrder'
    BY <1>8 DEF WatchExpires, sec, claim, watch
  <1>9. ASSUME NEW s \in Sub, Settle(s) PROVE CreatedInOrder'
    BY <1>9 DEF Settle, TearDown, sec, claim
  <1>10. ASSUME NEW w \in Watch, CreateWatch(w) PROVE CreatedInOrder'
    BY <1>10 DEF CreateWatch, sec, record, claim
  <1>11. ASSUME NEW w \in Watch, CreateFails(w) PROVE CreatedInOrder'
    BY <1>11 DEF CreateFails, FetchFault, sec, record, claim
  <1>12. ASSUME NEW p \in Poll, PollFetches(p) PROVE CreatedInOrder'
    BY <1>12 DEF PollFetches, sec, record, claim, watch
  <1>13. ASSUME NEW p \in Poll, PollHandles(p) PROVE CreatedInOrder'
    BY <1>13 DEF PollHandles, sec, record, claim
  <1>14. ASSUME NEW p \in Poll, PollFails(p) PROVE CreatedInOrder'
    BY <1>14 DEF PollFails, FetchFault, sec, record, claim, watch
  <1>15. ASSUME NEW o \in offers, DeliverFiling(o) PROVE CreatedInOrder'
    BY <1>15 DEF DeliverFiling, FetchFault, sec, claim, watch
  <1>16. CASE UNCHANGED watcherVars
    BY <1>16 DEF watcherVars, sec, record, claim, watch
  <1> QED
    BY <1>1, <1>2, <1>3, <1>4, <1>5, <1>6, <1>7, <1>8, <1>9, <1>10, <1>11, <1>12, <1>13, <1>14,
       <1>15, <1>16
    DEF WatcherNext, ArmSteps

(* An arm awaits a creation that has begun. *)
LEMMA AwaitsStep ==
  ASSUME EdgarWatcherAssumption, WatcherInv, [WatcherNext]_watcherVars
  PROVE  AwaitsACreation'
  <1> USE DEF WatcherInv, EdgarWatcherAssumption, Watch, WatcherTypeOK, AwaitsACreation,
    CachedPromiseIsGood
  <1>1. CASE Advance
    BY <1>1 DEF Advance, record, claim, watch
  <1>2. ASSUME NEW f \in Filing, File(f) PROVE AwaitsACreation'
    BY <1>2 DEF File, record, claim, watch
  <1>3. ASSUME NEW s \in Sub, WriteArmed(s) PROVE AwaitsACreation'
    BY <1>3 DEF WriteArmed, sec, watch
  <1>4. ASSUME NEW s \in Sub, ResolveCik(s) PROVE AwaitsACreation'
    BY <1>4 DEF ResolveCik, FetchFault, WatchArmFails, sec, watch
  <1>5. ASSUME NEW s \in Sub, ClaimWatch(s) PROVE AwaitsACreation'
    BY <1>5, NextWatchIsUnused DEF ClaimWatch, Await, sec, record, Create
  <1>6. ASSUME NEW s \in Sub, Claimed(s) PROVE AwaitsACreation'
    <2>1. CASE live = waitsFor[s]
      BY <1>6, <2>1, ClaimedInserts
    <2>2. CASE live # waitsFor[s]
      BY <1>6, <2>2 DEF Claimed, Insert, sec, record
    <2> QED
      BY <2>1, <2>2
  <1>7. ASSUME NEW s \in Sub, ClaimRejected(s) PROVE AwaitsACreation'
    BY <1>7 DEF ClaimRejected, WatchArmFails, sec, watch
  <1>8. ASSUME NEW s \in Sub, WatchExpires(s) PROVE AwaitsACreation'
    BY <1>8 DEF WatchExpires, sec, claim, watch
  <1>9. ASSUME NEW s \in Sub, Settle(s) PROVE AwaitsACreation'
    BY <1>9 DEF Settle, TearDown, sec, claim
  <1>10. ASSUME NEW w \in Watch, CreateWatch(w) PROVE AwaitsACreation'
    BY <1>10 DEF CreateWatch, sec, record, claim
  <1>11. ASSUME NEW w \in Watch, CreateFails(w) PROVE AwaitsACreation'
    BY <1>11 DEF CreateFails, FetchFault, sec, record, claim
  <1>12. ASSUME NEW p \in Poll, PollFetches(p) PROVE AwaitsACreation'
    BY <1>12 DEF PollFetches, sec, record, claim, watch
  <1>13. ASSUME NEW p \in Poll, PollHandles(p) PROVE AwaitsACreation'
    BY <1>13 DEF PollHandles, sec, record, claim
  <1>14. ASSUME NEW p \in Poll, PollFails(p) PROVE AwaitsACreation'
    BY <1>14 DEF PollFails, FetchFault, sec, record, claim, watch
  <1>15. ASSUME NEW o \in offers, DeliverFiling(o) PROVE AwaitsACreation'
    BY <1>15 DEF DeliverFiling, FetchFault, sec, claim, watch
  <1>16. CASE UNCHANGED watcherVars
    BY <1>16 DEF watcherVars, sec, record, claim, watch
  <1> QED
    BY <1>1, <1>2, <1>3, <1>4, <1>5, <1>6, <1>7, <1>8, <1>9, <1>10, <1>11, <1>12, <1>13, <1>14,
       <1>15, <1>16
    DEF WatcherNext, ArmSteps

(* A poll is of a watch. *)
LEMMA PollsStep ==
  ASSUME EdgarWatcherAssumption, WatcherInv, [WatcherNext]_watcherVars
  PROVE  PollsAWatch'
  <1> USE DEF WatcherInv, EdgarWatcherAssumption, Watch, WatcherTypeOK, PollsAWatch, NoPoll
  <1>1. CASE Advance
    BY <1>1 DEF Advance, record, claim, watch
  <1>2. ASSUME NEW f \in Filing, File(f) PROVE PollsAWatch'
    BY <1>2 DEF File, record, claim, watch
  <1>3. ASSUME NEW s \in Sub, WriteArmed(s) PROVE PollsAWatch'
    BY <1>3 DEF WriteArmed, sec, watch
  <1>4. ASSUME NEW s \in Sub, ResolveCik(s) PROVE PollsAWatch'
    BY <1>4 DEF ResolveCik, FetchFault, WatchArmFails, sec, watch
  <1>5. ASSUME NEW s \in Sub, ClaimWatch(s) PROVE PollsAWatch'
    BY <1>5, NextWatchIsUnused DEF ClaimWatch, Await, sec, record, Create
  <1>6. ASSUME NEW s \in Sub, Claimed(s) PROVE PollsAWatch'
    BY <1>6 DEF Claimed, Insert, sec, record
  <1>7. ASSUME NEW s \in Sub, ClaimRejected(s) PROVE PollsAWatch'
    BY <1>7 DEF ClaimRejected, WatchArmFails, sec, watch
  <1>8. ASSUME NEW s \in Sub, WatchExpires(s) PROVE PollsAWatch'
    BY <1>8 DEF WatchExpires, sec, claim, watch
  <1>9. ASSUME NEW s \in Sub, Settle(s) PROVE PollsAWatch'
    BY <1>9 DEF Settle, TearDown, sec, claim
  <1>10. ASSUME NEW w \in Watch, CreateWatch(w) PROVE PollsAWatch'
    BY <1>10 DEF CreateWatch, sec, record, claim
  <1>11. ASSUME NEW w \in Watch, CreateFails(w) PROVE PollsAWatch'
    BY <1>11 DEF CreateFails, FetchFault, sec, record, claim
  <1>12. ASSUME NEW p \in Poll, PollFetches(p) PROVE PollsAWatch'
    <2>1. PICK w \in ticking : poll' = [poll EXCEPT ![p] = [watch |-> w, filings |-> Filed]]
      BY <1>12 DEF PollFetches
    <2>2. w # 0
      BY <2>1
    <2> QED
      BY <2>1, <2>2
  <1>13. ASSUME NEW p \in Poll, PollHandles(p) PROVE PollsAWatch'
    BY <1>13 DEF PollHandles, sec, record, claim
  <1>14. ASSUME NEW p \in Poll, PollFails(p) PROVE PollsAWatch'
    BY <1>14 DEF PollFails, FetchFault, sec, record, claim, watch
  <1>15. ASSUME NEW o \in offers, DeliverFiling(o) PROVE PollsAWatch'
    BY <1>15 DEF DeliverFiling, FetchFault, sec, claim, watch
  <1>16. CASE UNCHANGED watcherVars
    BY <1>16 DEF watcherVars, sec, record, claim, watch
  <1> QED
    BY <1>1, <1>2, <1>3, <1>4, <1>5, <1>6, <1>7, <1>8, <1>9, <1>10, <1>11, <1>12, <1>13, <1>14,
       <1>15, <1>16
    DEF WatcherNext, ArmSteps

(* A cached watch has a subscription or will be claimed. *)
LEMMA WantedStep ==
  ASSUME EdgarWatcherAssumption, WatcherInv, [WatcherNext]_watcherVars
  PROVE  SomebodyWantsIt'
  <1> USE DEF WatcherInv, EdgarWatcherAssumption, Watch, WatcherTypeOK, PromiseOfTheLive,
    CachedPromiseIsGood, SomebodyWantsIt, AwaitsACreation
  <1>1. CASE Advance
    BY <1>1 DEF Advance, record, claim, watch
  <1>2. ASSUME NEW f \in Filing, File(f) PROVE SomebodyWantsIt'
    BY <1>2 DEF File, record, claim, watch
  <1>3. ASSUME NEW s \in Sub, WriteArmed(s) PROVE SomebodyWantsIt'
    BY <1>3 DEF WriteArmed, sec, watch
  <1>4. ASSUME NEW s \in Sub, ResolveCik(s) PROVE SomebodyWantsIt'
    BY <1>4 DEF ResolveCik, FetchFault, WatchArmFails, sec, watch
  <1>5. ASSUME NEW s \in Sub, ClaimWatch(s) PROVE SomebodyWantsIt'
    BY <1>5, NextWatchIsUnused DEF ClaimWatch, Await, sec, record, Create
  <1>6. ASSUME NEW s \in Sub, Claimed(s) PROVE SomebodyWantsIt'
    <2>1. CASE live = waitsFor[s]
      <3>1. live \in Watch /\ live' = live /\ s \in members'[live]
        BY <1>6, <2>1, ClaimedInserts
      <3> QED
        BY <3>1
    <2>2. CASE live # waitsFor[s]
      BY <1>6, <2>2 DEF Claimed, Insert, sec, record
    <2> QED
      BY <2>1, <2>2
  <1>7. ASSUME NEW s \in Sub, ClaimRejected(s) PROVE SomebodyWantsIt'
    BY <1>7 DEF ClaimRejected, WatchArmFails, sec, watch
  <1>8. ASSUME NEW s \in Sub, WatchExpires(s) PROVE SomebodyWantsIt'
    BY <1>8 DEF WatchExpires, sec, claim, watch
  <1>9. ASSUME NEW s \in Sub, Settle(s) PROVE SomebodyWantsIt'
    BY <1>9 DEF Settle, TearDown, sec, claim
  <1>10. ASSUME NEW w \in Watch, CreateWatch(w) PROVE SomebodyWantsIt'
    BY <1>10 DEF CreateWatch, sec, record, claim
  <1>11. ASSUME NEW w \in Watch, CreateFails(w) PROVE SomebodyWantsIt'
    BY <1>11 DEF CreateFails, FetchFault, sec, record, claim
  <1>12. ASSUME NEW p \in Poll, PollFetches(p) PROVE SomebodyWantsIt'
    BY <1>12 DEF PollFetches, sec, record, claim, watch
  <1>13. ASSUME NEW p \in Poll, PollHandles(p) PROVE SomebodyWantsIt'
    BY <1>13 DEF PollHandles, sec, record, claim
  <1>14. ASSUME NEW p \in Poll, PollFails(p) PROVE SomebodyWantsIt'
    BY <1>14 DEF PollFails, FetchFault, sec, record, claim, watch
  <1>15. ASSUME NEW o \in offers, DeliverFiling(o) PROVE SomebodyWantsIt'
    BY <1>15 DEF DeliverFiling, FetchFault, sec, claim, watch
  <1>16. CASE UNCHANGED watcherVars
    BY <1>16 DEF watcherVars, sec, record, claim, watch
  <1> QED
    BY <1>1, <1>2, <1>3, <1>4, <1>5, <1>6, <1>7, <1>8, <1>9, <1>10, <1>11, <1>12, <1>13, <1>14,
       <1>15, <1>16
    DEF WatcherNext, ArmSteps

(* The watcher begins in the invariant and every step keeps it. *)
LEMMA WatcherStart ==
  ASSUME EdgarWatcherAssumption, WatcherInit
  PROVE  WatcherInv
  <1>1. TimesOK /\ PlacesOK /\ SetsOK
    BY DEF EdgarWatcherAssumption, WatcherInit, TimesOK, PlacesOK, SetsOK, Watch, Never, NoPoll
  <1>2. CreatedInOrder
    <2>1. 1 \in 1..MaxWatch + 1 /\ \A w \in Watch : creation[w] = "none" /\ 1 <= w
      BY DEF EdgarWatcherAssumption, WatcherInit, Watch
    <2> QED
      BY <2>1 DEF CreatedInOrder
  <1> QED
    BY <1>1, <1>2, WatcherTypeParts
    DEF WatcherInit, WatcherInv, OnePollLoop, CachedPromiseIsGood, ClaimedIsOnIt, PromiseOfTheLive,
      AwaitsACreation, SomebodyWantsIt, PollsAWatch, NoPoll

(* Every step of the EDGAR watcher keeps its invariant. *)
LEMMA WatcherStep ==
  ASSUME EdgarWatcherAssumption, WatcherInv, [WatcherNext]_watcherVars
  PROVE  WatcherInv'
  <1>1. TimesOK' /\ PlacesOK' /\ SetsOK'
    BY TimesStep, PlacesStep, SetsStep
  <1>2. WatcherTypeOK'
    BY <1>1 DEF WatcherTypeOK, TimesOK, PlacesOK, SetsOK
  <1> QED
    BY <1>2, OneLoopStep, ClaimedStep, CreatedStep, AwaitsStep, PollsStep, WantedStep
    DEF WatcherInv

(* A watch goes with its last subscription. *)
LEMMA ClaimsAreLive ==
  ASSUME WatcherInv
  PROVE  ClaimIsLive
  <1>1. live # 0 => watchCreation # 0
    BY DEF WatcherInv, PromiseOfTheLive
  <1>2. (\A s \in Sub : arm[s] # "await") /\ live # 0 => members[live] # {}
    BY <1>1 DEF WatcherInv, SomebodyWantsIt
  <1> QED
    BY <1>2 DEF ClaimIsLive, WatcherInv

-----------------------------------------------------------------------------
(* The price stream *)

(* The types, in four groups: the subscriptions ... *)
RecordsOK ==
  /\ priceSub \in [PriceSubs -> [status : {"new", "armed", "delivering", "ended", "failed"},
                                 armedAt : 0..MaxTrades, trade : 0..MaxTrades]]
  /\ watched \subseteq PriceSubs /\ priceTask \in [PriceSubs -> {"idle", "auth", "seed"}]

(* ... the connection ... *)
StreamOK ==
  /\ stockStream \in {"none", "connecting", "authenticated", "down", "rejected"}
  /\ priceDrops \in 0..MaxPriceDrops

(* ... the trades ... *)
TradesOK ==
  /\ market \in Seq(Price) /\ Latest \in 1..MaxTrades /\ priceWire \in Seq(1..Latest)

(* ... and the prices that are known. *)
PricesOK ==
  /\ previous \in [PriceSubs -> 0..Latest] /\ since \in [PriceSubs -> 0..Latest]
  /\ priceAnswer \in [PriceSubs -> 0..Latest]

(* Together they are the type of the price stream. *)
LEMMA PriceTypeParts ==
  PriceTypeOK <=>
    /\ RecordsOK /\ StreamOK /\ TradesOK /\ PricesOK
    /\ feed \in {"iex", "test"} /\ circumstances \subseteq Circumstances /\ subscribed \in BOOLEAN
  BY DEF PriceTypeOK, RecordsOK, StreamOK, TradesOK, PricesOK

(* The trades that were shown and those on the wire are all there are. *)
LEMMA ShownIsANumber ==
  ASSUME AlpacaPriceStreamAssumption, PriceTypeOK, WireIsTail
  PROVE  /\ Latest \in Nat /\ Len(priceWire) \in Nat /\ Shown \in Nat
         /\ Shown # 0 /\ Shown <= Latest /\ Latest <= MaxTrades
         /\ Latest = Shown + Len(priceWire)
         /\ Len(priceWire) = 0 <=> priceWire = <<>>
  BY DEF AlpacaPriceStreamAssumption, PriceTypeOK, WireIsTail, Shown, Latest

(* A trade goes to the end of the wire, or nobody will be shown it. *)
LEMMA TradeGrows ==
  ASSUME AlpacaPriceStreamAssumption, PriceTypeOK, WireIsTail, NEW p \in Price, TradeHappens(p)
  PROVE  /\ Latest' = Latest + 1 /\ market' \in Seq(Price)
         /\ \A i \in 1..Latest : market'[i] = market[i]
         /\ Shown' \in Nat /\ Shown <= Shown'
         /\ stockStream = "authenticated" /\ subscribed => Shown' = Shown
         /\ priceWire' \in Seq(1..Latest') /\ WireIsTail'
  <1>1. /\ Latest' = Latest + 1 /\ market' \in Seq(Price)
        /\ \A i \in 1..Latest : market'[i] = market[i]
    BY DEF TradeHappens, PriceTypeOK, Latest
  <1>2. Latest \in Nat /\ priceWire \in Seq(1..Latest)
    BY DEF PriceTypeOK, Latest
  <1>3. CASE stockStream = "authenticated" /\ subscribed
    <2>1. priceWire' = Append(priceWire, Latest + 1)
      BY <1>3 DEF TradeHappens
    <2>2. priceWire \in Seq(1..Latest + 1)
      BY <1>2
    <2>3. /\ priceWire' \in Seq(1..Latest') /\ Len(priceWire') = Len(priceWire) + 1
          /\ \A i \in 1..Len(priceWire) : priceWire'[i] = priceWire[i]
          /\ priceWire'[Len(priceWire) + 1] = Latest + 1
      BY <1>1, <1>2, <2>1, <2>2
    <2>0. PICK n \in Nat, m \in Nat : n = Len(priceWire) /\ m = Latest
      BY ShownIsANumber
    <2>4. Shown' = m - n /\ Shown = m - n /\ Shown \in Nat
      BY <1>1, <2>0, <2>3, ShownIsANumber DEF Shown
    <2>5. \A i \in 1..Len(priceWire') : priceWire'[i] = Shown' + i
      <3>1. \A i \in 1..n : priceWire[i] = m - n + i
        BY <2>0, <2>4 DEF WireIsTail
      <3>2. \A i \in 1..n + 1 : priceWire'[i] = m - n + i
        BY <2>0, <2>3, <3>1
      <3> QED
        BY <2>0, <2>3, <2>4, <3>2
    <2>6. UNCHANGED <<stockStream, subscribed>>
      BY DEF TradeHappens
    <2> QED
      BY <1>1, <1>3, <2>3, <2>4, <2>5, <2>6, ShownIsANumber DEF WireIsTail
  <1>4. CASE ~ (stockStream = "authenticated" /\ subscribed)
    <2>1. priceWire = <<>> /\ priceWire' = <<>>
      BY <1>4 DEF TradeHappens, WireIsTail
    <2> QED
      BY <1>1, <1>2, <1>4, <2>1 DEF WireIsTail, Shown
  <1> QED
    BY <1>3, <1>4

(* The handler takes the trade after those that were shown. *)
LEMMA HandlerTakes ==
  ASSUME AlpacaPriceStreamAssumption, PriceTypeOK, WireIsTail, handleTrade
  PROVE  /\ Head(priceWire) = Shown + 1 /\ Shown' = Shown + 1 /\ Shown' <= Latest
         /\ Latest' = Latest /\ priceWire' \in Seq(1..Latest) /\ WireIsTail'
  <1>1. Latest' = Latest /\ UNCHANGED <<stockStream, subscribed>>
    BY DEF handleTrade, Latest
  <1>2. /\ priceWire \in Seq(1..Latest) /\ priceWire # <<>> /\ priceWire' = Tail(priceWire)
    BY DEF handleTrade, PriceTypeOK
  <1>3. /\ Len(priceWire) \in Nat /\ Len(priceWire) >= 1 /\ priceWire' \in Seq(1..Latest)
        /\ Len(priceWire') = Len(priceWire) - 1 /\ Head(priceWire) = priceWire[1]
        /\ \A i \in 1..Len(priceWire') : priceWire'[i] = priceWire[i + 1]
    BY <1>2
  <1>4. Shown \in Nat /\ Latest = Shown + Len(priceWire) /\ Latest \in Nat
    BY ShownIsANumber
  <1>5. Shown' = Shown + 1
    BY <1>1, <1>3, <1>4 DEF Shown
  <1>6. \A i \in 1..Len(priceWire') : priceWire'[i] = Shown' + i
    BY <1>3, <1>4, <1>5 DEF WireIsTail
  <1>7. stockStream' = "authenticated" /\ subscribed'
    BY <1>1, <1>2 DEF WireIsTail
  <1>8. Head(priceWire) = Shown + 1
    BY <1>3 DEF WireIsTail
  <1> QED
    BY <1>1, <1>3, <1>4, <1>5, <1>6, <1>7, <1>8 DEF WireIsTail

(* With the last watch the symbol goes, and what is on the wire with it. *)
LEMMA DisarmEffect ==
  ASSUME AlpacaPriceStreamAssumption, PriceTypeOK, WireIsTail, NEW gone,
         disarmPriceCross(gone), UNCHANGED <<market, stockStream>>
  PROVE  /\ watched' = watched \ gone /\ Latest' = Latest
         /\ \/ UNCHANGED <<subscribed, priceWire>> /\ Shown' = Shown
               /\ (gone \cap watched = {} \/ watched' # {})
            \/ subscribed' = FALSE /\ priceWire' = <<>> /\ watched' = {}
         /\ priceWire' \in Seq(1..Latest) /\ WireIsTail' /\ Shown <= Shown' /\ Shown' \in Nat
  <1>1. watched' = watched \ gone /\ Latest' = Latest
    BY DEF disarmPriceCross, Latest
  <1>2. CASE gone \cap watched = {} \/ watched \ gone # {}
    <2>1. UNCHANGED <<subscribed, priceWire>>
      BY <1>2 DEF disarmPriceCross, StillWatched
    <2> QED
      BY <1>1, <1>2, <2>1, ShownIsANumber DEF WireIsTail, Shown, PriceTypeOK
  <1>3. CASE ~ (gone \cap watched = {} \/ watched \ gone # {})
    <2>1. subscribed' = FALSE /\ priceWire' = <<>>
      BY <1>3 DEF disarmPriceCross, StillWatched
    <2>2. Shown' = Latest /\ WireIsTail'
      BY <1>1, <2>1, ShownIsANumber DEF WireIsTail, Shown
    <2> QED
      BY <1>1, <1>3, <2>1, <2>2, ShownIsANumber
  <1> QED
    BY <1>2, <1>3

(* A subscription that a step leaves alone. *)
Same(s) ==
  /\ priceSub'[s] = priceSub[s] /\ previous'[s] = previous[s] /\ since'[s] = since[s]
  /\ priceTask'[s] = priceTask[s] /\ priceAnswer'[s] = priceAnswer[s]
  /\ s \in watched' <=> s \in watched

(* What an arm does to its subscription, up to its first await ... *)
LEMMA ArmEffect ==
  ASSUME PriceTypeOK, NEW q \in PriceSubs, ArmPrice(q)
  PROVE  /\ priceSub'[q].status = "armed" /\ priceSub'[q].armedAt = Shown
         /\ priceSub'[q].trade = priceSub[q].trade
         /\ UNCHANGED <<previous, since, priceAnswer>> /\ q \in watched'
         /\ stockStream = "authenticated" => priceTask'[q] = Subscribing /\ subscribed'
         /\ stockStream # "authenticated" => priceTask'[q] = "auth" /\ subscribed' = subscribed
         /\ \A s \in PriceSubs \ {q} : Same(s)
  <1>1. /\ DOMAIN priceSub = PriceSubs /\ DOMAIN priceTask = PriceSubs
        /\ DOMAIN priceSub[q] = {"status", "armedAt", "trade"}
    BY DEF PriceTypeOK
  <1>2. priceSub' = [priceSub EXCEPT ![q].status = "armed", ![q].armedAt = Shown]
    BY DEF ArmPrice, Shown
  <1>3. /\ priceSub'[q].status = "armed" /\ priceSub'[q].armedAt = Shown
         /\ priceSub'[q].trade = priceSub[q].trade
    BY <1>1, <1>2
  <1>4. \A s \in PriceSubs \ {q} : priceSub'[s] = priceSub[s]
    BY <1>1, <1>2
  <1>5. /\ priceTask'[q] = IF stockStream = "authenticated" THEN Subscribing ELSE "auth"
        /\ \A s \in PriceSubs \ {q} : priceTask'[s] = priceTask[s]
    BY <1>1 DEF ArmPrice
  <1> QED
    BY <1>3, <1>4, <1>5 DEF ArmPrice, Same, PriceTypeOK

(* ... the end of a delivery or an expiry ... *)
LEMMA EndEffect ==
  ASSUME PriceTypeOK, NEW q \in PriceSubs, PriceDelivered(q) \/ PriceExpires(q)
  PROVE  /\ priceSub'[q].status = "ended" /\ priceSub'[q].armedAt = priceSub[q].armedAt
         /\ priceSub'[q].trade = priceSub[q].trade
         /\ UNCHANGED <<previous, since, priceTask, priceAnswer>>
         /\ watched' = watched \ {q} /\ priceSub[q].status # "new"
         /\ \A s \in PriceSubs \ {q} : Same(s)
  <1>1. /\ DOMAIN priceSub = PriceSubs /\ DOMAIN priceSub[q] = {"status", "armedAt", "trade"}
    BY DEF PriceTypeOK
  <1>2. priceSub' = [priceSub EXCEPT ![q].status = "ended"]
    BY DEF PriceDelivered, PriceExpires
  <1>3. /\ priceSub'[q].status = "ended" /\ priceSub'[q].armedAt = priceSub[q].armedAt
        /\ priceSub'[q].trade = priceSub[q].trade
        /\ \A s \in PriceSubs \ {q} : priceSub'[s] = priceSub[s]
    BY <1>1, <1>2
  <1>4. watched' = watched \ {q}
    BY DEF PriceDelivered, PriceExpires, disarmPriceCross
  <1> QED
    BY <1>3, <1>4 DEF PriceDelivered, PriceExpires, Same, PriceTypeOK

(* ... an arm that fails ... *)
LEMMA FailEffect ==
  ASSUME PriceTypeOK, NEW q \in PriceSubs, PriceArmFails(q)
  PROVE  /\ priceSub'[q].status = Failure(priceSub[q].status)
         /\ priceSub'[q].armedAt = priceSub[q].armedAt /\ priceSub'[q].trade = priceSub[q].trade
         /\ UNCHANGED <<previous, since>> /\ watched' = watched \ {q}
         /\ priceTask'[q] = "idle" /\ priceAnswer'[q] = 0 /\ priceTask[q] \in {"auth", "seed"}
         /\ \A s \in PriceSubs \ {q} : Same(s)
  <1>1. /\ DOMAIN priceSub = PriceSubs /\ DOMAIN priceSub[q] = {"status", "armedAt", "trade"}
        /\ DOMAIN priceTask = PriceSubs /\ DOMAIN priceAnswer = PriceSubs
    BY DEF PriceTypeOK
  <1>2. priceSub' = [priceSub EXCEPT ![q].status = Failure(priceSub[q].status)]
    BY DEF PriceArmFails
  <1>3. /\ priceSub'[q].status = Failure(priceSub[q].status)
        /\ priceSub'[q].armedAt = priceSub[q].armedAt /\ priceSub'[q].trade = priceSub[q].trade
        /\ \A s \in PriceSubs \ {q} : priceSub'[s] = priceSub[s]
    BY <1>1, <1>2
  <1>4. watched' = watched \ {q}
    BY DEF PriceArmFails, disarmPriceCross
  <1>5. /\ priceTask'[q] = "idle" /\ priceAnswer'[q] = 0
        /\ \A s \in PriceSubs \ {q} : /\ priceTask'[s] = priceTask[s]
                                      /\ priceAnswer'[s] = priceAnswer[s]
    BY <1>1 DEF PriceArmFails
  <1> QED
    BY <1>3, <1>4, <1>5 DEF PriceArmFails, Same

(* ... a seed ... *)
LEMMA SeedEffect ==
  ASSUME PriceTypeOK, NEW q \in PriceSubs, SeedArrives(q)
  PROVE  /\ priceTask[q] = "seed" /\ priceAnswer[q] # 0 /\ priceSub'[q] = priceSub[q]
         /\ previous'[q] = priceAnswer[q] /\ since'[q] = FirstSeed(q, priceAnswer[q])
         /\ priceTask'[q] = "idle" /\ priceAnswer'[q] = 0 /\ UNCHANGED <<watched, subscribed>>
         /\ \A s \in PriceSubs \ {q} : Same(s)
  BY DEF PriceTypeOK, SeedArrives, SeedValue, Same, priceConnection

(* ... an answer of the API ... *)
LEMMA AnswerEffect ==
  ASSUME PriceTypeOK, NEW q \in PriceSubs, PriceAnswered(q)
  PROVE  /\ priceTask[q] = "seed" /\ priceAnswer[q] = 0
         /\ priceAnswer'[q] \in 1..Latest
         /\ "ahead" \in circumstances \/ priceAnswer'[q] <= Shown
         /\ "behind" \in circumstances \/ Shown <= priceAnswer'[q]
         /\ priceSub'[q] = priceSub[q] /\ previous'[q] = previous[q]
         /\ UNCHANGED <<since, priceTask, watched, market, priceWire, circumstances>>
         /\ \A s \in PriceSubs \ {q} : Same(s)
  BY DEF PriceTypeOK, PriceAnswered, Same, priceConnection, setting

(* ... and a trade. *)
LEMMA HandlerEffect ==
  ASSUME PriceTypeOK, handleTrade, NEW s \in PriceSubs
  PROVE  LET t == Head(priceWire)
         IN /\ priceSub'[s].armedAt = priceSub[s].armedAt
            /\ \/ priceSub'[s] = priceSub[s]
               \/ /\ s \in Woken(t)
                  /\ priceSub'[s].status = "delivering" /\ priceSub'[s].trade = t
            /\ s \in Woken(t) => priceSub'[s].status = "delivering" /\ priceSub'[s].trade = t
            /\ s \notin Woken(t) => priceSub'[s] = priceSub[s]
            /\ previous'[s] = IF s \in watched THEN t ELSE previous[s]
            /\ since'[s] = IF s \in watched THEN FirstSeed(s, t) ELSE since[s]
            /\ UNCHANGED <<priceTask, priceAnswer, watched>>
  <1>1. /\ DOMAIN priceSub = PriceSubs /\ DOMAIN priceSub[s] = {"status", "armedAt", "trade"}
    BY DEF PriceTypeOK
  <1> DEFINE t == Head(priceWire)
  <1>2. priceSub'[s] = IF s \in Woken(t)
                         THEN [priceSub[s] EXCEPT !.status = "delivering", !.trade = t]
                               ELSE priceSub[s]
    BY DEF handleTrade
  <1>3. CASE s \in Woken(t)
    <2>1. priceSub'[s] = [priceSub[s] EXCEPT !.status = "delivering", !.trade = t]
      BY <1>2, <1>3
    <2>2. /\ priceSub'[s].status = "delivering" /\ priceSub'[s].trade = t
          /\ priceSub'[s].armedAt = priceSub[s].armedAt
      BY <1>1, <2>1
    <2> QED
      BY <1>3, <2>2 DEF handleTrade
  <1>4. CASE s \notin Woken(t)
    BY <1>2, <1>4 DEF handleTrade
  <1> QED
    BY <1>3, <1>4

(* An arm waits for the authentication or leaves the symbol subscribed. *)
LEMMA ArmWaits ==
  ASSUME AlpacaPriceStreamAssumption, PriceInv, NEW s \in PriceSubs, ArmPrice(s)
  PROVE SubscribedWhileWatched' /\ WaitsForAuth'
  <1>0. PriceTypeOK /\ WaitsForAuth /\ SubscribedWhileWatched /\ IsCurrent(s)
    BY DEF PriceInv, PricesAreCurrent
  <1>1. priceSub[s].status = "new" /\ since[s] = 0
    BY <1>0 DEF ArmPrice, IsCurrent
  <1>2. /\ stockStream' = "authenticated" <=> stockStream = "authenticated"
        /\ watched' = watched \cup {s}
        /\ subscribed' = (subscribed \/ stockStream = "authenticated")
    BY <1>0 DEF ArmPrice
  <1>3. Subscribing # "auth"
    BY DEF Subscribing
  <1>4. ASSUME NEW q \in PriceSubs, priceTask'[q] = "auth"
        PROVE /\ stockStream' # "authenticated" /\ q \in watched' /\ since'[q] = 0
              /\ priceSub'[q].status = "armed"
    <2>1. CASE q = s
      BY <1>0, <1>1, <1>2, <1>3, <1>4, <2>1, ArmEffect
    <2>2. CASE q # s
      BY <1>0, <1>2, <1>4, <2>2, ArmEffect DEF Same, WaitsForAuth
    <2> QED
      BY <2>1, <2>2
  <1>5. ASSUME NEW q \in PriceSubs, q \in watched', priceTask'[q] # "auth" PROVE subscribed'
    <2>1. CASE q = s
      BY <1>0, <1>2, <1>3, <1>5, <2>1, ArmEffect
    <2>2. CASE q # s
      BY <1>0, <1>2, <1>5, <2>2, ArmEffect DEF Same, SubscribedWhileWatched
    <2> QED
      BY <2>1, <2>2
  <1>6. watched' \subseteq PriceSubs /\ watched' # {}
    BY <1>0, <1>2 DEF PriceTypeOK
  <1> QED
    BY <1>4, <1>5, <1>6 DEF SubscribedWhileWatched, WaitsForAuth

(* Only a seed of the feed iex has an answer. *)
AnswersToSeeds ==
  /\ feed = "test" => circumstances = {}
  /\ \A s \in PriceSubs : priceTask[s] # "seed" => priceAnswer[s] = 0
  /\ feed = "test" => \A s \in PriceSubs : priceTask[s] # "seed"

(* An arm begins without an answer. *)
LEMMA ArmKeepsAnswers ==
  ASSUME AlpacaPriceStreamAssumption, PriceInv, NEW s \in PriceSubs, ArmPrice(s)
  PROVE AnswersToSeeds'
  <1>0. PriceTypeOK /\ AnswersToSeeds /\ IsCurrent(s)
    BY DEF PriceInv, PricesAreCurrent, AnswerIsLatest, AnswersToSeeds
  <1>1. priceTask[s] = "idle" /\ priceAnswer[s] = 0
    BY <1>0 DEF ArmPrice, IsCurrent
  <1>2. UNCHANGED <<circumstances, feed, priceAnswer>>
    BY DEF ArmPrice, setting
  <1>3. feed = "test" => Subscribing = "idle"
    BY DEF Subscribing
  <1>4. ASSUME NEW q \in PriceSubs
        PROVE  /\ priceTask'[q] # "seed" => priceAnswer'[q] = 0
               /\ feed = "test" => priceTask'[q] # "seed"
               /\ q # s => priceTask'[q] = priceTask[q]
    <2>1. CASE q = s
      BY <1>0, <1>1, <1>2, <1>3, <2>1, ArmEffect
    <2>2. CASE q # s
      BY <1>0, <2>2, ArmEffect DEF Same, AnswersToSeeds
    <2> QED
      BY <2>1, <2>2
  <1> QED
    BY <1>0, <1>1, <1>2, <1>4 DEF AnswersToSeeds

(* Every step keeps the wire without a gap. *)
LEMMA WireStep ==
  ASSUME AlpacaPriceStreamAssumption, PriceInv, [PriceNext]_priceVars
  PROVE  WireIsTail'
  <1> USE DEF PriceInv, AlpacaPriceStreamAssumption, WireIsTail, PriceTypeOK, Shown, Latest
  <1>1. ASSUME NEW p \in Price, TradeHappens(p) PROVE WireIsTail'
    BY <1>1, TradeGrows DEF TradeHappens, setting
  <1>2. CASE StockDrops
    BY <1>2 DEF StockDrops, setting
  <1>3. CASE StockAuthenticated
    BY <1>3 DEF StockAuthenticated, setting
  <1>4. CASE StockRejected
    BY <1>4 DEF StockRejected, setting
  <1>5. CASE handleTrade
    BY <1>5, HandlerTakes DEF handleTrade, setting
  <1>6. ASSUME NEW s \in PriceSubs, ArmPrice(s) PROVE WireIsTail'
    BY <1>6 DEF ArmPrice, setting
  <1>7. ASSUME NEW s \in PriceSubs, PriceArmFails(s) PROVE WireIsTail'
    BY <1>7, DisarmEffect DEF PriceArmFails, setting
  <1>8. ASSUME NEW s \in PriceSubs, PriceAnswered(s) PROVE WireIsTail'
    BY <1>8 DEF PriceAnswered, priceConnection, setting
  <1>9. ASSUME NEW s \in PriceSubs, SeedArrives(s) PROVE WireIsTail'
    BY <1>9 DEF SeedArrives, priceConnection, setting
  <1>10. ASSUME NEW s \in PriceSubs, PriceDelivered(s) PROVE WireIsTail'
    BY <1>10, DisarmEffect DEF PriceDelivered, setting
  <1>11. ASSUME NEW s \in PriceSubs, PriceExpires(s) PROVE WireIsTail'
    BY <1>11, DisarmEffect DEF PriceExpires, setting
  <1>12. CASE UNCHANGED priceVars
    BY <1>12 DEF priceVars, priceConnection, setting
  <1> QED
    BY <1>1, <1>2, <1>3, <1>4, <1>5, <1>6, <1>7, <1>8, <1>9, <1>10, <1>11, <1>12
    DEF PriceNext

(* The symbol stays subscribed while it is watched. *)
LEMMA SubscribedStep ==
  ASSUME AlpacaPriceStreamAssumption, PriceInv, [PriceNext]_priceVars
  PROVE  SubscribedWhileWatched' /\ WaitsForAuth'
  <1> USE DEF PriceInv, AlpacaPriceStreamAssumption, SubscribedWhileWatched, WaitsForAuth,
    WireIsTail, PriceTypeOK, Subscribing, PricesAreCurrent, FirstSeed
  <1>1. ASSUME NEW p \in Price, TradeHappens(p) PROVE SubscribedWhileWatched' /\ WaitsForAuth'
    BY <1>1, TradeGrows DEF TradeHappens, setting
  <1>2. CASE StockDrops
    BY <1>2 DEF StockDrops, setting
  <1>3. CASE StockAuthenticated
    BY <1>3 DEF StockAuthenticated, setting
  <1>4. CASE StockRejected
    BY <1>4 DEF StockRejected, setting
  <1>5. CASE handleTrade
    BY <1>5, HandlerTakes DEF handleTrade, setting
  <1>6. ASSUME NEW s \in PriceSubs, ArmPrice(s) PROVE SubscribedWhileWatched' /\ WaitsForAuth'
    BY <1>6, ArmWaits
  <1>7. ASSUME NEW s \in PriceSubs, PriceArmFails(s)
        PROVE  SubscribedWhileWatched' /\ WaitsForAuth'
    <2>1. /\ watched' = watched \ {s}
          /\ \/ UNCHANGED subscribed /\ (watched' = watched \/ watched' # {})
             \/ subscribed' = FALSE /\ watched' = {}
      BY <1>7, DisarmEffect DEF PriceArmFails, setting
    <2> QED
      BY <1>7, <2>1 DEF PriceArmFails, setting
  <1>8. ASSUME NEW s \in PriceSubs, PriceAnswered(s)
        PROVE  SubscribedWhileWatched' /\ WaitsForAuth'
    BY <1>8 DEF PriceAnswered, priceConnection, setting
  <1>9. ASSUME NEW s \in PriceSubs, SeedArrives(s) PROVE SubscribedWhileWatched' /\ WaitsForAuth'
    BY <1>9 DEF SeedArrives, priceConnection, setting
  <1>10. ASSUME NEW s \in PriceSubs, PriceDelivered(s)
         PROVE  SubscribedWhileWatched' /\ WaitsForAuth'
    <2>1. /\ watched' = watched \ {s}
          /\ \/ UNCHANGED subscribed /\ (watched' = watched \/ watched' # {})
             \/ subscribed' = FALSE /\ watched' = {}
      BY <1>10, DisarmEffect DEF PriceDelivered, setting
    <2> QED
      BY <1>10, <2>1 DEF PriceDelivered, setting
  <1>11. ASSUME NEW s \in PriceSubs, PriceExpires(s)
         PROVE  SubscribedWhileWatched' /\ WaitsForAuth'
    <2>1. /\ watched' = watched \ {s}
          /\ \/ UNCHANGED subscribed /\ (watched' = watched \/ watched' # {})
             \/ subscribed' = FALSE /\ watched' = {}
      BY <1>11, DisarmEffect DEF PriceExpires, setting
    <2> QED
      BY <1>11, <2>1 DEF PriceExpires, setting
  <1>12. CASE UNCHANGED priceVars
    BY <1>12 DEF priceVars, priceConnection, setting
  <1> QED
    BY <1>1, <1>2, <1>3, <1>4, <1>5, <1>6, <1>7, <1>8, <1>9, <1>10, <1>11, <1>12
    DEF PriceNext

(* A stream that seeds stays up until it drops. *)
LEMMA SeededStep ==
  ASSUME AlpacaPriceStreamAssumption, PriceInv, [PriceNext]_priceVars
  PROVE  SeededWhileUp'
  <1> USE DEF PriceInv, AlpacaPriceStreamAssumption, SeededWhileUp, WireIsTail, WaitsForAuth,
    PriceTypeOK, Subscribing, FirstSeed
  <1>1. ASSUME NEW p \in Price, TradeHappens(p) PROVE SeededWhileUp'
    BY <1>1, TradeGrows DEF TradeHappens, setting
  <1>2. CASE StockDrops
    BY <1>2 DEF StockDrops, setting
  <1>3. CASE StockAuthenticated
    BY <1>3 DEF StockAuthenticated, setting
  <1>4. CASE StockRejected
    BY <1>4 DEF StockRejected, setting
  <1>5. CASE handleTrade
    BY <1>5, HandlerTakes DEF handleTrade, setting
  <1>6. ASSUME NEW s \in PriceSubs, ArmPrice(s) PROVE SeededWhileUp'
    BY <1>6 DEF ArmPrice, setting
  <1>7. ASSUME NEW s \in PriceSubs, PriceArmFails(s) PROVE SeededWhileUp'
    BY <1>7, DisarmEffect DEF PriceArmFails, setting
  <1>8. ASSUME NEW s \in PriceSubs, PriceAnswered(s) PROVE SeededWhileUp'
    BY <1>8 DEF PriceAnswered, priceConnection, setting
  <1>9. ASSUME NEW s \in PriceSubs, SeedArrives(s) PROVE SeededWhileUp'
    BY <1>9 DEF SeedArrives, priceConnection, setting
  <1>10. ASSUME NEW s \in PriceSubs, PriceDelivered(s) PROVE SeededWhileUp'
    BY <1>10, DisarmEffect DEF PriceDelivered, setting
  <1>11. ASSUME NEW s \in PriceSubs, PriceExpires(s) PROVE SeededWhileUp'
    BY <1>11, DisarmEffect DEF PriceExpires, setting
  <1>12. CASE UNCHANGED priceVars
    BY <1>12 DEF priceVars, priceConnection, setting
  <1> QED
    BY <1>1, <1>2, <1>3, <1>4, <1>5, <1>6, <1>7, <1>8, <1>9, <1>10, <1>11, <1>12
    DEF PriceNext

(* Every step leaves the answers to the seeds. *)
LEMMA SeedsStep ==
  ASSUME AlpacaPriceStreamAssumption, PriceInv, [PriceNext]_priceVars
  PROVE  AnswersToSeeds'
  <1> USE DEF PriceInv, AlpacaPriceStreamAssumption, AnswerIsLatest, AnswersToSeeds,
    WireIsTail, PriceTypeOK, Subscribing, PricesAreCurrent
  <1>1. ASSUME NEW p \in Price, TradeHappens(p) PROVE AnswersToSeeds'
    BY <1>1, TradeGrows DEF TradeHappens, setting
  <1>2. CASE StockDrops
    BY <1>2 DEF StockDrops, setting
  <1>3. CASE StockAuthenticated
    BY <1>3 DEF StockAuthenticated, setting
  <1>4. CASE StockRejected
    BY <1>4 DEF StockRejected, setting
  <1>5. CASE handleTrade
    BY <1>5, HandlerTakes DEF handleTrade, setting
  <1>6. ASSUME NEW s \in PriceSubs, ArmPrice(s) PROVE AnswersToSeeds'
    BY <1>6, ArmKeepsAnswers
  <1>7. ASSUME NEW s \in PriceSubs, PriceArmFails(s) PROVE AnswersToSeeds'
    BY <1>7, DisarmEffect DEF PriceArmFails, setting
  <1>8. ASSUME NEW s \in PriceSubs, PriceAnswered(s) PROVE AnswersToSeeds'
    BY <1>8 DEF PriceAnswered, priceConnection, setting
  <1>9. ASSUME NEW s \in PriceSubs, SeedArrives(s) PROVE AnswersToSeeds'
    BY <1>9 DEF SeedArrives, priceConnection, setting
  <1>10. ASSUME NEW s \in PriceSubs, PriceDelivered(s) PROVE AnswersToSeeds'
    BY <1>10, DisarmEffect DEF PriceDelivered, setting
  <1>11. ASSUME NEW s \in PriceSubs, PriceExpires(s) PROVE AnswersToSeeds'
    BY <1>11, DisarmEffect DEF PriceExpires, setting
  <1>12. CASE UNCHANGED priceVars
    BY <1>12 DEF priceVars, priceConnection, setting
  <1> QED
    BY <1>1, <1>2, <1>3, <1>4, <1>5, <1>6, <1>7, <1>8, <1>9, <1>10, <1>11, <1>12
    DEF PriceNext

(* What is shown stays shown. *)
LEMMA ShownGrows ==
  ASSUME AlpacaPriceStreamAssumption, PriceInv, [PriceNext]_priceVars
  PROVE  Shown \in Nat /\ Shown' \in Nat /\ Shown <= Shown' /\ Shown # 0
  <1>0. AlpacaPriceStreamAssumption /\ PriceTypeOK /\ WireIsTail
    BY DEF PriceInv
  <1>1. Latest \in Nat /\ Len(priceWire) \in Nat /\ Shown \in Nat /\ Shown # 0 /\ Shown <= Latest
    BY <1>0, ShownIsANumber
  <1>2. ASSUME NEW p \in Price, TradeHappens(p) PROVE Shown' \in Nat /\ Shown <= Shown'
    BY <1>0, <1>2, TradeGrows
  <1>3. CASE StockDrops
    <2>1. Len(priceWire') = 0 /\ Latest' = Latest
      BY <1>3 DEF StockDrops, Latest
    <2> QED
      BY <1>1, <2>1 DEF Shown
  <1>4. CASE handleTrade
    BY <1>0, <1>1, <1>4, HandlerTakes
  <1>5. ASSUME NEW s \in PriceSubs, PriceArmFails(s) \/ PriceDelivered(s) \/ PriceExpires(s)
        PROVE  Shown' \in Nat /\ Shown <= Shown'
    <2>1. disarmPriceCross({s}) /\ UNCHANGED <<market, stockStream>>
      BY <1>5 DEF PriceArmFails, PriceDelivered, PriceExpires
    <2> QED
      BY <1>0, <2>1, DisarmEffect
  <1>6. CASE UNCHANGED <<market, priceWire>>
    BY <1>1, <1>6 DEF Shown, Latest
  <1>7. ASSUME NEW s \in PriceSubs, ArmPrice(s) \/ PriceAnswered(s) \/ SeedArrives(s)
        PROVE  UNCHANGED <<market, priceWire>>
    BY <1>7 DEF ArmPrice, PriceAnswered, SeedArrives, priceConnection
  <1>8. StockAuthenticated \/ StockRejected \/ UNCHANGED priceVars =>
          UNCHANGED <<market, priceWire>>
    BY DEF StockAuthenticated, StockRejected, priceVars, priceConnection
  <1> QED
    BY <1>1, <1>2, <1>3, <1>4, <1>5, <1>6, <1>7, <1>8 DEF PriceNext

(* The feed and the circumstances stay, and only a drop is counted as one. *)
LEMMA SettingStays ==
  ASSUME AlpacaPriceStreamAssumption, PriceInv, [PriceNext]_priceVars
  PROVE  /\ UNCHANGED <<feed, circumstances>>
         /\ (StockDrops /\ priceDrops' # 0) \/ UNCHANGED priceDrops
  <1>1. UNCHANGED <<feed, circumstances>> /\ (StockDrops \/ UNCHANGED priceDrops)
    BY DEF PriceNext, priceVars, setting, priceConnection, TradeHappens,
      StockAuthenticated, StockRejected, handleTrade, ArmPrice, PriceArmFails, PriceAnswered,
      SeedArrives, PriceDelivered, PriceExpires, StockDrops
  <1>2. StockDrops => priceDrops' # 0
    BY DEF StockDrops, PriceInv, PriceTypeOK, AlpacaPriceStreamAssumption
  <1> QED
    BY <1>1, <1>2

(* An answer stays the last trade shown while nothing is handled. *)
LEMMA AnswerStep ==
  ASSUME AlpacaPriceStreamAssumption, PriceInv, [PriceNext]_priceVars
  PROVE  AnswerIsLatest'
  <1>1. SUFFICES ASSUME NEW s \in watched', priceDrops' = 0, circumstances' = {},
                        priceAnswer'[s] # 0
                 PROVE  priceAnswer'[s] = Shown'
    BY SeedsStep DEF AnswerIsLatest, AnswersToSeeds
  <1>a. /\ PriceTypeOK /\ WireIsTail /\ SeededWhileUp /\ SubscribedWhileWatched
        /\ PricesAreCurrent /\ Shown \in Nat /\ watched \subseteq PriceSubs
        /\ \A q \in PriceSubs : priceTask[q] # "seed" => priceAnswer[q] = 0
    BY ShownGrows DEF PriceInv, PriceTypeOK, AnswerIsLatest
  <1>b. ~ StockDrops /\ priceDrops = 0 /\ circumstances = {}
    BY <1>1, SettingStays DEF StockDrops, PriceInv, PriceTypeOK, AlpacaPriceStreamAssumption
  <1>c. \A q \in watched : priceAnswer[q] # 0 => priceAnswer[q] = Shown
    BY <1>b DEF PriceInv, AnswerIsLatest
  <1>d. ASSUME s \in watched, priceAnswer'[s] = priceAnswer[s], Shown' = Shown
        PROVE  priceAnswer'[s] = Shown'
    BY <1>1, <1>c, <1>d
  <1>2. ASSUME NEW p \in Price, TradeHappens(p) PROVE priceAnswer'[s] = Shown'
    <2>1. s \in watched /\ priceAnswer'[s] = priceAnswer[s]
      BY <1>2 DEF TradeHappens
    <2>2. priceTask[s] = "seed"
      BY <1>1, <1>a, <2>1
    <2>3. stockStream = "authenticated" /\ subscribed
      BY <1>a, <1>b, <2>1, <2>2 DEF SeededWhileUp, SubscribedWhileWatched
    <2> QED
      BY <1>2, <1>a, <1>d, <2>1, <2>3, TradeGrows
  <1>3. ~ handleTrade
    <2>1. SUFFICES ASSUME handleTrade PROVE FALSE
      OBVIOUS
    <2>2. s \in PriceSubs /\ priceAnswer[s] # 0
      BY <1>1, <1>a, <2>1 DEF handleTrade
    <2> QED
      BY <1>a, <1>b, <2>1, <2>2 DEF handleTrade
  <1>4. ASSUME NEW q \in PriceSubs, ArmPrice(q) PROVE priceAnswer'[s] = Shown'
    <2>1. Shown' = Shown /\ watched' = watched \cup {q} /\ priceAnswer' = priceAnswer
      BY <1>4 DEF ArmPrice, Shown, Latest
    <2>2. priceAnswer[q] = 0
      BY <1>4, <1>a DEF ArmPrice, PricesAreCurrent, IsCurrent
    <2> QED
      BY <1>1, <1>d, <2>1, <2>2
  <1>5. ASSUME NEW q \in PriceSubs, PriceArmFails(q) \/ PriceDelivered(q) \/ PriceExpires(q)
        PROVE  priceAnswer'[s] = Shown'
    <2>1. disarmPriceCross({q}) /\ UNCHANGED <<market, stockStream>>
      BY <1>5 DEF PriceArmFails, PriceDelivered, PriceExpires
    <2>2. watched' = watched \ {q} /\ (Shown' = Shown \/ watched' = {})
      BY <1>a, <2>1, DisarmEffect
    <2>3. s # q /\ s \in watched /\ Shown' = Shown
      BY <2>2
    <2>4. priceAnswer'[s] = priceAnswer[s]
      BY <1>5, <1>a, <2>3, FailEffect, EndEffect DEF Same
    <2> QED
      BY <1>d, <2>3, <2>4
  <1>6. ASSUME NEW q \in PriceSubs, PriceAnswered(q) PROVE priceAnswer'[s] = Shown'
    <2>1. Shown' = Shown /\ s \in watched
      BY <1>6, <1>a, AnswerEffect DEF Shown, Latest
    <2>2. CASE s = q
      <3>1. priceAnswer'[q] \in Nat /\ priceAnswer'[q] <= Shown /\ Shown <= priceAnswer'[q]
        BY <1>6, <1>a, <1>b, AnswerEffect
      <3> QED
        BY <1>a, <2>1, <2>2, <3>1
    <2>3. CASE s # q
      BY <1>6, <1>a, <1>d, <2>1, <2>3, AnswerEffect DEF Same
    <2> QED
      BY <2>2, <2>3
  <1>7. ASSUME NEW q \in PriceSubs, SeedArrives(q) PROVE priceAnswer'[s] = Shown'
    <2>1. Shown' = Shown /\ s \in watched
      BY <1>7 DEF SeedArrives, Shown, Latest, priceConnection
    <2>2. s # q
      BY <1>1, <1>7, <1>a, SeedEffect
    <2> QED
      BY <1>7, <1>a, <1>d, <2>1, <2>2, SeedEffect DEF Same
  <1>8. CASE StockAuthenticated \/ StockRejected \/ UNCHANGED priceVars
    <2>1. Shown' = Shown /\ s \in watched /\ priceAnswer' = priceAnswer
      BY <1>8 DEF StockAuthenticated, StockRejected, priceVars, priceConnection, Shown, Latest
    <2> QED
      BY <1>d, <2>1
  <1> QED
    BY <1>b, <1>2, <1>3, <1>4, <1>5, <1>6, <1>7, <1>8 DEF PriceNext

(* Every price a watch knows was current when it was armed, or later. *)
LEMMA PricesStep ==
  ASSUME AlpacaPriceStreamAssumption, PriceInv, [PriceNext]_priceVars
  PROVE  PricesAreCurrent'
  <1> SUFFICES ASSUME NEW s \in PriceSubs PROVE IsCurrent(s)'
    BY DEF PricesAreCurrent
  <1>a. /\ IsCurrent(s) /\ PriceTypeOK /\ WireIsTail
        /\ Shown \in Nat /\ Shown' \in Nat /\ Shown <= Shown' /\ Shown # 0
        /\ circumstances' = circumstances
    BY ShownGrows, SettingStays DEF PriceInv, PricesAreCurrent
  <1>b. /\ priceSub[s].armedAt \in Nat /\ priceSub[s].trade \in Nat /\ previous[s] \in Nat
        /\ priceAnswer[s] \in Nat /\ since[s] \in Nat
    BY <1>a DEF PriceTypeOK
  <1>c. ASSUME Same(s) PROVE IsCurrent(s)'
    <2>1. /\ priceSub'[s] = priceSub[s] /\ previous'[s] = previous[s] /\ since'[s] = since[s]
          /\ priceTask'[s] = priceTask[s] /\ priceAnswer'[s] = priceAnswer[s]
          /\ s \in watched' <=> s \in watched
      BY <1>c DEF Same
    <2> QED
      BY <1>a, <1>b, <2>1 DEF IsCurrent, Current
  <1>5. CASE handleTrade
    <2>1. Head(priceWire) = Shown + 1 /\ Shown' = Shown + 1
      BY <1>5, <1>a, HandlerTakes
    <2>2. Woken(Shown + 1) \subseteq {q \in watched : priceSub[q].status = "armed"}
      BY DEF Woken
    <2>3. /\ previous'[s] \in {previous[s], Shown + 1} /\ since'[s] \in {since[s], Shown + 1}
          /\ UNCHANGED <<priceTask, priceAnswer, watched>>
          /\ s \notin watched => previous'[s] = previous[s] /\ since'[s] = since[s]
      BY <1>5, <1>a, <2>1, HandlerEffect DEF FirstSeed
    <2>4. /\ priceSub'[s].armedAt = priceSub[s].armedAt
          /\ priceSub'[s].trade \in {priceSub[s].trade, Shown + 1}
          /\ (priceSub'[s].status = "new") <=> (priceSub[s].status = "new")
          /\ priceSub[s].status = "new" => priceSub'[s] = priceSub[s]
      BY <1>5, <1>a, <2>1, <2>2, HandlerEffect
    <2>5. ASSUME priceSub[s].status # "new",
                 NEW t \in {previous'[s], priceAnswer'[s], since'[s]} \ {0}
          PROVE  Current(s, t)'
      <3>1. CASE t = Shown + 1
        BY <1>a, <1>b, <2>1, <2>4, <3>1 DEF IsCurrent, Current
      <3>2. CASE t \in {previous[s], priceAnswer[s], since[s]} \ {0}
        <4>1. Current(s, t) /\ t \in Nat
          BY <1>a, <1>b, <2>5, <3>2 DEF IsCurrent
        <4> QED
          BY <1>a, <2>1, <2>4, <4>1 DEF Current
      <3> QED
        BY <2>3, <2>5, <3>1, <3>2
    <2>6. CASE priceSub[s].status # "new"
      BY <1>a, <1>b, <2>1, <2>4, <2>5, <2>6 DEF IsCurrent
    <2>7. CASE priceSub[s].status = "new"
      BY <1>a, <1>b, <2>1, <2>3, <2>4, <2>7 DEF IsCurrent
    <2> QED
      BY <2>6, <2>7
  <1>6. ASSUME NEW q \in PriceSubs, ArmPrice(q) PROVE IsCurrent(s)'
    <2>1. CASE s = q
      <3>1. priceSub[s].status = "new" /\ priceTask[s] = "idle"
        BY <1>6, <1>a, <2>1 DEF ArmPrice, IsCurrent
      <3> QED
        BY <1>6, <1>a, <1>b, <2>1, <3>1, ArmEffect DEF IsCurrent, Current
    <2> QED
      BY <1>6, <1>a, <1>c, <2>1, ArmEffect
  <1>7. ASSUME NEW q \in PriceSubs, PriceArmFails(q) PROVE IsCurrent(s)'
    <2>1. CASE s = q
      BY <1>7, <1>a, <1>b, <2>1, FailEffect DEF IsCurrent, Current, Failure
    <2> QED
      BY <1>7, <1>a, <1>c, <2>1, FailEffect
  <1>8. ASSUME NEW q \in PriceSubs, PriceAnswered(q) PROVE IsCurrent(s)'
    <2>1. CASE s = q
      <3>1. /\ Shown' = Shown /\ priceSub[s].status # "new" /\ priceAnswer'[s] \in Nat
        BY <1>8, <1>a, <2>1, AnswerEffect DEF Shown, Latest, IsCurrent
      <3> QED
        BY <1>8, <1>a, <1>b, <2>1, <3>1, AnswerEffect DEF IsCurrent, Current
    <2> QED
      BY <1>8, <1>a, <1>c, <2>1, AnswerEffect
  <1>9. ASSUME NEW q \in PriceSubs, SeedArrives(q) PROVE IsCurrent(s)'
    <2>1. CASE s = q
      BY <1>9, <1>a, <1>b, <2>1, SeedEffect DEF IsCurrent, Current, FirstSeed
    <2> QED
      BY <1>9, <1>a, <1>c, <2>1, SeedEffect
  <1>10. ASSUME NEW q \in PriceSubs, PriceDelivered(q) \/ PriceExpires(q) PROVE IsCurrent(s)'
    <2>1. CASE s = q
      BY <1>10, <1>a, <1>b, <2>1, EndEffect DEF IsCurrent, Current
    <2> QED
      BY <1>10, <1>a, <1>c, <2>1, EndEffect
  <1>11. CASE /\ UNCHANGED <<priceSub, previous, since, priceAnswer, watched>>
              /\ (priceTask'[s] = priceTask[s] \/ priceTask[s] = "auth")
    BY <1>11, <1>a, <1>b DEF IsCurrent, Current
  <1>12. ASSUME NEW p \in Price, TradeHappens(p)
         PROVE  UNCHANGED <<priceSub, previous, since, priceAnswer, watched, priceTask>>
    BY <1>12 DEF TradeHappens
  <1>13. StockDrops \/ StockRejected \/ UNCHANGED priceVars
         => UNCHANGED <<priceSub, previous, since, priceAnswer, watched, priceTask>>
    BY DEF StockDrops, StockRejected, priceVars
  <1>14. StockAuthenticated => UNCHANGED <<priceSub, previous, since, priceAnswer, watched>>
                                /\ (priceTask'[s] = priceTask[s] \/ priceTask[s] = "auth")
    BY DEF StockAuthenticated
  <1> QED
    BY <1>5, <1>6, <1>7, <1>8, <1>9, <1>10, <1>11, <1>12, <1>13, <1>14 DEF PriceNext

(* Truly, of any list of trades. *)
Crossed(trades, s, i, j) ==
  IF s \in Below THEN trades[i] >= Threshold /\ trades[j] < Threshold
                 ELSE trades[i] <= Threshold /\ trades[j] > Threshold

(* What has been traded stays what it was. *)
LEMMA MarketGrows ==
  ASSUME AlpacaPriceStreamAssumption, PriceInv, [PriceNext]_priceVars
  PROVE  /\ Latest \in Nat /\ Latest' \in Nat /\ Latest <= Latest'
         /\ \A i \in 1..Latest : market'[i] = market[i]
         /\ \A s : \A i, j \in 1..Latest : Crossed(market', s, i, j) <=> Crossed(market, s, i, j)
  <1>1. /\ Latest \in Nat /\ Latest' \in Nat /\ Latest <= Latest'
        /\ \A i \in 1..Latest : market'[i] = market[i]
    <2>0. market \in Seq(Price)
      BY DEF PriceInv, PriceTypeOK
    <2>1. CASE UNCHANGED market
      BY <2>0, <2>1 DEF Latest
    <2>2. ASSUME NEW p \in Price, market' = Append(market, p)
          PROVE /\ Latest \in Nat /\ Latest' \in Nat /\ Latest <= Latest'
                /\ \A i \in 1..Latest : market'[i] = market[i]
      BY <2>0, <2>2 DEF Latest
    <2>3. (\E p \in Price : TradeHappens(p)) \/ UNCHANGED market
      BY DEF PriceNext, priceVars, StockDrops, StockAuthenticated, StockRejected, handleTrade,
        ArmPrice, PriceArmFails, PriceAnswered, SeedArrives, PriceDelivered, PriceExpires
    <2> QED
      BY <2>1, <2>2, <2>3 DEF TradeHappens
  <1> QED
    BY <1>1 DEF Crossed

(* What a wake has to tell: a trade after the arming, and what it crossed from. *)
Told(trades, end, wake, s) ==
  /\ wake.armedAt < wake.trade
  /\ \E i \in 1..end :
       /\ "behind" \in circumstances \/ wake.armedAt <= i
       /\ "ahead" \in circumstances \/ i < wake.trade
       /\ Crossed(trades, s, i, wake.trade)

(* No step wakes anybody for a crossing that was none. *)
LEMMA FalseStep ==
  ASSUME AlpacaPriceStreamAssumption, PriceInv, [PriceNext]_priceVars
  PROVE  NoFalseCrossing'
  <1> SUFFICES ASSUME NEW s \in PriceSubs, priceSub'[s].trade # 0
               PROVE  Told(market', Latest', priceSub'[s], s)
    BY SettingStays DEF NoFalseCrossing, Truly, Crossed, Told
  <1>a. /\ NoFalseCrossing /\ IsCurrent(s) /\ PriceTypeOK /\ WireIsTail
        /\ Shown \in Nat /\ Shown <= Latest /\ Latest \in Nat
    BY ShownIsANumber DEF PriceInv, PricesAreCurrent
  <1>b. /\ priceSub[s].armedAt \in Nat /\ priceSub[s].trade \in Nat /\ previous[s] \in Nat
    BY <1>a DEF PriceTypeOK
  <1>1. ASSUME priceSub'[s].trade = priceSub[s].trade, priceSub'[s].armedAt = priceSub[s].armedAt,
               priceSub[s].armedAt # 0
        PROVE  Told(market', Latest', priceSub'[s], s)
    <2>1. Told(market, Latest, priceSub[s], s)
      BY <1>1, <1>a DEF NoFalseCrossing, Truly, Crossed, Told
    <2>2. PICK i \in 1..Latest :
            /\ "behind" \in circumstances \/ priceSub[s].armedAt <= i
            /\ "ahead" \in circumstances \/ i < priceSub[s].trade
            /\ Crossed(market, s, i, priceSub[s].trade)
      BY <2>1 DEF Told
    <2>3. priceSub[s].trade \in 1..Latest
      BY <1>1, <1>a, <1>b, <2>1 DEF IsCurrent
    <2>4. Crossed(market', s, i, priceSub'[s].trade) /\ i \in 1..Latest'
      BY <1>1, <2>2, <2>3, MarketGrows
    <2> QED
      BY <1>1, <2>1, <2>2, <2>4 DEF Told
  <1>2. priceSub[s].status = "new" => priceSub[s].trade = 0
    BY <1>a DEF IsCurrent
  <1>3. priceSub[s].status # "new" => priceSub[s].armedAt # 0
    BY <1>a DEF IsCurrent
  <1>4. ASSUME priceSub'[s] = priceSub[s]
        PROVE  Told(market', Latest', priceSub'[s], s)
    BY <1>1, <1>2, <1>3, <1>4
  <1>5. CASE handleTrade
    <2>1. CASE priceSub'[s] = priceSub[s]
      BY <1>4, <2>1
    <2>2. CASE priceSub'[s] # priceSub[s]
      <3>1. /\ s \in Woken(Shown + 1) /\ priceSub'[s].trade = Shown + 1
            /\ priceSub'[s].armedAt = priceSub[s].armedAt /\ Shown + 1 <= Latest
        BY <1>5, <1>a, <2>2, HandlerTakes, HandlerEffect
      <3>2. /\ previous[s] \in 1..Latest /\ Current(s, previous[s])
            /\ priceSub[s].armedAt <= Shown /\ Crossed(market, s, previous[s], Shown + 1)
        BY <1>a, <1>b, <3>1 DEF Woken, IsCurrent, crosses, Crossed, PriceTypeOK
      <3>3. Crossed(market', s, previous[s], priceSub'[s].trade) /\ previous[s] \in 1..Latest'
        BY <1>a, <3>1, <3>2, MarketGrows
      <3>4. /\ "behind" \in circumstances \/ priceSub'[s].armedAt <= previous[s]
            /\ "ahead" \in circumstances \/ previous[s] < priceSub'[s].trade
            /\ priceSub'[s].armedAt < priceSub'[s].trade
        BY <1>a, <1>b, <3>1, <3>2 DEF Current
      <3> QED
        BY <3>3, <3>4 DEF Told
    <2> QED
      BY <2>1, <2>2
  <1>6. ASSUME NEW q \in PriceSubs,
               \/ ArmPrice(q) \/ PriceArmFails(q) \/ PriceDelivered(q) \/ PriceExpires(q)
               \/ SeedArrives(q) \/ PriceAnswered(q)
        PROVE  Told(market', Latest', priceSub'[s], s)
    <2>1. CASE s # q
      BY <1>4, <1>6, <1>a, <2>1, ArmEffect, FailEffect, EndEffect, SeedEffect, AnswerEffect
        DEF Same
    <2>2. CASE s = q /\ ArmPrice(q)
      BY <1>2, <1>a, <2>2, ArmEffect DEF ArmPrice
    <2>3. CASE s = q /\ PriceArmFails(q)
      <3>1. priceSub[s].status # "new"
        BY <1>a, <2>3, FailEffect DEF IsCurrent
      <3> QED
        BY <1>1, <1>3, <1>a, <2>3, <3>1, FailEffect
    <2>4. CASE s = q /\ (PriceDelivered(q) \/ PriceExpires(q))
      BY <1>1, <1>3, <1>a, <2>4, EndEffect
    <2>5. CASE s = q /\ (SeedArrives(q) \/ PriceAnswered(q))
      BY <1>4, <1>a, <2>5, SeedEffect, AnswerEffect
    <2> QED
      BY <1>6, <2>1, <2>2, <2>3, <2>4, <2>5
  <1>7. CASE UNCHANGED priceSub
    BY <1>4, <1>7
  <1>8. ASSUME NEW p \in Price, TradeHappens(p) PROVE UNCHANGED priceSub
    BY <1>8 DEF TradeHappens
  <1>9. StockDrops \/ StockRejected \/ StockAuthenticated \/ UNCHANGED priceVars
         => UNCHANGED priceSub
    BY DEF StockDrops, StockRejected, StockAuthenticated, priceVars
  <1> QED
    BY <1>5, <1>6, <1>7, <1>8, <1>9 DEF PriceNext

(* No step passes over a crossing. *)
LEMMA PassedStep ==
  ASSUME AlpacaPriceStreamAssumption, PriceInv, [PriceNext]_priceVars
  PROVE  NothingPassed'
  <1> DEFINE ToldSince(s) == priceSub'[s].status = "armed" /\ since'[s] # 0 =>
               /\ previous'[s] = Shown'
               /\ \A t \in since'[s] + 1..Shown' : ~ Crossed(market', s, t - 1, t)
             Calm == priceDrops = 0 /\ circumstances = {}
  <1>a. /\ NothingPassed /\ PriceTypeOK /\ WireIsTail /\ SubscribedWhileWatched /\ WaitsForAuth
        /\ SeededWhileUp /\ AnswerIsLatest /\ Latest \in Nat /\ Latest = Shown + Len(priceWire)
        /\ Shown \in Nat /\ Shown' \in Nat /\ Shown <= Shown' /\ Shown # 0 /\ Shown <= Latest
        /\ Len(priceWire) = 0 <=> priceWire = <<>>
    BY ShownGrows, ShownIsANumber DEF PriceInv
  <1>b. \A s \in PriceSubs : since[s] \in Nat /\ previous[s] \in Nat
    BY <1>a DEF PriceTypeOK
  <1>c. UNCHANGED circumstances /\ ((StockDrops /\ priceDrops' # 0) \/ UNCHANGED priceDrops)
    BY SettingStays
  <1> SUFFICES ASSUME NEW s \in watched', Calm, ~ StockDrops PROVE ToldSince(s)
    <2>1. StockDrops => priceDrops' # 0
      BY <1>c DEF StockDrops, PriceInv, PriceTypeOK, AlpacaPriceStreamAssumption
    <2> QED
      BY <1>c, <2>1 DEF NothingPassed, Truly, Crossed
  <1>e. \A q \in watched : priceSub[q].status = "armed" /\ since[q] # 0 =>
          /\ previous[q] = Shown
          /\ \A t \in since[q] + 1..Shown : ~ Crossed(market, q, t - 1, t)
    BY <1>a DEF NothingPassed, Truly, Crossed
  <1>f. ASSUME s \in watched, Same(s), Shown' = Shown PROVE ToldSince(s)
    <2>1. SUFFICES ASSUME priceSub[s].status = "armed", since[s] # 0
                   PROVE  /\ previous[s] = Shown
                          /\ \A t \in since[s] + 1..Shown : ~ Crossed(market', s, t - 1, t)
      BY <1>f DEF Same
    <2>2. s \in PriceSubs
      BY <1>a, <1>f DEF PriceTypeOK
    <2>3. \A t \in since[s] + 1..Shown : t - 1 \in 1..Latest /\ t \in 1..Latest
      BY <1>a, <1>b, <2>1, <2>2
    <2> QED
      BY <1>e, <1>f, <2>1, <2>3, MarketGrows
  <1>g. watched \subseteq PriceSubs
    BY <1>a DEF PriceTypeOK
  <1>1. ASSUME NEW p \in Price, TradeHappens(p) PROVE ToldSince(s)
    <2>1. Same(s) /\ s \in watched
      BY <1>1 DEF TradeHappens, Same
    <2>2. CASE since[s] = 0
      BY <2>1, <2>2 DEF Same
    <2>3. CASE since[s] # 0
      <3>1. stockStream = "authenticated" /\ subscribed
        BY <1>a, <1>g, <2>1, <2>3 DEF SeededWhileUp, SubscribedWhileWatched, WaitsForAuth
      <3> QED
        BY <1>1, <1>a, <1>f, <2>1, <3>1, TradeGrows
    <2> QED
      BY <2>2, <2>3
  <1>2. CASE handleTrade
    <2>1. /\ Head(priceWire) = Shown + 1 /\ Shown' = Shown + 1 /\ Shown' <= Latest
          /\ s \in watched /\ s \in PriceSubs
      BY <1>2, <1>a, <1>g, HandlerTakes DEF handleTrade
    <2>2. previous'[s] = Shown' /\ since'[s] = FirstSeed(s, Shown')
      BY <1>2, <1>a, <2>1, HandlerEffect
    <2>3. SUFFICES ASSUME priceSub'[s].status = "armed"
                   PROVE  \A t \in since'[s] + 1..Shown' : ~ Crossed(market', s, t - 1, t)
      BY <2>2
    <2>4. s \notin Woken(Shown + 1) /\ priceSub[s].status = "armed"
      BY <1>2, <1>a, <2>1, <2>3, HandlerEffect
    <2>5. CASE since[s] = 0
      BY <1>a, <2>2, <2>5 DEF FirstSeed
    <2>6. CASE since[s] # 0
      <3>1. since'[s] = since[s] /\ since[s] \in Nat
        BY <1>b, <2>1, <2>2, <2>6 DEF FirstSeed
      <3>2. /\ previous[s] = Shown
            /\ \A t \in since[s] + 1..Shown : ~ Crossed(market, s, t - 1, t)
        BY <1>e, <2>1, <2>4, <2>6
      <3>3. ~ Crossed(market, s, Shown, Shown + 1)
        BY <1>a, <2>1, <2>4, <3>2 DEF Woken, crosses, Crossed
      <3>4. ASSUME NEW t \in since'[s] + 1..Shown' PROVE ~ Crossed(market', s, t - 1, t)
        <4>1. t \in since[s] + 1..Shown \/ t = Shown + 1
          BY <1>a, <2>1, <3>1, <3>4
        <4>2. t - 1 \in 1..Latest /\ t \in 1..Latest
          BY <1>a, <2>1, <2>6, <3>1, <3>4
        <4>3. ~ Crossed(market, s, t - 1, t)
          BY <1>a, <3>2, <3>3, <4>1
        <4> QED
          BY <4>2, <4>3, MarketGrows
      <3> QED
        BY <3>4
    <2> QED
      BY <2>5, <2>6
  <1>3. ASSUME NEW q \in PriceSubs, ArmPrice(q) PROVE ToldSince(s)
    <2>1. Shown' = Shown /\ watched' = watched \cup {q} /\ priceSub[q].status = "new"
      BY <1>3 DEF ArmPrice, Shown, Latest
    <2>2. CASE s = q
      <3>1. since'[q] = 0
        BY <1>3, <2>1 DEF PriceInv, PricesAreCurrent, IsCurrent, ArmPrice
      <3> QED
        BY <2>2, <3>1
    <2>3. CASE s # q
      BY <1>3, <1>a, <1>f, <1>g, <2>1, <2>3, ArmEffect
    <2> QED
      BY <2>2, <2>3
  <1>4. ASSUME NEW q \in PriceSubs, PriceArmFails(q) \/ PriceDelivered(q) \/ PriceExpires(q)
        PROVE ToldSince(s)
    <2>1. disarmPriceCross({q}) /\ UNCHANGED <<market, stockStream>>
      BY <1>4 DEF PriceArmFails, PriceDelivered, PriceExpires
    <2>0. /\ watched' = watched \ {q}
          /\ \/ Shown' = Shown
             \/ watched' = {}
      BY <1>a, <2>1, DisarmEffect
    <2>2. Shown' = Shown /\ s \in watched /\ s # q
      BY <2>0
    <2>3. Same(s)
      BY <1>4, <1>a, <1>g, <2>2, FailEffect, EndEffect
    <2> QED
      BY <1>f, <2>2, <2>3
  <1>5. ASSUME NEW q \in PriceSubs, PriceAnswered(q) PROVE ToldSince(s)
    <2>1. /\ Shown' = Shown /\ s \in watched
          /\ priceSub'[s] = priceSub[s] /\ previous'[s] = previous[s] /\ since'[s] = since[s]
      BY <1>5 DEF PriceAnswered, Shown, Latest, priceConnection
    <2>2. UNCHANGED market
      BY <1>5 DEF PriceAnswered
    <2> QED
      BY <1>e, <2>1, <2>2
  <1>6. ASSUME NEW q \in PriceSubs, SeedArrives(q) PROVE ToldSince(s)
    <2>1. /\ Shown' = Shown /\ s \in watched /\ UNCHANGED market /\ s \in PriceSubs
      BY <1>6, <1>g DEF SeedArrives, Shown, Latest, priceConnection
    <2>2. CASE s # q
      BY <1>6, <1>a, <1>f, <2>1, <2>2, SeedEffect
    <2>3. CASE s = q
      <3>1. priceTask[s] = "seed" /\ priceAnswer[s] # 0 /\ previous'[s] = priceAnswer[s]
            /\ since'[s] = FirstSeed(s, priceAnswer[s]) /\ priceSub'[s] = priceSub[s]
        BY <1>6, <1>a, <2>3, SeedEffect
      <3>2. priceAnswer[s] = Shown
        BY <1>a, <2>1, <3>1 DEF AnswerIsLatest
      <3>3. CASE since[s] = 0
        BY <1>a, <2>1, <3>1, <3>2, <3>3 DEF FirstSeed
      <3>4. CASE since[s] # 0
        BY <1>e, <2>1, <3>1, <3>2, <3>4 DEF FirstSeed
      <3> QED
        BY <3>3, <3>4
    <2> QED
      BY <2>2, <2>3
  <1>7. CASE StockAuthenticated \/ StockRejected \/ UNCHANGED priceVars
    <2>1. /\ Shown' = Shown /\ s \in watched /\ UNCHANGED market
          /\ priceSub'[s] = priceSub[s] /\ previous'[s] = previous[s] /\ since'[s] = since[s]
      BY <1>7 DEF StockAuthenticated, StockRejected, priceVars, priceConnection, Shown, Latest
    <2> QED
      BY <1>e, <2>1
  <1> QED
    BY <1>1, <1>2, <1>3, <1>4, <1>5, <1>6, <1>7 DEF PriceNext

(* Every step keeps the types of the subscriptions. *)
LEMMA RecordsStep ==
  ASSUME AlpacaPriceStreamAssumption, PriceInv, [PriceNext]_priceVars
  PROVE  RecordsOK'
  <1>a. RecordsOK /\ TradesOK /\ PriceTypeOK /\ WireIsTail
    BY PriceTypeParts DEF PriceInv
  <1>b. MaxTrades \in Nat
    BY DEF AlpacaPriceStreamAssumption
  <1>0. RecordsOK /\ TradesOK /\ PriceTypeOK /\ WireIsTail /\ Shown \in 0..MaxTrades
    BY <1>a, <1>b, ShownIsANumber
  <1> USE DEF RecordsOK, Subscribing, Failure, TradesOK
  <1>1. ASSUME NEW p \in Price, TradeHappens(p) PROVE RecordsOK'
    BY <1>0, <1>1 DEF TradeHappens, setting
  <1>2. CASE StockDrops
    BY <1>0, <1>2 DEF StockDrops, setting
  <1>3. CASE StockAuthenticated
    BY <1>0, <1>3 DEF StockAuthenticated, setting
  <1>4. CASE StockRejected
    BY <1>0, <1>4 DEF StockRejected, setting
  <1>5. CASE handleTrade
    <2> DEFINE claimed(s) ==
                 [priceSub[s] EXCEPT !.status = "delivering", !.trade = Head(priceWire)]
               R == [status : {"new", "armed", "delivering", "ended", "failed"},
                     armedAt : 0..MaxTrades, trade : 0..MaxTrades]
    <2>1. Head(priceWire) \in 0..MaxTrades
      BY <1>0, <1>5, <1>b, ShownIsANumber, HandlerTakes
    <2>2. ASSUME NEW s \in PriceSubs PROVE claimed(s) \in R
      BY <1>0, <2>1
    <2>3. priceSub' = [s \in PriceSubs |->
            IF s \in Woken(Head(priceWire)) THEN claimed(s) ELSE priceSub[s]]
      BY <1>5 DEF handleTrade
    <2>4. \A s \in PriceSubs : priceSub[s] \in R
      BY <1>0
    <2>5. UNCHANGED <<watched, priceTask>>
      BY <1>5 DEF handleTrade
    <2>6. priceSub' \in [PriceSubs -> R]
      <3> HIDE DEF claimed, R
      <3> QED
        BY <2>2, <2>3, <2>4
    <2> QED
      BY <1>0, <2>5, <2>6
  <1>6. ASSUME NEW s \in PriceSubs, ArmPrice(s) PROVE RecordsOK'
    <2> DEFINE armed == [priceSub[s] EXCEPT !.status = "armed", !.armedAt = Shown]
    <2>1. armed \in [status : {"new", "armed", "delivering", "ended", "failed"},
                     armedAt : 0..MaxTrades, trade : 0..MaxTrades]
      BY <1>0
    <2>2. priceSub' = [priceSub EXCEPT ![s] = armed]
      BY <1>6 DEF ArmPrice, Shown
    <2>3. \E task \in {"idle", "auth", "seed"} : priceTask' = [priceTask EXCEPT ![s] = task]
      BY <1>6 DEF ArmPrice
    <2>4. watched' = watched \cup {s}
      BY <1>6 DEF ArmPrice
    <2> HIDE DEF armed
    <2> QED
      BY <1>0, <2>1, <2>2, <2>3, <2>4
  <1>7. ASSUME NEW s \in PriceSubs, PriceArmFails(s) PROVE RecordsOK'
    BY <1>0, <1>7 DEF PriceArmFails, disarmPriceCross, setting
  <1>8. ASSUME NEW s \in PriceSubs, PriceAnswered(s) PROVE RecordsOK'
    BY <1>0, <1>8 DEF PriceAnswered, priceConnection, setting
  <1>9. ASSUME NEW s \in PriceSubs, SeedArrives(s) PROVE RecordsOK'
    BY <1>0, <1>9 DEF SeedArrives, priceConnection, setting
  <1>10. ASSUME NEW s \in PriceSubs, PriceDelivered(s) PROVE RecordsOK'
    BY <1>0, <1>10 DEF PriceDelivered, disarmPriceCross, setting
  <1>11. ASSUME NEW s \in PriceSubs, PriceExpires(s) PROVE RecordsOK'
    BY <1>0, <1>11 DEF PriceExpires, disarmPriceCross, setting
  <1>12. CASE UNCHANGED priceVars
    BY <1>0, <1>12 DEF priceVars, priceConnection, setting
  <1> QED
    BY <1>1, <1>2, <1>3, <1>4, <1>5, <1>6, <1>7, <1>8, <1>9, <1>10, <1>11, <1>12
    DEF PriceNext

(* Every step keeps the types of the connection. *)
LEMMA StreamStep ==
  ASSUME AlpacaPriceStreamAssumption, PriceInv, [PriceNext]_priceVars
  PROVE  StreamOK'
  <1>0. StreamOK /\ AlpacaPriceStreamAssumption
    BY PriceTypeParts DEF PriceInv
  <1> USE DEF StreamOK
  <1>1. ASSUME NEW p \in Price, TradeHappens(p) PROVE StreamOK'
    BY <1>0, <1>1 DEF AlpacaPriceStreamAssumption, TradeHappens, setting
  <1>2. CASE StockDrops
    BY <1>0, <1>2 DEF AlpacaPriceStreamAssumption, StockDrops, setting
  <1>3. CASE StockAuthenticated
    BY <1>0, <1>3 DEF AlpacaPriceStreamAssumption, StockAuthenticated, setting
  <1>4. CASE StockRejected
    BY <1>0, <1>4 DEF AlpacaPriceStreamAssumption, StockRejected, setting
  <1>5. CASE handleTrade
    BY <1>0, <1>5 DEF AlpacaPriceStreamAssumption, handleTrade, setting
  <1>6. ASSUME NEW s \in PriceSubs, ArmPrice(s) PROVE StreamOK'
    BY <1>0, <1>6 DEF AlpacaPriceStreamAssumption, ArmPrice, setting
  <1>7. ASSUME NEW s \in PriceSubs, PriceArmFails(s) PROVE StreamOK'
    BY <1>0, <1>7 DEF AlpacaPriceStreamAssumption, PriceArmFails, disarmPriceCross, setting
  <1>8. ASSUME NEW s \in PriceSubs, PriceAnswered(s) PROVE StreamOK'
    BY <1>0, <1>8 DEF AlpacaPriceStreamAssumption, PriceAnswered, priceConnection, setting
  <1>9. ASSUME NEW s \in PriceSubs, SeedArrives(s) PROVE StreamOK'
    BY <1>0, <1>9 DEF AlpacaPriceStreamAssumption, SeedArrives, priceConnection, setting
  <1>10. ASSUME NEW s \in PriceSubs, PriceDelivered(s) PROVE StreamOK'
    BY <1>0, <1>10 DEF AlpacaPriceStreamAssumption, PriceDelivered, disarmPriceCross,
      setting
  <1>11. ASSUME NEW s \in PriceSubs, PriceExpires(s) PROVE StreamOK'
    BY <1>0, <1>11 DEF AlpacaPriceStreamAssumption, PriceExpires, disarmPriceCross, setting
  <1>12. CASE UNCHANGED priceVars
    BY <1>0, <1>12 DEF AlpacaPriceStreamAssumption, priceVars, priceConnection, setting
  <1> QED
    BY <1>1, <1>2, <1>3, <1>4, <1>5, <1>6, <1>7, <1>8, <1>9, <1>10, <1>11, <1>12
    DEF PriceNext

(* Every step keeps the types of the truth values. *)
LEMMA SubscribedTypeStep ==
  ASSUME AlpacaPriceStreamAssumption, PriceInv, [PriceNext]_priceVars
  PROVE  /\ feed' \in {"iex", "test"} /\ circumstances' \subseteq Circumstances
         /\ subscribed' \in BOOLEAN
  <1>1. /\ feed \in {"iex", "test"} /\ circumstances \subseteq Circumstances
        /\ subscribed \in BOOLEAN
    BY PriceTypeParts DEF PriceInv
  <1>2. UNCHANGED <<feed, circumstances>>
    BY SettingStays
  <1>3. ASSUME NEW s \in PriceSubs, ArmPrice(s) PROVE subscribed' \in BOOLEAN
    BY <1>3, Zenon DEF ArmPrice
  <1>4. ASSUME StockAuthenticated PROVE subscribed' \in BOOLEAN
    BY <1>4, Zenon DEF StockAuthenticated
  <1>5. ASSUME NEW s \in PriceSubs, PriceArmFails(s) \/ PriceDelivered(s) \/ PriceExpires(s)
        PROVE  UNCHANGED subscribed \/ subscribed' = FALSE
    BY <1>5 DEF PriceArmFails, PriceDelivered, PriceExpires, disarmPriceCross
  <1>6. \/ UNCHANGED subscribed \/ StockAuthenticated
        \/ \E s \in PriceSubs : \/ ArmPrice(s)
                               \/ PriceArmFails(s) \/ PriceDelivered(s) \/ PriceExpires(s)
    BY DEF PriceNext, priceVars, priceConnection, TradeHappens, StockRejected, handleTrade,
      PriceAnswered, SeedArrives, StockDrops
  <1>7. subscribed' \in BOOLEAN
    <2>1. CASE UNCHANGED subscribed
      BY <1>1, <2>1, Zenon
    <2> QED
      BY <1>3, <1>4, <1>5, <1>6, <2>1, Zenon
  <1> QED
    BY <1>1, <1>2, <1>7

(* Every step keeps the types of the trades. *)
LEMMA TradesStep ==
  ASSUME AlpacaPriceStreamAssumption, PriceInv, [PriceNext]_priceVars
  PROVE  TradesOK'
  <1>0. PriceTypeOK /\ WireIsTail /\ TradesOK
    BY PriceTypeParts DEF PriceInv
  <1>1. ASSUME NEW p \in Price, TradeHappens(p) PROVE TradesOK'
    <2>1. Latest < MaxTrades
      BY <1>1 DEF TradeHappens
    <2> QED
      BY <1>0, <1>1, <2>1, TradeGrows DEF TradesOK, AlpacaPriceStreamAssumption
  <1>2. CASE handleTrade
    BY <1>0, <1>2, HandlerTakes DEF TradesOK, handleTrade
  <1>3. ASSUME NEW s \in PriceSubs, PriceArmFails(s) \/ PriceDelivered(s) \/ PriceExpires(s)
        PROVE  TradesOK'
    <2>1. disarmPriceCross({s}) /\ UNCHANGED <<market, stockStream>>
      BY <1>3 DEF PriceArmFails, PriceDelivered, PriceExpires
    <2> QED
      BY <1>0, <2>1, DisarmEffect DEF TradesOK
  <1>4. CASE UNCHANGED market /\ (priceWire' = <<>> \/ UNCHANGED priceWire)
    <2>1. Latest' = Latest
      BY <1>4 DEF Latest
    <2>2. priceWire' \in Seq(1..Latest)
      <3>1. CASE priceWire' = <<>>
        BY <3>1
      <3>2. CASE UNCHANGED priceWire
        BY <1>0, <3>2 DEF TradesOK
      <3> QED
        BY <1>4, <3>1, <3>2
    <2> QED
      BY <1>0, <1>4, <2>1, <2>2 DEF TradesOK
  <1>5. \/ \E p \in Price : TradeHappens(p)
        \/ handleTrade
        \/ \E s \in PriceSubs : PriceArmFails(s) \/ PriceDelivered(s) \/ PriceExpires(s)
        \/ UNCHANGED market /\ (priceWire' = <<>> \/ UNCHANGED priceWire)
    BY DEF PriceNext, priceVars, priceConnection, StockAuthenticated, StockRejected, StockDrops,
      ArmPrice, PriceAnswered, SeedArrives
  <1> QED
    BY <1>1, <1>2, <1>3, <1>4, <1>5

(* Every step keeps the types of the prices. *)
LEMMA KnownStep ==
  ASSUME AlpacaPriceStreamAssumption, PriceInv, [PriceNext]_priceVars
  PROVE  PricesOK'
  <1>0. /\ PriceTypeOK /\ WireIsTail /\ PricesOK /\ Latest \in Nat /\ Latest' \in Nat
        /\ Latest <= Latest' /\ 0..Latest \subseteq 0..Latest'
    BY MarketGrows, PriceTypeParts DEF PriceInv
  <1>1. CASE handleTrade
    <2>1. Head(priceWire) \in 0..Latest'
      <3>1. Shown \in Nat
        BY <1>0, ShownIsANumber
      <3>2. Head(priceWire) = Shown + 1 /\ Shown + 1 <= Latest
        BY <1>0, <1>1, HandlerTakes
      <3> QED
        BY <1>0, <3>1, <3>2
    <2> QED
      BY <1>0, <1>1, <2>1 DEF PricesOK, handleTrade, FirstSeed
  <1>2. ASSUME NEW s \in PriceSubs, PriceArmFails(s) \/ PriceAnswered(s) PROVE PricesOK'
    <2>1. UNCHANGED <<previous, since>>
      BY <1>2 DEF PriceArmFails, PriceAnswered
    <2>2. PICK t \in 0..Latest : priceAnswer' = [priceAnswer EXCEPT ![s] = t]
      BY <1>0, <1>2 DEF PriceArmFails, PriceAnswered
    <2> QED
      BY <1>0, <2>1, <2>2 DEF PricesOK
  <1>3. ASSUME NEW s \in PriceSubs, SeedArrives(s) PROVE PricesOK'
    <2>1. FirstSeed(s, priceAnswer[s]) \in 0..Latest /\ priceAnswer[s] \in 0..Latest
      BY <1>0 DEF PricesOK, FirstSeed
    <2> QED
      BY <1>0, <1>3, <2>1 DEF PricesOK, SeedArrives, SeedValue
  <1>4. CASE UNCHANGED <<previous, since, priceAnswer>>
    BY <1>0, <1>4 DEF PricesOK
  <1>5. \/ UNCHANGED <<previous, since, priceAnswer>> \/ handleTrade
        \/ \E s \in PriceSubs : PriceArmFails(s) \/ PriceAnswered(s) \/ SeedArrives(s)
    BY DEF PriceNext, priceVars, TradeHappens, StockAuthenticated, StockRejected, StockDrops,
      ArmPrice, PriceDelivered, PriceExpires
  <1> QED
    BY <1>1, <1>2, <1>3, <1>4, <1>5

(* The price stream begins in the invariant and every step keeps it. *)
LEMMA PriceStart ==
  ASSUME AlpacaPriceStreamAssumption, PriceInit
  PROVE  PriceInv
  <1>1. PICK p \in Price : market = <<p>>
    BY DEF PriceInit
  <1>2. market \in Seq(Price) /\ Latest = 1 /\ Len(priceWire) = 0
    BY <1>1 DEF PriceInit, Latest
  <1>3. RecordsOK /\ StreamOK /\ TradesOK /\ PricesOK
    BY <1>2 DEF AlpacaPriceStreamAssumption, PriceInit, RecordsOK, StreamOK, TradesOK, PricesOK
  <1>4. feed \in {"iex", "test"} /\ circumstances \subseteq Circumstances /\ subscribed \in BOOLEAN
    BY DEF PriceInit
  <1>5. WireIsTail
    BY <1>2 DEF PriceInit, WireIsTail
  <1>6. PricesAreCurrent
    BY <1>2 DEF PriceInit, PricesAreCurrent, IsCurrent, Shown
  <1>7. SubscribedWhileWatched /\ WaitsForAuth /\ SeededWhileUp /\ AnswerIsLatest
    BY DEF PriceInit, SubscribedWhileWatched, WaitsForAuth, SeededWhileUp, AnswerIsLatest
  <1>8. NothingPassed /\ NoFalseCrossing
    BY DEF PriceInit, NothingPassed, NoFalseCrossing
  <1> QED
    BY <1>3, <1>4, <1>5, <1>6, <1>7, <1>8, PriceTypeParts DEF PriceInv

(* Every step of the price stream keeps its invariant. *)
LEMMA PriceStep ==
  ASSUME AlpacaPriceStreamAssumption, PriceInv, [PriceNext]_priceVars
  PROVE  PriceInv'
  <1>0. RecordsOK' /\ StreamOK' /\ TradesOK' /\ PricesOK'
    BY RecordsStep, StreamStep, TradesStep, KnownStep
  <1>1. PriceTypeOK'
    BY <1>0, SubscribedTypeStep DEF PriceTypeOK, RecordsOK, StreamOK, TradesOK, PricesOK
  <1> QED
    BY <1>1, WireStep, SubscribedStep, PricesStep, SeededStep, AnswerStep, PassedStep, FalseStep
    DEF PriceInv

(* With the wire empty what was traded was shown, so that nobody missed it. *)
LEMMA PriceMissesNothing ==
  ASSUME AlpacaPriceStreamAssumption, PriceInv
  PROVE  NothingMissed
  <1>1. PriceTypeOK /\ WireIsTail /\ NothingPassed
    BY DEF PriceInv
  <1>2. priceWire = <<>> => Shown = Latest
    BY <1>1, ShownIsANumber
  <1> QED
    BY <1>1, <1>2 DEF NothingMissed, NothingPassed

-----------------------------------------------------------------------------
(* The stream of trade updates *)

(* The types, in three groups: the orders and who waits for them ... *)
OrdersOK ==
  /\ orderSub \in [OrderSubs -> {"new", "armed", "delivering", "fired", "expired", "failed"}]
  /\ order \in [Orders -> {"open", "terminal"}]
  /\ orderWire \subseteq Orders /\ routed \subseteq OrderSubs

(* ... the arms and the stream ... *)
TasksOK ==
  /\ orderTask \in [OrderSubs -> {"idle", "auth", "ack", "asking", "lost"}]
  /\ orderAnswer \in [OrderSubs -> {"none", "open", "terminal"}]
  /\ tradingStream \in {"none", "connecting", "authenticated", "listening", "down", "rejected"}

(* ... and the bounds. *)
CountsOK == rejections \in 0..MaxRejections /\ orderDrops \in 0..MaxOrderDrops

(* Together they are the type of the order stream. *)
LEMMA OrderTypeParts ==
  OrderTypeOK <=> OrdersOK /\ TasksOK /\ CountsOK /\ acked \in BOOLEAN
  BY DEF OrderTypeOK, OrdersOK, TasksOK, CountsOK

(* Every step keeps the types of the orders. *)
LEMMA OrdersStep ==
  ASSUME AlpacaOrderStreamAssumption, OrderInv, [OrderNext]_orderVars
  PROVE  OrdersOK'
  <1>0. OrdersOK
    BY OrderTypeParts DEF OrderInv, AlpacaOrderStreamAssumption
  <1> USE DEF OrdersOK
  <1>1. ASSUME NEW o \in Orders, OrderEnds(o) PROVE OrdersOK'
    BY <1>0, <1>1 DEF OrderEnds, env
  <1>2. ASSUME NEW o \in Orders, handleTradeUpdate(o) PROVE OrdersOK'
    BY <1>0, <1>2 DEF handleTradeUpdate, Claim, subscriptionsForOrderUpdate, env
  <1>3. CASE TradingAuthenticated
    BY <1>0, <1>3 DEF TradingAuthenticated, Passes, AfterAuth, env
  <1>4. CASE Listening
    BY <1>0, <1>4 DEF Listening, Passes, env
  <1>5. CASE TradingRejected
    BY <1>0, <1>5 DEF TradingRejected, env
  <1>6. CASE TradingDrops
    BY <1>0, <1>6 DEF TradingDrops, Working, env
  <1>7. CASE NotAuthenticated
    BY <1>0, <1>7 DEF NotAuthenticated, ToFailed, FailedEntries, Close, env
  <1>8. ASSUME NEW q \in OrderSubs, ArmOrder(q) PROVE OrdersOK'
    BY <1>0, <1>8 DEF ArmOrder, registerOrderFilledSub, AfterAuth, Working, env
  <1>9. ASSUME NEW q \in OrderSubs, OrderAnswered(q) PROVE OrdersOK'
    BY <1>0, <1>9 DEF OrderAnswered, orderConnection, env
  <1>10. ASSUME NEW q \in OrderSubs, ArmReturns(q) PROVE OrdersOK'
    BY <1>0, <1>10 DEF ArmReturns, Claim, SeedWakes, IdleTask, orderConnection, env
  <1>11. ASSUME NEW q \in OrderSubs, GetOrderFails(q) PROVE OrdersOK'
    BY <1>0, <1>11 DEF GetOrderFails, ToFailed, FailedEntries, IdleTask, Unregister, Keeps,
      Close, orderConnection, env
  <1>12. ASSUME NEW q \in OrderSubs, OrderDelivered(q) PROVE OrdersOK'
    BY <1>0, <1>12 DEF OrderDelivered, Unregister, Keeps, Close, orderConnection, env
  <1>13. ASSUME NEW q \in OrderSubs, OrderExpires(q) PROVE OrdersOK'
    BY <1>0, <1>13 DEF OrderExpires, Unregister, Keeps, Close, orderConnection, env
  <1>14. CASE UNCHANGED orderVars
    BY <1>0, <1>14 DEF orderVars, orderConnection, env
  <1> QED
    BY <1>1, <1>2, <1>3, <1>4, <1>5, <1>6, <1>7, <1>8, <1>9, <1>10, <1>11, <1>12, <1>13, <1>14
    DEF OrderNext

(* Every step keeps the types of the arms. *)
LEMMA TasksStep ==
  ASSUME AlpacaOrderStreamAssumption, OrderInv, [OrderNext]_orderVars
  PROVE  TasksOK'
  <1>0. TasksOK /\ OrdersOK /\ OrderOf \in [OrderSubs -> Orders]
    BY OrderTypeParts DEF OrderInv, AlpacaOrderStreamAssumption
  <1> USE DEF TasksOK, OrdersOK
  <1>1. ASSUME NEW o \in Orders, OrderEnds(o) PROVE TasksOK'
    BY <1>0, <1>1 DEF OrderEnds, env
  <1>2. ASSUME NEW o \in Orders, handleTradeUpdate(o) PROVE TasksOK'
    BY <1>0, <1>2 DEF handleTradeUpdate, Claim, subscriptionsForOrderUpdate, env
  <1>3. CASE TradingAuthenticated
    BY <1>0, <1>3 DEF TradingAuthenticated, Passes, AfterAuth, env
  <1>4. CASE Listening
    BY <1>0, <1>4 DEF Listening, Passes, env
  <1>5. CASE TradingRejected
    BY <1>0, <1>5 DEF TradingRejected, env
  <1>6. CASE TradingDrops
    BY <1>0, <1>6 DEF TradingDrops, Working, env
  <1>7. CASE NotAuthenticated
    BY <1>0, <1>7 DEF NotAuthenticated, ToFailed, FailedEntries, Close, env
  <1>8. ASSUME NEW q \in OrderSubs, ArmOrder(q) PROVE TasksOK'
    BY <1>0, <1>8 DEF ArmOrder, registerOrderFilledSub, AfterAuth, Working, env
  <1>9. ASSUME NEW q \in OrderSubs, OrderAnswered(q) PROVE TasksOK'
    BY <1>0, <1>9 DEF OrderAnswered, orderConnection, env
  <1>10. ASSUME NEW q \in OrderSubs, ArmReturns(q) PROVE TasksOK'
    BY <1>0, <1>10 DEF ArmReturns, Claim, SeedWakes, IdleTask, orderConnection, env
  <1>11. ASSUME NEW q \in OrderSubs, GetOrderFails(q) PROVE TasksOK'
    BY <1>0, <1>11 DEF GetOrderFails, ToFailed, FailedEntries, IdleTask, Unregister, Keeps,
      Close, orderConnection, env
  <1>12. ASSUME NEW q \in OrderSubs, OrderDelivered(q) PROVE TasksOK'
    BY <1>0, <1>12 DEF OrderDelivered, Unregister, Keeps, Close, orderConnection, env
  <1>13. ASSUME NEW q \in OrderSubs, OrderExpires(q) PROVE TasksOK'
    BY <1>0, <1>13 DEF OrderExpires, Unregister, Keeps, Close, orderConnection, env
  <1>14. CASE UNCHANGED orderVars
    BY <1>0, <1>14 DEF orderVars, orderConnection, env
  <1> QED
    BY <1>1, <1>2, <1>3, <1>4, <1>5, <1>6, <1>7, <1>8, <1>9, <1>10, <1>11, <1>12, <1>13, <1>14
    DEF OrderNext

(* Every step keeps within the bounds. *)
LEMMA CountsStep ==
  ASSUME AlpacaOrderStreamAssumption, OrderInv, [OrderNext]_orderVars
  PROVE  CountsOK'
  <1>0. CountsOK /\ MaxRejections \in Nat /\ MaxOrderDrops \in Nat
    BY OrderTypeParts DEF OrderInv, AlpacaOrderStreamAssumption
  <1> USE DEF CountsOK
  <1>1. ASSUME NEW o \in Orders, OrderEnds(o) PROVE CountsOK'
    BY <1>0, <1>1 DEF OrderEnds, env
  <1>2. ASSUME NEW o \in Orders, handleTradeUpdate(o) PROVE CountsOK'
    BY <1>0, <1>2 DEF handleTradeUpdate, Claim, subscriptionsForOrderUpdate, env
  <1>3. CASE TradingAuthenticated
    BY <1>0, <1>3 DEF TradingAuthenticated, Passes, AfterAuth, env
  <1>4. CASE Listening
    BY <1>0, <1>4 DEF Listening, Passes, env
  <1>5. CASE TradingRejected
    BY <1>0, <1>5 DEF TradingRejected, env
  <1>6. CASE TradingDrops
    BY <1>0, <1>6 DEF TradingDrops, Working, env
  <1>7. CASE NotAuthenticated
    BY <1>0, <1>7 DEF NotAuthenticated, ToFailed, FailedEntries, Close, env
  <1>8. ASSUME NEW q \in OrderSubs, ArmOrder(q) PROVE CountsOK'
    BY <1>0, <1>8 DEF ArmOrder, registerOrderFilledSub, AfterAuth, Working, env
  <1>9. ASSUME NEW q \in OrderSubs, OrderAnswered(q) PROVE CountsOK'
    BY <1>0, <1>9 DEF OrderAnswered, orderConnection, env
  <1>10. ASSUME NEW q \in OrderSubs, ArmReturns(q) PROVE CountsOK'
    BY <1>0, <1>10 DEF ArmReturns, Claim, SeedWakes, IdleTask, orderConnection, env
  <1>11. ASSUME NEW q \in OrderSubs, GetOrderFails(q) PROVE CountsOK'
    BY <1>0, <1>11 DEF GetOrderFails, ToFailed, FailedEntries, IdleTask, Unregister, Keeps,
      Close, orderConnection, env
  <1>12. ASSUME NEW q \in OrderSubs, OrderDelivered(q) PROVE CountsOK'
    BY <1>0, <1>12 DEF OrderDelivered, Unregister, Keeps, Close, orderConnection, env
  <1>13. ASSUME NEW q \in OrderSubs, OrderExpires(q) PROVE CountsOK'
    BY <1>0, <1>13 DEF OrderExpires, Unregister, Keeps, Close, orderConnection, env
  <1>14. CASE UNCHANGED orderVars
    BY <1>0, <1>14 DEF orderVars, orderConnection, env
  <1> QED
    BY <1>1, <1>2, <1>3, <1>4, <1>5, <1>6, <1>7, <1>8, <1>9, <1>10, <1>11, <1>12, <1>13, <1>14
    DEF OrderNext

(* News of an end is only of an order that has ended. *)
LEMMA NewsStep ==
  ASSUME AlpacaOrderStreamAssumption, OrderInv, [OrderNext]_orderVars
  PROVE  NewsIsTrue'
  <1>0. NewsIsTrue /\ OrdersOK /\ TasksOK /\ OrderOf \in [OrderSubs -> Orders]
    BY OrderTypeParts DEF OrderInv, AlpacaOrderStreamAssumption
  <1> USE DEF NewsIsTrue, OrdersOK, TasksOK
  <1>1. ASSUME NEW o \in Orders, OrderEnds(o) PROVE NewsIsTrue'
    BY <1>0, <1>1 DEF OrderEnds, env
  <1>2. ASSUME NEW o \in Orders, handleTradeUpdate(o) PROVE NewsIsTrue'
    BY <1>0, <1>2 DEF handleTradeUpdate, Claim, subscriptionsForOrderUpdate, env
  <1>3. CASE TradingAuthenticated
    BY <1>0, <1>3 DEF TradingAuthenticated, Passes, AfterAuth, env
  <1>4. CASE Listening
    BY <1>0, <1>4 DEF Listening, Passes, env
  <1>5. CASE TradingRejected
    BY <1>0, <1>5 DEF TradingRejected, env
  <1>6. CASE TradingDrops
    BY <1>0, <1>6 DEF TradingDrops, Working, env
  <1>7. CASE NotAuthenticated
    BY <1>0, <1>7 DEF NotAuthenticated, ToFailed, FailedEntries, Close, env
  <1>8. ASSUME NEW q \in OrderSubs, ArmOrder(q) PROVE NewsIsTrue'
    BY <1>0, <1>8 DEF ArmOrder, registerOrderFilledSub, AfterAuth, Working, env
  <1>9. ASSUME NEW q \in OrderSubs, OrderAnswered(q) PROVE NewsIsTrue'
    BY <1>0, <1>9 DEF OrderAnswered, orderConnection, env
  <1>10. ASSUME NEW q \in OrderSubs, ArmReturns(q) PROVE NewsIsTrue'
    BY <1>0, <1>10 DEF ArmReturns, Claim, SeedWakes, IdleTask, orderConnection, env
  <1>11. ASSUME NEW q \in OrderSubs, GetOrderFails(q) PROVE NewsIsTrue'
    BY <1>0, <1>11 DEF GetOrderFails, ToFailed, FailedEntries, IdleTask, Unregister, Keeps,
      Close, orderConnection, env
  <1>12. ASSUME NEW q \in OrderSubs, OrderDelivered(q) PROVE NewsIsTrue'
    BY <1>0, <1>12 DEF OrderDelivered, Unregister, Keeps, Close, orderConnection, env
  <1>13. ASSUME NEW q \in OrderSubs, OrderExpires(q) PROVE NewsIsTrue'
    BY <1>0, <1>13 DEF OrderExpires, Unregister, Keeps, Close, orderConnection, env
  <1>14. CASE UNCHANGED orderVars
    BY <1>0, <1>14 DEF orderVars, orderConnection, env
  <1> QED
    BY <1>1, <1>2, <1>3, <1>4, <1>5, <1>6, <1>7, <1>8, <1>9, <1>10, <1>11, <1>12, <1>13, <1>14
    DEF OrderNext

(* No step wakes anybody for an order that is open. *)
LEMMA OrderWakeStep ==
  ASSUME AlpacaOrderStreamAssumption, OrderInv, [OrderNext]_orderVars
  PROVE  NoFalseOrderWake'
  <1>0. NoFalseOrderWake /\ NewsIsTrue /\ OrdersOK /\ TasksOK /\ OrderOf \in [OrderSubs -> Orders]
    BY OrderTypeParts DEF OrderInv, AlpacaOrderStreamAssumption
  <1> USE DEF NoFalseOrderWake, NewsIsTrue, OrdersOK, TasksOK
  <1>1. ASSUME NEW o \in Orders, OrderEnds(o) PROVE NoFalseOrderWake'
    BY <1>0, <1>1 DEF OrderEnds, env
  <1>2. ASSUME NEW o \in Orders, handleTradeUpdate(o) PROVE NoFalseOrderWake'
    BY <1>0, <1>2 DEF handleTradeUpdate, Claim, subscriptionsForOrderUpdate, env
  <1>3. CASE TradingAuthenticated
    BY <1>0, <1>3 DEF TradingAuthenticated, Passes, AfterAuth, env
  <1>4. CASE Listening
    BY <1>0, <1>4 DEF Listening, Passes, env
  <1>5. CASE TradingRejected
    BY <1>0, <1>5 DEF TradingRejected, env
  <1>6. CASE TradingDrops
    BY <1>0, <1>6 DEF TradingDrops, Working, env
  <1>7. CASE NotAuthenticated
    BY <1>0, <1>7 DEF NotAuthenticated, ToFailed, FailedEntries, Close, env
  <1>8. ASSUME NEW q \in OrderSubs, ArmOrder(q) PROVE NoFalseOrderWake'
    BY <1>0, <1>8 DEF ArmOrder, registerOrderFilledSub, AfterAuth, Working, env
  <1>9. ASSUME NEW q \in OrderSubs, OrderAnswered(q) PROVE NoFalseOrderWake'
    BY <1>0, <1>9 DEF OrderAnswered, orderConnection, env
  <1>10. ASSUME NEW q \in OrderSubs, ArmReturns(q) PROVE NoFalseOrderWake'
    BY <1>0, <1>10 DEF ArmReturns, Claim, SeedWakes, IdleTask, orderConnection, env
  <1>11. ASSUME NEW q \in OrderSubs, GetOrderFails(q) PROVE NoFalseOrderWake'
    BY <1>0, <1>11 DEF GetOrderFails, ToFailed, FailedEntries, IdleTask, Unregister, Keeps,
      Close, orderConnection, env
  <1>12. ASSUME NEW q \in OrderSubs, OrderDelivered(q) PROVE NoFalseOrderWake'
    BY <1>0, <1>12 DEF OrderDelivered, Unregister, Keeps, Close, orderConnection, env
  <1>13. ASSUME NEW q \in OrderSubs, OrderExpires(q) PROVE NoFalseOrderWake'
    BY <1>0, <1>13 DEF OrderExpires, Unregister, Keeps, Close, orderConnection, env
  <1>14. CASE UNCHANGED orderVars
    BY <1>0, <1>14 DEF orderVars, orderConnection, env
  <1> QED
    BY <1>1, <1>2, <1>3, <1>4, <1>5, <1>6, <1>7, <1>8, <1>9, <1>10, <1>11, <1>12, <1>13, <1>14
    DEF OrderNext

(* Whoever has ended leaves the table. *)
LEMMA EntryStep ==
  ASSUME AlpacaOrderStreamAssumption, OrderInv, [OrderNext]_orderVars
  PROVE  NoEntryLeft'
  <1>0. NoEntryLeft /\ OrdersOK
    BY OrderTypeParts DEF OrderInv, AlpacaOrderStreamAssumption
  <1> USE DEF NoEntryLeft, OrdersOK
  <1>1. ASSUME NEW o \in Orders, OrderEnds(o) PROVE NoEntryLeft'
    BY <1>0, <1>1 DEF OrderEnds, env
  <1>2. ASSUME NEW o \in Orders, handleTradeUpdate(o) PROVE NoEntryLeft'
    BY <1>0, <1>2 DEF handleTradeUpdate, Claim, subscriptionsForOrderUpdate, env
  <1>3. CASE TradingAuthenticated
    BY <1>0, <1>3 DEF TradingAuthenticated, Passes, AfterAuth, env
  <1>4. CASE Listening
    BY <1>0, <1>4 DEF Listening, Passes, env
  <1>5. CASE TradingRejected
    BY <1>0, <1>5 DEF TradingRejected, env
  <1>6. CASE TradingDrops
    BY <1>0, <1>6 DEF TradingDrops, Working, env
  <1>7. CASE NotAuthenticated
    BY <1>0, <1>7 DEF NotAuthenticated, ToFailed, FailedEntries, Close, env
  <1>8. ASSUME NEW q \in OrderSubs, ArmOrder(q) PROVE NoEntryLeft'
    BY <1>0, <1>8 DEF ArmOrder, registerOrderFilledSub, AfterAuth, Working, env
  <1>9. ASSUME NEW q \in OrderSubs, OrderAnswered(q) PROVE NoEntryLeft'
    BY <1>0, <1>9 DEF OrderAnswered, orderConnection, env
  <1>10. ASSUME NEW q \in OrderSubs, ArmReturns(q) PROVE NoEntryLeft'
    BY <1>0, <1>10 DEF ArmReturns, Claim, SeedWakes, IdleTask, orderConnection, env
  <1>11. ASSUME NEW q \in OrderSubs, GetOrderFails(q) PROVE NoEntryLeft'
    BY <1>0, <1>11 DEF GetOrderFails, ToFailed, FailedEntries, IdleTask, Unregister, Keeps,
      Close, orderConnection, env
  <1>12. ASSUME NEW q \in OrderSubs, OrderDelivered(q) PROVE NoEntryLeft'
    BY <1>0, <1>12 DEF OrderDelivered, Unregister, Keeps, Close, orderConnection, env
  <1>13. ASSUME NEW q \in OrderSubs, OrderExpires(q) PROVE NoEntryLeft'
    BY <1>0, <1>13 DEF OrderExpires, Unregister, Keeps, Close, orderConnection, env
  <1>14. CASE UNCHANGED orderVars
    BY <1>0, <1>14 DEF orderVars, orderConnection, env
  <1> QED
    BY <1>1, <1>2, <1>3, <1>4, <1>5, <1>6, <1>7, <1>8, <1>9, <1>10, <1>11, <1>12, <1>13, <1>14
    DEF OrderNext

(* Before the first authentication everyone in the table waits for it. *)
LEMMA WaitStep ==
  ASSUME AlpacaOrderStreamAssumption, OrderInv, [OrderNext]_orderVars
  PROVE  AllWaitForAuth'
  <1>0. AllWaitForAuth /\ (~ Reauth => StreamWhileRouted) /\ OrdersOK /\ TasksOK
    BY OrderTypeParts DEF OrderInv, AlpacaOrderStreamAssumption
  <1> USE DEF AllWaitForAuth, StreamWhileRouted, OrdersOK, TasksOK
  <1>1. ASSUME NEW o \in Orders, OrderEnds(o) PROVE AllWaitForAuth'
    BY <1>0, <1>1 DEF OrderEnds, env
  <1>2. ASSUME NEW o \in Orders, handleTradeUpdate(o) PROVE AllWaitForAuth'
    BY <1>0, <1>2 DEF handleTradeUpdate, Claim, subscriptionsForOrderUpdate, env
  <1>3. CASE TradingAuthenticated
    BY <1>0, <1>3 DEF TradingAuthenticated, Passes, AfterAuth, env
  <1>4. CASE Listening
    BY <1>0, <1>4 DEF Listening, Passes, env
  <1>5. CASE TradingRejected
    BY <1>0, <1>5 DEF TradingRejected, env
  <1>6. CASE TradingDrops
    BY <1>0, <1>6 DEF TradingDrops, Working, env
  <1>7. CASE NotAuthenticated
    BY <1>0, <1>7 DEF NotAuthenticated, ToFailed, FailedEntries, Close, env
  <1>8. ASSUME NEW q \in OrderSubs, ArmOrder(q) PROVE AllWaitForAuth'
    BY <1>0, <1>8 DEF ArmOrder, registerOrderFilledSub, AfterAuth, Working, env
  <1>9. ASSUME NEW q \in OrderSubs, OrderAnswered(q) PROVE AllWaitForAuth'
    BY <1>0, <1>9 DEF OrderAnswered, orderConnection, env
  <1>10. ASSUME NEW q \in OrderSubs, ArmReturns(q) PROVE AllWaitForAuth'
    BY <1>0, <1>10 DEF ArmReturns, Claim, SeedWakes, IdleTask, orderConnection, env
  <1>11. ASSUME NEW q \in OrderSubs, GetOrderFails(q) PROVE AllWaitForAuth'
    BY <1>0, <1>11 DEF GetOrderFails, ToFailed, FailedEntries, IdleTask, Unregister, Keeps,
      Close, orderConnection, env
  <1>12. ASSUME NEW q \in OrderSubs, OrderDelivered(q) PROVE AllWaitForAuth'
    BY <1>0, <1>12 DEF OrderDelivered, Unregister, Keeps, Close, orderConnection, env
  <1>13. ASSUME NEW q \in OrderSubs, OrderExpires(q) PROVE AllWaitForAuth'
    BY <1>0, <1>13 DEF OrderExpires, Unregister, Keeps, Close, orderConnection, env
  <1>14. CASE UNCHANGED orderVars
    BY <1>0, <1>14 DEF orderVars, orderConnection, env
  <1> QED
    BY <1>1, <1>2, <1>3, <1>4, <1>5, <1>6, <1>7, <1>8, <1>9, <1>10, <1>11, <1>12, <1>13, <1>14
    DEF OrderNext

(* The stream goes with the last entry of the table. *)
LEMMA RoutedStep ==
  ASSUME AlpacaOrderStreamAssumption, OrderInv, [OrderNext]_orderVars
  PROVE  (~ Reauth => StreamWhileRouted')
  <1>0. AllWaitForAuth /\ (~ Reauth => StreamWhileRouted) /\ OrdersOK /\ TasksOK
    BY OrderTypeParts DEF OrderInv, AlpacaOrderStreamAssumption
  <1> USE DEF AllWaitForAuth, StreamWhileRouted, OrdersOK, TasksOK
  <1>1. ASSUME NEW o \in Orders, OrderEnds(o) PROVE (~ Reauth => StreamWhileRouted')
    BY <1>0, <1>1 DEF OrderEnds, env
  <1>2. ASSUME NEW o \in Orders, handleTradeUpdate(o) PROVE (~ Reauth => StreamWhileRouted')
    BY <1>0, <1>2 DEF handleTradeUpdate, Claim, subscriptionsForOrderUpdate, env
  <1>3. CASE TradingAuthenticated
    BY <1>0, <1>3 DEF TradingAuthenticated, Passes, AfterAuth, env
  <1>4. CASE Listening
    BY <1>0, <1>4 DEF Listening, Passes, env
  <1>5. CASE TradingRejected
    BY <1>0, <1>5 DEF TradingRejected, env
  <1>6. CASE TradingDrops
    BY <1>0, <1>6 DEF TradingDrops, Working, env
  <1>7. CASE NotAuthenticated
    BY <1>0, <1>7 DEF NotAuthenticated, ToFailed, FailedEntries, Close, env
  <1>8. ASSUME NEW q \in OrderSubs, ArmOrder(q) PROVE (~ Reauth => StreamWhileRouted')
    BY <1>0, <1>8 DEF ArmOrder, registerOrderFilledSub, AfterAuth, Working, env
  <1>9. ASSUME NEW q \in OrderSubs, OrderAnswered(q) PROVE (~ Reauth => StreamWhileRouted')
    BY <1>0, <1>9 DEF OrderAnswered, orderConnection, env
  <1>10. ASSUME NEW q \in OrderSubs, ArmReturns(q) PROVE (~ Reauth => StreamWhileRouted')
    BY <1>0, <1>10 DEF ArmReturns, Claim, SeedWakes, IdleTask, orderConnection, env
  <1>11. ASSUME NEW q \in OrderSubs, GetOrderFails(q) PROVE (~ Reauth => StreamWhileRouted')
    BY <1>0, <1>11 DEF GetOrderFails, ToFailed, FailedEntries, IdleTask, Unregister, Keeps,
      Close, orderConnection, env
  <1>12. ASSUME NEW q \in OrderSubs, OrderDelivered(q) PROVE (~ Reauth => StreamWhileRouted')
    BY <1>0, <1>12 DEF OrderDelivered, Unregister, Keeps, Close, orderConnection, env
  <1>13. ASSUME NEW q \in OrderSubs, OrderExpires(q) PROVE (~ Reauth => StreamWhileRouted')
    BY <1>0, <1>13 DEF OrderExpires, Unregister, Keeps, Close, orderConnection, env
  <1>14. CASE UNCHANGED orderVars
    BY <1>0, <1>14 DEF orderVars, orderConnection, env
  <1> QED
    BY <1>1, <1>2, <1>3, <1>4, <1>5, <1>6, <1>7, <1>8, <1>9, <1>10, <1>11, <1>12, <1>13, <1>14
    DEF OrderNext

(* The acknowledgement has come or not. *)
LEMMA AckedStep ==
  ASSUME OrderInv, [OrderNext]_orderVars
  PROVE  acked' \in BOOLEAN
  <1>1. acked \in BOOLEAN
    BY OrderTypeParts DEF OrderInv
  <1>2. acked' \in {TRUE, FALSE} \/ UNCHANGED acked
    BY DEF OrderNext, orderVars, orderConnection, OrderEnds, handleTradeUpdate,
      TradingAuthenticated, Listening, TradingRejected, TradingDrops, NotAuthenticated, ArmOrder,
      OrderAnswered, ArmReturns, GetOrderFails, OrderDelivered, OrderExpires, Unregister, Close
  <1> QED
    BY <1>1, <1>2

(* The orders begin in the invariant and every step keeps it. *)
LEMMA OrderStart ==
  ASSUME AlpacaOrderStreamAssumption, OrderInit
  PROVE  OrderInv
  <1>1. OrdersOK /\ TasksOK /\ CountsOK
    BY DEF AlpacaOrderStreamAssumption, OrderInit, OrdersOK, TasksOK, CountsOK
  <1>2. acked \in BOOLEAN
    BY DEF OrderInit
  <1> QED
    BY <1>1, OrderTypeParts
    DEF OrderInit, OrderInv, NoFalseOrderWake, NewsIsTrue, NoEntryLeft, AllWaitForAuth,
      StreamWhileRouted

(* Every step of the order stream keeps its invariant. *)
LEMMA OrderStep ==
  ASSUME AlpacaOrderStreamAssumption, OrderInv, [OrderNext]_orderVars
  PROVE  OrderInv'
  <1>1. OrdersOK' /\ TasksOK' /\ CountsOK' /\ acked' \in BOOLEAN
    BY OrdersStep, TasksStep, CountsStep, AckedStep
  <1>2. OrderTypeOK'
    BY <1>1 DEF OrderTypeOK, OrdersOK, TasksOK, CountsOK
  <1> QED
    BY <1>2, NewsStep, OrderWakeStep, EntryStep, WaitStep, RoutedStep DEF OrderInv
================================================================================
