-------------------------- MODULE Observatory_proofs --------------------------
(***************************************************************************)
(* Proofs about what the observatory's pages depend on, for every number   *)
(* of writers and viewers, page and history size, time to live and ladder  *)
(* of delays: the poll loop and the transcript's page that is one, the     *)
(* read cache, and the event feed with the window that its page keeps.     *)
(***************************************************************************)
EXTENDS MCObservatory, SequenceTheorems, WellFoundedInduction, TLAPS

-----------------------------------------------------------------------------
(* The loop by itself *)

LEMMA LoopStarts == LoopInit => LoopInv
  BY DEF LoopInit, LoopInv, LoopCounts, OneChain, HiddenIsQuiet, VisibleIsAlive

LEMMA LoopStep == LoopInv /\ [LoopNext]_loop => LoopInv'
  <1> SUFFICES ASSUME LoopInv, [LoopNext]_loop PROVE LoopInv'
    OBVIOUS
  <1> USE DEF LoopInv, LoopCounts, OneChain, HiddenIsQuiet, VisibleIsAlive
  <1>1. CASE TimerFires
    <2>1. timers = 1 /\ runs = 0 /\ ~ hidden /\ ~ stopped /\ ~ inFlight
      BY <1>1 DEF TimerFires
    <2>2. MayRun(hidden)
      BY <2>1 DEF MayRun
    <2> QED
      BY <1>1, <2>1, <2>2 DEF TimerFires, Tick
  <1>2. CASE Flip
    <2>1. CASE listening
      <3>1. timers' = 0 /\ pending' = FALSE /\ hidden' = ~ hidden /\ UNCHANGED <<stopped, listening>>
        BY <1>2, <2>1 DEF Flip, TimersWithout
      <3>2. CASE hidden /\ ~ inFlight
        <4>1. inFlight' = TRUE /\ runs' = 1
          BY <1>2, <2>1, <3>2 DEF Flip, Tick, MayRun
        <4> QED
          BY <2>1, <3>1, <3>2, <4>1
      <3>3. CASE ~ (hidden /\ ~ inFlight)
        <4>1. UNCHANGED <<inFlight, runs>>
          BY <1>2, <2>1, <3>3 DEF Flip, Tick, MayRun
        <4>2. CASE hidden
          BY <2>1, <3>1, <3>3, <4>1, <4>2
        <4>3. CASE ~ hidden
          <5>1. hidden'
            BY <3>1, <4>3
          <5> QED
            BY <2>1, <3>1, <4>1, <5>1
        <4> QED
          BY <4>2, <4>3
      <3> QED
        BY <3>2, <3>3
    <2>2. CASE ~ listening
      BY <1>2, <2>2 DEF Flip
    <2> QED
      BY <2>1, <2>2
  <1>3. CASE Stop
    BY <1>3 DEF Stop, retire, TimersWithout
  <1>4. ASSUME NEW isOver \in BOOLEAN, RunEnds(isOver)
        PROVE  LoopInv'
    <2>1. runs = 1 /\ timers = 0 /\ ~ pending /\ runs' = 0 /\ inFlight' = FALSE /\ hidden' = hidden
      BY <1>4 DEF RunEnds
    <2>2. CASE isOver
      BY <1>4, <2>1, <2>2 DEF RunEnds, retire, TimersWithout
    <2>3. CASE ~ isOver /\ MaySchedule
      BY <1>4, <2>1, <2>3 DEF RunEnds, MaySchedule
    <2>4. CASE ~ isOver /\ ~ MaySchedule
      BY <1>4, <2>1, <2>4 DEF RunEnds, MaySchedule
    <2> QED
      BY <2>2, <2>3, <2>4
  <1>5. CASE UNCHANGED loop
    BY <1>5 DEF loop
  <1> QED
    BY <1>1, <1>2, <1>3, <1>4, <1>5 DEF LoopNext

(* A retired loop has neither a timer to fire nor a flip to hear, and the   *)
(* run that was under way schedules nothing when it settles.                *)
LEMMA RetiredStep == LoopInv /\ [LoopNext]_loop =>
  (stopped => stopped' /\ runs' <= runs /\ timers' <= timers)
  <1> SUFFICES ASSUME LoopInv, [LoopNext]_loop, stopped
               PROVE  stopped' /\ runs' <= runs /\ timers' <= timers
    OBVIOUS
  <1> USE DEF LoopInv, LoopCounts
  <1>1. timers = 0 /\ runs \in Nat /\ ~ listening /\ ~ pending
    OBVIOUS
  <1>2. ASSUME NEW isOver \in BOOLEAN, RunEnds(isOver)
        PROVE  stopped' /\ runs' <= runs /\ timers' <= timers
    <2>1. runs' = runs - 1
      BY <1>2 DEF RunEnds
    <2>2. stopped' /\ timers' = timers
      BY <1>1, <1>2 DEF RunEnds, retire, TimersWithout, MaySchedule
    <2> QED
      BY <1>1, <2>1, <2>2
  <1>3. CASE Flip
    BY <1>1, <1>3 DEF Flip
  <1>4. CASE UNCHANGED loop
    BY <1>1, <1>4 DEF loop
  <1> QED
    BY <1>1, <1>2, <1>3, <1>4 DEF LoopNext, TimerFires, Stop

(* One run or timer at a time, and none scheduled in a hidden tab           *)
(* (poll-loop.ts); a visible loop that was not retired has one.             *)
THEOREM LoopIsSound == LoopSpec => [](OneChain /\ HiddenIsQuiet /\ VisibleIsAlive)
  <1>1. LoopInv => OneChain /\ HiddenIsQuiet /\ VisibleIsAlive
    BY DEF LoopInv
  <1> QED
    BY LoopStarts, LoopStep, <1>1, PTL DEF LoopSpec

(* A retired loop starts nothing any more (poll-loop.ts).                   *)
THEOREM LoopStaysRetired == LoopSpec => RetiredForGood
  <1>1. LoopInv /\ [LoopNext]_loop =>
          [stopped => stopped' /\ runs' <= runs /\ timers' <= timers]_loop
    BY RetiredStep
  <1> QED
    BY LoopStarts, LoopStep, <1>1, PTL DEF LoopSpec, RetiredForGood

-----------------------------------------------------------------------------
(* The page is such a loop *)

LEMMA PageStep == [PageNext]_pageVars => [LoopNext]_loop
  <1> SUFFICES ASSUME [PageNext]_pageVars PROVE [LoopNext]_loop
    OBVIOUS
  <1>1. CASE EventWritten
    BY <1>1 DEF EventWritten
  <1>2. CASE Wakes
    BY <1>2 DEF Wakes, LoopNext
  <1>3. CASE Flips
    BY <1>3 DEF Flips, LoopNext
  <1>4. CASE Unmount
    BY <1>4 DEF Unmount, LoopNext
  <1>5. CASE Accepted
    BY <1>5 DEF Accepted
  <1>6. ASSUME NEW upTo \in 1..written, Chunk(upTo)
        PROVE  [LoopNext]_loop
    BY <1>6 DEF Chunk
  <1>7. ASSUME NEW long \in BOOLEAN, BodyEnds(long) \/ Fails(long)
        PROVE  [LoopNext]_loop
    <2>1. RunEnds(nextDelay' = Null)
      BY <1>7 DEF BodyEnds, Fails, Ends
    <2> QED
      BY <2>1 DEF LoopNext
  <1>8. CASE UNCHANGED pageVars
    BY <1>8 DEF pageVars
  <1> QED
    BY <1>1, <1>2, <1>3, <1>4, <1>5, <1>6, <1>7, <1>8 DEF PageNext

(* The connections a run starts and ends with. *)
LEMMA ConnectionTypes ==
  /\ Asked \in Connections /\ Asked.at = "asked" /\ ~ Asked.terminal
  /\ NoConn \in Connections /\ NoConn.at = "none" /\ ~ NoConn.terminal
  <1>1. MaxEvents \in Nat
    BY ObservatoryAssumption DEF TranscriptAssumption
  <1>2. 0 \in 0..MaxEvents
    BY <1>1
  <1>3. Asked \in Connections
    BY <1>2, Zenon DEF Asked, Connections
  <1>4. Asked.at = "asked" /\ Asked.terminal = FALSE
    BY DEF Asked
  <1>5. NoConn \in Connections /\ NoConn.at = "none" /\ NoConn.terminal = Asked.terminal
    BY <1>3 DEF NoConn, Connections
  <1> QED
    BY <1>3, <1>4, <1>5

(* The attempts are counted up to the one after the last. *)
LEMMA AttemptsCounted ==
  ASSUME attempts \in 0..(MaxAttempts + 1), NEW long, NEW published
  PROVE  AttemptsAfter(long, published) \in 1..(MaxAttempts + 1)
  <1>1. MaxAttempts \in Nat
    BY ObservatoryAssumption DEF TranscriptAssumption
  <1>2. CASE StartsOver(long, published)
    BY <1>1, <1>2 DEF AttemptsAfter
  <1>3. CASE ~ StartsOver(long, published) /\ attempts > MaxAttempts
    BY <1>1, <1>3 DEF AttemptsAfter
  <1>4. CASE ~ StartsOver(long, published) /\ ~ (attempts > MaxAttempts)
    BY <1>1, <1>4 DEF AttemptsAfter
  <1> QED
    BY <1>2, <1>3, <1>4

LEMMA OneOfTwo ==
  ASSUME NEW m \in Nat, NEW n \in Nat, m + n <= 1
  PROVE  m \in {0, 1} /\ n \in {0, 1}
  OBVIOUS

LEMMA PageStarts == PageInit => PageIInv
  <1> SUFFICES ASSUME PageInit PROVE PageIInv
    OBVIOUS
  <1>p. /\ Null \notin Int /\ MaxAttempts \in Nat /\ MaxEvents \in Nat /\ MaxRetry \in Nat
    BY ObservatoryAssumption DEF TranscriptAssumption
  <1>1. LoopInv
    BY LoopStarts DEF PageInit
  <1>2. LoopTypeOK
    <2>1. LoopFlags
      BY Zenon DEF PageInit, LoopInit, LoopFlags
    <2> QED
      BY <1>1, <2>1 DEF LoopInv, LoopTypeOK
  <1>3. conn \in Connections /\ ~ conn.terminal
    BY ConnectionTypes DEF PageInit
  <1>4. conn.at = "none" <=> runs = 0
    BY ConnectionTypes DEF PageInit, LoopInit
  <1>5. over \in BOOLEAN /\ cancelled \in BOOLEAN /\ healthy \in BOOLEAN
    BY DEF PageInit
  <1>6. /\ written \in 0..MaxEvents /\ shown \in 0..MaxEvents /\ attempts = 0 /\ ~ cancelled
        /\ attempts \in 0..(MaxAttempts + 1) /\ nextDelay \in 0..MaxRetry /\ error = "none"
    BY <1>p DEF PageInit
  <1>7. nextDelay # Null
    BY <1>p, <1>6
  <1>8. PageTypeOK
    BY <1>2, <1>3, <1>4, <1>5, <1>6 DEF PageTypeOK, Connections
  <1>9. RunHasConnection /\ RetiredIsComplete /\ TricklingIsShown
    BY <1>3, <1>6, <1>7, <1>p DEF RunHasConnection, RetiredIsComplete, TricklingIsShown
  <1> QED
    BY <1>1, <1>7, <1>8, <1>9 DEF PageIInv

(* The steps of the loop keep its flags Booleans. *)
LEMMA FlagsStep == LoopFlags /\ [LoopNext]_loop => LoopFlags'
  <1> SUFFICES ASSUME LoopFlags, [LoopNext]_loop PROVE LoopFlags'
    OBVIOUS
  <1> USE DEF LoopFlags
  <1>1. CASE TimerFires
    BY <1>1 DEF TimerFires, Tick, MayRun
  <1>2. CASE Flip
    BY <1>2 DEF Flip, Tick, MayRun
  <1>3. CASE Stop
    BY <1>3 DEF Stop, retire
  <1>4. ASSUME NEW isOver \in BOOLEAN, RunEnds(isOver) PROVE LoopFlags'
    BY <1>4 DEF RunEnds, retire
  <1>5. CASE UNCHANGED loop
    BY <1>5 DEF loop
  <1> QED
    BY <1>1, <1>2, <1>3, <1>4, <1>5 DEF LoopNext

(* A delay of the ladder is a number up to its ceiling, so it does not end  *)
(* the loop.                                                                *)
LEMMA LadderIsDelay ==
  ASSUME NEW n \in 1..(MaxAttempts + 1)
  PROVE  Ladder(n) \in 0..MaxRetry /\ Ladder(n) # Null
  <1>1. MaxAttempts \in Nat /\ FirstRetry \in Nat /\ MaxRetry \in Nat /\ Null \notin Int
    BY ObservatoryAssumption DEF TranscriptAssumption
  <1>2. n - 1 \in 0..MaxAttempts
    BY <1>1
  <1>3. 2 ^ (n - 1) \in Nat
    BY <1>2, ObservatoryAssumption DEF TranscriptAssumption
  <1> DEFINE p == 2 ^ (n - 1)
  <1>4. Ladder(n) = IF FirstRetry * p < MaxRetry THEN FirstRetry * p ELSE MaxRetry
    BY DEF Ladder
  <1>5. p \in Nat
    BY <1>3
  <1> HIDE DEF p
  <1>6. FirstRetry * p \in Nat
    BY <1>1, <1>5
  <1>7. Ladder(n) \in 0..MaxRetry
    BY <1>1, <1>4, <1>6
  <1> QED
    BY <1>1, <1>7

(* A run that starts asks for a connection, and one starts only where the   *)
(* loop is not over.                                                        *)
LEMMA ConnectsStep ==
  ASSUME PageIInv, LoopNext, Connects, runs' >= runs, timers' <= timers,
         UNCHANGED <<session, page>>
  PROVE  PageIInv'
  <1>1. LoopInv /\ LoopInv' /\ LoopTypeOK'
    BY LoopStep, FlagsStep DEF PageIInv, PageTypeOK, LoopTypeOK, LoopInv
  <1>2. stopped => stopped' /\ runs' <= runs
    BY RetiredStep DEF PageIInv
  <1>3. runs \in {0, 1} /\ runs' \in {0, 1} /\ timers \in {0, 1} /\ timers' \in {0, 1}
    <2>1. /\ runs \in Nat /\ timers \in Nat /\ runs + timers <= 1
          /\ runs' \in Nat /\ timers' \in Nat /\ runs' + timers' <= 1
      BY <1>1 DEF LoopInv, LoopCounts, OneChain
    <2> QED
      BY <2>1, OneOfTwo
  <1>4. /\ UNCHANGED <<written, over, attempts, nextDelay, shown, error, cancelled, healthy>>
        /\ conn \in Connections /\ (conn.at = "none" <=> runs = 0)
    BY DEF session, page, PageIInv, PageTypeOK, Connections
  <1>5. MaxEvents \in Nat
    BY ObservatoryAssumption DEF TranscriptAssumption
  <1>6. CASE runs' > runs
    <2>1. conn' = Asked
      BY <1>6 DEF Connects
    <2>2. conn' \in Connections /\ conn'.at = "asked" /\ ~ conn'.terminal
      BY <2>1, ConnectionTypes
    <2>3. ~ stopped /\ runs' = 1 /\ nextDelay # Null
      BY <1>2, <1>3, <1>6 DEF PageIInv, RetiredIsComplete
    <2>4. PageTypeOK'
      <3>1. conn'.at = "none" <=> runs' = 0
        BY <2>2, <2>3
      <3> QED
        BY <1>1, <1>4, <2>2, <3>1 DEF PageIInv, PageTypeOK
    <2>5. RunHasConnection'
      BY <1>4, <2>2, <2>3 DEF PageIInv, RunHasConnection
    <2>6. RetiredIsComplete' /\ TricklingIsShown'
      BY <1>4, <2>3 DEF RetiredIsComplete, TricklingIsShown
    <2> QED
      BY <1>1, <1>4, <2>3, <2>4, <2>5, <2>6 DEF PageIInv
  <1>7. CASE ~ (runs' > runs)
    <2>1. conn' = conn /\ runs' = runs
      BY <1>3, <1>7 DEF Connects
    <2>2. PageTypeOK'
      BY <1>1, <1>4, <2>1 DEF PageIInv, PageTypeOK, Connections
    <2>3. RunHasConnection' /\ RetiredIsComplete'
      BY <1>2, <1>4, <2>1 DEF PageIInv, RunHasConnection, RetiredIsComplete
    <2>4. timers' = 1 => timers = 1
      BY <1>3
    <2>5. TricklingIsShown'
      BY <1>4, <2>1, <2>4 DEF PageIInv, TricklingIsShown
    <2> QED
      BY <1>1, <1>4, <2>1, <2>2, <2>3, <2>5 DEF PageIInv
  <1> QED
    BY <1>6, <1>7

(* A connection that ends, and the run with it. *)
LEMMA EndStep ==
  ASSUME PageIInv, NEW kind, NEW long \in BOOLEAN, Ends(kind, long), kind \in {"closed", "failed"}
  PROVE  PageIInv'
  <1>p. MaxAttempts \in Nat /\ MaxEvents \in Nat
    BY ObservatoryAssumption DEF TranscriptAssumption
  <1>1. RunEnds(nextDelay' = Null)
    BY DEF Ends
  <1>2. LoopInv /\ LoopInv' /\ LoopTypeOK'
    BY <1>1, LoopStep, FlagsStep DEF PageIInv, PageTypeOK, LoopTypeOK, LoopInv, LoopNext
  <1>3. /\ conn \in Connections /\ conn.at # "none" /\ (conn.at = "none" <=> runs = 0)
        /\ written \in 0..MaxEvents /\ over \in BOOLEAN /\ shown \in 0..MaxEvents
        /\ attempts \in 0..(MaxAttempts + 1) /\ nextDelay \in (0..MaxRetry) \cup {Null}
        /\ error \in {"none", "failed", "still retrying"}
        /\ cancelled \in BOOLEAN /\ healthy \in BOOLEAN
    BY DEF PageIInv, PageTypeOK, Ends, Connections
  <1>4. runs = 1 /\ runs' = 0 /\ nextDelay # Null
    <2>1. runs \in Nat /\ timers \in Nat /\ runs + timers <= 1 /\ runs # 0
      BY <1>2, <1>3 DEF LoopInv, LoopCounts, OneChain
    <2>2. runs = 1
      BY <2>1
    <2> QED
      BY <1>1, <2>2 DEF PageIInv, RunEnds
  <1>5. /\ conn' = NoConn /\ UNCHANGED <<written, over, shown, cancelled>>
    BY DEF Ends, session
  <1>6. conn' \in Connections /\ conn'.at = "none" /\ ~ conn'.terminal
    BY <1>5, ConnectionTypes
  <1>7. stopped => stopped'
    BY <1>1, RetiredStep DEF PageIInv, LoopNext
  <1>8. RunHasConnection'
    BY <1>5, <1>6, <1>7 DEF PageIInv, RunHasConnection
  <1>9. ASSUME attempts' \in 0..(MaxAttempts + 1), nextDelay' \in (0..MaxRetry) \cup {Null},
               error' \in {"none", "failed", "still retrying"}, healthy' \in BOOLEAN
        PROVE  PageTypeOK'
    BY <1>2, <1>3, <1>4, <1>5, <1>6, <1>9 DEF PageTypeOK, Connections
  <1>10. CASE cancelled
    <2>1. UNCHANGED <<attempts, nextDelay, error, healthy>>
      BY <1>10 DEF Ends
    <2>2. stopped' /\ nextDelay' # Null
      BY <1>4, <1>7, <1>10, <2>1 DEF PageIInv, RunHasConnection
    <2>3. timers' = 0
      BY <1>2, <2>2 DEF LoopInv
    <2> QED
      <3>1. PageTypeOK'
        BY <1>3, <1>9, <2>1
      <3>2. RetiredIsComplete' /\ TricklingIsShown'
        BY <2>2, <2>3 DEF RetiredIsComplete, TricklingIsShown
      <3> QED
        BY <1>2, <1>8, <2>2, <3>1, <3>2 DEF PageIInv
  <1>11. CASE ~ cancelled /\ conn.terminal
    <2>1. nextDelay' = Null /\ UNCHANGED <<attempts, error, healthy>>
      BY <1>11 DEF Ends, KindOfEnd
    <2>2. over /\ shown = written /\ error = "none"
      BY <1>3, <1>11 DEF PageIInv, RunHasConnection
    <2>3. stopped' /\ timers' = 0
      BY <1>1, <1>2, <2>1 DEF RunEnds, retire, LoopInv
    <2> QED
      BY <1>2, <1>3, <1>4, <1>5, <1>8, <1>9, <2>1, <2>2, <2>3
         DEF PageIInv, RetiredIsComplete, TricklingIsShown
  <1>12. CASE ~ cancelled /\ ~ conn.terminal
    <2>1. PICK n : /\ n = AttemptsAfter(long, conn.published)
                   /\ attempts' = n /\ nextDelay' = Ladder(n)
                   /\ error' = ErrorAfter(kind, n) /\ healthy' = (long /\ conn.published)
      BY <1>3, <1>12 DEF Ends, KindOfEnd, DelayAfter
    <2>2. n \in 1..(MaxAttempts + 1)
      BY <1>3, <2>1, AttemptsCounted
    <2>3. nextDelay' \in 0..MaxRetry /\ nextDelay' # Null
      BY <2>1, <2>2, LadderIsDelay
    <2>4. n > MaxAttempts => error' = "still retrying"
      BY <2>1 DEF ErrorAfter, exhausted
    <2>5. error' \in {"none", "failed", "still retrying"}
      BY <1>3, <2>1 DEF ErrorAfter
    <2>6. healthy' \in BOOLEAN
      BY <1>3, <2>1, Zenon DEF Connections
    <2>7. PageTypeOK'
      <3>1. attempts' \in 0..(MaxAttempts + 1)
        BY <1>p, <2>1, <2>2
      <3> QED
        BY <1>9, <2>3, <2>5, <2>6, <3>1
    <2> QED
      BY <1>2, <1>8, <2>1, <2>3, <2>4, <2>7 DEF PageIInv, RetiredIsComplete, TricklingIsShown
  <1> QED
    BY <1>3, <1>10, <1>11, <1>12 DEF Connections

LEMMA PageInvStep == PageIInv /\ [PageNext]_pageVars => PageIInv'
  <1> SUFFICES ASSUME PageIInv, [PageNext]_pageVars PROVE PageIInv'
    OBVIOUS
  <1>p. MaxEvents \in Nat
    BY ObservatoryAssumption DEF TranscriptAssumption
  <1>l. LoopInv' /\ LoopTypeOK'
    BY PageStep, LoopStep, FlagsStep DEF PageIInv, PageTypeOK, LoopTypeOK, LoopInv
  <1>t. /\ conn \in Connections /\ (conn.at = "none" <=> runs = 0)
        /\ written \in 0..MaxEvents /\ over \in BOOLEAN /\ shown \in 0..MaxEvents
    BY DEF PageIInv, PageTypeOK, Connections
  <1>1. CASE EventWritten
    <2>1. /\ ~ over /\ written' \in 0..MaxEvents /\ over' \in BOOLEAN
          /\ UNCHANGED <<stopped, inFlight, pending, timers, runs, listening, hidden, conn,
                         attempts, nextDelay, shown, error, cancelled, healthy>>
      BY <1>1, <1>p, <1>t DEF EventWritten, loop, page
    <2>2. nextDelay # Null /\ ~ (conn.terminal /\ conn.at # "none")
      BY <2>1 DEF PageIInv, RetiredIsComplete, RunHasConnection
    <2>3. PageTypeOK'
      BY <1>l, <2>1 DEF PageIInv, PageTypeOK
    <2>4. RunHasConnection'
      BY <2>1, <2>2 DEF PageIInv, RunHasConnection
    <2> QED
      BY <1>l, <2>1, <2>2, <2>3, <2>4 DEF PageIInv, RetiredIsComplete, TricklingIsShown
  <1>2. CASE Wakes
    <2>1. LoopNext /\ Connects /\ UNCHANGED <<session, page>>
      BY <1>2 DEF Wakes, LoopNext
    <2>2. runs' >= runs /\ timers' <= timers
      BY <1>2 DEF Wakes, TimerFires, Tick, PageIInv, LoopInv, LoopCounts
    <2> QED
      BY <2>1, <2>2, ConnectsStep
  <1>3. CASE Flips
    <2>1. LoopNext /\ Connects /\ UNCHANGED <<session, page>>
      BY <1>3 DEF Flips, LoopNext
    <2>2. runs' >= runs /\ timers' <= timers
      BY <1>3 DEF Flips, Flip, Tick, TimersWithout, PageIInv, LoopInv, LoopCounts
    <2> QED
      BY <2>1, <2>2, ConnectsStep
  <1>4. CASE Unmount
    <2>1. /\ stopped' /\ cancelled' = TRUE
          /\ UNCHANGED <<runs, written, over, conn, attempts, nextDelay, shown, error, healthy>>
      BY <1>4 DEF Unmount, Stop, retire, session
    <2>2. timers' = 0
      BY <1>l, <2>1 DEF LoopInv
    <2>3. PageTypeOK'
      BY <1>l, <2>1 DEF PageIInv, PageTypeOK
    <2>4. RunHasConnection'
      BY <2>1 DEF PageIInv, RunHasConnection
    <2>5. RetiredIsComplete'
      BY <2>1 DEF PageIInv, RetiredIsComplete
    <2>6. TricklingIsShown'
      <3>1. ~ (timers' = 1)
        BY <2>2
      <3> QED
        BY <3>1, Zenon DEF TricklingIsShown
    <2> QED
      BY <1>l, <2>1, <2>3, <2>4, <2>5, <2>6 DEF PageIInv
  <1>5. CASE Accepted
    <2>1. /\ conn.at = "asked" /\ conn' = [conn EXCEPT !.at = "reading"]
          /\ UNCHANGED <<stopped, inFlight, pending, timers, runs, listening, hidden, written, over,
                         attempts, nextDelay, shown, error, cancelled, healthy>>
      BY <1>5 DEF Accepted, loop, session, page
    <2>2. /\ conn' \in Connections /\ conn'.at = "reading"
          /\ conn'.terminal = conn.terminal /\ conn'.read = conn.read
      BY <1>t, <2>1 DEF Connections
    <2>3. PageTypeOK'
      BY <1>l, <2>1, <2>2 DEF PageIInv, PageTypeOK, Connections
    <2>4. RunHasConnection' /\ RetiredIsComplete' /\ TricklingIsShown'
      BY <2>1, <2>2 DEF PageIInv, RunHasConnection, RetiredIsComplete, TricklingIsShown
    <2> QED
      BY <1>l, <2>1, <2>3, <2>4 DEF PageIInv
  <1>6. ASSUME NEW upTo \in 1..written, Chunk(upTo) PROVE PageIInv'
    <2>1. /\ conn.at = "reading" /\ upTo > conn.read /\ upTo \in 0..MaxEvents
          /\ UNCHANGED <<stopped, inFlight, pending, timers, runs, listening, hidden, written, over,
                         attempts, nextDelay, cancelled, healthy>>
      BY <1>6, <1>p, <1>t DEF Chunk, loop, session
    <2>2. ~ conn.terminal
      BY <1>t, <2>1 DEF PageIInv, RunHasConnection, Connections
    <2>3. /\ conn'.at = "reading" /\ conn'.read = upTo /\ conn'.published = TRUE
          /\ conn' = [conn EXCEPT !.read = upTo, !.published = TRUE, !.terminal = conn'.terminal]
          /\ conn'.terminal = (conn.terminal \/ isTerminalStreamEvent(upTo))
      BY <1>6, <1>t, <2>1 DEF Chunk, Connections
    <2>4. conn'.terminal \in BOOLEAN
      BY <2>3, Zenon
    <2>5. conn' \in Connections
      BY <1>t, <2>1, <2>3, <2>4 DEF Connections
    <2>6. conn'.terminal => over /\ upTo = written
      BY <2>2, <2>3 DEF isTerminalStreamEvent
    <2>7. IF cancelled THEN UNCHANGED <<shown, error>> ELSE shown' = upTo /\ error' = "none"
      BY <1>6 DEF Chunk
    <2>8. runs # 0 /\ nextDelay # Null
      BY <1>t, <2>1 DEF PageIInv
    <2>9. PageTypeOK'
      BY <1>l, <2>1, <2>3, <2>5, <2>7, <2>8 DEF PageIInv, PageTypeOK, Connections
    <2>10. RunHasConnection' /\ RetiredIsComplete' /\ TricklingIsShown'
      BY <2>1, <2>3, <2>6, <2>7, <2>8 DEF PageIInv, RunHasConnection, RetiredIsComplete, TricklingIsShown
    <2> QED
      BY <1>l, <2>1, <2>8, <2>9, <2>10 DEF PageIInv
  <1>7. ASSUME NEW long \in BOOLEAN, BodyEnds(long) \/ Fails(long) PROVE PageIInv'
    BY <1>7, EndStep DEF BodyEnds, Fails
  <1>8. CASE UNCHANGED pageVars
    BY <1>8, <1>l DEF pageVars, session, page, loop, PageIInv, PageTypeOK,
       RunHasConnection, RetiredIsComplete, TricklingIsShown
  <1> QED
    BY <1>1, <1>2, <1>3, <1>4, <1>5, <1>6, <1>7, <1>8 DEF PageNext

(* Every behaviour of the page is one of the loop, whatever the session,    *)
(* the connections and the reconnect policy do                              *)
(* (use-session-transcript.ts, startPollLoop).                              *)
THEOREM PageImplementsLoop == PageSpec => LoopSpec
  <1>1. PageInit => LoopInit
    BY DEF PageInit
  <1> QED
    BY <1>1, PageStep, PTL DEF PageSpec, LoopSpec

LEMMA PageInvHolds == PageSpec => []PageIInv
  BY PageStarts, PageInvStep, PTL DEF PageSpec

(* One chain of runs, alive exactly while the page is visible; retired only *)
(* on a complete transcript, and honest about a ladder it has exhausted     *)
(* (poll-loop.ts, use-session-transcript.ts).                               *)
THEOREM TranscriptIsSound == PageSpec => []LoopMatchesPage
  <1>1. PageIInv => LoopMatchesPage
    BY DEF PageIInv, LoopInv, LoopMatchesPage
  <1> QED
    BY PageInvHolds, <1>1, PTL

-----------------------------------------------------------------------------
(* The read cache *)

LEMMA CacheParameters == ReadCacheAssumption
  BY ObservatoryAssumption

LEMMA CacheStarts == CacheInit => CacheIInv
  BY CacheParameters DEF CacheInit, CacheIInv, CacheTypeOK, NotAsking, ReadCacheAssumption

(* What every step keeps that writes no entry. *)
LEMMA EntryKept ==
  ASSUME CacheIInv, UNCHANGED cached,
         version' \in 0..MaxVersion, failures' \in 0..MaxFailures,
         asking' \in [Viewers -> [at: {"idle", "sent", "fetching", "read"},
                                  data: 0..MaxVersion, age: 0..FetchTime]],
         displayed' \in [Viewers -> 0..MaxVersion]
  PROVE  CacheIInv'
  BY DEF CacheIInv, CacheTypeOK

LEMMA CacheStep == CacheIInv /\ [CacheNext]_cacheVars => CacheIInv'
  <1> SUFFICES ASSUME CacheIInv, [CacheNext]_cacheVars PROVE CacheIInv'
    OBVIOUS
  <1> DEFINE Requests == [at: {"idle", "sent", "fetching", "read"},
                          data: 0..MaxVersion, age: 0..FetchTime]
             Entries == [data: 0..MaxVersion, age: 0..TTL, readAge: 0..(TTL + FetchTime)]
  <1>a. /\ version \in 0..MaxVersion /\ failures \in 0..MaxFailures
        /\ cached \in Entries \cup {NoEntry}
        /\ asking \in [Viewers -> Requests] /\ displayed \in [Viewers -> 0..MaxVersion]
    BY DEF CacheIInv, CacheTypeOK
  <1>b. cached # NoEntry => cached \in Entries /\ cached.readAge <= cached.age + FetchTime
    BY <1>a DEF CacheIInv
  <1>c. TTL \in Nat \ {0} /\ FetchTime \in Nat /\ MaxVersion \in Nat /\ MaxFailures \in Nat
    BY CacheParameters DEF ReadCacheAssumption
  <1>d. NotAsking \in Requests
    BY <1>c DEF NotAsking
  <1>1. CASE Write
    BY <1>1, <1>a, <1>c, EntryKept DEF Write
  <1>2. CASE TimePasses
    <2>1. asking' \in [Viewers -> Requests]
      <3>1. ASSUME NEW v \in Viewers, asking[v].at = "read"
            PROVE  [asking[v] EXCEPT !.age = @ + 1] \in Requests
        BY <1>2, <1>a, <1>c, <3>1 DEF TimePasses
      <3> QED
        BY <1>2, <1>a, <3>1 DEF TimePasses
    <2>2. CASE cached = NoEntry \/ cached.age = TTL
      <3>1. UNCHANGED cached
        BY <1>2, <2>2 DEF TimePasses, Older
      <3> QED
        BY <1>2, <1>a, <2>1, <3>1, EntryKept DEF TimePasses
    <2>3. CASE cached # NoEntry /\ cached.age # TTL
      <3>1. cached' = [cached EXCEPT !.age = @ + 1, !.readAge = @ + 1]
        BY <1>2, <2>3 DEF TimePasses, Older
      <3>2. cached' \in Entries /\ cached'.readAge <= cached'.age + FetchTime
        <4>1. cached.age \in 0..TTL /\ cached.age # TTL /\ cached.readAge \in 0..(TTL + FetchTime)
          BY <1>b, <2>3
        <4>2. cached.age + 1 \in 0..TTL
          BY <1>c, <4>1
        <4>3. cached.readAge + 1 \in 0..(TTL + FetchTime)
          BY <1>b, <1>c, <2>3, <4>1
        <4>4. cached' \in Entries
          BY <1>b, <2>3, <3>1, <4>2, <4>3
        <4>5. cached'.age = cached.age + 1 /\ cached'.readAge = cached.readAge + 1
          BY <1>b, <2>3, <3>1
        <4> QED
          BY <1>b, <1>c, <2>3, <4>1, <4>4, <4>5
      <3> QED
        BY <1>2, <1>a, <2>1, <3>2 DEF TimePasses, CacheIInv, CacheTypeOK
    <2> QED
      BY <2>2, <2>3
  <1>3. ASSUME NEW v \in Viewers, Poll(v) \/ Miss(v) PROVE CacheIInv'
    <2>1. PICK to \in {"sent", "fetching"} : asking' = [asking EXCEPT ![v].at = to]
      BY <1>3 DEF Poll, Miss
    <2>2. asking' \in [Viewers -> Requests]
      BY <1>a, <2>1
    <2> QED
      BY <1>3, <1>a, <2>2, EntryKept DEF Poll, Miss
  <1>4. ASSUME NEW v \in Viewers, Hit(v) PROVE CacheIInv'
    <2>1. cached \in Entries
      BY <1>4, <1>b DEF Hit, Fresh
    <2>2. asking' \in [Viewers -> Requests] /\ displayed' \in [Viewers -> 0..MaxVersion]
      BY <1>4, <1>a, <1>d, <2>1 DEF Hit
    <2> QED
      BY <1>4, <1>a, <2>2, EntryKept DEF Hit, AfterHit
  <1>5. ASSUME NEW v \in Viewers, FetchReads(v) PROVE CacheIInv'
    <2>1. asking' \in [Viewers -> Requests]
      BY <1>5, <1>a, <1>c DEF FetchReads
    <2> QED
      BY <1>5, <1>a, <2>1, EntryKept DEF FetchReads
  <1>6. ASSUME NEW v \in Viewers, FetchReturns(v) PROVE CacheIInv'
    <2>1. asking[v] \in Requests
      BY <1>a
    <2>2. asking' \in [Viewers -> Requests] /\ displayed' \in [Viewers -> 0..MaxVersion]
      BY <1>6, <1>a, <1>d, <2>1 DEF FetchReturns
    <2>3. cached' \in Entries /\ cached'.readAge <= cached'.age + FetchTime
      BY <1>6, <1>c, <2>1 DEF FetchReturns, Entry
    <2> QED
      BY <1>6, <1>a, <2>2, <2>3 DEF FetchReturns, CacheIInv, CacheTypeOK
  <1>7. ASSUME NEW v \in Viewers, PollFails(v) PROVE CacheIInv'
    <2>1. asking' \in [Viewers -> Requests]
      BY <1>7, <1>a, <1>d DEF PollFails
    <2>2. failures' \in 0..MaxFailures
      BY <1>7, <1>a, <1>c DEF PollFails
    <2> QED
      BY <1>7, <1>a, <2>1, <2>2, EntryKept DEF PollFails
  <1>8. CASE UNCHANGED cacheVars
    BY <1>8, <1>a, EntryKept DEF cacheVars
  <1> QED
    BY <1>1, <1>2, <1>3, <1>4, <1>5, <1>6, <1>7, <1>8 DEF CacheNext

(* What the cache serves was read at most one TTL and one fetch ago, also   *)
(* where two fetches overlap and the older one is written last              *)
(* (read-cache.ts).                                                         *)
THEOREM CacheIsFresh == CacheSpec => []StalenessBounded
  <1>1. CacheIInv => StalenessBounded
    BY CacheParameters DEF CacheIInv, CacheTypeOK, StalenessBounded, Fresh, ReadCacheAssumption
  <1> QED
    BY CacheStarts, CacheStep, <1>1, PTL DEF CacheSpec

-----------------------------------------------------------------------------
(* The feed: sequences of rows *)

LEMMA FeedParameters ==
  /\ PageSize \in Nat \ {0} /\ HistoryMax \in Nat /\ PageSize < HistoryMax
  /\ MaxRows \in Nat /\ MaxRetries \in Nat /\ MaxReloads \in Nat /\ MaxFailed \in Nat
  /\ None \notin Nat /\ None \notin 1..MaxRows
  <1>1. EventFeedAssumption
    BY ObservatoryAssumption
  <1> QED
    BY <1>1 DEF EventFeedAssumption

(* A function from the first n numbers is a sequence of length n. *)
LEMMA FunctionIsSequence ==
  ASSUME NEW S, NEW n \in Nat, NEW f \in [1..n -> S]
  PROVE  f \in Seq(S) /\ Len(f) = n /\ DOMAIN f = 1..n
  <1>1. f \in Seq(S)
    BY SeqDef
  <1>2. DOMAIN f = 1..Len(f) /\ Len(f) \in Nat /\ DOMAIN f = 1..n
    BY <1>1, LenProperties
  <1> QED
    BY <1>1, <1>2

(* What the first rows of a sequence are. *)
LEMMA FirstRowsAre ==
  ASSUME NEW S, NEW rows \in Seq(S), NEW n \in Nat
  PROVE  /\ FirstRows(rows, n) \in Seq(S)
         /\ Len(FirstRows(rows, n)) = IF n < Len(rows) THEN n ELSE Len(rows)
         /\ \A i \in 1..Len(FirstRows(rows, n)) : i \in 1..Len(rows) /\ FirstRows(rows, n)[i] = rows[i]
  <1> DEFINE k == IF n < Len(rows) THEN n ELSE Len(rows)
  <1>1. Len(rows) \in Nat /\ rows \in [1..Len(rows) -> S]
    BY LenProperties
  <1>2. k \in Nat /\ k <= Len(rows)
    BY <1>1
  <1> HIDE DEF k
  <1>3. \A i \in 1..k : i \in 1..Len(rows) /\ rows[i] \in S
    BY <1>1, <1>2
  <1>4. /\ SubSeq(rows, 1, k) \in Seq(S)
        /\ Len(SubSeq(rows, 1, k)) = (IF 1 <= k THEN k - 1 + 1 ELSE 0)
        /\ \A i \in 1..(k - 1 + 1) : SubSeq(rows, 1, k)[i] = rows[1 + i - 1]
    BY <1>2, <1>3, SubSeqProperties
  <1>5. FirstRows(rows, n) = SubSeq(rows, 1, k)
    BY DEF FirstRows, k
  <1>6. Len(SubSeq(rows, 1, k)) = k /\ \A i \in 1..k : SubSeq(rows, 1, k)[i] = rows[i]
    BY <1>2, <1>4
  <1> QED
    BY <1>3, <1>4, <1>5, <1>6 DEF k

LEMMA NewestIsFirst == \A n : Newest(n) = FirstRows(list, n)
  BY DEF Newest, FirstRows

(* What a page is. *)
LEMMA PageIs ==
  ASSUME NEW c \in 1..MaxRows
  PROVE  /\ PageAt(c) \in Seq(1..MaxRows)
         /\ Len(PageAt(c)) = IF c < PageSize THEN c ELSE PageSize
         /\ \A i \in 1..Len(PageAt(c)) : PageAt(c)[i] = c - i + 1
  <1> DEFINE k == IF c < PageSize THEN c ELSE PageSize
  <1>1. MaxRows \in Nat /\ PageSize \in Nat
    BY FeedParameters
  <1>2. k \in Nat /\ k <= c
    BY <1>1
  <1>3. PageAt(c) = [i \in 1..k |-> c - i + 1]
    BY DEF PageAt
  <1> HIDE DEF k
  <1>4. PageAt(c) \in [1..k -> 1..MaxRows]
    BY <1>1, <1>2, <1>3
  <1>5. Len(PageAt(c)) = k
    BY <1>2, <1>4, FunctionIsSequence
  <1> QED
    BY <1>2, <1>3, <1>4, <1>5, FunctionIsSequence DEF k

(* The rows after cursor p up to cursor c. *)
LEMMA RowsBetween ==
  ASSUME NEW c \in 1..MaxRows, NEW p \in 1..MaxRows, p <= c
  PROVE  LET rows == [i \in 1..(c - p) |-> c - i + 1]
         IN  /\ rows \in Seq(1..MaxRows) /\ Len(rows) = c - p
             /\ \A i \in 1..(c - p) : rows[i] = c - i + 1
  <1> DEFINE rows == [i \in 1..(c - p) |-> c - i + 1]
  <1>1. c - p \in Nat
    BY FeedParameters
  <1>2. rows \in [1..(c - p) -> 1..MaxRows]
    BY FeedParameters, <1>1
  <1>3. rows \in Seq(1..MaxRows) /\ Len(rows) = c - p
    BY <1>1, <1>2, FunctionIsSequence
  <1> QED
    BY <1>3

(* A sequence whose rows go down from c is the page, or the rows after p.   *)
LEMMA IsPage ==
  ASSUME NEW c \in 1..MaxRows, NEW rows \in Seq(1..MaxRows),
         Len(rows) = IF c < PageSize THEN c ELSE PageSize,
         \A i \in 1..Len(rows) : rows[i] = c - i + 1
  PROVE  rows = PageAt(c)
  BY PageIs, SeqEqual

LEMMA IsRowsBetween ==
  ASSUME NEW c \in 1..MaxRows, NEW p \in 1..MaxRows, p <= c,
         NEW rows \in Seq(1..MaxRows), Len(rows) = c - p,
         \A i \in 1..Len(rows) : rows[i] = c - i + 1
  PROVE  rows = [i \in 1..(c - p) |-> c - i + 1]
  BY RowsBetween, SeqEqual

(* The window after a delta is the page of the new cursor: no row is lost   *)
(* and none is shown twice where the two meet.                              *)
LEMMA DeltaMakesPage ==
  ASSUME NEW c \in 1..MaxRows, NEW p \in 1..MaxRows, p <= c
  PROVE  FirstRows([i \in 1..(c - p) |-> c - i + 1] \o PageAt(p), PageSize) = PageAt(c)
  <1> DEFINE d == [i \in 1..(c - p) |-> c - i + 1]
             both == d \o PageAt(p)
  <1>1. d \in Seq(1..MaxRows) /\ Len(d) = c - p /\ \A i \in 1..(c - p) : d[i] = c - i + 1
    BY RowsBetween
  <1> HIDE DEF d
  <1>2. /\ PageAt(p) \in Seq(1..MaxRows)
        /\ Len(PageAt(p)) = IF p < PageSize THEN p ELSE PageSize
        /\ \A i \in 1..Len(PageAt(p)) : PageAt(p)[i] = p - i + 1
    BY PageIs
  <1>3. /\ both \in Seq(1..MaxRows) /\ Len(both) = Len(d) + Len(PageAt(p))
        /\ \A i \in 1..(Len(d) + Len(PageAt(p))) :
             both[i] = IF i <= Len(d) THEN d[i] ELSE PageAt(p)[i - Len(d)]
    BY <1>1, <1>2, ConcatProperties
  <1>4. PageSize \in Nat \ {0} /\ MaxRows \in Nat
    BY FeedParameters
  <1> HIDE DEF both
  <1>5. \A i \in 1..Len(both) : both[i] = c - i + 1
    <2> SUFFICES ASSUME NEW i \in 1..Len(both) PROVE both[i] = c - i + 1
      OBVIOUS
    <2>1. Len(d) \in Nat /\ Len(PageAt(p)) \in Nat
      BY <1>1, <1>2, <1>4
    <2>2. CASE i <= Len(d)
      BY <1>1, <1>3, <2>1, <2>2
    <2>3. CASE i > Len(d)
      <3>1. i - Len(d) \in 1..Len(PageAt(p))
        BY <1>3, <2>1, <2>3
      <3>2. both[i] = PageAt(p)[i - Len(d)]
        BY <1>3, <2>1, <2>3
      <3>3. PageAt(p)[i - Len(d)] = p - (i - Len(d)) + 1
        BY <1>2, <3>1
      <3>4. i \in Int /\ c \in Int /\ p \in Int /\ Len(d) = c - p
        BY <1>1, <1>3, <1>4, <2>1
      <3> QED
        BY <3>2, <3>3, <3>4
    <2> QED
      BY <2>1, <2>2, <2>3
  <1>6. /\ FirstRows(both, PageSize) \in Seq(1..MaxRows)
        /\ Len(FirstRows(both, PageSize)) = IF PageSize < Len(both) THEN PageSize ELSE Len(both)
        /\ \A i \in 1..Len(FirstRows(both, PageSize)) :
             i \in 1..Len(both) /\ FirstRows(both, PageSize)[i] = both[i]
    <2>1. both \in Seq(1..MaxRows) /\ PageSize \in Nat
      BY <1>3, <1>4
    <2> QED
      BY ONLY <2>1, FirstRowsAre
  <1>7. Len(both) = (c - p) + (IF p < PageSize THEN p ELSE PageSize)
    BY <1>1, <1>2, <1>3
  <1>8. Len(FirstRows(both, PageSize)) = IF c < PageSize THEN c ELSE PageSize
    BY <1>4, <1>6, <1>7
  <1>9. FirstRows(both, PageSize) = PageAt(c)
    BY <1>5, <1>6, <1>8, IsPage
  <1> QED
    BY <1>9 DEF both, d

LEMMA FirstOfPage ==
  ASSUME NEW c \in 1..MaxRows
  PROVE  FirstRows(PageAt(c), PageSize) = PageAt(c)
  <1>1. /\ PageAt(c) \in Seq(1..MaxRows)
        /\ Len(PageAt(c)) = IF c < PageSize THEN c ELSE PageSize
        /\ \A i \in 1..Len(PageAt(c)) : PageAt(c)[i] = c - i + 1
    BY PageIs
  <1>2. PageSize \in Nat \ {0}
    BY FeedParameters
  <1>3. /\ FirstRows(PageAt(c), PageSize) \in Seq(1..MaxRows)
        /\ Len(FirstRows(PageAt(c), PageSize)) =
             IF PageSize < Len(PageAt(c)) THEN PageSize ELSE Len(PageAt(c))
        /\ \A i \in 1..Len(FirstRows(PageAt(c), PageSize)) :
             i \in 1..Len(PageAt(c)) /\ FirstRows(PageAt(c), PageSize)[i] = PageAt(c)[i]
    BY <1>1, <1>2, FirstRowsAre
  <1>4. Len(FirstRows(PageAt(c), PageSize)) = IF c < PageSize THEN c ELSE PageSize
    BY <1>1, <1>2, <1>3
  <1> QED
    BY <1>1, <1>3, <1>4, IsPage

-----------------------------------------------------------------------------
(* The feed: types *)

(* What the feed answers. *)
LEMMA LeastIsMin ==
  ASSUME NEW T \in SUBSET Nat, T # {}
  PROVE  Min(T) \in T /\ \A y \in T : Min(T) <= y
  <1>1. \E x \in T : \A y \in T : ~ (<<y, x>> \in OpToRel(<, Nat))
    BY WFMin, NatLessThanWellFounded
  <1>2. PICK x \in T : \A y \in T : ~ (<<y, x>> \in OpToRel(<, Nat))
    BY <1>1
  <1>3. ASSUME NEW y \in T PROVE x <= y
    <2>1. <<y, x>> \in Nat \X Nat
      OBVIOUS
    <2>2. ~ (<<y, x>> \in {ss \in Nat \X Nat : ss[1] < ss[2]})
      BY <1>2 DEF OpToRel
    <2>3. ~ (y < x)
      BY <2>1, <2>2
    <2> QED
      BY <2>3
  <1> QED
    BY <1>3 DEF Min

(* A read with an anchor: the rows before its first place, a shorter piece. *)
LEMMA DeltaRowsAre ==
  ASSUME NEW rows \in Seq(1..MaxRows), NEW k \in 1..Len(rows)
  PROVE  /\ DeltaRows(rows, k) \in Seq(1..MaxRows) /\ Len(DeltaRows(rows, k)) = k - 1
         /\ \A i \in 1..(k - 1) : DeltaRows(rows, k)[i] = rows[i]
  <1>1. Len(rows) \in Nat /\ rows \in [1..Len(rows) -> 1..MaxRows]
    BY LenProperties
  <1>2. \A i \in 1..(k - 1) : i \in 1..Len(rows) /\ rows[i] \in 1..MaxRows
    BY <1>1
  <1>3. /\ SubSeq(rows, 1, k - 1) \in Seq(1..MaxRows)
        /\ Len(SubSeq(rows, 1, k - 1)) = (IF 1 <= k - 1 THEN k - 1 - 1 + 1 ELSE 0)
        /\ \A i \in 1..(k - 1 - 1 + 1) : SubSeq(rows, 1, k - 1)[i] = rows[1 + i - 1]
    BY <1>1, <1>2, SubSeqProperties
  <1> QED
    BY <1>1, <1>3 DEF DeltaRows

(* The feed answers with rows, the first of which is the cursor.            *)
LEMMA FeedAnswers ==
  ASSUME NEW rows \in Seq(1..MaxRows), NEW after \in (1..MaxRows) \cup {None}
  PROVE  computeFeedResponse(rows, after) \in FeedAnswer
  <1> DEFINE anchors == {i \in DOMAIN rows : rows[i] = after}
  <1>1. /\ Len(rows) \in Nat /\ DOMAIN rows = 1..Len(rows) /\ rows \in [1..Len(rows) -> 1..MaxRows]
    BY LenProperties
  <1>2. CASE rows = <<>>
    <2>1. <<>> \in Seq(1..MaxRows)
      BY EmptySeq
    <2> QED
      BY <1>2, <2>1 DEF computeFeedResponse, Feed, FeedAnswer
  <1>3. CASE rows # <<>>
    <2>1. rows[1] \in 1..MaxRows
      BY <1>1, <1>3, EmptySeq
    <2>2. CASE after = None \/ anchors = {}
      <3>1. FirstRows(rows, PageSize) \in Seq(1..MaxRows)
        BY FirstRowsAre, FeedParameters
      <3>2. computeFeedResponse(rows, after) = Feed(rows[1], TRUE, FirstRows(rows, PageSize))
        BY <1>3, <2>2 DEF computeFeedResponse
      <3> QED
        BY <2>1, <3>1, <3>2 DEF Feed, FeedAnswer
    <2>3. CASE ~ (after = None \/ anchors = {})
      <3>1. Min(anchors) \in 1..Len(rows)
        <4>1. anchors \in SUBSET Nat /\ anchors # {} /\ anchors \subseteq 1..Len(rows)
          BY <1>1, <2>3
        <4> HIDE DEF anchors
        <4> QED
          BY <4>1, LeastIsMin
      <3>2. DeltaRows(rows, Min(anchors)) \in Seq(1..MaxRows)
        BY <3>1, DeltaRowsAre
      <3>3. computeFeedResponse(rows, after) = Feed(rows[1], FALSE, DeltaRows(rows, Min(anchors)))
        BY <1>3, <2>3 DEF computeFeedResponse
      <3> QED
        BY <2>1, <3>2, <3>3 DEF Feed, FeedAnswer
    <2> QED
      BY <2>2, <2>3
  <1> QED
    BY <1>2, <1>3

LEMMA NoPollType == NoPoll \in FeedPolls /\ NoPoll.at # "answer"
  BY DEF NoPoll, FeedPolls

LEMMA FeedStarts == FeedInit => FeedIInv
  <1> SUFFICES ASSUME FeedInit PROVE FeedIInv
    OBVIOUS
  <1>1. <<>> \in Seq(1..MaxRows) /\ Len(<<>>) = 0 /\ DOMAIN <<>> = {}
    BY EmptySeq
  <1>2. FeedTypeOK
    <2>1. /\ list \in Seq(1..MaxRows) /\ window \in Seq(1..MaxRows) /\ Len(window) = 0
          /\ writer \in [Writers -> (1..MaxRows) \cup {None}]
          /\ cursor \in (1..MaxRows) \cup {None}
      BY <1>1 DEF FeedInit
    <2>2. /\ total \in 0..MaxRows /\ retries \in 0..MaxRetries /\ reloads \in 0..MaxReloads
          /\ failed \in 0..MaxFailed /\ Len(window) <= PageSize
      BY <1>1, FeedParameters DEF FeedInit
    <2>3. polling \in FeedPolls /\ polling.at # "answer"
      BY NoPollType DEF FeedInit
    <2>4. tabHidden \in BOOLEAN
      BY DEF FeedInit
    <2> QED
      BY <2>1, <2>2, <2>3, <2>4 DEF FeedTypeOK
  <1>3. RowNearTop
    BY DEF FeedInit, RowNearTop
  <1>4. ListIsHistory /\ WindowIsPage
    BY <1>1 DEF FeedInit, ListIsHistory, WindowIsPage
  <1>5. PollIsCurrent
    BY DEF FeedInit, PollIsCurrent, NoPoll
  <1> QED
    BY <1>2, <1>3, <1>4, <1>5 DEF FeedIInv

LEMMA FeedTypeStep == FeedTypeOK /\ [FeedNext]_feedVars => FeedTypeOK'
  <1> SUFFICES ASSUME FeedTypeOK, [FeedNext]_feedVars PROVE FeedTypeOK'
    OBVIOUS
  <1>p. /\ PageSize \in Nat \ {0} /\ HistoryMax \in Nat /\ MaxRows \in Nat /\ MaxRetries \in Nat
        /\ MaxReloads \in Nat /\ MaxFailed \in Nat
    BY FeedParameters
  <1>t. /\ list \in Seq(1..MaxRows) /\ total \in 0..MaxRows
        /\ writer \in [Writers -> (1..MaxRows) \cup {None}]
        /\ retries \in 0..MaxRetries /\ reloads \in 0..MaxReloads
        /\ failed \in 0..MaxFailed /\ tabHidden \in BOOLEAN
        /\ cursor \in (1..MaxRows) \cup {None} /\ window \in Seq(1..MaxRows)
        /\ Len(window) <= PageSize /\ polling \in FeedPolls
        /\ (polling.at = "answer" => polling.feed \in FeedAnswer)
    BY DEF FeedTypeOK
  <1>f. ASSUME NEW row \in 1..MaxRows PROVE <<row>> \o list \in Seq(1..MaxRows)
    <2>1. <<row>> \in Seq(1..MaxRows)
      OBVIOUS
    <2> QED
      BY <1>t, <2>1, ConcatProperties
  <1>1. ASSUME NEW w \in Writers, Push(w) PROVE FeedTypeOK'
    <2>1. total + 1 \in 1..MaxRows
      BY <1>1, <1>p, <1>t DEF Push
    <2>2. list' \in Seq(1..MaxRows)
      BY <1>1, <1>f, <2>1 DEF Push
    <2>3. writer' \in [Writers -> (1..MaxRows) \cup {None}]
      BY <1>1, <1>t, <2>1 DEF Push
    <2>4. total' \in 0..MaxRows
      BY <1>1, <1>p, <2>1 DEF Push
    <2> QED
      BY <1>1, <1>t, <2>2, <2>3, <2>4 DEF Push, FeedTypeOK, feedPage
  <1>2. ASSUME NEW w \in Writers, PushAgain(w) PROVE FeedTypeOK'
    <2>1. writer[w] \in 1..MaxRows
      BY <1>2, <1>t DEF PushAgain
    <2>2. list' \in Seq(1..MaxRows)
      BY <1>2, <1>f, <2>1 DEF PushAgain
    <2>3. retries' \in 0..MaxRetries
      BY <1>2, <1>p, <1>t DEF PushAgain
    <2> QED
      BY <1>2, <1>t, <2>2, <2>3 DEF PushAgain, FeedTypeOK, feedPage
  <1>3. ASSUME NEW w \in Writers, Trim(w) PROVE FeedTypeOK'
    <2>1. list' \in Seq(1..MaxRows)
      BY <1>3, <1>p, <1>t, NewestIsFirst, FirstRowsAre DEF Trim, Trimmed
    <2>2. writer' \in [Writers -> (1..MaxRows) \cup {None}]
      BY <1>3, <1>t DEF Trim
    <2> QED
      BY <1>3, <1>t, <2>1, <2>2 DEF Trim, FeedTypeOK, feedPage
  <1>4. ASSUME NEW w \in Writers, Crash(w) PROVE FeedTypeOK'
    <2>1. writer' \in [Writers -> (1..MaxRows) \cup {None}]
      BY <1>4, <1>t DEF Crash
    <2> QED
      BY <1>4, <1>t, <2>1 DEF Crash, FeedTypeOK, feedPage
  <1>5. CASE PollFeed
    <2>1. polling' \in FeedPolls /\ polling'.at # "answer"
      BY <1>5, <1>t DEF PollFeed, NoPoll, FeedPolls
    <2> QED
      BY <1>5, <1>t, <2>1 DEF PollFeed, FeedTypeOK, feedStore
  <1>6. CASE ReadHead
    <2>1. CASE list # <<>> /\ Head(list) = polling.after
      <3>1. polling.after \in 1..MaxRows
        BY <1>t, <2>1, HeadTailProperties
      <3>2. <<>> \in Seq(1..MaxRows)
        BY EmptySeq
      <3>3. Feed(polling.after, FALSE, <<>>) \in FeedAnswer
        BY <3>1, <3>2 DEF Feed, FeedAnswer
      <3>4. polling' = [polling EXCEPT !.at = "answer", !.feed = Feed(polling.after, FALSE, <<>>)]
        BY <1>6, <2>1 DEF ReadHead
      <3>5. polling' \in FeedPolls /\ polling'.feed \in FeedAnswer
        BY <1>t, <3>3, <3>4 DEF FeedPolls
      <3> QED
        BY <1>6, <1>t, <3>5 DEF ReadHead, FeedTypeOK, feedStore
    <2>2. CASE ~ (list # <<>> /\ Head(list) = polling.after)
      <3>1. polling' = [polling EXCEPT !.at = "range"]
        BY <1>6, <2>2 DEF ReadHead
      <3>2. polling' \in FeedPolls /\ polling'.at # "answer"
        BY <1>t, <3>1 DEF FeedPolls
      <3> QED
        BY <1>6, <1>t, <3>2 DEF ReadHead, FeedTypeOK, feedStore
    <2> QED
      BY <2>1, <2>2
  <1>7. CASE ReadRange
    <2>1. Newest(PageSize + 1) \in Seq(1..MaxRows)
      BY <1>p, <1>t, NewestIsFirst, FirstRowsAre
    <2>2. polling.after \in (1..MaxRows) \cup {None}
      BY <1>t DEF FeedPolls
    <2> DEFINE answer == computeFeedResponse(Newest(PageSize + 1), polling.after)
    <2>3. answer \in FeedAnswer
      BY <2>1, <2>2, FeedAnswers
    <2>4. polling' = [polling EXCEPT !.at = "answer", !.feed = answer]
      BY <1>7 DEF ReadRange
    <2> HIDE DEF answer
    <2>5. polling' \in FeedPolls /\ polling'.feed \in FeedAnswer
      BY <1>t, <2>3, <2>4 DEF FeedPolls
    <2> QED
      BY <1>7, <1>t, <2>5 DEF ReadRange, FeedTypeOK, feedStore
  <1>8. CASE Arrives
    <2>1. polling.feed \in FeedAnswer
      BY <1>8, <1>t DEF Arrives
    <2>2. cursor' \in (1..MaxRows) \cup {None}
      BY <1>8, <2>1 DEF Arrives, FeedAnswer
    <2>3. polling.feed.events \in Seq(1..MaxRows)
      BY <2>1 DEF FeedAnswer
    <2> DEFINE rows == IF polling.feed.reset THEN polling.feed.events
                                             ELSE polling.feed.events \o window
    <2>4. rows \in Seq(1..MaxRows)
      BY <1>t, <2>3, ConcatProperties
    <2>5. window' = FirstRows(rows, PageSize)
      BY <1>8 DEF Arrives, mergeEventFeedWindow
    <2> HIDE DEF rows
    <2>6. window' \in Seq(1..MaxRows) /\ Len(window') = IF PageSize < Len(rows) THEN PageSize ELSE Len(rows)
      BY <1>p, <2>4, <2>5, FirstRowsAre
    <2>7. Len(window') <= PageSize
      BY <1>p, <2>4, <2>6, LenProperties
    <2>8. polling' \in FeedPolls /\ polling'.at # "answer"
      BY <1>8, NoPollType DEF Arrives
    <2> QED
      BY <1>8, <1>t, <2>2, <2>6, <2>7, <2>8 DEF Arrives, FeedTypeOK, feedStore
  <1>9. CASE PollFeedFails
    <2>1. failed' \in 0..MaxFailed
      BY <1>9, <1>p, <1>t DEF PollFeedFails
    <2>2. polling' \in FeedPolls /\ polling'.at # "answer"
      BY <1>9, NoPollType DEF PollFeedFails
    <2> QED
      BY <1>9, <1>t, <2>1, <2>2 DEF PollFeedFails, FeedTypeOK, feedStore
  <1>10. CASE FlipTab
    <2>1. tabHidden' \in BOOLEAN
      BY <1>10, Zenon DEF FlipTab
    <2> QED
      BY <1>10, <1>t, <2>1 DEF FlipTab, FeedTypeOK, feedStore, feedPage
  <1>11. CASE Reload
    <2>1. reloads' \in 0..MaxReloads
      BY <1>11, <1>p, <1>t DEF Reload
    <2>2. polling' \in FeedPolls /\ polling'.at # "answer"
      BY <1>11, NoPollType DEF Reload
    <2>3. cursor' = None /\ window' \in Seq(1..MaxRows) /\ Len(window') <= PageSize
      BY <1>11, <1>p, EmptySeq DEF Reload
    <2> QED
      BY <1>11, <1>t, <2>1, <2>2, <2>3 DEF Reload, FeedTypeOK, feedStore
  <1>12. CASE UNCHANGED feedVars
    BY <1>12, <1>t DEF feedVars, feedStore, feedPage, FeedTypeOK
  <1> QED
    BY <1>1, <1>2, <1>3, <1>4, <1>5, <1>6, <1>7, <1>8, <1>9, <1>10, <1>11, <1>12 DEF FeedNext

-----------------------------------------------------------------------------
(* The feed: the newest rows are in the list *)

LEMMA FeedTypes ==
  ASSUME FeedTypeOK
  PROVE  /\ list \in Seq(1..MaxRows) /\ Len(list) \in Nat /\ DOMAIN list = 1..Len(list)
         /\ total \in Nat /\ total <= MaxRows /\ retries \in Nat
         /\ cursor \in (1..MaxRows) \cup {None} /\ window \in Seq(1..MaxRows)
         /\ polling \in FeedPolls
  <1>1. list \in Seq(1..MaxRows) /\ Len(list) \in Nat /\ DOMAIN list = 1..Len(list)
    BY LenProperties DEF FeedTypeOK
  <1> QED
    BY <1>1, FeedParameters DEF FeedTypeOK

(* A row in front moves the others down by one. *)
LEMMA InFront ==
  ASSUME NEW row \in 1..MaxRows, NEW rows \in Seq(1..MaxRows)
  PROVE  /\ Len(<<row>> \o rows) = Len(rows) + 1
         /\ DOMAIN (<<row>> \o rows) = 1..(Len(rows) + 1)
         /\ (<<row>> \o rows)[1] = row
         /\ \A i \in 1..Len(rows) : (<<row>> \o rows)[i + 1] = rows[i]
  <1>1. <<row>> \in Seq(1..MaxRows) /\ Len(<<row>>) = 1 /\ <<row>>[1] = row
    OBVIOUS
  <1>2. Len(rows) \in Nat
    BY LenProperties
  <1> DEFINE both == <<row>> \o rows
  <1>3. /\ both \in Seq(1..MaxRows) /\ Len(both) = 1 + Len(rows)
        /\ \A i \in 1..(1 + Len(rows)) : both[i] = IF i <= 1 THEN <<row>>[i] ELSE rows[i - 1]
    BY <1>1, ConcatProperties
  <1> HIDE DEF both
  <1>4. both[1] = row
    BY <1>1, <1>2, <1>3
  <1>5. ASSUME NEW i \in 1..Len(rows) PROVE both[i + 1] = rows[i]
    <2>1. i + 1 \in 1..(1 + Len(rows)) /\ ~ (i + 1 <= 1) /\ i + 1 - 1 = i
      BY <1>2
    <2> QED
      BY <1>3, <2>1
  <1>6. Len(both) = Len(rows) + 1 /\ DOMAIN both = 1..(Len(rows) + 1)
    BY <1>2, <1>3, LenProperties
  <1> QED
    BY <1>4, <1>5, <1>6 DEF both

LEMMA NearTopStep == FeedTypeOK /\ RowNearTop /\ [FeedNext]_feedVars => RowNearTop'
  <1> SUFFICES ASSUME FeedTypeOK, RowNearTop, [FeedNext]_feedVars PROVE RowNearTop'
    OBVIOUS
  <1>p. HistoryMax \in Nat /\ MaxRows \in Nat /\ MaxRetries \in Nat
    BY FeedParameters
  <1>t. /\ list \in Seq(1..MaxRows) /\ Len(list) \in Nat /\ DOMAIN list = 1..Len(list)
        /\ total \in Nat /\ total <= MaxRows /\ retries \in Nat
        /\ writer \in [Writers -> (1..MaxRows) \cup {None}]
    BY FeedTypes DEF FeedTypeOK
  <1>n. ASSUME NEW r \in 1..total, r > total - (HistoryMax - retries)
        PROVE  \E i \in 1..Len(list) : list[i] = r /\ i <= total - r + 1 + retries
    BY <1>t, <1>n DEF RowNearTop
  <1>1. ASSUME NEW w \in Writers, Push(w) PROVE RowNearTop'
    <2>1. total' = total + 1 /\ total + 1 \in 1..MaxRows /\ list' = <<total + 1>> \o list /\ retries' = retries
      BY <1>1, <1>p, <1>t DEF Push
    <2>2. /\ DOMAIN list' = 1..(Len(list) + 1) /\ list'[1] = total + 1
          /\ \A i \in 1..Len(list) : list'[i + 1] = list[i]
      BY <1>t, <2>1, InFront
    <2>3. ASSUME NEW r \in 1..total', r > total' - (HistoryMax - retries')
          PROVE  \E i \in DOMAIN list' : list'[i] = r /\ i <= total' - r + 1 + retries'
      <3>1. CASE r = total + 1
        BY <1>t, <2>1, <2>2, <3>1
      <3>2. CASE r # total + 1
        <4>1. r \in 1..total /\ r > total - (HistoryMax - retries)
          BY <1>p, <1>t, <2>1, <2>3, <3>2
        <4>2. PICK i \in 1..Len(list) : list[i] = r /\ i <= total - r + 1 + retries
          BY <4>1, <1>n
        <4>3. i + 1 \in DOMAIN list' /\ list'[i + 1] = r
          BY <1>t, <2>2, <4>2
        <4>4. i + 1 <= total' - r + 1 + retries'
          BY <1>t, <2>1, <4>1, <4>2
        <4> QED
          BY <4>3, <4>4
      <3> QED
        BY <3>1, <3>2
    <2> QED
      BY <2>3 DEF RowNearTop
  <1>2. ASSUME NEW w \in Writers, PushAgain(w) PROVE RowNearTop'
    <2>1. /\ total' = total /\ writer[w] \in 1..MaxRows /\ list' = <<writer[w]>> \o list
          /\ retries' = retries + 1
      BY <1>2, <1>t DEF PushAgain
    <2>2. /\ DOMAIN list' = 1..(Len(list) + 1)
          /\ \A i \in 1..Len(list) : list'[i + 1] = list[i]
      BY <1>t, <2>1, InFront
    <2>3. ASSUME NEW r \in 1..total', r > total' - (HistoryMax - retries')
          PROVE  \E i \in DOMAIN list' : list'[i] = r /\ i <= total' - r + 1 + retries'
      <3>1. r \in 1..total /\ r > total - (HistoryMax - retries)
        BY <1>p, <1>t, <2>1, <2>3
      <3>2. PICK i \in 1..Len(list) : list[i] = r /\ i <= total - r + 1 + retries
        BY <3>1, <1>n
      <3>3. i + 1 \in DOMAIN list' /\ list'[i + 1] = r
        BY <1>t, <2>2, <3>2
      <3>4. i + 1 <= total' - r + 1 + retries'
        BY <1>t, <2>1, <3>1, <3>2
      <3> QED
        BY <3>3, <3>4
    <2> QED
      BY <2>3 DEF RowNearTop
  <1>3. ASSUME NEW w \in Writers, Trim(w) PROVE RowNearTop'
    <2>1. total' = total /\ retries' = retries /\ list' = FirstRows(list, HistoryMax)
      BY <1>3, NewestIsFirst DEF Trim, Trimmed
    <2>2. /\ list' \in Seq(1..MaxRows)
          /\ Len(list') = IF HistoryMax < Len(list) THEN HistoryMax ELSE Len(list)
          /\ \A i \in 1..Len(list') : list'[i] = list[i]
      BY <1>p, <1>t, <2>1, FirstRowsAre
    <2>3. DOMAIN list' = 1..Len(list')
      BY <2>2, LenProperties
    <2>4. ASSUME NEW r \in 1..total', r > total' - (HistoryMax - retries')
          PROVE  \E i \in DOMAIN list' : list'[i] = r /\ i <= total' - r + 1 + retries'
      <3>1. r \in 1..total /\ r > total - (HistoryMax - retries)
        BY <2>1, <2>4
      <3>2. PICK i \in 1..Len(list) : list[i] = r /\ i <= total - r + 1 + retries
        BY <3>1, <1>n
      <3>3. i <= HistoryMax
        BY <1>p, <1>t, <3>1, <3>2
      <3>4. i \in 1..Len(list')
        BY <1>p, <1>t, <2>2, <3>2, <3>3
      <3> QED
        BY <2>1, <2>2, <2>3, <3>2, <3>4
    <2> QED
      BY <2>4 DEF RowNearTop
  <1>4. ASSUME UNCHANGED <<list, total, retries>> PROVE RowNearTop'
    BY <1>4 DEF RowNearTop
  <1>5. ASSUME NEW w \in Writers, Crash(w) PROVE RowNearTop'
    BY <1>4, <1>5 DEF Crash
  <1>6. CASE PollFeed \/ ReadHead \/ ReadRange \/ Arrives
    BY <1>4, <1>6 DEF PollFeed, ReadHead, ReadRange, Arrives, feedStore
  <1>7. CASE PollFeedFails \/ FlipTab \/ Reload \/ UNCHANGED feedVars
    BY <1>4, <1>7 DEF PollFeedFails, FlipTab, Reload, feedStore, feedVars
  <1> QED
    BY <1>1, <1>2, <1>3, <1>5, <1>6, <1>7 DEF FeedNext

-----------------------------------------------------------------------------
(* The feed: no row is lost or shown twice *)

(* Where no push was sent again, the list is as long as the history, or     *)
(* long enough for a page and the row before it.                            *)
LEMMA ListIsLongEnough ==
  ASSUME FeedTypeOK, RowNearTop, ListIsHistory, retries = 0
  PROVE  Len(list) <= total /\ (Len(list) = total \/ Len(list) > PageSize)
  <1>p. HistoryMax \in Nat /\ PageSize \in Nat \ {0} /\ PageSize < HistoryMax /\ MaxRows \in Nat
    BY FeedParameters
  <1>t. /\ list \in Seq(1..MaxRows) /\ Len(list) \in Nat /\ DOMAIN list = 1..Len(list)
        /\ total \in Nat /\ list \in [1..Len(list) -> 1..MaxRows]
    BY FeedTypes, LenProperties
  <1>h. \A i \in 1..Len(list) : list[i] = total - i + 1
    BY <1>t DEF ListIsHistory
  <1>1. Len(list) <= total
    <2>1. CASE Len(list) = 0
      BY <1>t, <2>1
    <2>2. CASE Len(list) # 0
      <3>1. Len(list) \in 1..Len(list)
        BY <1>t, <2>2
      <3>2. list[Len(list)] = total - Len(list) + 1 /\ list[Len(list)] \in 1..MaxRows
        BY <1>h, <1>t, <3>1
      <3> QED
        BY <1>p, <1>t, <3>2
    <2> QED
      BY <2>1, <2>2
  <1>2. ASSUME NEW r \in 1..total, r > total - HistoryMax
        PROVE  Len(list) >= total - r + 1
    <2>1. r > total - (HistoryMax - retries)
      BY <1>p, <1>2
    <2>2. PICK i \in 1..Len(list) : list[i] = r
      BY <1>t, <1>2, <2>1 DEF RowNearTop
    <2>3. r = total - i + 1
      BY <1>h, <2>2
    <2> QED
      BY <1>t, <2>2, <2>3
  <1>3. CASE total = 0
    BY <1>1, <1>t, <1>3
  <1>4. CASE total # 0 /\ total <= HistoryMax
    <2>1. 1 \in 1..total /\ 1 > total - HistoryMax
      BY <1>p, <1>t, <1>4
    <2>2. Len(list) >= total
      BY <1>2, <1>t, <2>1
    <2>3. PICK n \in Nat : n = Len(list)
      BY <1>t
    <2>4. n <= total /\ n >= total
      BY <1>1, <2>2, <2>3
    <2>5. n = total
      BY <1>t, <2>4
    <2> QED
      BY <1>1, <2>3, <2>5
  <1>5. CASE total > HistoryMax
    <2>1. total - HistoryMax + 1 \in 1..total /\ total - HistoryMax + 1 > total - HistoryMax
      BY <1>p, <1>t, <1>5
    <2>2. Len(list) >= total - (total - HistoryMax + 1) + 1
      BY <1>2, <2>1
    <2>3. PICK n \in Nat : n = Len(list)
      BY <1>t
    <2>4. n >= total - (total - HistoryMax + 1) + 1
      BY <2>2, <2>3
    <2>5. n > PageSize
      BY <1>p, <1>t, <2>4
    <2> QED
      BY <1>1, <2>3, <2>5
  <1>6. total = 0 \/ (total # 0 /\ total <= HistoryMax) \/ total > HistoryMax
    BY <1>p, <1>t
  <1> QED
    BY ONLY <1>3, <1>4, <1>5, <1>6

(* What a read of the page and one row more finds. *)
LEMMA ReadIsHistory ==
  ASSUME FeedTypeOK, RowNearTop, ListIsHistory, retries = 0, Newest(PageSize + 1) # <<>>
  PROVE  LET rows == Newest(PageSize + 1)
         IN  /\ rows \in Seq(1..MaxRows) /\ total \in 1..MaxRows
             /\ Len(rows) \in Nat \ {0} /\ Len(rows) <= total
             /\ \A i \in 1..Len(rows) : rows[i] = total - i + 1
             /\ FirstRows(rows, PageSize) = PageAt(total)
  <1> DEFINE rows == Newest(PageSize + 1)
  <1>p. PageSize \in Nat \ {0} /\ PageSize + 1 \in Nat /\ MaxRows \in Nat
    BY FeedParameters
  <1>t. list \in Seq(1..MaxRows) /\ Len(list) \in Nat /\ DOMAIN list = 1..Len(list)
        /\ total \in Nat /\ total <= MaxRows
    BY FeedTypes
  <1>h. \A i \in 1..Len(list) : list[i] = total - i + 1
    BY <1>t DEF ListIsHistory
  <1>1. /\ rows \in Seq(1..MaxRows)
        /\ Len(rows) = IF PageSize + 1 < Len(list) THEN PageSize + 1 ELSE Len(list)
        /\ \A i \in 1..Len(rows) : i \in 1..Len(list) /\ rows[i] = list[i]
    BY <1>p, <1>t, NewestIsFirst, FirstRowsAre
  <1>2. rows # <<>>
    OBVIOUS
  <1> HIDE DEF rows
  <1>3. Len(rows) \in Nat \ {0}
    BY <1>1, <1>2, EmptySeq
  <1>4. Len(list) <= total /\ (Len(list) = total \/ Len(list) > PageSize)
    BY ListIsLongEnough
  <1>5. Len(rows) <= total /\ total \in 1..MaxRows
    <2>1. PICK m \in Nat, n \in Nat : m = Len(rows) /\ n = Len(list)
      BY <1>3, <1>t
    <2>2. m = (IF PageSize + 1 < n THEN PageSize + 1 ELSE n) /\ n <= total /\ m # 0
      BY <1>1, <1>3, <1>4, <2>1
    <2>3. m <= total /\ total \in 1..MaxRows
      BY <1>p, <1>t, <2>2
    <2> QED
      BY <2>1, <2>3
  <1>6. \A i \in 1..Len(rows) : rows[i] = total - i + 1
    BY <1>1, <1>h
  <1>7. /\ FirstRows(rows, PageSize) \in Seq(1..MaxRows)
        /\ Len(FirstRows(rows, PageSize)) = IF PageSize < Len(rows) THEN PageSize ELSE Len(rows)
        /\ \A i \in 1..Len(FirstRows(rows, PageSize)) :
             i \in 1..Len(rows) /\ FirstRows(rows, PageSize)[i] = rows[i]
    BY <1>1, <1>p, FirstRowsAre
  <1>8. Len(FirstRows(rows, PageSize)) = IF total < PageSize THEN total ELSE PageSize
    <2>1. PICK m \in Nat, n \in Nat : m = Len(rows) /\ n = Len(list)
      BY <1>3, <1>t
    <2>2. /\ m = IF PageSize + 1 < n THEN PageSize + 1 ELSE n
          /\ n <= total /\ (n = total \/ n > PageSize)
          /\ Len(FirstRows(rows, PageSize)) = IF PageSize < m THEN PageSize ELSE m
      BY <1>1, <1>4, <1>7, <2>1
    <2>3. (IF PageSize < m THEN PageSize ELSE m) = IF total < PageSize THEN total ELSE PageSize
      BY <1>p, <1>t, <2>2
    <2> QED
      BY <2>2, <2>3
  <1>9. FirstRows(rows, PageSize) = PageAt(total)
    BY <1>5, <1>6, <1>7, <1>8, IsPage
  <1> QED
    BY <1>1, <1>3, <1>5, <1>6, <1>9 DEF rows

(* An answer goes on from the cursor it was asked for. *)
GoesOn(answer, from) ==
  answer.cursor # None =>
    IF answer.reset THEN answer.events = PageAt(answer.cursor)
    ELSE /\ from # None /\ from <= answer.cursor
         /\ answer.events = [i \in 1..(answer.cursor - from) |-> answer.cursor - i + 1]

LEMMA AnswerGoesOn ==
  ASSUME FeedTypeOK, RowNearTop, ListIsHistory, retries = 0
  PROVE  GoesOn(computeFeedResponse(Newest(PageSize + 1), cursor), cursor)
  <1> DEFINE rows == Newest(PageSize + 1)
             anchors == {i \in DOMAIN rows : rows[i] = cursor}
             answer == computeFeedResponse(rows, cursor)
  <1>t. cursor \in (1..MaxRows) \cup {None} /\ MaxRows \in Nat
    BY FeedParameters DEF FeedTypeOK
  <1>1. CASE rows = <<>>
    <2>1. answer = Feed(None, TRUE, <<>>)
      BY <1>1 DEF computeFeedResponse
    <2> QED
      BY <2>1 DEF GoesOn, Feed
  <1>2. CASE rows # <<>>
    <2>1. /\ rows \in Seq(1..MaxRows) /\ total \in 1..MaxRows
          /\ Len(rows) \in Nat \ {0} /\ Len(rows) <= total
          /\ \A i \in 1..Len(rows) : rows[i] = total - i + 1
          /\ FirstRows(rows, PageSize) = PageAt(total)
      BY <1>2, ReadIsHistory
    <2>2. DOMAIN rows = 1..Len(rows) /\ rows[1] = total
      <3>1. 1 \in 1..Len(rows) /\ total - 1 + 1 = total
        BY <1>t, <2>1
      <3> QED
        BY <2>1, <3>1, LenProperties
    <2>3. CASE cursor = None \/ anchors = {}
      <3>1. answer = Feed(total, TRUE, PageAt(total))
        BY <1>2, <2>1, <2>2, <2>3 DEF computeFeedResponse
      <3> QED
        BY <3>1 DEF GoesOn, Feed
    <2>4. CASE ~ (cursor = None \/ anchors = {})
      <3>1. cursor \in 1..MaxRows
        BY <1>t, <2>4
      <3>2. anchors \in SUBSET Nat /\ anchors # {} /\ \A i \in anchors : i \in 1..Len(rows) /\ cursor = total - i + 1
        BY <2>1, <2>2, <2>4
      <3>3. answer = Feed(total, FALSE, DeltaRows(rows, Min(anchors)))
        BY <1>2, <2>2, <2>4 DEF computeFeedResponse
      <3> HIDE DEF anchors, answer, rows
      <3>4. Min(anchors) \in anchors
        BY <3>2, LeastIsMin
      <3>5. PICK k \in 1..Len(rows) : k = Min(anchors) /\ cursor = total - k + 1
        BY <3>2, <3>4
      <3>6. cursor <= total /\ k - 1 = total - cursor
        BY <1>t, <2>1, <3>1, <3>5
      <3>7. /\ DeltaRows(rows, k) \in Seq(1..MaxRows) /\ Len(DeltaRows(rows, k)) = k - 1
            /\ \A i \in 1..(k - 1) : DeltaRows(rows, k)[i] = rows[i]
        BY <2>1, DeltaRowsAre
      <3>8. \A i \in 1..(k - 1) : DeltaRows(rows, k)[i] = total - i + 1
        BY <2>1, <3>7
      <3>9. DeltaRows(rows, k) = [i \in 1..(total - cursor) |-> total - i + 1]
        BY <2>1, <3>1, <3>6, <3>7, <3>8, IsRowsBetween
      <3>10. answer = Feed(total, FALSE, [i \in 1..(total - cursor) |-> total - i + 1])
        BY <3>3, <3>5, <3>9
      <3>11. GoesOn(answer, cursor)
        BY <2>4, <3>6, <3>10 DEF GoesOn, Feed
      <3> QED
        BY <3>11 DEF answer, rows
    <2> QED
      BY <2>3, <2>4
  <1> QED
    BY <1>1, <1>2

(* What the window is where no push was sent again. *)
Steady == ListIsHistory /\ WindowIsPage /\ PollIsCurrent

LEMMA SteadyStep == FeedIInv /\ [FeedNext]_feedVars /\ retries' = 0 => Steady'
  <1> SUFFICES ASSUME FeedIInv, [FeedNext]_feedVars, retries' = 0 PROVE Steady'
    OBVIOUS
  <1>p. PageSize \in Nat \ {0} /\ HistoryMax \in Nat /\ MaxRows \in Nat
    BY FeedParameters
  <1>t. /\ FeedTypeOK /\ RowNearTop
        /\ list \in Seq(1..MaxRows) /\ Len(list) \in Nat /\ DOMAIN list = 1..Len(list)
        /\ total \in Nat /\ total <= MaxRows /\ retries \in Nat
        /\ cursor \in (1..MaxRows) \cup {None} /\ polling \in FeedPolls
        /\ (polling.at = "answer" => polling.feed \in FeedAnswer)
    BY FeedTypes DEF FeedIInv, FeedTypeOK
  <1>r. retries = 0
    <2>1. retries' = retries \/ retries' = retries + 1
      BY DEF FeedNext, Push, PushAgain, Trim, Crash, PollFeed, ReadHead, ReadRange, Arrives,
             PollFeedFails, FlipTab, Reload, feedStore, feedVars
    <2> QED
      BY <1>t, <2>1
  <1>h. ListIsHistory /\ WindowIsPage /\ PollIsCurrent
    BY <1>r DEF FeedIInv
  <1>i. \A i \in 1..Len(list) : list[i] = total - i + 1
    BY <1>h, <1>t DEF ListIsHistory
  <1>l. ASSUME UNCHANGED <<list, total>> PROVE ListIsHistory'
    BY <1>h, <1>l DEF ListIsHistory
  <1>w. ASSUME UNCHANGED <<cursor, window>> PROVE WindowIsPage'
    BY <1>h, <1>w DEF WindowIsPage, PageAt
  <1>q. ASSUME UNCHANGED <<cursor, polling>> PROVE PollIsCurrent'
    BY <1>h, <1>q DEF PollIsCurrent, PageAt
  <1>a. PollIsCurrent <=> /\ polling.at = "head" => cursor # None
                          /\ polling.at \in {"head", "range"} => polling.after = cursor
                          /\ polling.at = "answer" => GoesOn(polling.feed, cursor)
    BY Zenon DEF PollIsCurrent, GoesOn
  <1>1. ASSUME NEW w \in Writers, Push(w) PROVE Steady'
    <2>1. total' = total + 1 /\ total + 1 \in 1..MaxRows /\ list' = <<total + 1>> \o list
          /\ UNCHANGED <<cursor, window, polling>>
      BY <1>1, <1>p, <1>t DEF Push, feedPage
    <2>2. /\ DOMAIN list' = 1..(Len(list) + 1) /\ list'[1] = total + 1
          /\ \A i \in 1..Len(list) : list'[i + 1] = list[i]
      BY <1>t, <2>1, InFront
    <2>3. ASSUME NEW i \in DOMAIN list' PROVE list'[i] = total' - i + 1
      <3>1. CASE i = 1
        BY <1>t, <2>1, <2>2, <3>1
      <3>2. CASE i # 1
        <4>1. i - 1 \in 1..Len(list) /\ (i - 1) + 1 = i
          BY <1>t, <2>2, <3>2
        <4>2. list'[i] = list[i - 1]
          BY <2>2, <4>1
        <4>3. list[i - 1] = total - (i - 1) + 1
          BY <1>i, <4>1
        <4>4. i \in Int
          BY <2>2
        <4> QED
          BY <1>t, <2>1, <4>2, <4>3, <4>4
      <3> QED
        BY <3>1, <3>2
    <2>4. ListIsHistory'
      BY <2>3 DEF ListIsHistory
    <2> QED
      BY <1>w, <1>q, <2>1, <2>4 DEF Steady
  <1>2. ASSUME NEW w \in Writers, PushAgain(w) PROVE Steady'
    BY <1>2, <1>r, <1>t DEF PushAgain
  <1>3. ASSUME NEW w \in Writers, Trim(w) PROVE Steady'
    <2>1. total' = total /\ list' = FirstRows(list, HistoryMax) /\ UNCHANGED <<cursor, window, polling>>
      BY <1>3, NewestIsFirst DEF Trim, Trimmed, feedPage
    <2>2. /\ list' \in Seq(1..MaxRows)
          /\ \A i \in 1..Len(list') : i \in 1..Len(list) /\ list'[i] = list[i]
      BY <1>p, <1>t, <2>1, FirstRowsAre
    <2>3. DOMAIN list' = 1..Len(list')
      BY <2>2, LenProperties
    <2>4. ListIsHistory'
      BY <1>i, <2>1, <2>2, <2>3 DEF ListIsHistory
    <2> QED
      BY <1>w, <1>q, <2>1, <2>4 DEF Steady
  <1>4. ASSUME NEW w \in Writers, Crash(w) PROVE Steady'
    BY <1>4, <1>l, <1>w, <1>q DEF Crash, feedPage, Steady
  <1>5. CASE PollFeed
    <2>1. UNCHANGED <<list, total, cursor, window>>
      BY <1>5 DEF PollFeed, feedStore
    <2>2. /\ polling'.at = IF cursor = None THEN "range" ELSE "head"
          /\ polling'.after = cursor
      BY <1>5 DEF PollFeed, NoPoll
    <2>3. PollIsCurrent'
      BY <2>1, <2>2 DEF PollIsCurrent
    <2> QED
      BY <1>l, <1>w, <2>1, <2>3 DEF Steady
  <1>6. CASE ReadHead
    <2>1. UNCHANGED <<list, total, cursor, window>> /\ polling.after = cursor /\ cursor \in 1..MaxRows
      BY <1>6, <1>a, <1>h, <1>t DEF ReadHead, feedStore
    <2>2. CASE list # <<>> /\ Head(list) = polling.after
      <3>1. polling'.at = "answer" /\ polling'.feed = Feed(cursor, FALSE, <<>>)
        BY <1>6, <1>t, <2>1, <2>2 DEF ReadHead, FeedPolls
      <3>2. <<>> = [i \in 1..(cursor - cursor) |-> cursor - i + 1]
        <4>1. <<>> \in Seq(1..MaxRows) /\ Len(<<>>) = 0 /\ cursor - cursor = 0 /\ cursor <= cursor
          BY <1>p, <2>1, EmptySeq
        <4> QED
          BY <2>1, <4>1, IsRowsBetween
      <3>3. GoesOn(polling'.feed, cursor)
        BY <1>p, <2>1, <3>1, <3>2 DEF GoesOn, Feed
      <3>4. PollIsCurrent'
        BY <2>1, <3>1, <3>3 DEF PollIsCurrent, GoesOn, PageAt
      <3> QED
        BY <1>l, <1>w, <2>1, <3>4 DEF Steady
    <2>3. CASE ~ (list # <<>> /\ Head(list) = polling.after)
      <3>1. polling'.at = "range" /\ polling'.after = cursor
        BY <1>6, <1>t, <2>1, <2>3 DEF ReadHead, FeedPolls
      <3>2. PollIsCurrent'
        BY <2>1, <3>1 DEF PollIsCurrent
      <3> QED
        BY <1>l, <1>w, <2>1, <3>2 DEF Steady
    <2> QED
      BY <2>2, <2>3
  <1>7. CASE ReadRange
    <2>1. UNCHANGED <<list, total, cursor, window>> /\ polling.after = cursor
      BY <1>7, <1>a, <1>h DEF ReadRange, feedStore
    <2>2. polling'.at = "answer" /\ polling'.feed = computeFeedResponse(Newest(PageSize + 1), cursor)
      BY <1>7, <1>t, <2>1 DEF ReadRange, FeedPolls
    <2>3. GoesOn(polling'.feed, cursor)
      BY <1>t, <1>h, <1>r, <2>2, AnswerGoesOn
    <2>4. PollIsCurrent'
      BY <2>1, <2>2, <2>3 DEF PollIsCurrent, GoesOn, PageAt
    <2> QED
      BY <1>l, <1>w, <2>1, <2>4 DEF Steady
  <1>8. CASE Arrives
    <2>1. /\ UNCHANGED <<list, total>> /\ polling' = NoPoll /\ cursor' = polling.feed.cursor
          /\ window' = mergeEventFeedWindow(window, polling.feed)
          /\ polling.feed \in FeedAnswer
      BY <1>8, <1>t DEF Arrives, feedStore
    <2>2. GoesOn(polling.feed, cursor)
      BY <1>8, <1>a, <1>h DEF Arrives
    <2>3. ASSUME cursor' # None PROVE window' = PageAt(cursor')
      <3> DEFINE c == polling.feed.cursor
      <3>1. c \in 1..MaxRows /\ c # None
        BY <2>1, <2>3 DEF FeedAnswer
      <3>2. CASE polling.feed.reset
        <4>1. window' = FirstRows(PageAt(c), PageSize)
          BY <2>1, <2>2, <3>1, <3>2 DEF GoesOn, mergeEventFeedWindow
        <4> QED
          BY <2>1, <3>1, <4>1, FirstOfPage
      <3>3. CASE ~ polling.feed.reset
        <4>1. /\ cursor # None /\ cursor <= c
              /\ polling.feed.events = [i \in 1..(c - cursor) |-> c - i + 1]
          BY <2>2, <3>1, <3>3 DEF GoesOn
        <4>2. window = PageAt(cursor) /\ cursor \in 1..MaxRows
          BY <1>h, <1>t, <4>1 DEF WindowIsPage
        <4>3. window' = FirstRows(polling.feed.events \o window, PageSize)
          BY <2>1, <3>3 DEF mergeEventFeedWindow
        <4> QED
          BY <2>1, <3>1, <4>1, <4>2, <4>3, DeltaMakesPage
      <3> QED
        BY <3>2, <3>3
    <2>4. WindowIsPage'
      BY <2>3 DEF WindowIsPage, PageAt
    <2>5. PollIsCurrent'
      BY <2>1 DEF PollIsCurrent, NoPoll
    <2> QED
      BY <1>l, <2>1, <2>4, <2>5 DEF Steady
  <1>9. CASE PollFeedFails
    <2>1. UNCHANGED <<list, total, cursor, window>> /\ polling' = NoPoll
      BY <1>9 DEF PollFeedFails, feedStore
    <2>2. PollIsCurrent'
      BY <2>1 DEF PollIsCurrent, NoPoll
    <2> QED
      BY <1>l, <1>w, <2>1, <2>2 DEF Steady
  <1>10. CASE FlipTab \/ UNCHANGED feedVars
    BY <1>10, <1>l, <1>w, <1>q DEF FlipTab, feedVars, feedStore, feedPage, Steady
  <1>11. CASE Reload
    <2>1. UNCHANGED <<list, total>> /\ cursor' = None /\ polling' = NoPoll
      BY <1>11 DEF Reload, feedStore
    <2>2. WindowIsPage'
      BY <2>1 DEF WindowIsPage
    <2>3. PollIsCurrent'
      BY <2>1 DEF PollIsCurrent, NoPoll
    <2> QED
      BY <1>l, <2>1, <2>2, <2>3 DEF Steady
  <1> QED
    BY <1>1, <1>2, <1>3, <1>4, <1>5, <1>6, <1>7, <1>8, <1>9, <1>10, <1>11 DEF FeedNext

LEMMA FeedStep == FeedIInv /\ [FeedNext]_feedVars => FeedIInv'
  <1> SUFFICES ASSUME FeedIInv, [FeedNext]_feedVars PROVE FeedIInv'
    OBVIOUS
  <1>1. FeedTypeOK' /\ RowNearTop'
    BY FeedTypeStep, NearTopStep DEF FeedIInv
  <1>2. retries' = 0 => ListIsHistory' /\ WindowIsPage' /\ PollIsCurrent'
    BY SteadyStep DEF Steady
  <1> QED
    BY <1>1, <1>2 DEF FeedIInv

LEMMA FeedInvHolds == FeedSpec => []FeedIInv
  BY FeedStarts, FeedStep, PTL DEF FeedSpec

(* Every row of the history that is recent enough is in the list, whatever  *)
(* the order in which the writers push and trim and whichever dies between  *)
(* the two, and the page that polls shows the newest rows without a gap     *)
(* (history.ts, event-feed.ts, event-feed-window.ts).                       *)
THEOREM FeedIsSound == FeedSpec => []FeedIsHistory
  <1>1. FeedIInv => FeedIsHistory
    <2> SUFFICES ASSUME FeedIInv PROVE FeedIsHistory
      OBVIOUS
    <2>1. NewestKept
      BY DEF FeedIInv, RowNearTop, NewestKept, Range
    <2> QED
      BY <2>1 DEF FeedIInv, FeedIsHistory
  <1> QED
    BY FeedInvHolds, <1>1, PTL

-----------------------------------------------------------------------------
(* The three together *)

(* The pages share no state: whichever is explored, each behaves as its own *)
(* specification says.                                                      *)
LEMMA PagesAreApart == Spec => FeedSpec /\ CacheSpec /\ PageSpec
  <1>1. Init => FeedInit /\ CacheInit /\ PageInit
    BY DEF Init
  <1>2. [Next]_mcVars => [FeedNext]_feedVars /\ [CacheNext]_cacheVars /\ [PageNext]_pageVars
    <2>1. CASE UNCHANGED mcVars
      BY <2>1 DEF mcVars
    <2>2. CASE Next
      BY <2>2 DEF Next
    <2> QED
      BY <2>1, <2>2
  <1> QED
    BY <1>1, <1>2, PTL DEF Spec, FeedSpec, CacheSpec, PageSpec

(* The variables of all three keep their types.                             *)
THEOREM ObservatoryTypes == Spec => []Types
  <1>1. FeedIInv /\ CacheIInv /\ PageIInv => Types
    BY DEF FeedIInv, CacheIInv, PageIInv, Types
  <1>2. CacheSpec => []CacheIInv
    BY CacheStarts, CacheStep, PTL DEF CacheSpec
  <1> QED
    BY PagesAreApart, FeedInvHolds, PageInvHolds, <1>1, <1>2, PTL
================================================================================
