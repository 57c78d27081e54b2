-------------------------------- MODULE PollLoop --------------------------------
(***************************************************************************)
(* The self-chaining loop of the observatory's pages                       *)
(* (src/observatory/lib/poll-loop.ts, startPollLoop): a run is opaque, the *)
(* visibility of the tab may flip at any moment.  Timers and runs are      *)
(* counted, so that a second one is a state like any other.                *)
(***************************************************************************)
EXTENDS Naturals

VARIABLES
  stopped, inFlight,
  pending,   \* whether cancelTimer is set
  timers,    \* timers of this loop that are scheduled in the browser
  runs,      \* runs that have not settled
  listening, \* whether the visibilitychange listener is registered
  hidden     \* document.hidden

loop == <<stopped, inFlight, pending, timers, runs, listening, hidden>>

LoopFlags ==
  /\ stopped \in BOOLEAN /\ inFlight \in BOOLEAN /\ pending \in BOOLEAN
  /\ listening \in BOOLEAN /\ hidden \in BOOLEAN
LoopCounts == timers \in Nat /\ runs \in Nat
LoopTypeOK == LoopFlags /\ LoopCounts

(* startPollLoop: subscribes to the visibility and ticks at once. *)
LoopInit ==
  /\ hidden \in BOOLEAN
  /\ stopped = FALSE /\ pending = FALSE /\ timers = 0 /\ listening = TRUE
  /\ IF hidden THEN inFlight = FALSE /\ runs = 0 ELSE inFlight = TRUE /\ runs = 1

-----------------------------------------------------------------------------
MayRun(isHidden) == ~ (stopped \/ inFlight \/ isHidden)

(* tick(), after the caller has dropped the timer it came from. *)
Tick(isHidden) ==
  IF MayRun(isHidden) THEN inFlight' = TRUE /\ runs' = runs + 1
                      ELSE UNCHANGED <<inFlight, runs>>

(* Mutant: a flip leaves the scheduled tick where it is. *)
TimersWithout_Kept == timers

(* clearPending() *)
TimersWithout == IF pending THEN timers - 1 ELSE timers

TimerFires ==
  /\ timers > 0
  /\ timers' = timers - 1 /\ pending' = FALSE
  /\ Tick(hidden)
  /\ UNCHANGED <<stopped, listening, hidden>>

(* Mutant: a flip only drops the scheduled tick. *)
Flip_Clears ==
  /\ hidden' = ~ hidden
  /\ IF listening THEN timers' = TimersWithout /\ pending' = FALSE
                  ELSE UNCHANGED <<timers, pending>>
  /\ UNCHANGED <<stopped, listening, inFlight, runs>>

Flip ==
  /\ hidden' = ~ hidden
  /\ IF listening THEN timers' = TimersWithout /\ pending' = FALSE /\ Tick(~ hidden)
                  ELSE UNCHANGED <<timers, pending, inFlight, runs>>
  /\ UNCHANGED <<stopped, listening>>

retire ==
  /\ stopped' = TRUE
  /\ timers' = TimersWithout /\ pending' = FALSE
  /\ listening' = FALSE

(* Mutant: a stopped loop schedules the next tick all the same. *)
MaySchedule_Stopped == ~ hidden

MaySchedule == ~ stopped /\ ~ hidden

(* A run settles; over: the interval's answer is null. *)
RunEnds(over) ==
  /\ runs > 0
  /\ runs' = runs - 1 /\ inFlight' = FALSE
  /\ IF over THEN retire
     ELSE /\ IF MaySchedule THEN timers' = timers + 1 /\ pending' = TRUE
                            ELSE UNCHANGED <<timers, pending>>
          /\ UNCHANGED <<stopped, listening>>
  /\ UNCHANGED hidden

(* The effect's cleanup. *)
Stop == ~ stopped /\ retire /\ UNCHANGED <<inFlight, runs, hidden>>

LoopNext == TimerFires \/ Flip \/ Stop \/ \E over \in BOOLEAN : RunEnds(over)

LoopSpec == LoopInit /\ [][LoopNext]_loop

-----------------------------------------------------------------------------
(* Properties *)

(* One chain of runs and timers, however the tab flips: the next tick is
   scheduled once the run before has settled
   (src/observatory/lib/poll-loop.ts:8-10). *)
OneChain == runs + timers <= 1

(* A hidden tab keeps no timer (src/observatory/lib/poll-loop.ts:11-17). *)
HiddenIsQuiet == hidden => timers = 0

(* A visible loop is never stranded: it has a run or a timer unless it has
   been retired (src/observatory/lib/poll-loop.ts:107-122). *)
VisibleIsAlive == hidden \/ stopped \/ runs + timers = 1

(* A retired loop starts nothing: not from a timer, not from a flip, and not
   when the run that was under way settles
   (src/observatory/lib/poll-loop.ts:90-97). *)
RetiredForGood == [][stopped => stopped' /\ runs' <= runs /\ timers' <= timers]_loop

(* The inductive invariant: the flags tell of the run and the timer that are
   there, and a retired loop has no timer and does not listen. *)
LoopInv ==
  /\ LoopCounts /\ OneChain /\ HiddenIsQuiet /\ VisibleIsAlive
  /\ (inFlight <=> runs = 1) /\ (pending <=> timers = 1)
  /\ (listening <=> ~ stopped) /\ (stopped => timers = 0)

(* A loop that stays visible runs again and again
   (src/observatory/lib/poll-loop.ts:64-66). *)
KeepsRunning == <>[](~ hidden /\ ~ stopped) => []<>(runs = 1)
================================================================================
