----------------------------- MODULE ClockProvider -----------------------------
(***************************************************************************)
(* The in-process clock provider, src/catalog/providers/clock.ts: the      *)
(* timers, the retries and the record of one armed time.at subscription,   *)
(* while the expiry timer, the recovery sweep or the connector deliver the *)
(* same subscription.  Records are objects: an attempt keeps the one it    *)
(* found, whatever the map holds by then.  deliverWake is two steps here,  *)
(* the transition and the rest (see WakeDelivery).                         *)
(***************************************************************************)
EXTENDS Integers, FiniteSets

CONSTANTS Target,     \* the subscription's `at`
          MaxTimeout, \* MAX_TIMEOUT_MS, the longest chunk
          RetryDelay, \* RETRY_DELAY_MS
          NodeLimit,  \* the longest delay setTimeout keeps
          Attempt,    \* calls of fire()
          NoState, NoTimer,
          MaxClockNow,  \* bound on the clock
          MaxClockFaults  \* bound on failing commands

ClockAssumption ==
  /\ Target \in 0..MaxClockNow /\ NodeLimit \in Nat /\ RetryDelay \in Nat \ {0}
  /\ MaxTimeout \in 1..NodeLimit
  /\ MaxClockNow \in Nat /\ MaxClockFaults \in Nat
  /\ NoState \notin 1..2

VARIABLES
  clockNow,
  clockStatus,  \* the registry's status
  clockState, \* the entry of the map: an object or NoState
  object,     \* the state objects
  pending,    \* the timers that were set and not cleared
  fire,       \* the calls of fire(), each with the object it found
  rival,      \* another delivery of the same process
  disarmed,   \* whether disarm() ran
  clockFaults

timersVars ==
  <<clockNow, clockStatus, clockState, object, pending, fire, rival, disarmed, clockFaults>>

-----------------------------------------------------------------------------
Object == 1..2
Timer == [kind : {"chunk", "retry"}, at : 0..MaxClockNow]
Fresh == [timer |-> NoTimer, cancelled |-> FALSE, inFlight |-> FALSE]
NotFiring == [at |-> "idle", state |-> NoState]

TimersTypeOK ==
  /\ clockNow \in 0..MaxClockNow
  /\ clockStatus \in {"armed", "delivering", "settled"}
  /\ clockState \in Object \cup {NoState}
  /\ object \in [Object -> [timer : Timer \cup {NoTimer}, cancelled : BOOLEAN, inFlight : BOOLEAN]]
  /\ pending \subseteq Timer
  /\ fire \in [Attempt -> [at : {"idle", "read", "transition", "deliver", "returned", "reread"},
                           state : Object \cup {NoState}]]
  /\ rival \in {"before", "armed", "delivering", "disarm", "done"}
  /\ disarmed \in BOOLEAN
  /\ clockFaults \in 0..MaxClockFaults

(* armPendingForConversation has written armed and calls arm(). *)
TimersInit ==
  /\ clockNow = 0 /\ clockStatus = "armed"
  /\ clockState = NoState
  /\ object = [o \in Object |-> Fresh]
  /\ pending = {}
  /\ fire = [c \in Attempt |-> NotFiring]
  /\ rival = "before"
  /\ disarmed = FALSE /\ clockFaults = 0

ClockFault == clockFaults < MaxClockFaults /\ clockFaults' = clockFaults + 1

-----------------------------------------------------------------------------
(* Timers *)

Least(a, b) == IF a < b THEN a ELSE b
Greatest(a, b) == IF a < b THEN b ELSE a

(* Mutant: the whole delay at once. *)
nextChunkDelay_Whole(remaining) == Greatest(remaining, 0)

nextChunkDelay(remaining) == Least(Greatest(remaining, 0), MaxTimeout)

(* Node takes a delay it cannot keep for the shortest one.  Everything is   *)
(* due at MaxNow, where the clock stops.                                    *)
DueAt(delay) == Least(MaxClockNow, clockNow + (IF delay > NodeLimit THEN 0 ELSE delay))

ChunkTimer == [kind |-> "chunk", at |-> DueAt(nextChunkDelay(Target - clockNow))]
RetryTimer == [kind |-> "retry", at |-> DueAt(RetryDelay)]

(* arm(): a fresh record, in connector mode nothing of the kind. *)
ArmClock ==
  /\ rival = "before"
  /\ rival' = "armed"
  /\ clockState' = 1
  /\ object' = [object EXCEPT ![1] = [Fresh EXCEPT !.timer = ChunkTimer]]
  /\ pending' = {ChunkTimer}
  /\ UNCHANGED <<clockNow, clockStatus, fire, disarmed, clockFaults>>

ChunkEnds(t) ==
  /\ t \in pending /\ t.kind = "chunk" /\ t.at <= clockNow /\ clockNow < Target
  /\ pending' = (pending \ {t}) \cup {ChunkTimer}
  /\ object' = [object EXCEPT ![clockState].timer = ChunkTimer]
  /\ UNCHANGED <<clockNow, clockStatus, clockState, fire, rival, disarmed, clockFaults>>

(* Mutant: a chunk that ends is taken for the target. *)
Due_AnyChunk(t) == t \in pending /\ t.at <= clockNow

Due(t) == t \in pending /\ t.at <= clockNow /\ (t.kind = "chunk" => Target <= clockNow)

-----------------------------------------------------------------------------
(* fire() *)

At(c, label) == fire[c].at = label
FireGoto(c, label) == fire' = [fire EXCEPT ![c].at = label]
State(c) == object[fire[c].state]
Exit(c) == fire' = [fire EXCEPT ![c] = NotFiring]

(* A timer's callback runs up to the first await. *)
Fire(t, c) ==
  /\ Due(t) /\ At(c, "idle")
  /\ pending' = pending \ {t}
  /\ object' = [object EXCEPT ![clockState].timer = NoTimer, ![clockState].inFlight = TRUE]
  /\ IF object[clockState].cancelled
       THEN clockState' = NoState /\ UNCHANGED fire
       ELSE /\ fire' = [fire EXCEPT ![c] = [at |-> "read", state |-> clockState]]
            /\ UNCHANGED clockState
  /\ UNCHANGED <<clockNow, clockStatus, rival, disarmed, clockFaults>>

ReadSubscription(c) ==
  /\ At(c, "read")
  /\ IF clockStatus = "armed" /\ ~State(c).cancelled
       THEN FireGoto(c, "transition") /\ UNCHANGED clockState
       ELSE Exit(c) /\ clockState' = NoState
  /\ UNCHANGED <<clockNow, clockStatus, object, pending, rival, disarmed, clockFaults>>

(* deliverWake: tryTransitionToDelivering wins, loses (skipped) or throws   *)
(* (deferred).                                                              *)
Transition(c) ==
  /\ At(c, "transition")
  /\ \/ /\ clockStatus = "armed" /\ clockStatus' = "delivering"
        /\ FireGoto(c, "deliver") /\ UNCHANGED clockFaults
     \/ clockStatus # "armed" /\ FireGoto(c, "returned") /\ UNCHANGED <<clockStatus, clockFaults>>
     \/ ClockFault /\ FireGoto(c, "returned") /\ UNCHANGED clockStatus
  /\ UNCHANGED <<clockNow, clockState, object, pending, rival, disarmed>>

(* disarm(): what is in flight cleans up after itself. *)
Disarmed(o) ==
  IF clockState = NoState
    THEN UNCHANGED <<clockState, pending>> /\ object' = o
    ELSE /\ pending' = pending \ {o[clockState].timer}
         /\ object' = [o EXCEPT ![clockState].cancelled = TRUE]
         /\ clockState' = IF o[clockState].inFlight THEN clockState ELSE NoState

(* The rest of deliverWake: the terminal write and disarm(), or an error or *)
(* a lost lease that leaves the subscription delivering.                    *)
DeliverTime(c) ==
  /\ At(c, "deliver")
  /\ \/ clockStatus' = "settled" /\ disarmed' = TRUE /\ Disarmed(object) /\ UNCHANGED clockFaults
     \/ ClockFault /\ UNCHANGED <<clockStatus, clockState, object, pending, disarmed>>
  /\ FireGoto(c, "returned")
  /\ UNCHANGED <<clockNow, rival>>

(* completed, cancelled, or the record has to be read again. *)
Returned(c) ==
  /\ At(c, "returned")
  /\ IF State(c).cancelled THEN Exit(c) /\ clockState' = NoState
                           ELSE FireGoto(c, "reread") /\ UNCHANGED clockState
  /\ UNCHANGED <<clockNow, clockStatus, object, pending, rival, disarmed, clockFaults>>

(* scheduleRetry(): the retry owns the record from here on. *)
Retry(c) ==
  /\ Exit(c)
  /\ pending' = pending \cup {RetryTimer}
  /\ object' = [object EXCEPT ![clockState].timer = RetryTimer, ![fire[c].state].inFlight = FALSE]
  /\ UNCHANGED clockState

CleanUp(c) == Exit(c) /\ clockState' = NoState /\ UNCHANGED <<object, pending>>

(* Mutant: the registry alone decides whether to try again. *)
Reread_Registry(c) ==
  /\ At(c, "reread")
  /\ IF clockStatus = "armed" THEN Retry(c)
                             ELSE Exit(c) /\ UNCHANGED <<clockState, object, pending>>
  /\ UNCHANGED <<clockNow, clockStatus, rival, disarmed, clockFaults>>

(* Mutant: nothing tries again. *)
Reread_GivesUp(c) ==
  /\ At(c, "reread") /\ CleanUp(c)
  /\ UNCHANGED <<clockNow, clockStatus, rival, disarmed, clockFaults>>

Reread(c) ==
  /\ At(c, "reread")
  /\ IF clockStatus = "armed" /\ ~State(c).cancelled THEN Retry(c) ELSE CleanUp(c)
  /\ UNCHANGED <<clockNow, clockStatus, rival, disarmed, clockFaults>>

(* Mutant: an error always retries. *)
FireThrows_Retries(c) ==
  /\ (At(c, "read") \/ At(c, "reread")) /\ ClockFault
  /\ Retry(c)
  /\ UNCHANGED <<clockNow, clockStatus, rival, disarmed>>

(* Either read of the registry throws. *)
FireThrows(c) ==
  /\ (At(c, "read") \/ At(c, "reread")) /\ ClockFault
  /\ IF State(c).cancelled THEN CleanUp(c) ELSE Retry(c)
  /\ UNCHANGED <<clockNow, clockStatus, rival, disarmed>>

-----------------------------------------------------------------------------
(* The other deliveries *)

(* The expiry timer of this process, which is set after arm(). *)
ExpiryFires ==
  /\ rival = "armed" /\ clockStatus = "armed"
  /\ clockStatus' = "delivering" /\ rival' = "delivering"
  /\ UNCHANGED <<clockNow, clockState, object, pending, fire, disarmed, clockFaults>>

(* This process's recovery sweep takes over what is stranded. *)
Recover ==
  /\ rival = "armed" /\ clockStatus = "delivering"
  /\ \A c \in Attempt : ~At(c, "deliver")
  /\ rival' = "delivering"
  /\ UNCHANGED <<clockNow, clockStatus, clockState, object, pending, fire, disarmed, clockFaults>>

RivalSettles ==
  /\ rival = "delivering"
  /\ clockStatus' = "settled" /\ rival' = "disarm"
  /\ UNCHANGED <<clockNow, clockState, object, pending, fire, disarmed, clockFaults>>

RivalDisarms ==
  /\ rival = "disarm" /\ rival' = "done"
  /\ disarmed' = TRUE /\ Disarmed(object)
  /\ UNCHANGED <<clockNow, clockStatus, fire, clockFaults>>

(* The connector delivers: disarm() of this process never runs. *)
ConnectorSettles ==
  /\ clockStatus \in {"armed", "delivering"} /\ rival \in {"before", "armed"}
  /\ \A c \in Attempt : ~At(c, "deliver")
  /\ clockStatus' = "settled"
  /\ UNCHANGED <<clockNow, clockState, object, pending, fire, rival, disarmed, clockFaults>>

Tick == /\ clockNow < MaxClockNow /\ clockNow' = clockNow + 1
        /\ UNCHANGED <<clockStatus, clockState, object, pending, fire, rival, disarmed,
                       clockFaults>>

-----------------------------------------------------------------------------
FireSteps(c) == \/ ReadSubscription(c) \/ Transition(c) \/ DeliverTime(c)
                \/ Returned(c) \/ Reread(c) \/ FireThrows(c)

Rival == ExpiryFires \/ Recover \/ RivalSettles \/ RivalDisarms \/ ConnectorSettles

TimersNext == \/ ArmClock \/ Rival \/ Tick
              \/ \E t \in pending : ChunkEnds(t) \/ \E c \in Attempt : Fire(t, c)
              \/ \E c \in Attempt : FireSteps(c)

TimersSpec == TimersInit /\ [][TimersNext]_timersVars

(* Time passes, timers that are due run, and calls run on. *)
TimersFairness ==
  /\ WF_timersVars(Tick) /\ WF_timersVars(ArmClock)
  /\ WF_timersVars(\E t \in pending : ChunkEnds(t) \/ \E c \in Attempt : Fire(t, c))
  /\ \A c \in Attempt : WF_timersVars(FireSteps(c))

TimersFairSpec == TimersSpec /\ TimersFairness

-----------------------------------------------------------------------------
(* Properties *)

Running(c) == fire[c].at # "idle"

(* "Never install a retry for a subscription the agent explicitly           *)
(* cancelled" (clock.ts): after disarm() no timer exists and none is set by *)
(* an attempt that was in flight.                                           *)
NoTimerAfterDisarm == disarmed => pending = {}

(* "no record survives past every (disarm, fire) interleaving finishing     *)
(* with no retry pending" (clock.ts, hasClockStateRecord).                  *)
NoRecordLeaks ==
  pending = {} /\ (\A c \in Attempt : ~Running(c)) => clockState = NoState

(* An armed subscription is never left without a timer or an attempt: no    *)
(* sweep looks at it.  One attempt at a time, and none before its hour.     *)
ArmedIsWatched ==
  /\ clockStatus = "armed" /\ rival # "before" =>
       pending # {} \/ \E c \in Attempt : Running(c)
  /\ \A c, d \in Attempt : Running(c) /\ Running(d) => c = d
  /\ \A c \in Attempt : Running(c) => Target <= clockNow

(* A timer that runs before the target waited a whole chunk: however far    *)
(* the target, nothing spins on a delay that setTimeout cannot keep.        *)
ChunksAreLong ==
  [][\A t \in pending' \ pending :
       t.kind = "chunk" => t.at = clockNow + MaxTimeout \/ Target <= t.at]_timersVars

(* Every armed time.at subscription is transitioned in the end, in spite of *)
(* commands that fail.                                                      *)
ClockFires == clockStatus = "armed" ~> clockStatus # "armed"

-----------------------------------------------------------------------------
(* The inductive invariant behind them *)

Nobody == \A c \in Attempt : ~ Running(c)

(* A call of fire() has the record to itself and its timer is gone. *)
FireHasTheRecord ==
  \A c \in Attempt : Running(c) =>
    /\ \A d \in Attempt : Running(d) => d = c
    /\ fire[c].state = 1 /\ clockState = 1 /\ object[1].inFlight
    /\ pending = {} /\ Target <= clockNow

(* Otherwise the record's timer is the only one, or there is no record. *)
TimerIsTheRecords ==
  Nobody =>
    IF clockState = NoState
      THEN pending = {} /\ (rival = "before" \/ clockStatus # "armed")
      ELSE /\ clockState = 1 /\ pending = {object[1].timer}
           /\ ~ object[1].inFlight /\ ~ object[1].cancelled

RetriesAreDue == \A t \in pending : t.kind = "retry" => Target <= clockNow

(* disarm() comes after the terminal write and cancels the record it leaves *)
(* to an attempt in flight.                                                 *)
DisarmCancels ==
  /\ disarmed => clockStatus = "settled" /\ (clockState = NoState \/ object[1].cancelled)
  /\ object[1].cancelled => disarmed
  /\ rival = "disarm" => clockStatus = "settled"

NotArmedYet == rival = "before" => Nobody /\ clockState = NoState /\ ~ disarmed

TimersInv ==
  /\ TimersTypeOK /\ FireHasTheRecord /\ TimerIsTheRecords /\ RetriesAreDue
  /\ DisarmCancels /\ NotArmedYet

================================================================================
