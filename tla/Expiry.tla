--------------------------------- MODULE Expiry ---------------------------------
(***************************************************************************)
(* When a subscription expires: the expiry index that                      *)
(* src/catalog/registry.ts writes next to every record, the in-process     *)
(* timer of src/catalog/wake.ts and the durable sweep of                   *)
(* src/catalog/providers/expiry-sweep.ts.  A record, its membership of the *)
(* list of subscriptions and its place in the expiry index are three       *)
(* commands; a process may die between any two.  What happens inside a     *)
(* delivery is WakeDelivery's matter: here it is a transition and a        *)
(* terminal write.                                                         *)
(***************************************************************************)
EXTENDS Integers, FiniteSets

CONSTANTS Sub,            \* subscriptions
          Expires,        \* those with an expiresAt
          Poison,         \* those whose delivery always throws
          Deadline,       \* expiresAt of each
          MaxTimeout,     \* the longest delay setTimeout honours
          MaxExpiryNow,   \* bound on the clock
          MaxCrashes      \* bound on restarts of the eve process

ExpiryAssumption ==
  /\ Expires \subseteq Sub /\ Poison \subseteq Sub
  /\ Deadline \in [Sub -> Nat] /\ MaxTimeout \in Nat
  /\ MaxExpiryNow \in Nat /\ MaxCrashes \in Nat

VARIABLES
  expiryNow,
  record,    \* the status in the record, "none" before it exists
  reason,    \* the deliverReason of a delivering record, the reason of a settled one
  listed,    \* catalog:subs
  due,       \* catalog:expiry-index
  handler,   \* where the tool call or turn.completed handler is
  timer,     \* when the in-process timer fires, or NoTimer
  attempt,   \* where each actor's delivery of a subscription is
  todo,      \* rows the sweep has yet to deliver
  crashes

registry == <<record, reason, listed, due>>
expiryVars == <<expiryNow, registry, handler, timer, attempt, todo, crashes>>

-----------------------------------------------------------------------------
NoTimer == MaxExpiryNow + 1
Terminal == {"fired", "expired", "failed"}
Actor == {"provider", "timer", "sweep"}

(* Before each command of a write: the record, the list, the index. *)
Handler == {"none", "create", "createList", "createIndex", "ended",
            "arm", "armList", "armIndex", "provider", "schedule", "done"}
Attempt == {"idle", "transition", "settle", "settleList", "settleIndex"}

ExpiryTypeOK ==
  /\ expiryNow \in 0..MaxExpiryNow
  /\ record \in [Sub -> {"none", "pending", "armed", "delivering"} \cup Terminal]
  /\ reason \in [Sub -> {"none", "fired", "expired"}]
  /\ listed \subseteq Sub /\ due \subseteq Sub
  /\ handler \in [Sub -> Handler]
  /\ timer \in [Sub -> Nat]
  /\ attempt \in [Sub -> [Actor -> Attempt]]
  /\ todo \subseteq Sub
  /\ crashes \in 0..MaxCrashes

ExpiryInit ==
  /\ expiryNow = 0
  /\ record = [s \in Sub |-> "none"]
  /\ reason = [s \in Sub |-> "none"]
  /\ listed = {} /\ due = {} /\ todo = {} /\ crashes = 0
  /\ handler = [s \in Sub |-> "create"]
  /\ timer = [s \in Sub |-> NoTimer]
  /\ attempt = [s \in Sub |-> [a \in Actor |-> "idle"]]

-----------------------------------------------------------------------------
(* writeSubscription: SET, SADD, then ZADD or ZREM by the status written *)

SetRecord(s, status) == record' = [record EXCEPT ![s] = status]
AddToList(s) == listed' = listed \cup {s}

(* Mutant: the expiry index is left to somebody else. *)
WriteIndex_Never(s, status) == due' = due \ {s}

WriteIndex(s, status) ==
  due' = IF status = "armed" /\ s \in Expires THEN due \cup {s} ELSE due \ {s}

HandlerAt(s, from, to) ==
  /\ handler[s] = from
  /\ handler' = [handler EXCEPT ![s] = to]

(* createSubscription, called by the subscribe_event tool. *)
Create(s) ==
  /\ \/ /\ HandlerAt(s, "create", "createList")
        /\ SetRecord(s, "pending") /\ UNCHANGED <<listed, due>>
     \/ /\ HandlerAt(s, "createList", "createIndex")
        /\ AddToList(s) /\ UNCHANGED <<record, due>>
     \/ /\ HandlerAt(s, "createIndex", "ended")
        /\ WriteIndex(s, "pending") /\ UNCHANGED <<record, listed>>
  /\ UNCHANGED <<expiryNow, reason, timer, attempt, todo, crashes>>

(* turn.completed finds the subscription listed as pending and arms it. *)
BeginArm(s) ==
  /\ s \in listed /\ record[s] = "pending"
  /\ HandlerAt(s, "ended", "arm")
  /\ UNCHANGED <<expiryNow, registry, timer, attempt, todo, crashes>>

Arm(s) ==
  /\ \/ /\ HandlerAt(s, "arm", "armList")
        /\ SetRecord(s, "armed") /\ UNCHANGED <<listed, due>>
     \/ /\ HandlerAt(s, "armList", "armIndex")
        /\ AddToList(s) /\ UNCHANGED <<record, due>>
     \/ /\ HandlerAt(s, "armIndex", "provider")
        /\ WriteIndex(s, "armed") /\ UNCHANGED <<record, listed>>
     \/ /\ HandlerAt(s, "provider", "schedule")   \* provider.arm
        /\ UNCHANGED <<record, listed, due>>
  /\ UNCHANGED <<expiryNow, reason, timer, attempt, todo, crashes>>

(* Node fires a timer at once when the delay exceeds 2^31 - 1 ms. *)
SetTimeout(delay) == expiryNow + (IF delay > MaxTimeout \/ delay < 0 THEN 0 ELSE delay)

ScheduleExpiry(s) ==
  /\ HandlerAt(s, "schedule", "done")
  /\ timer' = [timer EXCEPT ![s] =
                 IF s \in Expires THEN SetTimeout(Deadline[s] - expiryNow) ELSE @]
  /\ UNCHANGED <<expiryNow, registry, attempt, todo, crashes>>

-----------------------------------------------------------------------------
(* Deliveries *)

AttemptAt(s, a, label) == attempt[s][a] = label
AttemptGoto(s, a, label) == attempt' = [attempt EXCEPT ![s][a] = label]

(* A tick reaches the eve process's watcher.  A poison delivery throws here *)
(* too, before it changes anything.                                         *)
ProviderFires(s) ==
  /\ handler[s] \in {"schedule", "done"} /\ record[s] = "armed"
  /\ AttemptAt(s, "provider", "idle")
  /\ s \notin Poison
  /\ AttemptGoto(s, "provider", "transition")
  /\ UNCHANGED <<expiryNow, registry, handler, timer, todo, crashes>>

(* expire(): an armed record is delivered, any other left alone. *)
TimerFires(s) ==
  /\ timer[s] <= expiryNow /\ AttemptAt(s, "timer", "idle")
  /\ timer' = [timer EXCEPT ![s] = NoTimer]
  /\ IF record[s] = "armed" /\ s \notin Poison THEN AttemptGoto(s, "timer", "transition")
                                               ELSE UNCHANGED attempt
  /\ UNCHANGED <<expiryNow, registry, handler, todo, crashes>>

(* Mutant: the whole index is read, not what is due. *)
DueNow_All == due

(* readDueExpirySubscriptionIds. *)
DueNow == {s \in due : Deadline[s] <= expiryNow}

(* A tick of the durable sweep reads the ids that are due. *)
SweepReads ==
  /\ todo = {} /\ \A s \in Sub : AttemptAt(s, "sweep", "idle")
  /\ DueNow # {} /\ todo' = DueNow
  /\ UNCHANGED <<expiryNow, registry, handler, timer, attempt, crashes>>

(* The batch read fails: this tick delivers nothing. *)
SweepBatchFails ==
  /\ todo # {} /\ todo' = {}
  /\ UNCHANGED <<expiryNow, registry, handler, timer, attempt, crashes>>

(* Rows come in the order of their scores. *)
NextRow(s) == /\ s \in todo /\ \A q \in todo : Deadline[s] <= Deadline[q]
              /\ \A q \in Sub : AttemptAt(q, "sweep", "idle")

(* Mutant: an exception ends the round. *)
SweepRow_Aborts(s) ==
  /\ NextRow(s)
  /\ IF s \in Poison THEN todo' = {} /\ UNCHANGED attempt
                     ELSE todo' = todo \ {s} /\ AttemptGoto(s, "sweep", "transition")
  /\ UNCHANGED <<expiryNow, registry, handler, timer, crashes>>

(* One row after the other; a poison row is logged and skipped. *)
SweepRow(s) ==
  /\ NextRow(s)
  /\ todo' = todo \ {s}
  /\ IF s \in Poison THEN UNCHANGED attempt ELSE AttemptGoto(s, "sweep", "transition")
  /\ UNCHANGED <<expiryNow, registry, handler, timer, crashes>>

Cause(a) == IF a = "provider" THEN "fired" ELSE "expired"

(* tryTransitionToDelivering: a raw SET, which leaves the index alone. The  *)
(* loser works for the established reason, unless the record is terminal.   *)
Transition(s, a) ==
  /\ AttemptAt(s, a, "transition")
  /\ \/ /\ record[s] \in {"pending", "armed"}
        /\ SetRecord(s, "delivering")
        /\ reason' = [reason EXCEPT ![s] = Cause(a)]
        /\ timer' = [timer EXCEPT ![s] = IF a = "sweep" THEN @ ELSE NoTimer]
        /\ AttemptGoto(s, a, "settle")
     \/ /\ record[s] = "delivering"
        /\ AttemptGoto(s, a, "settle") /\ UNCHANGED <<record, reason, timer>>
     \/ /\ record[s] \in Terminal
        /\ AttemptGoto(s, a, "idle") /\ UNCHANGED <<record, reason, timer>>
  /\ UNCHANGED <<expiryNow, listed, due, handler, todo, crashes>>

Settle(s, a) ==
  /\ \/ /\ AttemptAt(s, a, "settle")
        /\ SetRecord(s, reason[s]) /\ AttemptGoto(s, a, "settleList") /\ UNCHANGED <<listed, due>>
     \/ /\ AttemptAt(s, a, "settleList")
        /\ AddToList(s) /\ AttemptGoto(s, a, "settleIndex") /\ UNCHANGED <<record, due>>
     \/ /\ AttemptAt(s, a, "settleIndex")
        /\ WriteIndex(s, reason[s]) /\ AttemptGoto(s, a, "idle") /\ UNCHANGED <<record, listed>>
  /\ UNCHANGED <<expiryNow, reason, handler, timer, todo, crashes>>

-----------------------------------------------------------------------------
(* The eve process restarts: its handlers, timers and deliveries are gone,  *)
(* whatever command they had reached.  A subscription still pending is      *)
(* armed by a later turn.                                                   *)
EveRestarts ==
  /\ crashes < MaxCrashes /\ crashes' = crashes + 1
  /\ handler' = [s \in Sub |-> IF handler[s] \in {"create", "ended"} THEN handler[s]
                               ELSE IF record[s] = "pending" THEN "ended" ELSE "none"]
  /\ timer' = [s \in Sub |-> NoTimer]
  /\ attempt' = [s \in Sub |-> [a \in Actor |->
                   IF a = "sweep" THEN attempt[s][a] ELSE "idle"]]
  /\ UNCHANGED <<expiryNow, registry, todo>>

ExpiryTick == /\ expiryNow < MaxExpiryNow /\ expiryNow' = expiryNow + 1
              /\ UNCHANGED <<registry, handler, timer, attempt, todo, crashes>>

HandlerSteps(s) == Create(s) \/ BeginArm(s) \/ Arm(s) \/ ScheduleExpiry(s)
DeliverExpiry(s, a) == Transition(s, a) \/ Settle(s, a)

ExpiryNext == \/ \E s \in Sub : \/ HandlerSteps(s) \/ ProviderFires(s) \/ TimerFires(s) \/ SweepRow(s)
                                \/ \E a \in Actor : DeliverExpiry(s, a)
              \/ SweepReads \/ SweepBatchFails \/ EveRestarts \/ ExpiryTick

ExpirySpec == ExpiryInit /\ [][ExpiryNext]_expiryVars

(* A handler runs on, time passes, the durable sweep keeps going round, and *)
(* its batch read does not fail for ever.                                   *)
ExpiryFairness ==
  /\ WF_expiryVars(ExpiryTick) /\ WF_expiryVars(SweepReads)
  /\ \A s \in Sub : /\ WF_expiryVars(Arm(s)) /\ WF_expiryVars(DeliverExpiry(s, "sweep"))
                    /\ SF_expiryVars(SweepRow(s))

ExpiryFairSpec == ExpirySpec /\ ExpiryFairness

-----------------------------------------------------------------------------
(* Properties *)

(* "armed -> expired if expiresAt passes first" (types.ts): nobody is told  *)
(* that a subscription expired before its deadline.                         *)
NeverExpiresEarly ==
  \A s \in Sub : reason[s] = "expired" => s \in Expires /\ expiryNow >= Deadline[s]

(* The eve process died in the middle of arming s: the record was written,  *)
(* the expiry index was not, and nobody comes back to it.                   *)
Torn(s) == record[s] = "armed" /\ handler[s] = "none" /\ s \notin due

(* An armed subscription with a deadline does not stay armed for ever,      *)
(* although the eve process and its timers may be gone, a row of the same   *)
(* sweep always throws, and batch reads fail now and then; unless a crash   *)
(* left it torn (src/catalog/registry.ts:46-62).                            *)
ArmedEnds ==
  \A s \in Expires \ Poison : record[s] = "armed" ~> record[s] # "armed" \/ Torn(s)

-----------------------------------------------------------------------------
(* The inductive invariant behind NeverExpiresEarly *)

(* No deadline is farther away than a timer can wait.                       *)
DeadlinesAreNear == \A s \in Expires : Deadline[s] <= MaxTimeout

Late(s) == s \in Expires /\ Deadline[s] <= expiryNow

(* Who works for an expiry is late already, or a timer that will be: the    *)
(* index holds nobody without a deadline, the sweep takes only rows that    *)
(* are due, a timer is set for the deadline or for later.                   *)
WorksForTheLate ==
  /\ due \subseteq Expires
  /\ \A s \in todo : Late(s)
  /\ \A s \in Sub : timer[s] # NoTimer => s \in Expires /\ Deadline[s] <= timer[s]
  /\ \A s \in Sub, a \in {"timer", "sweep"} : AttemptAt(s, a, "transition") => Late(s)

ExpiryInv == ExpiryTypeOK /\ WorksForTheLate /\ NeverExpiresEarly
================================================================================
