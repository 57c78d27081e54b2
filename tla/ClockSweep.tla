------------------------------- MODULE ClockSweep -------------------------------
(***************************************************************************)
(* The durable clock sweep: src/catalog/providers/clock-sweep.ts over the  *)
(* due index of clock-redis.ts, with the connector half of clock.ts's      *)
(* arm() and disarm(), driven by src/connector/workflows/clock-sweep.ts.   *)
(* Index and registry are different keys: every command is a step, and     *)
(* ticks of two chains may overlap.                                        *)
(***************************************************************************)
EXTENDS Integers, FiniteSets

CONSTANTS ClockSub,
          At,        \* params.at of every subscription, as an instant
          Malformed, \* armed rows whose params.at is no datetime
          Ghost,     \* members of the index that are no subscriptions
          ClockTick,  \* overlapping ticks
          NoRow,
          MaxClockNow,  \* bound on the clock
          MaxClockFaults  \* bound on failed commands and crashes

ClockSweepAssumption ==
  /\ At \in [ClockSub -> 0..MaxClockNow] /\ MaxClockNow \in Nat /\ MaxClockFaults \in Nat
  /\ Malformed \subseteq ClockSub /\ Ghost \subseteq ClockSub /\ Malformed \cap Ghost = {}
  /\ NoRow \notin ClockSub

VARIABLES
  clockNow,
  status,    \* the registry
  clockDue,  \* members of catalog:clock-due, scored with At
  arming,    \* where the arm of each subscription is
  settling,  \* subscriptions whose delivery goes on elsewhere
  clockPc,   \* where each tick is
  nowMs,     \* the instant a tick works with
  clockListed,  \* armed rows a tick still reconciles
  clockTodo,  \* due rows a tick still looks at
  batch,     \* of those, the rows its batch read found
  row,       \* the row it is at
  clockFaults

clockTick == <<clockPc, nowMs, clockListed, clockTodo, batch, row>>
clockVars == <<clockNow, status, clockDue, arming, settling, clockTick, clockFaults>>

-----------------------------------------------------------------------------
ClockTypeOK ==
  /\ clockNow \in 0..MaxClockNow
  /\ status \in [ClockSub -> {"none", "pending", "armed", "delivering", "settled"}]
  /\ clockDue \subseteq ClockSub
  /\ arming \in [ClockSub -> {"ready", "index", "done"}]
  /\ settling \subseteq ClockSub
  /\ clockPc \in [ClockTick -> {"idle", "list", "reconcile", "due", "batch", "rows",
                                "deliver", "recheck", "remove"}]
  /\ nowMs \in [ClockTick -> 0..MaxClockNow]
  /\ clockListed \in [ClockTick -> SUBSET ClockSub]
  /\ clockTodo \in [ClockTick -> SUBSET ClockSub] /\ batch \in [ClockTick -> SUBSET ClockSub]
  /\ row \in [ClockTick -> ClockSub \cup {NoRow}]
  /\ clockFaults \in 0..MaxClockFaults

(* Malformed rows and ghosts are in the index from before the guards. *)
ClockInit ==
  /\ clockNow = 0
  /\ status = [s \in ClockSub |-> IF s \in Ghost THEN "none"
                                  ELSE IF s \in Malformed THEN "armed" ELSE "pending"]
  /\ clockDue = Ghost \cup Malformed
  /\ arming = [s \in ClockSub |-> IF s \in Ghost \cup Malformed THEN "done" ELSE "ready"]
  /\ settling = {}
  /\ clockPc = [t \in ClockTick |-> "idle"]
  /\ nowMs = [t \in ClockTick |-> 0]
  /\ clockListed = [t \in ClockTick |-> {}]
  /\ clockTodo = [t \in ClockTick |-> {}] /\ batch = [t \in ClockTick |-> {}]
  /\ row = [t \in ClockTick |-> NoRow]
  /\ clockFaults = 0

ClockFault == clockFaults < MaxClockFaults /\ clockFaults' = clockFaults + 1
ClockGoto(t, label) == clockPc' = [clockPc EXCEPT ![t] = label]
addClockDue(s) == clockDue' = clockDue \cup {s}
removeClockDue(s) == clockDue' = clockDue \ {s}

-----------------------------------------------------------------------------
(* The subscriptions *)

ClockAdvance == /\ clockNow < MaxClockNow /\ clockNow' = clockNow + 1
                /\ UNCHANGED <<status, clockDue, arming, settling, clockTick, clockFaults>>

(* armPendingForConversation writes armed, then arm() adds to the index.    *)
WriteArmed(s) ==
  /\ arming[s] = "ready"
  /\ status' = [status EXCEPT ![s] = "armed"]
  /\ arming' = [arming EXCEPT ![s] = "index"]
  /\ UNCHANGED <<clockNow, clockDue, settling, clockTick, clockFaults>>

(* In a crash, the row stays armed and never gets into the index this way.  *)
ArmIndexes(s) ==
  /\ arming[s] = "index"
  /\ \/ addClockDue(s) /\ UNCHANGED clockFaults
     \/ ClockFault /\ UNCHANGED clockDue
  /\ arming' = [arming EXCEPT ![s] = "done"]
  /\ UNCHANGED <<clockNow, status, settling, clockTick>>

(* Another deliverer: the expiry, say. *)
RivalTransition(s) ==
  /\ status[s] = "armed" /\ s \notin Malformed
  /\ status' = [status EXCEPT ![s] = "delivering"]
  /\ settling' = settling \cup {s}
  /\ UNCHANGED <<clockNow, clockDue, arming, clockTick, clockFaults>>

(* The terminal write of whoever delivers, eve with disarm() after it. *)
SettleRow(s) ==
  /\ status[s] = "delivering"
  /\ status' = [status EXCEPT ![s] = "settled"]
  /\ UNCHANGED <<clockNow, clockDue, arming, settling, clockTick, clockFaults>>

Disarm(s) ==
  /\ status[s] = "settled" /\ s \in settling
  /\ settling' = settling \ {s}
  /\ \/ removeClockDue(s) /\ UNCHANGED clockFaults
     \/ ClockFault /\ UNCHANGED clockDue
  /\ UNCHANGED <<clockNow, status, arming, clockTick>>

-----------------------------------------------------------------------------
(* runClockSweepTick *)

StartTick(t) ==
  /\ clockPc[t] = "idle"
  /\ nowMs' = [nowMs EXCEPT ![t] = clockNow]
  /\ ClockGoto(t, "list")
  /\ UNCHANGED <<clockNow, status, clockDue, arming, settling, clockListed, clockTodo, batch,
                 row, clockFaults>>

(* The tick is over: what it held is gone. *)
EndTick(t) ==
  /\ ClockGoto(t, "idle")
  /\ clockListed' = [clockListed EXCEPT ![t] = {}]
  /\ clockTodo' = [clockTodo EXCEPT ![t] = {}] /\ batch' = [batch EXCEPT ![t] = {}]
  /\ row' = [row EXCEPT ![t] = NoRow]
  /\ UNCHANGED nowMs

(* Mutant: nothing is reconciled. *)
ListArmed_None(t) ==
  /\ clockPc[t] = "list" /\ ClockGoto(t, "reconcile")
  /\ UNCHANGED <<clockNow, status, clockDue, arming, settling, nowMs, clockListed, clockTodo,
                 batch, row, clockFaults>>

ListArmed(t) ==
  /\ clockPc[t] = "list"
  /\ clockListed' = [clockListed EXCEPT ![t] = {s \in ClockSub : status[s] = "armed"}]
  /\ ClockGoto(t, "reconcile")
  /\ UNCHANGED <<clockNow, status, clockDue, arming, settling, nowMs, clockTodo, batch, row,
                 clockFaults>>

(* clockDueMsOf answers null for a malformed row. *)
Valid(s) == s \notin Malformed

Reconcile(t) ==
  /\ clockPc[t] = "reconcile"
  /\ \/ /\ clockListed[t] = {} /\ ClockGoto(t, "due")
        /\ UNCHANGED <<clockDue, clockListed>>
     \/ \E s \in clockListed[t] :
          /\ clockListed' = [clockListed EXCEPT ![t] = @ \ {s}]
          /\ IF Valid(s) THEN addClockDue(s) ELSE UNCHANGED clockDue
          /\ UNCHANGED clockPc
  /\ UNCHANGED <<clockNow, status, arming, settling, nowMs, clockTodo, batch, row, clockFaults>>

(* Mutant: the whole index, as if everything in it were due. *)
ReadDue_All(t) ==
  /\ clockPc[t] = "due"
  /\ clockTodo' = [clockTodo EXCEPT ![t] = clockDue]
  /\ ClockGoto(t, IF clockTodo'[t] = {} THEN "idle" ELSE "batch")
  /\ UNCHANGED <<clockNow, status, clockDue, arming, settling, nowMs, clockListed, batch, row,
                 clockFaults>>

ReadDue(t) ==
  /\ clockPc[t] = "due"
  /\ clockTodo' = [clockTodo EXCEPT ![t] = {s \in clockDue : At[s] <= nowMs[t]}]
  /\ ClockGoto(t, IF clockTodo'[t] = {} THEN "idle" ELSE "batch")
  /\ UNCHANGED <<clockNow, status, clockDue, arming, settling, nowMs, clockListed, batch, row,
                 clockFaults>>

ReadBatch(t) ==
  /\ clockPc[t] = "batch"
  /\ batch' = [batch EXCEPT ![t] = {s \in clockTodo[t] : status[s] # "none"}]
  /\ ClockGoto(t, "rows")
  /\ UNCHANGED <<clockNow, status, clockDue, arming, settling, nowMs, clockListed, clockTodo,
                 row, clockFaults>>

(* Mutant: a malformed row ends the tick. *)
NextDueRow_Aborts(t) ==
  /\ clockPc[t] = "rows"
  /\ IF clockTodo[t] \cap batch[t] \cap Malformed # {}
       THEN EndTick(t) /\ UNCHANGED clockDue
       ELSE \/ clockTodo[t] = {} /\ EndTick(t) /\ UNCHANGED clockDue
            \/ \E s \in clockTodo[t] :
                 /\ clockTodo' = [clockTodo EXCEPT ![t] = @ \ {s}]
                 /\ IF s \in batch[t]
                      THEN /\ row' = [row EXCEPT ![t] = s] /\ ClockGoto(t, "deliver")
                           /\ UNCHANGED clockDue
                      ELSE removeClockDue(s) /\ UNCHANGED <<clockPc, row>>
                 /\ UNCHANGED <<nowMs, clockListed, batch>>
  /\ UNCHANGED <<clockNow, status, arming, settling, clockFaults>>

(* A row that is gone or malformed leaves the index, if the command works.  *)
NextDueRow(t) ==
  /\ clockPc[t] = "rows"
  /\ \/ clockTodo[t] = {} /\ EndTick(t) /\ UNCHANGED <<clockDue, clockFaults>>
     \/ \E s \in clockTodo[t] :
          /\ clockTodo' = [clockTodo EXCEPT ![t] = @ \ {s}]
          /\ IF s \in batch[t] /\ Valid(s)
               THEN /\ row' = [row EXCEPT ![t] = s] /\ ClockGoto(t, "deliver")
                    /\ UNCHANGED <<clockDue, clockFaults>>
               ELSE /\ \/ removeClockDue(s) /\ UNCHANGED clockFaults
                       \/ ClockFault /\ UNCHANGED clockDue
                    /\ UNCHANGED <<clockPc, row>>
          /\ UNCHANGED <<nowMs, clockListed, batch>>
  /\ UNCHANGED <<clockNow, status, arming, settling>>

(* deliver(): wins the transition, loses it, or throws before it.  The      *)
(* batch read's row is only a name here: the swap decides.                  *)
DeliverRow(t) ==
  /\ clockPc[t] = "deliver"
  /\ LET s == row[t] IN
     \/ /\ status[s] = "armed"
        /\ status' = [status EXCEPT ![s] = "delivering"]
        /\ UNCHANGED clockFaults
     \/ status[s] # "armed" /\ UNCHANGED <<status, clockFaults>>
     \/ ClockFault /\ UNCHANGED status
  /\ ClockGoto(t, "recheck")
  /\ UNCHANGED <<clockNow, clockDue, arming, settling, nowMs, clockListed, clockTodo, batch, row>>

LeaveRow(t) == ClockGoto(t, "rows") /\ row' = [row EXCEPT ![t] = NoRow]

(* Mutant: a delivery that was attempted is done with. *)
Recheck_Trusts(t) ==
  /\ clockPc[t] = "recheck" /\ ClockGoto(t, "remove")
  /\ UNCHANGED <<clockNow, status, clockDue, arming, settling, nowMs, clockListed, clockTodo,
                 batch, row, clockFaults>>

(* Mutant: the row is only read again if somebody else delivered it. *)
Recheck_Skips(t) ==
  /\ clockPc[t] = "recheck" /\ LeaveRow(t)
  /\ UNCHANGED <<clockNow, status, clockDue, arming, settling, nowMs, clockListed, clockTodo,
                 batch, clockFaults>>

(* The finally block reads the row again. *)
Recheck(t) ==
  /\ clockPc[t] = "recheck"
  /\ \/ status[row[t]] # "armed" /\ ClockGoto(t, "remove") /\ UNCHANGED <<row, clockFaults>>
     \/ status[row[t]] = "armed" /\ LeaveRow(t) /\ UNCHANGED clockFaults
     \/ ClockFault /\ LeaveRow(t)
  /\ UNCHANGED <<clockNow, status, clockDue, arming, settling, nowMs, clockListed, clockTodo,
                 batch>>

Remove(t) ==
  /\ clockPc[t] = "remove"
  /\ \/ removeClockDue(row[t]) /\ UNCHANGED clockFaults
     \/ ClockFault /\ UNCHANGED clockDue
  /\ LeaveRow(t)
  /\ UNCHANGED <<clockNow, status, arming, settling, nowMs, clockListed, clockTodo, batch>>

(* A command outside the rows fails, or the process dies: the tick is over. *)
TickFails(t) ==
  /\ clockPc[t] # "idle" /\ ClockFault
  /\ EndTick(t)
  /\ UNCHANGED <<clockNow, status, clockDue, arming, settling>>

-----------------------------------------------------------------------------
ClockTickSteps(t) == \/ ListArmed(t) \/ Reconcile(t) \/ ReadDue(t) \/ ReadBatch(t)
                     \/ NextDueRow(t) \/ DeliverRow(t) \/ Recheck(t) \/ Remove(t)

ClockNext == \/ ClockAdvance
             \/ \E s \in ClockSub : \/ WriteArmed(s) \/ ArmIndexes(s) \/ RivalTransition(s)
                                    \/ SettleRow(s) \/ Disarm(s)
             \/ \E t \in ClockTick : StartTick(t) \/ ClockTickSteps(t) \/ TickFails(t)

ClockSpec == ClockInit /\ [][ClockNext]_clockVars

(* The workflow sweeps every 30 seconds, a tick runs on, time passes and    *)
(* deliveries that began are settled by the recovery sweeps.                *)
ClockFairness ==
  /\ WF_clockVars(ClockAdvance)
  /\ \A t \in ClockTick : WF_clockVars(StartTick(t)) /\ WF_clockVars(ClockTickSteps(t))
  /\ \A s \in ClockSub : WF_clockVars(SettleRow(s))

ClockFairSpec == ClockSpec /\ ClockFairness

-----------------------------------------------------------------------------
(* Properties *)

(* "keeps a row that's still legitimately due from being silently dropped   *)
(* from the sweep" (clock-sweep.ts): only what is malformed or no longer    *)
(* armed leaves the index, whoever removes it and however late.             *)
LiveRowsStayIndexed ==
  [][\A s \in clockDue \ clockDue' : status[s] # "armed" \/ s \in Malformed]_clockVars

(* No wake before its hour, and none for a malformed row. *)
NeverEarly ==
  \A t \in ClockTick : clockPc[t] = "deliver" => At[row[t]] <= clockNow /\ Valid(row[t])

(* Every armed subscription is delivered, also one whose arm() died before  *)
(* it reached the index, and whatever malformed rows share the tick.        *)
DueWakes == \A s \in ClockSub \ (Malformed \cup Ghost) : status[s] = "armed" ~> status[s] # "armed"

(* What is settled leaves the index, also when a slow reconciliation puts   *)
(* it back.                                                                 *)
IndexDrains == \A s \in ClockSub : status[s] \in {"settled", "none"} ~> s \notin clockDue

-----------------------------------------------------------------------------
(* The inductive invariant behind LiveRowsStayIndexed and NeverEarly *)

InRow(t) == clockPc[t] \in {"deliver", "recheck", "remove"}

(* Index, lists and ticks know only subscriptions whose armed record has    *)
(* been written; it is written once, so that none of them comes to life     *)
(* again.                                                                   *)
KnownIsWritten ==
  \A s \in ClockSub : arming[s] = "ready" =>
    /\ status[s] # "armed" /\ s \notin clockDue
    /\ \A t \in ClockTick : s \notin clockListed[t] /\ s \notin clockTodo[t] /\ s # row[t]

(* What a tick is about to remove is not armed.                             *)
RemovesTheDead ==
  \A t \in ClockTick :
    /\ clockPc[t] = "rows" \/ InRow(t) => \A s \in clockTodo[t] \ batch[t] : status[s] # "armed"
    /\ clockPc[t] = "remove" => status[row[t]] # "armed"

(* What a tick looks at was due when the tick began.                        *)
LooksAtDue ==
  \A t \in ClockTick :
    /\ nowMs[t] <= clockNow
    /\ clockPc[t] \in {"batch", "rows"} \/ InRow(t) => \A s \in clockTodo[t] : At[s] <= nowMs[t]
    /\ InRow(t) => row[t] \in ClockSub /\ At[row[t]] <= nowMs[t] /\ Valid(row[t])

ClockInv == ClockTypeOK /\ KnownIsWritten /\ RemovesTheDead /\ LooksAtDue
================================================================================
