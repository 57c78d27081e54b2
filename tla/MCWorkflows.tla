------------------------------- MODULE MCWorkflows -------------------------------
(***************************************************************************)
(* Small instances of the connector's workflows: the chain that keeps one  *)
(* running, and the expiry, EDGAR and clock sweeps that run in one.  They  *)
(* share no state, so one run explores them one at a time: Init chooses    *)
(* `explored`, the others stand still.                                     *)
(***************************************************************************)
EXTENDS RunForever, Expiry, EdgarSweep, ClockSweep

VARIABLE explored

mcVars == <<explored, chainVars, expiryVars, edgarVars, clockVars>>

ASSUME WorkflowsAssumption ==
  ToleranceAssumption /\ RunAssumption /\ ExpiryAssumption /\ EdgarAssumption /\ ClockSweepAssumption

(* Values of the constants that are functions, for the cfgs. *)
Deadlines == [s \in Sub |-> IF s = "b" THEN 1 ELSE 2]
SoonDue == [s \in Sub |-> IF s = "b" THEN 0 ELSE 1]
OneCompany == [x \in EdgarSub \cup Filing |-> "c"]
TwoCompanies == [x \in EdgarSub \cup Filing |-> IF x = "b" THEN "d" ELSE "c"]
EveryFiling == [s \in EdgarSub |-> Filing]
Hours == [s \in ClockSub |-> IF s = "a" THEN 1 ELSE 0]
AllDue == [s \in ClockSub |-> 0]

-----------------------------------------------------------------------------
Init ==
  /\ explored \in {"chain", "expiry", "edgar", "clock"}
  /\ ChainInit /\ ExpiryInit /\ EdgarInit /\ ClockInit

(* One component steps, the others stand still. *)
Next ==
  \/ explored = "chain" /\ ChainNext /\ UNCHANGED <<explored, expiryVars, edgarVars, clockVars>>
  \/ explored = "expiry" /\ ExpiryNext /\ UNCHANGED <<explored, chainVars, edgarVars, clockVars>>
  \/ explored = "edgar" /\ EdgarNext /\ UNCHANGED <<explored, chainVars, expiryVars, clockVars>>
  \/ explored = "clock" /\ ClockNext /\ UNCHANGED <<explored, chainVars, expiryVars, edgarVars>>

Spec == Init /\ [][Next]_mcVars

(* What the component that is explored assumes of its scheduling. *)
Fairness ==
  \/ explored = "chain" /\ ChainFairness
  \/ explored = "expiry" /\ ExpiryFairness
  \/ explored = "edgar" /\ EdgarFairness
  \/ explored = "clock" /\ ClockFairness

FairSpec == Spec /\ Fairness

-----------------------------------------------------------------------------
(* Properties of the components; ChainsDoNotMultiply, NothingSwallowed and
   LiveRowsStayIndexed are their own *)

(* Every variable keeps its type. *)
Types == ChainTypeOK /\ ExpiryTypeOK /\ EdgarTypeOK /\ ClockTypeOK

(* No sweep is ahead of its time: nothing expires before its deadline, no
   hour is delivered before it has come, no filing wakes a subscription that
   is younger than it (src/catalog/types.ts,
   src/catalog/providers/clock-sweep.ts and edgar-sweep.ts). *)
NothingEarly == NeverExpiresEarly /\ NeverEarly /\ NothingOlderThanSubscription

(* A chain that never ran or died is running again some time
   (src/connector/routes/ensure-running.get.ts). *)
ChainKeepsComingBack == explored = "chain" => RunsAgain

(* Whatever fails beside it, a subscription ends: past its deadline, by a
   filing it waits for, by its hour, indexed or not; and what has ended
   leaves the due index.  Left out are the filings of a tick that was running
   when the subscription armed, and deadlines of a record that a crash left
   half written (src/catalog/providers/expiry-sweep.ts:48-77, edgar-sweep.ts
   and clock-sweep.ts). *)
SweepsSettle ==
  /\ explored = "expiry" => ArmedEnds
  /\ explored = "edgar" => FilingWakes
  /\ explored = "clock" => DueWakes /\ IndexDrains
================================================================================
