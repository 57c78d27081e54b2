----------------------------- MODULE MCWakeRecovery -----------------------------
(***************************************************************************)
(* WakeDelivery with its recovery sweeps, staffed in three ways: two       *)
(* attempts of the eve process, one of each side, two of the connector.    *)
(* Init chooses the staffing of a behaviour.                               *)
(***************************************************************************)
CONSTANTS None, MaxFaults

VARIABLES staff,
          sub, lease, marker, known, pc, reason, raw, firedAt, route, reply, wakes, lapsed, faults

Eve == INSTANCE WakeDelivery WITH EveCall <- {"c1", "c2"}, ConnectorCall <- {}
Both == INSTANCE WakeDelivery WITH EveCall <- {"c1"}, ConnectorCall <- {"c2"}
Connector == INSTANCE WakeDelivery WITH EveCall <- {}, ConnectorCall <- {"c1", "c2"}

vars == <<staff, Eve!vars>>

Init ==
  \/ staff = "eve" /\ Eve!Init
  \/ staff = "both" /\ Both!Init
  \/ staff = "connector" /\ Connector!Init

Next ==
  /\ UNCHANGED staff
  /\ \/ staff = "eve" /\ Eve!Next
     \/ staff = "both" /\ Both!Next
     \/ staff = "connector" /\ Connector!Next

Fairness ==
  \/ staff = "eve" /\ Eve!Fairness
  \/ staff = "both" /\ Both!Fairness
  \/ staff = "connector" /\ Connector!Fairness

FairSpec == Init /\ [][Next]_vars /\ Fairness

-----------------------------------------------------------------------------
(* With an attempt of the eve process, every delivery that began completes
   (sweepStrandedDeliveries, src/catalog/wake.ts:704); the connector alone
   completes the deliveries to conversations that are known
   (src/catalog/wake.ts:480). *)
DeliveryCompletes ==
  /\ staff \in {"eve", "both"} => Eve!DeliveryCompletes
  /\ staff = "connector" => Connector!KnownDeliveryCompletes
================================================================================
