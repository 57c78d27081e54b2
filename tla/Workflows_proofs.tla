---------------------------- MODULE Workflows_proofs ----------------------------
(***************************************************************************)
(* The safety of the connector's workflows for any number of runs,         *)
(* subscriptions, filings, companies, overlapping ticks and invocations of *)
(* the supervisor, whatever fails or dies between two of their commands:   *)
(* one section for each component and one for what they promise together.  *)
(***************************************************************************)
EXTENDS MCWorkflows, FiniteSetTheorems, TLAPS

(* The chain of runs and its supervisor                                     *)

(* The counts are numbers.                                                  *)
LEMMA CountsStep ==
  ASSUME ToleranceAssumption, RunAssumption, ChainInv, [ChainNext]_chainVars
  PROVE  Counts'
  <1> USE DEF ToleranceAssumption, ChainInv, Counts, Phase, Absent, NotYet
  <1>1. ASSUME NEW r \in Run, GenerateNonce(r) PROVE Counts'
    BY <1>1 DEF GenerateNonce, RunGoto, keys
  <1>2. ASSUME NEW r \in Run, BeginStep(r) PROVE Counts'
    BY <1>2 DEF BeginStep, RunGoto
  <1>3. ASSUME NEW r \in Run, EndStep(r) PROVE Counts'
    BY <1>3 DEF EndStep, RunGoto
  <1>4. ASSUME NEW r \in Run, ClaimChain(r) PROVE Counts'
    BY <1>4 DEF ClaimChain, RunGoto
  <1>5. ASSUME NEW r \in Run, StartNextRun(r) PROVE Counts'
    BY <1>5 DEF StartNextRun, Start
  <1>6. ASSUME NEW r \in Run, Complete(r) PROVE Counts'
    BY <1>6 DEF Complete, RunGoto, keys
  <1>7. ASSUME NEW r \in Run, RetryStep(r) PROVE Counts'
    BY <1>7 DEF RetryStep, RunGoto, ChainFault, keys
  <1>8. ASSUME NEW r \in Run, Stop(r) PROVE Counts'
    BY <1>8 DEF Stop, RunGoto, ChainFault, keys
  <1>9. ASSUME NEW s \in Cron, ClaimSupervisorLock(s) PROVE Counts'
    BY <1>9 DEF ClaimSupervisorLock, runs
  <1>10. ASSUME NEW s \in Cron, ReadHeartbeat(s) PROVE Counts'
    BY <1>10 DEF ReadHeartbeat, keys, runs
  <1>11. ASSUME NEW s \in Cron, Restart(s) PROVE Counts'
    BY <1>11 DEF Restart, RunGoto, Start
  <1>12. ASSUME NEW s \in Cron, SupervisorDies(s) PROVE Counts'
    BY <1>12 DEF SupervisorDies, ChainFault, keys, runs
  <1>13. CASE StartByHand
    BY <1>13 DEF StartByHand, RunGoto, Start
  <1>14. CASE Tick
    BY <1>14 DEF Tick
  <1>15. CASE UNCHANGED chainVars
    BY <1>15 DEF chainVars, keys, runs
  <1> QED
    BY <1>1, <1>2, <1>3, <1>4, <1>5, <1>6, <1>7, <1>8,
       <1>9, <1>10, <1>11, <1>12, <1>13, <1>14, <1>15
    DEF ChainNext, RunSteps, SupervisorSteps

(* One invocation of the supervisor at a time.                              *)
LEMMA SupervisorStep ==
  ASSUME ToleranceAssumption, RunAssumption, ChainInv, [ChainNext]_chainVars
  PROVE  OneSupervisor'
  <1> USE DEF ChainInv, OneSupervisor
  <1>1. ASSUME NEW r \in Run, GenerateNonce(r) PROVE OneSupervisor'
    BY <1>1 DEF GenerateNonce, RunGoto, keys
  <1>2. ASSUME NEW r \in Run, BeginStep(r) PROVE OneSupervisor'
    BY <1>2 DEF BeginStep, RunGoto
  <1>3. ASSUME NEW r \in Run, EndStep(r) PROVE OneSupervisor'
    BY <1>3 DEF EndStep, RunGoto
  <1>4. ASSUME NEW r \in Run, ClaimChain(r) PROVE OneSupervisor'
    BY <1>4 DEF ClaimChain, RunGoto
  <1>5. ASSUME NEW r \in Run, StartNextRun(r) PROVE OneSupervisor'
    BY <1>5 DEF StartNextRun, Start
  <1>6. ASSUME NEW r \in Run, Complete(r) PROVE OneSupervisor'
    BY <1>6 DEF Complete, RunGoto, keys
  <1>7. ASSUME NEW r \in Run, RetryStep(r) PROVE OneSupervisor'
    BY <1>7 DEF RetryStep, RunGoto, ChainFault, keys
  <1>8. ASSUME NEW r \in Run, Stop(r) PROVE OneSupervisor'
    BY <1>8 DEF Stop, RunGoto, ChainFault, keys
  <1>9. ASSUME NEW s \in Cron, ClaimSupervisorLock(s) PROVE OneSupervisor'
    BY <1>9 DEF ClaimSupervisorLock, runs
  <1>10. ASSUME NEW s \in Cron, ReadHeartbeat(s) PROVE OneSupervisor'
    BY <1>10 DEF ReadHeartbeat, keys, runs
  <1>11. ASSUME NEW s \in Cron, Restart(s) PROVE OneSupervisor'
    BY <1>11 DEF Restart, RunGoto, Start
  <1>12. ASSUME NEW s \in Cron, SupervisorDies(s) PROVE OneSupervisor'
    BY <1>12 DEF SupervisorDies, ChainFault, keys, runs
  <1>13. CASE StartByHand
    BY <1>13 DEF StartByHand, RunGoto, Start
  <1>14. CASE Tick
    BY <1>14 DEF Tick
  <1>15. CASE UNCHANGED chainVars
    BY <1>15 DEF chainVars, keys, runs
  <1> QED
    BY <1>1, <1>2, <1>3, <1>4, <1>5, <1>6, <1>7, <1>8,
       <1>9, <1>10, <1>11, <1>12, <1>13, <1>14, <1>15
    DEF ChainNext, RunSteps, SupervisorSteps

(* A run starts its successor with its claim.                               *)
LEMMA ClaimStep ==
  ASSUME ToleranceAssumption, RunAssumption, ChainInv, [ChainNext]_chainVars
  PROVE  ClaimedBeforeStart' /\ OneSuccessor'
  <1> USE DEF ChainInv, Counts, Phase, ClaimedBeforeStart, OneSuccessor
  <1>1. ASSUME NEW r \in Run, GenerateNonce(r) PROVE ClaimedBeforeStart' /\ OneSuccessor'
    BY <1>1 DEF GenerateNonce, RunGoto, keys
  <1>2. ASSUME NEW r \in Run, BeginStep(r) PROVE ClaimedBeforeStart' /\ OneSuccessor'
    BY <1>2 DEF BeginStep, RunGoto
  <1>3. ASSUME NEW r \in Run, EndStep(r) PROVE ClaimedBeforeStart' /\ OneSuccessor'
    BY <1>3 DEF EndStep, RunGoto
  <1>4. ASSUME NEW r \in Run, ClaimChain(r) PROVE ClaimedBeforeStart' /\ OneSuccessor'
    BY <1>4 DEF ClaimChain, RunGoto
  <1>5. ASSUME NEW r \in Run, StartNextRun(r) PROVE ClaimedBeforeStart' /\ OneSuccessor'
    BY <1>5 DEF StartNextRun, Start
  <1>6. ASSUME NEW r \in Run, Complete(r) PROVE ClaimedBeforeStart' /\ OneSuccessor'
    BY <1>6 DEF Complete, RunGoto, keys
  <1>7. ASSUME NEW r \in Run, RetryStep(r) PROVE ClaimedBeforeStart' /\ OneSuccessor'
    BY <1>7 DEF RetryStep, RunGoto, ChainFault, keys
  <1>8. ASSUME NEW r \in Run, Stop(r) PROVE ClaimedBeforeStart' /\ OneSuccessor'
    BY <1>8 DEF Stop, RunGoto, ChainFault, keys
  <1>9. ASSUME NEW s \in Cron, ClaimSupervisorLock(s) PROVE ClaimedBeforeStart' /\ OneSuccessor'
    BY <1>9 DEF ClaimSupervisorLock, runs
  <1>10. ASSUME NEW s \in Cron, ReadHeartbeat(s) PROVE ClaimedBeforeStart' /\ OneSuccessor'
    BY <1>10 DEF ReadHeartbeat, keys, runs
  <1>11. ASSUME NEW s \in Cron, Restart(s) PROVE ClaimedBeforeStart' /\ OneSuccessor'
    BY <1>11 DEF Restart, RunGoto, Start
  <1>12. ASSUME NEW s \in Cron, SupervisorDies(s) PROVE ClaimedBeforeStart' /\ OneSuccessor'
    BY <1>12 DEF SupervisorDies, ChainFault, keys, runs
  <1>13. CASE StartByHand
    BY <1>13 DEF StartByHand, RunGoto, Start
  <1>14. CASE Tick
    BY <1>14 DEF Tick
  <1>15. CASE UNCHANGED chainVars
    BY <1>15 DEF chainVars, keys, runs
  <1> QED
    BY <1>1, <1>2, <1>3, <1>4, <1>5, <1>6, <1>7, <1>8,
       <1>9, <1>10, <1>11, <1>12, <1>13, <1>14, <1>15
    DEF ChainNext, RunSteps, SupervisorSteps

(* A run that lives has recorded a heartbeat no newer than the chain's.      *)
LEMMA HeartbeatStep ==
  ASSUME ToleranceAssumption, RunAssumption, ChainInv, [ChainNext]_chainVars
  PROVE  HeartbeatIsNewest'
  <1> USE DEF ToleranceAssumption, ChainInv, Counts, Phase, HeartbeatIsNewest, Absent, NotYet
  <1>1. ASSUME NEW r \in Run, GenerateNonce(r) PROVE HeartbeatIsNewest'
    BY <1>1 DEF GenerateNonce, RunGoto, keys
  <1>2. ASSUME NEW r \in Run, BeginStep(r) PROVE HeartbeatIsNewest'
    BY <1>2 DEF BeginStep, RunGoto
  <1>3. ASSUME NEW r \in Run, EndStep(r) PROVE HeartbeatIsNewest'
    BY <1>3 DEF EndStep, RunGoto
  <1>4. ASSUME NEW r \in Run, ClaimChain(r) PROVE HeartbeatIsNewest'
    BY <1>4 DEF ClaimChain, RunGoto
  <1>5. ASSUME NEW r \in Run, StartNextRun(r) PROVE HeartbeatIsNewest'
    BY <1>5 DEF StartNextRun, Start
  <1>6. ASSUME NEW r \in Run, Complete(r) PROVE HeartbeatIsNewest'
    BY <1>6 DEF Complete, RunGoto, keys
  <1>7. ASSUME NEW r \in Run, RetryStep(r) PROVE HeartbeatIsNewest'
    BY <1>7 DEF RetryStep, RunGoto, ChainFault, keys
  <1>8. ASSUME NEW r \in Run, Stop(r) PROVE HeartbeatIsNewest'
    BY <1>8 DEF Stop, RunGoto, ChainFault, keys
  <1>9. ASSUME NEW s \in Cron, ClaimSupervisorLock(s) PROVE HeartbeatIsNewest'
    BY <1>9 DEF ClaimSupervisorLock, runs
  <1>10. ASSUME NEW s \in Cron, ReadHeartbeat(s) PROVE HeartbeatIsNewest'
    BY <1>10 DEF ReadHeartbeat, keys, runs
  <1>11. ASSUME NEW s \in Cron, Restart(s) PROVE HeartbeatIsNewest'
    BY <1>11 DEF Restart, RunGoto, Start
  <1>12. ASSUME NEW s \in Cron, SupervisorDies(s) PROVE HeartbeatIsNewest'
    BY <1>12 DEF SupervisorDies, ChainFault, keys, runs
  <1>13. CASE StartByHand
    BY <1>13 DEF StartByHand, RunGoto, Start
  <1>14. CASE Tick
    BY <1>14 DEF Tick
  <1>15. CASE UNCHANGED chainVars
    BY <1>15 DEF chainVars, keys, runs
  <1> QED
    BY <1>1, <1>2, <1>3, <1>4, <1>5, <1>6, <1>7, <1>8,
       <1>9, <1>10, <1>11, <1>12, <1>13, <1>14, <1>15
    DEF ChainNext, RunSteps, SupervisorSteps

-----------------------------------------------------------------------------
(* How the set of leading runs changes *)

LEMMA LeadersFinite ==
  ASSUME RunAssumption, NEW S \in SUBSET Run
  PROVE  IsFiniteSet(S) /\ Cardinality(S) \in Nat
  BY FS_Subset, FS_CardinalityType DEF RunAssumption

LEMMA NoMore ==
  ASSUME RunAssumption, NEW S \in SUBSET Run, NEW T \in SUBSET Run, T \subseteq S
  PROVE  Cardinality(T) <= Cardinality(S)
  BY LeadersFinite, FS_Subset

LEMMA OneMore ==
  ASSUME RunAssumption, NEW S \in SUBSET Run, NEW T \in SUBSET Run, NEW q \in Run,
         T \subseteq S \cup {q}
  PROVE  Cardinality(T) <= Cardinality(S) + 1
  <1>1. Cardinality(T) <= Cardinality(S \cup {q})
    BY NoMore
  <1>2. Cardinality(S \cup {q}) = IF q \in S THEN Cardinality(S) ELSE Cardinality(S) + 1
    BY LeadersFinite, FS_AddElement
  <1>3. Cardinality(S) \in Nat /\ Cardinality(T) \in Nat
    BY LeadersFinite
  <1> QED
    BY <1>1, <1>2, <1>3

LEMMA Exchanged ==
  ASSUME RunAssumption, NEW S \in SUBSET Run, NEW T \in SUBSET Run, NEW r \in S, NEW q \in Run,
         T \subseteq (S \ {r}) \cup {q}
  PROVE  Cardinality(T) <= Cardinality(S)
  <1>1. Cardinality(T) <= Cardinality(S \ {r}) + 1
    BY OneMore
  <1>2. Cardinality(S \ {r}) = Cardinality(S) - 1
    BY LeadersFinite, FS_RemoveElement
  <1>3. Cardinality(S) \in Nat
    BY LeadersFinite
  <1> QED
    BY <1>1, <1>2, <1>3

(* Chaining hands the lead over; only the supervisor and a start by hand    *)
(* make a new leader.                                                       *)
LEMMA LeadIsHandedOver ==
  ASSUME ToleranceAssumption, RunAssumption, ChainInv, [ChainNext]_chainVars,
         ~ StartByHand, \A s \in Cron : ~ Restart(s)
  PROVE  Cardinality(Leaders') <= Cardinality(Leaders)
  <1> Leaders \in SUBSET Run /\ Leaders' \in SUBSET Run
    BY DEF Leaders
  <1>1. SUFFICES ASSUME \A r \in Run : ~ StartNextRun(r)
                 PROVE  Leaders' \subseteq Leaders
    <2>1. ASSUME NEW r \in Run, StartNextRun(r)
          PROVE  Cardinality(Leaders') <= Cardinality(Leaders)
      <3>1. r \in Leaders
        BY <2>1 DEF StartNextRun, Leaders, Leads
      <3>2. PICK q \in Run \ {r} : /\ phase' = [phase EXCEPT ![r] = "started", ![q] = "nonce"]
                                   /\ claimed' = claimed \ {q}
        BY <2>1 DEF StartNextRun, Start
      <3>3. Leaders' \subseteq (Leaders \ {r}) \cup {q}
        BY <3>2 DEF ChainInv, Counts, Leaders, Leads
      <3> QED
        BY <3>1, <3>3, Exchanged
    <2> QED
      BY <2>1, NoMore
  <1> USE DEF ChainInv, Counts, Phase, ClaimedBeforeStart, Leaders, Leads
  <1>2. ASSUME NEW r \in Run, GenerateNonce(r) PROVE Leaders' \subseteq Leaders
    BY <1>2 DEF GenerateNonce, RunGoto, keys
  <1>3. ASSUME NEW r \in Run, BeginStep(r) PROVE Leaders' \subseteq Leaders
    BY <1>3 DEF BeginStep, RunGoto
  <1>4. ASSUME NEW r \in Run, EndStep(r) PROVE Leaders' \subseteq Leaders
    BY <1>4 DEF EndStep, RunGoto
  <1>5. ASSUME NEW r \in Run, ClaimChain(r) PROVE Leaders' \subseteq Leaders
    BY <1>5 DEF ClaimChain, RunGoto
  <1>6. ASSUME NEW r \in Run, Complete(r) PROVE Leaders' \subseteq Leaders
    BY <1>6 DEF Complete, RunGoto, keys
  <1>7. ASSUME NEW r \in Run, RetryStep(r) PROVE Leaders' \subseteq Leaders
    BY <1>7 DEF RetryStep, RunGoto, ChainFault, keys
  <1>8. ASSUME NEW r \in Run, Stop(r) PROVE Leaders' \subseteq Leaders
    BY <1>8 DEF Stop, RunGoto, ChainFault, keys
  <1>9. ASSUME NEW s \in Cron, ClaimSupervisorLock(s) PROVE Leaders' \subseteq Leaders
    BY <1>9 DEF ClaimSupervisorLock, runs
  <1>10. ASSUME NEW s \in Cron, ReadHeartbeat(s) PROVE Leaders' \subseteq Leaders
    BY <1>10 DEF ReadHeartbeat, keys, runs
  <1>11. ASSUME NEW s \in Cron, SupervisorDies(s) PROVE Leaders' \subseteq Leaders
    BY <1>11 DEF SupervisorDies, ChainFault, keys, runs
  <1>12. CASE Tick
    BY <1>12 DEF Tick
  <1>13. CASE UNCHANGED chainVars
    BY <1>13 DEF chainVars, keys, runs
  <1> QED
    BY <1>1, <1>2, <1>3, <1>4, <1>5, <1>6, <1>7, <1>8, <1>9,
       <1>10, <1>11, <1>12, <1>13
    DEF ChainNext, RunSteps, SupervisorSteps

(* Who finds the chain dead finds no leader beside those started by hand:   *)
(* time passes only while every leader records its heartbeats.              *)
LEMMA TimePasses ==
  ASSUME ToleranceAssumption, ChainInv, Tick
  PROVE  Leaders' = {} \/ ~ IsChainDead'
  <1> SUFFICES ASSUME NEW r \in Run, Leads(r)' PROVE ~ IsChainDead'
    BY DEF Leaders
  <1>1. phase[r] \in {"step", "session"} /\ silent[r] < NotYet
    BY DEF Tick, Leads, ChainInv, Counts, ToleranceAssumption, NotYet
  <1>2. heartbeat <= silent[r]
    BY <1>1 DEF ChainInv, HeartbeatIsNewest
  <1>3. heartbeat # Absent
    BY <1>1, <1>2 DEF ChainInv, Counts, ToleranceAssumption, NotYet, Absent
  <1>4. heartbeat' = heartbeat + 1 /\ heartbeat' <= Stale
    BY <1>1, <1>2, <1>3 DEF Tick, ChainInv, Counts, ToleranceAssumption, NotYet
  <1> QED
    BY <1>4 DEF IsChainDead, Absent, ChainInv, Counts, ToleranceAssumption

(* A leader is made only where there is room for one.                       *)
LEMMA LeadersStep ==
  ASSUME ToleranceAssumption, RunAssumption, ChainInv, [ChainNext]_chainVars
  PROVE  OneChain' /\ DeadMeansGone'
  <1> DEFINE before == Cardinality(Leaders)
             after == Cardinality(Leaders')
  <1>1. /\ Leaders \in SUBSET Run /\ Leaders' \in SUBSET Run
        /\ before \in Nat /\ after \in Nat
    <2>1. Leaders \in SUBSET Run /\ Leaders' \in SUBSET Run
      BY DEF Leaders
    <2> QED
      BY <2>1, LeadersFinite
  <1>2. /\ before <= 1 + manual /\ manual \in Nat
        /\ OneChain' <=> after <= 1 + manual'
    BY DEF ChainInv, Counts, OneChain, Leaders
  <1>3. ASSUME NEW s \in Cron, Restart(s)
        PROVE  OneChain' /\ DeadMeansGone'
    <2>1. before <= manual
      BY <1>3 DEF ChainInv, DeadMeansGone, RoomForOne, Restart
    <2>2. PICK q \in Run : phase' = [phase EXCEPT ![q] = "nonce"] /\ claimed' = claimed \ {q}
      BY <1>3 DEF Restart, Start, RunGoto
    <2>3. Leaders' \subseteq Leaders \cup {q}
      BY <2>2 DEF ChainInv, Counts, Leaders, Leads
    <2>4. after <= before + 1
      BY <1>1, <2>3, OneMore
    <2>5. manual' = manual
      BY <1>3 DEF Restart
    <2>6. DeadMeansGone'
      BY <1>3 DEF Restart, DeadMeansGone, ChainInv, OneSupervisor
    <2> QED
      BY <1>1, <1>2, <2>1, <2>4, <2>5, <2>6
  <1>4. CASE StartByHand
    <2>1. PICK q \in Run : phase' = [phase EXCEPT ![q] = "nonce"] /\ claimed' = claimed \ {q}
      BY <1>4 DEF StartByHand, Start, RunGoto
    <2>2. Leaders' \subseteq Leaders \cup {q}
      BY <2>1 DEF ChainInv, Counts, Leaders, Leads
    <2>3. after <= before + 1 /\ manual' = manual + 1
      BY <1>1, <1>4, <2>2, OneMore DEF StartByHand
    <2>4. RoomForOne => RoomForOne'
      BY <1>1, <1>2, <2>3 DEF RoomForOne
    <2>5. DeadMeansGone'
      BY <1>4, <2>4 DEF StartByHand, DeadMeansGone, ChainInv, IsChainDead
    <2> QED
      BY <1>1, <1>2, <2>3, <2>5
  <1>5. CASE ~ StartByHand /\ \A s \in Cron : ~ Restart(s)
    <2>1. after <= before
      BY <1>5, LeadIsHandedOver
    <2>2. manual' = manual
      BY <1>5 DEF ChainNext, RunSteps, SupervisorSteps, GenerateNonce, BeginStep, EndStep,
        ClaimChain,
        StartNextRun, Complete, RetryStep, Stop, ClaimSupervisorLock, ReadHeartbeat,
        SupervisorDies, Tick, chainVars
    <2>3. RoomForOne => RoomForOne'
      BY <1>1, <1>2, <2>1, <2>2 DEF RoomForOne
    <2>4. DeadMeansGone'
      <3> USE DEF DeadMeansGone
      <3>1. CASE Tick
        <4>1. ~ lock' /\ \A s \in Cron : supervisor'[s] = "idle"
          BY <3>1 DEF Tick
        <4>2. Leaders' = {} => RoomForOne'
          BY FS_EmptySet, <1>2, <2>2 DEF RoomForOne
        <4> QED
          BY <3>1, <4>1, <4>2, TimePasses
      <3>2. ASSUME NEW s \in Cron, ReadHeartbeat(s) \/ ClaimSupervisorLock(s) \/ SupervisorDies(s)
            PROVE  DeadMeansGone'
        BY <2>3, <3>2 DEF ReadHeartbeat, ClaimSupervisorLock, SupervisorDies, keys, ChainInv,
          OneSupervisor, IsChainDead
      <3>3. ASSUME NEW r \in Run, BeginStep(r) \/ EndStep(r)
            PROVE  DeadMeansGone'
        BY <2>3, <3>3 DEF BeginStep, EndStep, ChainInv, Counts, ToleranceAssumption, IsChainDead,
          Absent
      <3>4. CASE UNCHANGED <<heartbeat, lock, supervisor>>
        BY <2>3, <3>4 DEF ChainInv, IsChainDead
      <3> QED
        BY <1>5, <3>1, <3>2, <3>3, <3>4 DEF ChainNext, RunSteps, SupervisorSteps, GenerateNonce,
          ClaimChain, StartNextRun, Complete, RetryStep, Stop, keys, chainVars
    <2> QED
      BY <1>1, <1>2, <2>1, <2>2, <2>4
  <1> QED
    BY <1>3, <1>4, <1>5

-----------------------------------------------------------------------------
LEMMA ChainStarts == ASSUME ToleranceAssumption, RunAssumption PROVE ChainInit => ChainInv
  <1> SUFFICES ASSUME ChainInit PROVE ChainInv
    OBVIOUS
  <1>1. Leaders = {}
    BY DEF ChainInit, Leaders, Leads
  <1>2. RoomForOne /\ OneChain
    BY <1>1, FS_EmptySet DEF ChainInit, RoomForOne, OneChain, Leaders
  <1>3. Counts
    BY DEF ChainInit, Counts, Phase, Absent, NotYet, ToleranceAssumption
  <1>4. OneSupervisor /\ ClaimedBeforeStart /\ HeartbeatIsNewest /\ OneSuccessor
    BY DEF ChainInit, OneSupervisor, ClaimedBeforeStart, HeartbeatIsNewest, OneSuccessor
  <1> QED
    BY <1>2, <1>3, <1>4 DEF ChainInv, DeadMeansGone

LEMMA ChainStep ==
  ASSUME ToleranceAssumption, RunAssumption PROVE ChainInv /\ [ChainNext]_chainVars => ChainInv'
  BY CountsStep, SupervisorStep, ClaimStep, HeartbeatStep, LeadersStep DEF ChainInv

(* A run that has steps left stays within its steps.                       *)
LEMMA ChainTypeStep ==
  ASSUME ToleranceAssumption, RunAssumption, ChainInv, ChainTypeOK, StepsLeft,
         [ChainNext]_chainVars
  PROVE  ChainTypeOK' /\ StepsLeft'
  <1> USE DEF ToleranceAssumption, RunAssumption, ChainInv, ChainTypeOK, StepsLeft, Phase,
      Absent, NotYet
  <1>1. ASSUME NEW r \in Run, GenerateNonce(r) PROVE ChainTypeOK' /\ StepsLeft'
    BY <1>1 DEF GenerateNonce, RunGoto, keys
  <1>2. ASSUME NEW r \in Run, BeginStep(r) PROVE ChainTypeOK' /\ StepsLeft'
    BY <1>2 DEF BeginStep, RunGoto
  <1>3. ASSUME NEW r \in Run, EndStep(r) PROVE ChainTypeOK' /\ StepsLeft'
    BY <1>3 DEF EndStep, RunGoto
  <1>4. ASSUME NEW r \in Run, ClaimChain(r) PROVE ChainTypeOK' /\ StepsLeft'
    BY <1>4 DEF ClaimChain, RunGoto
  <1>5. ASSUME NEW r \in Run, StartNextRun(r) PROVE ChainTypeOK' /\ StepsLeft'
    BY <1>5 DEF StartNextRun, Start, ClaimedBeforeStart
  <1>6. ASSUME NEW r \in Run, Complete(r) PROVE ChainTypeOK' /\ StepsLeft'
    BY <1>6 DEF Complete, RunGoto, keys
  <1>7. ASSUME NEW r \in Run, RetryStep(r) PROVE ChainTypeOK' /\ StepsLeft'
    BY <1>7 DEF RetryStep, RunGoto, ChainFault, keys
  <1>8. ASSUME NEW r \in Run, Stop(r) PROVE ChainTypeOK' /\ StepsLeft'
    BY <1>8 DEF Stop, RunGoto, ChainFault, keys
  <1>9. ASSUME NEW s \in Cron, ClaimSupervisorLock(s) PROVE ChainTypeOK' /\ StepsLeft'
    BY <1>9 DEF ClaimSupervisorLock, runs
  <1>10. ASSUME NEW s \in Cron, ReadHeartbeat(s) PROVE ChainTypeOK' /\ StepsLeft'
    BY <1>10 DEF ReadHeartbeat, keys, runs
  <1>11. ASSUME NEW s \in Cron, Restart(s) PROVE ChainTypeOK' /\ StepsLeft'
    BY <1>11 DEF Restart, RunGoto, Start
  <1>12. ASSUME NEW s \in Cron, SupervisorDies(s) PROVE ChainTypeOK' /\ StepsLeft'
    BY <1>12 DEF SupervisorDies, ChainFault, keys, runs
  <1>13. CASE StartByHand
    BY <1>13 DEF StartByHand, RunGoto, Start
  <1>14. CASE Tick
    <2>1. \A r \in Run : silent'[r] \in 0..NotYet
      BY <1>14 DEF Tick
    <2>2. silent' \in [Run -> 0..NotYet]
      BY <1>14, <2>1 DEF Tick
    <2>3. heartbeat' \in 0..Absent
      BY <1>14 DEF Tick
    <2>4. lock' \in BOOLEAN
      BY <1>14, Zenon DEF Tick
    <2> QED
      BY <1>14, <2>2, <2>3, <2>4 DEF Tick
  <1>15. CASE UNCHANGED chainVars
    BY <1>15 DEF chainVars, keys, runs
  <1> QED
    BY <1>1, <1>2, <1>3, <1>4, <1>5, <1>6, <1>7, <1>8,
       <1>9, <1>10, <1>11, <1>12, <1>13, <1>14, <1>15
    DEF ChainNext, RunSteps, SupervisorSteps

LEMMA ChainHolds ==
  ASSUME ToleranceAssumption, RunAssumption
  PROVE  ChainSpec => [](ChainInv /\ ChainTypeOK /\ StepsLeft)
  <1>1. ASSUME ChainInit PROVE ChainTypeOK
    <2>1. heartbeat \in 0..Absent
      BY <1>1 DEF ChainInit, Absent, ToleranceAssumption
    <2>2. lock \in BOOLEAN
      BY <1>1, Zenon DEF ChainInit
    <2>3. steps \in [Run -> 0..StepsPerRun] /\ silent \in [Run -> 0..NotYet]
      BY <1>1 DEF ChainInit, NotYet, ToleranceAssumption, RunAssumption
    <2>4. phase \in [Run -> Phase] /\ supervisor \in [Cron -> {"idle", "read", "start"}]
      BY <1>1 DEF ChainInit, Phase
    <2>5. claimed \subseteq Run /\ successors \in [Run -> 0..2]
      BY <1>1 DEF ChainInit
    <2>6. manual \in 0..MaxManual /\ chainFaults \in 0..MaxChainFaults
      BY <1>1 DEF ChainInit, RunAssumption
    <2> QED
      BY <2>1, <2>2, <2>3, <2>4, <2>5, <2>6 DEF ChainTypeOK
  <1>2. ChainInit => StepsLeft
    BY DEF ChainInit, StepsLeft
  <1> QED
    BY ChainStarts, ChainStep, ChainTypeStep, <1>1, <1>2, PTL DEF ChainSpec

-----------------------------------------------------------------------------
(* Expiry                                                                   *)

(* Records, timers and attempts keep to their types.                        *)
LEMMA ExpiryTypeStep ==
  ASSUME ExpiryAssumption, ExpiryTypeOK, [ExpiryNext]_expiryVars
  PROVE  ExpiryTypeOK'
  <1> USE DEF ExpiryAssumption, ExpiryTypeOK, Terminal, Actor, Handler, Attempt, NoTimer
  <1>1. ASSUME NEW s \in Sub, Create(s) PROVE ExpiryTypeOK'
    <2>1. CASE handler[s] = "create"
      BY <1>1, <2>1 DEF Create, HandlerAt, SetRecord
    <2>2. CASE handler[s] = "createList"
      BY <1>1, <2>2 DEF Create, HandlerAt, AddToList
    <2>3. CASE handler[s] = "createIndex"
      BY <1>1, <2>3 DEF Create, HandlerAt, WriteIndex
    <2> QED
      BY <1>1, <2>1, <2>2, <2>3 DEF Create, HandlerAt
  <1>2. ASSUME NEW s \in Sub, BeginArm(s) PROVE ExpiryTypeOK'
    BY <1>2 DEF BeginArm, HandlerAt, registry
  <1>3. ASSUME NEW s \in Sub, Arm(s) PROVE ExpiryTypeOK'
    BY <1>3 DEF Arm, HandlerAt, SetRecord, AddToList, WriteIndex, registry
  <1>4. ASSUME NEW s \in Sub, ScheduleExpiry(s) PROVE ExpiryTypeOK'
    BY <1>4 DEF ScheduleExpiry, HandlerAt, SetTimeout, registry
  <1>5. ASSUME NEW s \in Sub, ProviderFires(s) PROVE ExpiryTypeOK'
    BY <1>5 DEF ProviderFires, AttemptGoto, registry
  <1>6. ASSUME NEW s \in Sub, TimerFires(s) PROVE ExpiryTypeOK'
    BY <1>6 DEF TimerFires, AttemptGoto, registry
  <1>7. ASSUME NEW s \in Sub, SweepRow(s) PROVE ExpiryTypeOK'
    BY <1>7 DEF SweepRow, NextRow, AttemptGoto, registry
  <1>8. ASSUME NEW s \in Sub, NEW a \in Actor, Transition(s, a) PROVE ExpiryTypeOK'
    <2>1. \E label \in Attempt : AttemptGoto(s, a, label)
      BY <1>8 DEF Transition
    <2>2. attempt' \in [Sub -> [Actor -> Attempt]]
      BY <2>1 DEF AttemptGoto
    <2>3. record' \in [Sub -> {"none", "pending", "armed", "delivering"} \cup Terminal]
      BY <1>8 DEF Transition, SetRecord
    <2>4. reason' \in [Sub -> {"none", "fired", "expired"}]
      BY <1>8 DEF Transition, Cause
    <2>5. timer' \in [Sub -> Nat]
      <3>1. NoTimer \in Nat
        OBVIOUS
      <3>2. timer' = timer \/ timer' = [timer EXCEPT ![s] = NoTimer]
        BY <1>8 DEF Transition
      <3> QED
        BY <3>1, <3>2
    <2> QED
      BY <1>8, <2>2, <2>3, <2>4, <2>5 DEF Transition
  <1>9. ASSUME NEW s \in Sub, NEW a \in Actor, Settle(s, a) PROVE ExpiryTypeOK'
    <2>1. \E label \in Attempt : AttemptGoto(s, a, label)
      BY <1>9 DEF Settle
    <2>2. attempt' \in [Sub -> [Actor -> Attempt]]
      BY <2>1 DEF AttemptGoto
    <2>3. /\ record' \in [Sub -> {"none", "pending", "armed", "delivering"} \cup Terminal]
          /\ listed' \subseteq Sub /\ due' \subseteq Sub
      BY <1>9 DEF Settle, SetRecord, AddToList, WriteIndex
    <2> QED
      BY <1>9, <2>2, <2>3 DEF Settle
  <1>10. CASE SweepReads
    BY <1>10 DEF SweepReads, DueNow, registry
  <1>11. CASE SweepBatchFails
    BY <1>11 DEF SweepBatchFails, registry
  <1>12. CASE EveRestarts
    BY <1>12 DEF EveRestarts, registry
  <1>13. CASE ExpiryTick
    BY <1>13 DEF ExpiryTick, registry
  <1>14. CASE UNCHANGED expiryVars
    BY <1>14 DEF expiryVars, registry
  <1> QED
    BY <1>1, <1>2, <1>3, <1>4, <1>5, <1>6, <1>7,
       <1>8, <1>9, <1>10, <1>11, <1>12, <1>13, <1>14
    DEF ExpiryNext, HandlerSteps, DeliverExpiry

(* Only what is due is taken up, and time does not run backwards.            *)
LEMMA LateStep ==
  ASSUME ExpiryAssumption, DeadlinesAreNear, ExpiryTypeOK, WorksForTheLate,
         [ExpiryNext]_expiryVars
  PROVE  WorksForTheLate'
  <1> USE DEF ExpiryAssumption, ExpiryTypeOK, WorksForTheLate, AttemptAt, Late, NoTimer, Actor
  <1>1. ASSUME NEW s \in Sub, Create(s) PROVE WorksForTheLate'
    BY <1>1 DEF Create, HandlerAt, SetRecord, AddToList, WriteIndex, registry
  <1>2. ASSUME NEW s \in Sub, BeginArm(s) PROVE WorksForTheLate'
    BY <1>2 DEF BeginArm, HandlerAt, registry
  <1>3. ASSUME NEW s \in Sub, Arm(s) PROVE WorksForTheLate'
    BY <1>3 DEF Arm, HandlerAt, SetRecord, AddToList, WriteIndex, registry
  <1>4. ASSUME NEW s \in Sub, ScheduleExpiry(s) PROVE WorksForTheLate'
    BY <1>4 DEF ScheduleExpiry, HandlerAt, SetTimeout, DeadlinesAreNear, registry
  <1>5. ASSUME NEW s \in Sub, ProviderFires(s) PROVE WorksForTheLate'
    BY <1>5 DEF ProviderFires, AttemptGoto, registry
  <1>6. ASSUME NEW s \in Sub, TimerFires(s) PROVE WorksForTheLate'
    BY <1>6 DEF TimerFires, AttemptGoto, registry
  <1>7. ASSUME NEW s \in Sub, SweepRow(s) PROVE WorksForTheLate'
    BY <1>7 DEF SweepRow, NextRow, AttemptGoto, registry
  <1>8. ASSUME NEW s \in Sub, NEW a \in Actor, Transition(s, a) PROVE WorksForTheLate'
    BY <1>8 DEF Transition, SetRecord, AttemptGoto, Cause, registry
  <1>9. ASSUME NEW s \in Sub, NEW a \in Actor, Settle(s, a) PROVE WorksForTheLate'
    BY <1>9 DEF Settle, SetRecord, AddToList, WriteIndex, AttemptGoto, registry
  <1>10. CASE SweepReads
    BY <1>10 DEF SweepReads, DueNow, registry
  <1>11. CASE SweepBatchFails
    BY <1>11 DEF SweepBatchFails, registry
  <1>12. CASE EveRestarts
    BY <1>12 DEF EveRestarts, registry
  <1>13. CASE ExpiryTick
    BY <1>13 DEF ExpiryTick, registry
  <1>14. CASE UNCHANGED expiryVars
    BY <1>14 DEF expiryVars, registry
  <1> QED
    BY <1>1, <1>2, <1>3, <1>4, <1>5, <1>6, <1>7,
       <1>8, <1>9, <1>10, <1>11, <1>12, <1>13, <1>14
    DEF ExpiryNext, HandlerSteps, DeliverExpiry

(* The transition of an expiry writes the reason.                           *)
LEMMA EarlyStep ==
  ASSUME ExpiryAssumption, ExpiryTypeOK, WorksForTheLate, NeverExpiresEarly,
         [ExpiryNext]_expiryVars
  PROVE  NeverExpiresEarly'
  <1> USE DEF ExpiryAssumption, ExpiryTypeOK, WorksForTheLate, NeverExpiresEarly, AttemptAt,
      Late, Actor
  <1>1. ASSUME NEW s \in Sub, Create(s) PROVE NeverExpiresEarly'
    BY <1>1 DEF Create, HandlerAt, SetRecord, AddToList, WriteIndex, registry
  <1>2. ASSUME NEW s \in Sub, BeginArm(s) PROVE NeverExpiresEarly'
    BY <1>2 DEF BeginArm, HandlerAt, registry
  <1>3. ASSUME NEW s \in Sub, Arm(s) PROVE NeverExpiresEarly'
    BY <1>3 DEF Arm, HandlerAt, SetRecord, AddToList, WriteIndex, registry
  <1>4. ASSUME NEW s \in Sub, ScheduleExpiry(s) PROVE NeverExpiresEarly'
    BY <1>4 DEF ScheduleExpiry, HandlerAt, SetTimeout, registry
  <1>5. ASSUME NEW s \in Sub, ProviderFires(s) PROVE NeverExpiresEarly'
    BY <1>5 DEF ProviderFires, AttemptGoto, registry
  <1>6. ASSUME NEW s \in Sub, TimerFires(s) PROVE NeverExpiresEarly'
    BY <1>6 DEF TimerFires, AttemptGoto, registry
  <1>7. ASSUME NEW s \in Sub, SweepRow(s) PROVE NeverExpiresEarly'
    BY <1>7 DEF SweepRow, NextRow, AttemptGoto, registry
  <1>8. ASSUME NEW s \in Sub, NEW a \in Actor, Transition(s, a) PROVE NeverExpiresEarly'
    BY <1>8 DEF Transition, SetRecord, AttemptGoto, Cause, registry
  <1>9. ASSUME NEW s \in Sub, NEW a \in Actor, Settle(s, a) PROVE NeverExpiresEarly'
    BY <1>9 DEF Settle, SetRecord, AddToList, WriteIndex, AttemptGoto, registry
  <1>10. CASE SweepReads
    BY <1>10 DEF SweepReads, DueNow, registry
  <1>11. CASE SweepBatchFails
    BY <1>11 DEF SweepBatchFails, registry
  <1>12. CASE EveRestarts
    BY <1>12 DEF EveRestarts, registry
  <1>13. CASE ExpiryTick
    BY <1>13 DEF ExpiryTick, registry
  <1>14. CASE UNCHANGED expiryVars
    BY <1>14 DEF expiryVars, registry
  <1> QED
    BY <1>1, <1>2, <1>3, <1>4, <1>5, <1>6, <1>7,
       <1>8, <1>9, <1>10, <1>11, <1>12, <1>13, <1>14
    DEF ExpiryNext, HandlerSteps, DeliverExpiry

LEMMA ExpiryStarts ==
  ASSUME ExpiryAssumption PROVE ExpiryInit => ExpiryInv
  BY DEF ExpiryAssumption, ExpiryInit, ExpiryInv, ExpiryTypeOK, WorksForTheLate,
    NeverExpiresEarly,
    AttemptAt, Terminal, Actor, Handler, Attempt, NoTimer

(* Types need no near deadlines, the rest does.                             *)
LEMMA ExpiryTypesHold == ASSUME ExpiryAssumption PROVE ExpirySpec => []ExpiryTypeOK
  <1>1. ExpiryInit => ExpiryTypeOK
    BY ExpiryStarts DEF ExpiryInv
  <1> QED
    BY <1>1, ExpiryTypeStep, PTL DEF ExpirySpec

LEMMA ExpiryHolds ==
  ASSUME ExpiryAssumption, DeadlinesAreNear PROVE ExpirySpec => []ExpiryInv
  <1>1. ExpiryInv /\ [ExpiryNext]_expiryVars => ExpiryInv'
    BY ExpiryTypeStep, LateStep, EarlyStep DEF ExpiryInv
  <1> QED
    BY ExpiryStarts, <1>1, PTL DEF ExpirySpec

-----------------------------------------------------------------------------
(* The EDGAR sweep                                                          *)

(* A fetch leaves out what is seen or older than everyone in the group.     *)
LEMMA FetchOffers ==
  ASSUME EdgarAssumption, EdgarInv, NEW t \in EdgarTick, Fetch(t)
  PROVE  \E fresh \in SUBSET Filing :
           /\ offers' = [offers EXCEPT ![t] = {o \in fresh \X Group(t) : Wanted(o[1], o[2])}]
           /\ fresh \subseteq public
           /\ \A f \in fetched'[t] \ fresh, s \in Group(t) : f \in seen \/ accepted[f] <= armedAt[s]
  <1> USE DEF EdgarAssumption, EdgarInv, EdgarTypeOK, Never
  <1> DEFINE filings == {f \in public : CikOf[f] = cik[t]}
             known == IF baseline[t] = {}
                        THEN seedAccessionSet(filings, earliestArmedAt(Group(t)))
                        ELSE baseline[t]
             fresh == filings \ known
  <1>1. /\ fetched' = [fetched EXCEPT ![t] = filings]
        /\ offers' = [offers EXCEPT ![t] = {o \in fresh \X Group(t) : Wanted(o[1], o[2])}]
    BY DEF Fetch, diffNewFilings
  <1>2. fetched'[t] = filings
    BY <1>1
  <1>3. ASSUME NEW f \in filings, f \in known, NEW s \in Group(t)
        PROVE  f \in seen \/ accepted[f] <= armedAt[s]
    <2>1. CASE baseline[t] # {}
      BY <1>3, <2>1 DEF HeldByTick
    <2>2. CASE baseline[t] = {}
      <3>1. Group(t) \in SUBSET EdgarSub /\ s \in EdgarSub
        BY DEF Group
      <3>2. PICK first \in Group(t) : \A r \in Group(t) : armedAt[first] <= armedAt[r]
        <4>1. Group(t) # {}
          BY <1>3
        <4> QED
          BY <3>1, <4>1 DEF SomeoneIsFirst
      <3>3. /\ earliestArmedAt(Group(t)) \in {armedAt[r] : r \in Group(t)}
            /\ \A r \in Group(t) : earliestArmedAt(Group(t)) <= armedAt[r]
        BY <3>2 DEF earliestArmedAt
      <3>4. accepted[f] <= earliestArmedAt(Group(t))
        BY <1>3, <2>2 DEF seedAccessionSet
      <3>5. earliestArmedAt(Group(t)) \in Int /\ accepted[f] \in Int /\ armedAt[s] \in Int
        BY <3>1, <3>3
      <3> QED
        BY <1>3, <3>3, <3>4, <3>5
    <2> QED
      BY <2>1, <2>2
  <1>4. fresh \in SUBSET Filing /\ fresh \subseteq public
    OBVIOUS
  <1>5. \A f \in fetched'[t] \ fresh, s \in Group(t) : f \in seen \/ accepted[f] <= armedAt[s]
    BY <1>2, <1>3
  <1> HIDE DEF fresh
  <1> QED
    BY <1>1, <1>4, <1>5

(* Ticks, records and filings keep to their types. *)
LEMMA EdgarTypeStep ==
  ASSUME EdgarAssumption, EdgarInv, [EdgarNext]_edgarVars
  PROVE  EdgarTypeOK'
  <1> USE DEF EdgarAssumption, EdgarInv, EdgarTypeOK, Never
  <1>1. ASSUME NEW t \in EdgarTick, ReadDesired(t) PROVE EdgarTypeOK'
    BY <1>1 DEF ReadDesired, EdgarGoto, Loaded, EdgarFault, sec, edgarTick, lateness, TickEnds
  <1>2. ASSUME NEW t \in EdgarTick, NextGroup(t) PROVE EdgarTypeOK'
    BY <1>2 DEF NextGroup, EdgarGoto, sec, edgarTick, lateness, TickEnds
  <1>3. ASSUME NEW t \in EdgarTick, ReadSeen(t) PROVE EdgarTypeOK'
    BY <1>3 DEF ReadSeen, EdgarGoto, sec, edgarTick, lateness, TickEnds
  <1>4. ASSUME NEW t \in EdgarTick, Fetch(t) PROVE EdgarTypeOK'
    <2>1. PICK fresh \in SUBSET Filing :
            offers' = [offers EXCEPT ![t] = {o \in fresh \X Group(t) : Wanted(o[1], o[2])}]
      BY <1>4, FetchOffers
    <2>2. {o \in fresh \X Group(t) : Wanted(o[1], o[2])} \in SUBSET (Filing \X EdgarSub)
      BY DEF Group
    <2>3. offers' \in [EdgarTick -> SUBSET (Filing \X EdgarSub)]
      BY <2>1, <2>2
    <2> QED
      BY <1>4, <2>3 DEF Fetch, EdgarGoto, sec, lateness
  <1>5. ASSUME NEW t \in EdgarTick, DeliverFiling(t) PROVE EdgarTypeOK'
    BY <1>5 DEF DeliverFiling, sec, edgarTick, lateness, TickEnds
  <1>6. ASSUME NEW t \in EdgarTick, AddSeen(t) PROVE EdgarTypeOK'
    BY <1>6 DEF AddSeen, MarkMissed, LateFor, Leave, EdgarGoto, sec, edgarTick
  <1>7. ASSUME NEW t \in EdgarTick, CikFails(t) PROVE EdgarTypeOK'
    BY <1>7 DEF CikFails, Leave, EdgarGoto, EdgarFault, sec, edgarTick, lateness, TickEnds
  <1>8. ASSUME NEW t \in EdgarTick, TickDies(t) PROVE EdgarTypeOK'
    BY <1>8 DEF TickDies, EdgarGoto, EdgarFault, sec, edgarTick, lateness, TickEnds
  <1>9. ASSUME NEW f \in Filing, Accept(f) PROVE EdgarTypeOK'
    BY <1>9 DEF Accept, sec, edgarTick, lateness, TickEnds
  <1>10. ASSUME NEW f \in Filing, Publish(f) PROVE EdgarTypeOK'
    BY <1>10 DEF Publish, sec, edgarTick, lateness, TickEnds
  <1>11. ASSUME NEW s \in EdgarSub, ArmEdgar(s) PROVE EdgarTypeOK'
    BY <1>11 DEF ArmEdgar, sec, edgarTick, lateness, TickEnds
  <1>12. CASE SecAdvance
    BY <1>12 DEF SecAdvance, sec, edgarTick, lateness, TickEnds
  <1>13. CASE UNCHANGED edgarVars
    BY <1>13 DEF edgarVars, sec, edgarTick, lateness, TickEnds
  <1> QED
    BY <1>1, <1>2, <1>3, <1>4, <1>5, <1>6, <1>7, <1>8, <1>9,
       <1>10, <1>11, <1>12, <1>13
    DEF EdgarNext, EdgarTickSteps

(* A tick drops what it held when it moves on. *)
LEMMA HeldStep ==
  ASSUME EdgarAssumption, EdgarInv, [EdgarNext]_edgarVars
  PROVE  HeldByTick'
  <1> USE DEF EdgarAssumption, EdgarInv, EdgarTypeOK, Never, HeldByTick, PublicOnly, InCompany,
      Armed
  <1>1. ASSUME NEW t \in EdgarTick, ReadDesired(t) PROVE HeldByTick'
    BY <1>1 DEF ReadDesired, EdgarGoto, Loaded, EdgarFault, sec, edgarTick, lateness, TickEnds
  <1>2. ASSUME NEW t \in EdgarTick, NextGroup(t) PROVE HeldByTick'
    BY <1>2 DEF NextGroup, EdgarGoto, sec, edgarTick, lateness, TickEnds
  <1>3. ASSUME NEW t \in EdgarTick, ReadSeen(t) PROVE HeldByTick'
    BY <1>3 DEF ReadSeen, EdgarGoto, sec, edgarTick, lateness, TickEnds
  <1>4. ASSUME NEW t \in EdgarTick, Fetch(t) PROVE HeldByTick'
    BY <1>4 DEF Fetch, EdgarGoto, sec, edgarTick, lateness, TickEnds
  <1>5. ASSUME NEW t \in EdgarTick, DeliverFiling(t) PROVE HeldByTick'
    BY <1>5 DEF DeliverFiling, sec, edgarTick, lateness, TickEnds
  <1>6. ASSUME NEW t \in EdgarTick, AddSeen(t) PROVE HeldByTick'
    BY <1>6 DEF AddSeen, MarkMissed, LateFor, Leave, EdgarGoto, sec, edgarTick
  <1>7. ASSUME NEW t \in EdgarTick, CikFails(t) PROVE HeldByTick'
    BY <1>7 DEF CikFails, Leave, EdgarGoto, EdgarFault, sec, edgarTick, lateness, TickEnds
  <1>8. ASSUME NEW t \in EdgarTick, TickDies(t) PROVE HeldByTick'
    BY <1>8 DEF TickDies, EdgarGoto, EdgarFault, sec, edgarTick, lateness, TickEnds
  <1>9. ASSUME NEW f \in Filing, Accept(f) PROVE HeldByTick'
    BY <1>9 DEF Accept, sec, edgarTick, lateness, TickEnds
  <1>10. ASSUME NEW f \in Filing, Publish(f) PROVE HeldByTick'
    BY <1>10 DEF Publish, sec, edgarTick, lateness, TickEnds
  <1>11. ASSUME NEW s \in EdgarSub, ArmEdgar(s) PROVE HeldByTick'
    BY <1>11 DEF ArmEdgar, sec, edgarTick, lateness, TickEnds
  <1>12. CASE SecAdvance
    BY <1>12 DEF SecAdvance, sec, edgarTick, lateness, TickEnds
  <1>13. CASE UNCHANGED edgarVars
    BY <1>13 DEF edgarVars, sec, edgarTick, lateness, TickEnds
  <1> QED
    BY <1>1, <1>2, <1>3, <1>4, <1>5, <1>6, <1>7, <1>8, <1>9,
       <1>10, <1>11, <1>12, <1>13
    DEF EdgarNext, EdgarTickSteps

(* Nothing that was public is withdrawn. *)
LEMMA PublicStep ==
  ASSUME EdgarAssumption, EdgarInv, [EdgarNext]_edgarVars
  PROVE  PublicOnly'
  <1> USE DEF EdgarAssumption, EdgarInv, EdgarTypeOK, Never, HeldByTick, PublicOnly,
      OffersAreWanted
  <1>1. ASSUME NEW t \in EdgarTick, ReadDesired(t) PROVE PublicOnly'
    BY <1>1 DEF ReadDesired, EdgarGoto, Loaded, EdgarFault, sec, edgarTick, lateness, TickEnds
  <1>2. ASSUME NEW t \in EdgarTick, NextGroup(t) PROVE PublicOnly'
    BY <1>2 DEF NextGroup, EdgarGoto, sec, edgarTick, lateness, TickEnds
  <1>3. ASSUME NEW t \in EdgarTick, ReadSeen(t) PROVE PublicOnly'
    BY <1>3 DEF ReadSeen, EdgarGoto, sec, edgarTick, lateness, TickEnds
  <1>4. ASSUME NEW t \in EdgarTick, Fetch(t) PROVE PublicOnly'
    BY <1>4 DEF Fetch, EdgarGoto, sec, edgarTick, lateness, TickEnds
  <1>5. ASSUME NEW t \in EdgarTick, DeliverFiling(t) PROVE PublicOnly'
    BY <1>5 DEF DeliverFiling, sec, edgarTick, lateness, TickEnds
  <1>6. ASSUME NEW t \in EdgarTick, AddSeen(t) PROVE PublicOnly'
    BY <1>6 DEF AddSeen, MarkMissed, LateFor, Leave, EdgarGoto, sec, edgarTick
  <1>7. ASSUME NEW t \in EdgarTick, CikFails(t) PROVE PublicOnly'
    BY <1>7 DEF CikFails, Leave, EdgarGoto, EdgarFault, sec, edgarTick, lateness, TickEnds
  <1>8. ASSUME NEW t \in EdgarTick, TickDies(t) PROVE PublicOnly'
    BY <1>8 DEF TickDies, EdgarGoto, EdgarFault, sec, edgarTick, lateness, TickEnds
  <1>9. ASSUME NEW f \in Filing, Accept(f) PROVE PublicOnly'
    BY <1>9 DEF Accept, sec, edgarTick, lateness, TickEnds
  <1>10. ASSUME NEW f \in Filing, Publish(f) PROVE PublicOnly'
    BY <1>10 DEF Publish, sec, edgarTick, lateness, TickEnds
  <1>11. ASSUME NEW s \in EdgarSub, ArmEdgar(s) PROVE PublicOnly'
    BY <1>11 DEF ArmEdgar, sec, edgarTick, lateness, TickEnds
  <1>12. CASE SecAdvance
    BY <1>12 DEF SecAdvance, sec, edgarTick, lateness, TickEnds
  <1>13. CASE UNCHANGED edgarVars
    BY <1>13 DEF edgarVars, sec, edgarTick, lateness, TickEnds
  <1> QED
    BY <1>1, <1>2, <1>3, <1>4, <1>5, <1>6, <1>7, <1>8, <1>9,
       <1>10, <1>11, <1>12, <1>13
    DEF EdgarNext, EdgarTickSteps

(* Whoever is armed now is not armed before another. *)
LEMMA FirstStep ==
  ASSUME EdgarAssumption, EdgarInv, [EdgarNext]_edgarVars
  PROVE  SomeoneIsFirst'
  <1> USE DEF EdgarAssumption, EdgarInv, EdgarTypeOK, Never, SomeoneIsFirst
  <1>1. ASSUME NEW t \in EdgarTick, ReadDesired(t) PROVE SomeoneIsFirst'
    BY <1>1 DEF ReadDesired, EdgarGoto, Loaded, EdgarFault, sec, edgarTick, lateness, TickEnds
  <1>2. ASSUME NEW t \in EdgarTick, NextGroup(t) PROVE SomeoneIsFirst'
    BY <1>2 DEF NextGroup, EdgarGoto, sec, edgarTick, lateness, TickEnds
  <1>3. ASSUME NEW t \in EdgarTick, ReadSeen(t) PROVE SomeoneIsFirst'
    BY <1>3 DEF ReadSeen, EdgarGoto, sec, edgarTick, lateness, TickEnds
  <1>4. ASSUME NEW t \in EdgarTick, Fetch(t) PROVE SomeoneIsFirst'
    BY <1>4 DEF Fetch, EdgarGoto, sec, edgarTick, lateness, TickEnds
  <1>5. ASSUME NEW t \in EdgarTick, DeliverFiling(t) PROVE SomeoneIsFirst'
    BY <1>5 DEF DeliverFiling, sec, edgarTick, lateness, TickEnds
  <1>6. ASSUME NEW t \in EdgarTick, AddSeen(t) PROVE SomeoneIsFirst'
    BY <1>6 DEF AddSeen, MarkMissed, LateFor, Leave, EdgarGoto, sec, edgarTick
  <1>7. ASSUME NEW t \in EdgarTick, CikFails(t) PROVE SomeoneIsFirst'
    BY <1>7 DEF CikFails, Leave, EdgarGoto, EdgarFault, sec, edgarTick, lateness, TickEnds
  <1>8. ASSUME NEW t \in EdgarTick, TickDies(t) PROVE SomeoneIsFirst'
    BY <1>8 DEF TickDies, EdgarGoto, EdgarFault, sec, edgarTick, lateness, TickEnds
  <1>9. ASSUME NEW f \in Filing, Accept(f) PROVE SomeoneIsFirst'
    BY <1>9 DEF Accept, sec, edgarTick, lateness, TickEnds
  <1>10. ASSUME NEW f \in Filing, Publish(f) PROVE SomeoneIsFirst'
    BY <1>10 DEF Publish, sec, edgarTick, lateness, TickEnds
  <1>11. ASSUME NEW s \in EdgarSub, ArmEdgar(s) PROVE SomeoneIsFirst'
    BY <1>11 DEF ArmEdgar, sec, edgarTick, lateness, TickEnds
  <1>12. CASE SecAdvance
    BY <1>12 DEF SecAdvance, sec, edgarTick, lateness, TickEnds
  <1>13. CASE UNCHANGED edgarVars
    BY <1>13 DEF edgarVars, sec, edgarTick, lateness, TickEnds
  <1> QED
    BY <1>1, <1>2, <1>3, <1>4, <1>5, <1>6, <1>7, <1>8, <1>9,
       <1>10, <1>11, <1>12, <1>13
    DEF EdgarNext, EdgarTickSteps

(* Whoever arms while a tick runs is late for it. *)
LEMMA ListedStep ==
  ASSUME EdgarAssumption, EdgarInv, [EdgarNext]_edgarVars
  PROVE  EveryoneIsListed'
  <1> USE DEF EdgarAssumption, EdgarInv, EdgarTypeOK, Never, HeldByTick, EveryoneIsListed,
      Armed, InCompany, LateFor
  <1>1. ASSUME NEW t \in EdgarTick, ReadDesired(t) PROVE EveryoneIsListed'
    BY <1>1 DEF ReadDesired, EdgarGoto, Loaded, EdgarFault, sec, edgarTick, lateness, TickEnds
  <1>2. ASSUME NEW t \in EdgarTick, NextGroup(t) PROVE EveryoneIsListed'
    BY <1>2 DEF NextGroup, EdgarGoto, sec, edgarTick, lateness, TickEnds
  <1>3. ASSUME NEW t \in EdgarTick, ReadSeen(t) PROVE EveryoneIsListed'
    BY <1>3 DEF ReadSeen, EdgarGoto, sec, edgarTick, lateness, TickEnds
  <1>4. ASSUME NEW t \in EdgarTick, Fetch(t) PROVE EveryoneIsListed'
    BY <1>4 DEF Fetch, EdgarGoto, sec, edgarTick, lateness, TickEnds
  <1>5. ASSUME NEW t \in EdgarTick, DeliverFiling(t) PROVE EveryoneIsListed'
    BY <1>5 DEF DeliverFiling, sec, edgarTick, lateness, TickEnds
  <1>6. ASSUME NEW t \in EdgarTick, AddSeen(t) PROVE EveryoneIsListed'
    BY <1>6 DEF AddSeen, MarkMissed, LateFor, Leave, EdgarGoto, sec, edgarTick
  <1>7. ASSUME NEW t \in EdgarTick, CikFails(t) PROVE EveryoneIsListed'
    BY <1>7 DEF CikFails, Leave, EdgarGoto, EdgarFault, sec, edgarTick, lateness, TickEnds
  <1>8. ASSUME NEW t \in EdgarTick, TickDies(t) PROVE EveryoneIsListed'
    BY <1>8 DEF TickDies, EdgarGoto, EdgarFault, sec, edgarTick, lateness, TickEnds
  <1>9. ASSUME NEW f \in Filing, Accept(f) PROVE EveryoneIsListed'
    BY <1>9 DEF Accept, sec, edgarTick, lateness, TickEnds
  <1>10. ASSUME NEW f \in Filing, Publish(f) PROVE EveryoneIsListed'
    BY <1>10 DEF Publish, sec, edgarTick, lateness, TickEnds
  <1>11. ASSUME NEW s \in EdgarSub, ArmEdgar(s) PROVE EveryoneIsListed'
    BY <1>11 DEF ArmEdgar, sec, edgarTick, lateness, TickEnds
  <1>12. CASE SecAdvance
    BY <1>12 DEF SecAdvance, sec, edgarTick, lateness, TickEnds
  <1>13. CASE UNCHANGED edgarVars
    BY <1>13 DEF edgarVars, sec, edgarTick, lateness, TickEnds
  <1> QED
    BY <1>1, <1>2, <1>3, <1>4, <1>5, <1>6, <1>7, <1>8, <1>9,
       <1>10, <1>11, <1>12, <1>13
    DEF EdgarNext, EdgarTickSteps

(* A fetch offers every filing that is not accounted for. *)
LEMMA OfferedStep ==
  ASSUME EdgarAssumption, EdgarInv, [EdgarNext]_edgarVars
  PROVE  OfferedToTheWaiting'
  <1> USE DEF EdgarAssumption, EdgarInv, EdgarTypeOK, Never, HeldByTick, PublicOnly,
      OfferedToTheWaiting, Armed, Wanted, InCompany, LateFor
  <1>1. ASSUME NEW t \in EdgarTick, ReadDesired(t) PROVE OfferedToTheWaiting'
    BY <1>1 DEF ReadDesired, EdgarGoto, Loaded, EdgarFault, sec, edgarTick, lateness, TickEnds
  <1>2. ASSUME NEW t \in EdgarTick, NextGroup(t) PROVE OfferedToTheWaiting'
    BY <1>2 DEF NextGroup, EdgarGoto, sec, edgarTick, lateness, TickEnds
  <1>3. ASSUME NEW t \in EdgarTick, ReadSeen(t) PROVE OfferedToTheWaiting'
    BY <1>3 DEF ReadSeen, EdgarGoto, sec, edgarTick, lateness, TickEnds
  <1>4. ASSUME NEW t \in EdgarTick, Fetch(t) PROVE OfferedToTheWaiting'
    <2>1. PICK fresh \in SUBSET Filing :
            /\ offers' = [offers EXCEPT ![t] = {o \in fresh \X Group(t) : Wanted(o[1], o[2])}]
            /\ fresh \subseteq public
            /\ \A f \in fetched'[t] \ fresh, s \in Group(t) : f \in seen \/ accepted[f] <= armedAt[s]
      BY <1>4, FetchOffers
    <2>2. /\ edgarPc' = [edgarPc EXCEPT ![t] = "deliver"] /\ edgarPc[t] = "fetch" /\ cik[t] # None
          /\ fetched' = [fetched EXCEPT ![t] = {f \in public : CikOf[f] = cik[t]}]
          /\ UNCHANGED <<public, accepted, armedAt, wokenBy, seen, cik, late, missed>>
      BY <1>4 DEF Fetch, EdgarGoto, sec, lateness
    <2>3. ASSUME NEW f \in fetched'[t], NEW s \in EdgarSub \ Unknown,
                 CikOf[f] = CikOf[s], Armed(s), Wanted(f, s), s \notin LateFor(t),
                 <<f, s>> \notin missed
          PROVE  <<f, s>> \in offers'[t]
      <3>1. f \in Filing /\ f \in public /\ CikOf[f] = cik[t]
        BY <2>2, <2>3
      <3>2. s \in Group(t)
        BY <2>2, <2>3, <3>1 DEF Group, EveryoneIsListed
      <3>3. accepted[f] \in Int /\ armedAt[s] \in Int /\ accepted[f] > armedAt[s]
        BY <2>3, <3>1
      <3>4. f \notin seen
        <4>1. f \in seen => accepted[f] <= armedAt[s]
          <5>1. NothingSwallowed
            BY DEF EdgarInv
          <5>2. f \in Wants[s]
            BY <2>3
          <5> QED
            BY ONLY <2>3, <5>1, <5>2 DEF NothingSwallowed
        <4> QED
          BY <3>3, <4>1
      <3>5. f \in fresh
        BY <2>1, <3>2, <3>3, <3>4
      <3> QED
        BY <2>1, <2>3, <3>2, <3>5
    <2>4. \A u \in EdgarTick : u # t => /\ edgarPc'[u] = edgarPc[u] /\ fetched'[u] = fetched[u]
                                   /\ offers'[u] = offers[u]
      BY <2>1, <2>2
    <2> QED
      BY <2>2, <2>3, <2>4
  <1>5. ASSUME NEW t \in EdgarTick, DeliverFiling(t) PROVE OfferedToTheWaiting'
    BY <1>5 DEF DeliverFiling, sec, edgarTick, lateness, TickEnds
  <1>6. ASSUME NEW t \in EdgarTick, AddSeen(t) PROVE OfferedToTheWaiting'
    BY <1>6 DEF AddSeen, MarkMissed, LateFor, Leave, EdgarGoto, sec, edgarTick
  <1>7. ASSUME NEW t \in EdgarTick, CikFails(t) PROVE OfferedToTheWaiting'
    BY <1>7 DEF CikFails, Leave, EdgarGoto, EdgarFault, sec, edgarTick, lateness, TickEnds
  <1>8. ASSUME NEW t \in EdgarTick, TickDies(t) PROVE OfferedToTheWaiting'
    BY <1>8 DEF TickDies, EdgarGoto, EdgarFault, sec, edgarTick, lateness, TickEnds
  <1>9. ASSUME NEW f \in Filing, Accept(f) PROVE OfferedToTheWaiting'
    BY <1>9 DEF Accept, sec, edgarTick, lateness, TickEnds
  <1>10. ASSUME NEW f \in Filing, Publish(f) PROVE OfferedToTheWaiting'
    BY <1>10 DEF Publish, sec, edgarTick, lateness, TickEnds
  <1>11. ASSUME NEW s \in EdgarSub, ArmEdgar(s) PROVE OfferedToTheWaiting'
    BY <1>11 DEF ArmEdgar, sec, edgarTick, lateness, TickEnds
  <1>12. CASE SecAdvance
    BY <1>12 DEF SecAdvance, sec, edgarTick, lateness, TickEnds
  <1>13. CASE UNCHANGED edgarVars
    BY <1>13 DEF edgarVars, sec, edgarTick, lateness, TickEnds
  <1> QED
    BY <1>1, <1>2, <1>3, <1>4, <1>5, <1>6, <1>7, <1>8, <1>9,
       <1>10, <1>11, <1>12, <1>13
    DEF EdgarNext, EdgarTickSteps

(* A fetch offers nothing else. *)
LEMMA WantedStep ==
  ASSUME EdgarAssumption, EdgarInv, [EdgarNext]_edgarVars
  PROVE  OffersAreWanted'
  <1> USE DEF EdgarAssumption, EdgarInv, EdgarTypeOK, Never, HeldByTick, PublicOnly,
      OffersAreWanted, Wanted
  <1>1. ASSUME NEW t \in EdgarTick, ReadDesired(t) PROVE OffersAreWanted'
    BY <1>1 DEF ReadDesired, EdgarGoto, Loaded, EdgarFault, sec, edgarTick, lateness, TickEnds
  <1>2. ASSUME NEW t \in EdgarTick, NextGroup(t) PROVE OffersAreWanted'
    BY <1>2 DEF NextGroup, EdgarGoto, sec, edgarTick, lateness, TickEnds
  <1>3. ASSUME NEW t \in EdgarTick, ReadSeen(t) PROVE OffersAreWanted'
    BY <1>3 DEF ReadSeen, EdgarGoto, sec, edgarTick, lateness, TickEnds
  <1>4. ASSUME NEW t \in EdgarTick, Fetch(t) PROVE OffersAreWanted'
    <2>1. PICK fresh \in SUBSET Filing :
            /\ offers' = [offers EXCEPT ![t] = {o \in fresh \X Group(t) : Wanted(o[1], o[2])}]
            /\ fresh \subseteq public
      BY <1>4, FetchOffers
    <2>2. UNCHANGED <<public, accepted, armedAt>>
      BY <1>4 DEF Fetch, sec
    <2> QED
      BY <2>1, <2>2
  <1>5. ASSUME NEW t \in EdgarTick, DeliverFiling(t) PROVE OffersAreWanted'
    BY <1>5 DEF DeliverFiling, sec, edgarTick, lateness, TickEnds
  <1>6. ASSUME NEW t \in EdgarTick, AddSeen(t) PROVE OffersAreWanted'
    BY <1>6 DEF AddSeen, MarkMissed, LateFor, Leave, EdgarGoto, sec, edgarTick
  <1>7. ASSUME NEW t \in EdgarTick, CikFails(t) PROVE OffersAreWanted'
    BY <1>7 DEF CikFails, Leave, EdgarGoto, EdgarFault, sec, edgarTick, lateness, TickEnds
  <1>8. ASSUME NEW t \in EdgarTick, TickDies(t) PROVE OffersAreWanted'
    BY <1>8 DEF TickDies, EdgarGoto, EdgarFault, sec, edgarTick, lateness, TickEnds
  <1>9. ASSUME NEW f \in Filing, Accept(f) PROVE OffersAreWanted'
    BY <1>9 DEF Accept, sec, edgarTick, lateness, TickEnds
  <1>10. ASSUME NEW f \in Filing, Publish(f) PROVE OffersAreWanted'
    BY <1>10 DEF Publish, sec, edgarTick, lateness, TickEnds
  <1>11. ASSUME NEW s \in EdgarSub, ArmEdgar(s) PROVE OffersAreWanted'
    BY <1>11 DEF ArmEdgar, sec, edgarTick, lateness, TickEnds
  <1>12. CASE SecAdvance
    BY <1>12 DEF SecAdvance, sec, edgarTick, lateness, TickEnds
  <1>13. CASE UNCHANGED edgarVars
    BY <1>13 DEF edgarVars, sec, edgarTick, lateness, TickEnds
  <1> QED
    BY <1>1, <1>2, <1>3, <1>4, <1>5, <1>6, <1>7, <1>8, <1>9,
       <1>10, <1>11, <1>12, <1>13
    DEF EdgarNext, EdgarTickSteps

(* The seen-set grows by what nobody waits for any more. *)
LEMMA SwallowedStep ==
  ASSUME EdgarAssumption, EdgarInv, [EdgarNext]_edgarVars
  PROVE  NothingSwallowed'
  <1> USE DEF EdgarAssumption, EdgarInv, EdgarTypeOK, Never, HeldByTick, PublicOnly,
      OfferedToTheWaiting, Armed, Wanted, NothingSwallowed, LateFor
  <1>1. ASSUME NEW t \in EdgarTick, ReadDesired(t) PROVE NothingSwallowed'
    BY <1>1 DEF ReadDesired, EdgarGoto, Loaded, EdgarFault, sec, edgarTick, lateness, TickEnds
  <1>2. ASSUME NEW t \in EdgarTick, NextGroup(t) PROVE NothingSwallowed'
    BY <1>2 DEF NextGroup, EdgarGoto, sec, edgarTick, lateness, TickEnds
  <1>3. ASSUME NEW t \in EdgarTick, ReadSeen(t) PROVE NothingSwallowed'
    BY <1>3 DEF ReadSeen, EdgarGoto, sec, edgarTick, lateness, TickEnds
  <1>4. ASSUME NEW t \in EdgarTick, Fetch(t) PROVE NothingSwallowed'
    BY <1>4 DEF Fetch, EdgarGoto, sec, edgarTick, lateness, TickEnds
  <1>5. ASSUME NEW t \in EdgarTick, DeliverFiling(t) PROVE NothingSwallowed'
    BY <1>5 DEF DeliverFiling, sec, edgarTick, lateness, TickEnds
  <1>6. ASSUME NEW t \in EdgarTick, AddSeen(t) PROVE NothingSwallowed'
    <2> SUFFICES ASSUME NEW s \in EdgarSub \ Unknown, NEW f \in seen',
                        f \in Wants[s], CikOf[f] = CikOf[s], Armed(s)
                 PROVE  accepted[f] <= armedAt[s] \/ <<f, s>> \in missed'
      BY <1>6 DEF AddSeen, sec
    <2>0. missed' = missed \cup {m \in fetched[t] \X LateFor(t) :
                                  CikOf[m[1]] = CikOf[m[2]] /\ Wanted(m[1], m[2])}
      BY <1>6 DEF AddSeen, MarkMissed
    <2>1. CASE f \in seen
      BY <2>0, <2>1
    <2>2. CASE f \in fetched[t]
      <3>1. edgarPc[t] = "deliver" /\ offers[t] = {}
        BY <1>6 DEF AddSeen
      <3>2. accepted[f] \in Int /\ armedAt[s] \in Int
        BY <2>2
      <3>3. accepted[f] > armedAt[s] => s \in LateFor(t) \/ <<f, s>> \in missed
        BY <2>2, <3>1
      <3>4. accepted[f] > armedAt[s] /\ s \in LateFor(t) => <<f, s>> \in missed'
        BY <2>0, <2>2
      <3> QED
        BY <2>0, <3>2, <3>3, <3>4
    <2> QED
      BY <1>6, <2>1, <2>2 DEF AddSeen
  <1>7. ASSUME NEW t \in EdgarTick, CikFails(t) PROVE NothingSwallowed'
    BY <1>7 DEF CikFails, Leave, EdgarGoto, EdgarFault, sec, edgarTick, lateness, TickEnds
  <1>8. ASSUME NEW t \in EdgarTick, TickDies(t) PROVE NothingSwallowed'
    BY <1>8 DEF TickDies, EdgarGoto, EdgarFault, sec, edgarTick, lateness, TickEnds
  <1>9. ASSUME NEW f \in Filing, Accept(f) PROVE NothingSwallowed'
    BY <1>9 DEF Accept, sec, edgarTick, lateness, TickEnds
  <1>10. ASSUME NEW f \in Filing, Publish(f) PROVE NothingSwallowed'
    BY <1>10 DEF Publish, sec, edgarTick, lateness, TickEnds
  <1>11. ASSUME NEW s \in EdgarSub, ArmEdgar(s) PROVE NothingSwallowed'
    BY <1>11 DEF ArmEdgar, sec, edgarTick, lateness, TickEnds
  <1>12. CASE SecAdvance
    BY <1>12 DEF SecAdvance, sec, edgarTick, lateness, TickEnds
  <1>13. CASE UNCHANGED edgarVars
    BY <1>13 DEF edgarVars, sec, edgarTick, lateness, TickEnds
  <1> QED
    BY <1>1, <1>2, <1>3, <1>4, <1>5, <1>6, <1>7, <1>8, <1>9,
       <1>10, <1>11, <1>12, <1>13
    DEF EdgarNext, EdgarTickSteps

(* A wake is an offer, and an offer is of a younger filing. *)
LEMMA OlderStep ==
  ASSUME EdgarAssumption, EdgarInv, [EdgarNext]_edgarVars
  PROVE  NothingOlderThanSubscription'
  <1> USE DEF EdgarAssumption, EdgarInv, EdgarTypeOK, Never, HeldByTick, PublicOnly,
      OffersAreWanted, Wanted, NothingOlderThanSubscription
  <1>1. ASSUME NEW t \in EdgarTick, ReadDesired(t) PROVE NothingOlderThanSubscription'
    BY <1>1 DEF ReadDesired, EdgarGoto, Loaded, EdgarFault, sec, edgarTick, lateness, TickEnds
  <1>2. ASSUME NEW t \in EdgarTick, NextGroup(t) PROVE NothingOlderThanSubscription'
    BY <1>2 DEF NextGroup, EdgarGoto, sec, edgarTick, lateness, TickEnds
  <1>3. ASSUME NEW t \in EdgarTick, ReadSeen(t) PROVE NothingOlderThanSubscription'
    BY <1>3 DEF ReadSeen, EdgarGoto, sec, edgarTick, lateness, TickEnds
  <1>4. ASSUME NEW t \in EdgarTick, Fetch(t) PROVE NothingOlderThanSubscription'
    BY <1>4 DEF Fetch, EdgarGoto, sec, edgarTick, lateness, TickEnds
  <1>5. ASSUME NEW t \in EdgarTick, DeliverFiling(t) PROVE NothingOlderThanSubscription'
    BY <1>5 DEF DeliverFiling, sec, edgarTick, lateness, TickEnds
  <1>6. ASSUME NEW t \in EdgarTick, AddSeen(t) PROVE NothingOlderThanSubscription'
    BY <1>6 DEF AddSeen, MarkMissed, LateFor, Leave, EdgarGoto, sec, edgarTick
  <1>7. ASSUME NEW t \in EdgarTick, CikFails(t) PROVE NothingOlderThanSubscription'
    BY <1>7 DEF CikFails, Leave, EdgarGoto, EdgarFault, sec, edgarTick, lateness, TickEnds
  <1>8. ASSUME NEW t \in EdgarTick, TickDies(t) PROVE NothingOlderThanSubscription'
    BY <1>8 DEF TickDies, EdgarGoto, EdgarFault, sec, edgarTick, lateness, TickEnds
  <1>9. ASSUME NEW f \in Filing, Accept(f) PROVE NothingOlderThanSubscription'
    BY <1>9 DEF Accept, sec, edgarTick, lateness, TickEnds
  <1>10. ASSUME NEW f \in Filing, Publish(f) PROVE NothingOlderThanSubscription'
    BY <1>10 DEF Publish, sec, edgarTick, lateness, TickEnds
  <1>11. ASSUME NEW s \in EdgarSub, ArmEdgar(s) PROVE NothingOlderThanSubscription'
    BY <1>11 DEF ArmEdgar, sec, edgarTick, lateness, TickEnds
  <1>12. CASE SecAdvance
    BY <1>12 DEF SecAdvance, sec, edgarTick, lateness, TickEnds
  <1>13. CASE UNCHANGED edgarVars
    BY <1>13 DEF edgarVars, sec, edgarTick, lateness, TickEnds
  <1> QED
    BY <1>1, <1>2, <1>3, <1>4, <1>5, <1>6, <1>7, <1>8, <1>9,
       <1>10, <1>11, <1>12, <1>13
    DEF EdgarNext, EdgarTickSteps

-----------------------------------------------------------------------------
LEMMA EdgarStarts == ASSUME EdgarAssumption PROVE EdgarInit => EdgarInv
  <1> SUFFICES ASSUME EdgarInit PROVE EdgarInv
    OBVIOUS
  <1>1. EdgarTypeOK
    BY DEF EdgarInit, EdgarTypeOK, EdgarAssumption, Never
  <1>2. HeldByTick /\ PublicOnly
    BY DEF EdgarInit, HeldByTick, PublicOnly, InCompany
  <1>3. SomeoneIsFirst
    BY DEF EdgarInit, SomeoneIsFirst, EdgarAssumption, Never
  <1>4. EveryoneIsListed /\ OfferedToTheWaiting /\ OffersAreWanted
    BY DEF EdgarInit, EveryoneIsListed, OfferedToTheWaiting, OffersAreWanted
  <1>5. NothingSwallowed /\ NothingOlderThanSubscription
    BY DEF EdgarInit, NothingSwallowed, NothingOlderThanSubscription
  <1> QED
    BY <1>1, <1>2, <1>3, <1>4, <1>5 DEF EdgarInv

LEMMA EdgarStep ==
  ASSUME EdgarAssumption PROVE EdgarInv /\ [EdgarNext]_edgarVars => EdgarInv'
  BY EdgarTypeStep, HeldStep, PublicStep, FirstStep, ListedStep, OfferedStep, WantedStep,
     SwallowedStep, OlderStep
  DEF EdgarInv

LEMMA EdgarHolds == ASSUME EdgarAssumption PROVE EdgarSpec => []EdgarInv
  BY EdgarStarts, EdgarStep, PTL DEF EdgarSpec

-----------------------------------------------------------------------------
(* The clock sweep                                                          *)

(* Index, ticks and records keep to their types. *)
LEMMA ClockTypeStep ==
  ASSUME ClockSweepAssumption, ClockInv, [ClockNext]_clockVars
  PROVE  ClockTypeOK'
  <1> USE DEF ClockSweepAssumption, ClockInv, ClockTypeOK
  <1>1. CASE ClockAdvance
    BY <1>1 DEF ClockAdvance, clockTick
  <1>2. ASSUME NEW s \in ClockSub, WriteArmed(s) PROVE ClockTypeOK'
    BY <1>2 DEF WriteArmed, clockTick
  <1>3. ASSUME NEW s \in ClockSub, ArmIndexes(s) PROVE ClockTypeOK'
    BY <1>3 DEF ArmIndexes, addClockDue, ClockFault, clockTick
  <1>4. ASSUME NEW s \in ClockSub, RivalTransition(s) PROVE ClockTypeOK'
    BY <1>4 DEF RivalTransition, clockTick
  <1>5. ASSUME NEW s \in ClockSub, SettleRow(s) PROVE ClockTypeOK'
    BY <1>5 DEF SettleRow, clockTick
  <1>6. ASSUME NEW s \in ClockSub, Disarm(s) PROVE ClockTypeOK'
    BY <1>6 DEF Disarm, removeClockDue, ClockFault, clockTick
  <1>7. ASSUME NEW t \in ClockTick, StartTick(t) PROVE ClockTypeOK'
    BY <1>7 DEF StartTick, ClockGoto, clockTick
  <1>8. ASSUME NEW t \in ClockTick, ListArmed(t) PROVE ClockTypeOK'
    BY <1>8 DEF ListArmed, ClockGoto, clockTick
  <1>9. ASSUME NEW t \in ClockTick, Reconcile(t) PROVE ClockTypeOK'
    BY <1>9 DEF Reconcile, ClockGoto, addClockDue, clockTick
  <1>10. ASSUME NEW t \in ClockTick, ReadDue(t) PROVE ClockTypeOK'
    BY <1>10 DEF ReadDue, ClockGoto, clockTick
  <1>11. ASSUME NEW t \in ClockTick, ReadBatch(t) PROVE ClockTypeOK'
    BY <1>11 DEF ReadBatch, ClockGoto, clockTick
  <1>12. ASSUME NEW t \in ClockTick, NextDueRow(t) PROVE ClockTypeOK'
    BY <1>12 DEF NextDueRow, EndTick, ClockGoto, removeClockDue, ClockFault, clockTick
  <1>13. ASSUME NEW t \in ClockTick, DeliverRow(t) PROVE ClockTypeOK'
    BY <1>13 DEF DeliverRow, ClockGoto, ClockFault, clockTick
  <1>14. ASSUME NEW t \in ClockTick, Recheck(t) PROVE ClockTypeOK'
    BY <1>14 DEF Recheck, LeaveRow, ClockGoto, ClockFault, clockTick
  <1>15. ASSUME NEW t \in ClockTick, Remove(t) PROVE ClockTypeOK'
    BY <1>15 DEF Remove, LeaveRow, ClockGoto, removeClockDue, ClockFault, clockTick
  <1>16. ASSUME NEW t \in ClockTick, TickFails(t) PROVE ClockTypeOK'
    BY <1>16 DEF TickFails, EndTick, ClockGoto, ClockFault, clockTick
  <1>17. CASE UNCHANGED clockVars
    BY <1>17 DEF clockVars, clockTick
  <1> QED
    BY <1>1, <1>2, <1>3, <1>4, <1>5, <1>6, <1>7, <1>8, <1>9,
       <1>10, <1>11, <1>12, <1>13, <1>14, <1>15, <1>16, <1>17
    DEF ClockNext, ClockTickSteps

(* Only what has been armed gets into the index and the lists. *)
LEMMA WrittenStep ==
  ASSUME ClockSweepAssumption, ClockInv, [ClockNext]_clockVars
  PROVE  KnownIsWritten'
  <1> USE DEF ClockSweepAssumption, ClockInv, ClockTypeOK, KnownIsWritten
  <1>1. CASE ClockAdvance
    BY <1>1 DEF ClockAdvance, clockTick
  <1>2. ASSUME NEW s \in ClockSub, WriteArmed(s) PROVE KnownIsWritten'
    BY <1>2 DEF WriteArmed, clockTick
  <1>3. ASSUME NEW s \in ClockSub, ArmIndexes(s) PROVE KnownIsWritten'
    BY <1>3 DEF ArmIndexes, addClockDue, ClockFault, clockTick
  <1>4. ASSUME NEW s \in ClockSub, RivalTransition(s) PROVE KnownIsWritten'
    BY <1>4 DEF RivalTransition, clockTick
  <1>5. ASSUME NEW s \in ClockSub, SettleRow(s) PROVE KnownIsWritten'
    BY <1>5 DEF SettleRow, clockTick
  <1>6. ASSUME NEW s \in ClockSub, Disarm(s) PROVE KnownIsWritten'
    BY <1>6 DEF Disarm, removeClockDue, ClockFault, clockTick
  <1>7. ASSUME NEW t \in ClockTick, StartTick(t) PROVE KnownIsWritten'
    BY <1>7 DEF StartTick, ClockGoto, clockTick
  <1>8. ASSUME NEW t \in ClockTick, ListArmed(t) PROVE KnownIsWritten'
    BY <1>8 DEF ListArmed, ClockGoto, clockTick
  <1>9. ASSUME NEW t \in ClockTick, Reconcile(t) PROVE KnownIsWritten'
    BY <1>9 DEF Reconcile, ClockGoto, addClockDue, clockTick
  <1>10. ASSUME NEW t \in ClockTick, ReadDue(t) PROVE KnownIsWritten'
    BY <1>10 DEF ReadDue, ClockGoto, clockTick
  <1>11. ASSUME NEW t \in ClockTick, ReadBatch(t) PROVE KnownIsWritten'
    BY <1>11 DEF ReadBatch, ClockGoto, clockTick
  <1>12. ASSUME NEW t \in ClockTick, NextDueRow(t) PROVE KnownIsWritten'
    BY <1>12 DEF NextDueRow, EndTick, ClockGoto, removeClockDue, ClockFault, clockTick
  <1>13. ASSUME NEW t \in ClockTick, DeliverRow(t) PROVE KnownIsWritten'
    BY <1>13 DEF DeliverRow, ClockGoto, ClockFault, clockTick
  <1>14. ASSUME NEW t \in ClockTick, Recheck(t) PROVE KnownIsWritten'
    BY <1>14 DEF Recheck, LeaveRow, ClockGoto, ClockFault, clockTick
  <1>15. ASSUME NEW t \in ClockTick, Remove(t) PROVE KnownIsWritten'
    BY <1>15 DEF Remove, LeaveRow, ClockGoto, removeClockDue, ClockFault, clockTick
  <1>16. ASSUME NEW t \in ClockTick, TickFails(t) PROVE KnownIsWritten'
    BY <1>16 DEF TickFails, EndTick, ClockGoto, ClockFault, clockTick
  <1>17. CASE UNCHANGED clockVars
    BY <1>17 DEF clockVars, clockTick
  <1> QED
    BY <1>1, <1>2, <1>3, <1>4, <1>5, <1>6, <1>7, <1>8, <1>9,
       <1>10, <1>11, <1>12, <1>13, <1>14, <1>15, <1>16, <1>17
    DEF ClockNext, ClockTickSteps

(* Nothing becomes armed between the look at a row and its removal. *)
LEMMA RemovesStep ==
  ASSUME ClockSweepAssumption, ClockInv, [ClockNext]_clockVars
  PROVE  RemovesTheDead'
  <1> USE DEF ClockSweepAssumption, ClockInv, ClockTypeOK, KnownIsWritten, RemovesTheDead, InRow
  <1>1. CASE ClockAdvance
    BY <1>1 DEF ClockAdvance, clockTick
  <1>2. ASSUME NEW s \in ClockSub, WriteArmed(s) PROVE RemovesTheDead'
    BY <1>2 DEF WriteArmed, clockTick
  <1>3. ASSUME NEW s \in ClockSub, ArmIndexes(s) PROVE RemovesTheDead'
    BY <1>3 DEF ArmIndexes, addClockDue, ClockFault, clockTick
  <1>4. ASSUME NEW s \in ClockSub, RivalTransition(s) PROVE RemovesTheDead'
    BY <1>4 DEF RivalTransition, clockTick
  <1>5. ASSUME NEW s \in ClockSub, SettleRow(s) PROVE RemovesTheDead'
    BY <1>5 DEF SettleRow, clockTick
  <1>6. ASSUME NEW s \in ClockSub, Disarm(s) PROVE RemovesTheDead'
    BY <1>6 DEF Disarm, removeClockDue, ClockFault, clockTick
  <1>7. ASSUME NEW t \in ClockTick, StartTick(t) PROVE RemovesTheDead'
    BY <1>7 DEF StartTick, ClockGoto, clockTick
  <1>8. ASSUME NEW t \in ClockTick, ListArmed(t) PROVE RemovesTheDead'
    BY <1>8 DEF ListArmed, ClockGoto, clockTick
  <1>9. ASSUME NEW t \in ClockTick, Reconcile(t) PROVE RemovesTheDead'
    BY <1>9 DEF Reconcile, ClockGoto, addClockDue, clockTick
  <1>10. ASSUME NEW t \in ClockTick, ReadDue(t) PROVE RemovesTheDead'
    BY <1>10 DEF ReadDue, ClockGoto, clockTick
  <1>11. ASSUME NEW t \in ClockTick, ReadBatch(t) PROVE RemovesTheDead'
    BY <1>11 DEF ReadBatch, ClockGoto, clockTick
  <1>12. ASSUME NEW t \in ClockTick, NextDueRow(t) PROVE RemovesTheDead'
    BY <1>12 DEF NextDueRow, EndTick, ClockGoto, removeClockDue, ClockFault, clockTick
  <1>13. ASSUME NEW t \in ClockTick, DeliverRow(t) PROVE RemovesTheDead'
    <2>1. /\ clockTodo' = clockTodo /\ batch' = batch /\ row' = row
          /\ clockPc' = [clockPc EXCEPT ![t] = "recheck"]
          /\ \A q \in ClockSub : status'[q] = "armed" => status[q] = "armed"
      BY <1>13 DEF DeliverRow, ClockGoto
    <2>2. \A u \in ClockTick : clockPc[u] = "remove" => row[u] \in ClockSub
      BY DEF LooksAtDue
    <2>3. \A u \in ClockTick : clockPc'[u] = "remove" => status'[row'[u]] # "armed"
      BY <2>1, <2>2
    <2>4. \A u \in ClockTick : clockPc'[u] = "rows" \/ InRow(u)' => clockPc[u] = "rows" \/ InRow(u)
      BY <1>13, <2>1 DEF DeliverRow
    <2> QED
      BY <2>1, <2>3, <2>4
  <1>14. ASSUME NEW t \in ClockTick, Recheck(t) PROVE RemovesTheDead'
    BY <1>14 DEF Recheck, LeaveRow, ClockGoto, ClockFault, clockTick
  <1>15. ASSUME NEW t \in ClockTick, Remove(t) PROVE RemovesTheDead'
    BY <1>15 DEF Remove, LeaveRow, ClockGoto, removeClockDue, ClockFault, clockTick
  <1>16. ASSUME NEW t \in ClockTick, TickFails(t) PROVE RemovesTheDead'
    BY <1>16 DEF TickFails, EndTick, ClockGoto, ClockFault, clockTick
  <1>17. CASE UNCHANGED clockVars
    BY <1>17 DEF clockVars, clockTick
  <1> QED
    BY <1>1, <1>2, <1>3, <1>4, <1>5, <1>6, <1>7, <1>8, <1>9,
       <1>10, <1>11, <1>12, <1>13, <1>14, <1>15, <1>16, <1>17
    DEF ClockNext, ClockTickSteps

(* Time only passes, so what was due stays due. *)
LEMMA DueStep ==
  ASSUME ClockSweepAssumption, ClockInv, [ClockNext]_clockVars
  PROVE  LooksAtDue'
  <1> USE DEF ClockSweepAssumption, ClockInv, ClockTypeOK, LooksAtDue, InRow, Valid
  <1>1. CASE ClockAdvance
    BY <1>1 DEF ClockAdvance, clockTick
  <1>2. ASSUME NEW s \in ClockSub, WriteArmed(s) PROVE LooksAtDue'
    BY <1>2 DEF WriteArmed, clockTick
  <1>3. ASSUME NEW s \in ClockSub, ArmIndexes(s) PROVE LooksAtDue'
    BY <1>3 DEF ArmIndexes, addClockDue, ClockFault, clockTick
  <1>4. ASSUME NEW s \in ClockSub, RivalTransition(s) PROVE LooksAtDue'
    BY <1>4 DEF RivalTransition, clockTick
  <1>5. ASSUME NEW s \in ClockSub, SettleRow(s) PROVE LooksAtDue'
    BY <1>5 DEF SettleRow, clockTick
  <1>6. ASSUME NEW s \in ClockSub, Disarm(s) PROVE LooksAtDue'
    BY <1>6 DEF Disarm, removeClockDue, ClockFault, clockTick
  <1>7. ASSUME NEW t \in ClockTick, StartTick(t) PROVE LooksAtDue'
    BY <1>7 DEF StartTick, ClockGoto, clockTick
  <1>8. ASSUME NEW t \in ClockTick, ListArmed(t) PROVE LooksAtDue'
    BY <1>8 DEF ListArmed, ClockGoto, clockTick
  <1>9. ASSUME NEW t \in ClockTick, Reconcile(t) PROVE LooksAtDue'
    BY <1>9 DEF Reconcile, ClockGoto, addClockDue, clockTick
  <1>10. ASSUME NEW t \in ClockTick, ReadDue(t) PROVE LooksAtDue'
    BY <1>10 DEF ReadDue, ClockGoto, clockTick
  <1>11. ASSUME NEW t \in ClockTick, ReadBatch(t) PROVE LooksAtDue'
    BY <1>11 DEF ReadBatch, ClockGoto, clockTick
  <1>12. ASSUME NEW t \in ClockTick, NextDueRow(t) PROVE LooksAtDue'
    BY <1>12 DEF NextDueRow, EndTick, ClockGoto, removeClockDue, ClockFault, clockTick
  <1>13. ASSUME NEW t \in ClockTick, DeliverRow(t) PROVE LooksAtDue'
    BY <1>13 DEF DeliverRow, ClockGoto, ClockFault, clockTick
  <1>14. ASSUME NEW t \in ClockTick, Recheck(t) PROVE LooksAtDue'
    BY <1>14 DEF Recheck, LeaveRow, ClockGoto, ClockFault, clockTick
  <1>15. ASSUME NEW t \in ClockTick, Remove(t) PROVE LooksAtDue'
    BY <1>15 DEF Remove, LeaveRow, ClockGoto, removeClockDue, ClockFault, clockTick
  <1>16. ASSUME NEW t \in ClockTick, TickFails(t) PROVE LooksAtDue'
    BY <1>16 DEF TickFails, EndTick, ClockGoto, ClockFault, clockTick
  <1>17. CASE UNCHANGED clockVars
    BY <1>17 DEF clockVars, clockTick
  <1> QED
    BY <1>1, <1>2, <1>3, <1>4, <1>5, <1>6, <1>7, <1>8, <1>9,
       <1>10, <1>11, <1>12, <1>13, <1>14, <1>15, <1>16, <1>17
    DEF ClockNext, ClockTickSteps

-----------------------------------------------------------------------------
LEMMA ClockStarts == ASSUME ClockSweepAssumption PROVE ClockInit => ClockInv
  <1> SUFFICES ASSUME ClockInit PROVE ClockInv
    OBVIOUS
  <1>1. ClockTypeOK
    BY DEF ClockInit, ClockTypeOK, ClockSweepAssumption
  <1>2. KnownIsWritten
    BY DEF ClockInit, KnownIsWritten, ClockSweepAssumption
  <1>3. RemovesTheDead /\ LooksAtDue
    BY DEF ClockInit, RemovesTheDead, LooksAtDue, InRow, ClockSweepAssumption
  <1> QED
    BY <1>1, <1>2, <1>3 DEF ClockInv

LEMMA ClockStep == ASSUME ClockSweepAssumption PROVE ClockInv /\ [ClockNext]_clockVars => ClockInv'
  BY ClockTypeStep, WrittenStep, RemovesStep, DueStep DEF ClockInv

LEMMA ClockHolds == ASSUME ClockSweepAssumption PROVE ClockSpec => []ClockInv
  BY ClockStarts, ClockStep, PTL DEF ClockSpec

(* Who removes from the index: a subscription's own disarm, and a tick for  *)
(* a row it found gone, malformed or no longer armed.                       *)
LEMMA RemovalStep ==
  ASSUME ClockSweepAssumption, ClockInv, [ClockNext]_clockVars
  PROVE  \A s \in clockDue \ clockDue' : status[s] # "armed" \/ s \in Malformed
  <1> USE DEF ClockInv, RemovesTheDead, InRow, Valid
  <1>1. ASSUME NEW t \in ClockTick, NextDueRow(t)
        PROVE  \A s \in clockDue \ clockDue' : status[s] # "armed" \/ s \in Malformed
    BY <1>1 DEF NextDueRow, removeClockDue
  <1>2. ASSUME NEW t \in ClockTick, Remove(t)
        PROVE  \A s \in clockDue \ clockDue' : status[s] # "armed" \/ s \in Malformed
    BY <1>2 DEF Remove, removeClockDue
  <1>3. ASSUME NEW q \in ClockSub, Disarm(q)
        PROVE  \A s \in clockDue \ clockDue' : status[s] # "armed" \/ s \in Malformed
    BY <1>3 DEF Disarm, removeClockDue
  <1>4. CASE clockDue \subseteq clockDue'
    BY <1>4
  <1> QED
    BY <1>1, <1>2, <1>3, <1>4 DEF ClockNext, ClockTickSteps, ClockAdvance, WriteArmed,
      ArmIndexes, RivalTransition,
      SettleRow, StartTick, ListArmed, Reconcile, ReadDue, ReadBatch, DeliverRow, Recheck, TickFails,
      addClockDue, clockVars

-----------------------------------------------------------------------------
(* The components share nothing                                             *)

LEMMA WorkflowsAreApart == Spec => ChainSpec /\ ExpirySpec /\ EdgarSpec /\ ClockSpec
  <1>1. Init => ChainInit /\ ExpiryInit /\ EdgarInit /\ ClockInit
    BY DEF Init
  <1>2. [Next]_mcVars => /\ [ChainNext]_chainVars /\ [ExpiryNext]_expiryVars
                         /\ [EdgarNext]_edgarVars /\ [ClockNext]_clockVars
    BY DEF Next, mcVars
  <1> QED
    BY <1>1, <1>2, PTL DEF Spec, ChainSpec, ExpirySpec, EdgarSpec, ClockSpec

(* Every variable of the workflows keeps its type: a run takes no more      *)
(* steps than it has, a company is swept only by a tick that holds it.      *)
THEOREM WorkflowTypes == Spec => []Types
  <1>1. ChainTypeOK /\ ExpiryTypeOK /\ EdgarInv /\ ClockInv => Types
    BY DEF Types, EdgarInv, ClockInv
  <1> QED
    BY WorkflowsAssumption, WorkflowsAreApart, ChainHolds, ExpiryTypesHold, EdgarHolds, ClockHolds,
       <1>1, PTL DEF WorkflowsAssumption

(* Neither retries, nor a crash anywhere, nor concurrent supervisors lead   *)
(* to a second successor of one run or to a second chain beside a live one  *)
(* ("at-most-once chaining", chain-guard.ts), as long as the tolerance of   *)
(* the supervisor exceeds a step.                                           *)
THEOREM ChainsStayApart == Spec => []ChainsDoNotMultiply
  <1>1. ChainInv => ChainsDoNotMultiply
    BY DEF ChainInv, ChainsDoNotMultiply
  <1> QED
    BY WorkflowsAssumption, WorkflowsAreApart, ChainHolds, <1>1, PTL DEF WorkflowsAssumption

(* "arrived in time to see" (edgar-client.ts): a filing gets into the       *)
(* seen-set only after everyone who waited for it has been woken, whichever *)
(* ticks overlap, wherever they die and whoever arms meanwhile; it is lost  *)
(* to those alone who armed while the tick that marked it was running.      *)
THEOREM NoFilingIsSwallowed == Spec => []NothingSwallowed
  <1>1. EdgarInv => NothingSwallowed
    BY DEF EdgarInv
  <1> QED
    BY WorkflowsAssumption, WorkflowsAreApart, EdgarHolds, <1>1, PTL DEF WorkflowsAssumption

(* No armed, well-formed row ever leaves the index: not by a tick that      *)
(* overlaps another, not by one that is slow, and not by a late disarm      *)
(* (clock-sweep.ts).                                                        *)
THEOREM IndexKeepsTheLiving == Spec => LiveRowsStayIndexed
  <1>1. ASSUME ClockSweepAssumption
        PROVE  ClockInv /\ [ClockNext]_clockVars =>
                 [\A s \in clockDue \ clockDue' : status[s] # "armed" \/ s \in Malformed]_clockVars
    BY <1>1, RemovalStep
  <1> QED
    BY WorkflowsAssumption, WorkflowsAreApart, ClockHolds, <1>1, PTL
    DEF WorkflowsAssumption, ClockSpec, LiveRowsStayIndexed

(* Nothing expires before its deadline, whoever expires it and whatever     *)
(* died before, if no deadline is beyond what a timer can wait; no hour is  *)
(* delivered before it has come, and nobody is woken with a filing that SEC *)
(* accepted before the subscription was armed, also not through a company   *)
(* it shares with an older one or by a tick it armed in.                    *)
THEOREM NothingIsEarly == ASSUME DeadlinesAreNear PROVE Spec => []NothingEarly
  <1>1. ASSUME ClockSweepAssumption, ClockInv PROVE NeverEarly
    <2> SUFFICES ASSUME NEW t \in ClockTick, clockPc[t] = "deliver"
                 PROVE  At[row[t]] <= clockNow /\ Valid(row[t])
      BY DEF NeverEarly
    <2>1. row[t] \in ClockSub /\ At[row[t]] <= nowMs[t] /\ nowMs[t] <= clockNow /\ Valid(row[t])
      BY <1>1 DEF ClockInv, LooksAtDue, InRow
    <2>2. At[row[t]] \in Int /\ nowMs[t] \in Int /\ clockNow \in Int
      BY <1>1, <2>1 DEF ClockInv, ClockTypeOK, ClockSweepAssumption
    <2> QED
      BY <2>1, <2>2
  <1>2. ExpiryInv /\ EdgarInv /\ ClockInv => NothingEarly
    BY WorkflowsAssumption, <1>1 DEF WorkflowsAssumption, NothingEarly, ExpiryInv, EdgarInv
  <1> QED
    BY WorkflowsAssumption, WorkflowsAreApart, ExpiryHolds, EdgarHolds, ClockHolds, <1>2, PTL
    DEF WorkflowsAssumption
================================================================================
