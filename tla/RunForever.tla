------------------------------- MODULE RunForever -------------------------------
(***************************************************************************)
(* One run-forever workflow of the connector (src/connector/workflows),    *)
(* its chaining step (src/catalog/providers/chain-guard.ts) and the cron   *)
(* supervisor that restarts a dead chain (src/connector/routes/ensure-*,   *)
(* src/catalog/providers/chain-supervisor.ts).  Each workflow has keys of  *)
(* its own, so one of them is the whole story.                             *)
(*                                                                         *)
(* A Tick is one period of the supervisor's cron, five minutes.  The lock  *)
(* lives for 60 seconds: long enough for every duplicate of one cron       *)
(* invocation, and gone at the next one.  A member of Run is a run and the *)
(* nonce it minted; the name of a run that is over is free for another.    *)
(***************************************************************************)
EXTENDS Integers, FiniteSets

CONSTANTS Run,             \* runs, each with its nonce
          Cron,            \* concurrent deliveries of one cron invocation
          Stale,           \* HEARTBEAT_STALE_AFTER_MS, in ticks
          MaxStep,         \* longest step the platform lets run, in ticks
          StepsPerRun,     \* SESSION_STEPS_PER_RUN, SWEEP_TICKS_PER_RUN
          HeartbeatAfter,  \* whether a step ends with a heartbeat (sweeps)
          MaxChainFaults,  \* bound on crashes, failed attempts and stops
          MaxManual        \* bound on runs started by hand

(* The tolerance exceeds a step and the pause around it. *)
ToleranceAssumption == MaxStep \in Nat /\ Stale \in Nat /\ MaxStep + 1 <= Stale
RunAssumption ==
  /\ IsFiniteSet(Run) /\ StepsPerRun \in Nat \ {0} /\ HeartbeatAfter \in BOOLEAN
  /\ MaxChainFaults \in Nat /\ MaxManual \in Nat

VARIABLES
  heartbeat,   \* ticks since the last recordHeartbeat, or Absent
  lock,        \* the supervisor lock is held
  phase,       \* where each run is
  steps,       \* steps each run has completed
  silent,      \* ticks since each run last recorded a heartbeat
  claimed,     \* runs whose nonce is claimed for chaining
  successors,  \* how often each run called start() for its successor
  supervisor,  \* where each invocation of the supervisor is
  manual, chainFaults

keys == <<heartbeat, lock, claimed>>
runs == <<phase, steps, silent, successors>>
chainVars == <<keys, runs, supervisor, manual, chainFaults>>

-----------------------------------------------------------------------------
Absent == Stale + 1      \* the key expires 60 s after it went stale
NotYet == MaxStep + 1    \* a run that has not recorded a heartbeat

Phase == {"none", "nonce", "step", "session", "chain", "start", "started"}

ChainTypeOK ==
  /\ heartbeat \in 0..Absent
  /\ lock \in BOOLEAN
  /\ phase \in [Run -> Phase]
  /\ steps \in [Run -> 0..StepsPerRun]
  /\ silent \in [Run -> 0..NotYet]
  /\ claimed \subseteq Run
  /\ successors \in [Run -> 0..2]
  /\ supervisor \in [Cron -> {"idle", "read", "start"}]
  /\ manual \in 0..MaxManual
  /\ chainFaults \in 0..MaxChainFaults

ChainInit ==
  /\ heartbeat = Absent /\ lock = FALSE /\ claimed = {}
  /\ phase = [r \in Run |-> "none"]
  /\ steps = [r \in Run |-> 0]
  /\ silent = [r \in Run |-> NotYet]
  /\ successors = [r \in Run |-> 0]
  /\ supervisor = [s \in Cron |-> "idle"]
  /\ manual = 0 /\ chainFaults = 0

RunGoto(r, label) == phase' = [phase EXCEPT ![r] = label]

(* start(workflow, []): a run that was not there, with a nonce of its own. *)
Start(r) ==
  /\ phase[r] = "none"
  /\ steps' = [steps EXCEPT ![r] = 0]
  /\ silent' = [silent EXCEPT ![r] = NotYet]
  /\ claimed' = claimed \ {r}

ChainFault == chainFaults < MaxChainFaults /\ chainFaults' = chainFaults + 1

-----------------------------------------------------------------------------
(* A run *)

GenerateNonce(r) ==
  /\ phase[r] = "nonce"
  /\ RunGoto(r, "step")
  /\ UNCHANGED <<keys, steps, silent, successors, supervisor, manual, chainFaults>>

(* A step records a heartbeat and holds its session, or sweeps once. *)
BeginStep(r) ==
  /\ phase[r] = "step"
  /\ heartbeat' = 0
  /\ silent' = [silent EXCEPT ![r] = 0]
  /\ RunGoto(r, "session")
  /\ UNCHANGED <<lock, claimed, steps, successors, supervisor, manual, chainFaults>>

(* Mutant: the loop runs once too often. *)
EndStep_OneMore(r) ==
  /\ phase[r] = "session"
  /\ steps' = [steps EXCEPT ![r] = @ + 1]
  /\ RunGoto(r, IF steps[r] > StepsPerRun THEN "chain" ELSE "step")
  /\ UNCHANGED <<keys, silent, successors, supervisor, manual, chainFaults>>

(* The sweeps record another heartbeat; after the last step the run chains. *)
EndStep(r) ==
  /\ phase[r] = "session"
  /\ steps' = [steps EXCEPT ![r] = @ + 1]
  /\ IF HeartbeatAfter
       THEN heartbeat' = 0 /\ silent' = [silent EXCEPT ![r] = 0]
       ELSE UNCHANGED <<heartbeat, silent>>
  /\ RunGoto(r, IF steps[r] + 1 = StepsPerRun THEN "chain" ELSE "step")
  /\ UNCHANGED <<lock, claimed, successors, supervisor, manual, chainFaults>>

(* Mutant: the chaining step starts a successor without claiming. *)
ClaimChain_Always(r) ==
  /\ phase[r] = "chain"
  /\ claimed' = claimed \cup {r}
  /\ RunGoto(r, "start")
  /\ UNCHANGED <<heartbeat, lock, steps, silent, successors, supervisor, manual, chainFaults>>

(* claimChain: SET NX on the run's nonce; who finds it set returns. *)
ClaimChain(r) ==
  /\ phase[r] = "chain"
  /\ claimed' = claimed \cup {r}
  /\ RunGoto(r, IF r \in claimed THEN "none" ELSE "start")
  /\ successors' = [successors EXCEPT ![r] = IF r \in claimed THEN 0 ELSE @]
  /\ UNCHANGED <<heartbeat, lock, steps, silent, supervisor, manual, chainFaults>>

StartNextRun(r) ==
  /\ phase[r] = "start"
  /\ successors' = [successors EXCEPT ![r] = @ + 1]
  /\ \E q \in Run \ {r} :
       /\ Start(q)
       /\ phase' = [phase EXCEPT ![r] = "started", ![q] = "nonce"]
  /\ UNCHANGED <<heartbeat, lock, supervisor, manual, chainFaults>>

Complete(r) ==
  /\ phase[r] = "started"
  /\ RunGoto(r, "none")
  /\ successors' = [successors EXCEPT ![r] = 0]
  /\ UNCHANGED <<keys, steps, silent, supervisor, manual, chainFaults>>

(* A step throws or its function dies: the platform runs it again from the *)
(* top, the chaining step also when start() had already succeeded.          *)
RetryStep(r) ==
  /\ ChainFault
  /\ \/ phase[r] = "session" /\ RunGoto(r, "step")
     \/ phase[r] \in {"start", "started"} /\ RunGoto(r, "chain")
  /\ UNCHANGED <<keys, steps, silent, successors, supervisor, manual>>

(* Retries exhausted, a bad deploy, or stop-run cancels the run. *)
Stop(r) ==
  /\ phase[r] # "none" /\ ChainFault
  /\ RunGoto(r, "none")
  /\ successors' = [successors EXCEPT ![r] = 0]
  /\ UNCHANGED <<keys, steps, silent, supervisor, manual>>

-----------------------------------------------------------------------------
(* The supervisor, and the start by hand *)

(* Mutant: a chain without a heartbeat is not dead. *)
IsChainDead_NeedsHeartbeat == heartbeat # Absent /\ heartbeat > Stale

(* No heartbeat at all, or one older than the tolerance. *)
IsChainDead == heartbeat = Absent \/ heartbeat > Stale

(* Mutant: every invocation of the supervisor goes ahead. *)
ClaimSupervisorLock_Always(s) ==
  /\ supervisor[s] = "idle"
  /\ lock' = TRUE
  /\ supervisor' = [supervisor EXCEPT ![s] = "read"]
  /\ UNCHANGED <<heartbeat, claimed, runs, manual, chainFaults>>

(* SET NX: all but one concurrent invocation return at once. *)
ClaimSupervisorLock(s) ==
  /\ supervisor[s] = "idle"
  /\ ~lock
  /\ lock' = TRUE
  /\ supervisor' = [supervisor EXCEPT ![s] = "read"]
  /\ UNCHANGED <<heartbeat, claimed, runs, manual, chainFaults>>

ReadHeartbeat(s) ==
  /\ supervisor[s] = "read"
  /\ supervisor' = [supervisor EXCEPT ![s] = IF IsChainDead THEN "start" ELSE "idle"]
  /\ UNCHANGED <<keys, runs, manual, chainFaults>>

Restart(s) ==
  /\ supervisor[s] = "start"
  /\ supervisor' = [supervisor EXCEPT ![s] = "idle"]
  /\ \E q \in Run : Start(q) /\ RunGoto(q, "nonce")
  /\ UNCHANGED <<heartbeat, lock, successors, manual, chainFaults>>

SupervisorDies(s) ==
  /\ supervisor[s] # "idle" /\ ChainFault
  /\ supervisor' = [supervisor EXCEPT ![s] = "idle"]
  /\ UNCHANGED <<keys, runs, manual>>

(* POST /start starts a run whatever else runs. *)
StartByHand ==
  /\ manual < MaxManual /\ manual' = manual + 1
  /\ \E q \in Run : Start(q) /\ RunGoto(q, "nonce")
  /\ UNCHANGED <<heartbeat, lock, successors, supervisor, chainFaults>>

(* Five minutes pass. No step outlasts MaxStep, a pause between two steps   *)
(* (30 s, or the platform's retry delay) is shorter than a tick, and what   *)
(* takes moments is not interrupted: starting, chaining, supervising.       *)
Tick ==
  /\ \A s \in Cron : supervisor[s] = "idle"
  /\ \A r \in Run : \/ phase[r] = "none"
                    \/ phase[r] = "session" /\ silent[r] < MaxStep
                    \/ phase[r] = "step" /\ silent[r] < NotYet
  /\ heartbeat' = IF heartbeat = Absent THEN Absent ELSE heartbeat + 1
  /\ silent' = [r \in Run |-> IF phase[r] = "none" THEN NotYet ELSE silent[r] + 1]
  /\ lock' = FALSE
  /\ UNCHANGED <<claimed, phase, steps, successors, supervisor, manual, chainFaults>>

-----------------------------------------------------------------------------
RunSteps(r) == \/ GenerateNonce(r) \/ BeginStep(r) \/ EndStep(r)
               \/ ClaimChain(r) \/ StartNextRun(r) \/ Complete(r)

SupervisorSteps(s) == ClaimSupervisorLock(s) \/ ReadHeartbeat(s) \/ Restart(s)

ChainNext == \/ \E r \in Run : RunSteps(r) \/ RetryStep(r) \/ Stop(r)
             \/ \E s \in Cron : SupervisorSteps(s) \/ SupervisorDies(s)
             \/ StartByHand \/ Tick

ChainSpec == ChainInit /\ [][ChainNext]_chainVars

(* The platform runs what it started, the cron keeps firing, time passes. *)
ChainFairness == /\ \A r \in Run : WF_chainVars(RunSteps(r))
                 /\ \A s \in Cron : WF_chainVars(SupervisorSteps(s))
                 /\ WF_chainVars(Tick)

ChainFairSpec == ChainSpec /\ ChainFairness

-----------------------------------------------------------------------------
(* Properties *)

(* A run that has not handed over yet keeps its chain going. *)
Leads(r) == \/ phase[r] \in {"nonce", "step", "session", "start"}
            \/ phase[r] = "chain" /\ r \notin claimed

(* However often the chaining step is re-executed, a run starts at most one *)
(* successor: "at-most-once chaining" (chain-guard.ts).                     *)
OneSuccessor == \A r \in Run : successors[r] <= 1

(* Neither retries, nor a crash anywhere, nor concurrent supervisors lead   *)
(* to a second chain beside a live one, unless one is started by hand.      *)
OneChain == Cardinality({r \in Run : Leads(r)}) <= 1 + manual

(* Chains do not multiply, neither from within a run nor beside it.         *)
ChainsDoNotMultiply == OneSuccessor /\ OneChain

(* A chain that never ran or died, for instance between its claim and       *)
(* start(), is running again some time: the supervisor bootstraps and       *)
(* recovers it (ensure-running.get.ts).                                     *)
RunsAgain == []<>(\E r \in Run : phase[r] = "session")

-----------------------------------------------------------------------------
(* The inductive invariant behind ChainsDoNotMultiply *)

Leaders == {r \in Run : Leads(r)}

(* The supervisor's invocations: the one that is not idle holds the lock.   *)
OneSupervisor ==
  /\ supervisor \in [Cron -> {"idle", "read", "start"}]
  /\ \A s \in Cron : supervisor[s] # "idle" => lock
  /\ \A s, t \in Cron : supervisor[s] # "idle" /\ supervisor[t] # "idle" => s = t

(* A run that is about to start its successor, or has, holds its claim, and *)
(* has started none before the claim.                                       *)
ClaimedBeforeStart ==
  \A r \in Run :
    /\ phase[r] \in {"start", "started"} => r \in claimed
    /\ phase[r] \in {"none", "nonce", "step", "session", "start"} => successors[r] = 0
    /\ phase[r] = "chain" /\ r \notin claimed => successors[r] = 0

(* A run that has not come to its chaining step has steps left.             *)
StepsLeft ==
  \A r \in Run : phase[r] \in {"nonce", "step", "session"} => steps[r] < StepsPerRun

(* No run's own heartbeat is younger than the chain's.                      *)
HeartbeatIsNewest ==
  \A r \in Run : phase[r] # "none" /\ silent[r] < NotYet => heartbeat <= silent[r]

(* Whoever goes by the heartbeat to start a chain finds none beside those   *)
(* started by hand.                                                         *)
RoomForOne == Cardinality(Leaders) <= manual
DeadMeansGone ==
  /\ \A s \in Cron : supervisor[s] = "start" => RoomForOne
  /\ \A s \in Cron : supervisor[s] = "read" /\ IsChainDead => RoomForOne
  /\ ~ lock /\ IsChainDead => RoomForOne

Counts ==
  /\ phase \in [Run -> Phase] /\ successors \in [Run -> Nat] /\ silent \in [Run -> Nat]
  /\ heartbeat \in Nat /\ manual \in Nat

ChainInv ==
  /\ Counts
  /\ OneSupervisor /\ ClaimedBeforeStart /\ HeartbeatIsNewest /\ DeadMeansGone
  /\ OneSuccessor /\ OneChain
================================================================================
