------------------------------ MODULE EdgarWatcher ------------------------------
(***************************************************************************)
(* The in-process EDGAR watcher of one company (CIK),                      *)
(* createEdgarWatcher() in src/catalog/providers/edgar.ts: subscriptions   *)
(* share one watch and its poll loop, which the first of them creates and  *)
(* the last one to be disarmed tears down, with a fetch of the filings in  *)
(* flight now and then.  JavaScript runs to the next await, so a step is a *)
(* stretch between two of them.                                            *)
(***************************************************************************)
EXTENDS Integers, FiniteSets

CONSTANTS Sub, Filing,
          Wants,     \* the filings that pass each subscription's formTypes
          Poll,      \* polls in flight
          None,
          MaxWatch,  \* bound on the watches created
          MaxSecNow,  \* bound on the clock
          MaxFetchFaults, \* bound on failing fetches and commands
          LossyTransition \* whether deliverWake may throw while still armed

EdgarWatcherAssumption ==
  /\ Wants \in [Sub -> SUBSET Filing] /\ None \notin Filing
  /\ MaxWatch \in Nat \ {0} /\ MaxSecNow \in Nat /\ MaxFetchFaults \in Nat
  /\ LossyTransition \in BOOLEAN

Watch == 1..MaxWatch

VARIABLES
  secNow, accepted, \* when SEC accepted each filing
  status, armedAt, wokenBy, \* the subscriptions' records
  arm,           \* where the arm() of each subscription is
  waitsFor,      \* the creation it awaits
  creation,      \* the promise of each watch's creation
  cutoff,        \* armedAt of the subscription that creates it
  seen,          \* the filings each watch knows
  members,       \* watch.subscriptions
  ticking,       \* watches whose interval timer runs
  live,          \* the entry of `watches`
  watchCreation, \* the cached creation promise
  subCik,        \* subscriptions disarm() can find
  poll,          \* polls in flight: watch and filings fetched
  offers,        \* calls of deliverWake that have not transitioned
  fetchFaults

sec == <<secNow, accepted>>
record == <<status, armedAt, wokenBy>>
claim == <<arm, waitsFor>>
watch == <<creation, cutoff, seen, members, ticking, live, watchCreation, subCik>>
watcherVars == <<sec, record, claim, watch, poll, offers, fetchFaults>>

-----------------------------------------------------------------------------
Never == MaxSecNow + 1
NoPoll == [watch |-> 0, filings |-> {}]

WatcherTypeOK ==
  /\ secNow \in 0..MaxSecNow /\ accepted \in [Filing -> 0..Never]
  /\ status \in [Sub -> {"pending", "armed", "delivering", "settled", "failed"}]
  /\ armedAt \in [Sub -> 0..Never]
  /\ wokenBy \in [Sub -> Filing \cup {None}]
  /\ arm \in [Sub -> {"ready", "resolve", "claim", "await", "done"}]
  /\ waitsFor \in [Sub -> 0..MaxWatch]
  /\ creation \in [Watch -> {"none", "pending", "resolved", "rejected"}]
  /\ cutoff \in [Watch -> 0..Never]
  /\ seen \in [Watch -> SUBSET Filing]
  /\ members \in [Watch -> SUBSET Sub]
  /\ ticking \subseteq Watch
  /\ live \in 0..MaxWatch /\ watchCreation \in 0..MaxWatch
  /\ subCik \subseteq Sub
  /\ poll \in [Poll -> [watch : 0..MaxWatch, filings : SUBSET Filing]]
  /\ offers \subseteq Filing \X Sub
  /\ fetchFaults \in 0..MaxFetchFaults

WatcherInit ==
  /\ secNow = 0 /\ accepted = [f \in Filing |-> Never]
  /\ status = [s \in Sub |-> "pending"]
  /\ armedAt = [s \in Sub |-> Never]
  /\ wokenBy = [s \in Sub |-> None]
  /\ arm = [s \in Sub |-> "ready"] /\ waitsFor = [s \in Sub |-> 0]
  /\ creation = [w \in Watch |-> "none"]
  /\ cutoff = [w \in Watch |-> 0] /\ seen = [w \in Watch |-> {}]
  /\ members = [w \in Watch |-> {}]
  /\ ticking = {} /\ live = 0 /\ watchCreation = 0 /\ subCik = {}
  /\ poll = [p \in Poll |-> NoPoll]
  /\ offers = {} /\ fetchFaults = 0

FetchFault == fetchFaults < MaxFetchFaults /\ fetchFaults' = fetchFaults + 1
Filed == {f \in Filing : accepted[f] # Never}

-----------------------------------------------------------------------------
Advance == /\ secNow < MaxSecNow /\ secNow' = secNow + 1
           /\ UNCHANGED <<accepted, record, claim, watch, poll, offers, fetchFaults>>

(* A filing is accepted after everything that was there before. *)
File(f) == /\ accepted[f] = Never
           /\ accepted' = [accepted EXCEPT ![f] = secNow]
           /\ UNCHANGED <<secNow, record, claim, watch, poll, offers, fetchFaults>>

(* armPendingForConversation writes armed and armedAt, and calls arm(),     *)
(* which first resolves the ticker.                                         *)
WriteArmed(s) ==
  /\ arm[s] = "ready"
  /\ status' = [status EXCEPT ![s] = "armed"]
  /\ armedAt' = [armedAt EXCEPT ![s] = secNow]
  /\ arm' = [arm EXCEPT ![s] = "resolve"]
  /\ UNCHANGED <<sec, wokenBy, waitsFor, watch, poll, offers, fetchFaults>>

WatchArmFails(s) ==
  /\ arm' = [arm EXCEPT ![s] = "done"]
  /\ waitsFor' = [waitsFor EXCEPT ![s] = 0]
  /\ status' = [status EXCEPT ![s] = "failed"]

ResolveCik(s) ==
  /\ arm[s] = "resolve"
  /\ \/ arm' = [arm EXCEPT ![s] = "claim"] /\ UNCHANGED <<status, waitsFor, fetchFaults>>
     \/ FetchFault /\ WatchArmFails(s)
  /\ UNCHANGED <<sec, armedAt, wokenBy, watch, poll, offers>>

-----------------------------------------------------------------------------
(* claimWatch and createWatch *)

Unused == {w \in Watch : creation[w] = "none"}
NextWatch == CHOOSE w \in Unused : \A v \in Unused : w <= v

Await(s, w) == /\ arm' = [arm EXCEPT ![s] = "await"]
               /\ waitsFor' = [waitsFor EXCEPT ![s] = w]

Create(s) == /\ Unused # {}
             /\ creation' = [creation EXCEPT ![NextWatch] = "pending"]
             /\ cutoff' = [cutoff EXCEPT ![NextWatch] = armedAt[s]]
             /\ watchCreation' = NextWatch
             /\ Await(s, NextWatch)

(* Mutant: a watch is looked for, not a promise that is still pending. *)
ClaimWatch_NoCache(s) ==
  /\ arm[s] = "claim"
  /\ IF live # 0
       THEN Await(s, live) /\ UNCHANGED <<creation, cutoff, watchCreation>>
       ELSE Create(s)
  /\ UNCHANGED <<sec, record, seen, members, ticking, live, subCik, poll, offers, fetchFaults>>

(* The cached promise, or a creation of one's own. *)
ClaimWatch(s) ==
  /\ arm[s] = "claim"
  /\ IF watchCreation # 0
       THEN Await(s, watchCreation) /\ UNCHANGED <<creation, cutoff, watchCreation>>
       ELSE Create(s)
  /\ UNCHANGED <<sec, record, seen, members, ticking, live, subCik, poll, offers, fetchFaults>>

(* What SEC accepted at or before the cutoff is not news. *)
seedAccessionSet(cut) == {f \in Filed : accepted[f] <= cut}

(* The first fetch answers and the interval starts. *)
CreateWatch(w) ==
  /\ creation[w] = "pending"
  /\ creation' = [creation EXCEPT ![w] = "resolved"]
  /\ seen' = [seen EXCEPT ![w] = seedAccessionSet(cutoff[w])]
  /\ ticking' = ticking \cup {w}
  /\ live' = w
  /\ UNCHANGED <<sec, record, claim, cutoff, members, watchCreation, subCik, poll, offers,
                 fetchFaults>>

(* Mutant: the rejected promise stays cached. *)
CreateFails_Poisons(w) ==
  /\ creation[w] = "pending" /\ FetchFault
  /\ creation' = [creation EXCEPT ![w] = "rejected"]
  /\ UNCHANGED <<sec, record, claim, cutoff, seen, members, ticking, live, watchCreation, subCik,
                 poll, offers>>

(* A rejected promise leaves the cache. *)
CreateFails(w) ==
  /\ creation[w] = "pending" /\ FetchFault
  /\ creation' = [creation EXCEPT ![w] = "rejected"]
  /\ watchCreation' = 0
  /\ UNCHANGED <<sec, record, claim, cutoff, seen, members, ticking, live, subCik, poll, offers>>

Insert(s, w) == /\ members' = [members EXCEPT ![w] = @ \cup {s}]
                /\ subCik' = subCik \cup {s}
                /\ arm' = [arm EXCEPT ![s] = "done"]
                /\ waitsFor' = [waitsFor EXCEPT ![s] = 0]

(* Mutant: the watch is not checked again after the await. *)
Claimed_NoRecheck(s) ==
  /\ arm[s] = "await" /\ creation[waitsFor[s]] = "resolved"
  /\ Insert(s, waitsFor[s])
  /\ UNCHANGED <<sec, record, creation, cutoff, seen, ticking, live, watchCreation, poll, offers,
                 fetchFaults>>

(* After the await: the watch may be gone, then from the beginning. *)
Claimed(s) ==
  /\ arm[s] = "await" /\ creation[waitsFor[s]] = "resolved"
  /\ IF live = waitsFor[s]
       THEN Insert(s, waitsFor[s])
       ELSE /\ arm' = [arm EXCEPT ![s] = "claim"]
            /\ waitsFor' = [waitsFor EXCEPT ![s] = 0]
            /\ UNCHANGED <<members, subCik>>
  /\ UNCHANGED <<sec, record, creation, cutoff, seen, ticking, live, watchCreation, poll, offers,
                 fetchFaults>>

ClaimRejected(s) ==
  /\ arm[s] = "await" /\ creation[waitsFor[s]] = "rejected"
  /\ WatchArmFails(s)
  /\ UNCHANGED <<sec, armedAt, wokenBy, watch, poll, offers, fetchFaults>>

-----------------------------------------------------------------------------
(* poll() *)

(* A timer or an answer comes after the continuations of a resolved promise. *)
PromisesDone == \A s \in Sub : arm[s] = "await" => creation[waitsFor[s]] = "pending"

PollFetches(p) ==
  /\ poll[p] = NoPoll /\ PromisesDone
  /\ \E w \in ticking : poll' = [poll EXCEPT ![p] = [watch |-> w, filings |-> Filed]]
  /\ UNCHANGED <<sec, record, claim, watch, offers, fetchFaults>>

diffNewFilings(known, filings) == filings \ known

(* Mutant: what is filed while the poll is in flight counts as seen. *)
PollHandles_MarksAll(p) ==
  /\ poll[p] # NoPoll /\ PromisesDone
  /\ LET w == poll[p].watch
         fresh == diffNewFilings(seen[w], poll[p].filings)
     IN /\ seen' = [seen EXCEPT ![w] = @ \cup Filed]
        /\ offers' = offers \cup {o \in fresh \X members[w] : o[1] \in Wants[o[2]]}
  /\ poll' = [poll EXCEPT ![p] = NoPoll]
  /\ UNCHANGED <<sec, record, claim, creation, cutoff, members, ticking, live, watchCreation,
                 subCik, fetchFaults>>

(* Seen first, then offered to everyone who is on the watch by now. *)
PollHandles(p) ==
  /\ poll[p] # NoPoll /\ PromisesDone
  /\ LET w == poll[p].watch
         fresh == diffNewFilings(seen[w], poll[p].filings)
     IN /\ seen' = [seen EXCEPT ![w] = @ \cup fresh]
        /\ offers' = offers \cup {o \in fresh \X members[w] : o[1] \in Wants[o[2]]}
  /\ poll' = [poll EXCEPT ![p] = NoPoll]
  /\ UNCHANGED <<sec, record, claim, creation, cutoff, members, ticking, live, watchCreation,
                 subCik, fetchFaults>>

PollFails(p) ==
  /\ poll[p] # NoPoll /\ FetchFault
  /\ poll' = [poll EXCEPT ![p] = NoPoll]
  /\ UNCHANGED <<sec, record, claim, watch, offers>>

(* deliverWake transitions, or throws before that and nobody tries again.   *)
DeliverFiling(o) ==
  /\ o \in offers /\ offers' = offers \ {o}
  /\ \/ /\ status[o[2]] = "armed"
        /\ status' = [status EXCEPT ![o[2]] = "delivering"]
        /\ wokenBy' = [wokenBy EXCEPT ![o[2]] = o[1]]
        /\ UNCHANGED fetchFaults
     \/ status[o[2]] # "armed" /\ UNCHANGED <<status, wokenBy, fetchFaults>>
     \/ LossyTransition /\ FetchFault /\ UNCHANGED <<status, wokenBy>>
  /\ UNCHANGED <<sec, armedAt, claim, watch, poll>>

(* The expiry timer is set once arm() has returned. *)
WatchExpires(s) ==
  /\ arm[s] = "done" /\ status[s] = "armed"
  /\ status' = [status EXCEPT ![s] = "delivering"]
  /\ UNCHANGED <<sec, armedAt, wokenBy, claim, watch, poll, offers, fetchFaults>>

TearDown(w) == ticking' = ticking \ {w} /\ live' = 0 /\ watchCreation' = 0

(* Mutant: the cached promise of the watch survives it. *)
Settle_KeepsPromise(s) ==
  /\ status[s] = "delivering"
  /\ status' = [status EXCEPT ![s] = "settled"]
  /\ subCik' = subCik \ {s}
  /\ members' = [w \in Watch |-> members[w] \ {s}]
  /\ IF live # 0 /\ members'[live] = {}
       THEN ticking' = ticking \ {live} /\ live' = 0
       ELSE UNCHANGED <<ticking, live>>
  /\ UNCHANGED <<sec, armedAt, wokenBy, claim, creation, cutoff, seen, watchCreation, poll,
                 offers, fetchFaults>>

(* The terminal write and disarm(), which ends a watch nobody is on. *)
Settle(s) ==
  /\ status[s] = "delivering"
  /\ status' = [status EXCEPT ![s] = "settled"]
  /\ subCik' = subCik \ {s}
  /\ IF s \in subCik /\ live # 0
       THEN /\ members' = [members EXCEPT ![live] = @ \ {s}]
            /\ IF members'[live] = {} THEN TearDown(live)
                                      ELSE UNCHANGED <<ticking, live, watchCreation>>
       ELSE UNCHANGED <<members, ticking, live, watchCreation>>
  /\ UNCHANGED <<sec, armedAt, wokenBy, claim, creation, cutoff, seen, poll, offers, fetchFaults>>

-----------------------------------------------------------------------------
ArmSteps(s) == ResolveCik(s) \/ ClaimWatch(s) \/ Claimed(s) \/ ClaimRejected(s)

WatcherNext == \/ Advance \/ \E f \in Filing : File(f)
               \/ \E s \in Sub : WriteArmed(s) \/ ArmSteps(s) \/ WatchExpires(s) \/ Settle(s)
               \/ \E w \in Watch : CreateWatch(w) \/ CreateFails(w)
               \/ \E p \in Poll : PollFetches(p) \/ PollHandles(p) \/ PollFails(p)
               \/ \E o \in offers : DeliverFiling(o)

WatcherSpec == WatcherInit /\ [][WatcherNext]_watcherVars

(* Handlers run on, fetches answer, deliveries settle.  The interval timer  *)
(* polls again and again.                                                   *)
WatcherFairness ==
  /\ \A s \in Sub : WF_watcherVars(ArmSteps(s)) /\ WF_watcherVars(Settle(s))
  /\ \A w \in Watch : WF_watcherVars(CreateWatch(w))
  /\ \A p \in Poll : SF_watcherVars(PollFetches(p)) /\ WF_watcherVars(PollHandles(p))
  /\ WF_watcherVars(\E o \in offers : DeliverFiling(o))

WatcherFairSpec == WatcherSpec /\ WatcherFairness

-----------------------------------------------------------------------------
(* Properties *)

(* "one poll loop per CIK" (edgar.ts): the only interval that runs is that  *)
(* of the watch the map holds, however arms, disarms and failed fetches     *)
(* interleave.                                                              *)
OnePollLoop == ticking = (IF live = 0 THEN {} ELSE {live})

ClaimedIsOnIt == \A s \in subCik : live # 0 /\ s \in members[live]

(* A subscription that was claimed is on the live watch until disarm(), and *)
(* the watch is gone with its last subscription.                            *)
ClaimIsLive ==
  /\ ClaimedIsOnIt
  /\ (\A s \in Sub : arm[s] \in {"ready", "resolve", "done"}) /\ live # 0 => members[live] # {}

(* "A failed first poll must not permanently poison this CIK" (edgar.ts):   *)
(* the cached promise never is a rejected one, nor that of a watch that was *)
(* torn down.                                                               *)
CachedPromiseIsGood ==
  watchCreation # 0 => \/ creation[watchCreation] = "pending"
                       \/ creation[watchCreation] = "resolved" /\ live = watchCreation

(* Every subscription that armed is claimed or failed in the end. *)
WatchArmEnds == \A s \in Sub : arm[s] # "ready" ~> arm[s] = "done"

(* A filing that is news to the watch of a subscription wakes it, or it is  *)
(* on its way already.                                                      *)
NewFilingWakes ==
  \A s \in Sub, f \in Filing :
    s \in subCik /\ f \in Wants[s] \cap Filed /\ f \notin seen[live] ~> status[s] # "armed"

-----------------------------------------------------------------------------
(* The inductive invariant behind them *)

(* Watches are created in the order of their numbers. *)
CreatedInOrder ==
  \E next \in 1..MaxWatch + 1 : \A w \in Watch : creation[w] = "none" <=> next <= w

(* The cached promise is that of the live watch or of the only creation that *)
(* is under way.                                                            *)
PromiseOfTheLive ==
  /\ live # 0 => watchCreation = live /\ creation[live] = "resolved"
  /\ \A w \in Watch : creation[w] = "pending" => watchCreation = w

AwaitsACreation ==
  \A s \in Sub : arm[s] = "await" => waitsFor[s] # 0 /\ creation[waitsFor[s]] # "none"

PollsAWatch == \A p \in Poll : poll[p] # NoPoll => poll[p].watch # 0

(* A watch that is cached has a subscription or will be claimed. *)
SomebodyWantsIt ==
  watchCreation # 0 =>
    \/ live # 0 /\ members[live] # {}
    \/ \E s \in Sub : arm[s] = "await" /\ waitsFor[s] = watchCreation

WatcherInv ==
  /\ WatcherTypeOK /\ OnePollLoop /\ CachedPromiseIsGood
  /\ ClaimedIsOnIt /\ CreatedInOrder /\ PromiseOfTheLive /\ AwaitsACreation /\ SomebodyWantsIt
  /\ PollsAWatch

================================================================================
