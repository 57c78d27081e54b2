------------------------------- MODULE EdgarSweep -------------------------------
(***************************************************************************)
(* The durable EDGAR sweep: src/catalog/providers/edgar-sweep.ts with its  *)
(* seen-set (edgar-redis.ts) and the pure parts of edgar-client.ts, driven *)
(* by src/connector/workflows/edgar-sweep.ts.  A tick reads the desired    *)
(* subscriptions once and then takes one company (CIK) after the other;    *)
(* ticks of two chains may overlap, and a tick may die anywhere.  The      *)
(* delivery of a wake is one transition: only the first one of a           *)
(* subscription has an effect (see WakeDelivery).                          *)
(* Whoever arms while a tick runs is not on its list: what that tick marks *)
(* as seen is lost to them.  `missed` is the history of those losses.      *)
(***************************************************************************)
EXTENDS Integers, FiniteSets

CONSTANTS EdgarSub, Filing, Cik,
          CikOf,          \* the company of each subscription and filing
          Wants,          \* the filings that pass each subscription's formTypes
          BadCik,         \* companies whose filings cannot be fetched
          EdgarTick,      \* concurrent ticks
          None,
          MaxSecNow,      \* bound on the clock
          MaxEdgarFaults,  \* bound on crashes and failed commands
          Unknown,        \* subscriptions whose ticker SEC does not know
          WarmProcess     \* whether module state outlives a tick

EdgarAssumption ==
  /\ CikOf \in [EdgarSub \cup Filing -> Cik]
  /\ Wants \in [EdgarSub -> SUBSET Filing]
  /\ BadCik \subseteq Cik
  /\ None \notin Filing \cup Cik
  /\ MaxSecNow \in Nat /\ MaxEdgarFaults \in Nat
  /\ Unknown \subseteq EdgarSub
  /\ WarmProcess \in BOOLEAN

VARIABLES
  secNow,
  accepted,   \* when SEC accepted each filing
  public,     \* the filings the submissions API returns
  armedAt,    \* when each subscription was armed
  wokenBy,    \* the filing each subscription was woken with
  seen,       \* catalog:edgar-seen of every company
  tickerMap,  \* the cached promise of company_tickers.json
  edgarPc,    \* where each tick is
  subs,       \* the desired subscriptions a tick read
  groups,     \* the companies a tick has yet to sweep
  cik,        \* the company it is sweeping
  baseline,   \* the seen-set it read
  fetched,    \* the filings it fetched
  offers,     \* the deliveries it has yet to attempt
  edgarFaults,
  late,       \* history: who armed while which tick ran
  missed      \* history: what such a tick marked as seen, and for whom

sec == <<accepted, public>>
edgarTick == <<subs, groups, cik, baseline, fetched, offers>>
lateness == <<late, missed>>
edgarVars ==
  <<secNow, sec, armedAt, wokenBy, seen, tickerMap, edgarPc, edgarTick, edgarFaults, lateness>>

-----------------------------------------------------------------------------
Never == MaxSecNow + 1

EdgarTypeOK ==
  /\ secNow \in 0..MaxSecNow
  /\ accepted \in [Filing -> 0..Never]
  /\ public \subseteq Filing
  /\ armedAt \in [EdgarSub -> 0..Never]
  /\ wokenBy \in [EdgarSub -> Filing \cup {None}]
  /\ seen \subseteq Filing
  /\ tickerMap \in {"none", "loaded", "rejected"}
  /\ edgarPc \in [EdgarTick -> {"idle", "group", "seen", "fetch", "deliver"}]
  /\ subs \in [EdgarTick -> SUBSET EdgarSub]
  /\ groups \in [EdgarTick -> SUBSET Cik]
  /\ cik \in [EdgarTick -> Cik \cup {None}]
  /\ baseline \in [EdgarTick -> SUBSET Filing]
  /\ fetched \in [EdgarTick -> SUBSET Filing]
  /\ offers \in [EdgarTick -> SUBSET (Filing \X EdgarSub)]
  /\ edgarFaults \in 0..MaxEdgarFaults
  /\ late \subseteq EdgarSub \X EdgarTick /\ missed \subseteq Filing \X EdgarSub

EdgarInit ==
  /\ secNow = 0 /\ edgarFaults = 0 /\ late = {} /\ missed = {}
  /\ accepted = [f \in Filing |-> Never] /\ public = {}
  /\ armedAt = [s \in EdgarSub |-> Never]
  /\ wokenBy = [s \in EdgarSub |-> None]
  /\ seen = {} /\ tickerMap = "none"
  /\ edgarPc = [t \in EdgarTick |-> "idle"]
  /\ subs = [t \in EdgarTick |-> {}]
  /\ groups = [t \in EdgarTick |-> {}]
  /\ cik = [t \in EdgarTick |-> None]
  /\ baseline = [t \in EdgarTick |-> {}]
  /\ fetched = [t \in EdgarTick |-> {}]
  /\ offers = [t \in EdgarTick |-> {}]

EdgarGoto(t, label) == edgarPc' = [edgarPc EXCEPT ![t] = label]
Armed(s) == armedAt[s] # Never /\ wokenBy[s] = None
EdgarFault == edgarFaults < MaxEdgarFaults /\ edgarFaults' = edgarFaults + 1

-----------------------------------------------------------------------------
(* Who is late for a tick, until it ends *)

LateFor(t) == {s \in EdgarSub : <<s, t>> \in late}

TickEnds(t) == late' = {l \in late : l[2] # t} /\ UNCHANGED missed

-----------------------------------------------------------------------------
(* The world *)

SecAdvance == /\ secNow < MaxSecNow /\ secNow' = secNow + 1
              /\ UNCHANGED <<sec, armedAt, wokenBy, seen, tickerMap, edgarPc, edgarTick,
                             edgarFaults, lateness>>

Accept(f) == /\ accepted[f] = Never
             /\ accepted' = [accepted EXCEPT ![f] = secNow]
             /\ UNCHANGED <<secNow, public, armedAt, wokenBy, seen, tickerMap, edgarPc,
                            edgarTick, edgarFaults, lateness>>

Publish(f) == /\ accepted[f] # Never /\ public' = public \cup {f}
              /\ UNCHANGED <<secNow, accepted, armedAt, wokenBy, seen, tickerMap, edgarPc,
                             edgarTick, edgarFaults, lateness>>

(* armPendingForConversation writes armed and armedAt. *)
ArmEdgar(s) ==
  /\ armedAt[s] = Never
  /\ armedAt' = [armedAt EXCEPT ![s] = secNow]
  /\ late' = late \cup {s} \X {t \in EdgarTick : edgarPc[t] # "idle"}
  /\ UNCHANGED <<secNow, sec, wokenBy, seen, tickerMap, edgarPc, edgarTick, edgarFaults, missed>>

-----------------------------------------------------------------------------
(* runEdgarSweepTick *)

(* resolveCik: the first call of a process loads the map, and whatever      *)
(* became of that load is the answer to every later call.                   *)
Loaded(before, after) ==
  IF before = "none" THEN \/ after = "loaded" /\ UNCHANGED edgarFaults
                          \/ after = "rejected" /\ EdgarFault
                     ELSE after = before /\ UNCHANGED edgarFaults

(* groupByCik leaves out whoever's ticker does not resolve. *)
ReadDesired(t) ==
  /\ edgarPc[t] = "idle"
  /\ LET desired == {s \in EdgarSub : Armed(s)} IN
     /\ IF desired = {} THEN UNCHANGED <<tickerMap, edgarFaults>>
          ELSE Loaded(IF WarmProcess THEN tickerMap ELSE "none", tickerMap')
     /\ LET resolved == IF tickerMap' = "rejected" THEN {} ELSE desired \ Unknown IN
        /\ subs' = [subs EXCEPT ![t] = resolved]
        /\ groups' = [groups EXCEPT ![t] = {CikOf[s] : s \in resolved}]
  /\ EdgarGoto(t, "group")
  /\ UNCHANGED <<secNow, sec, armedAt, wokenBy, seen, cik, baseline, fetched, offers, lateness>>

NextGroup(t) ==
  /\ edgarPc[t] = "group"
  /\ \/ /\ groups[t] = {}
        /\ EdgarGoto(t, "idle") /\ TickEnds(t)
        /\ subs' = [subs EXCEPT ![t] = {}]
        /\ UNCHANGED <<groups, cik>>
     \/ \E c \in groups[t] :
          /\ groups' = [groups EXCEPT ![t] = @ \ {c}]
          /\ cik' = [cik EXCEPT ![t] = c]
          /\ EdgarGoto(t, "seen")
          /\ UNCHANGED <<subs, lateness>>
  /\ UNCHANGED <<secNow, sec, armedAt, wokenBy, seen, tickerMap, baseline, fetched, offers,
                 edgarFaults>>

Group(t) == {s \in subs[t] : CikOf[s] = cik[t]}

(* The company is done with, swept or not; the other companies follow. *)
Leave(t) ==
  /\ EdgarGoto(t, "group")
  /\ cik' = [cik EXCEPT ![t] = None]
  /\ baseline' = [baseline EXCEPT ![t] = {}]
  /\ fetched' = [fetched EXCEPT ![t] = {}]
  /\ offers' = [offers EXCEPT ![t] = {}]

ReadSeen(t) ==
  /\ edgarPc[t] = "seen"
  /\ baseline' = [baseline EXCEPT ![t] = {f \in seen : CikOf[f] = cik[t]}]
  /\ EdgarGoto(t, "fetch")
  /\ UNCHANGED <<secNow, sec, armedAt, wokenBy, seen, tickerMap, subs, groups, cik, fetched,
                 offers, edgarFaults, lateness>>

earliestArmedAt(group) == CHOOSE m \in {armedAt[s] : s \in group} :
                            \A s \in group : m <= armedAt[s]

(* Mutant: everything that exists at the first sweep is the baseline. *)
seedAccessionSet_All(filings, cutoff) == filings

(* What SEC accepted at or before the cutoff. *)
seedAccessionSet(filings, cutoff) == {f \in filings : accepted[f] <= cutoff}

diffNewFilings(known, filings) == filings \ known

(* Mutant: only the group's cutoff is looked at. *)
Wanted_ByGroup(f, s) == f \in Wants[s]

(* matchesFormFilter, and the filing is younger than this subscription. *)
Wanted(f, s) == f \in Wants[s] /\ accepted[f] > armedAt[s]

(* One fetch per company seeds a first baseline and is compared with it.    *)
Fetch(t) ==
  /\ edgarPc[t] = "fetch" /\ cik[t] \notin BadCik
  /\ LET filings == {f \in public : CikOf[f] = cik[t]}
         known == IF baseline[t] = {}
                    THEN seedAccessionSet(filings, earliestArmedAt(Group(t)))
                    ELSE baseline[t]
         fresh == diffNewFilings(known, filings)
     IN /\ fetched' = [fetched EXCEPT ![t] = filings]
        /\ offers' = [offers EXCEPT ![t] =
                        {o \in fresh \X Group(t) : Wanted(o[1], o[2])}]
  /\ EdgarGoto(t, "deliver")
  /\ UNCHANGED <<secNow, sec, armedAt, wokenBy, seen, tickerMap, subs, groups, cik, baseline,
                 edgarFaults, lateness>>

(* deliverWakeFromConnector: the first transition wins. *)
DeliverFiling(t) ==
  /\ edgarPc[t] = "deliver"
  /\ \E o \in offers[t] :
       /\ offers' = [offers EXCEPT ![t] = @ \ {o}]
       /\ wokenBy' = [wokenBy EXCEPT ![o[2]] = IF @ = None THEN o[1] ELSE @]
  /\ UNCHANGED <<secNow, sec, armedAt, seen, tickerMap, edgarPc, subs, groups, cik, baseline,
                 fetched, edgarFaults, lateness>>

(* The filings that whoever is late for the tick waits for in vain. *)
MarkMissed(t) ==
  missed' = missed \cup {m \in fetched[t] \X LateFor(t) :
                          CikOf[m[1]] = CikOf[m[2]] /\ Wanted(m[1], m[2])}

(* Mutant: the seen-set advances whatever became of the deliveries. *)
AddSeen_First(t) ==
  /\ edgarPc[t] = "deliver"
  /\ seen' = seen \cup fetched[t] /\ MarkMissed(t)
  /\ IF offers[t] = {} THEN Leave(t) ELSE UNCHANGED <<edgarPc, cik, baseline, fetched, offers>>
  /\ UNCHANGED <<secNow, sec, armedAt, wokenBy, tickerMap, subs, groups, edgarFaults, late>>

(* Every fetched filing is seen, after every delivery was attempted. *)
AddSeen(t) ==
  /\ edgarPc[t] = "deliver" /\ offers[t] = {}
  /\ seen' = seen \cup fetched[t] /\ MarkMissed(t)
  /\ Leave(t)
  /\ UNCHANGED <<secNow, sec, armedAt, wokenBy, tickerMap, subs, groups, edgarFaults, late>>

(* Mutant: one company's error ends the tick. *)
CikFails_EndsTick(t) ==
  /\ edgarPc[t] = "fetch" /\ cik[t] \in BadCik
  /\ EdgarGoto(t, "idle") /\ TickEnds(t)
  /\ groups' = [groups EXCEPT ![t] = {}]
  /\ subs' = [subs EXCEPT ![t] = {}]
  /\ cik' = [cik EXCEPT ![t] = None]
  /\ baseline' = [baseline EXCEPT ![t] = {}]
  /\ UNCHANGED <<secNow, sec, armedAt, wokenBy, seen, tickerMap, fetched, offers, edgarFaults>>

(* A fetch, a command or a delivery throws: the other companies go on. *)
CikFails(t) ==
  /\ \/ edgarPc[t] = "fetch" /\ cik[t] \in BadCik /\ UNCHANGED edgarFaults
     \/ edgarPc[t] \in {"seen", "fetch", "deliver"} /\ EdgarFault
  /\ Leave(t)
  /\ UNCHANGED <<secNow, sec, armedAt, wokenBy, seen, tickerMap, subs, groups, lateness>>

TickDies(t) ==
  /\ edgarPc[t] # "idle" /\ EdgarFault
  /\ EdgarGoto(t, "idle") /\ TickEnds(t)
  /\ subs' = [subs EXCEPT ![t] = {}]
  /\ groups' = [groups EXCEPT ![t] = {}]
  /\ cik' = [cik EXCEPT ![t] = None]
  /\ baseline' = [baseline EXCEPT ![t] = {}]
  /\ fetched' = [fetched EXCEPT ![t] = {}]
  /\ offers' = [offers EXCEPT ![t] = {}]
  /\ tickerMap' = "none"
  /\ UNCHANGED <<secNow, sec, armedAt, wokenBy, seen>>

-----------------------------------------------------------------------------
EdgarTickSteps(t) == \/ NextGroup(t) \/ ReadSeen(t) \/ Fetch(t) \/ DeliverFiling(t)
                     \/ AddSeen(t) \/ CikFails(t)

EdgarNext == \/ \E t \in EdgarTick : ReadDesired(t) \/ EdgarTickSteps(t) \/ TickDies(t)
             \/ \E f \in Filing : Accept(f) \/ Publish(f)
             \/ \E s \in EdgarSub : ArmEdgar(s)
             \/ SecAdvance

EdgarSpec == EdgarInit /\ [][EdgarNext]_edgarVars

(* The workflow sweeps every 30 seconds and a tick runs to its end. *)
EdgarFairness ==
  \A t \in EdgarTick : WF_edgarVars(EdgarTickSteps(t)) /\ WF_edgarVars(ReadDesired(t))

EdgarFairSpec == EdgarSpec /\ EdgarFairness

-----------------------------------------------------------------------------
(* Properties *)

(* A subscription is woken by what was filed after it was armed, also when  *)
(* it shares its company with an older one.                                 *)
NothingOlderThanSubscription ==
  \A s \in EdgarSub : wokenBy[s] # None => /\ wokenBy[s] \in Wants[s]
                                  /\ accepted[wokenBy[s]] > armedAt[s]

(* A filing the subscriber "arrived in time to see" (edgar-client.ts) is    *)
(* not swallowed: once it is in the seen-set, the subscription was woken,   *)
(* unless it armed in the middle of the very tick that marked the filing    *)
(* (src/catalog/providers/edgar-sweep.ts:129-151).                          *)
NothingSwallowed ==
  \A s \in EdgarSub \ Unknown, f \in seen :
    f \in Wants[s] /\ CikOf[f] = CikOf[s] /\ Armed(s) =>
      accepted[f] <= armedAt[s] \/ <<f, s>> \in missed

(* Every filing that was not missed wakes whoever waits for it, in spite of *)
(* failed deliveries, dying ticks, and another company that cannot be       *)
(* fetched at all.                                                          *)
FilingWakes ==
  \A s \in EdgarSub, f \in Filing :
    /\ f \in public /\ f \in Wants[s] /\ CikOf[f] = CikOf[s]
    /\ CikOf[s] \notin BadCik /\ s \notin Unknown
    /\ armedAt[s] < accepted[f]
    ~> wokenBy[s] # None \/ <<f, s>> \in missed

-----------------------------------------------------------------------------
(* The inductive invariant behind the two *)

InCompany(t) == edgarPc[t] \in {"seen", "fetch", "deliver"}

(* What a tick holds where it stands.                                       *)
HeldByTick ==
  \A t \in EdgarTick :
    /\ cik[t] # None <=> InCompany(t)
    /\ edgarPc[t] = "idle" => groups[t] = {}
    /\ edgarPc[t] # "deliver" => offers[t] = {}
    /\ \A f \in fetched[t] : f \in public /\ CikOf[f] = cik[t]
    /\ baseline[t] \subseteq seen
    /\ \A s \in subs[t] : armedAt[s] # Never

(* Only what is public is ever seen, offered or delivered.                  *)
PublicOnly ==
  /\ \A f \in Filing : accepted[f] # Never => accepted[f] <= secNow
  /\ \A f \in public : accepted[f] # Never
  /\ seen \subseteq public
  /\ \A s \in EdgarSub : wokenBy[s] # None => wokenBy[s] \in public

(* Every group has a subscription that was armed first.                     *)
SomeoneIsFirst ==
  \A group \in SUBSET EdgarSub :
    group # {} => \E s \in group : \A r \in group : armedAt[s] <= armedAt[r]

(* A tick with work left has everyone on its list who is waiting in time.   *)
EveryoneIsListed ==
  \A t \in EdgarTick : groups[t] # {} \/ cik[t] # None =>
    \A s \in EdgarSub \ Unknown : Armed(s) => s \in subs[t] \cup LateFor(t)

(* What a tick has fetched it still offers to everyone who waits for it ... *)
OfferedToTheWaiting ==
  \A t \in EdgarTick : edgarPc[t] = "deliver" =>
    \A f \in fetched[t], s \in EdgarSub \ Unknown :
      CikOf[f] = CikOf[s] /\ Armed(s) /\ Wanted(f, s) =>
        <<f, s>> \in offers[t] \cup missed \/ s \in LateFor(t)

(* ... and to nobody else.                                                  *)
OffersAreWanted ==
  \A t \in EdgarTick : \A o \in offers[t] : o[1] \in public /\ Wanted(o[1], o[2])

EdgarInv ==
  /\ EdgarTypeOK /\ HeldByTick /\ PublicOnly /\ SomeoneIsFirst
  /\ EveryoneIsListed /\ OfferedToTheWaiting /\ OffersAreWanted
  /\ NothingSwallowed /\ NothingOlderThanSubscription
================================================================================
