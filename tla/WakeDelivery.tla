------------------------------ MODULE WakeDelivery ------------------------------
(***************************************************************************)
(* Delivery of one armed subscription's wake (src/catalog/wake.ts,         *)
(* src/catalog/registry.ts, the POST /catalog/wake route of                *)
(* src/agent/channels/catalog.ts and src/connector/lib/deliver-wake.ts).   *)
(* Every Redis key involved is private to one subscription id, so one      *)
(* subscription is the whole story.  Each step below is one Redis command, *)
(* one HTTP exchange or one send(); any two steps of different callers     *)
(* may interleave.                                                         *)
(*                                                                         *)
(* A member of Call is one delivery attempt: deliverWake in the eve        *)
(* process (EveCall) or deliverTerminalWakeFromConnector in the connector  *)
(* (ConnectorCall).  It also stands for the fresh values the attempt       *)
(* mints: its lease token, its claim token and its firedAt timestamp.  An  *)
(* attempt that is over can begin anew once none of these survive          *)
(* anywhere (Fresh), so any number of attempts follow one another.         *)
(***************************************************************************)
EXTENDS Integers

CONSTANTS EveCall,        \* attempts run by the eve process
          ConnectorCall,  \* attempts run by the connector
          None,           \* an absent key or field
          MaxFaults       \* bound on crashes, errors and rejections

Call == EveCall \cup ConnectorCall

ASSUME CallAssumption == None \notin Call /\ EveCall \cap ConnectorCall = {}
ASSUME FaultsAssumption == MaxFaults \in Nat

VARIABLES
  sub,       \* the Redis record of the subscription
  lease,     \* catalog:lease:delivery:<id>, the owner token
  marker,    \* catalog:wake-delivered:<id>
  known,     \* whether the conversation record exists
  pc,        \* where each attempt is
  reason,    \* the reason an attempt delivers for
  raw,       \* the record an attempt read last
  firedAt,   \* the timestamp an attempt will write
  route,     \* where the route handler serving an attempt's POST is
  reply,     \* the route's answer to an attempt
  wakes,     \* firedAt of every wake the right session received
  lapsed,    \* a claim expired while its wake could go out or had gone out
  faults     \* crashes, errors and rejections so far

store == <<sub, lease, marker>>
caller == <<pc, reason, raw, firedAt>>
history == <<wakes, lapsed>>
vars == <<sub, lease, marker, known, pc, reason, raw, firedAt, route, reply,
          wakes, lapsed, faults>>

-----------------------------------------------------------------------------
Reason == {"fired", "expired"}
Terminal == {"fired", "expired", "failed"}
Stamp == Call \cup {None}
Record == [status : {"armed", "delivering"} \cup Terminal,
           deliverReason : Reason \cup {"none"},
           firedAt : Stamp]
Marker == [phase : {"none", "sending", "sent"}, by : Stamp]
Reply == [kind : {"none", "delivered", "already", "inFlight", "notFound", "error"},
          firedAt : Stamp]

Armed == [status |-> "armed", deliverReason |-> "none", firedAt |-> None]
NoMarker == [phase |-> "none", by |-> None]
NoReply == [kind |-> "none", firedAt |-> None]

(* Before the intent is established, after it, and while the lease is held. *)
Deciding == {"sweep", "read", "cas", "reread"}
Holding == {"marker", "posted", "update", "write"}
Committed == {"lease"} \cup Holding
PC == {"idle", "release"} \cup Deciding \cup Committed
Route == {"idle", "lookup", "claim", "collision", "send", "clear", "upgrade"}

TypeOK ==
  /\ sub \in Record
  /\ lease \in Stamp
  /\ marker \in Marker
  /\ known \in BOOLEAN
  /\ pc \in [Call -> PC]
  /\ reason \in [Call -> Reason \cup {"none"}]
  /\ raw \in [Call -> Record]
  /\ firedAt \in [Call -> Stamp]
  /\ route \in [Call -> Route]
  /\ reply \in [Call -> Reply]
  /\ wakes \subseteq Call
  /\ lapsed \in BOOLEAN
  /\ faults \in 0..MaxFaults

(* Nothing of the delivery has begun. *)
AtRest ==
  /\ lease = None /\ marker = NoMarker
  /\ known \in BOOLEAN
  /\ pc = [c \in Call |-> "idle"]
  /\ reason = [c \in Call |-> "none"]
  /\ raw = [c \in Call |-> Armed]
  /\ firedAt = [c \in Call |-> None]
  /\ route = [c \in Call |-> "idle"]
  /\ reply = [c \in Call |-> NoReply]
  /\ wakes = {} /\ lapsed = FALSE

StartsAs(record) == sub = record /\ AtRest /\ faults = 0

Init == StartsAs(Armed)

-----------------------------------------------------------------------------
(* Helpers *)

(* Nothing minted by c's previous attempt survives. *)
Fresh(c) == /\ pc[c] = "idle" /\ route[c] = "idle"
            /\ lease # c /\ marker.by # c /\ c \notin wakes

Goto(c, label) == pc' = [pc EXCEPT ![c] = label]

(* The attempt returns and its local variables are gone. *)
Return(c) ==
  /\ Goto(c, "idle")
  /\ reason' = [reason EXCEPT ![c] = "none"]
  /\ raw' = [raw EXCEPT ![c] = Armed]
  /\ firedAt' = [firedAt EXCEPT ![c] = None]
  /\ reply' = [reply EXCEPT ![c] = NoReply]

(* deliverWake's finally releases the lease; the connector holds none. *)
Leave(c) ==
  IF c \in EveCall
    THEN Goto(c, "release") /\ UNCHANGED <<reason, raw, firedAt, reply>>
    ELSE Return(c)

Fault == faults < MaxFaults /\ faults' = faults + 1
NoFault == UNCHANGED faults

(* Mutant: a terminal record may be taken for delivery again. *)
Transitionable_NotTerminal(r) == ~(r.status = "delivering" /\ r.deliverReason # "none")

(* tryTransitionToDelivering's guards. *)
Transitionable(r) == /\ r.status \notin Terminal
                     /\ ~(r.status = "delivering" /\ r.deliverReason # "none")

(* Only the eve process takes the lease before it looks at the marker. *)
AfterIntent(c) == IF c \in EveCall THEN "lease" ELSE "marker"

(* The status an attempt writes: a 404 is PermanentWakeError. *)
Outcome(c) == IF reply[c].kind = "notFound" THEN "failed" ELSE reason[c]

-----------------------------------------------------------------------------
(* What starts an attempt *)

Begin(c, label, r) ==
  /\ Fresh(c)
  /\ Goto(c, label)
  /\ reason' = [reason EXCEPT ![c] = r]
  /\ UNCHANGED <<store, known, raw, firedAt, route, reply, history, faults>>

(* A provider tick or a stream event delivers, whatever the status is. *)
Fire(c) == Begin(c, "read", "fired")

(* wake.ts's expiry timer looks at the status first. *)
ExpireTimer(c) == c \in EveCall /\ sub.status = "armed" /\ Begin(c, "read", "expired")

(* The durable sweep trusts the expiry index, which a terminal write clears. *)
ExpirySweep(c) == /\ c \in ConnectorCall /\ sub.status \notin Terminal
                  /\ Begin(c, "read", "expired")

(* A recovery sweep listed the subscription as "delivering". *)
RecoverySweep(c) ==
  /\ sub.status = "delivering"
  /\ Begin(c, IF c \in EveCall THEN "sweep" ELSE "read", sub.deliverReason)

(* Only the eve process's sweep skips a subscription whose lease is held. *)
SweepChecksLease(c) ==
  /\ pc[c] = "sweep"
  /\ \/ lease = None /\ Goto(c, "read") /\ UNCHANGED <<reason, raw, firedAt, reply>>
     \/ lease # None /\ Return(c)
  /\ UNCHANGED <<store, known, route, history, faults>>

-----------------------------------------------------------------------------
(* tryTransitionToDelivering, and the re-read of a caller that lost it *)

ReadRaw(c) ==
  /\ pc[c] = "read"
  /\ raw' = [raw EXCEPT ![c] = sub]
  /\ Goto(c, IF Transitionable(sub) THEN "cas" ELSE "reread")
  /\ UNCHANGED <<store, known, reason, firedAt, route, reply, history, faults>>

(* Mutant: the write does not compare with what was read. *)
Cas_Blind(c) ==
  /\ pc[c] = "cas"
  /\ sub' = [raw[c] EXCEPT !.status = "delivering", !.deliverReason = reason[c]]
  /\ Goto(c, AfterIntent(c))
  /\ UNCHANGED <<lease, marker, known, reason, raw, firedAt, route, reply, history, faults>>

(* Mutant: the reason is not persisted with the transition. *)
Cas_WithoutReason(c) ==
  /\ pc[c] = "cas"
  /\ \/ sub = raw[c] /\ sub' = [raw[c] EXCEPT !.status = "delivering"] /\ Goto(c, AfterIntent(c))
     \/ sub # raw[c] /\ UNCHANGED sub /\ Goto(c, "read")
  /\ UNCHANGED <<lease, marker, known, reason, raw, firedAt, route, reply, history, faults>>

Cas(c) ==
  /\ pc[c] = "cas"
  /\ \/ /\ sub = raw[c]
        /\ sub' = [raw[c] EXCEPT !.status = "delivering", !.deliverReason = reason[c]]
        /\ Goto(c, AfterIntent(c))
     \/ /\ sub # raw[c]
        /\ Goto(c, "read")
        /\ UNCHANGED sub
  /\ UNCHANGED <<lease, marker, known, reason, raw, firedAt, route, reply, history, faults>>

Reread(c) ==
  /\ pc[c] = "reread"
  /\ \/ /\ sub.status = "delivering" /\ sub.deliverReason # "none"
        /\ reason' = [reason EXCEPT ![c] = sub.deliverReason]
        /\ Goto(c, AfterIntent(c))
        /\ UNCHANGED <<raw, firedAt, reply>>
     \/ /\ sub.status # "delivering"
        /\ Return(c)
  /\ UNCHANGED <<store, known, route, history, faults>>

-----------------------------------------------------------------------------
(* Lease, marker and POST *)

AcquireLease(c) ==
  /\ pc[c] = "lease"
  /\ \/ lease = None /\ lease' = c /\ Goto(c, "marker") /\ UNCHANGED <<reason, raw, firedAt, reply>>
     \/ lease # None /\ UNCHANGED lease /\ Return(c)
  /\ UNCHANGED <<sub, marker, known, route, history, faults>>

(* A "sent" marker settles without a POST; otherwise the wake is POSTed. *)
ReadMarker(c) ==
  /\ pc[c] = "marker"
  /\ \/ /\ marker.phase = "sent"
        /\ firedAt' = [firedAt EXCEPT ![c] = marker.by]
        /\ Goto(c, "update")
        /\ UNCHANGED route
     \/ /\ marker.phase # "sent"
        /\ firedAt' = [firedAt EXCEPT ![c] = c]
        /\ Goto(c, "posted")
        /\ route' = [route EXCEPT ![c] = "lookup"]
  /\ UNCHANGED <<store, known, reason, raw, reply, history, faults>>

(* Mutant: an "already delivered" answer keeps the attempt's own firedAt. *)
Receive_OwnFiredAt(c) ==
  /\ pc[c] = "posted" /\ reply[c].kind # "none"
  /\ \/ /\ \/ reply[c].kind \in {"delivered", "already"}
           \/ reply[c].kind = "notFound" /\ c \in EveCall
        /\ Goto(c, "update")
        /\ UNCHANGED <<reason, raw, firedAt, reply>>
     \/ /\ \/ reply[c].kind \in {"inFlight", "error"}
           \/ reply[c].kind = "notFound" /\ c \in ConnectorCall
        /\ Leave(c)
  /\ UNCHANGED <<store, known, route, history, faults>>

(* Mutant: nobody gives up on a 404. *)
Receive_404Retryable(c) ==
  /\ pc[c] = "posted" /\ reply[c].kind # "none"
  /\ IF reply[c].kind \in {"delivered", "already"}
       THEN Goto(c, "update") /\ UNCHANGED <<reason, raw, firedAt, reply>>
       ELSE Leave(c)
  /\ UNCHANGED <<store, known, route, history, faults>>

(* The answer of the route.  Only deliverWake gives up on a 404. *)
Receive(c) ==
  /\ pc[c] = "posted" /\ reply[c].kind # "none"
  /\ \/ /\ reply[c].kind = "delivered"
        /\ Goto(c, "update")
        /\ UNCHANGED <<reason, raw, firedAt, reply>>
     \/ /\ reply[c].kind = "already"
        /\ firedAt' = [firedAt EXCEPT ![c] = reply[c].firedAt]
        /\ Goto(c, "update")
        /\ UNCHANGED <<reason, raw, reply>>
     \/ /\ reply[c].kind = "notFound" /\ c \in EveCall
        /\ Goto(c, "update")
        /\ UNCHANGED <<reason, raw, firedAt, reply>>
     \/ /\ reply[c].kind = "notFound" /\ c \in ConnectorCall
        /\ Return(c)
     \/ /\ reply[c].kind \in {"inFlight", "error"}
        /\ Leave(c)
  /\ UNCHANGED <<store, known, route, history, faults>>

-----------------------------------------------------------------------------
(* updateSubscription's read and write, and the end of the attempt *)

ReadForUpdate(c) ==
  /\ pc[c] = "update"
  /\ raw' = [raw EXCEPT ![c] = sub]
  /\ Goto(c, "write")
  /\ UNCHANGED <<store, known, reason, firedAt, route, reply, history, faults>>

WriteTerminal(c) ==
  /\ pc[c] = "write"
  /\ sub' = [status |-> Outcome(c),
             deliverReason |-> "none",
             firedAt |-> IF Outcome(c) = "failed" THEN raw[c].firedAt ELSE firedAt[c]]
  /\ Leave(c)
  /\ UNCHANGED <<lease, marker, known, route, history, faults>>

ReleaseLease(c) ==
  /\ pc[c] = "release"
  /\ lease' = IF lease = c THEN None ELSE lease
  /\ Return(c)
  /\ UNCHANGED <<sub, marker, known, route, history, faults>>

(* A Redis command or the fetch throws: "deferred", through finally. *)
Interrupt(c) ==
  /\ pc[c] \notin {"idle", "release"} /\ Fault
  /\ IF pc[c] \in Holding THEN Leave(c) ELSE Return(c)
  /\ UNCHANGED <<store, known, route, history>>

(* The process dies, or releaseDeliveryLease itself fails. *)
Crash(c) ==
  /\ pc[c] # "idle" /\ Fault
  /\ Return(c)
  /\ UNCHANGED <<store, known, route, history>>

-----------------------------------------------------------------------------
(* The POST /catalog/wake handler serving attempt c *)

(* The handler answers; an attempt that is gone does not hear it. *)
Answer(c, kind, stamp) ==
  /\ route' = [route EXCEPT ![c] = "idle"]
  /\ reply' = IF pc[c] = "posted"
                THEN [reply EXCEPT ![c] = [kind |-> kind, firedAt |-> stamp]]
                ELSE reply

(* Unknown conversation: 404. Over the daily turn cap: 429. *)
RouteLookup(c) ==
  /\ route[c] = "lookup"
  /\ \/ ~known /\ Answer(c, "notFound", None) /\ NoFault
     \/ known /\ Answer(c, "error", None) /\ Fault
     \/ known /\ route' = [route EXCEPT ![c] = "claim"] /\ UNCHANGED reply /\ NoFault
  /\ UNCHANGED <<store, known, caller, history>>

(* claimWakeDelivery: SET NX of a "sending" marker under a fresh token. *)
RouteClaim(c) ==
  /\ route[c] = "claim"
  /\ \/ /\ marker.phase = "none"
        /\ marker' = [phase |-> "sending", by |-> c]
        /\ route' = [route EXCEPT ![c] = "send"]
     \/ /\ marker.phase # "none"
        /\ route' = [route EXCEPT ![c] = "collision"]
        /\ UNCHANGED marker
  /\ UNCHANGED <<sub, lease, known, caller, reply, history, faults>>

(* The claim was lost: the marker says who won, if it is still there. *)
RouteCollision(c) ==
  /\ route[c] = "collision"
  /\ IF marker.phase = "sent" THEN Answer(c, "already", marker.by)
                              ELSE Answer(c, "inFlight", None)
  /\ UNCHANGED <<store, known, caller, history, faults>>

(* send() resumes the session, or throws, or starts another session. *)
RouteSend(c) ==
  /\ route[c] = "send"
  /\ \/ /\ wakes' = wakes \cup {c}
        /\ route' = [route EXCEPT ![c] = "upgrade"]
        /\ NoFault
     \/ /\ route' = [route EXCEPT ![c] = "clear"]
        /\ Fault
        /\ UNCHANGED wakes
  /\ UNCHANGED <<store, known, caller, reply, lapsed>>

(* Mutant: the claim is deleted whoever holds it. *)
RouteClear_AnyClaim(c) ==
  /\ route[c] = "clear"
  /\ marker' = IF marker.phase = "sending" THEN NoMarker ELSE marker
  /\ Answer(c, "error", None)
  /\ UNCHANGED <<sub, lease, known, caller, history, faults>>

(* clearWakeClaim: only the token's own claim is removed. *)
RouteClear(c) ==
  /\ route[c] = "clear"
  /\ marker' = IF marker = [phase |-> "sending", by |-> c] THEN NoMarker ELSE marker
  /\ Answer(c, "error", None)
  /\ UNCHANGED <<sub, lease, known, caller, history, faults>>

(* markWakeSent: a miss or an error still reports the wake as delivered. *)
RouteUpgrade(c) ==
  /\ route[c] = "upgrade"
  /\ \/ /\ marker' = IF marker = [phase |-> "sending", by |-> c]
                       THEN [phase |-> "sent", by |-> c] ELSE marker
        /\ NoFault
     \/ Fault /\ UNCHANGED marker
  /\ Answer(c, "delivered", None)
  /\ UNCHANGED <<sub, lease, known, caller, history>>

(* The handler dies or throws where nothing clears the claim. *)
RouteFails(c) ==
  /\ route[c] # "idle" /\ Fault
  /\ Answer(c, "error", None)
  /\ UNCHANGED <<store, known, caller, history>>

-----------------------------------------------------------------------------
(* Time to live *)

(* Mutant: the lease is taken without a time to live. *)
LeaseExpires_Never == lease # None /\ FALSE /\ UNCHANGED vars

LeaseExpires ==
  /\ lease # None
  /\ lease' = None
  /\ UNCHANGED <<sub, marker, known, caller, route, reply, history, faults>>

(* The owner is between its claim and the upgrade, or died after send(). *)
ClaimInUse == marker.by \in wakes \/ route[marker.by] = "send"

(* Mutant: the claim is taken without a time to live. *)
ClaimExpires_Never == marker.phase = "sending" /\ FALSE /\ UNCHANGED vars

ClaimExpires ==
  /\ marker.phase = "sending"
  /\ marker' = NoMarker
  /\ lapsed' = (lapsed \/ ClaimInUse)
  /\ UNCHANGED <<sub, lease, known, caller, route, reply, wakes, faults>>

-----------------------------------------------------------------------------
Triggers(c) == Fire(c) \/ ExpireTimer(c) \/ ExpirySweep(c) \/ RecoverySweep(c)

CallerSteps(c) ==
  \/ SweepChecksLease(c) \/ ReadRaw(c) \/ Cas(c) \/ Reread(c)
  \/ AcquireLease(c) \/ ReadMarker(c) \/ Receive(c)
  \/ ReadForUpdate(c) \/ WriteTerminal(c) \/ ReleaseLease(c)

RouteSteps(c) ==
  \/ RouteLookup(c) \/ RouteClaim(c) \/ RouteCollision(c)
  \/ RouteSend(c) \/ RouteClear(c) \/ RouteUpgrade(c)

Failures(c) == Interrupt(c) \/ Crash(c) \/ RouteFails(c)

Expiries == LeaseExpires \/ ClaimExpires

Next == \/ \E c \in Call : Triggers(c) \/ CallerSteps(c) \/ RouteSteps(c) \/ Failures(c)
        \/ Expiries

Spec == Init /\ [][Next]_vars

(* Code that runs keeps running, keys with a TTL go away, and both recovery *)
(* sweeps keep coming round (setInterval, the durable loop).                *)
Fairness ==
  /\ \A c \in Call : /\ WF_vars(CallerSteps(c))
                     /\ WF_vars(RouteSteps(c))
                     /\ WF_vars(RecoverySweep(c))
  /\ WF_vars(LeaseExpires) /\ WF_vars(ClaimExpires)

FairSpec == Spec /\ Fairness

-----------------------------------------------------------------------------
(* Properties *)

(* The record never says more or less than what happened to the agent: a    *)
(* "fired" or "expired" subscription carries the firedAt of a wake the      *)
(* session really received (wake.ts: "never inventing a firedAt the agent's *)
(* envelope never actually saw"), and a "failed" one never woke anybody.    *)
RecordMatchesAgent ==
  /\ sub.status \in Reason => sub.firedAt \in wakes
  /\ sub.status = "failed" => wakes = {}

(* The agent is woken at most once, whoever crashes, retries or races, with *)
(* the one exception wake.ts accepts at WAKE_CLAIM_TTL_SECONDS: a claim     *)
(* that expired during its send() or between it and the marker upgrade.     *)
AtMostOneWake == ~lapsed => \A a, b \in wakes : a = b

(* "Terminal states never transition further" (types.ts), although          *)
(* updateSubscription is a read and a separate write; and the recorded      *)
(* firedAt only moves if the agent was really woken twice.                  *)
TerminalIsFinal ==
  [][sub.status \in Terminal =>
       /\ sub'.status = sub.status
       /\ sub'.firedAt # sub.firedAt => lapsed]_vars

(* A compare-and-swap that misses finds the intent established by someone   *)
(* else on its next read, so the three attempts of tryTransitionToDelivering*)
(* are never used up and no trigger is dropped for contention.              *)
MissedCasIsSettled ==
  \A c \in Call : pc[c] = "cas" /\ raw[c] # sub => ~Transitionable(sub)

(* A subscription whose delivery began reaches a terminal status, whatever  *)
(* crash, error or lost answer interrupts the attempts, thanks to the       *)
(* recovery sweeps and the time to live of lease and claim.                 *)
DeliveryCompletes == sub.status = "delivering" ~> sub.status \in Terminal

(* The same of the connector's attempts alone, which never give up on a     *)
(* conversation nobody knows.                                               *)
KnownDeliveryCompletes ==
  known /\ sub.status = "delivering" ~> sub.status \in Terminal

(* The pipeline implements the one-shot wake: an attempt works for the one  *)
(* reason the compare-and-swap established, nobody is woken before it, and  *)
(* the record settles once, as "failed" only if nobody was woken.           *)
OneShot == INSTANCE OneShotWake WITH status <- sub.status,
                                     reason <- sub.deliverReason,
                                     woken <- (wakes # {})
ImplementsOneShotWake == OneShot!Spec
-----------------------------------------------------------------------------
(* The inductive invariant behind the safety properties *)

(* An attempt that is under way knows its reason, and so does the record    *)
(* from which the sweeps take theirs.                                       *)
ReasonsHeld ==
  /\ \A c \in Call : pc[c] \notin {"idle", "release"} => reason[c] \in Reason
  /\ sub.status = "delivering" => sub.deliverReason \in Reason

ReasonsKnown ==
  /\ ReasonsHeld
  /\ sub.deliverReason \in Reason => sub.status = "delivering"
  /\ sub.status = "armed" => sub = Armed

(* Past the compare-and-swap, every attempt works for the recorded intent,  *)
(* and nothing is POSTed for a subscription that is still armed.            *)
IntentShared ==
  \A c \in Call :
    /\ pc[c] = "cas" => raw[c] = Armed
    /\ pc[c] \in Committed =>
         \/ sub.status = "delivering" /\ sub.deliverReason = reason[c]
         \/ sub.status \in {reason[c], "failed"}
    /\ route[c] # "idle" => sub.status # "armed"

(* A wake is recorded between send() and the marker upgrade, never before,  *)
(* and every timestamp an attempt is about to write is that of a wake.      *)
AttemptTraced(c) ==
  /\ pc[c] \in Deciding \cup {"lease", "marker"} =>
       route[c] = "idle" /\ c \notin wakes /\ reply[c] = NoReply
  /\ pc[c] = "posted" => firedAt[c] = c
  /\ route[c] \in {"lookup", "claim", "collision", "send", "clear"} => c \notin wakes
  /\ route[c] = "upgrade" => c \in wakes
  /\ route[c] # "idle" => reply[c] = NoReply
  /\ pc[c] = "idle" => reply[c] = NoReply
  /\ reply[c].kind = "delivered" => c \in wakes
  /\ reply[c].kind = "already" => reply[c].firedAt \in wakes
  /\ pc[c] \in {"update", "write"} /\ reply[c].kind # "notFound" => firedAt[c] \in wakes
  /\ raw[c].firedAt \in wakes \cup {None}

WakesTraced ==
  /\ \A c \in Call : AttemptTraced(c)
  /\ marker.phase = "none" <=> marker.by = None
  /\ marker.phase = "sent" => marker.by \in wakes
  /\ sub.firedAt \in wakes \cup {None}
  /\ sub.status \in Reason => sub.firedAt \in wakes

(* Wakes go to known conversations only, and 404s come from unknown ones. *)
ConversationDecides ==
  /\ ~known => wakes = {}
  /\ sub.status = "failed" => ~known
  /\ \A c \in Call :
       /\ reply[c].kind = "notFound" => ~known
       /\ route[c] \notin {"idle", "lookup"} => known

(* Unless a claim in use expired, the marker names the one that may send. *)
ClaimGuards ==
  ~lapsed =>
    /\ \A c \in Call : route[c] \in {"send", "upgrade"} =>
                          marker = [phase |-> "sending", by |-> c]
    /\ \A c \in wakes : marker.by = c

IInv == /\ TypeOK /\ ReasonsKnown /\ IntentShared
        /\ WakesTraced /\ ConversationDecides /\ ClaimGuards
================================================================================
