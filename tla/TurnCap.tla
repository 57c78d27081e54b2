--------------------------------- MODULE TurnCap ---------------------------------
(***************************************************************************)
(* The daily turn cap (src/catalog/turn-cap.ts) in front of the two routes *)
(* that start a turn, POST /catalog/chat and POST /catalog/wake            *)
(* (src/agent/channels/catalog.ts, checkTurnCap).  A member of Request is  *)
(* one running request; it serves another request once it is idle again.   *)
(* The counter key of a day is INCRemented and its time to live set by two *)
(* separate commands, and a request counts for the day it began on.        *)
(***************************************************************************)
EXTENDS Naturals, FiniteSets

CONSTANTS Request,   \* requests in flight at once
          Limit,     \* MAX_TURNS_PER_DAY
          MaxDay,    \* bound on the days
          MaxCount   \* bound on the counter of a day

ASSUME RequestAssumption == IsFiniteSet(Request)
ASSUME LimitAssumption == Limit \in Nat \ {0}
ASSUME BoundsAssumption == MaxDay \in Nat \ {0} /\ MaxCount \in Nat

Day == 1..MaxDay

VARIABLES
  today,    \* the UTC date
  count,    \* the counter key of each day, 0 if it does not exist
  ttl,      \* whether the key of each day has a time to live
  pc,       \* where each request is
  day,      \* the day whose key a request counts on
  ticket,   \* what a request's INCR returned
  started,  \* turns started on the tickets of each day
  answered  \* days on which some check ran to its end

capVars == <<today, count, ttl, pc, day, ticket, started, answered>>

CapTypeOK ==
  /\ today \in Day
  /\ count \in [Day -> Nat] /\ ttl \in [Day -> BOOLEAN]
  /\ pc \in [Request -> {"idle", "incr", "expire", "decide", "open", "send"}]
  /\ day \in [Request -> Day] /\ ticket \in [Request -> Nat]
  /\ started \in [Day -> Nat]
  /\ answered \subseteq Day

CapInit ==
  /\ today = 1
  /\ count = [d \in Day |-> 0] /\ ttl = [d \in Day |-> FALSE]
  /\ pc = [r \in Request |-> "idle"]
  /\ day = [r \in Request |-> 1] /\ ticket = [r \in Request |-> 0]
  /\ started = [d \in Day |-> 0]
  /\ answered = {}

RequestGoto(r, label) == pc' = [pc EXCEPT ![r] = label]
Leave(r) == /\ RequestGoto(r, "idle") /\ ticket' = [ticket EXCEPT ![r] = 0]

-----------------------------------------------------------------------------
(* The key is derived from the date once, at the start of the check. *)
Arrive(r) ==
  /\ pc[r] = "idle"
  /\ RequestGoto(r, "incr")
  /\ day' = [day EXCEPT ![r] = today]
  /\ UNCHANGED <<today, count, ttl, ticket, started, answered>>

(* Mutant: the counter is read and written back, not incremented atomically. *)
Incr_ReadThenWrite(r) ==
  /\ pc[r] = "incr" /\ count[day[r]] < MaxCount
  /\ \/ ticket[r] = 0 /\ ticket' = [ticket EXCEPT ![r] = count[day[r]] + 1]
        /\ UNCHANGED <<pc, count>>
     \/ ticket[r] > 0 /\ count' = [count EXCEPT ![day[r]] = ticket[r]]
        /\ RequestGoto(r, "expire") /\ UNCHANGED ticket
  /\ UNCHANGED <<today, ttl, day, started, answered>>

Incr(r) ==
  /\ pc[r] = "incr" /\ count[day[r]] < MaxCount
  /\ count' = [count EXCEPT ![day[r]] = @ + 1]
  /\ ticket' = [ticket EXCEPT ![r] = count[day[r]] + 1]
  /\ RequestGoto(r, "expire")
  /\ UNCHANGED <<today, ttl, day, started, answered>>

(* Mutant: only the call that created the key sets its time to live. *)
Expire_FirstCallOnly(r) ==
  /\ pc[r] = "expire"
  /\ ttl' = IF ticket[r] = 1 THEN [ttl EXCEPT ![day[r]] = TRUE] ELSE ttl
  /\ RequestGoto(r, "decide")
  /\ UNCHANGED <<today, count, day, ticket, started, answered>>

(* On every call, whatever INCR returned. *)
Expire(r) ==
  /\ pc[r] = "expire"
  /\ ttl' = [ttl EXCEPT ![day[r]] = TRUE]
  /\ RequestGoto(r, "decide")
  /\ UNCHANGED <<today, count, day, ticket, started, answered>>

isWithinTurnCap(n) == n <= Limit

(* Allowed, or rejected with a 429. *)
Decide(r) ==
  /\ pc[r] = "decide"
  /\ IF isWithinTurnCap(ticket[r]) THEN RequestGoto(r, "send") /\ UNCHANGED ticket
                                   ELSE Leave(r)
  /\ answered' = answered \cup {day[r]}
  /\ UNCHANGED <<today, count, ttl, day, started>>

(* Mutant: the check fails with an outcome no caller knows. *)
StoreFails_Unknown(r) ==
  /\ pc[r] \in {"incr", "expire"}
  /\ RequestGoto(r, "failed")
  /\ UNCHANGED <<today, count, ttl, day, ticket, started, answered>>

(* INCR or EXPIRE throws: the check fails open. *)
StoreFails(r) ==
  /\ pc[r] \in {"incr", "expire"}
  /\ RequestGoto(r, "open")
  /\ UNCHANGED <<today, count, ttl, day, ticket, started, answered>>

(* send() starts the turn; one let through by a failed store has no ticket. *)
StartTurn(r) ==
  /\ pc[r] \in {"send", "open"}
  /\ started' = IF pc[r] = "send" THEN [started EXCEPT ![day[r]] = @ + 1] ELSE started
  /\ Leave(r)
  /\ UNCHANGED <<today, count, ttl, day, answered>>

(* A wake whose delivery claim is taken, or a send() that throws. *)
NoTurn(r) ==
  /\ pc[r] \in {"send", "open"}
  /\ Leave(r)
  /\ UNCHANGED <<today, count, ttl, day, started, answered>>

(* The function instance dies. *)
Crash(r) ==
  /\ pc[r] # "idle"
  /\ Leave(r)
  /\ UNCHANGED <<today, count, ttl, day, started, answered>>

(* UTC midnight. *)
Midnight ==
  /\ today < MaxDay
  /\ today' = today + 1
  /\ UNCHANGED <<count, ttl, pc, day, ticket, started, answered>>

(* KEY_TTL_SECONDS is two days: a key outlives its own day. *)
KeyExpires(d) ==
  /\ d < today /\ ttl[d] /\ count[d] > 0
  /\ \A r \in Request : pc[r] # "idle" => day[r] # d
  /\ count' = [count EXCEPT ![d] = 0]
  /\ ttl' = [ttl EXCEPT ![d] = FALSE]
  /\ answered' = answered \ {d}
  /\ UNCHANGED <<today, pc, day, ticket, started>>

CapNext ==
  \/ \E r \in Request : \/ Arrive(r) \/ Incr(r) \/ Expire(r) \/ Decide(r)
                        \/ StoreFails(r) \/ StartTurn(r) \/ NoTurn(r) \/ Crash(r)
  \/ Midnight
  \/ \E d \in Day : KeyExpires(d)

CapSpec == CapInit /\ [][CapNext]_capVars

-----------------------------------------------------------------------------
(* Properties *)

(* "a turn that would exceed it must never reach send()": while the store   *)
(* answers, no interleaving of checks, crashes and midnights starts more    *)
(* turns on a day's counter than the limit.                                 *)
CapHolds == \A d \in Day : started[d] <= Limit

(* The time to live is "self-repairing": once a check of the day ran to its *)
(* end, the counter key expires, even if the first one crashed half-way.    *)
KeySelfExpires == \A d \in answered : ttl[d]

(* The requests that hold one of the tickets of a day, and whether any      *)
(* request still counts on it.                                              *)
Holders(d) == {r \in Request : day[r] = d /\ ticket[r] \in 1..Limit}
Counting(d) == \E r \in Request : pc[r] # "idle" /\ day[r] = d

(* A request has a ticket from its INCR on, and only one that is within the *)
(* limit gets to send() with it.                                            *)
TicketsInOrder ==
  \A r \in Request :
    /\ pc[r] \in {"idle", "incr"} => ticket[r] = 0
    /\ pc[r] \in {"expire", "decide"} => ticket[r] > 0
    /\ pc[r] = "send" => ticket[r] \in 1..Limit
    /\ pc[r] = "decide" => ttl[day[r]]

(* The turns of a day and the tickets that may still become one are within  *)
(* the limit, and within the counter for as long as anybody counts on it.   *)
CoverAt(d) ==
  /\ started[d] + Cardinality(Holders(d)) <= Limit
  /\ \/ d < today /\ ~ Counting(d)
     \/ started[d] + Cardinality(Holders(d)) <= count[d]
TicketsCover == \A d \in Day : CoverAt(d)

(* The inductive invariant behind CapHolds and KeySelfExpires.              *)
CapInv == CapTypeOK /\ TicketsInOrder /\ TicketsCover /\ KeySelfExpires

(* "the counter doubles as turns actually started today, not turns          *)
(* attempted" (incrementAndCheckTurnCap): when a turn is rejected, it is    *)
(* not among those the counter of its day counts, which are at most Limit.  *)
RejectedTurnIsNotCounted ==
  [][\A r \in Request :
       Decide(r) /\ ~isWithinTurnCap(ticket[r]) => count'[day[r]] <= Limit]_capVars
================================================================================
