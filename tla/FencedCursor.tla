------------------------------ MODULE FencedCursor ------------------------------
(***************************************************************************)
(* Persisting the gap-replay cursor of one symbol.  Connector sessions     *)
(* follow one another, a superseded one may go on for a while, and each    *)
(* has three paths that write the cursor: live trades, gap replay and the  *)
(* final flush (src/connector/lib/alpaca-session.ts).  Every write is      *)
(* queued (serial-queue.ts), reads the cursor, compares, and then swaps it *)
(* in under the session's fencing token (gap-replay-cursor.ts,             *)
(* fence-redis.ts).                                                        *)
(*                                                                         *)
(* A trade is its position in the total order of trades (gap-replay.ts,    *)
(* compareReplayTrades); 0 stands for "no cursor".  The price kept next to *)
(* the cursor is left out.                                                 *)
(***************************************************************************)
EXTENDS Integers, FiniteSets

CONSTANTS Session,
          MaxPos,   \* the number of trades
          MaxWrites \* cursor writes of one session

ASSUME FencedCursorAssumption ==
  /\ IsFiniteSet(Session)
  /\ MaxPos \in Nat \ {0} /\ MaxWrites \in Nat \ {0}

Pos == 1..MaxPos
Write == 1..MaxWrites

VARIABLES
  fence,   \* catalog:fence:<stream>, the token last issued
  cursor,  \* catalog:cursor:<symbol>
  state,   \* where each session is
  token,   \* its fencing token
  pending, \* pendingCursorBySymbol
  timed,   \* sessions with an entry in cursorLastPersistedAtMsBySymbol
  issued,  \* how many writes it has queued
  write    \* its queue: the writes in the order they were queued

store == <<fence, cursor>>
session == <<state, token, pending, timed>>
queue == <<issued, write>>
vars == <<store, session, queue>>

-----------------------------------------------------------------------------
Path == {"live", "replay", "flush"}
Phase == {"none", "queued", "set", "done", "failed"}
NoWrite == [pos |-> 0, path |-> "live", phase |-> "none", seen |-> 0]

TypeOK ==
  /\ fence \in Nat /\ cursor \in 0..MaxPos
  /\ state \in [Session -> {"new", "open", "closing", "flushed", "closed", "dead"}]
  /\ token \in [Session -> Nat]
  /\ pending \in [Session -> 0..MaxPos]
  /\ timed \subseteq Session
  /\ issued \in [Session -> 0..MaxWrites]
  /\ write \in [Session -> [Write -> [pos : 0..MaxPos, path : Path,
                                      phase : Phase, seen : 0..MaxPos]]]

Init ==
  /\ fence = 0 /\ cursor = 0
  /\ state = [s \in Session |-> "new"]
  /\ token = [s \in Session |-> 0]
  /\ pending = [s \in Session |-> 0]
  /\ timed = {}
  /\ issued = [s \in Session |-> 0]
  /\ write = [s \in Session |-> [i \in Write |-> NoWrite]]

Settled(s, i) == write[s][i].phase \in {"done", "failed"}

(* isWriteAllowed: the token is the one last issued, not a greater one. *)
isWriteAllowed(s) == token[s] = fence

-----------------------------------------------------------------------------
(* The session *)

(* Mutant: the token is read, not minted. *)
AcquireFenceToken_Shared(s) ==
  /\ state[s] = "new" /\ state' = [state EXCEPT ![s] = "open"]
  /\ fence' = (IF fence = 0 THEN 1 ELSE fence)
  /\ token' = [token EXCEPT ![s] = fence']
  /\ UNCHANGED <<cursor, pending, timed, queue>>

AcquireFenceToken(s) ==
  /\ state[s] = "new" /\ state' = [state EXCEPT ![s] = "open"]
  /\ fence' = fence + 1
  /\ token' = [token EXCEPT ![s] = fence + 1]
  /\ UNCHANGED <<cursor, pending, timed, queue>>

(* writeCursorSerialized.  The last place is kept for the flush. *)
Enqueue(s, p, path) ==
  /\ issued[s] < MaxWrites
  /\ path = "flush" \/ issued[s] + 1 < MaxWrites
  /\ issued' = [issued EXCEPT ![s] = @ + 1]
  /\ write' = [write EXCEPT ![s][issued[s] + 1] =
                 [pos |-> p, path |-> path, phase |-> "queued", seen |-> 0]]

(* Mutant: trades still count once shutdown has begun. *)
LiveTrade_NoGate(s, p) ==
  /\ state[s] \in {"open", "closing", "flushed"}
  /\ pending' = [pending EXCEPT ![s] = p]
  /\ \/ Enqueue(s, p, "live") /\ timed' = timed \cup {s}
     \/ s \in timed /\ UNCHANGED <<timed, queue>>
  /\ UNCHANGED <<store, state, token>>

(* handleLiveTrade: the pending cursor always moves, the write is throttled *)
(* unless it is the session's first.                                        *)
LiveTrade(s, p) ==
  /\ state[s] = "open"
  /\ pending' = [pending EXCEPT ![s] = p]
  /\ \/ Enqueue(s, p, "live") /\ timed' = timed \cup {s}
     \/ s \in timed /\ UNCHANGED <<timed, queue>>
  /\ UNCHANGED <<store, state, token>>

(* replayAndAdvance; the replay that is under way at shutdown runs on. *)
Replay(s, p) ==
  /\ state[s] \in {"open", "closing"}
  /\ Enqueue(s, p, "replay")
  /\ UNCHANGED <<store, session>>

-----------------------------------------------------------------------------
(* A queued write *)

(* Mutant: writes of one session overlap. *)
Turn_Any(s, i) == TRUE

(* createSerialQueue: a task runs when the one before it has settled. *)
Turn(s, i) == \A j \in Write : j < i => Settled(s, j)

(* Only how it ended remains of a write. *)
Finish(s, i, phase) == write' = [write EXCEPT ![s][i] = [NoWrite EXCEPT !.phase = phase]]

(* The replay path takes over what is now persisted. *)
Sync(s, i) ==
  IF write[s][i].path = "replay" /\ state[s] # "dead"
    THEN /\ pending' = [pending EXCEPT ![s] = write[s][i].pos]
         /\ timed' = timed \cup {s}
    ELSE UNCHANGED <<pending, timed>>

(* Mutant: only a cursor that is equal is not written. *)
WriteIsNewer_NotEqual(p, current) == p # current

WriteIsNewer(p, current) == p > current

(* writeCursorFenced reads and compares: unchanged, regressed, or go on. *)
ReadCursor(s, i) ==
  /\ state[s] # "dead" /\ write[s][i].phase = "queued" /\ Turn(s, i)
  /\ IF WriteIsNewer(write[s][i].pos, cursor)
       THEN /\ write' = [write EXCEPT ![s][i].phase = "set", ![s][i].seen = cursor]
            /\ UNCHANGED <<pending, timed>>
       ELSE /\ Finish(s, i, "done")
            /\ IF write[s][i].pos = cursor THEN Sync(s, i) ELSE UNCHANGED <<pending, timed>>
  /\ UNCHANGED <<store, state, token, issued>>

(* Mutant: the token was checked when the cursor was read. *)
FencedSet_CheckedEarlier(s, i) ==
  /\ write[s][i].phase = "set"
  /\ cursor' = write[s][i].pos /\ Sync(s, i)
  /\ Finish(s, i, "done")
  /\ UNCHANGED <<fence, state, token, issued>>

(* FENCED_SET_SCRIPT.  The request of a dead session may still arrive. *)
FencedSet(s, i) ==
  /\ write[s][i].phase = "set"
  /\ IF isWriteAllowed(s)
       THEN cursor' = write[s][i].pos /\ Sync(s, i)
       ELSE UNCHANGED <<cursor, pending, timed>>
  /\ Finish(s, i, "done")
  /\ UNCHANGED <<fence, state, token, issued>>

(* A Redis call throws, before or after the script has run. *)
WriteFails(s, i) ==
  /\ \/ state[s] # "dead" /\ write[s][i].phase = "queued" /\ Turn(s, i)
        /\ UNCHANGED cursor
     \/ /\ write[s][i].phase = "set"
        /\ \/ isWriteAllowed(s) /\ cursor' = write[s][i].pos
           \/ UNCHANGED cursor
  /\ Finish(s, i, "failed")
  /\ UNCHANGED <<fence, session, issued>>

-----------------------------------------------------------------------------
(* The end of a session *)

Shutdown(s) ==
  /\ state[s] = "open" /\ state' = [state EXCEPT ![s] = "closing"]
  /\ UNCHANGED <<store, token, pending, timed, queue>>

(* Mutant: Promise.all, which a rejected write fails. *)
Drained_AllSucceed(s) ==
  \A i \in Write : i <= issued[s] => write[s][i].phase = "done"

(* drainPendingWrites: allSettled, until nothing is left. *)
Drained(s) == \A i \in Write : i <= issued[s] => Settled(s, i)

(* flushPendingCursors, after the first drain. *)
Flush(s) ==
  /\ state[s] = "closing" /\ Drained(s)
  /\ state' = [state EXCEPT ![s] = "flushed"]
  /\ IF pending[s] = 0 THEN UNCHANGED queue ELSE Enqueue(s, pending[s], "flush")
  /\ UNCHANGED <<store, token, pending, timed>>

Close(s) ==
  /\ state[s] = "flushed" /\ Drained(s)
  /\ state' = [state EXCEPT ![s] = "closed"]
  /\ UNCHANGED <<store, token, pending, timed, queue>>

Crash(s) ==
  /\ state[s] \in {"open", "closing", "flushed"}
  /\ state' = [state EXCEPT ![s] = "dead"]
  /\ UNCHANGED <<store, token, pending, timed, queue>>

-----------------------------------------------------------------------------
Redis(s, i) == ReadCursor(s, i) \/ FencedSet(s, i) \/ WriteFails(s, i)

Next == \E s \in Session :
  \/ AcquireFenceToken(s) \/ Shutdown(s) \/ Flush(s) \/ Close(s) \/ Crash(s)
  \/ \E p \in Pos : LiveTrade(s, p) \/ Replay(s, p)
  \/ \E i \in Write : Redis(s, i)

Spec == Init /\ [][Next]_vars

(* Calls return, with a result or an error; drains go on when they may. *)
Fairness == \A s \in Session :
  /\ WF_vars(Flush(s)) /\ WF_vars(Close(s))
  /\ \A i \in Write : WF_vars(Redis(s, i))

FairSpec == Spec /\ Fairness

-----------------------------------------------------------------------------
(* Properties *)

(* "Never regresses": whatever the paths of one session and the sessions    *)
(* before it still have in flight, the persisted cursor moves forward       *)
(* (gap-replay-cursor.ts 52-80, serial-queue.ts 1-14).                      *)
NeverRegresses == [][cursor' >= cursor]_cursor

(* The comparison of a write that the fence will let through is still about *)
(* the cursor it is going to replace.                                       *)
ComparedWithPersisted ==
  \A s \in Session, i \in Write :
    write[s][i].phase = "set" /\ isWriteAllowed(s) => write[s][i].seen = cursor

(* Fencing leaves at most one session that can write (fenced-lease.ts).     *)
OneWriter ==
  \A s, t \in Session :
    state[s] # "new" /\ state[t] # "new" /\ isWriteAllowed(s) /\ isWriteAllowed(t) => s = t

(* The tokens of running sessions are their own and none is ahead of the    *)
(* counter.                                                                 *)
TokensAreIssued ==
  /\ \A s \in Session : token[s] <= fence /\ (state[s] # "new" => token[s] # 0)
  /\ \A s, t \in Session : token[s] = token[t] /\ token[s] # 0 => s = t

(* The queue of a running session: writes that have settled, at most one    *)
(* that is past its comparison, writes that wait.                           *)
QueueInOrder ==
  \A s \in Session : \A i \in Write :
    /\ i > issued[s] => write[s][i].phase = "none"
    /\ write[s][i].phase # "none" => state[s] # "new"
    /\ write[s][i].phase \notin {"none", "queued"} =>
         \A j \in Write : j < i => Settled(s, j)

(* Only a newer cursor gets past the comparison.                            *)
ComparedNewer ==
  \A s \in Session, i \in Write :
    write[s][i].phase = "set" => write[s][i].pos > write[s][i].seen

(* Once the pending cursor has been flushed its write is the only one that   *)
(* may still be open; when it is done and the fence let it through, the      *)
(* persisted cursor has reached the pending one.                             *)
FlushIsLast ==
  \A s \in Session : state[s] \in {"flushed", "closed"} =>
    /\ \A i \in Write : i <= issued[s] =>
         \/ Settled(s, i)
         \/ i = issued[s] /\ write[s][i].path = "flush" /\ write[s][i].pos = pending[s]
    /\ issued[s] > 0 /\ write[s][issued[s]].phase = "done" /\ isWriteAllowed(s) =>
         cursor >= pending[s]

(* The part of the invariant that is about the fence and the queues.        *)
FenceInv == /\ TypeOK /\ TokensAreIssued /\ QueueInOrder
            /\ ComparedNewer /\ ComparedWithPersisted

(* The inductive invariant behind NeverRegresses and CleanEndPersists.      *)
IInv == FenceInv /\ FlushIsLast

(* "A CLEAN session boundary always persists the latest state"              *)
(* (alpaca-session.ts, pendingCursorBySymbol): nothing moves the pending    *)
(* cursor past the snapshot the flush has taken.                            *)
CleanEndPersists ==
  \A s \in Session :
    /\ state[s] = "closed" /\ isWriteAllowed(s) /\ issued[s] > 0
    /\ write[s][issued[s]].phase = "done"
    => cursor >= pending[s]

(* A rejected write "must not break the chain" (serial-queue.ts): a session *)
(* that shuts down gets through both drains.                                *)
ShutdownEnds ==
  \A s \in Session : state[s] = "closing" ~> state[s] \in {"closed", "dead"}
================================================================================
