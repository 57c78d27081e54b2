-------------------------- MODULE FencedCursor_proofs --------------------------
(***************************************************************************)
(* Proofs about FencedCursor for every set of sessions, every number of    *)
(* trades and every number of writes: its inductive invariant, that one    *)
(* session at most can write, and that the cursor never regresses.         *)
(***************************************************************************)
EXTENDS FencedCursor, TLAPS

-----------------------------------------------------------------------------
(* What the helpers do to the queue *)

LEMMA EnqueueAppends ==
  ASSUME FenceInv, NEW s \in Session, NEW p \in 0..MaxPos, NEW path \in Path,
         Enqueue(s, p, path)
  PROVE  LET i == issued[s] + 1
         IN /\ i \in Write /\ write[s][i].phase = "none"
            /\ issued' \in [Session -> 0..MaxWrites] /\ issued'[s] = i
            /\ \A t \in Session \ {s} : issued'[t] = issued[t]
            /\ write' \in [Session -> [Write -> [pos : 0..MaxPos, path : Path,
                                                 phase : Phase, seen : 0..MaxPos]]]
            /\ write'[s][i].phase = "queued"
            /\ \A t \in Session, j \in Write : <<t, j>> # <<s, i>> => write'[t][j] = write[t][j]
  <1> USE FencedCursorAssumption
  <1> DEFINE i == issued[s] + 1
  <1>1. issued[s] \in 0..MaxWrites /\ issued[s] < MaxWrites
    BY DEF FenceInv, TypeOK, Enqueue
  <1>2. i \in Write /\ i > issued[s]
    BY <1>1 DEF Write
  <1>3. write[s][i].phase = "none"
    BY <1>2 DEF FenceInv, QueueInOrder
  <1>4. [pos |-> p, path |-> path, phase |-> "queued", seen |-> 0]
          \in [pos : 0..MaxPos, path : Path, phase : Phase, seen : 0..MaxPos]
    BY DEF Phase
  <1>5. /\ write' \in [Session -> [Write -> [pos : 0..MaxPos, path : Path,
                                             phase : Phase, seen : 0..MaxPos]]]
        /\ write'[s][i].phase = "queued"
        /\ \A t \in Session, j \in Write : <<t, j>> # <<s, i>> => write'[t][j] = write[t][j]
    BY <1>2, <1>4 DEF FenceInv, TypeOK, Enqueue
  <1>6. /\ issued' \in [Session -> 0..MaxWrites] /\ issued'[s] = i
        /\ \A t \in Session \ {s} : issued'[t] = issued[t]
    BY <1>1 DEF FenceInv, TypeOK, Enqueue
  <1> QED
    BY <1>2, <1>3, <1>5, <1>6

LEMMA FinishSettles ==
  ASSUME FenceInv, NEW s \in Session, NEW i \in Write, NEW phase \in {"done", "failed"},
         Finish(s, i, phase)
  PROVE  /\ write' \in [Session -> [Write -> [pos : 0..MaxPos, path : Path,
                                              phase : Phase, seen : 0..MaxPos]]]
         /\ write'[s][i].phase = phase
         /\ \A t \in Session, j \in Write : <<t, j>> # <<s, i>> => write'[t][j] = write[t][j]
  <1>1. [NoWrite EXCEPT !.phase = phase]
          \in [pos : 0..MaxPos, path : Path, phase : Phase, seen : 0..MaxPos]
    BY FencedCursorAssumption DEF NoWrite, Path, Phase
  <1>2. [NoWrite EXCEPT !.phase = phase].phase = phase
    BY DEF NoWrite
  <1> QED
    BY <1>1, <1>2 DEF FenceInv, TypeOK, Finish

LEMMA SyncTypes ==
  ASSUME FenceInv, NEW s \in Session, NEW i \in Write, Sync(s, i) \/ UNCHANGED <<pending, timed>>
  PROVE  pending' \in [Session -> 0..MaxPos] /\ timed' \subseteq Session
  <1>1. write[s][i].pos \in 0..MaxPos
    BY DEF FenceInv, TypeOK
  <1> QED
    BY <1>1 DEF FenceInv, TypeOK, Sync

-----------------------------------------------------------------------------
(* One lemma for the steps that queue a write, one for those that settle    *)
(* one: the store and the tokens may not disturb the rest.                  *)

LEMMA QueueingKeepsOrder ==
  ASSUME FenceInv, NEW s \in Session, NEW p \in 0..MaxPos, NEW path \in Path,
         state[s] # "new", Enqueue(s, p, path), UNCHANGED <<store, token>>,
         state' \in [Session -> {"new", "open", "closing", "flushed", "closed", "dead"}],
         state'[s] # "new", \A t \in Session \ {s} : state'[t] = state[t]
  PROVE  TokensAreIssued' /\ QueueInOrder' /\ ComparedNewer' /\ ComparedWithPersisted'
  <1> USE FencedCursorAssumption
  <1> DEFINE i == issued[s] + 1
  <1>1. /\ i \in Write /\ write[s][i].phase = "none" /\ issued'[s] = i
        /\ \A t \in Session \ {s} : issued'[t] = issued[t]
        /\ write'[s][i].phase = "queued"
        /\ \A t \in Session, j \in Write : <<t, j>> # <<s, i>> => write'[t][j] = write[t][j]
    BY EnqueueAppends
  <1>2. issued[s] \in 0..MaxWrites /\ issued \in [Session -> 0..MaxWrites]
    BY DEF FenceInv, TypeOK
  <1>3. TokensAreIssued'
    BY DEF FenceInv, TypeOK, TokensAreIssued, store
  <1>4. QueueInOrder'
    <2> SUFFICES ASSUME NEW t \in Session, NEW k \in Write
                 PROVE  /\ k > issued'[t] => write'[t][k].phase = "none"
                        /\ write'[t][k].phase # "none" => state'[t] # "new"
                        /\ write'[t][k].phase \notin {"none", "queued"} =>
                             \A j \in Write : j < k => Settled(t, j)'
      BY DEF QueueInOrder
    <2>1. CASE <<t, k>> = <<s, i>>
      BY <2>1, <1>1, <1>2
    <2>2. CASE <<t, k>> # <<s, i>>
      <3>1. write'[t][k] = write[t][k]
        BY <2>2, <1>1
      <3>2. k > issued'[t] => k > issued[t]
        BY <1>1, <1>2 DEF Write
      <3>3. \A j \in Write : Settled(t, j) => Settled(t, j)'
        BY <1>1 DEF Settled
      <3> QED
        BY <3>1, <3>2, <3>3 DEF FenceInv, QueueInOrder
    <2> QED
      BY <2>1, <2>2
  <1>5. ComparedNewer' /\ ComparedWithPersisted'
    BY <1>1 DEF FenceInv, ComparedNewer, ComparedWithPersisted, isWriteAllowed, store
  <1> QED
    BY <1>3, <1>4, <1>5

LEMMA SettlingKeepsOrder ==
  ASSUME FenceInv, NEW s \in Session, NEW i \in Write, NEW phase \in {"done", "failed"},
         write[s][i].phase \in {"queued", "set"}, Turn(s, i),
         Finish(s, i, phase), UNCHANGED <<state, issued>>
  PROVE  QueueInOrder' /\ ComparedNewer'
  <1>1. /\ write'[s][i].phase = phase
        /\ \A t \in Session, j \in Write : <<t, j>> # <<s, i>> => write'[t][j] = write[t][j]
    BY FinishSettles
  <1>2. \A t \in Session, j \in Write : Settled(t, j) => Settled(t, j)'
    BY <1>1 DEF Settled
  <1>3. QueueInOrder'
    <2> SUFFICES ASSUME NEW t \in Session, NEW k \in Write
                 PROVE  /\ k > issued'[t] => write'[t][k].phase = "none"
                        /\ write'[t][k].phase # "none" => state'[t] # "new"
                        /\ write'[t][k].phase \notin {"none", "queued"} =>
                             \A j \in Write : j < k => Settled(t, j)'
      BY DEF QueueInOrder
    <2>1. CASE <<t, k>> = <<s, i>>
      BY <2>1, <1>1, <1>2 DEF Turn, FenceInv, QueueInOrder
    <2>2. CASE <<t, k>> # <<s, i>>
      BY <2>2, <1>1, <1>2 DEF FenceInv, QueueInOrder
    <2> QED
      BY <2>1, <2>2
  <1>4. ComparedNewer'
    BY <1>1 DEF FenceInv, ComparedNewer
  <1> QED
    BY <1>3, <1>4

(* A write that is past its comparison is at the head of its queue, and no  *)
(* other write may pass the fence.                                          *)
LEMMA OneCompared ==
  ASSUME FenceInv, NEW s \in Session, NEW i \in Write, write[s][i].phase = "set"
  PROVE  /\ Turn(s, i) /\ state[s] # "new"
         /\ isWriteAllowed(s) =>
              \A t \in Session, j \in Write :
                write[t][j].phase = "set" /\ isWriteAllowed(t) => t = s /\ j = i
  <1>1. Turn(s, i) /\ state[s] # "new"
    BY DEF FenceInv, QueueInOrder, Turn
  <1>2. ASSUME isWriteAllowed(s), NEW t \in Session, NEW j \in Write,
               write[t][j].phase = "set", isWriteAllowed(t)
        PROVE  t = s /\ j = i
    <2>1. t = s
      BY <1>1, <1>2 DEF FenceInv, TokensAreIssued, isWriteAllowed
    <2>2. ~ (j < i) /\ ~ (i < j)
      BY <1>2, <2>1 DEF FenceInv, QueueInOrder, Settled
    <2> QED
      BY <2>1, <2>2 DEF Write
  <1> QED
    BY <1>1, <1>2

-----------------------------------------------------------------------------
(* The steps *)

LEMMA InitHolds == Init => FenceInv
  BY FencedCursorAssumption
  DEF Init, FenceInv, TypeOK, TokensAreIssued, QueueInOrder, ComparedNewer,
      ComparedWithPersisted, NoWrite, Path, Phase, isWriteAllowed

LEMMA SessionStep ==
  ASSUME FenceInv, NEW s \in Session,
         AcquireFenceToken(s) \/ Shutdown(s) \/ Close(s) \/ Crash(s)
  PROVE  FenceInv'
  <1> USE FencedCursorAssumption
  <1>1. CASE AcquireFenceToken(s)
    <2>1. fence' = fence + 1 /\ fence \in Nat /\ token' = [token EXCEPT ![s] = fence + 1]
      BY <1>1 DEF AcquireFenceToken, FenceInv, TypeOK
    <2>2. TypeOK'
      BY <1>1, <2>1 DEF AcquireFenceToken, FenceInv, TypeOK, queue
    <2>3. TokensAreIssued'
      BY <1>1, <2>1 DEF AcquireFenceToken, FenceInv, TypeOK, TokensAreIssued
    <2>4. QueueInOrder' /\ ComparedNewer'
      BY <1>1 DEF AcquireFenceToken, FenceInv, TypeOK, QueueInOrder, ComparedNewer, queue, Settled
    <2>5. ComparedWithPersisted'
      <3> SUFFICES ASSUME NEW t \in Session, NEW i \in Write,
                          write'[t][i].phase = "set", isWriteAllowed(t)'
                   PROVE  FALSE
        BY DEF ComparedWithPersisted
      <3>1. t # s
        BY <1>1 DEF AcquireFenceToken, FenceInv, QueueInOrder, queue
      <3>2. token[t] <= fence /\ token[t] \in Nat
        BY DEF FenceInv, TypeOK, TokensAreIssued
      <3> QED
        BY <2>1, <3>1, <3>2 DEF isWriteAllowed, FenceInv, TypeOK
    <2> QED
      BY <2>2, <2>3, <2>4, <2>5 DEF FenceInv
  <1>2. CASE Shutdown(s) \/ Close(s) \/ Crash(s)
    <2>1. TypeOK'
      BY <1>2 DEF Shutdown, Close, Crash, FenceInv, TypeOK, store, queue
    <2>2. TokensAreIssued' /\ QueueInOrder'
      BY <1>2 DEF Shutdown, Close, Crash, FenceInv, TypeOK, TokensAreIssued, QueueInOrder, Settled, store, queue
    <2>3. ComparedNewer' /\ ComparedWithPersisted'
      BY <1>2 DEF Shutdown, Close, Crash, FenceInv, ComparedNewer, ComparedWithPersisted, isWriteAllowed, store, queue
    <2> QED
      BY <2>1, <2>2, <2>3 DEF FenceInv
  <1> QED
    BY <1>1, <1>2

LEMMA QueueStep ==
  ASSUME FenceInv, NEW s \in Session,
         Flush(s) \/ \E p \in Pos : LiveTrade(s, p) \/ Replay(s, p)
  PROVE  FenceInv'
  <1> USE FencedCursorAssumption
  <1>1. CASE Flush(s)
    <2>1. CASE pending[s] = 0
      BY <1>1, <2>1 DEF Flush, FenceInv, TypeOK, TokensAreIssued, QueueInOrder, Settled,
                       ComparedNewer, ComparedWithPersisted, isWriteAllowed, store, queue
    <2>2. CASE pending[s] # 0
      <3>1. Enqueue(s, pending[s], "flush") /\ pending[s] \in 0..MaxPos /\ "flush" \in Path
        BY <1>1, <2>2 DEF Flush, FenceInv, TypeOK, Path
      <3>2. TypeOK'
        BY <1>1, <3>1, EnqueueAppends DEF Flush, FenceInv, TypeOK, store
      <3>3. TokensAreIssued' /\ QueueInOrder' /\ ComparedNewer' /\ ComparedWithPersisted'
        BY <1>1, <3>1, QueueingKeepsOrder DEF Flush, FenceInv, TypeOK
      <3> QED
        BY <3>2, <3>3 DEF FenceInv
    <2> QED
      BY <2>1, <2>2
  <1>2. ASSUME NEW p \in Pos, LiveTrade(s, p) PROVE FenceInv'
    <2>1. p \in 0..MaxPos /\ "live" \in Path
      BY DEF Pos, Path
    <2>2. CASE Enqueue(s, p, "live") /\ timed' = timed \cup {s}
      <3>1. TypeOK'
        BY <1>2, <2>1, <2>2, EnqueueAppends DEF LiveTrade, FenceInv, TypeOK, store
      <3>2. TokensAreIssued' /\ QueueInOrder' /\ ComparedNewer' /\ ComparedWithPersisted'
        BY <1>2, <2>1, <2>2, QueueingKeepsOrder DEF LiveTrade, FenceInv, TypeOK
      <3> QED
        BY <3>1, <3>2 DEF FenceInv
    <2>3. CASE UNCHANGED <<timed, queue>>
      BY <1>2, <2>1, <2>3 DEF LiveTrade, FenceInv, TypeOK, TokensAreIssued, QueueInOrder, Settled,
                       ComparedNewer, ComparedWithPersisted, isWriteAllowed, store, queue
    <2> QED
      BY <1>2, <2>2, <2>3 DEF LiveTrade
  <1>3. ASSUME NEW p \in Pos, Replay(s, p) PROVE FenceInv'
    <2>1. p \in 0..MaxPos /\ "replay" \in Path
      BY DEF Pos, Path
    <2>2. TypeOK'
      BY <1>3, <2>1, EnqueueAppends DEF Replay, FenceInv, TypeOK, store, session
    <2>3. TokensAreIssued' /\ QueueInOrder' /\ ComparedNewer' /\ ComparedWithPersisted'
      BY <1>3, <2>1, QueueingKeepsOrder DEF Replay, FenceInv, TypeOK, session
    <2> QED
      BY <2>2, <2>3 DEF FenceInv
  <1> QED
    BY <1>1, <1>2, <1>3

LEMMA ReadCursorStep ==
  ASSUME FenceInv, NEW s \in Session, NEW i \in Write, ReadCursor(s, i)
  PROVE  FenceInv'
  <1>1. /\ cursor \in 0..MaxPos
        /\ write[s][i] \in [pos : 0..MaxPos, path : Path, phase : Phase, seen : 0..MaxPos]
    BY DEF FenceInv, TypeOK
  <1>2. state[s] # "new" /\ i <= issued[s]
    <2>1. issued[s] \in 0..MaxWrites /\ i \in Nat
      BY DEF FenceInv, TypeOK, Write
    <2>2. write[s][i].phase = "queued"
      BY DEF ReadCursor
    <2>3. state[s] # "new" /\ ~ (i > issued[s])
      BY <2>2 DEF FenceInv, QueueInOrder
    <2> QED
      BY <2>1, <2>3, FencedCursorAssumption
  <1>3. CASE WriteIsNewer(write[s][i].pos, cursor)
    <2>1. write' = [write EXCEPT ![s][i].phase = "set", ![s][i].seen = cursor]
      BY <1>3 DEF ReadCursor
    <2>2. TypeOK'
      BY <1>1, <1>3, <2>1 DEF ReadCursor, FenceInv, TypeOK, store, Phase
    <2>3. /\ write'[s][i].phase = "set" /\ write'[s][i].seen = cursor
          /\ write'[s][i].pos = write[s][i].pos
          /\ \A t \in Session, j \in Write : <<t, j>> # <<s, i>> => write'[t][j] = write[t][j]
      BY <1>1, <2>1 DEF FenceInv, TypeOK
    <2>4. \A t \in Session, j \in Write : Settled(t, j) => Settled(t, j)'
      BY <2>3, <1>1 DEF Settled, ReadCursor
    <2>5. QueueInOrder'
      <3> SUFFICES ASSUME NEW t \in Session, NEW k \in Write
                   PROVE  /\ k > issued'[t] => write'[t][k].phase = "none"
                          /\ write'[t][k].phase # "none" => state'[t] # "new"
                          /\ write'[t][k].phase \notin {"none", "queued"} =>
                               \A j \in Write : j < k => Settled(t, j)'
        BY DEF QueueInOrder
      <3>1. CASE <<t, k>> = <<s, i>>
        BY <3>1, <1>2, <2>3, <2>4 DEF ReadCursor, Turn, FenceInv, TypeOK, Write
      <3>2. CASE <<t, k>> # <<s, i>>
        BY <3>2, <2>3, <2>4 DEF ReadCursor, FenceInv, QueueInOrder
      <3> QED
        BY <3>1, <3>2
    <2>6. TokensAreIssued' /\ ComparedNewer' /\ ComparedWithPersisted'
      BY <1>3, <2>3 DEF ReadCursor, FenceInv, TokensAreIssued, ComparedNewer, ComparedWithPersisted,
                       isWriteAllowed, WriteIsNewer, store
    <2> QED
      BY <2>2, <2>5, <2>6 DEF FenceInv
  <1>4. CASE ~ WriteIsNewer(write[s][i].pos, cursor)
    <2>1. Finish(s, i, "done") /\ (Sync(s, i) \/ UNCHANGED <<pending, timed>>)
      BY <1>4 DEF ReadCursor
    <2>2. TypeOK'
      BY <2>1, FinishSettles, SyncTypes DEF ReadCursor, FenceInv, TypeOK, store
    <2>3. QueueInOrder' /\ ComparedNewer'
      BY <2>1, SettlingKeepsOrder DEF ReadCursor
    <2>4. TokensAreIssued'
      BY DEF ReadCursor, FenceInv, TokensAreIssued, store
    <2>5. /\ write'[s][i].phase = "done"
          /\ \A t \in Session, j \in Write : <<t, j>> # <<s, i>> => write'[t][j] = write[t][j]
      BY <2>1, FinishSettles
    <2>6. ComparedWithPersisted'
      BY <2>5 DEF ReadCursor, FenceInv, ComparedWithPersisted, isWriteAllowed, store
    <2> QED
      BY <2>2, <2>3, <2>4, <2>6 DEF FenceInv
  <1> QED
    BY <1>3, <1>4

(* The two ends of a write: only the compared one moves the cursor. *)
LEMMA SettlingStep ==
  ASSUME FenceInv, NEW s \in Session, NEW i \in Write, FencedSet(s, i) \/ WriteFails(s, i)
  PROVE  FenceInv' /\ cursor' >= cursor
  <1>1. PICK phase \in {"done", "failed"} : Finish(s, i, phase)
    BY DEF FencedSet, WriteFails
  <1>2. /\ write[s][i].phase \in {"queued", "set"} /\ Turn(s, i)
        /\ UNCHANGED <<state, issued, token, fence>>
        /\ Sync(s, i) \/ UNCHANGED <<pending, timed>>
        /\ \/ UNCHANGED cursor
           \/ /\ write[s][i].phase = "set" /\ isWriteAllowed(s)
              /\ cursor' = write[s][i].pos
    BY OneCompared DEF FencedSet, WriteFails, session
  <1>3. /\ write'[s][i].phase = phase
        /\ \A t \in Session, j \in Write : <<t, j>> # <<s, i>> => write'[t][j] = write[t][j]
    BY <1>1, FinishSettles
  <1>4. cursor' \in 0..MaxPos /\ cursor' >= cursor
    BY <1>2 DEF FenceInv, TypeOK, ComparedNewer, ComparedWithPersisted
  <1>5. TypeOK'
    BY <1>1, <1>2, <1>4, FinishSettles, SyncTypes DEF FenceInv, TypeOK
  <1>6. QueueInOrder' /\ ComparedNewer'
    BY <1>1, <1>2, SettlingKeepsOrder
  <1>7. TokensAreIssued'
    BY <1>2 DEF FenceInv, TokensAreIssued
  <1>8. ComparedWithPersisted'
    <2> SUFFICES ASSUME NEW t \in Session, NEW j \in Write,
                        write'[t][j].phase = "set", isWriteAllowed(t)'
                 PROVE  write'[t][j].seen = cursor'
      BY DEF ComparedWithPersisted
    <2>1. <<t, j>> # <<s, i>> /\ write'[t][j] = write[t][j] /\ isWriteAllowed(t)
      BY <1>2, <1>3 DEF isWriteAllowed
    <2>2. UNCHANGED cursor
      BY <1>2, <2>1, OneCompared
    <2> QED
      BY <2>1, <2>2 DEF FenceInv, ComparedWithPersisted
  <1> QED
    BY <1>4, <1>5, <1>6, <1>7, <1>8 DEF FenceInv

LEMMA NextKeeps ==
  ASSUME FenceInv, [Next]_vars
  PROVE  FenceInv' /\ cursor' >= cursor
  <1>1. CASE UNCHANGED vars
    BY <1>1 DEF vars, store, session, queue, FenceInv, TypeOK, TokensAreIssued, QueueInOrder,
               Settled, ComparedNewer, ComparedWithPersisted, isWriteAllowed
  <1>2. CASE Next
    <2>1. PICK s \in Session :
             \/ AcquireFenceToken(s) \/ Shutdown(s) \/ Flush(s) \/ Close(s) \/ Crash(s)
             \/ \E p \in Pos : LiveTrade(s, p) \/ Replay(s, p)
             \/ \E i \in Write : Redis(s, i)
      BY <1>2 DEF Next
    <2>2. CASE \E i \in Write : FencedSet(s, i) \/ WriteFails(s, i)
      BY <2>2, SettlingStep
    <2>3. CASE ~ \E i \in Write : FencedSet(s, i) \/ WriteFails(s, i)
      <3>1. FenceInv'
        BY <2>1, <2>3, SessionStep, QueueStep, ReadCursorStep DEF Redis
      <3>2. UNCHANGED cursor
        BY <2>1, <2>3 DEF Redis, AcquireFenceToken, Shutdown, Flush, Close, Crash,
                         LiveTrade, Replay, ReadCursor, store
      <3> QED
        BY <3>1, <3>2 DEF FenceInv, TypeOK
    <2> QED
      BY <2>2, <2>3
  <1> QED
    BY <1>1, <1>2

-----------------------------------------------------------------------------
(* The flush *)

(* A write that is still open after the flush is the flush's own.           *)
LEMMA OpenIsFlush ==
  ASSUME IInv, NEW s \in Session, NEW i \in Write, state[s] \in {"flushed", "closed"},
         write[s][i].phase \in {"queued", "set"}
  PROVE  /\ i = issued[s] /\ write[s][i].path = "flush" /\ write[s][i].pos = pending[s]
  <1>1. i <= issued[s]
    <2>1. issued[s] \in Nat /\ i \in Nat
      BY FencedCursorAssumption DEF IInv, FenceInv, TypeOK, Write
    <2>2. i > issued[s] => write[s][i].phase = "none"
      BY DEF IInv, FenceInv, QueueInOrder
    <2> QED
      BY <2>1, <2>2
  <1> QED
    BY <1>1 DEF IInv, FlushIsLast, Settled

(* What is true of one session after the flush stays true while the session *)
(* and its queue stand still: the fence and the cursor only grow.           *)
LEMMA OthersKeepFlush ==
  ASSUME IInv, FenceInv', cursor' >= cursor, fence' \in {fence, fence + 1},
         NEW t \in Session, state[t] \in {"flushed", "closed"},
         UNCHANGED <<token[t], pending[t], issued[t], write[t]>>
  PROVE  /\ \A i \in Write : i <= issued'[t] =>
              \/ Settled(t, i)'
              \/ i = issued'[t] /\ write'[t][i].path = "flush" /\ write'[t][i].pos = pending'[t]
         /\ issued'[t] > 0 /\ write'[t][issued'[t]].phase = "done" /\ isWriteAllowed(t)' =>
              cursor' >= pending'[t]
  <1>1. isWriteAllowed(t)' => isWriteAllowed(t)
    <2>1. token[t] \in Nat /\ fence \in Nat /\ token[t] <= fence
      BY DEF IInv, FenceInv, TypeOK, TokensAreIssued
    <2>2. token'[t] = token[t]
      OBVIOUS
    <2> QED
      BY <2>1, <2>2 DEF isWriteAllowed
  <1>2. cursor' \in Int /\ cursor \in Int /\ pending[t] \in Int
    BY DEF IInv, FenceInv, TypeOK
  <1>3. issued[t] > 0 /\ write[t][issued[t]].phase = "done" /\ isWriteAllowed(t) =>
          cursor >= pending[t]
    BY DEF IInv, FlushIsLast
  <1>4. \A i \in Write : i <= issued[t] =>
          \/ Settled(t, i)
          \/ i = issued[t] /\ write[t][i].path = "flush" /\ write[t][i].pos = pending[t]
    BY DEF IInv, FlushIsLast
  <1> QED
    BY <1>1, <1>2, <1>3, <1>4 DEF Settled

LEMMA FlushKept ==
  ASSUME IInv, [Next]_vars
  PROVE  FlushIsLast'
  <1>0. FenceInv /\ FenceInv' /\ cursor' >= cursor
    BY NextKeeps DEF IInv
  <1>1. CASE UNCHANGED vars
    BY <1>1 DEF vars, store, session, queue, IInv, FlushIsLast, Settled, isWriteAllowed
  <1>2. CASE Next
    <2>1. PICK s \in Session :
             \/ AcquireFenceToken(s) \/ Shutdown(s) \/ Flush(s) \/ Close(s) \/ Crash(s)
             \/ \E p \in Pos : LiveTrade(s, p) \/ Replay(s, p)
             \/ \E i \in Write : Redis(s, i)
      BY <1>2 DEF Next
    <2>2. fence' \in {fence, fence + 1}
      BY <2>1 DEF Redis, AcquireFenceToken, Shutdown, Flush, Close, Crash, LiveTrade, Replay,
                  ReadCursor, FencedSet, WriteFails, store
    <2>3. \A t \in Session \ {s} :
            UNCHANGED <<state[t], token[t], pending[t], issued[t], write[t]>>
      <3>1. CASE AcquireFenceToken(s) \/ Shutdown(s) \/ Close(s) \/ Crash(s)
        BY <3>1 DEF AcquireFenceToken, Shutdown, Close, Crash, store, queue, IInv, FenceInv, TypeOK
      <3>2. CASE Flush(s)
        BY <3>2 DEF Flush, Enqueue, store, queue, IInv, FenceInv, TypeOK
      <3>3. ASSUME NEW p \in Pos, LiveTrade(s, p) \/ Replay(s, p)
            PROVE  \A t \in Session \ {s} :
                     UNCHANGED <<state[t], token[t], pending[t], issued[t], write[t]>>
        BY <3>3 DEF LiveTrade, Replay, Enqueue, store, session, queue, IInv, FenceInv, TypeOK
      <3>4. ASSUME NEW i \in Write, Redis(s, i)
            PROVE  \A t \in Session \ {s} :
                     UNCHANGED <<state[t], token[t], pending[t], issued[t], write[t]>>
        BY <3>4 DEF Redis, ReadCursor, FencedSet, WriteFails, Finish, Sync, store, session, queue,
                    IInv, FenceInv, TypeOK
      <3> QED
        BY <2>1, <3>1, <3>2, <3>3, <3>4
    <2> SUFFICES ASSUME NEW t \in Session, state'[t] \in {"flushed", "closed"}
                 PROVE  /\ \A i \in Write : i <= issued'[t] =>
                             \/ Settled(t, i)'
                             \/ /\ i = issued'[t] /\ write'[t][i].path = "flush"
                                /\ write'[t][i].pos = pending'[t]
                        /\ issued'[t] > 0 /\ write'[t][issued'[t]].phase = "done"
                             /\ isWriteAllowed(t)' => cursor' >= pending'[t]
      BY DEF FlushIsLast
    <2>4. CASE t # s
      BY <2>4, <2>2, <2>3, <1>0, OthersKeepFlush
    <2>5. CASE t = s
      <3>1. CASE Close(s)
        <4>1. state[s] \in {"flushed", "closed"} /\ UNCHANGED <<token[s], pending[s], issued[s], write[s]>>
          BY <3>1 DEF Close, queue
        <4> QED
          BY <4>1, <2>2, <2>5, <1>0, OthersKeepFlush
      <3>2. CASE Flush(s)
        <4>1. CASE pending[s] = 0
          BY <4>1, <3>2, <2>5, <1>0 DEF Flush, Drained, Settled, FenceInv, TypeOK, queue
        <4>2. CASE pending[s] # 0
          <5>1. Enqueue(s, pending[s], "flush") /\ pending[s] \in 0..MaxPos /\ "flush" \in Path
            BY <3>2, <4>2, <1>0 DEF Flush, FenceInv, TypeOK, Path
          <5>2. LET k == issued[s] + 1
                IN /\ k \in Write /\ issued'[s] = k /\ write'[s][k].phase = "queued"
                   /\ \A j \in Write : j # k => write'[s][j] = write[s][j]
            BY <5>1, <1>0, EnqueueAppends
          <5>3. write'[s][issued[s] + 1].path = "flush" /\ write'[s][issued[s] + 1].pos = pending[s]
            BY <5>1, <5>2, <1>0 DEF Enqueue, FenceInv, TypeOK
          <5>4. \A i \in Write : i <= issued[s] + 1 /\ i # issued[s] + 1 => i <= issued[s]
            BY <1>0 DEF FenceInv, TypeOK, Write
          <5>5. UNCHANGED pending
            BY <3>2 DEF Flush
          <5> QED
            BY <5>2, <5>3, <5>4, <5>5, <3>2, <2>5 DEF Flush, Drained, Settled
        <4> QED
          BY <4>1, <4>2
      <3>3. ASSUME NEW i \in Write, Redis(s, i)
            PROVE  /\ \A j \in Write : j <= issued'[t] =>
                        \/ Settled(t, j)'
                        \/ /\ j = issued'[t] /\ write'[t][j].path = "flush"
                           /\ write'[t][j].pos = pending'[t]
                   /\ issued'[t] > 0 /\ write'[t][issued'[t]].phase = "done"
                        /\ isWriteAllowed(t)' => cursor' >= pending'[t]
        <4>1. state[s] \in {"flushed", "closed"} /\ write[s][i].phase \in {"queued", "set"}
              /\ UNCHANGED <<state, token, fence, issued>>
          BY <3>3, <2>5 DEF Redis, ReadCursor, FencedSet, WriteFails, store, session
        <4>2. i = issued[s] /\ write[s][i].path = "flush" /\ write[s][i].pos = pending[s]
          BY <4>1, OpenIsFlush
        <4>3. UNCHANGED pending
          BY <3>3, <4>2 DEF Redis, ReadCursor, FencedSet, WriteFails, Sync, session
        <4>4. \A j \in Write : j # i => write'[s][j] = write[s][j]
          BY <3>3, <1>0 DEF Redis, ReadCursor, FencedSet, WriteFails, Finish, FenceInv, TypeOK
        <4>5. CASE ReadCursor(s, i) /\ WriteIsNewer(write[s][i].pos, cursor)
          <5>1. write'[s][i].phase = "set" /\ write'[s][i].path = "flush" /\ write'[s][i].pos = pending[s]
            BY <4>5, <4>2, <1>0 DEF ReadCursor, FenceInv, TypeOK
          <5> QED
            BY <5>1, <4>1, <4>2, <4>3, <4>4, <2>5 DEF IInv, FlushIsLast, Settled
        <4>6. CASE ~ (ReadCursor(s, i) /\ WriteIsNewer(write[s][i].pos, cursor))
          <5>1. PICK phase \in {"done", "failed"} : Finish(s, i, phase)
            BY <3>3, <4>6 DEF Redis, ReadCursor, FencedSet, WriteFails
          <5>2. write'[s][i].phase = phase
            BY <5>1, <1>0, FinishSettles
          <5>3. \A j \in Write : j <= issued[s] => Settled(s, j)'
            BY <5>2, <4>1, <4>2, <4>4 DEF IInv, FlushIsLast, Settled
          <5>4. write'[s][i].phase = "done" /\ isWriteAllowed(s) => cursor' >= pending[s]
            <6>1. cursor \in 0..MaxPos /\ pending[s] \in 0..MaxPos
              BY <1>0 DEF FenceInv, TypeOK
            <6>2. CASE ReadCursor(s, i)
              BY <6>1, <6>2, <4>2, <4>6 DEF ReadCursor, WriteIsNewer, store
            <6>3. CASE FencedSet(s, i)
              BY <6>1, <6>3, <4>2 DEF FencedSet
            <6>4. CASE WriteFails(s, i)
              <7>1. write'[s][i].phase = "failed"
                BY <6>4, <1>0, FinishSettles DEF WriteFails
              <7> QED
                BY <7>1
            <6> QED
              BY <3>3, <6>2, <6>3, <6>4 DEF Redis
          <5> QED
            BY <5>3, <5>4, <4>1, <4>2, <4>3, <2>5 DEF isWriteAllowed
        <4> QED
          BY <4>5, <4>6
      <3>4. CASE \/ AcquireFenceToken(s) \/ Shutdown(s) \/ Crash(s)
                 \/ \E p \in Pos : LiveTrade(s, p) \/ Replay(s, p)
        <4>1. state'[s] \notin {"flushed", "closed"}
          BY <3>4, <1>0 DEF AcquireFenceToken, Shutdown, Crash, LiveTrade, Replay, session, FenceInv, TypeOK
        <4> QED
          BY <4>1, <2>5
      <3> QED
        BY <2>1, <3>1, <3>2, <3>3, <3>4
    <2> QED
      BY <2>4, <2>5
  <1> QED
    BY <1>1, <1>2

-----------------------------------------------------------------------------
(* The theorems *)

(* The inductive invariant: tokens are the sessions' own, queues are in     *)
(* order, and a comparison that the fence will let through is still true.   *)
THEOREM Invariance == Spec => []IInv
  <1>1. Init => IInv
    BY InitHolds DEF Init, IInv, FlushIsLast
  <1>2. IInv /\ [Next]_vars => IInv'
    BY NextKeeps, FlushKept DEF IInv
  <1> QED
    BY <1>1, <1>2, PTL DEF Spec

(* Every variable keeps its type (the state of runFencedAlpacaSession and   *)
(* the keys it writes).                                                     *)
THEOREM TypeCorrect == Spec => []TypeOK
  <1>1. IInv => TypeOK
    BY DEF IInv, FenceInv
  <1> QED
    BY Invariance, <1>1, PTL

(* Two sessions that have started never both hold the current token         *)
(* (acquireFenceToken, isWriteAllowed).                                     *)
THEOREM FencingIsExclusive == Spec => []OneWriter
  <1>1. IInv => OneWriter
    BY DEF IInv, FenceInv, TokensAreIssued, OneWriter, isWriteAllowed
  <1> QED
    BY Invariance, <1>1, PTL

(* The guard of writeCursorFenced is not stale when the script runs, thanks *)
(* to the fence between sessions and the serial queue within one.           *)
THEOREM GuardIsFresh == Spec => []ComparedWithPersisted
  <1>1. IInv => ComparedWithPersisted
    BY DEF IInv, FenceInv
  <1> QED
    BY Invariance, <1>1, PTL

(* The persisted cursor never moves back.                                   *)
THEOREM CursorNeverRegresses == Spec => NeverRegresses
  <1>1. IInv /\ [Next]_vars => [cursor' >= cursor]_cursor
    BY NextKeeps DEF IInv
  <1> QED
    BY Invariance, <1>1, PTL DEF Spec, NeverRegresses

(* "A CLEAN session boundary always persists the latest state": when a      *)
(* session closes that may still write, and its last write went through,    *)
(* the persisted cursor is not behind the trades it has seen                *)
(* (alpaca-session.ts, flushPendingCursors between the two drains).         *)
THEOREM CleanEnd == Spec => []CleanEndPersists
  <1>1. IInv => CleanEndPersists
    BY DEF IInv, FlushIsLast, CleanEndPersists
  <1> QED
    BY Invariance, <1>1, PTL
================================================================================
