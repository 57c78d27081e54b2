--------------------------- MODULE SessionTranscript ---------------------------
(***************************************************************************)
(* A page that shows the transcript of one session: each run of its poll   *)
(* loop is a connection to the session's event stream, which replays from  *)
(* the first event (src/observatory/lib/use-session-transcript.ts).  The   *)
(* stream is the number of its events; when the session is over the last   *)
(* of them is the terminal one.                                            *)
(***************************************************************************)
EXTENDS PollLoop, Integers

CONSTANTS FirstRetry, MaxRetry, MaxAttempts, \* FIRST_RETRY_MS, MAX_RETRY_MS, MAX_ATTEMPTS
          MaxEvents,                         \* bound on the stream
          Null                               \* the interval of a loop that is over

TranscriptAssumption ==
  /\ Null \notin Int
  /\ FirstRetry \in Nat \ {0} /\ MaxRetry \in Nat /\ FirstRetry <= MaxRetry
  /\ MaxAttempts \in Nat /\ MaxEvents \in Nat
  /\ \A n \in 0..MaxAttempts : 2 ^ n \in Nat \* arithmetic the provers lack

VARIABLES
  written, over,      \* the stream and whether the session has ended
  conn,               \* the connection of the run under way
  attempts,           \* of the reconnect policy, counted up to MaxAttempts + 1
  nextDelay,          \* nextDelayMs; 0: not assigned yet
  shown, error,       \* what is on the page
  cancelled,
  healthy             \* history: whether the last connection that ended was

session == <<written, over>>
page == <<attempts, nextDelay, shown, error, cancelled, healthy>>
pageVars == <<loop, session, conn, page>>

Asked == [at |-> "asked", read |-> 0, terminal |-> FALSE, published |-> FALSE]
NoConn == [Asked EXCEPT !.at = "none"]

Connections == [at: {"none", "asked", "reading"}, read: 0..MaxEvents,
                terminal: BOOLEAN, published: BOOLEAN]

PageTypeOK ==
  /\ LoopTypeOK
  /\ written \in 0..MaxEvents /\ over \in BOOLEAN
  /\ conn \in Connections /\ (conn.at = "none" <=> runs = 0)
  /\ attempts \in 0..(MaxAttempts + 1) /\ nextDelay \in (0..MaxRetry) \cup {Null}
  /\ shown \in 0..MaxEvents /\ error \in {"none", "failed", "still retrying"}
  /\ cancelled \in BOOLEAN /\ healthy \in BOOLEAN

PageInit ==
  /\ LoopInit
  /\ written = 0 /\ over = FALSE
  /\ conn = (IF runs = 0 THEN NoConn ELSE Asked)
  /\ attempts = 0 /\ nextDelay = 0 /\ shown = 0 /\ error = "none"
  /\ cancelled = FALSE /\ healthy = TRUE

-----------------------------------------------------------------------------
(* The session: a turn's event, session.completed or session.failed. *)
EventWritten ==
  /\ ~ over /\ written < MaxEvents
  /\ written' = written + 1 /\ over' \in BOOLEAN
  /\ UNCHANGED <<loop, conn, page>>

(* The loop's own steps: a run that starts opens a connection. *)
Connects == conn' = IF runs' > runs THEN Asked ELSE conn

Wakes == TimerFires /\ Connects /\ UNCHANGED <<session, page>>

Flips == Flip /\ Connects /\ UNCHANGED <<session, page>>

Unmount ==
  /\ Stop /\ cancelled' = TRUE
  /\ UNCHANGED <<session, conn, attempts, nextDelay, shown, error, healthy>>

-----------------------------------------------------------------------------
(* drainSessionStream *)

Accepted ==
  /\ conn.at = "asked"
  /\ conn' = [conn EXCEPT !.at = "reading"]
  /\ UNCHANGED <<loop, session, page>>

isTerminalStreamEvent(i) == over /\ i = written

(* A chunk of whole lines up to the event upTo: one publish. *)
Chunk(upTo) ==
  /\ conn.at = "reading" /\ upTo > conn.read
  /\ conn' = [conn EXCEPT !.read = upTo, !.published = TRUE,
                          !.terminal = @ \/ isTerminalStreamEvent(upTo)]
  /\ IF cancelled THEN UNCHANGED <<shown, error>> ELSE shown' = upTo /\ error' = "none"
  /\ UNCHANGED <<loop, session, attempts, nextDelay, cancelled, healthy>>

(* Mutant: a late read error forgets the terminal event. *)
KindOfEnd_Forgets(kind) ==
  IF kind = "closed" /\ conn.terminal THEN "terminal" ELSE kind

KindOfEnd(kind) == IF conn.terminal THEN "terminal" ELSE kind

-----------------------------------------------------------------------------
(* createReconnectPolicy *)

(* Mutant: delivery alone is health. *)
StartsOver_Delivered(long, published) == published

StartsOver(long, published) == long /\ published

AttemptsAfter(long, published) ==
  IF StartsOver(long, published) THEN 1
  ELSE IF attempts > MaxAttempts THEN attempts ELSE attempts + 1

Ladder(n) == LET delay == FirstRetry * 2 ^ (n - 1)
             IN IF delay < MaxRetry THEN delay ELSE MaxRetry

exhausted(n) == n > MaxAttempts

(* Mutant: the loop is retired when the ladder is exhausted. *)
DelayAfter_GivesUp(n) == IF exhausted(n) THEN Null ELSE Ladder(n)

DelayAfter(n) == Ladder(n)

(* Mutant: an exhausted ladder says nothing of a connection that was closed. *)
ErrorAfter_Failed(kind, n) == IF kind = "failed" THEN "failed" ELSE error

ErrorAfter(kind, n) ==
  IF exhausted(n) THEN "still retrying" ELSE IF kind = "failed" THEN "failed" ELSE error

(* The connection ends, after HEALTHY_MS or sooner, and the run with it. *)
Ends(kind, long) ==
  /\ conn.at # "none" /\ conn' = NoConn
  /\ IF cancelled THEN UNCHANGED <<attempts, nextDelay, error, healthy>>
     ELSE IF KindOfEnd(kind) = "terminal"
     THEN nextDelay' = Null /\ UNCHANGED <<attempts, error, healthy>>
     ELSE LET n == AttemptsAfter(long, conn.published)
          IN /\ attempts' = n /\ nextDelay' = DelayAfter(n)
             /\ error' = ErrorAfter(kind, n)
             /\ healthy' = (long /\ conn.published)
  /\ RunEnds(nextDelay' = Null)
  /\ UNCHANGED <<session, shown, cancelled>>

(* The upstream closes after the terminal event; the proxy cuts any body. *)
BodyEnds(long) == conn.at = "reading" /\ Ends("closed", long)

Fails(long) == Ends("failed", long)

-----------------------------------------------------------------------------
PageNext ==
  \/ EventWritten \/ Wakes \/ Flips \/ Unmount \/ Accepted
  \/ \E upTo \in 1..written : Chunk(upTo)
  \/ \E long \in BOOLEAN : BodyEnds(long) \/ Fails(long)

PageSpec == PageInit /\ [][PageNext]_pageVars

UpstreamCloses == conn.terminal /\ \E long \in BOOLEAN : BodyEnds(long) \/ Fails(long)

(* Timers fire, a connection tried again and again delivers the stream, and
   one that has delivered the terminal event ends. *)
PageFairness ==
  /\ WF_pageVars(Wakes) /\ SF_pageVars(Accepted) /\ SF_pageVars(Chunk(written)) /\ WF_pageVars(UpstreamCloses)

PageFairSpec == PageSpec /\ PageFairness

-----------------------------------------------------------------------------
(* Properties *)

(* The loop retires only on a transcript that is complete and shows no error
   (src/observatory/lib/use-session-transcript.ts:211-214, 126-131). *)
RetiredIsComplete ==
  nextDelay = Null => stopped /\ over /\ shown = written /\ error = "none"

(* The page says so while it is only trickling
   (src/observatory/lib/use-session-transcript.ts:18-20). *)
TricklingIsShown ==
  runs = 0 /\ timers = 1 /\ attempts > MaxAttempts => error = "still retrying"

(* One run or timer at a time, however the tab flips: none while it is hidden,
   always one while it is visible; the loop retires only on a complete
   transcript, and until then the page says that it is trickling
   (src/observatory/lib/poll-loop.ts:8-17, 107-122). *)
LoopMatchesPage ==
  /\ OneChain /\ HiddenIsQuiet /\ VisibleIsAlive
  /\ RetiredIsComplete /\ TricklingIsShown

(* What the run under way has: a connection, and the whole transcript once
   it has read the terminal event, which then is on the page. *)
RunHasConnection ==
  /\ cancelled => stopped
  /\ conn.terminal /\ conn.at # "none" =>
       /\ over /\ conn.read = written
       /\ ~ cancelled => shown = written /\ error = "none"

(* The inductive invariant behind LoopMatchesPage. *)
PageIInv ==
  /\ PageTypeOK /\ LoopInv /\ RunHasConnection
  /\ RetiredIsComplete /\ (nextDelay = Null => runs = 0)
  /\ TricklingIsShown

(* A page that stays visible on a session that ends gets quiet
   (src/observatory/lib/use-session-transcript.ts:200-216). *)
TerminalRetires == <>[](over /\ ~ hidden) => <>stopped

(* A page whose connections fail catches up again, for as long as it is open
   (src/observatory/lib/use-session-transcript.ts:148-156). *)
SelfHeals == <>[](~ hidden) => <>cancelled \/ []<>(shown = written)

(* No failure mode sits at a short delay: connections that are never healthy
   are made at the ceiling's pace in the end
   (src/observatory/lib/use-session-transcript.ts:9-15, 158-162). *)
NoStorm ==
  \/ []<>healthy \/ <>[](runs = 1) \/ <>stopped \/ []<>hidden
  \/ <>[](nextDelay = MaxRetry)
================================================================================
