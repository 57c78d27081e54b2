------------------------------- MODULE EventFeed -------------------------------
(***************************************************************************)
(* The event history in Redis, the delta feed the catalog derives from it  *)
(* (src/catalog/history.ts, src/catalog/event-feed.ts) and one observatory *)
(* page that polls the feed with a cursor and keeps a window of the newest *)
(* rows (src/observatory/lib/use-event-feed.ts, event-feed-window.ts).     *)
(* Rows are numbered in the order in which they are first pushed; a row's  *)
(* number stands for its content and for the hash that is its cursor.      *)
(***************************************************************************)
EXTENDS Naturals, Sequences, FiniteSets, SequencesExt

CONSTANTS Writers,    \* processes that record events
          PageSize,   \* EVENT_FEED_PAGE_SIZE, EVENT_FEED_WINDOW_SIZE
          HistoryMax, \* HISTORY_MAX_ENTRIES
          MaxRows, MaxRetries, MaxReloads, MaxFailed, \* bounds
          None

EventFeedAssumption ==
  /\ None \notin Nat
  /\ PageSize \in Nat \ {0} /\ HistoryMax \in Nat /\ PageSize < HistoryMax
  /\ MaxRows \in Nat /\ MaxRetries \in Nat
  /\ MaxReloads \in Nat /\ MaxFailed \in Nat

VARIABLES
  list,    \* catalog:events, newest first
  total,   \* the rows recorded so far
  writer,  \* the row a writer has pushed and not yet trimmed after
  retries, reloads, failed,
  tabHidden,  \* whether the page's tab is hidden
  cursor, window, \* cursorRef, events
  polling  \* the poll that is under way

feedPage == <<cursor, window, polling>>
feedStore == <<list, total, writer, retries>>
feedVars == <<feedStore, reloads, failed, tabHidden, feedPage>>

NoPoll == [at |-> "idle", after |-> None, feed |-> None]
Newest(n) == SubSeq(list, 1, IF n < Len(list) THEN n ELSE Len(list))

FeedAnswer == [cursor: (1..MaxRows) \cup {None}, reset: BOOLEAN, events: Seq(1..MaxRows)]
FeedPolls == [at: {"idle", "head", "range", "answer"},
              after: (1..MaxRows) \cup {None}, feed: FeedAnswer \cup {None}]

FeedTypeOK ==
  /\ list \in Seq(1..MaxRows) /\ total \in 0..MaxRows
  /\ writer \in [Writers -> (1..MaxRows) \cup {None}]
  /\ retries \in 0..MaxRetries /\ reloads \in 0..MaxReloads
  /\ failed \in 0..MaxFailed
  /\ tabHidden \in BOOLEAN
  /\ cursor \in (1..MaxRows) \cup {None}
  /\ window \in Seq(1..MaxRows) /\ Len(window) <= PageSize
  /\ polling \in FeedPolls
  /\ polling.at = "answer" => polling.feed \in FeedAnswer

FeedInit ==
  /\ list = <<>> /\ total = 0 /\ writer = [w \in Writers |-> None] /\ retries = 0
  /\ reloads = 0 /\ failed = 0 /\ tabHidden = FALSE
  /\ cursor = None /\ window = <<>> /\ polling = NoPoll

-----------------------------------------------------------------------------
(* recordEvent *)

Push(w) ==
  /\ writer[w] = None /\ total < MaxRows
  /\ total' = total + 1
  /\ list' = <<total + 1>> \o list
  /\ writer' = [writer EXCEPT ![w] = total + 1]
  /\ UNCHANGED <<retries, reloads, failed, tabHidden, feedPage>>

(* The client sends an LPUSH again whose answer it has not received. *)
PushAgain(w) ==
  /\ writer[w] # None /\ retries < MaxRetries
  /\ retries' = retries + 1
  /\ list' = <<writer[w]>> \o list
  /\ UNCHANGED <<total, writer, reloads, failed, tabHidden, feedPage>>

(* Mutant: the trim drops the newest row. *)
Trimmed_Head == SubSeq(list, 2, Len(list))

Trimmed == Newest(HistoryMax)

Trim(w) ==
  /\ writer[w] # None
  /\ writer' = [writer EXCEPT ![w] = None]
  /\ list' = Trimmed
  /\ UNCHANGED <<total, retries, reloads, failed, tabHidden, feedPage>>

Crash(w) ==
  /\ writer[w] # None
  /\ writer' = [writer EXCEPT ![w] = None]
  /\ UNCHANGED <<list, total, retries, reloads, failed, tabHidden, feedPage>>

-----------------------------------------------------------------------------
(* fetchEventFeed *)

FirstRows(rows, n) == SubSeq(rows, 1, IF n < Len(rows) THEN n ELSE Len(rows))

Feed(after, reset, rows) == [cursor |-> after, reset |-> reset, events |-> rows]

(* Mutant: the rows up to the anchor and the anchor. *)
DeltaRows_WithAnchor(rows, anchor) == SubSeq(rows, 1, anchor)

DeltaRows(rows, anchor) == SubSeq(rows, 1, anchor - 1)

computeFeedResponse(rows, after) ==
  LET anchors == {i \in DOMAIN rows : rows[i] = after}
  IN IF rows = <<>> THEN Feed(None, TRUE, <<>>)
     ELSE IF after = None \/ anchors = {} THEN Feed(rows[1], TRUE, FirstRows(rows, PageSize))
     ELSE Feed(rows[1], FALSE, DeltaRows(rows, Min(anchors)))

(* LINDEX: nothing has changed when the head is the row last seen. *)
ReadHead ==
  /\ polling.at = "head"
  /\ polling' = IF list # <<>> /\ Head(list) = polling.after
                THEN [polling EXCEPT !.at = "answer", !.feed = Feed(polling.after, FALSE, <<>>)]
                ELSE [polling EXCEPT !.at = "range"]
  /\ UNCHANGED <<feedStore, reloads, failed, tabHidden, cursor, window>>

(* LRANGE of one row more than a page. *)
ReadRange ==
  /\ polling.at = "range"
  /\ polling' = [polling EXCEPT !.at = "answer",
                                !.feed = computeFeedResponse(Newest(PageSize + 1), polling.after)]
  /\ UNCHANGED <<feedStore, reloads, failed, tabHidden, cursor, window>>

-----------------------------------------------------------------------------
(* useEventFeed *)

PollFeed ==
  /\ polling.at = "idle" /\ ~ tabHidden
  /\ polling' = [NoPoll EXCEPT !.at = IF cursor = None THEN "range" ELSE "head", !.after = cursor]
  /\ UNCHANGED <<feedStore, reloads, failed, tabHidden, cursor, window>>

(* Mutant: the window is not capped. *)
MergeEventFeedWindow_Uncapped(prev, feed) ==
  IF feed.reset THEN feed.events ELSE feed.events \o prev

(* Mutant: a delta is put behind the window. *)
MergeEventFeedWindow_Appends(prev, feed) ==
  FirstRows(IF feed.reset THEN feed.events ELSE prev \o feed.events, PageSize)

mergeEventFeedWindow(prev, feed) ==
  FirstRows(IF feed.reset THEN feed.events ELSE feed.events \o prev, PageSize)

Arrives ==
  /\ polling.at = "answer"
  /\ cursor' = polling.feed.cursor
  /\ window' = mergeEventFeedWindow(window, polling.feed)
  /\ polling' = NoPoll
  /\ UNCHANGED <<feedStore, reloads, failed, tabHidden>>

PollFeedFails ==
  /\ polling.at # "idle" /\ failed < MaxFailed
  /\ failed' = failed + 1
  /\ polling' = NoPoll
  /\ UNCHANGED <<feedStore, reloads, tabHidden, cursor, window>>

FlipTab == tabHidden' = ~ tabHidden /\ UNCHANGED <<feedStore, reloads, failed, feedPage>>

(* Unmounted and mounted again: the fetch is aborted, the state is new. *)
Reload ==
  /\ reloads < MaxReloads
  /\ reloads' = reloads + 1
  /\ cursor' = None /\ window' = <<>> /\ polling' = NoPoll
  /\ UNCHANGED <<feedStore, failed, tabHidden>>

-----------------------------------------------------------------------------
FeedNext ==
  \/ \E w \in Writers : Push(w) \/ PushAgain(w) \/ Trim(w) \/ Crash(w)
  \/ PollFeed \/ ReadHead \/ ReadRange \/ Arrives \/ PollFeedFails \/ FlipTab \/ Reload

FeedSpec == FeedInit /\ [][FeedNext]_feedVars

(* A visible page polls, and a poll is answered or fails. *)
FeedFairness ==
  /\ WF_feedVars(PollFeed) /\ WF_feedVars(ReadHead) /\ WF_feedVars(ReadRange) /\ WF_feedVars(Arrives)

FeedFairSpec == FeedSpec /\ FeedFairness

-----------------------------------------------------------------------------
(* Properties *)

(* Every row of the history that is recent enough is in the list, whatever
   the order in which the writers push and trim, and whichever of them dies
   between the two; a row that was pushed twice takes the room of one old row
   (src/catalog/history.ts:31-38, 62-89). *)
NewestKept ==
  \A r \in 1..total : r > total - (HistoryMax - retries) => r \in Range(list)

(* Where no push was sent again, the list has nothing else, in order. *)
ListIsHistory == \A i \in DOMAIN list : list[i] = total - i + 1

(* The page of rows that ends with row c. *)
PageAt(c) == [i \in 1..(IF c < PageSize THEN c ELSE PageSize) |-> c - i + 1]

(* The window is the page that ends with the cursor's row: no row pushed
   between two reads is lost or shown twice (src/catalog/event-feed.ts:33-37). *)
WindowIsPage == cursor # None => window = PageAt(cursor)

(* The list is the newest part of the history, and the page shows a piece of it
   without gaps. *)
FeedIsHistory == NewestKept /\ (retries = 0 => ListIsHistory /\ WindowIsPage)

-----------------------------------------------------------------------------
(* The inductive invariant behind FeedIsHistory *)

(* A row is no further down the list than the pushes after it have put it.  *)
RowNearTop ==
  \A r \in 1..total : r > total - (HistoryMax - retries) =>
    \E i \in DOMAIN list : list[i] = r /\ i <= total - r + 1 + retries

(* A poll is about the cursor the page has, and its answer goes on from     *)
(* there: a whole page, or the rows between the two cursors.                *)
PollIsCurrent ==
  /\ polling.at = "head" => cursor # None
  /\ polling.at \in {"head", "range"} => polling.after = cursor
  /\ polling.at = "answer" /\ polling.feed.cursor # None =>
       LET c == polling.feed.cursor
       IN IF polling.feed.reset THEN polling.feed.events = PageAt(c)
          ELSE /\ cursor # None /\ cursor <= c
               /\ polling.feed.events = [i \in 1..(c - cursor) |-> c - i + 1]

FeedIInv ==
  /\ FeedTypeOK /\ RowNearTop
  /\ retries = 0 => ListIsHistory /\ WindowIsPage /\ PollIsCurrent

(* A page that stays visible ends up with the newest page of the history
   (src/observatory/lib/use-event-feed.ts:10-19). *)
FeedCatchesUp ==
  <>[](~ tabHidden) => <>[](retries = 0 => window = FirstRows(list, PageSize))
================================================================================
