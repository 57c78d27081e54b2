----------------------------- MODULE MCObservatory -----------------------------
(***************************************************************************)
(* Small instances of what the observatory's pages depend on: the event    *)
(* feed, the read cache and the transcript with its poll loop.  They share *)
(* no state, so one run explores them one at a time: Init chooses          *)
(* `explored`, the others stand still.                                     *)
(***************************************************************************)
EXTENDS EventFeed, ReadCache, SessionTranscript

VARIABLE explored

mcVars == <<explored, feedVars, cacheVars, pageVars>>

ASSUME ObservatoryAssumption ==
  EventFeedAssumption /\ ReadCacheAssumption /\ TranscriptAssumption

-----------------------------------------------------------------------------
Init ==
  /\ explored \in {"feed", "cache", "transcript"}
  /\ FeedInit /\ CacheInit /\ PageInit
  /\ explored # "transcript" => ~ hidden

(* One component steps, the others stand still. *)
Next ==
  \/ explored = "feed" /\ FeedNext /\ UNCHANGED <<explored, cacheVars, pageVars>>
  \/ explored = "cache" /\ CacheNext /\ UNCHANGED <<explored, feedVars, pageVars>>
  \/ explored = "transcript" /\ PageNext /\ UNCHANGED <<explored, feedVars, cacheVars>>

Spec == Init /\ [][Next]_mcVars

(* What the component that is explored assumes of its scheduling. *)
Fairness ==
  \/ explored = "feed" /\ FeedFairness
  \/ explored = "cache" /\ CacheFairness
  \/ explored = "transcript" /\ PageFairness

FairSpec == Spec /\ Fairness

-----------------------------------------------------------------------------
(* The safety properties are the components' own *)

(* Every variable keeps its type. *)
Types == FeedTypeOK /\ CacheTypeOK /\ PageTypeOK

(* A visible page ends up with the newest rows, with the last write, and with
   the whole transcript although its connections fail; it polls until the
   session ends and is quiet from then on, and connections that are never
   healthy are made at the ceiling's pace
   (src/observatory/lib/use-event-feed.ts:10-19, src/catalog/read-cache.ts:19-22,
   src/observatory/lib/use-session-transcript.ts:148-162, 200-216). *)
PagesCatchUp ==
  /\ explored = "feed" => FeedCatchesUp
  /\ explored = "cache" => ViewersCatchUp
  /\ explored = "transcript" => KeepsRunning /\ TerminalRetires /\ SelfHeals /\ NoStorm
================================================================================
