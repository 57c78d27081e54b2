------------------------------- MODULE ReadCache -------------------------------
(***************************************************************************)
(* The single-slot cache before the two polled reads of the catalog        *)
(* (src/catalog/read-cache.ts) and the pages that poll through it, one     *)
(* request at a time each (src/observatory/lib/use-polling.ts).  The data  *)
(* is a version number.  Time is counted in ticks: only ages are kept.     *)
(***************************************************************************)
EXTENDS Naturals, FiniteSets

CONSTANTS Viewers,
          TTL,        \* READ_CACHE_TTL_MS
          FetchTime,  \* longest time from the read in Redis to its answer
          MaxVersion, \* bound on the writes
          MaxFailures, \* bound on polls that fail
          NoEntry

ReadCacheAssumption ==
  /\ TTL \in Nat \ {0} /\ FetchTime \in Nat
  /\ MaxVersion \in Nat /\ MaxFailures \in Nat

VARIABLES
  version, \* what Redis holds
  cached,  \* NoEntry or the data, its age, and the age of the read it is from
  asking,  \* a viewer's request: idle, sent, fetching, read
  displayed, \* what its page shows
  failures

cacheVars == <<version, cached, asking, displayed, failures>>

NotAsking == [at |-> "idle", data |-> 0, age |-> 0]
Entry(data, readAge) == [data |-> data, age |-> 0, readAge |-> readAge]

CacheTypeOK ==
  /\ version \in 0..MaxVersion
  /\ cached \in [data: 0..MaxVersion, age: 0..TTL, readAge: 0..(TTL + FetchTime)] \cup {NoEntry}
  /\ asking \in [Viewers -> [at: {"idle", "sent", "fetching", "read"},
                              data: 0..MaxVersion, age: 0..FetchTime]]
  /\ displayed \in [Viewers -> 0..MaxVersion] /\ failures \in 0..MaxFailures

CacheInit ==
  /\ version = 0 /\ cached = NoEntry
  /\ asking = [v \in Viewers |-> NotAsking] /\ displayed = [v \in Viewers |-> 0]
  /\ failures = 0

-----------------------------------------------------------------------------
Write ==
  /\ version < MaxVersion /\ version' = version + 1
  /\ UNCHANGED <<cached, asking, displayed, failures>>

(* An entry's ages stop at TTL, when it is no longer served. *)
Older(entry) ==
  IF entry = NoEntry \/ entry.age = TTL THEN entry
  ELSE [entry EXCEPT !.age = @ + 1, !.readAge = @ + 1]

TimePasses ==
  /\ \A v \in Viewers : asking[v].at = "read" => asking[v].age < FetchTime
  /\ cached' = Older(cached)
  /\ asking' = [v \in Viewers |->
                   IF asking[v].at = "read" THEN [asking[v] EXCEPT !.age = @ + 1] ELSE asking[v]]
  /\ UNCHANGED <<version, displayed, failures>>

Poll(v) ==
  /\ asking[v].at = "idle"
  /\ asking' = [asking EXCEPT ![v].at = "sent"]
  /\ UNCHANGED <<version, cached, displayed, failures>>

(* Mutant: an entry is served for one tick too long. *)
Fresh_Late == cached # NoEntry

Fresh == cached # NoEntry /\ cached.age < TTL

(* Mutant: a hit counts as a fetch. *)
AfterHit_Slides == Entry(cached.data, cached.readAge)

AfterHit == cached

Hit(v) ==
  /\ asking[v].at = "sent" /\ Fresh
  /\ displayed' = [displayed EXCEPT ![v] = cached.data]
  /\ cached' = AfterHit
  /\ asking' = [asking EXCEPT ![v] = NotAsking]
  /\ UNCHANGED <<version, failures>>

Miss(v) ==
  /\ asking[v].at = "sent" /\ ~ Fresh
  /\ asking' = [asking EXCEPT ![v].at = "fetching"]
  /\ UNCHANGED <<version, cached, displayed, failures>>

FetchReads(v) ==
  /\ asking[v].at = "fetching"
  /\ asking' = [asking EXCEPT ![v] = [at |-> "read", data |-> version, age |-> 0]]
  /\ UNCHANGED <<version, cached, displayed, failures>>

FetchReturns(v) ==
  /\ asking[v].at = "read"
  /\ cached' = Entry(asking[v].data, asking[v].age)
  /\ displayed' = [displayed EXCEPT ![v] = asking[v].data]
  /\ asking' = [asking EXCEPT ![v] = NotAsking]
  /\ UNCHANGED <<version, failures>>

PollFails(v) ==
  /\ asking[v].at # "idle" /\ failures < MaxFailures
  /\ failures' = failures + 1
  /\ asking' = [asking EXCEPT ![v] = NotAsking]
  /\ UNCHANGED <<version, cached, displayed>>

-----------------------------------------------------------------------------
CacheNext ==
  \/ Write \/ TimePasses
  \/ \E v \in Viewers :
       Poll(v) \/ Hit(v) \/ Miss(v) \/ FetchReads(v) \/ FetchReturns(v) \/ PollFails(v)

CacheSpec == CacheInit /\ [][CacheNext]_cacheVars

(* Time passes, a visible page polls, and what it has asked for is answered
   or fails. *)
CacheFairness ==
  /\ WF_cacheVars(TimePasses)
  /\ \A v \in Viewers : /\ WF_cacheVars(Poll(v)) /\ WF_cacheVars(Hit(v) \/ Miss(v))
                        /\ WF_cacheVars(FetchReads(v)) /\ WF_cacheVars(FetchReturns(v))

CacheFairSpec == CacheSpec /\ CacheFairness

-----------------------------------------------------------------------------
(* Properties *)

(* What the cache serves was read from Redis at most one TTL and one fetch
   ago, whichever of two overlapping fetches wrote it last
   (src/catalog/read-cache.ts:7-10). *)
StalenessBounded == Fresh => cached.readAge < TTL + FetchTime

(* The read an entry is from is at most one fetch older than the entry.      *)
CacheIInv ==
  CacheTypeOK /\ (cached # NoEntry => cached.readAge <= cached.age + FetchTime)

(* A page comes to show the last write (src/catalog/read-cache.ts:19-22). *)
ViewersCatchUp == \A v \in Viewers : <>[](displayed[v] = version)

================================================================================
