------------------------------ MODULE LakeCache ------------------------------
(***************************************************************************)
(* The LakeS3Client all block streams share.  Under a mutex, a bounded LRU *)
(* cache holds for each prefix a shared future: the request for an object, *)
(* or its result.  A request gets on only while a call awaits it; a call   *)
(* that finds an error removes the prefix, and its stream asks again.  A   *)
(* stream may be cancelled while it waits.                                 *)
(***************************************************************************)
EXTENDS Naturals, FiniteSets, SequencesExt

CONSTANTS
  Streams,
  Objects,       \* prefixes of the bucket
  CacheSize,     \* CACHE_SIZE
  MaxFutures,    \* futures that are created
  MaxFailures,   \* requests that fail
  MaxCancels     \* calls that are dropped

ASSUME LakeCacheAssumption ==
  /\ CacheSize \in Nat \ {0}
  /\ {MaxFutures, MaxFailures, MaxCancels} \subseteq Nat

VARIABLES
  cache,     \* SizedCache: prefixes and their futures, last used first
  futures,   \* the futures in the order of their creation
  calls,     \* get_object_bytes_cached of each stream
  reported,  \* futures whose error a call has returned
  cancels

cacheVars == <<cache, futures, calls, reported, cancels>>

FutureNames == 1 .. MaxFutures
NoCall == [prefix |-> "none", future |-> 0]
Awaits(s) == calls[s] # NoCall
Failures == {f \in DOMAIN futures : futures[f].state = "failed"}

Hit(prefix) == \E k \in DOMAIN cache : cache[k].prefix = prefix
Where(prefix) == CHOOSE k \in DOMAIN cache : cache[k].prefix = prefix
Entry(prefix) == cache[Where(prefix)]
Without(prefix) ==
  IF Hit(prefix) THEN RemoveAt(cache, Where(prefix)) ELSE cache

UsedWith(entry) ==
  LET used == <<entry>> \o Without(entry.prefix)
  IN IF Len(used) > CacheSize THEN SubSeq(used, 1, CacheSize) ELSE used

(* get_object_bytes_shared: a request that nobody has polled yet. *)
Requested(prefix) == [prefix |-> prefix, state |-> "pending"]

(* Slip: found or not, a request is sent. *)
CallAnyway(s, prefix) ==
  /\ ~Awaits(s) /\ Len(futures) < MaxFutures
  /\ LET new == [prefix |-> prefix, future |-> Len(futures) + 1] IN
     /\ cache' = UsedWith(new)
     /\ futures' = Append(futures, Requested(prefix))
     /\ calls' = [calls EXCEPT ![s] = new]
  /\ UNCHANGED <<reported, cancels>>

(* get_or_set_with, then the await. *)
Call(s, prefix) ==
  /\ ~Awaits(s)
  /\ \/ /\ Hit(prefix)
        /\ cache' = UsedWith(Entry(prefix))
        /\ calls' = [calls EXCEPT ![s] = Entry(prefix)]
        /\ UNCHANGED futures
     \/ /\ ~Hit(prefix) /\ Len(futures) < MaxFutures
        /\ LET new == [prefix |-> prefix, future |-> Len(futures) + 1] IN
           /\ cache' = UsedWith(new)
           /\ calls' = [calls EXCEPT ![s] = new]
        /\ futures' = Append(futures, Requested(prefix))
  /\ UNCHANGED <<reported, cancels>>

(* S3 answers, to whoever polls the future. *)
Settle(f) ==
  /\ f \in DOMAIN futures /\ futures[f].state = "pending"
  /\ \E s \in Streams : Awaits(s) /\ calls[s].future = f
  /\ \E result \in {"ok", "failed"} :
       /\ result = "failed" => Cardinality(Failures) < MaxFailures
       /\ futures' = [futures EXCEPT ![f].state = result]
  /\ UNCHANGED <<cache, calls, reported, cancels>>

(* Slip: an error is kept like a result. *)
ReturnKeeping(s) ==
  LET f == calls[s].future IN
  /\ Awaits(s) /\ futures[f].state # "pending"
  /\ calls' = [calls EXCEPT ![s] = NoCall]
  /\ reported' = IF f \in Failures THEN reported \cup {f} ELSE reported
  /\ UNCHANGED <<cache, futures, cancels>>

(* The stream that polls gets the result; in its own time it takes the     *)
(* mutex again and removes whatever its prefix stands for.                 *)
Return(s) ==
  LET f == calls[s].future IN
  /\ Awaits(s) /\ futures[f].state # "pending"
  /\ calls' = [calls EXCEPT ![s] = NoCall]
  /\ IF f \in Failures
     THEN cache' = Without(calls[s].prefix) /\ reported' = reported \cup {f}
     ELSE UNCHANGED <<cache, reported>>
  /\ UNCHANGED <<futures, cancels>>

Cancel(s) ==
  /\ Awaits(s) /\ cancels < MaxCancels
  /\ cancels' = cancels + 1
  /\ calls' = [calls EXCEPT ![s] = NoCall]
  /\ UNCHANGED <<cache, futures, reported>>

CacheInit ==
  /\ cache = <<>> /\ futures = <<>> /\ reported = {} /\ cancels = 0
  /\ calls = [s \in Streams |-> NoCall]

CacheNext ==
  \/ \E s \in Streams :
       \/ \E prefix \in Objects : Call(s, prefix)
       \/ Return(s) \/ Cancel(s)
  \/ \E f \in FutureNames : Settle(f)

CacheSpec == CacheInit /\ [][CacheNext]_cacheVars

-----------------------------------------------------------------------------
Entries == [prefix : Objects, future : DOMAIN futures]
FutureStates == {"pending", "ok", "failed"}

CacheTypeOK ==
  /\ futures \in Seq([prefix : Objects, state : FutureStates])
  /\ cache \in Seq(Entries) /\ Len(cache) <= CacheSize
  /\ calls \in [Streams -> Entries \cup {NoCall}]
  /\ reported \subseteq Failures
  /\ cancels \in 0 .. MaxCancels

(* One entry for a prefix, and whoever is given a future by the cache gets *)
(* that of the object asked for.                                           *)
Answering ==
  /\ \A k, l \in DOMAIN cache :
       cache[k].prefix = cache[l].prefix => k = l
  /\ \A k \in DOMAIN cache :
       futures[cache[k].future].prefix = cache[k].prefix
  /\ \A s \in Streams :
       Awaits(s) => futures[calls[s].future].prefix = calls[s].prefix

(* "removes_cache_on_error": once a call has returned the error of a       *)
(* request, no later call is given it, though other calls may still be     *)
(* waiting for it and requests for its prefix come and go.                 *)
ReportedIsForgotten ==
  \A k \in DOMAIN cache : cache[k].future \notin reported

(* "caches_requests": until a request fails, an object is asked for again  *)
(* only after the request for another one pushed it out, also when the     *)
(* stream that asked is cancelled meanwhile.                               *)
RequestedOnce ==
  Failures = {} =>
    \A f, g \in DOMAIN futures :
      f < g /\ futures[f].prefix = futures[g].prefix =>
        \E between \in f + 1 .. g - 1 :
          futures[between].prefix # futures[g].prefix

(* What holds of cache, futures and calls in every state: the cache keeps  *)
(* to its size, nobody waits for the future of another object, and none is *)
(* asked for twice while it is cached.                                     *)
CacheInv == CacheTypeOK /\ Answering /\ RequestedOnce

(* "deduplicates_parallel_requests": of the calls that wait for one prefix *)
(* at most one request is on its way.  Not so: a late call that finds the  *)
(* old error removes the request that replaced it.                         *)
Deduplicated ==
  \A s, t \in Streams :
    (/\ Awaits(s) /\ futures[calls[s].future].state = "pending"
     /\ Awaits(t) /\ futures[calls[t].future].state = "pending"
     /\ calls[s].prefix = calls[t].prefix)
    => calls[s].future = calls[t].future
=============================================================================
