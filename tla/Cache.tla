-------------------------------- MODULE Cache --------------------------------
(***************************************************************************)
(* The cache with expiry, eviction and shared fetches (src/lib/cache/index.ts). *)
(* Callers of getOrFetch run up to their await in one step; a fetch reads its  *)
(* source in one step and its caller resumes in a later one.  The values are   *)
(* the versions of the sources.                                             *)
(***************************************************************************)
EXTENDS Integers, Sequences, FiniteSets, SequencesExt, Functions

CONSTANTS Keys, Callers,
          Ttl, MaxSize,
          MaxClock,    \* the last time of the clock
          MaxVersion,  \* the last version of a source
          NoCaller,    \* no fetch in flight
          NoValue      \* undefined

ASSUME CacheAssumption == /\ Ttl \in Nat /\ MaxSize \in Nat \ {0}
                          /\ MaxClock \in Nat /\ MaxVersion \in Nat
                          /\ NoCaller \notin Callers

VARIABLES entries,   \* cache: key to value and expiry
          lruKeys,   \* the keys, the least recently used first
          inFlight,  \* key to the caller whose fetch is in flight, or NoCaller
          callers,   \* caller to the key and the state of its getOrFetch
          sources,   \* key to the version outside
          clock,
          stores     \* history: key to the last value stored and when, until it is removed

cacheVars == <<entries, lruKeys, inFlight, callers, sources, clock, stores>>

CallerState == {"ready", "waiting", "fetching", "read"}
Value == Nat \cup {NoValue}

CacheTypeOK ==
  /\ DOMAIN entries \subseteq Keys /\ DOMAIN stores \subseteq Keys
  /\ \A k \in DOMAIN entries : entries[k] \in [value : Value, expires : Nat]
  /\ \A k \in DOMAIN stores : stores[k] \in [value : Value, at : Nat]
  /\ lruKeys \in Seq(Keys)
  /\ inFlight \in [Keys -> Callers \cup {NoCaller}]
  /\ callers \in [Callers -> [at : CallerState, key : Keys \cup {NoValue}, value : Value]]
  /\ sources \in [Keys -> Nat] /\ clock \in Nat

CacheInit ==
  /\ entries = <<>> /\ lruKeys = <<>>
  /\ inFlight = [k \in Keys |-> NoCaller]
  /\ callers = [c \in Callers |-> [at |-> "ready", key |-> NoValue, value |-> NoValue]]
  /\ sources = [k \in Keys |-> 0]
  /\ clock = 0
  /\ stores = <<>>

-----------------------------------------------------------------------------
(* The operations on entries and lruKeys, as a record of both.              *)

Contents == [entries |-> entries, lru |-> lruKeys]

Without(f, k) == Restrict(f, DOMAIN f \ {k})
removeFromLru(lru, k) == RemoveFirst(lru, k)
moveToMru(lru, k) == Append(removeFromLru(lru, k), k)

has(c, k) == k \in DOMAIN c.entries /\ clock <= c.entries[k].expires

remove(c, k) == [entries |-> Without(c.entries, k), lru |-> removeFromLru(c.lru, k)]

\* Mutant: a hit keeps the entry for another period.
getExtends(c, k) ==
  IF k \notin DOMAIN c.entries THEN c
  ELSE IF clock > c.entries[k].expires THEN remove(c, k)
  ELSE [entries |-> [c.entries EXCEPT ![k].expires = clock + Ttl], lru |-> moveToMru(c.lru, k)]

\* What get leaves; it answers with the value when the key is held and not expired.
get(c, k) ==
  IF k \notin DOMAIN c.entries THEN c
  ELSE IF clock > c.entries[k].expires THEN remove(c, k)
  ELSE [c EXCEPT !.lru = moveToMru(@, k)]

evictLRU(c) ==
  IF c.lru = <<>> THEN c
  ELSE [entries |-> Without(c.entries, Head(c.lru)), lru |-> Tail(c.lru)]

\* An entry that has expired is set like a new one: its key enters the list once more.
set(c, k, value, ttl) ==
  LET room == IF Cardinality(DOMAIN c.entries) >= MaxSize THEN evictLRU(c) ELSE c
      placed == IF has(c, k) THEN [c EXCEPT !.lru = moveToMru(@, k)]
                ELSE [room EXCEPT !.lru = Append(@, k)]
      entry == [value |-> value, expires |-> clock + ttl]
  IN  [placed EXCEPT !.entries = [x \in DOMAIN @ \cup {k} |-> IF x = k THEN entry ELSE @[x]]]

Becomes(c) == entries' = c.entries /\ lruKeys' = c.lru

Stored(k, value) ==
  stores' = [x \in DOMAIN stores \cup {k} |->
               IF x = k THEN [value |-> value, at |-> clock] ELSE stores[x]]

-----------------------------------------------------------------------------
(* The callers of the cache.                                                *)

Get(k) == /\ Becomes(get(Contents, k))
          /\ UNCHANGED <<inFlight, callers, sources, clock, stores>>

\* A caller sets the source's version, as one that has just changed or read it does.
Set(k) == /\ Becomes(set(Contents, k, sources[k], Ttl)) /\ Stored(k, sources[k])
          /\ UNCHANGED <<inFlight, callers, sources, clock>>

delete(k) == /\ Becomes(remove(Contents, k)) /\ stores' = Without(stores, k)
             /\ UNCHANGED <<inFlight, callers, sources, clock>>

\* Mutant: the fetches in flight are forgotten, too.
clearWithFetches ==
  /\ Becomes([entries |-> <<>>, lru |-> <<>>]) /\ stores' = <<>>
  /\ inFlight' = [k \in Keys |-> NoCaller]
  /\ UNCHANGED <<callers, sources, clock>>

clear == /\ Becomes([entries |-> <<>>, lru |-> <<>>]) /\ stores' = <<>>
         /\ UNCHANGED <<inFlight, callers, sources, clock>>

\* getOrFetch up to its await: answered, waiting for another's fetch, or fetching.
getOrFetch(c, k) ==
  /\ callers[c].at = "ready"
  /\ Becomes(get(Contents, k))
  /\ IF has(Contents, k)
     THEN /\ callers' = [callers EXCEPT ![c] =
                           [at |-> "ready", key |-> k, value |-> entries[k].value]]
          /\ UNCHANGED inFlight
     ELSE IF inFlight[k] # NoCaller
     THEN /\ callers' = [callers EXCEPT ![c] = [at |-> "waiting", key |-> k, value |-> NoValue]]
          /\ UNCHANGED inFlight
     ELSE /\ callers' = [callers EXCEPT ![c] = [at |-> "fetching", key |-> k, value |-> NoValue]]
          /\ inFlight' = [inFlight EXCEPT ![k] = c]
  /\ UNCHANGED <<sources, clock, stores>>

\* The fetcher reads the source; its answer is on the way.
FetchReads(c) ==
  /\ callers[c].at = "fetching"
  /\ callers' = [callers EXCEPT ![c].at = "read", ![c].value = sources[callers[c].key]]
  /\ UNCHANGED <<entries, lruKeys, inFlight, sources, clock, stores>>

\* The callers waiting for the fetch settle with it.
Settled(c, k, value) ==
  [d \in Callers |-> IF d = c \/ (callers[d].at = "waiting" /\ callers[d].key = k)
                     THEN [at |-> "ready", key |-> k, value |-> value] ELSE callers[d]]

\* getOrFetch after its await: the value is stored and the fetch no longer in flight.
FetchReturns(c) ==
  LET k == callers[c].key  value == callers[c].value IN
  /\ callers[c].at = "read"
  /\ Becomes(set(Contents, k, value, Ttl)) /\ Stored(k, value)
  /\ callers' = Settled(c, k, value)
  /\ inFlight' = [inFlight EXCEPT ![k] = NoCaller]
  /\ UNCHANGED <<sources, clock>>

\* A failed fetch throws to every caller that waits for it.
FetchFails(c) ==
  /\ callers[c].at = "fetching"
  /\ callers' = Settled(c, callers[c].key, NoValue)
  /\ inFlight' = [inFlight EXCEPT ![callers[c].key] = NoCaller]
  /\ UNCHANGED <<entries, lruKeys, sources, clock, stores>>

SourceChanges(k) ==
  /\ sources[k] < MaxVersion
  /\ sources' = [sources EXCEPT ![k] = @ + 1]
  /\ UNCHANGED <<entries, lruKeys, inFlight, callers, clock, stores>>

ClockTicks ==
  /\ clock < MaxClock
  /\ clock' = clock + 1
  /\ UNCHANGED <<entries, lruKeys, inFlight, callers, sources, stores>>

CacheNext ==
  \/ \E k \in Keys : Get(k) \/ Set(k) \/ delete(k) \/ SourceChanges(k)
  \/ clear
  \/ \E c \in Callers : (\E k \in Keys : getOrFetch(c, k))
                        \/ FetchReads(c) \/ FetchReturns(c) \/ FetchFails(c)
  \/ ClockTicks

CacheSpec == CacheInit /\ [][CacheNext]_cacheVars

-----------------------------------------------------------------------------
(* Properties.                                                             *)

\* A hit is the value last stored under its key, at most a time to live ago and not removed since.
HitIsFresh ==
  \A k \in Keys : has(Contents, k) => /\ k \in DOMAIN stores
                                       /\ entries[k].value = stores[k].value
                                       /\ clock <= stores[k].at + Ttl

\* What is held can be evicted: its key is in the list, however often it was set anew.
Evictable == DOMAIN entries \subseteq Range(lruKeys)

\* One fetch per key at a time, and the callers that wait for one wait for one in flight.
OneFetch ==
  \A c \in Callers :
    /\ callers[c].at \in {"fetching", "read"} => inFlight[callers[c].key] = c
    /\ callers[c].at = "waiting" => inFlight[callers[c].key] # NoCaller

\* What callers may rely on: hits, eviction and shared fetches, with the types of the variables.
CacheSound == CacheTypeOK /\ HitIsFresh /\ Evictable /\ OneFetch

\* "Maximum number of entries before LRU eviction" (lib/cache/index.ts:10).
CacheBounded == Cardinality(DOMAIN entries) <= MaxSize
=============================================================================
