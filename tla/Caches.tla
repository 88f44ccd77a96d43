------------------------------- MODULE Caches -------------------------------
(***************************************************************************)
(* cache.Cache on its two backends: MemoryCache (cache/memory.go) and      *)
(* RedisCache (cache/redis.go).  Values expire; a window is the sequence   *)
(* of the hits on a key.  A call of Allow reads the clock first and takes  *)
(* the lock, or runs the script, later: it is the key, the time ts it read *)
(* and the number n of the reading, which orders the calls of one tick.    *)
(* Calls that overlap may update in another order than they read.  A       *)
(* window of w ticks, and a time to live, end between two ticks, so        *)
(* nothing happens exactly when one does; 0 is the time to live of a value *)
(* that never expires.                                                     *)
(*                                                                         *)
(* History: dropped holds the keys MemoryCache dropped at its caps, newest *)
(* the last reading a finished call used, late the keys hit by a call that *)
(* finished in a later tick than it read or after a later reading was      *)
(* used.  What is said of these keys is not compared with Redis.  hit is   *)
(* the last Allow since the janitor ran.                                   *)
(***************************************************************************)
EXTENDS Tables, SequencesExt

CONSTANTS maxRateLimitKeys, maxValueKeys,  \* the caps of MemoryCache
          evictionSampleSize,              \* keys looked at to choose the one to drop
          windowTTL                        \* ticks an idle window is kept by MemoryCache

NoCache == [entries |-> [k \in {} |-> 0], windows |-> [k \in {} |-> << >>],
            waiting |-> {}, dropped |-> [entries |-> {}, windows |-> {}], late |-> {},
            newest |-> 0, hit |-> {}]

Without(f, S) == Restrict(f, DOMAIN f \ S)

ExpiresAt(now, ttl) == IF ttl = 0 THEN 0 ELSE now + ttl

expired(e, now) == e.expires # 0 /\ now >= e.expires

HitsOf(windows, k) == IF k \in DOMAIN windows THEN windows[k] ELSE << >>

-----------------------------------------------------------------------------
(* MemoryCache. *)

Samples(f) == kSubset(IF Cardinality(DOMAIN f) < evictionSampleSize THEN Cardinality(DOMAIN f)
                      ELSE evictionSampleSize, DOMAIN f)

\* Mutant of WindowVictims: the window whose last hit has the newest time.
WindowVictimsNewest(windows) ==
    {k \in DOMAIN windows : \E S \in Samples(windows) :
        k \in S /\ \A j \in S : Last(windows[j]).n <= Last(windows[k]).n}

\* The window of a sample whose last hit has the oldest time.
WindowVictims(windows) ==
    {k \in DOMAIN windows : \E S \in Samples(windows) :
        k \in S /\ \A j \in S : Last(windows[k]).n <= Last(windows[j]).n}

\* An expired entry, or the one of a sample that expires first.
EntryVictims(entries, now) ==
    LET later(e, d) == d.expires = 0 \/ (e.expires # 0 /\ e.expires <= d.expires)
    IN  {k \in DOMAIN entries :
            \/ expired(entries[k], now)
            \/ \E S \in Samples(entries) :
                  k \in S /\ \A j \in S : ~expired(entries[j], now) /\ later(entries[k], entries[j])}

\* evictWindowsLocked: one key was added, so one is dropped.
evictWindowsLocked(C) ==
    IF Cardinality(DOMAIN C.windows) <= maxRateLimitKeys THEN {C}
    ELSE {[C EXCEPT !.windows = Without(@, {k}), !.dropped.windows = @ \cup {k}] :
             k \in WindowVictims(C.windows)}

evictEntriesLocked(C, now) ==
    IF Cardinality(DOMAIN C.entries) <= maxValueKeys THEN {C}
    ELSE {[C EXCEPT !.entries = Without(@, {k}), !.dropped.entries = @ \cup {k}] :
             k \in EntryVictims(C.entries, now)}

MemGet(C, k, now) ==
    Result(C, "none", IF k \in DOMAIN C.entries /\ ~expired(C.entries[k], now)
                      THEN {C.entries[k].value} ELSE {})

\* The time to live counts from a reading before the lock, here the same tick.
MemSet(C, k, value, ttl, now) ==
    {Result(D, "none", {}) :
        D \in evictEntriesLocked(
                 [C EXCEPT !.entries = (k :> [value |-> value, expires |-> ExpiresAt(now, ttl)]) @@ @],
                 now)}

\* Allow up to its lock.
AllowReadsClock(C, k, n, now) ==
    Result([C EXCEPT !.waiting = @ \cup {[key |-> k, ts |-> now, n |-> n]}], "none", {})

\* sort.Search for the first of the hits from i up to j at or after cutoff - window:
\* a binary search, whatever the order of the hits.
SearchHits(hits, cutoff, window) ==
    LET at[i \in 0 .. Len(hits), j \in 0 .. Len(hits)] ==
            IF i >= j THEN i
            ELSE LET h == (i + j) \div 2
                 IN  IF hits[h + 1].ts + window >= cutoff THEN at[i, h] ELSE at[h + 1, j]
    IN  at[0, Len(hits)]

\* Allow under its lock.
MemAllow(C, a, limit, window, now) ==
    LET old == HitsOf(C.windows, a.key)
        hits == Append(SubSeq(old, SearchHits(old, a.ts, window) + 1, Len(old)), [ts |-> a.ts, n |-> a.n])
        overtaken == a.n < C.newest
    IN  {Result([D EXCEPT !.waiting = @ \ {a}, !.hit = {[key |-> a.key, overtaken |-> overtaken]},
                          !.late = @ \cup (IF overtaken \/ a.ts < now THEN {a.key} ELSE {}),
                          !.newest = IF overtaken THEN @ ELSE a.n],
                "none", {Len(hits) <= limit}) :
            D \in evictWindowsLocked([C EXCEPT !.windows = (a.key :> hits) @@ @])}

MemDelete(C, k) == Result([C EXCEPT !.entries = Without(@, {k})], "none", {})

\* sweep: expired entries, and windows idle at the time read before their lock.
MemSweep(C, n, read, now) ==
    Result([C EXCEPT !.entries = Without(@, {k \in DOMAIN @ : expired(@[k], now)}),
                     !.windows = Without(@, {k \in DOMAIN @ : Last(@[k]).ts + windowTTL < read}),
                     !.newest = n, !.hit = {}],
           "none", {})

-----------------------------------------------------------------------------
(* RedisCache. *)

\* A key is gone when its time to live has passed.
RedisGet(C, k, now) ==
    Result(C, "none", {C.entries[j].value : j \in {j \in DOMAIN C.entries \cap {k} :
                                                     ~expired(C.entries[j], now)}})

RedisSet(C, k, value, ttl, now) ==
    Result([C EXCEPT !.entries = (k :> [value |-> value, expires |-> ExpiresAt(now, ttl)]) @@ @],
           "none", {})

\* slidingWindowScript; the key expires a second after its window, empty.
RedisAllow(C, a, limit, window) ==
    LET hits == Append(SelectSeq(HitsOf(C.windows, a.key), LAMBDA e : ~(e.ts + window < a.ts)),
                       [ts |-> a.ts, n |-> a.n])
    IN  Result([C EXCEPT !.windows = (a.key :> hits) @@ @], "none", {Len(hits) <= limit})

RedisDelete(C, k) == Result([C EXCEPT !.entries = Without(@, {k})], "none", {})
=============================================================================
