------------------------------ MODULE TtlCache ------------------------------
(***************************************************************************)
(* The cache of filtered servers that routed mode keeps, one per backend   *)
(* and session: TTLCache of internal/syncutil/ttl_cache.go as              *)
(* CreateHTTPServerForRoutedMode of server/http_server.go uses it.         *)
(* GetOrCreate reads the clock before it takes the lock, so a caller that  *)
(* had to wait works with a time that has passed.                          *)
(***************************************************************************)
EXTENDS Naturals, FiniteSets

CONSTANTS CacheKeys,   \* backend/session
          Getters,     \* requests that establish a session
          CacheTTL, CacheSize,
          MaxWait,     \* bound: how long a request waits for the lock
          MaxCacheTime \* bound: the clock stops here

ASSUME CacheAssumption ==
  /\ CacheKeys # {} /\ IsFiniteSet(CacheKeys)
  /\ CacheTTL \in Nat \ {0} /\ CacheSize \in Nat \ {0}
  /\ MaxWait \in Nat /\ MaxCacheTime \in Nat

VARIABLES clock, entries, get, usedAt

cacheVars == <<clock, entries, get, usedAt>>

\* entries[k] is the entry's lastUsed; usedAt[k] is when it really was used.
Absent == MaxCacheTime + 1
Idle == [key |-> CHOOSE k \in CacheKeys : TRUE, at |-> Absent]

CacheInit ==
  /\ clock = 0
  /\ entries = [k \in CacheKeys |-> Absent]
  /\ get = [g \in Getters |-> Idle]
  /\ usedAt = [k \in CacheKeys |-> 0]

Held(table) == {k \in CacheKeys : table[k] # Absent}

\* now := c.nowFn(), and the wait for the mutex begins.
ReadClock(g, k) ==
  /\ get[g].at = Absent
  /\ get' = [get EXCEPT ![g] = [key |-> k, at |-> clock]]
  /\ UNCHANGED <<clock, entries, usedAt>>

\* The caller's time may lie before lastUsed.
Expired(lastUsed, time) == time > lastUsed + CacheTTL

Sweep(table, time) ==
  [k \in CacheKeys |-> IF table[k] # Absent /\ Expired(table[k], time) THEN Absent ELSE table[k]]

\* Whom a full cache throws out for key: any entry used least recently.
Victims(table, key) ==
  IF table[key] # Absent \/ Cardinality(Held(table)) < CacheSize
    THEN {}
    ELSE {k \in Held(table) : \A j \in Held(table) : table[k] <= table[j]}

\* A definition named X_Bug is X with one plausible bug; no specification uses it.
\* A hit moves lastUsed to the caller's time, even backwards.
Touched_OnlyNew(old, time) == IF old = Absent THEN time ELSE old
Touched(old, time) == time

Locked(g) ==
  LET key == get[g].key
      time == get[g].at
      swept == Sweep(entries, time)
      out == Victims(swept, key)
  IN
  /\ time # Absent
  /\ \E gone \in IF out = {} THEN {{}} ELSE {{v} : v \in out} :
       entries' = [k \in CacheKeys |->
                     IF k = key THEN Touched(swept[k], time)
                     ELSE IF k \in gone THEN Absent ELSE swept[k]]
  /\ usedAt' = [usedAt EXCEPT ![key] = clock]
  /\ get' = [get EXCEPT ![g] = Idle]
  /\ UNCHANGED clock

\* Nobody waits longer than MaxWait.
CacheTick ==
  /\ clock < MaxCacheTime
  /\ \A g \in Getters : get[g].at # Absent => clock < get[g].at + MaxWait
  /\ clock' = clock + 1
  /\ UNCHANGED <<entries, get, usedAt>>

CacheNext ==
  \/ CacheTick
  \/ \E g \in Getters : Locked(g) \/ \E k \in CacheKeys : ReadClock(g, k)

CacheSpec == CacheInit /\ [][CacheNext]_cacheVars

-----------------------------------------------------------------------------
(* Properties.                                                             *)

Gone(k) == entries[k] # Absent /\ entries'[k] = Absent

\* An entry goes because it was idle for its TTL, less at most the time one
\* request waited for the lock, or because the cache was full and no other
\* entry has an older lastUsed: a late caller that sets lastUsed back cannot
\* cost a session in use its server (GetOrCreate).
OnlyIdleEntriesGo ==
  [][\A k \in CacheKeys : Gone(k) =>
       \/ clock + MaxWait > usedAt[k] + CacheTTL
       \/ /\ Cardinality(Held(entries)) = CacheSize
          /\ \A j \in Held(entries') : usedAt[k] <= usedAt'[j] + MaxWait]_cacheVars
=============================================================================
