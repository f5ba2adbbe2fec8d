------------------------------ MODULE LruBudget ------------------------------
(***************************************************************************)
(* What DesignCache keeps under m_lruMutex: one LRU entry per name and the *)
(* byte count charged to the budget.  Every operator that primes a         *)
(* variable is one critical section of that mutex; the store's bytes and   *)
(* the names being loaded, which the code reads under the nested locks,    *)
(* are arguments.                                                          *)
(*                                                                         *)
(* Byte counts are std::uint64_t: sums and differences wrap at Word        *)
(* (2^64 in the code).  lastServed time points matter only through their   *)
(* order, kept as servedAfter[n], the names served since n was.            *)
(***************************************************************************)
EXTENDS CacheTypes, FiniteSetsExt

CONSTANTS
    Word            \* number of values of std::uint64_t

ASSUME WordAssumption == Word \in Nat \ {0}

VARIABLES
    charged,        \* the names with an entry in m_lruEntries
    estimated,      \* LruEntry::estimatedBytes, 0 without an entry
    serialized,     \* LruEntry::serializedBytes, 0 without an entry
    servedAfter,    \* the order of LruEntry::lastServed
    cachedBytes,    \* m_cachedBytes
    maxBytes        \* m_maxBytes, 0 disables eviction

lruVars == <<charged, estimated, serialized, servedAfter, cachedBytes, maxBytes>>

U64 == 0 .. Word - 1

LruTypeOK ==
    /\ charged \in SUBSET Names
    /\ estimated \in [Names -> U64]
    /\ serialized \in [Names -> U64]
    /\ servedAfter \in [Names -> SUBSET Names]
    /\ cachedBytes \in U64
    /\ maxBytes \in U64

LruEmpty ==
    /\ charged = {}
    /\ estimated = [n \in Names |-> 0]
    /\ serialized = [n \in Names |-> 0]
    /\ servedAfter = [n \in Names |-> {}]
    /\ cachedBytes = 0

\* lastServed = now().
ServedNow(n) ==
    [m \in Names |-> IF m \in charged \ {n} THEN servedAfter[m] \cup {n} ELSE {}]

TouchLru(n) ==
    /\ servedAfter' = IF n \in charged THEN ServedNow(n) ELSE servedAfter
    /\ UNCHANGED <<charged, estimated, serialized, cachedBytes, maxBytes>>

\* What the entries est, ser of the names in S contribute to m_cachedBytes.
Contribution(est, ser, S) == MapThenSumSet(LAMBDA n : est[n] + ser[n], S)

\* The loop of EvictOverBudgetLocked over a given state of the entries: the
\* victims are taken least recently served first, never the protected name or
\* one being loaded, until the count fits the budget or no candidate is left.
VictimSets(names, est, ser, after, bytes, max, protected, loading) ==
    LET candidates == (names \ protected) \ loading
        oldestFirst == {V \in SUBSET candidates :
                           \A v \in V, m \in candidates \ V : m \in after[v]}
        left(V) == (bytes - Contribution(est, ser, V)) % Word
        mustGoOn(V) == left(V) > max /\ V # candidates
    IN  IF max = 0
        THEN {{}}
        ELSE {V \in oldestFirst :
                 /\ ~mustGoOn(V)
                 /\ \A U \in oldestFirst : U \subseteq V /\ U # V => mustGoOn(U)}

\* BUG (mutant): the payload half of a victim's charge stays on the count.
UnchargeEstimateOnly(V, est, ser, bytes) ==
    (bytes - Contribution(est, [n \in Names |-> 0], V)) % Word

\* The victims' FULL contribution leaves m_cachedBytes with their entries.
Uncharge(V, est, ser, bytes) == (bytes - Contribution(est, ser, V)) % Word

\* Leaves the section with entries est, ser, after of the names charged, having
\* evicted V.
EvictLocked(V, names, est, ser, after, bytes) ==
    /\ charged' = names \ V
    /\ estimated' = [n \in Names |-> IF n \in V THEN 0 ELSE est[n]]
    /\ serialized' = [n \in Names |-> IF n \in V THEN 0 ELSE ser[n]]
    /\ servedAfter' = [n \in Names |-> IF n \in V THEN {} ELSE after[n] \ V]
    /\ cachedBytes' = Uncharge(V, est, ser, bytes)

\* The locked part of InsertLruAndEvict.  `bytes` was estimated before the lock
\* was taken; the stored bytes subtracted from it are read under the lock.
ChargeEntry(n, bytes, stored, loading, V) ==
    LET base == IF n \in charged THEN (bytes - stored) % Word ELSE bytes
        est == [estimated EXCEPT ![n] = base]
        count == (cachedBytes + base - estimated[n]) % Word
        names == charged \cup {n}
    IN  /\ V \in VictimSets(names, est, serialized, ServedNow(n), count,
                            maxBytes, {n}, loading)
        /\ EvictLocked(V, names, est, serialized, ServedNow(n), count)
        /\ UNCHANGED maxBytes

\* The locked part of ResyncLruEstimate.
ResyncEntry(n, bytes, stored) ==
    LET base == (bytes - stored) % Word
    IN  /\ IF n \in charged
           THEN /\ estimated' = [estimated EXCEPT ![n] = base]
                /\ cachedBytes' = (cachedBytes + base - estimated[n]) % Word
           ELSE UNCHANGED <<estimated, cachedBytes>>
        /\ UNCHANGED <<charged, serialized, servedAfter, maxBytes>>

\* The locked part of CommitResponsePayloads after TryStore: the name's payload
\* charge becomes `stored` (the old charge when the commit lost).
ChargePayload(n, stored, loading, V) ==
    LET ser == [serialized EXCEPT ![n] = stored]
        count == (cachedBytes + stored - serialized[n]) % Word
    IN  /\ V \in VictimSets(charged, estimated, ser, servedAfter, count,
                            maxBytes, {n}, loading)
        /\ EvictLocked(V, charged, estimated, ser, servedAfter, count)
        /\ UNCHANGED maxBytes

\* BUG (mutant): the entry forgets its payload charge, the count keeps it.
AdjustEntryOnly(n, stored) ==
    /\ serialized' = IF n \in charged THEN [serialized EXCEPT ![n] = stored]
                                      ELSE serialized
    /\ UNCHANGED <<charged, estimated, servedAfter, cachedBytes, maxBytes>>

AdjustLruSerializedBytes(n, stored) ==
    /\ IF n \in charged
       THEN /\ serialized' = [serialized EXCEPT ![n] = stored]
            /\ cachedBytes' = (cachedBytes - (serialized[n] - stored)) % Word
       ELSE UNCHANGED <<serialized, cachedBytes>>
    /\ UNCHANGED <<charged, estimated, servedAfter, maxBytes>>

\* setCacheMaxBytes: no protected name, shrinking the budget evicts at once.
SetMaxBytes(max, loading, V) ==
    /\ maxBytes' = max
    /\ V \in VictimSets(charged, estimated, serialized, servedAfter, cachedBytes,
                        max, {}, loading)
    /\ EvictLocked(V, charged, estimated, serialized, servedAfter, cachedBytes)

LruClear ==
    /\ charged' = {}
    /\ estimated' = [n \in Names |-> 0]
    /\ serialized' = [n \in Names |-> 0]
    /\ servedAfter' = [n \in Names |-> {}]
    /\ cachedBytes' = 0
    /\ UNCHANGED maxBytes
=============================================================================
