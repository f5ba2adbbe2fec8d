---------------------------- MODULE ResponseStore ----------------------------
(***************************************************************************)
(* DesignCache::ResponseStore: serialized response payloads guarded by one *)
(* mutex, with a per-name invalidation generation that fences commits.     *)
(* Every operator below is one critical section of ResponseStore::m_mutex. *)
(* A payload is its size and the contents version it describes; the        *)
(* m_designSerializations work counter is left out.                        *)
(***************************************************************************)
EXTENDS CacheTypes

VARIABLES
    entries,        \* m_entriesByName; NoPayload where the name has no entry
    generations     \* m_generationsByName; absent = 0

storeVars == <<entries, generations>>

Payload == [bytes : Nat, ver : Nat]

NoPayload == [bytes |-> 0, ver |-> 0]

StoreTypeOK ==
    /\ entries \in [Names -> Payload]
    /\ generations \in [Names -> Nat]

StoreInit ==
    /\ entries = [n \in Names |-> NoPayload]
    /\ generations = [n \in Names |-> 0]

HasEntry(n) == entries[n] # NoPayload

StoredBytes(n) == entries[n].bytes

CurrentGeneration(n) == generations[n]

\* The generation still is the one the committer captured: TryStore reports
\* `stored`, whether it stored p or found an earlier commit's payload.
TryStoreSucceeds(n, g) == generations[n] = g

\* StoreResult::storedBytes of a successful TryStore.
TryStoreBytes(n, p) == IF HasEntry(n) THEN StoredBytes(n) ELSE p.bytes

\* BUG (mutant): the fence is dropped, a late commit overwrites.
TryStoreUnfenced(n, g, p) ==
    /\ entries' = [entries EXCEPT ![n] = p]
    /\ UNCHANGED generations

TryStore(n, g, p) ==
    /\ entries' = IF TryStoreSucceeds(n, g) /\ ~HasEntry(n)
                  THEN [entries EXCEPT ![n] = p]
                  ELSE entries
    /\ UNCHANGED generations

\* BUG (mutant): a name without payloads keeps its generation.
InvalidateStoredOnly(n) ==
    /\ entries' = [entries EXCEPT ![n] = NoPayload]
    /\ generations' = [generations EXCEPT ![n] = IF HasEntry(n) THEN @ + 1 ELSE @]

StoreInvalidate(n) ==
    /\ entries' = [entries EXCEPT ![n] = NoPayload]
    /\ generations' = [generations EXCEPT ![n] = @ + 1]

StoreClear ==
    /\ entries' = [n \in Names |-> NoPayload]
    /\ generations' = [n \in Names |-> 0]
=============================================================================
