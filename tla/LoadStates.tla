------------------------------ MODULE LoadStates ------------------------------
(***************************************************************************)
(* What DesignCache keeps under m_loadStateMutex: the in-flight maps, the  *)
(* load-state map, the epoch that Clear() bumps and the names with a       *)
(* pending asynchronous load.  Every operator that primes a variable is    *)
(* one critical section of that mutex.                                     *)
(*                                                                         *)
(* An in-flight entry stands for the shared_future registered under the    *)
(* name; it carries the state of its promise, which only the thread that   *)
(* registered it (the owner) fulfils.  Load observers are not modelled:    *)
(* the server registers none.                                              *)
(***************************************************************************)
EXTENDS CacheTypes

VARIABLES
    inFlight,       \* m_designsInFlight, m_fileArchivesInFlight
    loadState,      \* m_loadStatesByName; "None" where the map has no entry
    epoch,          \* m_epoch
    pending         \* m_pendingAsyncLoads

loadVars == <<inFlight, loadState, epoch, pending>>

LoadState == {"None", "Unloaded", "Loading", "Loaded", "Failed"}

PromiseStatus == {"none", "pending", "value", "exception"}

Flight == [owner : Threads \cup {NoThread}, status : PromiseStatus, val : Object]

NoFlight == [owner |-> NoThread, status |-> "none", val |-> Nil]

LoadTypeOK ==
    /\ inFlight \in [Kinds -> [Names -> Flight]]
    /\ loadState \in [Names -> LoadState]
    /\ epoch \in Nat
    /\ pending \in SUBSET Names

LoadInit ==
    /\ inFlight = [k \in Kinds |-> [n \in Names |-> NoFlight]]
    /\ loadState = [n \in Names |-> "None"]
    /\ epoch = 0
    /\ pending = {}

GetLoadState(n) == IF loadState[n] = "None" THEN "Unloaded" ELSE loadState[n]

IsInFlight(k, n) == inFlight[k][n].owner # NoThread

WasClearedSince(e) == epoch # e

\* The loader registers the future it will fulfil.
RegisterInFlight(k, n, t) ==
    /\ inFlight' = [inFlight EXCEPT ![k][n] =
                        [owner |-> t, status |-> "pending", val |-> Nil]]
    /\ UNCHANGED <<loadState, epoch, pending>>

\* promise.set_value / promise.set_exception.
FulfilPromise(k, n, status, v) ==
    /\ inFlight' = [inFlight EXCEPT ![k][n].status = status, ![k][n].val = v]
    /\ UNCHANGED <<loadState, epoch, pending>>

EraseInFlight(k, n) ==
    /\ inFlight' = [inFlight EXCEPT ![k][n] = NoFlight]
    /\ UNCHANGED <<loadState, epoch, pending>>

\* Not a transition when the name already is in state `to`.
TransitionLoadState(n, to) ==
    /\ loadState' = IF GetLoadState(n) = to
                    THEN loadState
                    ELSE [loadState EXCEPT ![n] = to]
    /\ UNCHANGED <<inFlight, epoch, pending>>

EraseLoadState(n) ==
    /\ loadState' = [loadState EXCEPT ![n] = "None"]
    /\ UNCHANGED <<inFlight, epoch, pending>>

\* BUG (mutant): Clear() drops the futures other threads wait on.
ClearStatesAndFlights ==
    /\ inFlight' = [k \in Kinds |-> [n \in Names |-> NoFlight]]
    /\ loadState' = [n \in Names |-> "None"]
    /\ epoch' = epoch + 1
    /\ UNCHANGED pending

\* Clear() wipes the states and bumps the epoch; in-flight entries and pending
\* asynchronous loads stay with the threads that own them.
ClearStates ==
    /\ loadState' = [n \in Names |-> "None"]
    /\ epoch' = epoch + 1
    /\ UNCHANGED <<inFlight, pending>>

\* LoadDesignAsync refuses a name that is queued or parsing.
AlreadyLoading(n) == n \in pending \/ \E k \in Kinds : IsInFlight(k, n)

MarkPending(n) ==
    /\ pending' = pending \cup {n}
    /\ UNCHANGED <<inFlight, loadState, epoch>>

UnmarkPending(n) ==
    /\ pending' = pending \ {n}
    /\ UNCHANGED <<inFlight, loadState, epoch>>
=============================================================================
