--------------------------- MODULE BackgroundSlots ---------------------------
(***************************************************************************)
(* What DesignCache keeps under m_backgroundMutex, without the condition   *)
(* variables: the slots of the background-load semaphore and the count of  *)
(* detached threads that ~DesignCache drains.  Every operator is one       *)
(* critical section of that mutex; AcquireSlot is enabled when the         *)
(* predicate of the slot wait holds.                                       *)
(*                                                                         *)
(* SlotsSpec is the promise: slots are taken by counted threads only, no   *)
(* counter is ever decremented below zero, and the cache is torn down only *)
(* when no counted thread is left.  BackgroundLoads implements it with     *)
(* mutex, condition variables and notifications.                           *)
(***************************************************************************)
EXTENDS Naturals

CONSTANTS
    InitialMaxLoads     \* DEFAULT_MAX_BACKGROUND_LOADS

ASSUME InitialMaxLoadsAssumption == InitialMaxLoads \in Nat

VARIABLES
    maxLoads,       \* m_maxBackgroundLoads, 0 = unbounded
    active,         \* m_activeBackgroundLoads
    outstanding     \* m_outstandingBackgroundLoads

slotVars == <<maxLoads, active, outstanding>>

SlotsTypeOK == maxLoads \in Nat /\ active \in Nat /\ outstanding \in Nat

SlotsInit ==
    /\ maxLoads = InitialMaxLoads
    /\ active = 0
    /\ outstanding = 0

SlotAvailable == maxLoads = 0 \/ active < maxLoads

AcquireSlot ==
    /\ SlotAvailable
    /\ active' = active + 1
    /\ UNCHANGED <<maxLoads, outstanding>>

ReleaseSlot ==
    /\ active' = active - 1
    /\ UNCHANGED <<maxLoads, outstanding>>

\* BUG (mutant): the thread is spawned without being counted.
CountThreadMissing == UNCHANGED slotVars

CountThread ==
    /\ outstanding' = outstanding + 1
    /\ UNCHANGED <<maxLoads, active>>

UncountThread ==
    /\ outstanding' = outstanding - 1
    /\ UNCHANGED <<maxLoads, active>>

SetMaxLoads(m) ==
    /\ maxLoads' = m
    /\ UNCHANGED <<active, outstanding>>

\* What a step of the counters may be, whoever takes it.
SlotsNext ==
    \/ active < outstanding /\ AcquireSlot
    \/ active > 0 /\ ReleaseSlot
    \/ CountThread
    \/ outstanding > active /\ UncountThread
    \/ maxLoads' \in Nat /\ UNCHANGED <<active, outstanding>>

SlotsSpec == SlotsInit /\ [][SlotsNext]_slotVars
=============================================================================
