------------------------ MODULE BackgroundLoadsProofs ------------------------
(***************************************************************************)
(* Proofs about BackgroundLoads, for any finite number of clients and      *)
(* detached threads and any caps: the counters are exact, no wakeup is     *)
(* lost, the destructor returns only when every counted thread is done     *)
(* with the cache, and the condition-variable protocol implements the      *)
(* abstract counters of BackgroundSlots.                                   *)
(*                                                                         *)
(* All of it rests on one inductive invariant, IInv.  TypeOK alone is not  *)
(* inductive: that no counter is decremented below zero needs the exact    *)
(* counts, and that no wakeup is lost needs the number of wakeups under    *)
(* way, not only that there is one.                                        *)
(***************************************************************************)
EXTENDS BackgroundLoads, FiniteSetTheorems, TLAPS

\* What the drain leaves behind, in terms of the sets that are counted.
DrainedSets == dtor = "destroyed" => Alive = {} /\ Counted = {}

IInv == TypeOK /\ CountersExact /\ WakeupsCoverSlots /\ DrainedSets

-----------------------------------------------------------------------------
(* Counting the threads whose program counter lies in a set.               *)

Count(D, f, P) == Cardinality({x \in D : f[x] \in P})

\* The number c of elements inside P after one element moved from x to y.
Moved(c, P, x, y) ==
    IF x \in P /\ y \notin P THEN c - 1
    ELSE IF x \notin P /\ y \in P THEN c + 1 ELSE c

\* A count is a natural number and is zero exactly when no element is inside.
LEMMA CountType ==
    ASSUME NEW D, IsFiniteSet(D), NEW f, NEW P
    PROVE  /\ IsFiniteSet({x \in D : f[x] \in P})
           /\ Count(D, f, P) \in Nat
           /\ Count(D, f, P) = 0 <=> \A x \in D : f[x] \notin P
<1> DEFINE S == {x \in D : f[x] \in P}
<1>1. IsFiniteSet(S)
  BY FS_Subset
<1>2. Cardinality(S) \in Nat /\ (Cardinality(S) = 0 <=> S = {})
  BY <1>1, FS_CardinalityType, FS_EmptySet
<1> QED
  BY <1>1, <1>2 DEF Count

\* Moving one element changes the count by at most one.
LEMMA CountUpdate ==
    \A D, f, g, P : \A w \in D :
        IsFiniteSet(D) /\ (\A x \in D : x # w => g[x] = f[x])
           => Count(D, g, P) = Moved(Count(D, f, P), P, f[w], g[w])
<1> SUFFICES ASSUME NEW D, NEW f, NEW g, NEW P, NEW w \in D, IsFiniteSet(D),
                    \A x \in D : x # w => g[x] = f[x]
             PROVE  Count(D, g, P) = Moved(Count(D, f, P), P, f[w], g[w])
  OBVIOUS
<1> DEFINE S == {x \in D : f[x] \in P}
           T == {x \in D : g[x] \in P}
<1>1. IsFiniteSet(S) /\ Cardinality(S) \in Nat
  BY CountType DEF Count
<1>2. CASE g[w] \in P
  <2>1. T = S \cup {w}
    BY <1>2
  <2>2. Cardinality(T) = IF w \in S THEN Cardinality(S) ELSE Cardinality(S) + 1
    BY <1>1, <2>1, FS_AddElement
  <2> QED
    BY <1>2, <2>2 DEF Count, Moved
<1>3. CASE g[w] \notin P
  <2>1. T = S \ {w}
    BY <1>3
  <2>2. Cardinality(T) = IF w \in S THEN Cardinality(S) - 1 ELSE Cardinality(S)
    BY <1>1, <2>1, FS_RemoveElement
  <2> QED
    BY <1>3, <2>2 DEF Count, Moved
<1> QED
  BY <1>2, <1>3

AlivePc == {"acquire", "waiting", "working", "notifySlot", "uncount"}
WakeupPc == {"acquire", "notifySlot"}
CountedPc == {"spawn", "failed"}

\* The counted sets as counts.
LEMMA SetsAsCounts ==
    /\ Cardinality(Holders) = Count(Workers, wpc, {"working"})
    /\ Cardinality(Alive) = Count(Workers, wpc, AlivePc)
    /\ Cardinality(Wakeups) = Count(Workers, wpc, WakeupPc)
    /\ Cardinality(Counted) = Count(Spawners, spc, CountedPc)
<1>1. Holders = {w \in Workers : wpc[w] \in {"working"}}
  BY DEF Holders
<1> QED
  BY <1>1 DEF Alive, Wakeups, Counted, Count, AlivePc, WakeupPc, CountedPc

\* Spawners are finitely many.
LEMMA SpawnersFinite == IsFiniteSet(Spawners)
  BY WorkersAssumption, FS_Union DEF Spawners

\* The counts are natural numbers and see every member.
LEMMA SetSizes ==
    /\ Cardinality(Holders) \in Nat
    /\ Cardinality(Alive) \in Nat /\ (Cardinality(Alive) = 0 <=> Alive = {})
    /\ Cardinality(Wakeups) \in Nat /\ (Cardinality(Wakeups) = 0 <=> Wakeups = {})
    /\ Cardinality(Counted) \in Nat /\ (Cardinality(Counted) = 0 <=> Counted = {})
    /\ Cardinality(Holders) <= Cardinality(Alive)
    /\ Holders # Alive => Cardinality(Holders) < Cardinality(Alive)
    /\ \A w \in Workers : wpc[w] = "working" => Cardinality(Holders) > 0
<1>1. IsFiniteSet(Holders) /\ IsFiniteSet(Alive) /\ IsFiniteSet(Wakeups)
  BY WorkersAssumption, FS_Subset DEF Holders, Alive, Wakeups
<1>2. IsFiniteSet(Counted)
  BY SpawnersFinite, FS_Subset DEF Counted
<1>3. Holders \in SUBSET Alive
  BY DEF Holders, Alive
<1>4. /\ Cardinality(Holders) <= Cardinality(Alive)
      /\ Cardinality(Alive) = Cardinality(Holders) => Alive = Holders
  BY <1>1, <1>3, FS_Subset
<1>5. /\ Cardinality(Holders) \in Nat /\ Cardinality(Alive) \in Nat
      /\ Cardinality(Wakeups) \in Nat /\ Cardinality(Counted) \in Nat
  BY <1>1, <1>2, FS_CardinalityType
<1>6. /\ Cardinality(Holders) = 0 <=> Holders = {}
      /\ Cardinality(Alive) = 0 <=> Alive = {}
      /\ Cardinality(Wakeups) = 0 <=> Wakeups = {}
      /\ Cardinality(Counted) = 0 <=> Counted = {}
  BY <1>1, <1>2, FS_EmptySet
<1>7. \A w \in Workers : wpc[w] = "working" => Cardinality(Holders) > 0
  BY <1>5, <1>6 DEF Holders
<1> QED
  BY <1>4, <1>5, <1>6, <1>7

\* Only the program counter of the detached thread w changes.
LEMMA WorkerMoves ==
    ASSUME NEW w \in Workers, \A x \in Workers : x # w => wpc'[x] = wpc[x]
    PROVE  /\ Cardinality(Holders') =
                Moved(Cardinality(Holders), {"working"}, wpc[w], wpc'[w])
           /\ Cardinality(Alive') =
                Moved(Cardinality(Alive), AlivePc, wpc[w], wpc'[w])
           /\ Cardinality(Wakeups') =
                Moved(Cardinality(Wakeups), WakeupPc, wpc[w], wpc'[w])
<1>1. ASSUME NEW P
      PROVE  Count(Workers, wpc', P) =
                Moved(Count(Workers, wpc, P), P, wpc[w], wpc'[w])
  BY WorkersAssumption, CountUpdate
<1>2. /\ Cardinality(Holders') = Count(Workers, wpc', {"working"})
      /\ Cardinality(Alive') = Count(Workers, wpc', AlivePc)
      /\ Cardinality(Wakeups') = Count(Workers, wpc', WakeupPc)
  <2>1. Holders' = {x \in Workers : wpc'[x] \in {"working"}}
    BY DEF Holders
  <2> QED
    BY <2>1 DEF Alive, Wakeups, Count, AlivePc, WakeupPc
<1> QED
  BY <1>1, <1>2, SetsAsCounts

\* Only the program counter of the spawner s changes.
LEMMA SpawnerMoves ==
    ASSUME NEW s \in Spawners, \A x \in Spawners : x # s => spc'[x] = spc[x]
    PROVE  Cardinality(Counted') =
                Moved(Cardinality(Counted), CountedPc, spc[s], spc'[s])
<1>1. ASSUME NEW P
      PROVE  Count(Spawners, spc', P) =
                Moved(Count(Spawners, spc, P), P, spc[s], spc'[s])
  BY SpawnersFinite, CountUpdate
<1>2. Cardinality(Counted') = Count(Spawners, spc', CountedPc)
  BY DEF Counted, Count, CountedPc
<1> QED
  BY <1>1, <1>2, SetsAsCounts

-----------------------------------------------------------------------------
(* The invariant is inductive.                                             *)

\* Nothing is counted at the start.
LEMMA InitEstablishes == Init => IInv
<1> SUFFICES ASSUME Init PROVE IInv
  OBVIOUS
<1>1. Holders = {} /\ Alive = {} /\ Counted = {} /\ Sleeping = {}
  BY DEF Init, Holders, Alive, Counted, Sleeping
<1>2. TypeOK
  BY InitialMaxLoadsAssumption
     DEF Init, SlotsInit, TypeOK, SlotsTypeOK, WorkerPc, SpawnPc
<1>3. CountersExact
  BY <1>1, FS_EmptySet DEF Init, SlotsInit, CountersExact
<1> QED
  BY <1>1, <1>2, <1>3 DEF IInv, WakeupsCoverSlots, DrainedSets

\* AcquireBackgroundSlot takes a slot.
LEMMA AcquireStep ==
    ASSUME IInv, NEW w \in Workers, Acquire(w)
    PROVE  IInv'
<1> USE DEF IInv
<1>1. wpc[w] = "acquire" /\ wpc' = [wpc EXCEPT ![w] = "working"]
  BY DEF Acquire
<1>2. /\ wpc'[w] = "working"
      /\ \A x \in Workers : x # w => wpc'[x] = wpc[x]
      /\ wpc' \in [Workers -> WorkerPc]
  BY <1>1 DEF TypeOK, WorkerPc
<1>3. /\ Cardinality(Holders') = Cardinality(Holders) + 1
      /\ Cardinality(Alive') = Cardinality(Alive)
      /\ Cardinality(Wakeups') = Cardinality(Wakeups) - 1
  BY <1>1, <1>2, WorkerMoves DEF Moved, AlivePc, WakeupPc
<1>4. Counted' = Counted
  BY DEF Acquire, Counted
<1>5. TypeOK'
  BY <1>2 DEF Acquire, AcquireSlot, TypeOK, SlotsTypeOK
<1>6. CountersExact'
  BY <1>3, <1>4 DEF Acquire, AcquireSlot, CountersExact
<1>7. WakeupsCoverSlots'
  <2>1. Sleeping' = Sleeping
    BY <1>1, <1>2 DEF Sleeping
  <2> QED
    BY <1>3, <2>1, SetSizes
       DEF Acquire, AcquireSlot, WakeupsCoverSlots, TypeOK, SlotsTypeOK
<1>8. DrainedSets'
  BY <1>1 DEF Acquire, DrainedSets, Alive
<1> QED
  BY <1>5, <1>6, <1>7, <1>8

\* AcquireBackgroundSlot blocks: no slot is free, so none needs a wakeup.
LEMMA WaitStep ==
    ASSUME IInv, NEW w \in Workers, Wait(w)
    PROVE  IInv'
<1> USE DEF IInv
<1>1. wpc[w] = "acquire" /\ wpc' = [wpc EXCEPT ![w] = "waiting"]
  BY DEF Wait
<1>2. /\ wpc'[w] = "waiting"
      /\ \A x \in Workers : x # w => wpc'[x] = wpc[x]
      /\ wpc' \in [Workers -> WorkerPc]
  BY <1>1 DEF TypeOK, WorkerPc
<1>3. /\ Cardinality(Holders') = Cardinality(Holders)
      /\ Cardinality(Alive') = Cardinality(Alive)
      /\ Cardinality(Wakeups') = Cardinality(Wakeups) - 1
  BY <1>1, <1>2, WorkerMoves DEF Moved, AlivePc, WakeupPc
<1>4. Counted' = Counted
  BY DEF Wait, Counted
<1>5. TypeOK'
  BY <1>2 DEF Wait, slotVars, TypeOK, SlotsTypeOK
<1>6. CountersExact'
  BY <1>3, <1>4 DEF Wait, slotVars, CountersExact
<1>7. WakeupsCoverSlots'
  <2>1. Wakeups # {}
    BY <1>1 DEF Wakeups
  <2>2. Cardinality(Wakeups') \in Nat
    BY <1>3, <2>1, SetSizes
  <2> QED
    BY <2>2 DEF Wait, SlotAvailable, slotVars, WakeupsCoverSlots, TypeOK, SlotsTypeOK
<1>8. DrainedSets'
  BY <1>1 DEF Wait, DrainedSets, Alive
<1> QED
  BY <1>5, <1>6, <1>7, <1>8

\* A spurious wakeup only adds one.
LEMMA SpuriousWakeupStep ==
    ASSUME IInv, NEW w \in Workers, SpuriousWakeup(w)
    PROVE  IInv'
<1> USE DEF IInv
<1>1. wpc[w] = "waiting" /\ wpc' = [wpc EXCEPT ![w] = "acquire"]
  BY DEF SpuriousWakeup
<1>2. /\ wpc'[w] = "acquire"
      /\ \A x \in Workers : x # w => wpc'[x] = wpc[x]
      /\ wpc' \in [Workers -> WorkerPc]
  BY <1>1 DEF TypeOK, WorkerPc
<1>3. /\ Cardinality(Holders') = Cardinality(Holders)
      /\ Cardinality(Alive') = Cardinality(Alive)
      /\ Cardinality(Wakeups') = Cardinality(Wakeups) + 1
  BY <1>1, <1>2, WorkerMoves DEF Moved, AlivePc, WakeupPc
<1>4. Counted' = Counted
  BY DEF SpuriousWakeup, Counted
<1>5. TypeOK'
  BY <1>2 DEF SpuriousWakeup, slotVars, TypeOK, SlotsTypeOK
<1>6. CountersExact'
  BY <1>3, <1>4 DEF SpuriousWakeup, slotVars, CountersExact
<1>7. WakeupsCoverSlots'
  <2>1. Sleeping' # {} => Sleeping # {}
    BY <1>1 DEF Sleeping
  <2> QED
    BY <1>3, <2>1, SetSizes
       DEF SpuriousWakeup, slotVars, WakeupsCoverSlots, TypeOK, SlotsTypeOK
<1>8. DrainedSets'
  BY <1>1 DEF SpuriousWakeup, DrainedSets, Alive
<1> QED
  BY <1>5, <1>6, <1>7, <1>8

\* ReleaseBackgroundSlot frees a slot and owes a notification.
LEMMA ReleaseStep ==
    ASSUME IInv, NEW w \in Workers, Release(w)
    PROVE  IInv'
<1> USE DEF IInv
<1>1. wpc[w] = "working" /\ wpc' = [wpc EXCEPT ![w] = "notifySlot"]
  BY DEF Release
<1>2. /\ wpc'[w] = "notifySlot"
      /\ \A x \in Workers : x # w => wpc'[x] = wpc[x]
      /\ wpc' \in [Workers -> WorkerPc]
  BY <1>1 DEF TypeOK, WorkerPc
<1>3. /\ Cardinality(Holders') = Cardinality(Holders) - 1
      /\ Cardinality(Alive') = Cardinality(Alive)
      /\ Cardinality(Wakeups') = Cardinality(Wakeups) + 1
  BY <1>1, <1>2, WorkerMoves DEF Moved, AlivePc, WakeupPc
<1>4. Counted' = Counted
  BY DEF Release, Counted
<1>5. TypeOK'
  BY <1>1, <1>2, SetSizes
     DEF Release, ReleaseSlot, CountersExact, TypeOK, SlotsTypeOK
<1>6. CountersExact'
  BY <1>3, <1>4 DEF Release, ReleaseSlot, CountersExact
<1>7. WakeupsCoverSlots'
  <2>1. Sleeping' = Sleeping
    BY <1>1, <1>2 DEF Sleeping
  <2> QED
    BY <1>3, <2>1, SetSizes
       DEF Release, ReleaseSlot, WakeupsCoverSlots, TypeOK, SlotsTypeOK
<1>8. DrainedSets'
  BY <1>1 DEF Release, DrainedSets, Alive
<1> QED
  BY <1>5, <1>6, <1>7, <1>8

\* A detached thread takes its count back.
LEMMA UncountStep ==
    ASSUME IInv, NEW w \in Workers, Uncount(w)
    PROVE  IInv'
<1> USE DEF IInv
<1>1. wpc[w] = "uncount" /\ wpc' = [wpc EXCEPT ![w] = "notifyDone"]
  BY DEF Uncount
<1>2. /\ wpc'[w] = "notifyDone"
      /\ \A x \in Workers : x # w => wpc'[x] = wpc[x]
      /\ wpc' \in [Workers -> WorkerPc]
  BY <1>1 DEF TypeOK, WorkerPc
<1>3. /\ Cardinality(Holders') = Cardinality(Holders)
      /\ Cardinality(Alive') = Cardinality(Alive) - 1
      /\ Cardinality(Wakeups') = Cardinality(Wakeups)
  BY <1>1, <1>2, WorkerMoves DEF Moved, AlivePc, WakeupPc
<1>4. Counted' = Counted
  BY DEF Uncount, Counted
<1>5. TypeOK'
  <2>1. Alive # {}
    BY <1>1 DEF Alive
  <2> QED
    BY <1>2, <2>1, SetSizes
       DEF Uncount, UncountThread, CountersExact, TypeOK, SlotsTypeOK
<1>6. CountersExact'
  BY <1>3, <1>4, SetSizes DEF Uncount, UncountThread, CountersExact
<1>7. WakeupsCoverSlots'
  <2>1. Sleeping' = Sleeping
    BY <1>1, <1>2 DEF Sleeping
  <2> QED
    BY <1>3, <2>1, SetSizes
       DEF Uncount, UncountThread, WakeupsCoverSlots, TypeOK, SlotsTypeOK
<1>8. DrainedSets'
  BY <1>1 DEF Uncount, DrainedSets, Alive
<1> QED
  BY <1>5, <1>6, <1>7, <1>8

\* The last notification of a detached thread touches no counter.
LEMMA ExitNotifyStep ==
    ASSUME IInv, NEW w \in Workers, ExitNotify(w)
    PROVE  IInv'
<1> USE DEF IInv
<1>1. wpc[w] = "notifyDone" /\ wpc' = [wpc EXCEPT ![w] = "exited"]
  BY DEF ExitNotify
<1>2. /\ wpc'[w] = "exited"
      /\ \A x \in Workers : x # w => wpc'[x] = wpc[x]
      /\ wpc' \in [Workers -> WorkerPc]
  BY <1>1 DEF TypeOK, WorkerPc
<1>3. /\ Cardinality(Holders') = Cardinality(Holders)
      /\ Cardinality(Alive') = Cardinality(Alive)
      /\ Cardinality(Wakeups') = Cardinality(Wakeups)
  BY <1>1, <1>2, WorkerMoves DEF Moved, AlivePc, WakeupPc
<1>4. Counted' = Counted
  BY DEF ExitNotify, Counted
<1>5. TypeOK'
  BY <1>2 DEF ExitNotify, NotifyDone, slotVars, TypeOK, SlotsTypeOK
<1>6. CountersExact'
  BY <1>3, <1>4 DEF ExitNotify, slotVars, CountersExact
<1>7. WakeupsCoverSlots'
  <2>1. Sleeping' = Sleeping
    BY <1>1, <1>2 DEF Sleeping
  <2> QED
    BY <1>3, <2>1, SetSizes
       DEF ExitNotify, slotVars, WakeupsCoverSlots, TypeOK, SlotsTypeOK
<1>8. DrainedSets'
  <2>1. Alive' = Alive
    BY <1>1, <1>2 DEF Alive
  <2> QED
    BY <1>4, <2>1 DEF ExitNotify, NotifyDone, DrainedSets, TypeOK
<1> QED
  BY <1>5, <1>6, <1>7, <1>8

\* notify_one after a release: the wakeup moves to a sleeper, if there is one.
LEMMA ReleaseNotifyStep ==
    ASSUME IInv, NEW w \in Workers, ReleaseNotify(w)
    PROVE  IInv'
<1> USE DEF IInv
<1> DEFINE pc0 == [wpc EXCEPT ![w] = "uncount"]
<1>1. wpc[w] = "notifySlot" /\ wpc \in [Workers -> WorkerPc]
  BY DEF ReleaseNotify, TypeOK
<1>2. wpc' \in [Workers -> WorkerPc]
  BY <1>1 DEF ReleaseNotify, NotifyOneSlot, WorkerPc
<1>3. Holders' = Holders /\ Alive' = Alive /\ Counted' = Counted
  BY <1>1 DEF ReleaseNotify, NotifyOneSlot, Holders, Alive, Counted
<1>4. TypeOK'
  BY <1>2 DEF ReleaseNotify, slotVars, TypeOK, SlotsTypeOK
<1>5. CountersExact'
  BY <1>3 DEF ReleaseNotify, slotVars, CountersExact
<1>6. WakeupsCoverSlots'
  <2>1. CASE Sleeping = {}
    <3>1. wpc' = pc0
      BY <2>1 DEF ReleaseNotify, NotifyOneSlot, Sleeping
    <3>2. Sleeping' = {}
      BY <1>1, <2>1, <3>1 DEF Sleeping
    <3> QED
      BY <3>2 DEF WakeupsCoverSlots
  <2>2. CASE Sleeping # {}
    <3>1. PICK v \in Workers : wpc[v] = "waiting" /\ wpc' = [pc0 EXCEPT ![v] = "acquire"]
      BY <2>2 DEF ReleaseNotify, NotifyOneSlot, Sleeping
    <3>2. Wakeups' = (Wakeups \ {w}) \cup {v}
      BY <1>1, <3>1 DEF Wakeups
    <3>3. w \in Wakeups /\ v \notin Wakeups /\ IsFiniteSet(Wakeups)
      BY <1>1, <3>1, WorkersAssumption, FS_Subset DEF Wakeups
    <3>4. /\ IsFiniteSet(Wakeups \ {w})
          /\ Cardinality(Wakeups \ {w}) = Cardinality(Wakeups) - 1
      BY <3>3, FS_RemoveElement
    <3>5. Cardinality(Wakeups') = Cardinality(Wakeups \ {w}) + 1
      BY <3>2, <3>3, <3>4, FS_AddElement
    <3>6. Cardinality(Wakeups') = Cardinality(Wakeups)
      BY <3>4, <3>5, SetSizes
    <3> QED
      BY <2>2, <3>6 DEF ReleaseNotify, slotVars, WakeupsCoverSlots
  <2> QED
    BY <2>1, <2>2
<1>7. DrainedSets'
  BY <1>3 DEF ReleaseNotify, DrainedSets
<1> QED
  BY <1>4, <1>5, <1>6, <1>7

\* A call counts the thread it is about to spawn; the destructor has not returned.
LEMMA CountSpawnStep ==
    ASSUME IInv, NEW s \in Spawners, CountSpawn(s)
    PROVE  IInv'
<1> USE DEF IInv
<1>1. /\ spc[s] = "idle" /\ spc'[s] = "spawn"
      /\ \A x \in Spawners : x # s => spc'[x] = spc[x]
      /\ spc' \in [Spawners -> SpawnPc]
  BY DEF CountSpawn, TypeOK, SpawnPc
<1>2. Cardinality(Counted') = Cardinality(Counted) + 1
  BY <1>1, SpawnerMoves DEF Moved, CountedPc
<1>3. Holders' = Holders /\ Alive' = Alive /\ Wakeups' = Wakeups /\ Sleeping' = Sleeping
  BY DEF CountSpawn, Holders, Alive, Wakeups, Sleeping
<1>4. TypeOK'
  BY <1>1 DEF CountSpawn, CountThread, TypeOK, SlotsTypeOK
<1>5. CountersExact'
  BY <1>2, <1>3, SetSizes DEF CountSpawn, CountThread, CountersExact
<1>6. WakeupsCoverSlots'
  BY <1>3 DEF CountSpawn, CountThread, WakeupsCoverSlots
<1>7. DrainedSets'
  BY DEF CountSpawn, MaySpawn, DrainedSets, Alive, Spawners
<1> QED
  BY <1>4, <1>5, <1>6, <1>7

\* The count passes from the spawner to the thread it spawns.
LEMMA SpawnStepPreserves ==
    ASSUME IInv, NEW s \in Spawners, NEW w \in Workers, Spawn(s, w)
    PROVE  IInv'
<1> USE DEF IInv
<1>1. /\ spc[s] = "spawn" /\ spc'[s] = "done"
      /\ \A x \in Spawners : x # s => spc'[x] = spc[x]
      /\ spc' \in [Spawners -> SpawnPc]
  BY DEF Spawn, TypeOK, SpawnPc
<1>2. /\ wpc[w] = "unborn" /\ wpc'[w] = "acquire"
      /\ \A x \in Workers : x # w => wpc'[x] = wpc[x]
      /\ wpc' \in [Workers -> WorkerPc]
  BY DEF Spawn, TypeOK, WorkerPc
<1>3. Cardinality(Counted') = Cardinality(Counted) - 1
  BY <1>1, SpawnerMoves DEF Moved, CountedPc
<1>4. /\ Cardinality(Holders') = Cardinality(Holders)
      /\ Cardinality(Alive') = Cardinality(Alive) + 1
      /\ Cardinality(Wakeups') = Cardinality(Wakeups) + 1
  BY <1>2, WorkerMoves DEF Moved, AlivePc, WakeupPc
<1>5. TypeOK'
  BY <1>1, <1>2 DEF Spawn, slotVars, TypeOK, SlotsTypeOK
<1>6. CountersExact'
  BY <1>3, <1>4, SetSizes DEF Spawn, slotVars, CountersExact
<1>7. WakeupsCoverSlots'
  <2>1. Sleeping' = Sleeping
    BY <1>2 DEF Sleeping
  <2> QED
    BY <1>4, <2>1, SetSizes
       DEF Spawn, slotVars, WakeupsCoverSlots, TypeOK, SlotsTypeOK
<1>8. DrainedSets'
  BY <1>1 DEF Spawn, DrainedSets, Counted
<1> QED
  BY <1>5, <1>6, <1>7, <1>8

\* A failed spawn keeps its count until it takes it back.
LEMMA SpawnFailsStep ==
    ASSUME IInv, NEW s \in Spawners, SpawnFails(s)
    PROVE  IInv'
<1> USE DEF IInv
<1>1. /\ Counted' = Counted
      /\ Holders' = Holders /\ Alive' = Alive /\ Wakeups' = Wakeups /\ Sleeping' = Sleeping
  BY DEF SpawnFails, TypeOK, Counted, Holders, Alive, Wakeups, Sleeping
<1>2. TypeOK'
  BY DEF SpawnFails, slotVars, TypeOK, SlotsTypeOK, SpawnPc
<1> QED
  BY <1>1, <1>2
     DEF SpawnFails, slotVars, CountersExact, WakeupsCoverSlots, DrainedSets

\* The failure path of a spawn takes the count back.
LEMMA SpawnUncountStep ==
    ASSUME IInv, NEW s \in Spawners, SpawnUncount(s)
    PROVE  IInv'
<1> USE DEF IInv
<1>1. /\ spc[s] = "failed" /\ spc'[s] = "notifyDone"
      /\ \A x \in Spawners : x # s => spc'[x] = spc[x]
      /\ spc' \in [Spawners -> SpawnPc]
  BY DEF SpawnUncount, TypeOK, SpawnPc
<1>2. Cardinality(Counted') = Cardinality(Counted) - 1 /\ Counted # {}
  BY <1>1, SpawnerMoves DEF Moved, CountedPc, Counted
<1>3. Holders' = Holders /\ Alive' = Alive /\ Wakeups' = Wakeups /\ Sleeping' = Sleeping
  BY DEF SpawnUncount, Holders, Alive, Wakeups, Sleeping
<1>4. TypeOK'
  BY <1>1, <1>2, SetSizes
     DEF SpawnUncount, UncountThread, CountersExact, TypeOK, SlotsTypeOK
<1>5. CountersExact'
  BY <1>2, <1>3, SetSizes DEF SpawnUncount, UncountThread, CountersExact
<1>6. WakeupsCoverSlots' /\ DrainedSets'
  BY <1>2, <1>3 DEF SpawnUncount, UncountThread, WakeupsCoverSlots, DrainedSets
<1> QED
  BY <1>4, <1>5, <1>6

\* The notification of the failure path touches no counter.
LEMMA SpawnNotifyStep ==
    ASSUME IInv, NEW s \in Spawners, SpawnNotify(s)
    PROVE  IInv'
<1> USE DEF IInv
<1>1. /\ Counted' = Counted
      /\ Holders' = Holders /\ Alive' = Alive /\ Wakeups' = Wakeups /\ Sleeping' = Sleeping
  BY DEF SpawnNotify, TypeOK, Counted, Holders, Alive, Wakeups, Sleeping
<1>2. TypeOK'
  BY DEF SpawnNotify, NotifyDone, slotVars, TypeOK, SlotsTypeOK, SpawnPc
<1> QED
  BY <1>1, <1>2
     DEF SpawnNotify, NotifyDone, slotVars, CountersExact, WakeupsCoverSlots,
         DrainedSets, TypeOK

\* setMaxBackgroundLoads changes the cap and owes a notify_all.
LEMMA SetMaxStep ==
    ASSUME IInv, SetMax
    PROVE  IInv'
<1> USE DEF IInv
<1>1. /\ Counted' = Counted
      /\ Holders' = Holders /\ Alive' = Alive
  BY DEF SetMax, Counted, Holders, Alive
<1>2. TypeOK'
  BY CapsAssumption DEF SetMax, SetMaxLoads, TypeOK, SlotsTypeOK
<1> QED
  BY <1>1, <1>2
     DEF SetMax, SetMaxLoads, CountersExact, WakeupsCoverSlots, DrainedSets

\* notify_all leaves no sleeper.
LEMMA SetMaxNotifyStep ==
    ASSUME IInv, SetMaxNotify
    PROVE  IInv'
<1> USE DEF IInv
<1>1. /\ Counted' = Counted /\ Holders' = Holders /\ Alive' = Alive /\ Sleeping' = {}
  BY DEF SetMaxNotify, NotifyAllSlots, TypeOK, Counted, Holders, Alive, Sleeping
<1>2. TypeOK'
  BY DEF SetMaxNotify, NotifyAllSlots, slotVars, TypeOK, SlotsTypeOK, WorkerPc
<1> QED
  BY <1>1, <1>2
     DEF SetMaxNotify, slotVars, CountersExact, WakeupsCoverSlots, DrainedSets

\* Steps of the destructor: it returns only when the count is zero, and then no
\* thread is counted.
LEMMA DestructorStep ==
    ASSUME IInv, Destroy \/ Drain \/ DrainSpuriousWakeup
    PROVE  IInv'
<1> USE DEF IInv
<1>1. /\ Counted' = Counted /\ Holders' = Holders /\ Alive' = Alive
      /\ Wakeups' = Wakeups /\ Sleeping' = Sleeping
  BY DEF Destroy, Drain, DrainSpuriousWakeup, Counted, Holders, Alive, Wakeups, Sleeping
<1>2. TypeOK'
  BY DEF Destroy, Drain, DrainSpuriousWakeup, slotVars, TypeOK, SlotsTypeOK
<1>3. CountersExact' /\ WakeupsCoverSlots'
  BY <1>1
     DEF Destroy, Drain, DrainSpuriousWakeup, slotVars, CountersExact, WakeupsCoverSlots
<1>4. outstanding = 0 => Alive = {} /\ Counted = {}
  BY SetSizes DEF CountersExact
<1>5. DrainedSets'
  BY <1>1, <1>4 DEF Destroy, Drain, DrainSpuriousWakeup, DrainedSets
<1> QED
  BY <1>2, <1>3, <1>5

\* Every step preserves the invariant.
LEMMA NextPreserves == IInv /\ [Next]_vars => IInv'
<1> SUFFICES ASSUME IInv, [Next]_vars PROVE IInv'
  OBVIOUS
<1>1. ASSUME NEW w \in Workers, WorkerStep(w) \/ SpuriousWakeup(w)
      PROVE  IInv'
  BY <1>1, AcquireStep, WaitStep, SpuriousWakeupStep, ReleaseStep, ReleaseNotifyStep,
     UncountStep, ExitNotifyStep DEF WorkerStep
<1>2. ASSUME NEW s \in Spawners, SpawnStep(s)
      PROVE  IInv'
  BY <1>2, CountSpawnStep, SpawnStepPreserves, SpawnFailsStep, SpawnUncountStep,
     SpawnNotifyStep DEF SpawnStep
<1>3. CASE SetMax \/ SetMaxNotify
  BY <1>3, SetMaxStep, SetMaxNotifyStep
<1>4. CASE Destroy \/ Drain \/ DrainSpuriousWakeup
  BY <1>4, DestructorStep
<1>5. CASE Finished \/ UNCHANGED vars
  BY <1>5
     DEF Finished, vars, IInv, TypeOK, SlotsTypeOK, CountersExact, WakeupsCoverSlots,
         DrainedSets, Holders, Alive, Counted, Wakeups, Sleeping
<1> QED
  BY <1>1, <1>2, <1>3, <1>4, <1>5 DEF Next

\* IInv holds in every reachable state.
THEOREM Invariance == Spec => []IInv
<1>1. Init => IInv
  BY InitEstablishes
<1>2. IInv /\ [Next]_vars => IInv'
  BY NextPreserves
<1> QED
  BY <1>1, <1>2, PTL DEF Spec

-----------------------------------------------------------------------------
(* What follows from it.                                                   *)

\* Type correctness: no counter of the semaphore or of the drain, unsigned in the
\* code, is ever decremented below zero.
THEOREM TypeCorrectness == Spec => []TypeOK
<1>1. IInv => TypeOK
  BY DEF IInv
<1> QED
  BY <1>1, Invariance, PTL

\* The counters are exact at every instant, for any number of threads: no path
\* through LoadDesignAsync, ScheduleResponsePreSerialization, BackgroundLoad or
\* PreSerializeWorker leaks a count or returns one twice.
THEOREM ExactCounters == Spec => []CountersExact
<1>1. IInv => CountersExact
  BY DEF IInv
<1> QED
  BY <1>1, Invariance, PTL

\* As long as a thread sleeps on m_backgroundSlotCv, at least as many wakeups are
\* under way as there are free slots, or a notify_all is due.
THEOREM WakeupsAreEnough == Spec => []WakeupsCoverSlots
<1>1. IInv => WakeupsCoverSlots
  BY DEF IInv
<1> QED
  BY <1>1, Invariance, PTL

\* No wakeup of m_backgroundSlotCv is lost, although every notification is sent
\* after the mutex is released and only one thread is notified per release.
THEOREM NoWakeupIsLost == Spec => []NoLostWakeup
<1>1. IInv => NoLostWakeup
  <2> SUFFICES ASSUME IInv, SlotAvailable, setter # "notify",
                      NEW v \in Workers, wpc[v] = "waiting"
               PROVE  \E w \in Workers : wpc[w] \in {"acquire", "notifySlot"}
    BY DEF NoLostWakeup
  <2>1. Sleeping # {} /\ setter = "idle"
    BY DEF Sleeping, IInv, TypeOK
  <2>2. maxLoads # 0 /\ maxLoads <= active + Cardinality(Wakeups) /\ active < maxLoads
    BY <2>1 DEF IInv, WakeupsCoverSlots, SlotAvailable
  <2>3. Wakeups # {}
    BY <2>2, SetSizes DEF IInv, TypeOK, SlotsTypeOK
  <2> QED
    BY <2>3 DEF Wakeups
<1> QED
  BY <1>1, Invariance, PTL

\* ~DesignCache returns only when no detached thread will use the cache's state
\* again and no call is about to spawn one.
THEOREM TeardownIsDrained == Spec => []DrainedBeforeTeardown
<1>1. IInv => DrainedBeforeTeardown
  <2> SUFFICES ASSUME IInv, dtor = "destroyed"
               PROVE  /\ \A w \in Workers : wpc[w] \in {"unborn", "notifyDone", "exited"}
                      /\ \A s \in Spawners : spc[s] \in {"idle", "notifyDone", "done"}
    BY DEF DrainedBeforeTeardown
  <2>1. Alive = {} /\ Counted = {}
    BY DEF IInv, DrainedSets
  <2>2. \A w \in Workers : wpc[w] \in WorkerPc /\ w \notin Alive
    BY <2>1 DEF IInv, TypeOK
  <2>3. \A s \in Spawners : spc[s] \in SpawnPc /\ s \notin Counted
    BY <2>1 DEF IInv, TypeOK
  <2> QED
    BY <2>2, <2>3 DEF WorkerPc, SpawnPc, Alive, Counted
<1> QED
  BY <1>1, Invariance, PTL

\* The protocol with condition variables implements the abstract counters of
\* BackgroundSlots: a slot is only ever taken under the cap and by a counted
\* thread, and a count is only given back by a thread that holds no slot.
THEOREM Refinement == Spec => ImplementsSlots
<1>1. Init => SlotsInit
  BY DEF Init
<1>2. IInv /\ [Next]_vars => [SlotsNext]_slotVars
  <2> SUFFICES ASSUME IInv, [Next]_vars
               PROVE  SlotsNext \/ UNCHANGED slotVars
    OBVIOUS
  <2> USE DEF IInv
  <2>1. ASSUME NEW w \in Workers, Acquire(w)
        PROVE  SlotsNext
    <3>1. w \in Alive /\ w \notin Holders
      BY <2>1 DEF Acquire, Alive, Holders
    <3>2. Cardinality(Holders) < Cardinality(Alive)
      BY <3>1, SetSizes
    <3>3. active < outstanding
      BY <3>2, SetSizes DEF CountersExact
    <3> QED
      BY <2>1, <3>3 DEF Acquire, SlotsNext
  <2>2. ASSUME NEW w \in Workers, Release(w)
        PROVE  SlotsNext
    BY <2>2, SetSizes DEF Release, SlotsNext, CountersExact
  <2>3. ASSUME NEW w \in Workers, Uncount(w)
        PROVE  SlotsNext
    <3>1. w \in Alive /\ w \notin Holders
      BY <2>3 DEF Uncount, Alive, Holders
    <3>2. outstanding > active
      BY <3>1, SetSizes DEF CountersExact
    <3> QED
      BY <2>3, <3>2 DEF Uncount, SlotsNext
  <2>4. ASSUME NEW s \in Spawners, SpawnUncount(s)
        PROVE  SlotsNext
    <3>1. Counted # {}
      BY <2>4 DEF SpawnUncount, Counted
    <3>2. outstanding > active
      BY <3>1, SetSizes DEF CountersExact
    <3> QED
      BY <2>4, <3>2 DEF SpawnUncount, SlotsNext
  <2>5. ASSUME NEW s \in Spawners, CountSpawn(s)
        PROVE  SlotsNext
    BY <2>5 DEF CountSpawn, SlotsNext
  <2>6. ASSUME SetMax
        PROVE  SlotsNext
    BY <2>6, CapsAssumption DEF SetMax, SetMaxLoads, SlotsNext
  <2>7. ASSUME NEW w \in Workers,
               Wait(w) \/ SpuriousWakeup(w) \/ ReleaseNotify(w) \/ ExitNotify(w)
        PROVE  UNCHANGED slotVars
    BY <2>7 DEF Wait, SpuriousWakeup, ReleaseNotify, ExitNotify
  <2>8. ASSUME NEW s \in Spawners,
               (\E w \in Workers : Spawn(s, w)) \/ SpawnFails(s) \/ SpawnNotify(s)
        PROVE  UNCHANGED slotVars
    BY <2>8 DEF Spawn, SpawnFails, SpawnNotify
  <2>9. ASSUME SetMaxNotify \/ Destroy \/ Drain \/ DrainSpuriousWakeup \/ Finished
               \/ UNCHANGED vars
        PROVE  UNCHANGED slotVars
    BY <2>9 DEF SetMaxNotify, Destroy, Drain, DrainSpuriousWakeup, Finished, vars,
                slotVars
  <2> QED
    BY <2>1, <2>2, <2>3, <2>4, <2>5, <2>6, <2>7, <2>8, <2>9
       DEF Next, WorkerStep, SpawnStep
<1> QED
  BY <1>1, <1>2, Invariance, PTL DEF Spec, ImplementsSlots, SlotsSpec
=============================================================================
