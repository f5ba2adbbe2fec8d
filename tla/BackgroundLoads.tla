--------------------------- MODULE BackgroundLoads ---------------------------
(***************************************************************************)
(* The background threads of DesignCache: the counting semaphore that      *)
(* bounds concurrent parses and serializations, and the count of detached  *)
(* threads that the destructor drains, with the condition variables the    *)
(* code uses (m_backgroundSlotCv, m_backgroundDoneCv).                     *)
(*                                                                         *)
(* A thread that blocks on a condition variable leaves the mutex and       *)
(* becomes a waiter in one step; a notification makes waiters "woken", and *)
(* a woken thread takes the mutex again to evaluate its predicate.  C++    *)
(* permits spurious wakeups.  Notifications are steps of their own: the    *)
(* code sends every one of them after it has released the mutex.           *)
(***************************************************************************)
EXTENDS BackgroundSlots, FiniteSets

CONSTANTS
    Workers,        \* the detached threads that can be spawned, each once
    Clients,        \* threads that call LoadDesignAsync
    Caps            \* values given to setMaxBackgroundLoads

ASSUME WorkersAssumption == IsFiniteSet(Workers) /\ IsFiniteSet(Clients)
ASSUME CapsAssumption == Caps \subseteq Nat
ASSUME DisjointAssumption == Workers \cap Clients = {}

VARIABLES
    wpc,            \* where each detached thread is
    job,            \* "load" (BackgroundLoad) or "serialize" (PreSerializeWorker)
    spc,            \* where each thread is in spawning a detached thread
    setter,         \* setMaxBackgroundLoads: "idle" or "notify"
    dtor            \* ~DesignCache: "up", "check", "waiting", "destroyed"

vars == <<maxLoads, active, outstanding, wpc, job, spc, setter, dtor>>

WorkerPc == {"unborn", "acquire", "waiting", "working", "notifySlot", "uncount",
             "notifyDone", "exited"}

\* Spawners: LoadDesignAsync runs on client threads,
\* ScheduleResponsePreSerialization on whichever thread completed a load.
Spawners == Clients \cup Workers

SpawnPc == {"idle", "spawn", "failed", "notifyDone", "done"}

TypeOK ==
    /\ SlotsTypeOK
    /\ wpc \in [Workers -> WorkerPc]
    /\ job \in [Workers -> {"load", "serialize"}]
    /\ spc \in [Spawners -> SpawnPc]
    /\ setter \in {"idle", "notify"}
    /\ dtor \in {"up", "check", "waiting", "destroyed"}

Init ==
    /\ SlotsInit
    /\ wpc = [w \in Workers |-> "unborn"]
    /\ job = [w \in Workers |-> "load"]
    /\ spc = [s \in Spawners |-> "idle"]
    /\ setter = "idle"
    /\ dtor = "up"

-----------------------------------------------------------------------------
(* Notifications.                                                          *)

\* m_backgroundSlotCv.notify_one(): one waiter, if there is one, is woken and
\* goes back to evaluating the predicate.  pc0 is wpc with the notifier moved.
NotifyOneSlot(pc0) ==
    \/ \E w \in Workers :
          /\ wpc[w] = "waiting"
          /\ wpc' = [pc0 EXCEPT ![w] = "acquire"]
    \/ /\ \A w \in Workers : wpc[w] # "waiting"
       /\ wpc' = pc0

\* m_backgroundSlotCv.notify_all().
NotifyAllSlots ==
    wpc' = [w \in Workers |-> IF wpc[w] = "waiting" THEN "acquire" ELSE wpc[w]]

\* m_backgroundDoneCv.notify_all(): only the destructor waits on it.
NotifyDone == dtor' = IF dtor = "waiting" THEN "check" ELSE dtor

-----------------------------------------------------------------------------
(* Spawning a detached thread: LoadDesignAsync on a client,                *)
(* ScheduleResponsePreSerialization on a thread inside GetDesign.          *)

\* A client may call the cache until it is being destroyed; a worker schedules
\* the serialization of the design it has just loaded.
MaySpawn(s) ==
    IF s \in Clients
    THEN dtor = "up"
    ELSE wpc[s] = "working" /\ job[s] = "load"

CountSpawn(s) ==
    /\ spc[s] = "idle"
    /\ MaySpawn(s)
    /\ CountThread
    /\ spc' = [spc EXCEPT ![s] = "spawn"]
    /\ UNCHANGED <<wpc, job, setter, dtor>>

Spawn(s, w) ==
    /\ spc[s] = "spawn"
    /\ wpc[w] = "unborn"
    /\ wpc' = [wpc EXCEPT ![w] = "acquire"]
    /\ \E j \in {"load", "serialize"} :
          /\ s \in Workers => j = "serialize"
          /\ job' = [job EXCEPT ![w] = j]
    /\ spc' = [spc EXCEPT ![s] = "done"]
    /\ UNCHANGED <<slotVars, setter, dtor>>

\* std::thread's constructor throws.
SpawnFails(s) ==
    /\ spc[s] = "spawn"
    /\ spc' = [spc EXCEPT ![s] = "failed"]
    /\ UNCHANGED <<slotVars, wpc, job, setter, dtor>>

\* BUG (mutant): the failure path forgets to take its count back.
SpawnUncountForgotten(s) ==
    /\ spc[s] = "failed"
    /\ spc' = [spc EXCEPT ![s] = "notifyDone"]
    /\ UNCHANGED <<slotVars, wpc, job, setter, dtor>>

SpawnUncount(s) ==
    /\ spc[s] = "failed"
    /\ UncountThread
    /\ spc' = [spc EXCEPT ![s] = "notifyDone"]
    /\ UNCHANGED <<wpc, job, setter, dtor>>

SpawnNotify(s) ==
    /\ spc[s] = "notifyDone"
    /\ NotifyDone
    /\ spc' = [spc EXCEPT ![s] = "done"]
    /\ UNCHANGED <<slotVars, wpc, job, setter>>

-----------------------------------------------------------------------------
(* A detached thread: BackgroundLoad or PreSerializeWorker.                *)

\* BUG (mutant): a thread that was woken does not evaluate the predicate again.
AcquireUnchecked(w) ==
    /\ wpc[w] = "acquire"
    /\ active' = active + 1
    /\ wpc' = [wpc EXCEPT ![w] = "working"]
    /\ UNCHANGED <<maxLoads, outstanding, job, spc, setter, dtor>>

\* AcquireBackgroundSlot, the predicate of the wait holds.
Acquire(w) ==
    /\ wpc[w] = "acquire"
    /\ AcquireSlot
    /\ wpc' = [wpc EXCEPT ![w] = "working"]
    /\ UNCHANGED <<job, spc, setter, dtor>>

\* AcquireBackgroundSlot, the predicate does not hold: block.
Wait(w) ==
    /\ wpc[w] = "acquire"
    /\ ~SlotAvailable
    /\ wpc' = [wpc EXCEPT ![w] = "waiting"]
    /\ UNCHANGED <<slotVars, job, spc, setter, dtor>>

SpuriousWakeup(w) ==
    /\ wpc[w] = "waiting"
    /\ wpc' = [wpc EXCEPT ![w] = "acquire"]
    /\ UNCHANGED <<slotVars, job, spc, setter, dtor>>

\* The parse or serialization is over (a spawn it started has returned);
\* ReleaseBackgroundSlot gives the slot back under the mutex ...
Release(w) ==
    /\ wpc[w] = "working"
    /\ spc[w] \in {"idle", "done"}
    /\ ReleaseSlot
    /\ wpc' = [wpc EXCEPT ![w] = "notifySlot"]
    /\ UNCHANGED <<job, spc, setter, dtor>>

\* BUG (mutant): the slot is given back without a notification.
ReleaseNotifyForgotten(w) ==
    /\ wpc[w] = "notifySlot"
    /\ wpc' = [wpc EXCEPT ![w] = "uncount"]
    /\ UNCHANGED <<slotVars, job, spc, setter, dtor>>

\* ... and notifies one waiter after the unlock.
ReleaseNotify(w) ==
    /\ wpc[w] = "notifySlot"
    /\ NotifyOneSlot([wpc EXCEPT ![w] = "uncount"])
    /\ UNCHANGED <<slotVars, job, spc, setter, dtor>>

Uncount(w) ==
    /\ wpc[w] = "uncount"
    /\ UncountThread
    /\ wpc' = [wpc EXCEPT ![w] = "notifyDone"]
    /\ UNCHANGED <<job, spc, setter, dtor>>

\* BUG (mutant): the last thread leaves without waking the destructor.
ExitUnnotified(w) ==
    /\ wpc[w] = "notifyDone"
    /\ wpc' = [wpc EXCEPT ![w] = "exited"]
    /\ UNCHANGED <<slotVars, job, spc, setter, dtor>>

\* The last thing a detached thread does with the cache, after the unlock.
ExitNotify(w) ==
    /\ wpc[w] = "notifyDone"
    /\ NotifyDone
    /\ wpc' = [wpc EXCEPT ![w] = "exited"]
    /\ UNCHANGED <<slotVars, job, spc, setter>>

-----------------------------------------------------------------------------
(* setMaxBackgroundLoads and ~DesignCache.                                 *)

SetMax ==
    /\ dtor = "up"
    /\ setter = "idle"
    /\ \E m \in Caps : m # maxLoads /\ SetMaxLoads(m)
    /\ setter' = "notify"
    /\ UNCHANGED <<wpc, job, spc, dtor>>

SetMaxNotify ==
    /\ setter = "notify"
    /\ NotifyAllSlots
    /\ setter' = "idle"
    /\ UNCHANGED <<slotVars, job, spc, dtor>>

\* The owner destroys the cache when no call of its own is running.
Destroy ==
    /\ dtor = "up"
    /\ setter = "idle"
    /\ \A c \in Clients : spc[c] \in {"idle", "done"}
    /\ dtor' = "check"
    /\ UNCHANGED <<slotVars, wpc, job, spc, setter>>

\* BUG (mutant): the destructor waits for the slots instead of the threads.
DrainSlotsOnly ==
    /\ dtor = "check"
    /\ dtor' = IF active = 0 THEN "destroyed" ELSE "waiting"
    /\ UNCHANGED <<slotVars, wpc, job, spc, setter>>

Drain ==
    /\ dtor = "check"
    /\ dtor' = IF outstanding = 0 THEN "destroyed" ELSE "waiting"
    /\ UNCHANGED <<slotVars, wpc, job, spc, setter>>

DrainSpuriousWakeup ==
    /\ dtor = "waiting"
    /\ dtor' = "check"
    /\ UNCHANGED <<slotVars, wpc, job, spc, setter>>

\* The cache is gone and every thread has returned.
Finished ==
    /\ dtor = "destroyed"
    /\ \A w \in Workers : wpc[w] \in {"unborn", "exited"}
    /\ UNCHANGED vars

WorkerStep(w) ==
    \/ Acquire(w) \/ Wait(w) \/ Release(w) \/ ReleaseNotify(w) \/ Uncount(w)
    \/ ExitNotify(w)

SpawnStep(s) ==
    \/ CountSpawn(s)
    \/ \E w \in Workers : Spawn(s, w)
    \/ SpawnFails(s) \/ SpawnUncount(s) \/ SpawnNotify(s)

Next ==
    \/ \E w \in Workers : WorkerStep(w) \/ SpuriousWakeup(w)
    \/ \E s \in Spawners : SpawnStep(s)
    \/ SetMax \/ SetMaxNotify
    \/ Destroy \/ Drain \/ DrainSpuriousWakeup
    \/ Finished

Spec == Init /\ [][Next]_vars

\* Every runnable thread runs.  Nothing obliges a caller to call, the
\* owner to destroy the cache, or the runtime to wake a thread spuriously.
Fairness ==
    /\ \A w \in Workers : WF_vars(WorkerStep(w))
    /\ \A s \in Spawners :
          WF_vars((\E w \in Workers : Spawn(s, w)) \/ SpawnFails(s)
                  \/ SpawnUncount(s) \/ SpawnNotify(s))
    /\ WF_vars(SetMaxNotify)
    /\ WF_vars(Drain)

FairSpec == Spec /\ Fairness

-----------------------------------------------------------------------------
(* Properties.                                                             *)

\* Threads between AcquireBackgroundSlot and ReleaseBackgroundSlot.
Holders == {w \in Workers : wpc[w] = "working"}

\* Detached threads that have not taken their count back.
Alive == {w \in Workers : wpc[w] \in {"acquire", "waiting", "working", "notifySlot",
                                       "uncount"}}

\* Calls that have counted a thread they have not spawned yet.
Counted == {s \in Spawners : spc[s] \in {"spawn", "failed"}}

\* At every instant m_activeBackgroundLoads is the number of threads that hold a
\* slot and m_outstandingBackgroundLoads the number of detached threads that
\* still have to take their count back, spawn failures included: no path leaks
\* or returns a count twice.
CountersExact ==
    /\ active = Cardinality(Holders)
    /\ outstanding = Cardinality(Alive) + Cardinality(Counted)

\* No lost wakeup: while a slot is free and a thread sleeps on
\* m_backgroundSlotCv, a notification is on its way or a woken thread is about
\* to evaluate the predicate (ReleaseBackgroundSlot and setMaxBackgroundLoads
\* notify after they unlock).
NoLostWakeup ==
    (SlotAvailable /\ \E w \in Workers : wpc[w] = "waiting")
       => \/ setter = "notify"
          \/ \E w \in Workers : wpc[w] \in {"acquire", "notifySlot"}

\* Threads asleep on m_backgroundSlotCv, and threads about to evaluate the wait's
\* predicate or to notify one that will.
Sleeping == {w \in Workers : wpc[w] = "waiting"}
Wakeups == {w \in Workers : wpc[w] \in {"acquire", "notifySlot"}}

\* Why no wakeup is lost: as long as a thread sleeps, there are at least as many
\* wakeups under way as there are free slots, or a notify_all is due.  One
\* notify_one for each ReleaseBackgroundSlot is enough, however many slots are
\* freed at once and whatever the cap is changed to.
WakeupsCoverSlots ==
    Sleeping # {} /\ setter = "idle"
       => maxLoads # 0 /\ maxLoads <= active + Cardinality(Wakeups)

\* Once ~DesignCache has returned, no detached thread will touch the cache's
\* maps, counters or slots again, and none is spawned any more.
DrainedBeforeTeardown ==
    dtor = "destroyed"
       => /\ \A w \in Workers : wpc[w] \in {"unborn", "notifyDone", "exited"}
          /\ \A s \in Spawners : spc[s] \in {"idle", "notifyDone", "done"}

\* ~DesignCache "drains it so detached loads never outlive the cache members
\* they touch" (DesignCache.h): m_backgroundDoneCv is such a member, and a
\* thread touches it last, after it has taken its count back.
NoMemberOutlived ==
    dtor = "destroyed" => \A w \in Workers : wpc[w] \in {"unborn", "exited"}

\* Every detached thread gets its slot and exits, whatever the cap is set to.
QueuedLoadRuns ==
    \A w \in Workers : wpc[w] = "acquire" ~> wpc[w] = "exited"

\* The drain of ~DesignCache terminates.
TeardownCompletes == dtor = "check" ~> dtor = "destroyed"

\* Implementation of the promise of BackgroundSlots.
ImplementsSlots == SlotsSpec
=============================================================================
