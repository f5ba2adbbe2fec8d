------------------------------ MODULE WorkQueue ------------------------------
(***************************************************************************)
(* Utils::Logger on its WorkQueueLoopThread and ThreadSafeQueue: any thread *)
(* logs by pushing a message and then, with the mutex released, notifying   *)
(* the condition variable; one loop thread drains the queue.  The owner     *)
(* (OdbAppBase, the test fixtures) starts and stops the loop, and the tests *)
(* start the same singleton again.  Each section under the mutex, each      *)
(* atomic access and each notification is one step.                         *)
(***************************************************************************)
EXTENDS Naturals, Sequences

CONSTANTS Thread,       \* threads that log, other than the owner
          MaxMessages,  \* bound: messages logged in a behaviour
          MaxStarts     \* bound: calls of start()

ASSUME WorkQueueBounds == MaxMessages \in Nat /\ MaxStarts \in Nat

VARIABLES queue,        \* ThreadSafeQueue::_queue
          interrupted,  \* ThreadSafeQueue::_interrupted, never reset
          stop,         \* _stopProcessingWorkItemsFlag
          loop,         \* where the loop thread is
          item,         \* the loop thread's copy of the front message
          written,      \* what reached the output
          notifying,    \* threads between push's unlock and its notify_one
          owner,        \* where the owner is in start() or stop()
          sent, starts  \* history: messages pushed, calls of start()

vars == <<queue, interrupted, stop, loop, item, written, notifying, owner,
          sent, starts>>

Message == 1..MaxMessages
LoopPc == {"null", "check", "wait", "asleep", "drain", "front", "process",
           "pop", "done"}
OwnerPc == {"off", "startNotify", "spawn", "on", "stopNotify", "setStop",
            "interrupt", "intNotify", "join"}

TypeOK == /\ queue \in Seq(Message) /\ written \in Seq(Message)
          /\ interrupted \in BOOLEAN /\ stop \in BOOLEAN
          /\ loop \in LoopPc /\ owner \in OwnerPc
          /\ item \in Message \cup {0}
          /\ notifying \in SUBSET Thread
          /\ sent \in 0..MaxMessages /\ starts \in 0..MaxStarts

Init == /\ queue = <<>> /\ interrupted = FALSE /\ stop = FALSE
        /\ loop = "null" /\ item = 0 /\ written = <<>>
        /\ notifying = {} /\ owner = "off" /\ sent = 0 /\ starts = 0
-----------------------------------------------------------------------------
(* ThreadSafeQueue *)

(* push(), the part under the mutex.  Messages are numbered as they enter.   *)
Push == /\ sent < MaxMessages
        /\ sent' = sent + 1
        /\ queue' = Append(queue, sent + 1)

(* The condition variable wakes the loop thread if it sleeps; it then        *)
(* evaluates the predicate of wait() again.                                  *)
NotifyOne == loop' = IF loop = "asleep" THEN "wait" ELSE loop

(* The predicate of wait(). *)
WaitPredicateQueueOnly == queue # <<>>
WaitPredicate == queue # <<>> \/ interrupted
-----------------------------------------------------------------------------
(* Logging threads *)

(* Logger::log() *)
Log(t) == /\ t \notin notifying
          /\ Push
          /\ notifying' = notifying \cup {t}
          /\ UNCHANGED <<interrupted, stop, loop, item, written, owner, starts>>

PushNotifyForgotten(t) ==
    /\ t \in notifying
    /\ notifying' = notifying \ {t}
    /\ UNCHANGED <<queue, interrupted, stop, loop, item, written, owner, sent,
                   starts>>

PushNotify(t) ==
    /\ t \in notifying
    /\ NotifyOne
    /\ notifying' = notifying \ {t}
    /\ UNCHANGED <<queue, interrupted, stop, item, written, owner, sent, starts>>
-----------------------------------------------------------------------------
(* The owner: start() and stop() *)

(* Logger::start() logs "logger started" before there is a thread. *)
StartLog == /\ owner = "off" /\ starts < MaxStarts
            /\ Push
            /\ owner' = "startNotify" /\ starts' = starts + 1
            /\ UNCHANGED <<interrupted, stop, loop, item, written, notifying>>

StopLog == /\ owner = "on"
           /\ Push
           /\ owner' = "stopNotify"
           /\ UNCHANGED <<interrupted, stop, loop, item, written, notifying,
                          starts>>

(* The notify_one of those two pushes. *)
OwnerNotify == /\ owner \in {"startNotify", "stopNotify"}
               /\ NotifyOne
               /\ owner' = IF owner = "startNotify" THEN "spawn" ELSE "setStop"
               /\ UNCHANGED <<queue, interrupted, stop, item, written,
                              notifying, sent, starts>>

(* startProcessing() *)
StartProcessing == /\ owner = "spawn"
                   /\ stop' = FALSE /\ loop' = "check" /\ owner' = "on"
                   /\ UNCHANGED <<queue, interrupted, item, written, notifying,
                                  sent, starts>>

(* stopProcessing(): the flag, then interrupt(), then join(). *)
SetStop == /\ owner = "setStop"
           /\ stop' = TRUE /\ owner' = "interrupt"
           /\ UNCHANGED <<queue, interrupted, loop, item, written, notifying,
                          sent, starts>>

Interrupt == /\ owner = "interrupt"
             /\ interrupted' = TRUE /\ owner' = "intNotify"
             /\ UNCHANGED <<queue, stop, loop, item, written, notifying, sent,
                            starts>>

InterruptNotify == /\ owner = "intNotify"
                   /\ NotifyOne
                   /\ owner' = "join"
                   /\ UNCHANGED <<queue, interrupted, stop, item, written,
                                  notifying, sent, starts>>

Join == /\ owner = "join" /\ loop = "done"
        /\ owner' = "off"
        /\ UNCHANGED <<queue, interrupted, stop, loop, item, written, notifying,
                       sent, starts>>
-----------------------------------------------------------------------------
(* The loop thread: processWorkItemsLoop() *)

LoopCheck == /\ loop = "check"
             /\ loop' = IF stop THEN "done" ELSE "wait"
             /\ UNCHANGED <<queue, interrupted, stop, item, written, notifying,
                            owner, sent, starts>>

LoopWait == /\ loop = "wait"
            /\ loop' = IF WaitPredicate THEN "drain" ELSE "asleep"
            /\ UNCHANGED <<queue, interrupted, stop, item, written, notifying,
                           owner, sent, starts>>

(* A condition variable may return with nobody having notified it. *)
SpuriousWakeup == /\ loop = "asleep" /\ loop' = "wait"
                  /\ UNCHANGED <<queue, interrupted, stop, item, written,
                                 notifying, owner, sent, starts>>

(* while (!_workItemQueue.empty()) *)
LoopEmpty == /\ loop = "drain"
             /\ loop' = IF queue = <<>> THEN "check" ELSE "front"
             /\ UNCHANGED <<queue, interrupted, stop, item, written, notifying,
                            owner, sent, starts>>

LoopFront == /\ loop = "front"
             /\ item' = Head(queue) /\ loop' = "process"
             /\ UNCHANGED <<queue, interrupted, stop, written, notifying, owner,
                            sent, starts>>

(* Logger::logMessage() opens the log file for every message and skips a     *)
(* message for which that fails; it always returns true, so the loop never   *)
(* stops on a failed item.                                                   *)
LoopProcess == /\ loop = "process"
               /\ \E opened \in BOOLEAN :
                     written' = IF opened THEN Append(written, item) ELSE written
               /\ loop' = "pop"
               /\ UNCHANGED <<queue, interrupted, stop, item, notifying, owner,
                              sent, starts>>

LoopPopKeeps == /\ loop = "pop" /\ loop' = "drain"
                /\ UNCHANGED <<queue, interrupted, stop, item, written,
                               notifying, owner, sent, starts>>
LoopPop == /\ loop = "pop"
           /\ queue' = Tail(queue) /\ loop' = "drain"
           /\ UNCHANGED <<interrupted, stop, item, written, notifying, owner,
                          sent, starts>>
-----------------------------------------------------------------------------
LoopStep == \/ LoopCheck \/ LoopWait \/ LoopEmpty \/ LoopFront \/ LoopProcess
            \/ LoopPop
OwnerStep == \/ StartLog \/ StopLog \/ OwnerNotify \/ StartProcessing
             \/ SetStop \/ Interrupt \/ InterruptNotify \/ Join
OwnerFinishes == OwnerNotify \/ StartProcessing \/ SetStop \/ Interrupt
                 \/ InterruptNotify \/ Join

Next == \/ LoopStep \/ SpuriousWakeup \/ OwnerStep
        \/ \E t \in Thread : Log(t) \/ PushNotify(t)

Spec == Init /\ [][Next]_vars

(* Threads are scheduled: a started call returns and the loop thread runs.   *)
(* Nobody has to log, start or stop.                                         *)
FairSpec == /\ Spec
            /\ WF_vars(LoopStep) /\ WF_vars(OwnerFinishes)
            /\ \A t \in Thread : WF_vars(PushNotify(t))
-----------------------------------------------------------------------------
(* Properties *)

(* The loop thread never sleeps on work: while it is asleep with a message   *)
(* queued or the interrupt set, a notification of it is still to come, though*)
(* both push() and interrupt() notify only after they release the mutex      *)
(* (ThreadSafeQueue.h push, interrupt, wait).                                *)
NoLostWakeup ==
    (loop = "asleep" /\ WaitPredicate)
        => notifying # {} \/ owner \in {"startNotify", "stopNotify", "intNotify"}

(* Seen from its callers the logger is a FIFO channel: across pushes, pops,  *)
(* a stop that leaves messages behind and the restart that finds them, no    *)
(* message is written twice, out of order or never taken                     *)
(* (WorkQueueLoopThread.h processWorkItemsLoop).                             *)
Handled == loop = "pop"
Unhandled == IF Handled THEN Tail(queue) ELSE queue
Channel == INSTANCE LogChannel WITH pending <- Unhandled, written <- written
IsFifoChannel == Channel!ChannelSpec

(* Every message logged while nobody stops the logger is taken from the      *)
(* queue, whatever the timing of its notification (log, wait).               *)
LoggedIsTaken ==
    \A m \in Message :
        (owner = "on" /\ sent >= m) ~> (sent - Len(queue) >= m \/ owner # "on")

(* stop() returns: the loop thread sees the flag, from its sleep too, and    *)
(* join() ends (stopProcessing).                                             *)
StopReturns == (owner = "join") ~> (owner = "off")
=============================================================================
