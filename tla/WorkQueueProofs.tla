--------------------------- MODULE WorkQueueProofs ---------------------------
(***************************************************************************)
(* Proofs about WorkQueue, for any set of logging threads and any number of *)
(* messages and restarts: types, no lost wakeup, and the refinement of the  *)
(* FIFO channel of LogChannel.                                              *)
(***************************************************************************)
EXTENDS WorkQueue, TLAPS

(* The types the proofs need: messages are the numbers pushed so far.        *)
QueueTypes == queue \in Seq(Message) /\ sent \in Nat

(* Where the loop thread is inside the body of its inner loop, the message   *)
(* it took is still at the front: only that thread pops.                     *)
FrontHeld == /\ loop \in {"front", "process", "pop"} => queue # <<>>
             /\ loop = "process" => item = Head(queue)

(* When there is no loop thread, or it has ended, it is in none of those.    *)
OwnerMatchesLoop == owner \in {"off", "startNotify", "spawn"} => loop \in {"null", "done"}

QueueInv == QueueTypes /\ FrontHeld /\ OwnerMatchesLoop
-----------------------------------------------------------------------------
(* A sequence that is not empty has a head, and a tail of the same kind;     *)
(* appending behind it leaves the head where it is and commutes with the     *)
(* tail.                                                                     *)
LEMMA AppendKeepsFront ==
    ASSUME NEW S, NEW s \in Seq(S), NEW e \in S, s # <<>>
    PROVE  /\ Append(s, e) \in Seq(S) /\ Append(s, e) # <<>>
           /\ Head(Append(s, e)) = Head(s)
           /\ Tail(Append(s, e)) = Append(Tail(s), e)
<1>1. Append(s, e) \in Seq(S) /\ Append(s, e) # <<>> /\ Head(Append(s, e)) = Head(s)
  OBVIOUS
<1>2. Tail(Append(s, e)) = Append(Tail(s), e)
  <2>1. Tail(Append(s, e)) \in Seq(S) /\ Append(Tail(s), e) \in Seq(S)
    BY <1>1
  <2>2. Len(Tail(Append(s, e))) = Len(Append(Tail(s), e))
    OBVIOUS
  <2>3. \A i \in 1..Len(Tail(Append(s, e))) : Tail(Append(s, e))[i] = Append(Tail(s), e)[i]
    OBVIOUS
  <2> QED
    BY <2>1, <2>2, <2>3
<1> QED
  BY <1>1, <1>2

(* The numbers pushed are messages.                                          *)
LEMMA PushedIsMessage ==
    ASSUME QueueTypes, Push
    PROVE  sent + 1 \in Message /\ queue' = Append(queue, sent + 1)
           /\ queue' \in Seq(Message) /\ sent' \in Nat /\ queue' # <<>>
BY WorkQueueBounds DEF QueueTypes, Push, Message

LEMMA QueueInvInit == Init => QueueInv
BY DEF Init, QueueInv, QueueTypes, FrontHeld, OwnerMatchesLoop

LEMMA QueueInvStep == QueueInv /\ [Next]_vars => QueueInv'
<1> SUFFICES ASSUME QueueInv, [Next]_vars PROVE QueueInv'
  OBVIOUS
<1> USE DEF QueueInv
<1>1. ASSUME NEW t \in Thread, Log(t) PROVE QueueInv'
  <2>1. Push /\ UNCHANGED <<interrupted, loop, item, owner>>
    BY <1>1 DEF Log
  <2>2. QueueTypes' /\ queue' # <<>>
    BY <2>1, PushedIsMessage DEF QueueTypes
  <2>3. loop = "process" => Head(queue') = Head(queue)
    BY <2>1, PushedIsMessage, AppendKeepsFront DEF QueueTypes, FrontHeld
  <2> QED
    BY <2>1, <2>2, <2>3 DEF FrontHeld, OwnerMatchesLoop
<1>2. ASSUME NEW t \in Thread, PushNotify(t) PROVE QueueInv'
  BY <1>2 DEF PushNotify, NotifyOne, QueueTypes, FrontHeld, OwnerMatchesLoop
<1>3. CASE StartLog
  <2>1. Push /\ UNCHANGED <<interrupted, loop, item>> /\ owner = "off" /\ owner' = "startNotify"
    BY <1>3 DEF StartLog
  <2>2. QueueTypes' /\ queue' # <<>>
    BY <2>1, PushedIsMessage DEF QueueTypes
  <2> QED
    BY <2>1, <2>2 DEF FrontHeld, OwnerMatchesLoop
<1>4. CASE StopLog
  <2>1. Push /\ UNCHANGED <<interrupted, loop, item>> /\ owner' = "stopNotify"
    BY <1>4 DEF StopLog
  <2>2. QueueTypes' /\ queue' # <<>>
    BY <2>1, PushedIsMessage DEF QueueTypes
  <2>3. loop = "process" => Head(queue') = Head(queue)
    BY <2>1, PushedIsMessage, AppendKeepsFront DEF QueueTypes, FrontHeld
  <2> QED
    BY <2>1, <2>2, <2>3 DEF FrontHeld, OwnerMatchesLoop
<1>5. CASE OwnerNotify \/ StartProcessing \/ SetStop \/ Interrupt \/ InterruptNotify \/ Join
  BY <1>5 DEF OwnerNotify, StartProcessing, SetStop, Interrupt, InterruptNotify, Join,
              NotifyOne, QueueTypes, FrontHeld, OwnerMatchesLoop
<1>6. CASE LoopCheck \/ LoopWait \/ SpuriousWakeup \/ LoopEmpty \/ LoopFront
  BY <1>6 DEF LoopCheck, LoopWait, SpuriousWakeup, LoopEmpty, LoopFront,
              QueueTypes, FrontHeld, OwnerMatchesLoop
<1>7. CASE LoopProcess
  BY <1>7 DEF LoopProcess, QueueTypes, FrontHeld, OwnerMatchesLoop
<1>8. CASE LoopPop
  BY <1>8 DEF LoopPop, QueueTypes, FrontHeld, OwnerMatchesLoop
<1>9. CASE UNCHANGED vars
  BY <1>9 DEF vars, QueueTypes, FrontHeld, OwnerMatchesLoop
<1> QED
  BY <1>1, <1>2, <1>3, <1>4, <1>5, <1>6, <1>7, <1>8, <1>9
  DEF Next, LoopStep, OwnerStep

(* The loop thread holds the front of the queue while it handles it, in      *)
(* every behaviour of the logger (processWorkItemsLoop).                     *)
THEOREM QueueInvariant == Spec => []QueueInv
BY QueueInvInit, QueueInvStep, PTL DEF Spec
-----------------------------------------------------------------------------
LEMMA WakeupStep == NoLostWakeup /\ [Next]_vars => NoLostWakeup'
<1> SUFFICES ASSUME NoLostWakeup, [Next]_vars PROVE NoLostWakeup'
  OBVIOUS
<1> USE DEF NoLostWakeup, WaitPredicate
<1>1. ASSUME NEW t \in Thread, Log(t) PROVE NoLostWakeup'
  BY <1>1 DEF Log
<1>2. ASSUME NEW t \in Thread, PushNotify(t) PROVE NoLostWakeup'
  BY <1>2 DEF PushNotify, NotifyOne
<1>3. CASE OwnerStep
  BY <1>3 DEF OwnerStep, StartLog, StopLog, OwnerNotify, StartProcessing, SetStop,
              Interrupt, InterruptNotify, Join, NotifyOne
<1>4. CASE LoopStep \/ SpuriousWakeup
  BY <1>4 DEF LoopStep, LoopCheck, LoopWait, LoopEmpty, LoopFront, LoopProcess, LoopPop,
              SpuriousWakeup
<1>5. CASE UNCHANGED vars
  BY <1>5 DEF vars
<1> QED
  BY <1>1, <1>2, <1>3, <1>4, <1>5 DEF Next

(* The loop thread never sleeps on a queued message or on a set interrupt    *)
(* without a notification still to come, for any number of logging threads   *)
(* (push and interrupt notify after they release the mutex).                 *)
THEOREM NoLoggerWakeupIsLost == Spec => []NoLostWakeup
<1>1. Init => NoLostWakeup
  BY DEF Init, NoLostWakeup
<1> QED
  BY <1>1, WakeupStep, PTL DEF Spec
-----------------------------------------------------------------------------
(* Refinement of LogChannel *)

LEMMA ChannelInitHolds == Init => Channel!ChannelInit
BY DEF Init, Channel!ChannelInit, Unhandled, Handled

(* A push is an Accept of the channel, whether or not the loop thread is     *)
(* about to pop the message before it.                                       *)
LEMMA PushAccepts ==
    ASSUME QueueInv, Push, UNCHANGED <<loop, written>>
    PROVE  Channel!Accept
<1>1. sent + 1 \in Message /\ queue' = Append(queue, sent + 1)
  BY PushedIsMessage DEF QueueInv
<1>2. Unhandled' = Append(Unhandled, sent + 1)
  <2>1. CASE loop = "pop"
    BY <2>1, <1>1, AppendKeepsFront DEF Unhandled, Handled, QueueInv, FrontHeld, QueueTypes
  <2>2. CASE loop # "pop"
    BY <2>2, <1>1 DEF Unhandled, Handled
  <2> QED
    BY <2>1, <2>2
<1> QED
  BY <1>1, <1>2 DEF Channel!Accept

(* A step that moves neither the queue nor the output, and not past the      *)
(* handling of a message, is a stutter of the channel.                       *)
LEMMA QuietStutters ==
    ASSUME UNCHANGED <<queue, written>>, loop # "pop", loop' # "pop"
    PROVE  UNCHANGED Channel!channelVars
BY DEF Channel!channelVars, Unhandled, Handled

LEMMA ChannelStep == QueueInv /\ [Next]_vars => [Channel!ChannelNext]_(Channel!channelVars)
<1> SUFFICES ASSUME QueueInv, [Next]_vars PROVE [Channel!ChannelNext]_(Channel!channelVars)
  OBVIOUS
<1>1. ASSUME NEW t \in Thread, Log(t) PROVE Channel!ChannelNext
  BY <1>1, PushAccepts DEF Log, Channel!ChannelNext
<1>2. CASE StartLog \/ StopLog
  BY <1>2, PushAccepts DEF StartLog, StopLog, Channel!ChannelNext
<1>3. ASSUME NEW t \in Thread, PushNotify(t) PROVE UNCHANGED Channel!channelVars
  BY <1>3 DEF PushNotify, NotifyOne, Channel!channelVars, Unhandled, Handled
<1>4. CASE OwnerNotify \/ SetStop \/ Interrupt \/ InterruptNotify \/ Join
  BY <1>4 DEF OwnerNotify, SetStop, Interrupt, InterruptNotify, Join,
              NotifyOne, Channel!channelVars, Unhandled, Handled
<1>5. CASE StartProcessing
  BY <1>5, QuietStutters DEF StartProcessing, QueueInv, OwnerMatchesLoop
<1>6. CASE LoopCheck \/ LoopWait \/ SpuriousWakeup \/ LoopEmpty \/ LoopFront
  BY <1>6, QuietStutters DEF LoopCheck, LoopWait, SpuriousWakeup, LoopEmpty, LoopFront
<1>7. CASE LoopProcess
  <2>1. queue # <<>> /\ item = Head(queue) /\ Unhandled = queue /\ Unhandled' = Tail(queue)
    BY <1>7 DEF LoopProcess, QueueInv, FrontHeld, Unhandled, Handled
  <2>2. written' = Append(written, item) \/ written' = written
    BY <1>7 DEF LoopProcess
  <2> QED
    BY <2>1, <2>2 DEF Channel!ChannelNext, Channel!Write, Channel!Lose
<1>8. CASE LoopPop
  BY <1>8 DEF LoopPop, Channel!channelVars, Unhandled, Handled
<1>9. CASE UNCHANGED vars
  BY <1>9 DEF vars, Channel!channelVars, Unhandled, Handled
<1> QED
  BY <1>1, <1>2, <1>3, <1>4, <1>5, <1>6, <1>7, <1>8, <1>9
  DEF Next, LoopStep, OwnerStep

(* The logger implements the FIFO channel: every message accepted leaves     *)
(* once, in order, written or lost to an output that did not open, across    *)
(* stops and restarts (Logger, WorkQueueLoopThread, ThreadSafeQueue).        *)
THEOREM LoggerIsChannel == Spec => IsFifoChannel
<1>1. Spec => []QueueInv
  BY QueueInvariant
<1> QED
  BY <1>1, ChannelInitHolds, ChannelStep, PTL DEF Spec, IsFifoChannel, Channel!ChannelSpec
=============================================================================
