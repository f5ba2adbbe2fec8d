-------------------------- MODULE DesignCacheProofs --------------------------
(***************************************************************************)
(* Proofs about DesignCache, for any number of names, threads and calls.   *)
(*                                                                         *)
(* Its control: a name has at most one loader of each kind, its in-flight  *)
(* entry is owned by that loader, and no joiner waits on a promise that    *)
(* nobody will fulfil.  The inductive invariant CInv adds to the two       *)
(* properties the shape of a thread's locals (where a nested archive load  *)
(* can be, where each section continues) and that a thread past the        *)
(* fulfilment has fulfilled.  What is cached, charged or stored plays no   *)
(* part: CInv does not mention it.                                         *)
(*                                                                         *)
(* Its data: every section of every operation keeps the variables          *)
(* well-typed, and m_cachedBytes is the sum of the LRU entries' charges.   *)
(* TypeInv is inductive by itself.  It has the types of the maps, the      *)
(* store, the LRU entries and the locals of the threads; PayloadsFit,      *)
(* without which the sum of a commit would not be a count of the counter's *)
(* width; and LruInv.  The proof has one lemma for the sections of each    *)
(* lock (LoadSectionType, FlightSectionType, LruSectionType, ...), and     *)
(* StepCases says that these are all the steps there are.                  *)
(***************************************************************************)
EXTENDS DesignCache, FiniteSetTheorems, WellFoundedInduction, TLAPS

\* Where a thread can be while LoadDesign waits for its archive.
NestedPcs ==
    {"Lookup", "TouchHit", "CaptureGen", "Register", "Join", "TouchJoin", "Load",
     "CheckGen", "CheckEpoch", "Insert", "Estimate", "Charge", "EvictStore",
     "EvictMaps", "EvictState", "Fulfil", "EraseFlight"}

EvictPcs == {"EvictStore", "EvictMaps", "EvictState"}

\* Where a loader goes on after InsertLruAndEvict.
LoaderAfter == {"ScheduleGen", "AnnounceLoaded", "Fulfil"}

\* Where a call goes on after the part of it that it shares with other calls.
RetPcs == {"Idle", "ReleaseSlot", "AsyncCheck", "SaveModel"}

\* GetOrLoadSingleFlight outside InsertLruAndEvict, and the wait for a slot.
FlightPcs ==
    {"AcquireSlot", "Lookup", "TouchHit", "CaptureGen", "Register", "Join",
     "TouchJoin", "Announce", "Load", "Build", "CheckGen", "CheckEpoch", "Insert",
     "ScheduleGen", "ScheduleCount", "ScheduleSpawn", "ScheduleUncount",
     "AnnounceLoaded", "Fulfil", "CheckFailed", "AnnounceFailed", "EraseState",
     "EraseFlight"}

\* A loader that has fulfilled its promise.
DonePcs == {"CheckFailed", "AnnounceFailed", "EraseState", "EraseFlight"}

Fields ==
    {"name", "kind", "nested", "job", "gen", "ep", "val", "wait", "stale", "outcome",
     "bytes", "victims", "victim", "save", "max", "after", "ret"}

\* The locals that decide where a thread goes are well-typed.
ControlOK(l) ==
    /\ DOMAIN l = Fields
    /\ l.name \in Names /\ l.kind \in Kinds /\ l.nested \in BOOLEAN

\* The program counter p and the locals l of a thread.
Shape(p, l) ==
    /\ l.nested => l.kind = "archive" /\ p \in NestedPcs
    /\ l.ret \in RetPcs
    /\ p \in FlightPcs => l.after # "AddLoaded"
    /\ p \in EvictPcs => l.after \in LoaderAfter \cup RetPcs \cup {"AddLoaded"}
    /\ p \in {"Estimate", "Charge"} /\ l.nested => l.after # "AddLoaded"
    /\ p \in EvictPcs /\ l.nested => l.after = "Fulfil"
    /\ p \in {"InvStore", "AdjustLru"} => l.after \in {"Estimate", "InvState"}
    /\ p = "Join" => l.wait.owner # NoThread

\* A loader past its fulfilment has fulfilled the promise it registered.
Fulfilled(p, l) == p \in DonePcs => inFlight[l.kind][l.name].status # "pending"

FlightsOK ==
    /\ DOMAIN inFlight = Kinds
    /\ \A k \in Kinds :
          /\ DOMAIN inFlight[k] = Names
          /\ \A n \in Names : /\ DOMAIN inFlight[k][n] = {"owner", "status", "val"}
                              /\ inFlight[k][n].owner \in Threads \cup {NoThread}

ThreadOK(p, l) == ControlOK(l) /\ Shape(p, l) /\ Fulfilled(p, l)

CInv ==
    /\ DOMAIN pc = Threads /\ DOMAIN loc = Threads
    /\ FlightsOK
    /\ \A t \in Threads : ThreadOK(pc[t], loc[t])
    /\ SingleFlight
    /\ JoinersHaveLoader

-----------------------------------------------------------------------------
(* Steps that leave the in-flight maps alone.                              *)

\* A thread moves from p, l to q, m without becoming or ceasing to be a loader or
\* a joiner.
QuietMove(p, l, q, m) ==
    /\ ThreadOK(q, m)
    /\ \A k \in Kinds, n \in Names : Loads(q, m, k, n) <=> Loads(p, l, k, n)
    /\ q # "Join"

\* A step in which threads only move quietly preserves the invariant.
LEMMA QuietStep ==
    ASSUME CInv, inFlight' = inFlight, DOMAIN pc' = Threads, DOMAIN loc' = Threads,
           \A u \in Threads : \/ pc'[u] = pc[u] /\ loc'[u] = loc[u]
                             \/ QuietMove(pc[u], loc[u], pc'[u], loc'[u])
    PROVE  CInv'
<1>1. ASSUME NEW u \in Threads
      PROVE  /\ ThreadOK(pc'[u], loc'[u])
             /\ \A k \in Kinds, n \in Names :
                   Loads(pc'[u], loc'[u], k, n) <=> Loads(pc[u], loc[u], k, n)
             /\ pc'[u] = "Join" => pc[u] = "Join" /\ loc'[u] = loc[u]
  <2>1. CASE pc'[u] = pc[u] /\ loc'[u] = loc[u]
    BY <2>1 DEF CInv
  <2>2. CASE QuietMove(pc[u], loc[u], pc'[u], loc'[u])
    BY <2>2 DEF QuietMove
  <2> QED
    BY <2>1, <2>2
<1>2. \A u \in Threads : ThreadOK(pc[u], loc[u])'
  BY <1>1 DEF ThreadOK, Fulfilled
<1>3. SingleFlight'
  BY <1>1 DEF CInv, SingleFlight, IsLoader
<1>4. JoinersHaveLoader'
  <2> SUFFICES ASSUME NEW u \in Threads, pc'[u] = "Join", loc'[u].wait.status = "pending"
               PROVE  /\ inFlight[loc'[u].kind][loc'[u].name] = loc'[u].wait
                      /\ Loads(pc'[loc'[u].wait.owner], loc'[loc'[u].wait.owner],
                               loc'[u].kind, loc'[u].name)
    BY DEF JoinersHaveLoader, IsLoader, Kind, Name
  <2>1. pc[u] = "Join" /\ loc'[u] = loc[u]
    BY <1>1
  <2>2. /\ inFlight[loc[u].kind][loc[u].name] = loc[u].wait
        /\ Loads(pc[loc[u].wait.owner], loc[loc[u].wait.owner], loc[u].kind, loc[u].name)
    BY <2>1 DEF CInv, JoinersHaveLoader, IsLoader, Kind, Name
  <2>3. loc[u].kind \in Kinds /\ loc[u].name \in Names
    BY DEF CInv, ThreadOK, ControlOK
  <2>4. loc[u].wait.owner \in Threads
    BY <2>1, <2>2, <2>3 DEF CInv, FlightsOK, ThreadOK, Shape
  <2> QED
    BY <1>1, <2>1, <2>2, <2>3, <2>4
<1> QED
  BY <1>2, <1>3, <1>4 DEF CInv, FlightsOK

\* The locals of an idle thread.
LEMMA IdleOK == ControlOK(NoLocals) /\ ThreadOK("Idle", NoLocals)
<1>1. AnyName \in Names
  BY NamesAssumption DEF AnyName
<1>2. DOMAIN NoLocals = Fields
  BY DEF NoLocals, Fields
<1> QED
  BY <1>1, <1>2 DEF NoLocals, ControlOK, ThreadOK, Shape, Fulfilled, Kinds, RetPcs,
                    FlightPcs, EvictPcs, DonePcs

\* A step in which thread t alone moves, quietly, preserves the invariant.
LEMMA GotoStep ==
    ASSUME CInv, NEW t \in Threads, NEW to, NEW l, Goto(t, to, l),
           QuietMove(pc[t], loc[t], to, l), inFlight' = inFlight
    PROVE  CInv'
<1> DEFINE m == IF to = "Idle" THEN NoLocals ELSE l
<1>1. pc' = [pc EXCEPT ![t] = to] /\ loc' = [loc EXCEPT ![t] = m]
  BY DEF Goto
<1>2. DOMAIN pc = Threads /\ DOMAIN loc = Threads
  BY DEF CInv
<1>3. QuietMove(pc[t], loc[t], to, m)
  <2>1. CASE to = "Idle"
    BY <2>1, IdleOK DEF QuietMove, Loads, InLoader, NoLocals, ThreadOK, Shape, NestedPcs
  <2>2. CASE to # "Idle"
    BY <2>2
  <2> QED
    BY <2>1, <2>2
<1> HIDE DEF m
<1>4. \A u \in Threads : \/ pc'[u] = pc[u] /\ loc'[u] = loc[u]
                         \/ QuietMove(pc[u], loc[u], pc'[u], loc'[u])
  <2> SUFFICES ASSUME NEW u \in Threads
               PROVE  \/ pc'[u] = pc[u] /\ loc'[u] = loc[u]
                      \/ QuietMove(pc[u], loc[u], pc'[u], loc'[u])
    OBVIOUS
  <2>1. CASE u = t
    <3>1. pc'[t] = to /\ loc'[t] = m
      BY <1>1, <1>2
    <3> QED
      BY <1>3, <2>1, <3>1
  <2>2. CASE u # t
    BY <1>1, <1>2, <2>2
  <2> QED
    BY <2>1, <2>2
<1> QED
  BY <1>1, <1>2, <1>4, QuietStep

\* l and m agree on the locals that decide where a thread goes.
SameControl(l, m) ==
    /\ DOMAIN m = Fields
    /\ m.name = l.name /\ m.kind = l.kind /\ m.nested = l.nested
    /\ m.after = l.after /\ m.ret = l.ret

\* A quiet change of the program counter stays quiet when other locals change.
LEMMA SameStep ==
    ASSUME CInv, NEW t \in Threads, NEW to, NEW l, Goto(t, to, l),
           QuietMove(pc[t], loc[t], to, loc[t]), SameControl(loc[t], l),
           inFlight' = inFlight
    PROVE  CInv'
<1>1. QuietMove(pc[t], loc[t], to, l)
  BY DEF QuietMove, SameControl, ThreadOK, ControlOK, Shape, Fulfilled, Loads, InLoader
<1> QED
  BY <1>1, GotoStep

\* The same with unchanged locals.
LEMMA ProceedStep ==
    ASSUME CInv, NEW t \in Threads, NEW to, Proceed(t, to),
           QuietMove(pc[t], loc[t], to, loc[t]), inFlight' = inFlight
    PROVE  CInv'
  BY GotoStep DEF Proceed

\* What the invariant says of one thread.
LEMMA ThreadFacts ==
    ASSUME CInv, NEW t \in Threads
    PROVE  /\ ControlOK(loc[t]) /\ Shape(pc[t], loc[t]) /\ Fulfilled(pc[t], loc[t])
           /\ DOMAIN loc[t] = Fields /\ SameControl(loc[t], loc[t])
  BY DEF CInv, ThreadOK, ControlOK, SameControl

-----------------------------------------------------------------------------
(* Steps outside GetOrLoadSingleFlight and steps of a running loader.      *)

\* Sections that belong to no activation of GetOrLoadSingleFlight and that call
\* neither InsertLruAndEvict nor InvalidateResponsePayloads.
OutsidePcs ==
    {"Idle", "AddLoaded", "SaveModel", "ResyncEstimate", "Resync", "InvMaps",
     "InvState", "ClearMaps", "ClearLru", "ClearStore", "ClearStates", "AddMaps",
     "SetMaxBytes", "UploadMove", "WarmCheck", "ReqState", "ReqContains",
     "AsyncCheck", "AsyncCount", "AsyncSpawn", "AsyncUncount", "AsyncUnmark",
     "ReleaseSlot", "UnmarkPending", "Uncount", "SerDesign", "SerGen", "SerEpoch",
     "BuildPayload", "CommitIdentity", "CommitStore"}

\* Sections only a loader runs.
RunningPcs ==
    {"Announce", "Load", "Build", "CheckGen", "CheckEpoch", "Insert",
     "ScheduleGen", "ScheduleCount", "ScheduleSpawn", "ScheduleUncount",
     "AnnounceLoaded", "Fulfil"} \cup DonePcs

\* Sections of GetOrLoadSingleFlight before the registration or after a join.
WaitingPcs == {"AcquireSlot", "Lookup", "TouchHit", "CaptureGen", "Register", "TouchJoin"}

\* The fields an action may change without changing where the thread goes.
LEMMA OtherLocals ==
    ASSUME CInv, NEW t \in Threads, NEW l,
           \E x : \/ l = [loc[t] EXCEPT !.val = x] \/ l = [loc[t] EXCEPT !.bytes = x]
                  \/ l = [loc[t] EXCEPT !.gen = x] \/ l = [loc[t] EXCEPT !.ep = x]
    PROVE  SameControl(loc[t], l)
  BY ThreadFacts DEF SameControl, Fields

\* A thread that stays outside moves quietly.
LEMMA OutsideStep ==
    ASSUME CInv, NEW t \in Threads, NEW to, NEW l, Goto(t, to, l),
           pc[t] \in OutsidePcs, to \in OutsidePcs,
           SameControl(loc[t], l), inFlight' = inFlight
    PROVE  CInv'
<1>1. ~loc[t].nested /\ loc[t].ret \in RetPcs /\ ControlOK(loc[t])
  BY ThreadFacts DEF Shape, OutsidePcs, NestedPcs
<1>2. QuietMove(pc[t], loc[t], to, loc[t])
  BY <1>1 DEF QuietMove, ThreadOK, Shape, Fulfilled, OutsidePcs, FlightPcs, EvictPcs,
              DonePcs, Loads, InLoader
<1> QED
  BY <1>2, SameStep

\* A loader that stays before, or after, the fulfilment moves quietly.
LEMMA RunningStep ==
    ASSUME CInv, NEW t \in Threads, NEW to, NEW l, Goto(t, to, l),
           pc[t] \in RunningPcs, to \in RunningPcs,
           to \in DonePcs => pc[t] \in DonePcs,
           loc[t].nested => to \in NestedPcs,
           SameControl(loc[t], l), inFlight' = inFlight
    PROVE  CInv'
<1>1. /\ loc[t].nested => loc[t].kind = "archive"
      /\ loc[t].after # "AddLoaded" /\ loc[t].ret \in RetPcs
      /\ ControlOK(loc[t])
      /\ to \in DonePcs => inFlight[loc[t].kind][loc[t].name].status # "pending"
  BY ThreadFacts DEF Shape, Fulfilled, RunningPcs, FlightPcs, DonePcs
<1>2. QuietMove(pc[t], loc[t], to, loc[t])
  <2>1. ThreadOK(to, loc[t])
    BY <1>1 DEF ThreadOK, Shape, Fulfilled, RunningPcs, DonePcs, EvictPcs
  <2>2. InLoader(to, loc[t]) /\ InLoader(pc[t], loc[t]) /\ to # "Join"
    BY DEF InLoader, RunningPcs, DonePcs
  <2> QED
    BY <2>1, <2>2 DEF QuietMove, Loads
<1> QED
  BY <1>2, SameStep

\* A thread that looks for the object or has waited for it moves quietly.
LEMMA WaitingStep ==
    ASSUME CInv, NEW t \in Threads, NEW to, NEW l, Goto(t, to, l),
           pc[t] \in WaitingPcs \cup {"Join"}, to \in WaitingPcs \ {"AcquireSlot"},
           SameControl(loc[t], l), inFlight' = inFlight
    PROVE  CInv'
<1>1. /\ loc[t].nested => loc[t].kind = "archive"
      /\ loc[t].after # "AddLoaded" /\ loc[t].ret \in RetPcs
      /\ ControlOK(loc[t])
  BY ThreadFacts DEF Shape, WaitingPcs, FlightPcs
<1>2. QuietMove(pc[t], loc[t], to, loc[t])
  BY <1>1 DEF QuietMove, ThreadOK, Shape, Fulfilled, WaitingPcs, NestedPcs, DonePcs,
              EvictPcs, Loads, InLoader
<1> QED
  BY <1>2, SameStep

-----------------------------------------------------------------------------
(* The actions that move a thread among sections of the same group.        *)

\* A call that never enters GetOrLoadSingleFlight, or has left it.
OutsideAction(t) ==
    \/ Resync(t) \/ ResyncEstimate(t) \/ SaveModel(t)
    \/ ClearMaps(t) \/ ClearLru(t) \/ ClearStore(t) \/ ClearLoadStates(t)
    \/ InvState(t) \/ UploadMove(t) \/ ReqState(t) \/ ReqContains(t)
    \/ AsyncCheck(t) \/ AsyncCount(t) \/ AsyncUncount(t) \/ AsyncUnmark(t)
    \/ Release(t) \/ UnmarkLoaded(t) \/ Uncount(t)
    \/ SerDesign(t) \/ SerGen(t) \/ SerEpoch(t) \/ BuildPayload(t) \/ CommitIdentity(t)

\* None of them touches the in-flight maps.
LEMMA OutsideActions ==
    ASSUME CInv, NEW t \in Threads, OutsideAction(t)
    PROVE  CInv'
<1>0. SameControl(loc[t], loc[t]) /\ loc[t].ret \in OutsidePcs
  BY ThreadFacts DEF Shape, RetPcs, OutsidePcs
<1> USE <1>0, OutsideStep DEF Proceed, OutsidePcs
<1>1. CASE Resync(t)
  BY <1>1 DEF Resync, allButLru, loadVars
<1>2. CASE SaveModel(t)
  BY <1>2 DEF SaveModel, allButCache, loadVars
<1>3. CASE ClearMaps(t)
  BY <1>3 DEF ClearMaps, allButCache, loadVars
<1>4. CASE ClearLru(t)
  BY <1>4 DEF ClearLru, allButLru, loadVars
<1>5. CASE ClearStore(t)
  BY <1>5 DEF ClearStore, allButStore, loadVars
<1>6. CASE ClearLoadStates(t)
  BY <1>6 DEF ClearLoadStates, ClearStates
<1>7. CASE InvState(t)
  BY <1>7 DEF InvState, TransitionLoadState
<1>8. CASE UploadMove(t)
  BY <1>8 DEF UploadMove, allButCache, loadVars
<1>9. CASE ReqState(t)
  BY <1>9 DEF ReqState, shared, loadVars
<1>10. CASE ReqContains(t)
  BY <1>10 DEF ReqContains, shared, loadVars
<1>11. CASE AsyncCheck(t)
  BY <1>11 DEF AsyncCheck, MarkPending, loadVars
<1>12. CASE AsyncCount(t)
  BY <1>12 DEF AsyncCount, allButSlots, loadVars
<1>13. CASE AsyncUncount(t)
  BY <1>13 DEF AsyncUncount, allButSlots, loadVars
<1>14. CASE AsyncUnmark(t)
  BY <1>14 DEF AsyncUnmark, UnmarkPending
<1>15. CASE Release(t)
  BY <1>15 DEF Release, allButSlots, loadVars
<1>16. CASE UnmarkLoaded(t)
  BY <1>16 DEF UnmarkLoaded, UnmarkPending
<1>17. CASE Uncount(t)
  BY <1>17 DEF Uncount, allButSlots, loadVars
<1>18. CASE BuildPayload(t)
  BY <1>18 DEF BuildPayload, shared, loadVars
<1>19. CASE CommitIdentity(t)
  BY <1>19 DEF CommitIdentity, shared, loadVars
<1>20. CASE ResyncEstimate(t)
  <2>1. /\ Goto(t, "Resync", [loc[t] EXCEPT !.bytes = EstimateDesignBytes(Name(t), 0)])
        /\ pc[t] = "ResyncEstimate" /\ inFlight' = inFlight
    BY <1>20 DEF ResyncEstimate, shared, loadVars
  <2> QED
    BY <2>1, OtherLocals
<1>21. CASE SerGen(t)
  <2>1. /\ Goto(t, "SerEpoch", [loc[t] EXCEPT !.gen = [loc[t].gen EXCEPT !["design"] = CurrentGeneration(Name(t))]])
        /\ pc[t] = "SerGen" /\ inFlight' = inFlight
    BY <1>21 DEF SerGen, shared, loadVars
  <2> QED
    BY <2>1, OtherLocals
<1>22. CASE SerEpoch(t)
  <2>1. /\ Goto(t, "BuildPayload", [loc[t] EXCEPT !.ep = [loc[t].ep EXCEPT !["design"] = epoch]])
        /\ pc[t] = "SerEpoch" /\ inFlight' = inFlight
    BY <1>22 DEF SerEpoch, shared, loadVars
  <2> QED
    BY <2>1, OtherLocals
<1>23. CASE SerDesign(t)
  <2> DEFINE found == cache["design"][Name(t)]
  <2>1. /\ Goto(t, IF found = Nil THEN "Idle" ELSE "SerGen", [loc[t] EXCEPT !.val = found])
        /\ pc[t] = "SerDesign" /\ inFlight' = inFlight
    BY <1>23 DEF SerDesign, shared, loadVars
  <2> HIDE DEF found
  <2> QED
    BY <2>1, OtherLocals
<1> QED
  BY <1>1, <1>2, <1>3, <1>4, <1>5, <1>6, <1>7, <1>8, <1>9, <1>10, <1>11, <1>12, <1>13, <1>14, <1>15, <1>16, <1>17, <1>18, <1>19, <1>20, <1>21, <1>22, <1>23 DEF OutsideAction

\* A loader between its registration and InsertLruAndEvict, or after it.
RunningAction(t) ==
    \/ Announce(t) \/ LoaderExits(t) \/ LoadFileArchive(t) \/ BuildDesign(t)
    \/ CheckGen(t) \/ CheckEpoch(t) \/ ScheduleGen(t) \/ ScheduleCount(t)
    \/ ScheduleUncount(t) \/ AnnounceLoaded(t)
    \/ CheckFailed(t) \/ AnnounceFailed(t) \/ EraseState(t)

\* None of them ends the load or touches the in-flight maps.
LEMMA RunningActions ==
    ASSUME CInv, NEW t \in Threads, RunningAction(t)
    PROVE  CInv'
<1>0. SameControl(loc[t], loc[t]) /\ (loc[t].nested => pc[t] \in NestedPcs)
  BY ThreadFacts DEF Shape
<1> USE <1>0, RunningStep DEF Proceed, RunningPcs, DonePcs, NestedPcs
<1>1. CASE Announce(t)
  BY <1>1 DEF Announce, TransitionLoadState
<1>2. CASE ScheduleCount(t)
  BY <1>2 DEF ScheduleCount, allButSlots, loadVars
<1>3. CASE ScheduleUncount(t)
  BY <1>3 DEF ScheduleUncount, allButSlots, loadVars
<1>4. CASE AnnounceLoaded(t)
  BY <1>4 DEF AnnounceLoaded, TransitionLoadState
<1>5. CASE CheckFailed(t)
  BY <1>5 DEF CheckFailed, shared, loadVars
<1>6. CASE AnnounceFailed(t)
  <2>1. /\ pc[t] = "AnnounceFailed" /\ Goto(t, "EraseFlight", loc[t])
        /\ inFlight' = inFlight
    BY <1>6 DEF AnnounceFailed, TransitionLoadState, loadVars
  <2> QED
    BY <2>1
<1>7. CASE EraseState(t)
  BY <1>7 DEF EraseState, EraseLoadState
<1>8. CASE LoaderExits(t)
  <2>1. /\ Goto(t, "Fulfil", [loc[t] EXCEPT !.outcome = "guard", !.val = Nil])
        /\ pc[t] \in {"Announce", "Insert"} /\ inFlight' = inFlight
    BY <1>8 DEF LoaderExits, shared, loadVars
  <2>2. SameControl(loc[t], [loc[t] EXCEPT !.outcome = "guard", !.val = Nil])
    BY ThreadFacts DEF SameControl, Fields
  <2> QED
    BY <2>1, <2>2
<1>9. CASE CheckGen(t)
  <2>1. /\ Goto(t, "CheckEpoch", [loc[t] EXCEPT !.stale = CurrentGeneration(Name(t)) # loc[t].gen[Kind(t)]])
        /\ pc[t] = "CheckGen" /\ inFlight' = inFlight
    BY <1>9 DEF CheckGen, shared, loadVars
  <2>2. SameControl(loc[t], [loc[t] EXCEPT !.stale = CurrentGeneration(Name(t)) # loc[t].gen[Kind(t)]])
    BY ThreadFacts DEF SameControl, Fields
  <2> QED
    BY <2>1, <2>2
<1>10. CASE CheckEpoch(t)
  <2>1. /\ \/ Goto(t, "Fulfil", [loc[t] EXCEPT !.stale = FALSE, !.outcome = "abandoned"])
           \/ Goto(t, "Insert", [loc[t] EXCEPT !.stale = FALSE, !.outcome = "value"])
        /\ pc[t] = "CheckEpoch" /\ inFlight' = inFlight
    BY <1>10 DEF CheckEpoch, shared, loadVars
  <2>2. /\ SameControl(loc[t], [loc[t] EXCEPT !.stale = FALSE, !.outcome = "abandoned"])
        /\ SameControl(loc[t], [loc[t] EXCEPT !.stale = FALSE, !.outcome = "value"])
    BY ThreadFacts DEF SameControl, Fields
  <2> QED
    BY <2>1, <2>2
<1>11. CASE ScheduleGen(t)
  <2>1. /\ Goto(t, "ScheduleCount", [loc[t] EXCEPT !.gen = [loc[t].gen EXCEPT !["design"] = CurrentGeneration(Name(t))]])
        /\ pc[t] = "ScheduleGen" /\ inFlight' = inFlight
    BY <1>11 DEF ScheduleGen, shared, loadVars
  <2>2. SameControl(loc[t], [loc[t] EXCEPT !.gen = [loc[t].gen EXCEPT !["design"] = CurrentGeneration(Name(t))]])
    BY ThreadFacts DEF SameControl, Fields
  <2> QED
    BY <2>1, <2>2
<1>12. CASE LoadFileArchive(t)
  <2>1. /\ \/ Goto(t, "Fulfil", [loc[t] EXCEPT !.outcome = "null", !.val = Nil])
           \/ Goto(t, "CheckGen", [loc[t] EXCEPT !.val = [id |-> 0, ver |-> disk[Name(t)]]])
           \/ Goto(t, "Fulfil", [loc[t] EXCEPT !.outcome = "threw", !.val = Nil])
        /\ pc[t] = "Load" /\ inFlight' = inFlight
    BY <1>12 DEF LoadFileArchive, shared, loadVars
  <2>2. /\ SameControl(loc[t], [loc[t] EXCEPT !.outcome = "null", !.val = Nil])
        /\ SameControl(loc[t], [loc[t] EXCEPT !.val = [id |-> 0, ver |-> disk[Name(t)]]])
        /\ SameControl(loc[t], [loc[t] EXCEPT !.outcome = "threw", !.val = Nil])
    BY ThreadFacts DEF SameControl, Fields
  <2> QED
    BY <2>1, <2>2
<1>13. CASE BuildDesign(t)
  <2>1. /\ \/ Goto(t, "CheckGen", [loc[t] EXCEPT !.val = [loc[t].val EXCEPT !.id = FreshId]])
           \/ Goto(t, "Fulfil", [loc[t] EXCEPT !.outcome = "null", !.val = Nil])
           \/ Goto(t, "Fulfil", [loc[t] EXCEPT !.outcome = "threw", !.val = Nil])
        /\ pc[t] = "Build" /\ inFlight' = inFlight
    BY <1>13 DEF BuildDesign, shared, loadVars
  <2>2. /\ SameControl(loc[t], [loc[t] EXCEPT !.val = [loc[t].val EXCEPT !.id = FreshId]])
        /\ SameControl(loc[t], [loc[t] EXCEPT !.outcome = "null", !.val = Nil])
        /\ SameControl(loc[t], [loc[t] EXCEPT !.outcome = "threw", !.val = Nil])
    BY ThreadFacts DEF SameControl, Fields
  <2> QED
    BY <2>1, <2>2
<1> QED
  BY <1>1, <1>2, <1>3, <1>4, <1>5, <1>6, <1>7, <1>8, <1>9, <1>10, <1>11, <1>12, <1>13 DEF RunningAction

\* The fast path, the generation capture and the wait for a slot.
LEMMA WaitingActions ==
    ASSUME CInv, NEW t \in Threads, Lookup(t) \/ CaptureGen(t) \/ Acquire(t)
    PROVE  CInv'
<1>0. SameControl(loc[t], loc[t])
  BY ThreadFacts
<1> USE <1>0, WaitingStep DEF Proceed, WaitingPcs
<1>1. CASE Lookup(t)
  <2>1. /\ \/ \E v : Goto(t, "TouchHit", [loc[t] EXCEPT !.val = v])
           \/ Goto(t, "CaptureGen", loc[t])
        /\ pc[t] = "Lookup" /\ inFlight' = inFlight
    BY <1>1 DEF Lookup, shared, loadVars
  <2> QED
    BY <2>1, OtherLocals
<1>2. CASE CaptureGen(t)
  <2>1. /\ Goto(t, "Register",
                [loc[t] EXCEPT !.gen = [loc[t].gen EXCEPT ![Kind(t)] =
                                           CurrentGeneration(Name(t))]])
        /\ pc[t] = "CaptureGen" /\ inFlight' = inFlight
    BY <1>2 DEF CaptureGen, shared, loadVars
  <2>2. SameControl(loc[t],
                    [loc[t] EXCEPT !.gen = [loc[t].gen EXCEPT ![Kind(t)] =
                                               CurrentGeneration(Name(t))]])
    BY ThreadFacts DEF SameControl, Fields
  <2> QED
    BY <2>1, <2>2
<1>3. CASE Acquire(t) /\ loc[t].job = "load"
  BY <1>3 DEF Acquire, allButSlots, loadVars
<1>4. CASE Acquire(t) /\ loc[t].job # "load"
  <2>1. Proceed(t, "BuildPayload") /\ pc[t] = "AcquireSlot" /\ inFlight' = inFlight
    BY <1>4 DEF Acquire, allButSlots, loadVars
  <2>2. QuietMove(pc[t], loc[t], "BuildPayload", loc[t])
    BY <2>1, ThreadFacts DEF QuietMove, ThreadOK, Shape, Fulfilled, FlightPcs, NestedPcs,
                             DonePcs, EvictPcs, Loads, InLoader
  <2> QED
    BY <2>1, <2>2, ProceedStep
<1> QED
  BY <1>1, <1>2, <1>3, <1>4

\* The system has no thread left for LoadDesignAsync or for the pre-serialization.
LEMMA SpawnFailsStep ==
    ASSUME CInv, NEW t \in Threads, SpawnFails(t)
    PROVE  CInv'
<1>0. SameControl(loc[t], loc[t]) /\ (loc[t].nested => pc[t] \in NestedPcs)
  BY ThreadFacts DEF Shape
<1>1. CASE pc[t] = "AsyncSpawn"
  BY <1>0, <1>1, OutsideStep DEF SpawnFails, Proceed, OutsidePcs, shared, loadVars
<1>2. CASE pc[t] = "ScheduleSpawn"
  BY <1>0, <1>2, RunningStep DEF SpawnFails, Proceed, RunningPcs, DonePcs, NestedPcs,
                                 shared, loadVars
<1> QED
  BY <1>1, <1>2 DEF SpawnFails

-----------------------------------------------------------------------------
(* The actions that pass from one group of sections to another.            *)

\* A loader goes on to InsertLruAndEvict and stays the loader.
LEMMA InsertStep ==
    ASSUME CInv, NEW t \in Threads, Insert(t)
    PROVE  CInv'
<1>1. /\ \/ Goto(t, "Estimate", [loc[t] EXCEPT !.val = cache[Kind(t)][Name(t)]])
         \/ Goto(t, "Estimate", loc[t])
      /\ pc[t] = "Insert" /\ inFlight' = inFlight
  BY DEF Insert, Proceed, allButCache, loadVars
<1>2. /\ SameControl(loc[t], [loc[t] EXCEPT !.val = cache[Kind(t)][Name(t)]])
      /\ SameControl(loc[t], loc[t])
  BY ThreadFacts DEF SameControl, Fields
<1>3. QuietMove(pc[t], loc[t], "Estimate", loc[t])
  BY <1>1, ThreadFacts DEF QuietMove, ThreadOK, Shape, Fulfilled, FlightPcs, NestedPcs,
                           DonePcs, EvictPcs, Loads, InLoader
<1> QED
  BY <1>1, <1>2, <1>3, SameStep

\* LoadDesign gives up, or pulls its archive through the cache.
LEMMA LoadDesignStep ==
    ASSUME CInv, NEW t \in Threads, LoadDesign(t)
    PROVE  CInv'
<1>1. /\ pc[t] = "Load" /\ loc[t].kind = "design" /\ inFlight' = inFlight
      /\ ~loc[t].nested
  BY ThreadFacts DEF LoadDesign, Kind, shared, loadVars, Shape
<1>2. CASE disk[Name(t)] = 0
  <2> DEFINE l == [loc[t] EXCEPT !.outcome = "null", !.val = Nil]
  <2>1. Goto(t, "Fulfil", l)
    BY <1>2 DEF LoadDesign
  <2>2. SameControl(loc[t], l)
    BY ThreadFacts DEF SameControl, Fields
  <2> HIDE DEF l
  <2> QED
    BY <1>1, <2>1, <2>2, RunningStep DEF RunningPcs, DonePcs
<1>3. CASE disk[Name(t)] # 0
  <2> DEFINE l == [loc[t] EXCEPT !.kind = "archive", !.nested = TRUE]
  <2>1. Goto(t, "Lookup", l)
    BY <1>3 DEF LoadDesign
  <2>2. /\ DOMAIN l = Fields /\ l.name = loc[t].name /\ l.kind = "archive" /\ l.nested = TRUE
        /\ l.after = loc[t].after /\ l.ret = loc[t].ret
    BY ThreadFacts DEF Fields
  <2> HIDE DEF l
  <2>3. ThreadOK("Lookup", l)
    BY <1>1, <2>2, ThreadFacts DEF ThreadOK, ControlOK, Kinds, Shape, Fulfilled, FlightPcs,
                                   NestedPcs, DonePcs, EvictPcs
  <2>4. QuietMove(pc[t], loc[t], "Lookup", l)
    BY <1>1, <2>2, <2>3 DEF QuietMove, Loads, InLoader, Kinds
  <2> QED
    BY <1>1, <2>1, <2>4, GotoStep
<1> QED
  BY <1>2, <1>3

\* The locals with which LoadDesign goes on after its archive load.
Unnested(l, m) ==
    /\ DOMAIN m = Fields /\ m.name = l.name /\ m.kind = "design" /\ m.nested = FALSE
    /\ m.after = l.after /\ m.ret = l.ret

\* Where an activation that is not (or no longer) a loader ends: in LoadDesign, or
\* in the call.
LEMMA LeaveQuietly ==
    ASSUME CInv, NEW t \in Threads, NEW to, NEW l, Goto(t, to, l),
           pc[t] \in {"TouchHit", "TouchJoin", "Join"}, inFlight' = inFlight,
           \/ loc[t].nested /\ to \in {"Build", "Fulfil"} /\ Unnested(loc[t], l)
           \/ ~loc[t].nested /\ to \in RetPcs /\ SameControl(loc[t], l)
    PROVE  CInv'
<1>1. CASE loc[t].nested
  <2>1. loc[t].kind = "archive" /\ to \in {"Build", "Fulfil"} /\ Unnested(loc[t], l)
    BY <1>1, ThreadFacts DEF Shape
  <2>2. ThreadOK(to, l)
    BY <2>1, ThreadFacts DEF Unnested, ThreadOK, ControlOK, Kinds, Shape, Fulfilled,
                             FlightPcs, DonePcs, EvictPcs
  <2>3. QuietMove(pc[t], loc[t], to, l)
    BY <1>1, <2>1, <2>2 DEF Unnested, QuietMove, Loads, InLoader, Kinds
  <2> QED
    BY <2>3, GotoStep
<1>2. CASE ~loc[t].nested
  <2>1. QuietMove(pc[t], loc[t], to, loc[t])
    BY <1>2, ThreadFacts DEF QuietMove, ThreadOK, Shape, Fulfilled, RetPcs, FlightPcs,
                             DonePcs, EvictPcs, Loads, InLoader
  <2> QED
    BY <1>2, <2>1, SameStep
<1> QED
  BY <1>1, <1>2

\* Where Return goes.
LEMMA ReturnTargets ==
    ASSUME CInv, NEW t \in Threads, NEW v, Return(t, v)
    PROVE  \E to, l : /\ Goto(t, to, l)
                      /\ \/ /\ loc[t].nested /\ to \in {"Build", "Fulfil"}
                            /\ Unnested(loc[t], l)
                         \/ ~loc[t].nested /\ to \in RetPcs /\ SameControl(loc[t], l)
<1>1. CASE loc[t].nested
  <2> DEFINE to == IF v = Nil THEN "Fulfil" ELSE "Build"
             l == [loc[t] EXCEPT !.kind = "design", !.nested = FALSE, !.val = v,
                                 !.outcome = IF v = Nil THEN "null" ELSE "value"]
  <2>1. Goto(t, to, l)
    BY <1>1 DEF Return
  <2>2. Unnested(loc[t], l)
    BY ThreadFacts DEF Unnested, Fields
  <2>3. to \in {"Build", "Fulfil"}
    OBVIOUS
  <2> HIDE DEF to, l
  <2> QED
    BY <1>1, <2>1, <2>2, <2>3
<1>2. CASE ~loc[t].nested
  <2> DEFINE l == [loc[t] EXCEPT !.val = v]
  <2>1. Goto(t, loc[t].ret, l)
    BY <1>2 DEF Return
  <2>2. SameControl(loc[t], l)
    BY ThreadFacts DEF SameControl, Fields
  <2>3. loc[t].ret \in RetPcs
    BY ThreadFacts DEF Shape
  <2> HIDE DEF l
  <2> QED
    BY <1>2, <2>1, <2>2, <2>3
<1> QED
  BY <1>1, <1>2

\* A thrown exception goes where a returned null goes.
LEMMA ThrowTargets ==
    ASSUME CInv, NEW t \in Threads, Throw(t)
    PROVE  \E to, l : /\ Goto(t, to, l)
                      /\ \/ /\ loc[t].nested /\ to \in {"Build", "Fulfil"}
                            /\ Unnested(loc[t], l)
                         \/ ~loc[t].nested /\ to \in RetPcs /\ SameControl(loc[t], l)
<1>1. CASE loc[t].nested
  <2> DEFINE l == [loc[t] EXCEPT !.kind = "design", !.nested = FALSE, !.val = Nil,
                                 !.outcome = "threw"]
  <2>1. Goto(t, "Fulfil", l)
    BY <1>1 DEF Throw
  <2>2. Unnested(loc[t], l)
    BY ThreadFacts DEF Unnested, Fields
  <2> HIDE DEF l
  <2> QED
    BY <1>1, <2>1, <2>2
<1>2. CASE ~loc[t].nested
  BY <1>2, ThreadFacts DEF Throw, Proceed, RetPcs
<1> QED
  BY <1>1, <1>2

\* A hit returns; a joiner returns or rethrows.
LEMMA LeaveActions ==
    ASSUME CInv, NEW t \in Threads, TouchHit(t) \/ TouchJoin(t) \/ Join(t)
    PROVE  CInv'
<1>1. CASE TouchHit(t) \/ TouchJoin(t)
  <2>1. /\ Return(t, loc[t].val) /\ inFlight' = inFlight
        /\ pc[t] \in {"TouchHit", "TouchJoin", "Join"}
    BY <1>1 DEF TouchHit, TouchJoin, allButLru, loadVars
  <2> QED
    BY <2>1, ReturnTargets, LeaveQuietly
<1>2. CASE Join(t) /\ loc[t].wait.status = "exception"
  <2>1. Throw(t) /\ inFlight' = inFlight /\ pc[t] \in {"TouchHit", "TouchJoin", "Join"}
    BY <1>2 DEF Join, shared, loadVars
  <2> QED
    BY <2>1, ThrowTargets, LeaveQuietly
<1>3. CASE Join(t) /\ loc[t].wait.status # "exception"
  <2> DEFINE l == [loc[t] EXCEPT !.val = loc[t].wait.val]
  <2>1. Goto(t, "TouchJoin", l) /\ pc[t] = "Join" /\ inFlight' = inFlight
    BY <1>3 DEF Join, shared, loadVars
  <2>2. SameControl(loc[t], l)
    BY ThreadFacts DEF SameControl, Fields
  <2> HIDE DEF l
  <2> QED
    BY <2>1, <2>2, WaitingStep DEF WaitingPcs
<1> QED
  BY <1>1, <1>2, <1>3

-----------------------------------------------------------------------------
(* InsertLruAndEvict, EvictCacheEntries and InvalidateResponsePayloads.    *)

\* Sections before InsertLruAndEvict evicts, and where each goes on.
LEMMA EvictStep ==
    ASSUME CInv, NEW t \in Threads, NEW V, NEW after, EvictThen(t, V, after),
           inFlight' = inFlight,
           after \in LoaderAfter \cup RetPcs \cup {"AddLoaded"},
           loc[t].nested => after = "Fulfil",
           \A p \in EvictPcs \cup {after}, k \in Kinds, n \in Names :
              Loads(p, [loc[t] EXCEPT !.victims = V, !.after = after], k, n)
                 <=> Loads(pc[t], loc[t], k, n)
    PROVE  CInv'
<1> DEFINE l == [loc[t] EXCEPT !.victims = V, !.after = after]
           to == IF V = {} THEN after ELSE "EvictStore"
<1>1. Goto(t, to, l)
  BY DEF EvictThen
<1>2. /\ DOMAIN l = Fields /\ l.name = loc[t].name /\ l.kind = loc[t].kind
      /\ l.nested = loc[t].nested /\ l.after = after /\ l.ret = loc[t].ret
  BY ThreadFacts DEF Fields
<1>3. \A k \in Kinds, n \in Names : Loads(to, l, k, n) <=> Loads(pc[t], loc[t], k, n)
  <2>1. to \in EvictPcs \cup {after}
    BY DEF EvictPcs
  <2> HIDE DEF to
  <2> QED
    BY <2>1
<1>4. to \in {after, "EvictStore"}
  OBVIOUS
<1> HIDE DEF l, to
<1>5. ThreadOK(to, l)
  <2>1. ControlOK(l) /\ loc[t].ret \in RetPcs /\ (loc[t].nested => loc[t].kind = "archive")
    BY <1>2, ThreadFacts DEF ControlOK, Shape
  <2>2. CASE to = "EvictStore"
    BY <1>2, <2>1, <2>2 DEF ThreadOK, Shape, Fulfilled, NestedPcs, EvictPcs, FlightPcs,
                            DonePcs
  <2>3. CASE to = after
    BY <1>2, <2>1, <2>3 DEF ThreadOK, Shape, Fulfilled, NestedPcs, EvictPcs, FlightPcs,
                            DonePcs, LoaderAfter, RetPcs
  <2> QED
    BY <1>4, <2>2, <2>3
<1>6. to # "Join"
  BY <1>4 DEF LoaderAfter, RetPcs
<1> QED
  BY <1>1, <1>3, <1>5, <1>6, GotoStep DEF QuietMove

\* The facts an EvictStep needs about its locals.
LEMMA EvictLocals ==
    ASSUME CInv, NEW t \in Threads, NEW V, NEW after
    PROVE  LET l == [loc[t] EXCEPT !.victims = V, !.after = after]
           IN  /\ l.name = loc[t].name /\ l.kind = loc[t].kind
               /\ l.nested = loc[t].nested /\ l.after = after
  BY ThreadFacts DEF Fields

\* A loader stays the loader while it evicts; AddFileArchive is none.
LEMMA ChargeStep ==
    ASSUME CInv, NEW t \in Threads, Charge(t)
    PROVE  CInv'
<1> DEFINE after == IF loc[t].after = "AddLoaded" THEN "AddLoaded" ELSE AfterInsert(t)
<1>1. PICK V : EvictThen(t, V, after)
  BY DEF Charge
<1>2. pc[t] = "Charge" /\ inFlight' = inFlight
  BY DEF Charge, allButLru, loadVars
<1>3. /\ loc[t].kind \in Kinds
      /\ loc[t].nested => loc[t].kind = "archive" /\ loc[t].after # "AddLoaded"
      /\ loc[t].nested \in BOOLEAN
  BY <1>2, ThreadFacts DEF Shape, ControlOK
<1>4. /\ after \in LoaderAfter \cup {"AddLoaded"}
      /\ loc[t].nested => after = "Fulfil"
      /\ after = "AddLoaded" <=> loc[t].after = "AddLoaded"
  BY <1>3 DEF AfterInsert, Kind, UpdateState, Kinds, LoaderAfter
<1> HIDE DEF after
<1> DEFINE l == [loc[t] EXCEPT !.victims = V, !.after = after]
<1>5. l.name = loc[t].name /\ l.kind = loc[t].kind /\ l.nested = loc[t].nested /\ l.after = after
  BY EvictLocals
<1> HIDE DEF l
<1>6. \A p \in EvictPcs \cup {after}, k \in Kinds, n \in Names :
         Loads(p, l, k, n) <=> Loads(pc[t], loc[t], k, n)
  BY <1>2, <1>3, <1>4, <1>5 DEF Loads, InLoader, EvictPcs, LoaderAfter
<1>7. after \in LoaderAfter \cup RetPcs \cup {"AddLoaded"}
  BY <1>4
<1> QED
  BY <1>1, <1>2, <1>4, <1>6, <1>7, EvictStep DEF l

\* setCacheMaxBytes and CommitResponsePayloads evict outside any load.
LEMMA EvictOutside ==
    ASSUME CInv, NEW t \in Threads, NEW V, NEW after, EvictThen(t, V, after),
           inFlight' = inFlight, pc[t] \in OutsidePcs, after \in RetPcs
    PROVE  CInv'
<1>1. ~loc[t].nested
  BY ThreadFacts DEF Shape, OutsidePcs, NestedPcs
<1> DEFINE l == [loc[t] EXCEPT !.victims = V, !.after = after]
<1>2. l.name = loc[t].name /\ l.kind = loc[t].kind /\ l.nested = loc[t].nested /\ l.after = after
  BY EvictLocals
<1> HIDE DEF l
<1>3. \A p \in EvictPcs \cup {after}, k \in Kinds, n \in Names :
         Loads(p, l, k, n) <=> Loads(pc[t], loc[t], k, n)
  BY <1>1, <1>2 DEF Loads, InLoader, EvictPcs, RetPcs, OutsidePcs
<1> QED
  BY <1>1, <1>3, EvictStep DEF l

\* Both go on where the call goes on.
LEMMA EvictOutsideActions ==
    ASSUME CInv, NEW t \in Threads, SetCacheMaxBytes(t) \/ CommitStore(t)
    PROVE  CInv'
<1>0. loc[t].ret \in RetPcs /\ SameControl(loc[t], loc[t])
  BY ThreadFacts DEF Shape
<1>1. CASE SetCacheMaxBytes(t)
  <2>1. /\ \E V : EvictThen(t, V, "Idle")
        /\ pc[t] \in OutsidePcs /\ inFlight' = inFlight /\ "Idle" \in RetPcs
    BY <1>1 DEF SetCacheMaxBytes, allButLru, loadVars, OutsidePcs, RetPcs
  <2> QED
    BY <2>1, EvictOutside
<1>2. CASE CommitStore(t)
  <2>1. /\ Proceed(t, loc[t].ret) \/ \E V : EvictThen(t, V, loc[t].ret)
        /\ pc[t] \in OutsidePcs /\ inFlight' = inFlight
    BY <1>2 DEF CommitStore, loadVars, OutsidePcs
  <2>2. CASE Proceed(t, loc[t].ret)
    <3>1. loc[t].ret \in OutsidePcs
      BY <1>0 DEF RetPcs, OutsidePcs
    <3> QED
      BY <1>0, <2>1, <2>2, <3>1, OutsideStep DEF Proceed
  <2> QED
    BY <1>0, <2>1, <2>2, EvictOutside
<1> QED
  BY <1>1, <1>2

\* The sections of EvictCacheEntries for one victim, and the estimate before.
LEMMA EvictActions ==
    ASSUME CInv, NEW t \in Threads,
           Estimate(t) \/ EvictStore(t) \/ EvictMaps(t) \/ EvictState(t)
    PROVE  CInv'
<1>1. CASE Estimate(t)
  <2>1. PICK x : Goto(t, "Charge", [loc[t] EXCEPT !.bytes = x])
    BY <1>1 DEF Estimate
  <2>2. pc[t] = "Estimate" /\ inFlight' = inFlight
    BY <1>1 DEF Estimate, shared, loadVars
  <2>3. SameControl(loc[t], [loc[t] EXCEPT !.bytes = x])
    BY ThreadFacts DEF SameControl, Fields
  <2>4. QuietMove(pc[t], loc[t], "Charge", loc[t])
    BY <2>2, ThreadFacts DEF QuietMove, ThreadOK, Shape, Fulfilled, FlightPcs, NestedPcs,
                             DonePcs, EvictPcs, Loads, InLoader
  <2> QED
    BY <2>1, <2>2, <2>3, <2>4, SameStep
<1>2. CASE EvictStore(t)
  <2>1. PICK x : Goto(t, "EvictMaps", [loc[t] EXCEPT !.victim = x])
    BY <1>2 DEF EvictStore
  <2>2. pc[t] = "EvictStore" /\ inFlight' = inFlight
    BY <1>2 DEF EvictStore, allButStore, loadVars
  <2>3. SameControl(loc[t], [loc[t] EXCEPT !.victim = x])
    BY ThreadFacts DEF SameControl, Fields
  <2>4. QuietMove(pc[t], loc[t], "EvictMaps", loc[t])
    BY <2>2, ThreadFacts DEF QuietMove, ThreadOK, Shape, Fulfilled, FlightPcs, NestedPcs,
                             DonePcs, EvictPcs, Loads, InLoader
  <2> QED
    BY <2>1, <2>2, <2>3, <2>4, SameStep
<1>3. CASE EvictMaps(t)
  <2>1. Proceed(t, "EvictState") /\ pc[t] = "EvictMaps" /\ inFlight' = inFlight
    BY <1>3 DEF EvictMaps, allButCache, loadVars
  <2>2. QuietMove(pc[t], loc[t], "EvictState", loc[t])
    BY <2>1, ThreadFacts DEF QuietMove, ThreadOK, Shape, Fulfilled, FlightPcs, NestedPcs,
                             DonePcs, EvictPcs, Loads, InLoader
  <2> QED
    BY <2>1, <2>2, ProceedStep
<1>4. CASE EvictState(t)
  <2> DEFINE rest == loc[t].victims \ {loc[t].victim}
             to == IF rest = {} THEN loc[t].after ELSE "EvictStore"
             l == [loc[t] EXCEPT !.victims = rest, !.victim = AnyName]
  <2>1. Goto(t, to, l) /\ to \in {loc[t].after, "EvictStore"}
    BY <1>4 DEF EvictState
  <2>2. pc[t] = "EvictState" /\ inFlight' = inFlight
    BY <1>4 DEF EvictState, TransitionLoadState
  <2>3. SameControl(loc[t], l)
    BY ThreadFacts DEF SameControl, Fields
  <2> HIDE DEF rest, to, l
  <2>4. /\ loc[t].after \in LoaderAfter \cup RetPcs \cup {"AddLoaded"}
        /\ loc[t].nested => loc[t].after = "Fulfil"
    BY <2>2, ThreadFacts DEF Shape, EvictPcs
  <2>5. ThreadOK(to, loc[t]) /\ to # "Join"
    BY <2>1, <2>2, <2>4, ThreadFacts DEF ThreadOK, Shape, Fulfilled, FlightPcs, NestedPcs,
                                         DonePcs, EvictPcs, LoaderAfter, RetPcs
  <2>6. \A k \in Kinds, n \in Names : Loads(to, loc[t], k, n) <=> Loads(pc[t], loc[t], k, n)
    BY <2>1, <2>2, <2>4 DEF Loads, InLoader, LoaderAfter, RetPcs
  <2> QED
    BY <2>1, <2>2, <2>3, <2>5, <2>6, SameStep DEF QuietMove
<1> QED
  BY <1>1, <1>2, <1>3, <1>4

\* AddFileArchive and InvalidateDesign up to the LRU charge of the payloads.
LEMMA InvalidateActions ==
    ASSUME CInv, NEW t \in Threads,
           AddMaps(t) \/ InvMaps(t) \/ InvStore(t) \/ AdjustLru(t)
    PROVE  CInv'
<1>1. CASE AddMaps(t) \/ InvMaps(t)
  <2>1. PICK a \in {"Estimate", "InvState"} : Goto(t, "InvStore", [loc[t] EXCEPT !.after = a])
    BY <1>1 DEF AddMaps, InvMaps
  <2>2. pc[t] \in {"AddMaps", "InvMaps"} /\ inFlight' = inFlight
    BY <1>1 DEF AddMaps, InvMaps, allButCache, loadVars
  <2>3. ~loc[t].nested
    BY <2>2, ThreadFacts DEF Shape, NestedPcs
  <2> DEFINE l == [loc[t] EXCEPT !.after = a]
  <2>4. /\ DOMAIN l = Fields /\ l.name = loc[t].name /\ l.kind = loc[t].kind
        /\ l.nested = loc[t].nested /\ l.after = a /\ l.ret = loc[t].ret
    BY ThreadFacts DEF Fields
  <2> HIDE DEF l
  <2>5. ThreadOK("InvStore", l)
    BY <2>1, <2>3, <2>4, ThreadFacts DEF ThreadOK, ControlOK, Shape, Fulfilled, FlightPcs,
                                         DonePcs, EvictPcs
  <2>6. QuietMove(pc[t], loc[t], "InvStore", l)
    BY <2>2, <2>3, <2>4, <2>5 DEF QuietMove, Loads, InLoader
  <2> QED
    BY <2>1, <2>2, <2>6, GotoStep DEF l
<1>2. CASE InvStore(t)
  <2>1. Proceed(t, "AdjustLru") /\ pc[t] = "InvStore" /\ inFlight' = inFlight
    BY <1>2 DEF InvStore, allButStore, loadVars
  <2>2. QuietMove(pc[t], loc[t], "AdjustLru", loc[t])
    BY <2>1, ThreadFacts DEF QuietMove, ThreadOK, Shape, Fulfilled, FlightPcs, NestedPcs,
                             DonePcs, EvictPcs, Loads, InLoader
  <2> QED
    BY <2>1, <2>2, ProceedStep
<1>3. CASE AdjustLru(t)
  <2> DEFINE a == IF loc[t].after = "Estimate" THEN "AddLoaded" ELSE "Idle"
             l == [loc[t] EXCEPT !.after = a]
  <2>1. Goto(t, loc[t].after, l)
    BY <1>3, ThreadFacts DEF AdjustLru, Fields
  <2>2. pc[t] = "AdjustLru" /\ inFlight' = inFlight
    BY <1>3 DEF AdjustLru, allButLru, loadVars
  <2>3. ~loc[t].nested /\ loc[t].after \in {"Estimate", "InvState"}
    BY <2>2, ThreadFacts DEF Shape, NestedPcs
  <2>4. /\ DOMAIN l = Fields /\ l.name = loc[t].name /\ l.kind = loc[t].kind
        /\ l.nested = loc[t].nested /\ l.after = a /\ l.ret = loc[t].ret
    BY ThreadFacts DEF Fields
  <2> HIDE DEF l
  <2>5. ThreadOK(loc[t].after, l)
    BY <2>3, <2>4, ThreadFacts DEF ThreadOK, ControlOK, Shape, Fulfilled, FlightPcs,
                                   DonePcs, EvictPcs
  <2>6. QuietMove(pc[t], loc[t], loc[t].after, l)
    BY <2>2, <2>3, <2>4, <2>5 DEF QuietMove, Loads, InLoader
  <2> QED
    BY <2>1, <2>2, <2>6, GotoStep
<1> QED
  BY <1>1, <1>2, <1>3

\* Fresh locals for a call on name n, kind k that goes on at r.
FreshLocals(l, n, k, r) ==
    /\ DOMAIN l = Fields
    /\ l.name = n /\ l.kind = k /\ l.nested = FALSE /\ l.after = "Idle" /\ l.ret = r

\* An idle or finishing thread starts a call.
LEMMA StartStep ==
    ASSUME CInv, NEW t \in Threads, NEW to, NEW l, Goto(t, to, l),
           NEW n \in Names, NEW k \in Kinds, NEW r \in RetPcs, FreshLocals(l, n, k, r),
           pc[t] \in OutsidePcs, to \in OutsidePcs \cup {"Lookup"},
           inFlight' = inFlight
    PROVE  CInv'
<1>1. ~loc[t].nested
  BY ThreadFacts DEF Shape, OutsidePcs, NestedPcs
<1>2. ThreadOK(to, l)
  BY DEF ThreadOK, ControlOK, Shape, Fulfilled, FreshLocals, FlightPcs, DonePcs, EvictPcs,
         OutsidePcs
<1>3. QuietMove(pc[t], loc[t], to, l)
  BY <1>1, <1>2 DEF QuietMove, Loads, InLoader, FreshLocals, OutsidePcs
<1> QED
  BY <1>3, GotoStep

\* calls counts the calls of each client.
CallsOK == calls \in [Clients -> Nat]

\* A client issues a request.
LEMMA CallStep ==
    ASSUME CInv, CallsOK, NEW t \in Threads, Call(t)
    PROVE  CInv'
<1>1. PICK r \in Script[t][calls[t] + 1] :
         Goto(t, EntryLabel(r.op),
              [NoLocals EXCEPT !.name = r.name, !.max = r.max,
                               !.kind = IF r.op = "GetFileArchive" THEN "archive"
                                                                   ELSE "design",
                               !.save = r.op = "SaveNewArchive"])
  BY DEF Call
<1>2. pc[t] = "Idle" /\ inFlight' = inFlight
  BY DEF Call, loadVars
<1>3. r \in Request
  <2>1. Script[t] \in Seq(SUBSET Request) /\ calls[t] \in Nat /\ calls[t] < Len(Script[t])
    BY CacheAssumption DEF Call, CallsOK
  <2>2. Script[t][calls[t] + 1] \in SUBSET Request
    BY <2>1
  <2> QED
    BY <2>2
<1> DEFINE k == IF r.op = "GetFileArchive" THEN "archive" ELSE "design"
           l == [NoLocals EXCEPT !.name = r.name, !.max = r.max, !.kind = k,
                                 !.save = r.op = "SaveNewArchive"]
<1>4. FreshLocals(l, r.name, k, "Idle")
  BY DEF FreshLocals, NoLocals, Fields
<1>5. k \in Kinds /\ r.name \in Names /\ "Idle" \in RetPcs
  BY <1>3 DEF Request, Kinds, RetPcs
<1>6. EntryLabel(r.op) \in OutsidePcs \cup {"Lookup"}
  BY <1>3 DEF Request, Ops, EntryLabel, OutsidePcs
<1>7. pc[t] \in OutsidePcs
  BY <1>2 DEF OutsidePcs
<1>8. Goto(t, EntryLabel(r.op), l)
  BY <1>1
<1> HIDE DEF k, l
<1> QED
  BY <1>2, <1>4, <1>5, <1>6, <1>7, <1>8, StartStep

\* AddFileArchive ends, or SaveFileArchive goes on to fetch the archive.
LEMMA AddLoadedStep ==
    ASSUME CInv, NEW t \in Threads, AddLoaded(t)
    PROVE  CInv'
<1>1. pc[t] = "AddLoaded" /\ inFlight' = inFlight /\ loc[t].name \in Names
  BY ThreadFacts DEF AddLoaded, TransitionLoadState, ControlOK
<1>2. CASE loc[t].save
  <2> DEFINE l == [NoLocals EXCEPT !.name = Name(t), !.kind = "archive", !.ret = "SaveModel"]
  <2>1. Goto(t, "Lookup", l)
    BY <1>2 DEF AddLoaded
  <2>2. FreshLocals(l, loc[t].name, "archive", "SaveModel")
    BY DEF FreshLocals, NoLocals, Fields, Name
  <2> HIDE DEF l
  <2>3. "archive" \in Kinds /\ "SaveModel" \in RetPcs /\ pc[t] \in OutsidePcs
    BY <1>1 DEF Kinds, RetPcs, OutsidePcs
  <2> QED
    BY <1>1, <2>1, <2>2, <2>3, StartStep
<1>3. CASE ~loc[t].save
  BY <1>1, <1>3, ThreadFacts, OutsideStep DEF AddLoaded, Proceed, OutsidePcs
<1> QED
  BY <1>2, <1>3

\* autoWarmDesign invalidates and comes back to LoadDesignAsync, or goes there.
LEMMA WarmCheckStep ==
    ASSUME CInv, NEW t \in Threads, WarmCheck(t)
    PROVE  CInv'
<1>1. pc[t] = "WarmCheck" /\ inFlight' = inFlight
  BY DEF WarmCheck, shared, loadVars
<1>2. CASE GetLoadState(Name(t)) # "Unloaded"
  <2> DEFINE l == [loc[t] EXCEPT !.ret = "AsyncCheck"]
  <2>1. Goto(t, "InvMaps", l)
    BY <1>2 DEF WarmCheck
  <2>2. /\ DOMAIN l = Fields /\ l.name = loc[t].name /\ l.kind = loc[t].kind
        /\ l.nested = loc[t].nested /\ l.after = loc[t].after /\ l.ret = "AsyncCheck"
    BY ThreadFacts DEF Fields
  <2> HIDE DEF l
  <2>3. ~loc[t].nested
    BY <1>1, ThreadFacts DEF Shape, NestedPcs
  <2>4. ThreadOK("InvMaps", l)
    BY <2>2, <2>3, ThreadFacts DEF ThreadOK, ControlOK, Shape, Fulfilled, RetPcs, FlightPcs,
                                   DonePcs, EvictPcs
  <2>5. QuietMove(pc[t], loc[t], "InvMaps", l)
    BY <1>1, <2>2, <2>3, <2>4 DEF QuietMove, Loads, InLoader
  <2> QED
    BY <1>1, <2>1, <2>5, GotoStep
<1>3. CASE GetLoadState(Name(t)) = "Unloaded"
  BY <1>1, <1>3, ThreadFacts, OutsideStep DEF WarmCheck, Proceed, OutsidePcs
<1> QED
  BY <1>2, <1>3

-----------------------------------------------------------------------------
(* Detached threads start.                                                 *)

\* The new thread waits for a slot, the old one moves quietly.
LEMMA SpawnStep ==
    ASSUME CInv, NEW t \in Threads, NEW to, NEW w, NEW lw, Spawn(t, to, w, lw),
           pc[t] # "Idle", NEW n \in Names, FreshLocals(lw, n, "design", "ReleaseSlot"),
           QuietMove(pc[t], loc[t], to, IF to = "Idle" THEN NoLocals ELSE loc[t])
    PROVE  CInv'
<1>1. /\ w \in Threads /\ pc[w] = "Idle" /\ w # t /\ inFlight' = inFlight
      /\ DOMAIN pc = Threads /\ DOMAIN loc = Threads
  BY CacheAssumption DEF Spawn, CInv, shared, loadVars
<1> DEFINE m == IF to = "Idle" THEN NoLocals ELSE loc[t]
<1>2. pc' = [pc EXCEPT ![t] = to, ![w] = "AcquireSlot"] /\ loc' = [loc EXCEPT ![t] = m, ![w] = lw]
  BY <1>1 DEF Spawn
<1>3. QuietMove(pc[t], loc[t], to, m)
  OBVIOUS
<1> HIDE DEF m
<1>4. QuietMove(pc[w], loc[w], "AcquireSlot", lw)
  <2>1. ~loc[w].nested
    BY <1>1, ThreadFacts DEF Shape, NestedPcs
  <2>2. ThreadOK("AcquireSlot", lw)
    BY DEF ThreadOK, ControlOK, Shape, Fulfilled, FreshLocals, FlightPcs, DonePcs, EvictPcs,
           RetPcs, Kinds
  <2> QED
    BY <1>1, <2>1, <2>2 DEF QuietMove, Loads, InLoader, FreshLocals
<1>5. \A u \in Threads : \/ pc'[u] = pc[u] /\ loc'[u] = loc[u]
                         \/ QuietMove(pc[u], loc[u], pc'[u], loc'[u])
  <2>1. pc'[t] = to /\ loc'[t] = m /\ pc'[w] = "AcquireSlot" /\ loc'[w] = lw
    BY <1>1, <1>2
  <2>2. \A u \in Threads \ {t, w} : pc'[u] = pc[u] /\ loc'[u] = loc[u]
    BY <1>1, <1>2
  <2> QED
    BY <1>3, <1>4, <2>1, <2>2
<1>6. DOMAIN pc' = Threads /\ DOMAIN loc' = Threads
  BY <1>1, <1>2
<1> QED
  BY <1>1, <1>5, <1>6, QuietStep

\* LoadDesignAsync and ScheduleResponsePreSerialization start a thread.
LEMMA SpawnActions ==
    ASSUME CInv, NEW t \in Threads, NEW w \in Workers,
           AsyncSpawn(t, w) \/ ScheduleSpawn(t, w)
    PROVE  CInv'
<1>0. loc[t].name \in Names
  BY ThreadFacts DEF ControlOK
<1>1. CASE AsyncSpawn(t, w)
  <2> DEFINE lw == [NoLocals EXCEPT !.name = Name(t), !.job = "load", !.ret = "ReleaseSlot"]
  <2>1. Spawn(t, "Idle", w, lw) /\ pc[t] = "AsyncSpawn"
    BY <1>1 DEF AsyncSpawn
  <2>2. FreshLocals(lw, loc[t].name, "design", "ReleaseSlot")
    BY DEF FreshLocals, NoLocals, Fields, Name
  <2> HIDE DEF lw
  <2>3. ~loc[t].nested
    BY <2>1, ThreadFacts DEF Shape, NestedPcs
  <2>4. QuietMove(pc[t], loc[t], "Idle", NoLocals)
    BY <2>1, <2>3, IdleOK DEF QuietMove, Loads, InLoader, NoLocals
  <2> QED
    BY <1>0, <2>1, <2>2, <2>4, SpawnStep
<1>2. CASE ScheduleSpawn(t, w)
  <2> DEFINE lw == [NoLocals EXCEPT !.name = Name(t), !.job = "serialize",
                              !.val = loc[t].val, !.ret = "ReleaseSlot",
                              !.gen["design"] = loc[t].gen["design"],
                              !.ep["design"] = loc[t].ep["design"]]
  <2>1. Spawn(t, "AnnounceLoaded", w, lw) /\ pc[t] = "ScheduleSpawn"
    BY <1>2 DEF ScheduleSpawn
  <2>2. FreshLocals(lw, loc[t].name, "design", "ReleaseSlot")
    BY DEF FreshLocals, NoLocals, Fields, Name
  <2> HIDE DEF lw
  <2>3. QuietMove(pc[t], loc[t], "AnnounceLoaded", loc[t])
    BY <2>1, ThreadFacts DEF QuietMove, ThreadOK, Shape, Fulfilled, FlightPcs, NestedPcs,
                             DonePcs, EvictPcs, Loads, InLoader
  <2> QED
    BY <1>0, <2>1, <2>2, <2>3, SpawnStep
<1> QED
  BY <1>1, <1>2

-----------------------------------------------------------------------------
(* The steps that change the in-flight maps or make a joiner.              *)

\* What Goto does to the threads.
LEMMA GotoFacts ==
    ASSUME CInv, NEW t \in Threads, NEW to, NEW l, Goto(t, to, l)
    PROVE  /\ DOMAIN pc' = Threads /\ DOMAIN loc' = Threads
           /\ pc'[t] = to /\ loc'[t] = IF to = "Idle" THEN NoLocals ELSE l
           /\ \A u \in Threads \ {t} : pc'[u] = pc[u] /\ loc'[u] = loc[u]
  BY DEF CInv, Goto

\* What a waiting joiner knows.
LEMMA JoinerFacts ==
    ASSUME CInv, NEW u \in Threads, pc[u] = "Join", loc[u].wait.status = "pending"
    PROVE  /\ loc[u].kind \in Kinds /\ loc[u].name \in Names
           /\ inFlight[loc[u].kind][loc[u].name] = loc[u].wait
           /\ loc[u].wait.owner \in Threads
           /\ DOMAIN loc[u].wait = {"owner", "status", "val"}
           /\ IsLoader(loc[u].wait.owner, loc[u].kind, loc[u].name)
<1>1. /\ inFlight[loc[u].kind][loc[u].name] = loc[u].wait
      /\ IsLoader(loc[u].wait.owner, loc[u].kind, loc[u].name)
  BY DEF CInv, JoinersHaveLoader, Kind, Name
<1>2. loc[u].kind \in Kinds /\ loc[u].name \in Names /\ loc[u].wait.owner # NoThread
  BY ThreadFacts DEF ControlOK, Shape
<1> QED
  BY <1>1, <1>2 DEF CInv, FlightsOK

\* A thread that misses while the load is in flight waits for it.
LEMMA RegisterJoins ==
    ASSUME CInv, NEW t \in Threads, Register(t), IsInFlight(Kind(t), Name(t))
    PROVE  CInv'
<1> DEFINE e == inFlight[loc[t].kind][loc[t].name]
           l == [loc[t] EXCEPT !.wait = e]
<1>1. pc[t] = "Register" /\ Goto(t, "Join", l) /\ inFlight' = inFlight /\ e.owner # NoThread
  BY DEF Register, loadVars, IsInFlight, Kind, Name
<1>2. SameControl(loc[t], l) /\ l.wait = e
  BY ThreadFacts DEF SameControl, Fields
<1>3. loc[t].kind \in Kinds /\ loc[t].name \in Names /\ e.owner \in Threads
  BY <1>1, ThreadFacts DEF ControlOK, CInv, FlightsOK
<1> HIDE DEF l
<1>4. /\ DOMAIN pc' = Threads /\ DOMAIN loc' = Threads
      /\ pc'[t] = "Join" /\ loc'[t] = l
      /\ \A u \in Threads \ {t} : pc'[u] = pc[u] /\ loc'[u] = loc[u]
  BY <1>1, GotoFacts
<1>5. ThreadOK("Join", l)
  BY <1>1, <1>2, ThreadFacts DEF ThreadOK, ControlOK, SameControl, Shape, Fulfilled,
                                 FlightPcs, NestedPcs, DonePcs, EvictPcs
<1>6. \A u \in Threads, k \in Kinds, n \in Names :
         Loads(pc'[u], loc'[u], k, n) <=> Loads(pc[u], loc[u], k, n)
  <2>1. \A k \in Kinds, n \in Names : Loads("Join", l, k, n) <=> Loads(pc[t], loc[t], k, n)
    BY <1>1, <1>2 DEF SameControl, Loads, InLoader
  <2> QED
    BY <1>4, <2>1
<1>7. \A u \in Threads : ThreadOK(pc[u], loc[u])'
  BY <1>1, <1>4, <1>5 DEF CInv, ThreadOK, Fulfilled
<1>8. SingleFlight'
  BY <1>1, <1>6 DEF CInv, SingleFlight, IsLoader
<1>9. JoinersHaveLoader'
  <2> SUFFICES ASSUME NEW u \in Threads, pc'[u] = "Join", loc'[u].wait.status = "pending"
               PROVE  /\ inFlight[loc'[u].kind][loc'[u].name] = loc'[u].wait
                      /\ Loads(pc'[loc'[u].wait.owner], loc'[loc'[u].wait.owner],
                               loc'[u].kind, loc'[u].name)
    BY <1>1 DEF JoinersHaveLoader, IsLoader, Kind, Name
  <2>1. CASE u = t
    <3>1. IsLoader(e.owner, loc[t].kind, loc[t].name)
      BY <1>3 DEF CInv, SingleFlight
    <3> QED
      BY <1>2, <1>3, <1>4, <1>6, <2>1, <3>1 DEF SameControl, IsLoader
  <2>2. CASE u # t
    BY <1>4, <1>6, <2>2, JoinerFacts DEF IsLoader
  <2> QED
    BY <2>1, <2>2
<1> QED
  BY <1>1, <1>4, <1>7, <1>8, <1>9 DEF CInv, FlightsOK

\* A thread that misses and finds no load in flight becomes the loader.
LEMMA RegisterLoads ==
    ASSUME CInv, NEW t \in Threads, Register(t), ~IsInFlight(Kind(t), Name(t))
    PROVE  CInv'
<1> DEFINE K == loc[t].kind
           N == loc[t].name
           f == [owner |-> t, status |-> "pending", val |-> Nil]
           to == IF UpdateState(t) THEN "Announce" ELSE "Load"
           l == [loc[t] EXCEPT !.ep[Kind(t)] = epoch]
<1>1. pc[t] = "Register" /\ Goto(t, to, l) /\ inFlight[K][N].owner = NoThread
  BY DEF Register, IsInFlight, Kind, Name
<1>2. inFlight' = [inFlight EXCEPT ![K][N] = f]
  BY DEF Register, RegisterInFlight, Kind, Name
<1>3. SameControl(loc[t], l)
  BY ThreadFacts DEF SameControl, Fields
<1>4. to \in {"Announce", "Load"} /\ (loc[t].nested => to = "Load")
  BY DEF UpdateState
<1>5. K \in Kinds /\ N \in Names
  BY ThreadFacts DEF ControlOK
<1>6. f.owner = t /\ DOMAIN f = {"owner", "status", "val"}
  OBVIOUS
<1>7. /\ inFlight'[K][N] = f
      /\ \A k \in Kinds, n \in Names : k # K \/ n # N => inFlight'[k][n] = inFlight[k][n]
      /\ DOMAIN inFlight' = Kinds /\ \A k \in Kinds : DOMAIN inFlight'[k] = Names
  BY <1>2, <1>5 DEF CInv, FlightsOK
<1> HIDE DEF f, to, l
<1>8. /\ DOMAIN pc' = Threads /\ DOMAIN loc' = Threads
      /\ pc'[t] = to /\ loc'[t] = l
      /\ \A u \in Threads \ {t} : pc'[u] = pc[u] /\ loc'[u] = loc[u]
  BY <1>1, <1>4, GotoFacts
<1>9. \A u \in Threads, k \in Kinds, n \in Names :
         Loads(pc'[u], loc'[u], k, n)
            <=> Loads(pc[u], loc[u], k, n) \/ (u = t /\ k = K /\ n = N)
  <2>1. \A k \in Kinds, n \in Names :
           Loads(to, l, k, n) <=> Loads(pc[t], loc[t], k, n) \/ (k = K /\ n = N)
    BY <1>1, <1>3, <1>4 DEF SameControl, Loads, InLoader
  <2> QED
    BY <1>8, <2>1
<1>10. \A u \in Threads : ~Loads(pc[u], loc[u], K, N)
  BY <1>1, <1>5, ThreadsAssumption DEF CInv, SingleFlight, IsLoader
<1>11. \A u \in Threads : ThreadOK(pc[u], loc[u])'
  <2> SUFFICES ASSUME NEW u \in Threads
               PROVE  /\ ControlOK(loc'[u]) /\ Shape(pc'[u], loc'[u])
                      /\ pc'[u] \in DonePcs => inFlight'[loc'[u].kind][loc'[u].name].status # "pending"
    BY DEF ThreadOK, Fulfilled
  <2>1. CASE u = t
    BY <1>1, <1>3, <1>4, <1>8, <2>1, ThreadFacts
       DEF SameControl, ControlOK, Shape, FlightPcs, NestedPcs, DonePcs, EvictPcs
  <2>2. CASE u # t
    <3>1. /\ pc'[u] = pc[u] /\ loc'[u] = loc[u] /\ ControlOK(loc[u]) /\ Shape(pc[u], loc[u])
          /\ Fulfilled(pc[u], loc[u])
      BY <1>8, <2>2, ThreadFacts
    <3>2. ASSUME pc[u] \in DonePcs
          PROVE  inFlight'[loc[u].kind][loc[u].name] = inFlight[loc[u].kind][loc[u].name]
      <4>1. Loads(pc[u], loc[u], loc[u].kind, loc[u].name)
        BY <3>2 DEF Loads, InLoader, DonePcs
      <4> QED
        BY <1>7, <1>10, <3>1, <4>1 DEF ControlOK
    <3> QED
      BY <3>1, <3>2 DEF Fulfilled
  <2> QED
    BY <2>1, <2>2
<1>12. SingleFlight'
  <2> SUFFICES ASSUME NEW k \in Kinds, NEW n \in Names, NEW u \in Threads
               PROVE  Loads(pc'[u], loc'[u], k, n) <=> inFlight'[k][n].owner = u
    BY DEF SingleFlight, IsLoader
  <2>1. CASE k = K /\ n = N
    BY <1>6, <1>7, <1>9, <1>10, <2>1
  <2>2. CASE k # K \/ n # N
    BY <1>7, <1>9, <2>2 DEF CInv, SingleFlight, IsLoader
  <2> QED
    BY <2>1, <2>2
<1>13. JoinersHaveLoader'
  <2> SUFFICES ASSUME NEW u \in Threads, pc'[u] = "Join", loc'[u].wait.status = "pending"
               PROVE  /\ inFlight'[loc'[u].kind][loc'[u].name] = loc'[u].wait
                      /\ Loads(pc'[loc'[u].wait.owner], loc'[loc'[u].wait.owner],
                               loc'[u].kind, loc'[u].name)
    BY DEF JoinersHaveLoader, IsLoader, Kind, Name
  <2>1. u # t
    BY <1>4, <1>8
  <2>2. pc[u] = "Join" /\ loc'[u] = loc[u] /\ loc[u].wait.status = "pending"
    BY <1>8, <2>1
  <2>3. loc[u].kind # K \/ loc[u].name # N
    BY <1>1, <2>2, JoinerFacts, ThreadsAssumption
  <2> QED
    BY <1>7, <1>9, <2>2, <2>3, JoinerFacts DEF IsLoader
<1>14. FlightsOK'
  BY <1>6, <1>7 DEF CInv, FlightsOK
<1> QED
  BY <1>8, <1>11, <1>12, <1>13, <1>14 DEF CInv

\* The loader fulfils its promise: every joiner that waits for it sees the result.
LEMMA FulfilStep ==
    ASSUME CInv, NEW t \in Threads, Fulfil(t)
    PROVE  CInv'
<1> DEFINE K == loc[t].kind
           N == loc[t].name
           threw == loc[t].outcome \in {"threw", "guard"}
           status == IF threw THEN "exception" ELSE "value"
           result == IF threw THEN Nil ELSE loc[t].val
           next == CASE loc[t].outcome = "threw" /\ UpdateState(t) -> "CheckFailed"
                     [] loc[t].outcome = "null" /\ UpdateState(t) -> "EraseState"
                     [] OTHER -> "EraseFlight"
           told(u) == [loc[u] EXCEPT !.wait.status = status, !.wait.val = result]
<1>1. pc[t] = "Fulfil" /\ pc' = [pc EXCEPT ![t] = next]
  BY DEF Fulfil
<1>2. inFlight' = [inFlight EXCEPT ![K][N].status = status, ![K][N].val = result]
  BY DEF Fulfil, FulfilPromise, Kind, Name
<1>3. loc' = [u \in Threads |-> IF u \in Joiners(t) THEN told(u) ELSE loc[u]]
  BY DEF Fulfil
<1>4. next \in DonePcs /\ (loc[t].nested => next = "EraseFlight") /\ status # "pending"
  BY DEF UpdateState, DonePcs
<1> HIDE DEF status, result, next, threw
<1>5. K \in Kinds /\ N \in Names
  BY ThreadFacts DEF ControlOK
<1>6. /\ inFlight'[K][N].status = status /\ inFlight'[K][N].owner = inFlight[K][N].owner
      /\ DOMAIN inFlight'[K][N] = {"owner", "status", "val"}
      /\ \A k \in Kinds, n \in Names : k # K \/ n # N => inFlight'[k][n] = inFlight[k][n]
      /\ DOMAIN inFlight' = Kinds /\ \A k \in Kinds : DOMAIN inFlight'[k] = Names
  <2> DEFINE e == [inFlight[K][N] EXCEPT !.status = status, !.val = result]
  <2>1. inFlight' = [inFlight EXCEPT ![K][N] = e]
    BY <1>2, <1>5 DEF CInv, FlightsOK
  <2>2. DOMAIN inFlight[K][N] = {"owner", "status", "val"}
    BY <1>5 DEF CInv, FlightsOK
  <2>3. e.status = status /\ e.owner = inFlight[K][N].owner /\ DOMAIN e = {"owner", "status", "val"}
    BY <2>2
  <2> HIDE DEF e
  <2> QED
    BY <1>5, <2>1, <2>3 DEF CInv, FlightsOK
<1>7. inFlight[K][N].owner = t
  <2>1. IsLoader(t, K, N)
    BY <1>1 DEF IsLoader, Loads, InLoader
  <2> QED
    BY <1>5, <2>1 DEF CInv, SingleFlight
<1>8. /\ DOMAIN pc' = Threads /\ DOMAIN loc' = Threads /\ pc'[t] = next
      /\ \A u \in Threads \ {t} : pc'[u] = pc[u]
  BY <1>1, <1>3 DEF CInv
<1>9. ASSUME NEW u \in Threads
      PROVE  /\ SameControl(loc[u], loc'[u])
             /\ u \in Joiners(t) => /\ loc'[u].wait.status = status
                                    /\ loc'[u].wait.owner = loc[u].wait.owner
             /\ u \notin Joiners(t) => loc'[u] = loc[u]
  <2>1. CASE u \in Joiners(t)
    <3>1. loc'[u] = told(u)
      BY <1>3, <2>1
    <3>2. pc[u] = "Join" /\ loc[u].wait.status = "pending"
      BY <2>1 DEF Joiners
    <3>3. DOMAIN loc[u].wait = {"owner", "status", "val"} /\ DOMAIN loc[u] = Fields
      BY <3>2, JoinerFacts, ThreadFacts
    <3> DEFINE x == [loc[u].wait EXCEPT !.status = status, !.val = result]
    <3>4. x.status = status /\ x.owner = loc[u].wait.owner
      BY <3>3
    <3>5. loc'[u] = [loc[u] EXCEPT !.wait = x]
      BY <3>1, <3>3 DEF Fields
    <3> HIDE DEF x
    <3>6. SameControl(loc[u], loc'[u]) /\ loc'[u].wait = x
      BY <3>3, <3>5 DEF SameControl, Fields
    <3> QED
      BY <2>1, <3>4, <3>6
  <2>2. CASE u \notin Joiners(t)
    BY <1>3, <2>2, ThreadFacts
  <2> QED
    BY <2>1, <2>2
<1> HIDE DEF told
<1>10. t \notin Joiners(t)
  BY <1>1 DEF Joiners
<1>11. \A u \in Threads, k \in Kinds, n \in Names :
         Loads(pc'[u], loc'[u], k, n) <=> Loads(pc[u], loc[u], k, n)
  <2> SUFFICES ASSUME NEW u \in Threads, NEW k \in Kinds, NEW n \in Names
               PROVE  Loads(pc'[u], loc'[u], k, n) <=> Loads(pc[u], loc[u], k, n)
    OBVIOUS
  <2>1. CASE u = t
    BY <1>1, <1>4, <1>8, <1>9, <2>1 DEF SameControl, Loads, InLoader, DonePcs
  <2>2. CASE u # t
    BY <1>8, <1>9, <2>2 DEF SameControl, Loads, InLoader
  <2> QED
    BY <2>1, <2>2
<1>12. \A u \in Threads : ThreadOK(pc[u], loc[u])'
  <2> SUFFICES ASSUME NEW u \in Threads
               PROVE  /\ ControlOK(loc'[u]) /\ Shape(pc'[u], loc'[u])
                      /\ pc'[u] \in DonePcs => inFlight'[loc'[u].kind][loc'[u].name].status # "pending"
    BY DEF ThreadOK, Fulfilled
  <2>1. CASE u = t
    <3>1. pc'[u] = next /\ loc'[u] = loc[u]
      BY <1>8, <1>9, <1>10, <2>1
    <3>2. ControlOK(loc'[u])
      BY <3>1, ThreadFacts DEF ControlOK
    <3>3. Shape(pc'[u], loc'[u])
      BY <1>1, <1>4, <2>1, <3>1, ThreadFacts DEF Shape, FlightPcs, NestedPcs, DonePcs, EvictPcs
    <3>4. inFlight'[loc'[u].kind][loc'[u].name].status # "pending"
      BY <1>4, <1>6, <2>1, <3>1
    <3> QED
      BY <3>2, <3>3, <3>4
  <2>2. CASE u # t
    <3>1. /\ pc'[u] = pc[u] /\ ControlOK(loc[u]) /\ Shape(pc[u], loc[u])
          /\ Fulfilled(pc[u], loc[u]) /\ SameControl(loc[u], loc'[u])
      BY <1>8, <1>9, <2>2, ThreadFacts
    <3>2. ControlOK(loc'[u])
      BY <3>1 DEF ControlOK, SameControl
    <3>3. Shape(pc'[u], loc'[u])
      <4>1. pc[u] = "Join" => loc'[u].wait.owner # NoThread
        BY <1>9, <3>1 DEF Shape
      <4> QED
        BY <3>1, <4>1 DEF Shape, SameControl
    <3>4. ASSUME pc[u] \in DonePcs
          PROVE  inFlight'[loc'[u].kind][loc'[u].name] = inFlight[loc[u].kind][loc[u].name]
      <4>1. IsLoader(u, loc[u].kind, loc[u].name)
        BY <3>4 DEF IsLoader, Loads, InLoader, DonePcs
      <4>2. loc[u].kind \in Kinds /\ loc[u].name \in Names
        BY <3>1 DEF ControlOK
      <4>3. inFlight[loc[u].kind][loc[u].name].owner = u
        BY <4>1, <4>2 DEF CInv, SingleFlight
      <4> QED
        BY <1>6, <1>7, <2>2, <3>1, <4>2, <4>3 DEF SameControl
    <3> QED
      BY <3>1, <3>2, <3>3, <3>4 DEF Fulfilled
  <2> QED
    BY <2>1, <2>2
<1>13. SingleFlight'
  <2> SUFFICES ASSUME NEW k \in Kinds, NEW n \in Names, NEW u \in Threads
               PROVE  Loads(pc'[u], loc'[u], k, n) <=> inFlight'[k][n].owner = u
    BY DEF SingleFlight, IsLoader
  <2>1. inFlight'[k][n].owner = inFlight[k][n].owner
    BY <1>6
  <2> QED
    BY <1>11, <2>1 DEF CInv, SingleFlight, IsLoader
<1>14. JoinersHaveLoader'
  <2> SUFFICES ASSUME NEW u \in Threads, pc'[u] = "Join", loc'[u].wait.status = "pending"
               PROVE  /\ inFlight'[loc'[u].kind][loc'[u].name] = loc'[u].wait
                      /\ Loads(pc'[loc'[u].wait.owner], loc'[loc'[u].wait.owner],
                               loc'[u].kind, loc'[u].name)
    BY DEF JoinersHaveLoader, IsLoader, Kind, Name
  <2>1. u # t
    BY <1>4, <1>8 DEF DonePcs
  <2>2. u \notin Joiners(t) /\ loc'[u] = loc[u] /\ pc[u] = "Join"
    BY <1>4, <1>8, <1>9, <2>1
  <2>3. loc[u].kind # K \/ loc[u].name # N
    BY <1>7, <2>2, JoinerFacts DEF Joiners, Kind, Name
  <2> QED
    BY <1>6, <1>11, <2>2, <2>3, JoinerFacts DEF IsLoader
<1>15. FlightsOK'
  BY <1>6 DEF CInv, FlightsOK
<1> QED
  BY <1>8, <1>12, <1>13, <1>14, <1>15 DEF CInv

\* The loader takes its entry out of the in-flight map and leaves the activation.
LEMMA EraseFlightStep ==
    ASSUME CInv, NEW t \in Threads, EraseFlight(t)
    PROVE  CInv'
<1> DEFINE K == loc[t].kind
           N == loc[t].name
<1>1. pc[t] = "EraseFlight" /\ (Throw(t) \/ Return(t, loc[t].val))
  BY DEF EraseFlight
<1>2. inFlight' = [inFlight EXCEPT ![K][N] = NoFlight]
  BY DEF EraseFlight, EraseInFlight, Kind, Name
<1>3. PICK to, l : /\ Goto(t, to, l)
                   /\ \/ /\ loc[t].nested /\ to \in {"Build", "Fulfil"}
                         /\ Unnested(loc[t], l)
                      \/ ~loc[t].nested /\ to \in RetPcs /\ SameControl(loc[t], l)
  BY <1>1, ReturnTargets, ThrowTargets
<1>4. /\ K \in Kinds /\ N \in Names /\ inFlight[K][N].status # "pending"
      /\ loc[t].nested => K = "archive"
  BY <1>1, ThreadFacts DEF ControlOK, Fulfilled, DonePcs, Shape
<1>5. NoFlight.owner = NoThread /\ DOMAIN NoFlight = {"owner", "status", "val"}
  BY DEF NoFlight
<1>6. /\ inFlight'[K][N] = NoFlight
      /\ \A k \in Kinds, n \in Names : k # K \/ n # N => inFlight'[k][n] = inFlight[k][n]
      /\ DOMAIN inFlight' = Kinds /\ \A k \in Kinds : DOMAIN inFlight'[k] = Names
  BY <1>2, <1>4 DEF CInv, FlightsOK
<1>7. inFlight[K][N].owner = t
  <2>1. IsLoader(t, K, N)
    BY <1>1 DEF IsLoader, Loads, InLoader
  <2> QED
    BY <1>4, <2>1 DEF CInv, SingleFlight
<1> DEFINE m == IF to = "Idle" THEN NoLocals ELSE l
<1>8. /\ DOMAIN pc' = Threads /\ DOMAIN loc' = Threads
      /\ pc'[t] = to /\ loc'[t] = m
      /\ \A u \in Threads \ {t} : pc'[u] = pc[u] /\ loc'[u] = loc[u]
  BY <1>3, GotoFacts
<1>9. ControlOK(m) /\ Shape(to, m) /\ to \notin DonePcs \cup {"Join"}
  <2>1. CASE to = "Idle"
    BY <2>1, IdleOK DEF ThreadOK, DonePcs
  <2>2. CASE to # "Idle" /\ loc[t].nested
    BY <1>1, <1>3, <2>2, ThreadFacts DEF Unnested, ControlOK, Kinds, Shape, FlightPcs,
                                         DonePcs, EvictPcs
  <2>3. CASE to # "Idle" /\ ~loc[t].nested
    BY <1>1, <1>3, <2>3, ThreadFacts DEF SameControl, ControlOK, Shape, RetPcs, FlightPcs,
                                         DonePcs, EvictPcs
  <2> QED
    BY <2>1, <2>2, <2>3
<1>10. \A k \in Kinds, n \in Names :
          Loads(to, m, k, n) <=> Loads(pc[t], loc[t], k, n) /\ (k # K \/ n # N)
  <2>1. CASE loc[t].nested
    BY <1>1, <1>3, <1>4, <2>1 DEF Unnested, Loads, InLoader, Kinds
  <2>2. CASE ~loc[t].nested
    <3>1. \A k \in Kinds, n \in Names : ~Loads(to, m, k, n)
      BY <1>3, <2>2 DEF SameControl, Loads, InLoader, RetPcs, NoLocals
    <3> QED
      BY <2>2, <3>1 DEF Loads
  <2> QED
    BY <2>1, <2>2
<1> HIDE DEF m
<1>11. \A u \in Threads, k \in Kinds, n \in Names :
          Loads(pc'[u], loc'[u], k, n) <=> Loads(pc[u], loc[u], k, n) /\ (k # K \/ n # N)
  <2> SUFFICES ASSUME NEW u \in Threads, NEW k \in Kinds, NEW n \in Names
               PROVE  Loads(pc'[u], loc'[u], k, n)
                         <=> Loads(pc[u], loc[u], k, n) /\ (k # K \/ n # N)
    OBVIOUS
  <2>1. CASE u = t
    BY <1>8, <1>10, <2>1
  <2>2. CASE u # t
    <3>1. ~Loads(pc[u], loc[u], K, N)
      BY <1>4, <1>7, <2>2 DEF CInv, SingleFlight, IsLoader
    <3> QED
      BY <1>8, <2>2, <3>1
  <2> QED
    BY <2>1, <2>2
<1>12. \A u \in Threads : ThreadOK(pc[u], loc[u])'
  <2> SUFFICES ASSUME NEW u \in Threads
               PROVE  /\ ControlOK(loc'[u]) /\ Shape(pc'[u], loc'[u])
                      /\ pc'[u] \in DonePcs => inFlight'[loc'[u].kind][loc'[u].name].status # "pending"
    BY DEF ThreadOK, Fulfilled
  <2>1. CASE u = t
    BY <1>8, <1>9, <2>1
  <2>2. CASE u # t
    <3>1. /\ pc'[u] = pc[u] /\ loc'[u] = loc[u] /\ ControlOK(loc[u]) /\ Shape(pc[u], loc[u])
          /\ Fulfilled(pc[u], loc[u])
      BY <1>8, <2>2, ThreadFacts
    <3>2. ASSUME pc[u] \in DonePcs
          PROVE  inFlight'[loc[u].kind][loc[u].name] = inFlight[loc[u].kind][loc[u].name]
      <4>1. IsLoader(u, loc[u].kind, loc[u].name)
        BY <3>2 DEF IsLoader, Loads, InLoader, DonePcs
      <4>2. loc[u].kind \in Kinds /\ loc[u].name \in Names
        BY <3>1 DEF ControlOK
      <4>3. inFlight[loc[u].kind][loc[u].name].owner = u
        BY <4>1, <4>2 DEF CInv, SingleFlight
      <4> QED
        BY <1>6, <1>7, <2>2, <4>2, <4>3
    <3> QED
      BY <3>1, <3>2 DEF Fulfilled
  <2> QED
    BY <2>1, <2>2
<1>13. SingleFlight'
  <2> SUFFICES ASSUME NEW k \in Kinds, NEW n \in Names, NEW u \in Threads
               PROVE  Loads(pc'[u], loc'[u], k, n) <=> inFlight'[k][n].owner = u
    BY DEF SingleFlight, IsLoader
  <2>1. CASE k = K /\ n = N
    BY <1>5, <1>6, <1>11, <2>1, ThreadsAssumption
  <2>2. CASE k # K \/ n # N
    BY <1>6, <1>11, <2>2 DEF CInv, SingleFlight, IsLoader
  <2> QED
    BY <2>1, <2>2
<1>14. JoinersHaveLoader'
  <2> SUFFICES ASSUME NEW u \in Threads, pc'[u] = "Join", loc'[u].wait.status = "pending"
               PROVE  /\ inFlight'[loc'[u].kind][loc'[u].name] = loc'[u].wait
                      /\ Loads(pc'[loc'[u].wait.owner], loc'[loc'[u].wait.owner],
                               loc'[u].kind, loc'[u].name)
    BY DEF JoinersHaveLoader, IsLoader, Kind, Name
  <2>1. u # t
    BY <1>8, <1>9
  <2>2. pc[u] = "Join" /\ loc'[u] = loc[u] /\ loc[u].wait.status = "pending"
    BY <1>8, <2>1
  <2>3. loc[u].kind # K \/ loc[u].name # N
    BY <1>4, <2>2, JoinerFacts
  <2> QED
    BY <1>6, <1>11, <2>2, <2>3, JoinerFacts DEF IsLoader
<1>15. FlightsOK'
  BY <1>5, <1>6 DEF CInv, FlightsOK
<1> QED
  BY <1>8, <1>12, <1>13, <1>14, <1>15 DEF CInv

-----------------------------------------------------------------------------
(* The invariant and the theorems.                                         *)

\* A miss either joins the load in flight or becomes the loader.
LEMMA RegisterStep ==
    ASSUME CInv, NEW t \in Threads, Register(t)
    PROVE  CInv'
  BY RegisterJoins, RegisterLoads

\* Every section of every call preserves the invariant.
LEMMA ThreadSteps ==
    ASSUME CInv, NEW t \in Threads, ThreadStep(t)
    PROVE  CInv'
<1>1. CASE SingleFlightStep(t)
  BY <1>1, WaitingActions, LeaveActions, RegisterStep, RunningActions, LoadDesignStep,
     InsertStep, FulfilStep, EraseFlightStep DEF SingleFlightStep, RunningAction
<1>2. CASE LruStep(t)
  BY <1>2, EvictActions, ChargeStep, OutsideActions, EvictOutsideActions
     DEF LruStep, OutsideAction
<1>3. CASE InvalidateStep(t)
  BY <1>3, InvalidateActions, AddLoadedStep, OutsideActions DEF InvalidateStep, OutsideAction
<1>4. CASE BackgroundStep(t)
  BY <1>4, OutsideActions, WarmCheckStep, SpawnActions, SpawnFailsStep, WaitingActions
     DEF BackgroundStep, OutsideAction
<1>5. CASE SerializeStep(t)
  BY <1>5, RunningActions, OutsideActions, EvictOutsideActions
     DEF SerializeStep, RunningAction, OutsideAction
<1> QED
  BY <1>1, <1>2, <1>3, <1>4, <1>5 DEF ThreadStep

\* Only Call counts calls.
LEMMA CallsStep ==
    ASSUME CallsOK, [Next]_vars
    PROVE  CallsOK'
<1>1. ASSUME NEW t \in Threads, SingleFlightStep(t)
      PROVE  calls' = calls
  BY <1>1 DEF SingleFlightStep, shared, allButLoad, allButLru, allButCache,
     Lookup, TouchHit, CaptureGen, Register, Join, TouchJoin, Announce, LoaderExits,
     LoadDesign, LoadFileArchive, BuildDesign, CheckGen, CheckEpoch, Insert, AnnounceLoaded,
     Fulfil, CheckFailed, AnnounceFailed, EraseState, EraseFlight
<1>2. ASSUME NEW t \in Threads, LruStep(t) \/ InvalidateStep(t)
      PROVE  calls' = calls
  BY <1>2 DEF LruStep, InvalidateStep, shared, allButLoad, allButLru, allButCache,
     allButStore, Estimate, Charge, EvictStore, EvictMaps, EvictState, ResyncEstimate,
     Resync, SetCacheMaxBytes, AddMaps, AddLoaded, SaveModel, InvMaps, InvStore, AdjustLru,
     InvState, ClearMaps, ClearLru, ClearStore, ClearLoadStates
<1>3. ASSUME NEW t \in Threads, BackgroundStep(t) \/ SerializeStep(t)
      PROVE  calls' = calls
  BY <1>3 DEF BackgroundStep, SerializeStep, shared, allButLoad, allButLru, allButCache,
     allButSlots, UploadMove, WarmCheck, ReqState, ReqContains, AsyncCheck, AsyncCount,
     AsyncUncount, AsyncUnmark, AsyncSpawn, ScheduleSpawn, Spawn, SpawnFails, Acquire,
     Release, UnmarkLoaded, Uncount, ScheduleGen, ScheduleCount, ScheduleUncount, SerDesign,
     SerGen, SerEpoch, BuildPayload, CommitIdentity, CommitStore
<1>4. ASSUME NEW t \in Threads, Call(t)
      PROVE  CallsOK'
  BY <1>4 DEF CallsOK, Call
<1>5. CASE Finished \/ UNCHANGED vars
  BY <1>5 DEF Finished, vars, CallsOK
<1> QED
  BY <1>1, <1>2, <1>3, <1>4, <1>5 DEF Next, ThreadStep, CallsOK

\* The invariant is inductive ...
LEMMA CInvInductive ==
    ASSUME CInv, CallsOK, [Next]_vars
    PROVE  CInv'
<1>1. CASE Finished \/ UNCHANGED vars
  BY <1>1 DEF Finished, vars, threadVars, loadVars, CInv, FlightsOK, ThreadOK, ControlOK,
              Shape, Fulfilled, SingleFlight, JoinersHaveLoader, IsLoader, Kind, Name
<1> QED
  BY <1>1, CallStep, ThreadSteps DEF Next

\* ... and holds initially.
LEMMA CInvInitial ==
    ASSUME Init
    PROVE  CInv /\ CallsOK
<1>1. /\ pc = [t \in Threads |-> "Idle"] /\ loc = [t \in Threads |-> NoLocals]
      /\ inFlight = [k \in Kinds |-> [n \in Names |-> NoFlight]]
      /\ calls = [c \in Clients |-> 0]
  BY DEF Init, LoadInit
<1>2. \A t \in Threads : pc[t] = "Idle" /\ loc[t] = NoLocals
  BY <1>1
<1>3. NoFlight.owner = NoThread /\ DOMAIN NoFlight = {"owner", "status", "val"}
  BY DEF NoFlight
<1>4. \A k \in Kinds, n \in Names : inFlight[k][n] = NoFlight
  BY <1>1
<1>5. \A t \in Threads : ThreadOK(pc[t], loc[t])
  BY <1>2, IdleOK
<1>6. \A k \in Kinds, n \in Names : ~Loads("Idle", NoLocals, k, n)
  BY DEF Loads, InLoader, NoLocals
<1>7. SingleFlight
  BY <1>2, <1>3, <1>4, <1>6, ThreadsAssumption DEF SingleFlight, IsLoader
<1>8. JoinersHaveLoader
  BY <1>2 DEF JoinersHaveLoader
<1>9. FlightsOK /\ DOMAIN pc = Threads /\ DOMAIN loc = Threads /\ CallsOK
  BY <1>1, <1>3, <1>4 DEF FlightsOK, CallsOK
<1> QED
  BY <1>5, <1>7, <1>8, <1>9 DEF CInv

\* The strengthened invariant holds in every reachable state.
THEOREM ControlInvariant == Spec => [](CInv /\ CallsOK)
<1>1. Init => CInv /\ CallsOK
  BY CInvInitial
<1>2. CInv /\ CallsOK /\ [Next]_vars => (CInv /\ CallsOK)'
  BY CInvInductive, CallsStep
<1> QED
  BY <1>1, <1>2, PTL DEF Spec

\* For any number of names, threads and calls, and whatever fails: a name has at
\* most one running load of each kind (GetOrLoadSingleFlight), the thread that its
\* in-flight entry names, and every running load is registered.
THEOREM OneLoaderPerName == Spec => []SingleFlight
<1>1. CInv /\ CallsOK => SingleFlight
  BY DEF CInv
<1> QED
  BY <1>1, ControlInvariant, PTL

\* For any number of names, threads and calls, and whatever fails: a thread blocked
\* on the shared_future of a load waits for a promise whose loader is still running
\* and registered under that name (GetOrLoadSingleFlight).
THEOREM NoJoinerIsAbandoned == Spec => []JoinersHaveLoader
<1>1. CInv /\ CallsOK => JoinersHaveLoader
  BY DEF CInv
<1> QED
  BY <1>1, ControlInvariant, PTL

-----------------------------------------------------------------------------
(* The byte count of LruBudget, for any finite set of names and any width  *)
(* of the counter: what Contribution adds up to, arithmetic modulo Word,   *)
(* and that every critical section of m_lruMutex keeps the entries         *)
(* well-typed and m_cachedBytes equal to the sum of their charges.         *)
(* Contribution is a fold, that is a function defined by recursion on the  *)
(* subsets of a finite set: that such a function exists, and that the      *)
(* order in which the elements are taken does not matter, is shown by      *)
(* taking a smallest counterexample (LeastNat).                            *)

\* A non-empty set of natural numbers has a least element.
LEMMA LeastNat ==
    ASSUME NEW T \in SUBSET Nat, T # {}
    PROVE  \E m \in T : \A k \in T : m <= k
<1>1. PICK m \in T : \A k \in T : <<k, m>> \notin OpToRel(<, Nat)
  BY NatLessThanWellFounded, WFMin, Zenon
<1>2. \A k \in T : ~(k < m)
  BY <1>1 DEF OpToRel
<1> QED
  BY <1>2

\* A non-empty set of finite sets has a member that no member is smaller than.
LEMMA SmallestSet ==
    ASSUME NEW F, F # {}, \A s \in F : IsFiniteSet(s)
    PROVE  \E s \in F : \A u \in F : Cardinality(s) <= Cardinality(u)
<1> DEFINE T == {Cardinality(s) : s \in F}
<1>1. T \in SUBSET Nat /\ T # {}
  BY FS_CardinalityType
<1>2. PICK m \in T : \A k \in T : m <= k
  BY <1>1, LeastNat
<1> QED
  BY <1>2

-----------------------------------------------------------------------------
(* The fold behind Contribution.                                           *)

Pick(s) == CHOOSE x \in s : TRUE

\* What the entry of x is charged.
Weight(est, ser, x) == est[x] + ser[x]

\* g sums the weights of the subsets of S, taking Pick(s) off s at each step.
IsSum(est, ser, S, g) ==
    g = [s \in SUBSET S |-> IF s = {} THEN 0
                            ELSE Weight(est, ser, Pick(s)) + g[s \ {Pick(s)}]]

SumFun(est, ser, S) == CHOOSE g : IsSum(est, ser, S, g)

\* The definition of Contribution, unfolded.
LEMMA ContributionIsSum ==
    ASSUME NEW est, NEW ser, NEW S
    PROVE  Contribution(est, ser, S) = SumFun(est, ser, S)[S]
  BY DEF Contribution, MapThenSumSet, MapThenFoldSet, SumFun, IsSum, Weight, Pick

\* Pick takes an element, which leaves a smaller set.
LEMMA PickSmaller ==
    ASSUME NEW s, IsFiniteSet(s), s # {}
    PROVE  /\ Pick(s) \in s /\ IsFiniteSet(s \ {Pick(s)})
           /\ Cardinality(s \ {Pick(s)}) < Cardinality(s)
<1>1. Pick(s) \in s
  BY DEF Pick
<1>2. Cardinality(s) \in Nat
  BY FS_CardinalityType
<1> QED
  BY <1>1, <1>2, FS_RemoveElement

\* What a sum says of one subset.
LEMMA SumAt ==
    ASSUME NEW est, NEW ser, NEW S, NEW g, IsSum(est, ser, S, g), NEW s \in SUBSET S
    PROVE  g[s] = IF s = {} THEN 0
                  ELSE Weight(est, ser, Pick(s)) + g[s \ {Pick(s)}]
  BY DEF IsSum

\* Two sums agree on the subsets they share.
LEMMA SumsAgree ==
    ASSUME NEW est, NEW ser, NEW S, NEW R, NEW g, NEW h, IsSum(est, ser, S, g),
           IsSum(est, ser, R, h), NEW s \in SUBSET S, s \subseteq R, IsFiniteSet(S)
    PROVE  g[s] = h[s]
<1> DEFINE F == {u \in SUBSET S : u \subseteq R /\ g[u] # h[u]}
<1>1. SUFFICES F = {}
  OBVIOUS
<1>2. SUFFICES ASSUME F # {} PROVE FALSE
  OBVIOUS
<1>3. \A u \in F : IsFiniteSet(u)
  BY FS_Subset
<1>4. PICK u \in F : \A v \in F : Cardinality(u) <= Cardinality(v)
  BY <1>2, <1>3, SmallestSet
<1>5. u # {}
  <2>1. g[{}] = 0 /\ h[{}] = 0
    BY SumAt
  <2> QED
    BY <1>4, <2>1
<1> DEFINE v == u \ {Pick(u)}
<1>6. /\ v \in SUBSET S /\ v \subseteq R /\ Cardinality(v) < Cardinality(u)
      /\ Cardinality(v) \in Nat /\ Cardinality(u) \in Nat
  BY <1>3, <1>4, <1>5, PickSmaller, FS_CardinalityType
<1>7. g[v] = h[v]
  BY <1>4, <1>6
<1> HIDE DEF v
<1>8. /\ g[u] = Weight(est, ser, Pick(u)) + g[v]
      /\ h[u] = Weight(est, ser, Pick(u)) + h[v]
  BY <1>4, <1>5, SumAt DEF v
<1> QED
  BY <1>4, <1>7, <1>8

\* The sum over a subset is a part of the sum over the set.
LEMMA SumRestricts ==
    ASSUME NEW est, NEW ser, NEW S, NEW g, IsSum(est, ser, S, g), NEW R \in SUBSET S
    PROVE  IsSum(est, ser, R, [s \in SUBSET R |-> g[s]])
<1> DEFINE h == [s \in SUBSET R |-> g[s]]
<1>1. ASSUME NEW s \in SUBSET R
      PROVE  h[s] = IF s = {} THEN 0 ELSE Weight(est, ser, Pick(s)) + h[s \ {Pick(s)}]
  <2>1. s \in SUBSET S /\ s \ {Pick(s)} \in SUBSET R
    OBVIOUS
  <2>2. h[s] = g[s] /\ h[s \ {Pick(s)}] = g[s \ {Pick(s)}]
    BY <2>1
  <2> QED
    BY <2>1, <2>2, SumAt
<1> QED
  BY <1>1 DEF IsSum

\* Every finite set has a sum.
LEMMA SumExists ==
    ASSUME NEW est, NEW ser, NEW S, IsFiniteSet(S)
    PROVE  IsSum(est, ser, S, SumFun(est, ser, S))
<1> DEFINE F == {s \in SUBSET S : ~ \E g : IsSum(est, ser, s, g)}
<1>1. SUFFICES F = {}
  <2>1. \E g : IsSum(est, ser, S, g)
    BY <1>1
  <2> QED
    BY <2>1 DEF SumFun
<1>2. SUFFICES ASSUME F # {} PROVE FALSE
  OBVIOUS
<1>3. \A u \in SUBSET S : IsFiniteSet(u) /\ Cardinality(u) \in Nat
  BY FS_Subset, FS_CardinalityType
<1>4. PICK R \in F : \A v \in F : Cardinality(R) <= Cardinality(v)
  BY <1>2, <1>3, SmallestSet
<1> DEFINE rest(s) == s \ {Pick(s)}
           below(s) == SumFun(est, ser, rest(s))
           G == [s \in SUBSET R |-> IF s = {} THEN 0
                                    ELSE Weight(est, ser, Pick(s)) + below(s)[rest(s)]]
<1>5. ASSUME NEW s \in SUBSET R, s # {}
      PROVE  rest(s) \in SUBSET R /\ IsSum(est, ser, rest(s), below(s))
  <2>1. Cardinality(rest(s)) < Cardinality(s) /\ Cardinality(s) <= Cardinality(R)
    BY <1>3, <1>4, <1>5, PickSmaller, FS_Subset
  <2>2. rest(s) \in SUBSET S /\ rest(s) \notin F
    BY <1>3, <1>4, <2>1
  <2> QED
    BY <2>2 DEF SumFun
<1>6. ASSUME NEW s \in SUBSET R, s # {}
      PROVE  G[rest(s)] = below(s)[rest(s)]
  <2> DEFINE r == rest(s)
  <2>1. r \in SUBSET R /\ IsSum(est, ser, r, below(s)) /\ IsFiniteSet(r)
    BY <1>3, <1>4, <1>5, <1>6
  <2>2. CASE r = {}
    BY <2>1, <2>2, SumAt
  <2>3. CASE r # {}
    <3>1. IsSum(est, ser, rest(r), below(r)) /\ rest(r) \in SUBSET r
      BY <1>5, <2>1, <2>3
    <3>2. below(s)[rest(r)] = below(r)[rest(r)]
      BY <2>1, <3>1, SumsAgree
    <3>3. below(s)[r] = Weight(est, ser, Pick(r)) + below(s)[rest(r)]
      <4> DEFINE b == below(s)
      <4>1. IsSum(est, ser, r, b) /\ r \in SUBSET r
        BY <2>1
      <4> HIDE DEF b, r
      <4> QED
        BY <2>3, <4>1, SumAt DEF b
    <3>4. G[r] = Weight(est, ser, Pick(r)) + below(r)[rest(r)]
      BY <2>1, <2>3
    <3> QED
      BY <3>2, <3>3, <3>4
  <2> QED
    BY <2>2, <2>3
<1>7. \A s \in SUBSET R :
         G[s] = IF s = {} THEN 0 ELSE Weight(est, ser, Pick(s)) + G[s \ {Pick(s)}]
  BY <1>6
<1>8. DOMAIN G = SUBSET R
  OBVIOUS
<1>9. G = [s \in SUBSET R |-> G[s]]
  OBVIOUS
<1> HIDE DEF G
<1>10. IsSum(est, ser, R, G)
  BY <1>7, <1>8, <1>9 DEF IsSum
<1> QED
  BY <1>4, <1>10

-----------------------------------------------------------------------------
(* What Contribution adds up to.                                           *)

Charges == [Names -> Nat]

\* Subsets of the names are finite.
LEMMA NamesFinite ==
    ASSUME NEW S \in SUBSET Names
    PROVE  IsFiniteSet(S) /\ Cardinality(S) \in Nat
  BY NamesAssumption, FS_Subset, FS_CardinalityType

\* No names contribute nothing; otherwise one name can be taken off.
LEMMA ContributionUnfolds ==
    ASSUME NEW est, NEW ser, NEW S \in SUBSET Names
    PROVE  Contribution(est, ser, S) =
             IF S = {} THEN 0
             ELSE Weight(est, ser, Pick(S)) + Contribution(est, ser, S \ {Pick(S)})
<1> DEFINE R == S \ {Pick(S)}
           g == SumFun(est, ser, S)
           h == SumFun(est, ser, R)
<1>1. IsFiniteSet(S) /\ R \in SUBSET S /\ IsFiniteSet(R)
  BY NamesFinite
<1>2. IsSum(est, ser, S, g) /\ IsSum(est, ser, R, h)
  BY <1>1, SumExists
<1>3. Contribution(est, ser, S) = g[S] /\ Contribution(est, ser, R) = h[R]
  BY ContributionIsSum
<1> HIDE DEF g, h
<1>4. g[R] = h[R]
  BY <1>1, <1>2, SumsAgree
<1>5. g[S] = IF S = {} THEN 0 ELSE Weight(est, ser, Pick(S)) + g[R]
  BY <1>2, SumAt
<1> QED
  BY <1>3, <1>4, <1>5

\* A contribution is a number of bytes.
LEMMA ContributionNat ==
    ASSUME NEW est \in Charges, NEW ser \in Charges, NEW S \in SUBSET Names
    PROVE  Contribution(est, ser, S) \in Nat
<1> DEFINE F == {s \in SUBSET Names : Contribution(est, ser, s) \notin Nat}
<1>1. SUFFICES ASSUME F # {} PROVE FALSE
  OBVIOUS
<1>2. PICK s \in F : \A u \in F : Cardinality(s) <= Cardinality(u)
  BY <1>1, NamesFinite, SmallestSet
<1>3. s # {}
  <2>1. Contribution(est, ser, {}) = 0
    BY ContributionUnfolds
  <2> QED
    BY <1>2, <2>1
<1> DEFINE r == s \ {Pick(s)}
<1>4. Pick(s) \in s /\ r \in SUBSET Names /\ r \notin F
  <2>1. IsFiniteSet(s) /\ Cardinality(s) \in Nat
    BY NamesFinite
  <2>2. Pick(s) \in s /\ Cardinality(r) < Cardinality(s)
    BY <1>3, <2>1, PickSmaller
  <2>3. r \in SUBSET Names /\ Cardinality(r) \in Nat
    BY NamesFinite
  <2> QED
    BY <1>2, <2>1, <2>2, <2>3
<1>5. Contribution(est, ser, r) \in Nat /\ Weight(est, ser, Pick(s)) \in Nat
  BY <1>4 DEF Charges, Weight
<1>6. Contribution(est, ser, s) = Weight(est, ser, Pick(s)) + Contribution(est, ser, r)
  BY <1>3, ContributionUnfolds
<1> HIDE DEF r
<1> QED
  BY <1>2, <1>5, <1>6

\* Taking off any name, not only the one the fold takes.
LEMMA ContributionTake ==
    ASSUME NEW est \in Charges, NEW ser \in Charges, NEW S \in SUBSET Names, NEW x \in S
    PROVE  Contribution(est, ser, S) =
             Weight(est, ser, x) + Contribution(est, ser, S \ {x})
<1> DEFINE C(s) == Contribution(est, ser, s)
           W(y) == Weight(est, ser, y)
           F == {s \in SUBSET Names : \E y \in s : C(s) # W(y) + C(s \ {y})}
<1>1. SUFFICES ASSUME F # {} PROVE FALSE
  OBVIOUS
<1>2. PICK s \in F : \A u \in F : Cardinality(s) <= Cardinality(u)
  BY <1>1, NamesFinite, SmallestSet
<1>3. PICK y \in s : C(s) # W(y) + C(s \ {y})
  BY <1>2
<1> DEFINE p == Pick(s)
           r == s \ {p}
           q == s \ {y}
           b == r \ {y}
<1>4. /\ p \in s /\ p \in Names /\ y \in Names /\ r \notin F /\ q \notin F
      /\ r \in SUBSET Names /\ q \in SUBSET Names /\ b \in SUBSET Names
  <2>1. IsFiniteSet(s) /\ Cardinality(s) \in Nat /\ s # {}
    BY <1>3, NamesFinite
  <2>2. /\ p \in s /\ Cardinality(r) < Cardinality(s)
        /\ Cardinality(q) = Cardinality(s) - 1
    BY <1>3, <2>1, PickSmaller, FS_RemoveElement
  <2>3. /\ Cardinality(r) \in Nat /\ Cardinality(q) \in Nat
        /\ r \in SUBSET Names /\ q \in SUBSET Names /\ b \in SUBSET Names
    BY NamesFinite
  <2>4. p \in Names /\ y \in Names
    BY <2>2
  <2> HIDE DEF F, r, q, b, p
  <2>5. r \notin F /\ q \notin F
    BY <1>2, <2>1, <2>2, <2>3
  <2> QED
    BY <2>2, <2>3, <2>4, <2>5
<1>5. C(s) = W(p) + C(r)
  BY <1>3, ContributionUnfolds
<1>6. p # y
  BY <1>3, <1>5
<1>7. b = q \ {p} /\ y \in r /\ p \in q
  BY <1>3, <1>4, <1>6
<1>8. C(r) = W(y) + C(b) /\ C(q) = W(p) + C(b)
  BY <1>4, <1>7
<1>9. C(b) \in Nat /\ W(p) \in Nat /\ W(y) \in Nat
  BY <1>4, ContributionNat DEF Charges, Weight
<1> HIDE DEF C, W, p, r, b
<1>10. C(s) = W(y) + C(q)
  BY <1>5, <1>8, <1>9
<1> QED
  BY <1>3, <1>10

\* Entries that charge the same contribute the same.
LEMMA ContributionSame ==
    ASSUME NEW est, NEW ser, NEW est2, NEW ser2, NEW S \in SUBSET Names,
           \A n \in S : est[n] = est2[n] /\ ser[n] = ser2[n]
    PROVE  Contribution(est, ser, S) = Contribution(est2, ser2, S)
<1> DEFINE F == {s \in SUBSET S : Contribution(est, ser, s) # Contribution(est2, ser2, s)}
<1>1. SUFFICES ASSUME F # {} PROVE FALSE
  OBVIOUS
<1>2. PICK s \in F : \A u \in F : Cardinality(s) <= Cardinality(u)
  BY <1>1, NamesFinite, SmallestSet
<1>3. s # {} /\ s \in SUBSET Names
  BY <1>2, ContributionUnfolds
<1> DEFINE r == s \ {Pick(s)}
<1>4. Pick(s) \in s /\ r \in SUBSET S /\ r \notin F
  <2>1. IsFiniteSet(s) /\ Cardinality(s) \in Nat
    BY <1>3, NamesFinite
  <2>2. Pick(s) \in s /\ Cardinality(r) < Cardinality(s)
    BY <1>3, <2>1, PickSmaller
  <2>3. r \in SUBSET S /\ Cardinality(r) \in Nat
    BY NamesFinite
  <2> QED
    BY <1>2, <2>1, <2>2, <2>3
<1>5. /\ Contribution(est, ser, r) = Contribution(est2, ser2, r)
      /\ Weight(est, ser, Pick(s)) = Weight(est2, ser2, Pick(s))
  BY <1>4 DEF Weight
<1> QED
  BY <1>2, <1>3, <1>5, ContributionUnfolds

\* Names that charge nothing contribute nothing.
LEMMA ContributionZero ==
    ASSUME NEW est, NEW ser, NEW S \in SUBSET Names, \A n \in S : est[n] = 0 /\ ser[n] = 0
    PROVE  Contribution(est, ser, S) = 0
<1> DEFINE F == {s \in SUBSET S : Contribution(est, ser, s) # 0}
<1>1. SUFFICES ASSUME F # {} PROVE FALSE
  OBVIOUS
<1>2. PICK s \in F : \A u \in F : Cardinality(s) <= Cardinality(u)
  BY <1>1, NamesFinite, SmallestSet
<1>3. s # {} /\ s \in SUBSET Names
  BY <1>2, ContributionUnfolds
<1> DEFINE r == s \ {Pick(s)}
<1>4. Pick(s) \in s /\ r \in SUBSET S /\ r \notin F
  <2>1. IsFiniteSet(s) /\ Cardinality(s) \in Nat
    BY <1>3, NamesFinite
  <2>2. Pick(s) \in s /\ Cardinality(r) < Cardinality(s)
    BY <1>3, <2>1, PickSmaller
  <2>3. r \in SUBSET S /\ Cardinality(r) \in Nat
    BY NamesFinite
  <2> QED
    BY <1>2, <2>1, <2>2, <2>3
<1>5. Contribution(est, ser, r) = 0 /\ Weight(est, ser, Pick(s)) = 0
  BY <1>4 DEF Weight
<1>6. Contribution(est, ser, s) = Weight(est, ser, Pick(s)) + Contribution(est, ser, r)
  BY <1>3, ContributionUnfolds
<1> HIDE DEF r
<1> QED
  BY <1>2, <1>5, <1>6

\* The names of V and the other names contribute the whole.
LEMMA ContributionSplit ==
    ASSUME NEW est \in Charges, NEW ser \in Charges, NEW S \in SUBSET Names,
           NEW V \in SUBSET S
    PROVE  Contribution(est, ser, S) =
             Contribution(est, ser, V) + Contribution(est, ser, S \ V)
<1> DEFINE C(s) == Contribution(est, ser, s)
           W(y) == Weight(est, ser, y)
           F == {s \in SUBSET Names : \E T \in SUBSET Names :
                    s \subseteq T /\ C(T) # C(s) + C(T \ s)}
<1>1. SUFFICES ASSUME F # {} PROVE FALSE
  OBVIOUS
<1>2. PICK s \in F : \A u \in F : Cardinality(s) <= Cardinality(u)
  BY <1>1, NamesFinite, SmallestSet
<1>3. PICK T \in SUBSET Names : s \subseteq T /\ C(T) # C(s) + C(T \ s)
  BY <1>2
<1>4. s # {}
  <2> SUFFICES ASSUME s = {} PROVE FALSE
    OBVIOUS
  <2>1. C(s) = 0 /\ C(T) \in Nat /\ T \ s = T
    BY ContributionUnfolds, ContributionNat
  <2> HIDE DEF C
  <2>2. C(T \ s) = C(T)
    BY <2>1
  <2> QED
    BY <1>3, <2>1, <2>2
<1> DEFINE y == Pick(s)
           r == s \ {y}
           R == T \ {y}
<1>5. y \in s /\ y \in T /\ y \in Names /\ r \in SUBSET Names /\ R \in SUBSET Names
  BY <1>3, <1>4 DEF Pick
<1>6. r \notin F
  <2>1. IsFiniteSet(s) /\ Cardinality(s) \in Nat
    BY NamesFinite
  <2>2. Cardinality(r) < Cardinality(s) /\ Cardinality(r) \in Nat
    BY <1>4, <2>1, <1>5, PickSmaller, NamesFinite
  <2> HIDE DEF F, r
  <2> QED
    BY <1>2, <2>1, <2>2
<1>7. r \subseteq R /\ R \ r = T \ s
  BY <1>3, <1>5
<1>8. C(R) = C(r) + C(T \ s)
  BY <1>5, <1>6, <1>7
<1>9. C(T) = W(y) + C(R) /\ C(s) = W(y) + C(r)
  BY <1>5, ContributionTake
<1>10. C(r) \in Nat /\ C(T \ s) \in Nat /\ W(y) \in Nat
  BY <1>5, ContributionNat DEF Charges, Weight
<1> HIDE DEF C, W, y, r, R
<1> QED
  BY <1>3, <1>8, <1>9, <1>10

\* Without the charges of V.
LEMMA ContributionWithout ==
    ASSUME NEW est \in Charges, NEW ser \in Charges, NEW V \in SUBSET Names
    PROVE  Contribution([n \in Names |-> IF n \in V THEN 0 ELSE est[n]],
                        [n \in Names |-> IF n \in V THEN 0 ELSE ser[n]], Names) =
             Contribution(est, ser, Names) - Contribution(est, ser, V)
<1> DEFINE e == [n \in Names |-> IF n \in V THEN 0 ELSE est[n]]
           s == [n \in Names |-> IF n \in V THEN 0 ELSE ser[n]]
<1>1. e \in Charges /\ s \in Charges
  BY DEF Charges
<1>2. Contribution(e, s, V) = 0
  BY ContributionZero
<1>3. Contribution(e, s, Names \ V) = Contribution(est, ser, Names \ V)
  BY ContributionSame
<1> HIDE DEF e, s
<1>4. /\ Contribution(e, s, Names) = Contribution(e, s, V) + Contribution(e, s, Names \ V)
      /\ Contribution(est, ser, Names) = Contribution(est, ser, V)
                                           + Contribution(est, ser, Names \ V)
  BY <1>1, ContributionSplit
<1>5. Contribution(est, ser, V) \in Nat /\ Contribution(est, ser, Names \ V) \in Nat
  BY ContributionNat
<1>6. Contribution(e, s, Names) = Contribution(est, ser, Names) - Contribution(est, ser, V)
  BY <1>2, <1>3, <1>4, <1>5
<1> QED
  BY <1>6 DEF e, s

-----------------------------------------------------------------------------
(* Arithmetic modulo Word.                                                 *)

\* The remainder is the number below Word that differs by a multiple of Word.
LEMMA ModUnique ==
    ASSUME NEW a \in Int, NEW q \in Int, NEW r \in U64, a = q * Word + r
    PROVE  a % Word = r
  BY WordAssumption DEF U64

LEMMA ModType ==
    ASSUME NEW a \in Int
    PROVE  a % Word \in U64
  BY WordAssumption DEF U64

\* Wrapping a partial result does not change the final one.
LEMMA ModAdd ==
    ASSUME NEW a \in Int, NEW b \in Int
    PROVE  ((a % Word) + b) % Word = (a + b) % Word
<1> DEFINE q == a \div Word
           r == a % Word
           p == (r + b) \div Word
           s == (r + b) % Word
<1>1. q \in Int /\ r \in Int /\ a = Word * q + r
  BY WordAssumption
<1>2. p \in Int /\ s \in U64 /\ r + b = Word * p + s
  BY <1>1, WordAssumption DEF U64
<1> HIDE DEF q, r, p, s
<1>3. a + b = (q + p) * Word + s
  BY <1>1, <1>2, WordAssumption DEF U64
<1>4. (a + b) % Word = s
  BY <1>1, <1>2, <1>3, ModUnique
<1> QED
  BY <1>4 DEF s, r

-----------------------------------------------------------------------------
(* The critical sections of m_lruMutex.                                    *)

\* m_cachedBytes is what the entries charge.
CountExact == cachedBytes = Contribution(estimated, serialized, Names) % Word

\* A name without an entry charges nothing.
NoEntryNoCharge ==
    \A n \in Names \ charged : estimated[n] = 0 /\ serialized[n] = 0

LruInv == LruTypeOK /\ NoEntryNoCharge /\ CountExact

\* Leaving a section of EvictOverBudgetLocked with a count that was exact.
LEMMA EvictLockedExact ==
    ASSUME NEW V \in SUBSET Names, NEW names \in SUBSET Names,
           NEW est \in [Names -> U64], NEW ser \in [Names -> U64],
           NEW after \in [Names -> SUBSET Names],
           \A n \in Names \ names : est[n] = 0 /\ ser[n] = 0,
           NEW bytes \in Int, bytes % Word = Contribution(est, ser, Names) % Word,
           EvictLocked(V, names, est, ser, after, bytes), maxBytes' \in U64
    PROVE  LruInv'
<1>1. est \in Charges /\ ser \in Charges
  BY DEF Charges, U64
<1> DEFINE C(s) == Contribution(est, ser, s)
<1>2. C(Names) \in Nat /\ C(V) \in Nat
  BY <1>1, ContributionNat
<1>3. cachedBytes' = (bytes - C(V)) % Word
  BY DEF EvictLocked, Uncharge
<1>4. Contribution(estimated', serialized', Names) = C(Names) - C(V)
  BY <1>1, ContributionWithout DEF EvictLocked
<1> HIDE DEF C
<1>5. (bytes - C(V)) % Word = (C(Names) - C(V)) % Word
  <2> DEFINE d == 0 - C(V)
  <2>1. d \in Int /\ bytes - C(V) = bytes + d /\ C(Names) - C(V) = C(Names) + d
    BY <1>2
  <2> HIDE DEF d
  <2>2. /\ ((bytes % Word) + d) % Word = (bytes + d) % Word
        /\ ((C(Names) % Word) + d) % Word = (C(Names) + d) % Word
    BY <1>2, <2>1, ModAdd
  <2>3. bytes % Word = C(Names) % Word
    BY DEF C
  <2> QED
    BY <2>1, <2>2, <2>3
<1>6. CountExact'
  BY <1>3, <1>4, <1>5 DEF CountExact
<1>7. cachedBytes' \in U64
  BY <1>2, <1>3, ModType
<1>8. /\ charged' \in SUBSET Names /\ estimated' \in [Names -> U64]
      /\ serialized' \in [Names -> U64] /\ servedAfter' \in [Names -> SUBSET Names]
  BY WordAssumption DEF EvictLocked, U64
<1>9. NoEntryNoCharge'
  BY DEF EvictLocked, NoEntryNoCharge
<1> QED
  BY <1>6, <1>7, <1>8, <1>9 DEF LruInv, LruTypeOK

\* The count follows when the charge of one name changes.
LEMMA CountFollows ==
    ASSUME LruInv, NEW n \in Names, NEW est \in [Names -> U64], NEW ser \in [Names -> U64],
           \A m \in Names \ {n} : est[m] = estimated[m] /\ ser[m] = serialized[m],
           NEW d \in Int, d = (est[n] - estimated[n]) + (ser[n] - serialized[n])
    PROVE  (cachedBytes + d) % Word = Contribution(est, ser, Names) % Word
<1>1. /\ est \in Charges /\ ser \in Charges
      /\ estimated \in Charges /\ serialized \in Charges
  BY DEF Charges, U64, LruInv, LruTypeOK
<1> DEFINE old == Contribution(estimated, serialized, Names)
           new == Contribution(est, ser, Names)
<1>2. old \in Nat /\ new \in Nat
  BY <1>1, ContributionNat
<1>3. new = old + (est[n] - estimated[n]) + (ser[n] - serialized[n])
  <2> DEFINE R == Names \ {n}
  <2>1. Contribution(est, ser, R) = Contribution(estimated, serialized, R)
    BY ContributionSame
  <2>2. /\ old = (estimated[n] + serialized[n]) + Contribution(estimated, serialized, R)
        /\ new = (est[n] + ser[n]) + Contribution(est, ser, R)
    BY <1>1, ContributionTake DEF Weight
  <2>3. /\ Contribution(est, ser, R) \in Nat
        /\ est[n] \in Nat /\ ser[n] \in Nat /\ estimated[n] \in Nat /\ serialized[n] \in Nat
    BY <1>1, ContributionNat DEF Charges
  <2> QED
    BY <2>1, <2>2, <2>3
<1>4. cachedBytes = old % Word
  BY DEF LruInv, CountExact
<1>5. est[n] \in Int /\ estimated[n] \in Int /\ ser[n] \in Int /\ serialized[n] \in Int
  BY <1>1 DEF Charges
<1> HIDE DEF old, new
<1>6. new = old + d
  BY <1>2, <1>3, <1>5
<1> QED
  BY <1>2, <1>4, <1>6, ModAdd DEF new

\* ServedNow keeps the order well-typed.
LEMMA ServedNowType ==
    ASSUME LruInv, NEW n \in Names
    PROVE  ServedNow(n) \in [Names -> SUBSET Names]
  BY DEF ServedNow, LruInv, LruTypeOK

LEMMA TouchKeepsCount ==
    ASSUME LruInv, NEW n \in Names, TouchLru(n)
    PROVE  LruInv'
  BY ServedNowType DEF TouchLru, LruInv, LruTypeOK, NoEntryNoCharge, CountExact

\* InsertLruAndEvict.
LEMMA ChargeKeepsCount ==
    ASSUME LruInv, NEW n \in Names, NEW bytes \in U64, NEW stored \in U64, NEW loading,
           NEW V \in SUBSET Names, ChargeEntry(n, bytes, stored, loading, V)
    PROVE  LruInv'
<1> DEFINE base == IF n \in charged THEN (bytes - stored) % Word ELSE bytes
           est == [estimated EXCEPT ![n] = base]
           count == (cachedBytes + base - estimated[n]) % Word
           names == charged \cup {n}
<1>1. base \in U64
  BY ModType DEF U64
<1>2. /\ EvictLocked(V, names, est, serialized, ServedNow(n), count)
      /\ UNCHANGED maxBytes
  BY DEF ChargeEntry
<1>3. /\ est \in [Names -> U64] /\ est[n] = base
      /\ \A m \in Names \ {n} : est[m] = estimated[m]
  BY <1>1 DEF LruInv, LruTypeOK
<1>4. /\ names \in SUBSET Names /\ serialized \in [Names -> U64] /\ maxBytes \in U64
      /\ estimated[n] \in Int /\ cachedBytes \in Int /\ base \in Int /\ serialized[n] \in Int
  BY <1>1 DEF LruInv, LruTypeOK, U64
<1>5. \A m \in Names \ names : est[m] = 0 /\ serialized[m] = 0
  BY <1>3 DEF LruInv, NoEntryNoCharge
<1> HIDE DEF base, est, names
<1>6. /\ base - estimated[n] \in Int
      /\ cachedBytes + base - estimated[n] = cachedBytes + (base - estimated[n])
      /\ base - estimated[n] = (est[n] - estimated[n]) + (serialized[n] - serialized[n])
  BY <1>3, <1>4
<1>7. count = Contribution(est, serialized, Names) % Word
  BY <1>3, <1>4, <1>6, CountFollows
<1>8. count \in U64
  BY <1>4, <1>6, ModType
<1> HIDE DEF count
<1>9. count \in Int /\ count % Word = count
  BY <1>8, WordAssumption DEF U64
<1> QED
  BY <1>2, <1>3, <1>4, <1>5, <1>7, <1>9, ServedNowType, EvictLockedExact

\* ResyncLruEstimate.
LEMMA ResyncKeepsCount ==
    ASSUME LruInv, NEW n \in Names, NEW bytes \in U64, NEW stored \in U64,
           ResyncEntry(n, bytes, stored)
    PROVE  LruInv'
<1>1. CASE n \notin charged
  BY <1>1 DEF ResyncEntry, LruInv, LruTypeOK, NoEntryNoCharge, CountExact
<1>2. CASE n \in charged
  <2> DEFINE base == (bytes - stored) % Word
             est == [estimated EXCEPT ![n] = base]
  <2>1. base \in U64
    BY ModType DEF U64
  <2>2. /\ estimated' = est /\ cachedBytes' = (cachedBytes + base - estimated[n]) % Word
        /\ UNCHANGED <<charged, serialized, servedAfter, maxBytes>>
    BY <1>2 DEF ResyncEntry
  <2>3. /\ est \in [Names -> U64] /\ est[n] = base
        /\ \A m \in Names \ {n} : est[m] = estimated[m]
    BY <2>1 DEF LruInv, LruTypeOK
  <2>4. /\ serialized \in [Names -> U64] /\ estimated[n] \in Int /\ cachedBytes \in Int
        /\ base \in Int /\ serialized[n] \in Int
    BY <2>1 DEF LruInv, LruTypeOK, U64
  <2> HIDE DEF base, est
  <2>5. /\ base - estimated[n] \in Int
        /\ cachedBytes + base - estimated[n] = cachedBytes + (base - estimated[n])
        /\ base - estimated[n] = (est[n] - estimated[n]) + (serialized[n] - serialized[n])
    BY <2>3, <2>4
  <2>6. cachedBytes' = Contribution(est, serialized, Names) % Word /\ cachedBytes' \in U64
    BY <2>2, <2>3, <2>4, <2>5, CountFollows, ModType
  <2> QED
    BY <1>2, <2>2, <2>3, <2>6 DEF LruInv, LruTypeOK, NoEntryNoCharge, CountExact
<1> QED
  BY <1>1, <1>2

\* CommitResponsePayloads.
LEMMA PayloadKeepsCount ==
    ASSUME LruInv, NEW n \in charged, NEW stored \in U64, NEW loading,
           NEW V \in SUBSET Names, ChargePayload(n, stored, loading, V)
    PROVE  LruInv'
<1> DEFINE ser == [serialized EXCEPT ![n] = stored]
           count == (cachedBytes + stored - serialized[n]) % Word
<1>1. /\ EvictLocked(V, charged, estimated, ser, servedAfter, count)
      /\ UNCHANGED maxBytes
  BY DEF ChargePayload
<1>2. n \in Names
  BY DEF LruInv, LruTypeOK
<1>3. /\ ser \in [Names -> U64] /\ ser[n] = stored
      /\ \A m \in Names \ {n} : ser[m] = serialized[m]
  BY <1>2 DEF LruInv, LruTypeOK
<1>4. /\ charged \in SUBSET Names /\ estimated \in [Names -> U64] /\ maxBytes \in U64
      /\ servedAfter \in [Names -> SUBSET Names]
      /\ estimated[n] \in Int /\ cachedBytes \in Int /\ stored \in Int /\ serialized[n] \in Int
  BY <1>2 DEF LruInv, LruTypeOK, U64
<1>5. \A m \in Names \ charged : estimated[m] = 0 /\ ser[m] = 0
  BY <1>3 DEF LruInv, NoEntryNoCharge
<1> HIDE DEF ser
<1>6. /\ stored - serialized[n] \in Int
      /\ cachedBytes + stored - serialized[n] = cachedBytes + (stored - serialized[n])
      /\ stored - serialized[n] = (estimated[n] - estimated[n]) + (ser[n] - serialized[n])
  BY <1>3, <1>4
<1>7. count = Contribution(estimated, ser, Names) % Word
  BY <1>2, <1>3, <1>4, <1>6, CountFollows
<1>8. count \in U64
  BY <1>4, <1>6, ModType
<1> HIDE DEF count
<1>9. count \in Int /\ count % Word = count
  BY <1>8, WordAssumption DEF U64
<1> QED
  BY <1>1, <1>3, <1>4, <1>5, <1>7, <1>9, EvictLockedExact

\* AdjustLruSerializedBytes.
LEMMA AdjustKeepsCount ==
    ASSUME LruInv, NEW n \in Names, NEW stored \in U64, AdjustLruSerializedBytes(n, stored)
    PROVE  LruInv'
<1>1. CASE n \notin charged
  BY <1>1 DEF AdjustLruSerializedBytes, LruInv, LruTypeOK, NoEntryNoCharge, CountExact
<1>2. CASE n \in charged
  <2> DEFINE ser == [serialized EXCEPT ![n] = stored]
  <2>1. /\ serialized' = ser
        /\ cachedBytes' = (cachedBytes - (serialized[n] - stored)) % Word
        /\ UNCHANGED <<charged, estimated, servedAfter, maxBytes>>
    BY <1>2 DEF AdjustLruSerializedBytes
  <2>2. /\ ser \in [Names -> U64] /\ ser[n] = stored
        /\ \A m \in Names \ {n} : ser[m] = serialized[m]
    BY DEF LruInv, LruTypeOK
  <2>3. /\ estimated \in [Names -> U64] /\ estimated[n] \in Int /\ cachedBytes \in Int
        /\ stored \in Int /\ serialized[n] \in Int
    BY DEF LruInv, LruTypeOK, U64
  <2> HIDE DEF ser
  <2>4. /\ stored - serialized[n] \in Int
        /\ cachedBytes - (serialized[n] - stored) = cachedBytes + (stored - serialized[n])
        /\ stored - serialized[n] = (estimated[n] - estimated[n]) + (ser[n] - serialized[n])
    BY <2>2, <2>3
  <2>5. cachedBytes' = Contribution(estimated, ser, Names) % Word /\ cachedBytes' \in U64
    BY <2>1, <2>2, <2>3, <2>4, CountFollows, ModType
  <2> QED
    BY <1>2, <2>1, <2>2, <2>5 DEF LruInv, LruTypeOK, NoEntryNoCharge, CountExact
<1> QED
  BY <1>1, <1>2

\* setCacheMaxBytes.
LEMMA SetMaxKeepsCount ==
    ASSUME LruInv, NEW max \in U64, NEW loading, NEW V \in SUBSET Names,
           SetMaxBytes(max, loading, V)
    PROVE  LruInv'
<1>1. /\ EvictLocked(V, charged, estimated, serialized, servedAfter, cachedBytes)
      /\ maxBytes' \in U64
  BY DEF SetMaxBytes
<1>2. /\ charged \in SUBSET Names /\ estimated \in [Names -> U64]
      /\ serialized \in [Names -> U64] /\ servedAfter \in [Names -> SUBSET Names]
      /\ cachedBytes \in U64 /\ cachedBytes \in Int
      /\ \A m \in Names \ charged : estimated[m] = 0 /\ serialized[m] = 0
      /\ cachedBytes = Contribution(estimated, serialized, Names) % Word
  BY DEF LruInv, LruTypeOK, U64, NoEntryNoCharge, CountExact
<1>3. cachedBytes % Word = cachedBytes
  BY <1>2, WordAssumption DEF U64
<1> QED
  BY <1>1, <1>2, <1>3, EvictLockedExact

\* The entries of a new cache.
LEMMA EmptyCount ==
    ASSUME LruEmpty, maxBytes \in U64
    PROVE  LruInv
<1>1. Contribution(estimated, serialized, Names) = 0
  BY ContributionZero DEF LruEmpty
<1>2. 0 \in U64 /\ 0 % Word = 0
  BY WordAssumption DEF U64
<1> QED
  BY <1>1, <1>2 DEF LruEmpty, LruInv, LruTypeOK, NoEntryNoCharge, CountExact

\* Clear().
LEMMA ClearKeepsCount ==
    ASSUME LruInv, LruClear
    PROVE  LruInv'
<1>1. Contribution(estimated', serialized', Names) = 0
  BY ContributionZero DEF LruClear
<1>2. 0 \in U64 /\ 0 % Word = 0
  BY WordAssumption DEF U64
<1> QED
  BY <1>1, <1>2 DEF LruClear, LruInv, LruTypeOK, NoEntryNoCharge, CountExact

-----------------------------------------------------------------------------
(* The invariant of the data.                                              *)


ThreadTypeOK == pc \in [Threads -> Labels] /\ loc \in [Threads -> Local]

\* Payloads are as long as their byte count can say.
PayloadsFit == \A n \in Names : StoredBytes(n) \in U64

DataInv == DataTypeOK /\ PayloadsFit /\ LruInv

TypeInv == DataInv /\ ThreadTypeOK

-----------------------------------------------------------------------------
(* Locals.                                                                 *)

LEMMA ZeroIsU64 == 0 \in U64
  BY WordAssumption DEF U64

LEMMA NoLocalsType == NoLocals \in Local
<1>1. AnyName \in Names
  BY NamesAssumption DEF AnyName
<1>2. Nil \in Object /\ NoFlight \in Flight
  BY DEF Nil, Object, NoFlight, Flight, PromiseStatus
<1> QED
  BY <1>1, <1>2, ZeroIsU64 DEF NoLocals, Local, Kinds, Outcome, Labels

\* Thread t alone moves.
LEMMA GotoType ==
    ASSUME ThreadTypeOK, NEW t \in Threads, NEW to \in Labels, NEW l \in Local,
           Goto(t, to, l)
    PROVE  ThreadTypeOK'
  BY NoLocalsType DEF ThreadTypeOK, Goto

LEMMA ProceedType ==
    ASSUME ThreadTypeOK, NEW t \in Threads, NEW to \in Labels, Proceed(t, to)
    PROVE  ThreadTypeOK'
  BY GotoType DEF Proceed, ThreadTypeOK

\* What the locals of a thread are.
LEMMA LocalFacts ==
    ASSUME ThreadTypeOK, NEW t \in Threads
    PROVE  /\ loc[t] \in Local /\ pc[t] \in Labels
           /\ Name(t) \in Names /\ Kind(t) \in Kinds /\ loc[t].nested \in BOOLEAN
           /\ loc[t].gen \in [Kinds -> Nat] /\ loc[t].ep \in [Kinds -> Nat]
           /\ loc[t].val \in Object /\ loc[t].wait \in Flight /\ loc[t].bytes \in U64
           /\ loc[t].victims \in SUBSET Names /\ loc[t].victim \in Names
           /\ loc[t].max \in U64 /\ loc[t].after \in Labels /\ loc[t].ret \in Labels
  BY DEF ThreadTypeOK, Local, Name, Kind

\* One local changes.
LEMMA LocalExcept ==
    ASSUME NEW l \in Local
    PROVE  /\ \A x \in Object : [l EXCEPT !.val = x] \in Local
           /\ \A x \in Nat, k \in Kinds : [l EXCEPT !.gen[k] = x] \in Local
           /\ \A x \in Nat, k \in Kinds : [l EXCEPT !.ep[k] = x] \in Local
           /\ \A x \in U64 : [l EXCEPT !.bytes = x] \in Local
           /\ \A x \in Names : [l EXCEPT !.victim = x] \in Local
           /\ \A x \in Flight : [l EXCEPT !.wait = x] \in Local
           /\ \A x \in BOOLEAN : [l EXCEPT !.stale = x] \in Local
           /\ \A x \in Labels : [l EXCEPT !.after = x] \in Local
           /\ \A x \in Labels : [l EXCEPT !.ret = x] \in Local
           /\ \A x \in BOOLEAN, o \in Outcome :
                 [l EXCEPT !.stale = x, !.outcome = o] \in Local
           /\ \A x \in Object, o \in Outcome :
                 [l EXCEPT !.outcome = o, !.val = x] \in Local
           /\ \A V \in SUBSET Names, x \in Labels :
                 [l EXCEPT !.victims = V, !.after = x] \in Local
           /\ \A V \in SUBSET Names, x \in Names :
                 [l EXCEPT !.victims = V, !.victim = x] \in Local
           /\ [l EXCEPT !.kind = "archive", !.nested = TRUE] \in Local
           /\ \A x \in Object, o \in Outcome :
                 [l EXCEPT !.kind = "design", !.nested = FALSE, !.val = x,
                           !.outcome = o] \in Local
<1>1. ASSUME NEW x \in Nat, NEW k \in Kinds
      PROVE  [l EXCEPT !.gen[k] = x] \in Local /\ [l EXCEPT !.ep[k] = x] \in Local
  BY DEF Local
<1>2. /\ \A x \in Object : [l EXCEPT !.val = x] \in Local
      /\ \A x \in U64 : [l EXCEPT !.bytes = x] \in Local
      /\ \A x \in Names : [l EXCEPT !.victim = x] \in Local
  BY DEF Local
<1>3. /\ \A x \in Flight : [l EXCEPT !.wait = x] \in Local
      /\ \A x \in BOOLEAN : [l EXCEPT !.stale = x] \in Local
      /\ \A x \in Labels : [l EXCEPT !.after = x] \in Local
      /\ \A x \in Labels : [l EXCEPT !.ret = x] \in Local
  BY DEF Local
<1>4. \A x \in BOOLEAN, o \in Outcome : [l EXCEPT !.stale = x, !.outcome = o] \in Local
  BY DEF Local
<1>5. \A x \in Object, o \in Outcome : [l EXCEPT !.outcome = o, !.val = x] \in Local
  BY DEF Local
<1>6. /\ \A V \in SUBSET Names, x \in Labels :
            [l EXCEPT !.victims = V, !.after = x] \in Local
      /\ \A V \in SUBSET Names, x \in Names :
            [l EXCEPT !.victims = V, !.victim = x] \in Local
  BY DEF Local
<1>7. [l EXCEPT !.kind = "archive", !.nested = TRUE] \in Local
  BY DEF Local, Kinds
<1>8. \A x \in Object, o \in Outcome :
         [l EXCEPT !.kind = "design", !.nested = FALSE, !.val = x, !.outcome = o] \in Local
  BY DEF Local, Kinds
<1> QED
  BY <1>1, <1>2, <1>3, <1>4, <1>5, <1>6, <1>7, <1>8

\* The locals of a call or of a detached thread when it starts.
LEMMA NewLocals ==
    ASSUME NEW l \in Local, NEW n \in Names, NEW r \in Labels
    PROVE  /\ \A k \in Kinds :
                 [l EXCEPT !.name = n, !.kind = k, !.ret = r] \in Local
           /\ \A m \in U64, k \in Kinds, b \in BOOLEAN :
                 [l EXCEPT !.name = n, !.max = m, !.kind = k, !.save = b] \in Local
           /\ [l EXCEPT !.name = n, !.job = "load", !.ret = r] \in Local
           /\ \A v \in Object, g \in Nat, e \in Nat :
                 [l EXCEPT !.name = n, !.job = "serialize", !.val = v, !.ret = r,
                           !.gen["design"] = g, !.ep["design"] = e] \in Local
<1>1. \A k \in Kinds : [l EXCEPT !.name = n, !.kind = k, !.ret = r] \in Local
  BY DEF Local
<1>2. \A m \in U64, k \in Kinds, b \in BOOLEAN :
         [l EXCEPT !.name = n, !.max = m, !.kind = k, !.save = b] \in Local
  BY DEF Local
<1>3. [l EXCEPT !.name = n, !.job = "load", !.ret = r] \in Local
  BY DEF Local
<1>4. ASSUME NEW v \in Object, NEW g \in Nat, NEW e \in Nat
      PROVE  [l EXCEPT !.name = n, !.job = "serialize", !.val = v, !.ret = r,
                       !.gen["design"] = g, !.ep["design"] = e] \in Local
  BY DEF Local
<1> QED
  BY <1>1, <1>2, <1>3, <1>4

LEMMA NilType == Nil \in Object /\ NoPayload \in Payload /\ NoFlight \in Flight
  BY DEF Nil, Object, NoPayload, Payload, NoFlight, Flight, PromiseStatus

\* Where a call goes on.
LEMMA ReturnType ==
    ASSUME ThreadTypeOK, NEW t \in Threads, NEW v \in Object, Return(t, v)
    PROVE  ThreadTypeOK'
<1>1. CASE loc[t].nested
  <2> DEFINE o == IF v = Nil THEN "null" ELSE "value"
             to == IF v = Nil THEN "Fulfil" ELSE "Build"
             l == [loc[t] EXCEPT !.kind = "design", !.nested = FALSE, !.val = v,
                                 !.outcome = o]
  <2>1. o \in Outcome /\ to \in Labels
    BY DEF Outcome, Labels
  <2>2. l \in Local
    BY <2>1, LocalFacts, LocalExcept
  <2>3. Goto(t, to, l)
    BY <1>1 DEF Return
  <2> HIDE DEF l, to
  <2> QED
    BY <2>1, <2>2, <2>3, GotoType
<1>2. CASE ~loc[t].nested
  <2>1. [loc[t] EXCEPT !.val = v] \in Local /\ loc[t].ret \in Labels
    BY LocalFacts, LocalExcept
  <2> QED
    BY <1>2, <2>1, GotoType DEF Return
<1> QED
  BY <1>1, <1>2

LEMMA ThrowType ==
    ASSUME ThreadTypeOK, NEW t \in Threads, Throw(t)
    PROVE  ThreadTypeOK'
<1>1. CASE loc[t].nested
  <2> DEFINE l == [loc[t] EXCEPT !.kind = "design", !.nested = FALSE, !.val = Nil,
                                 !.outcome = "threw"]
  <2>1. l \in Local
    BY LocalFacts, LocalExcept, NilType DEF Outcome
  <2>2. Goto(t, "Fulfil", l)
    BY <1>1 DEF Throw
  <2> HIDE DEF l
  <2> QED
    BY <2>1, <2>2, GotoType DEF Labels
<1>2. CASE ~loc[t].nested
  BY <1>2, ProceedType DEF Throw, Labels
<1> QED
  BY <1>1, <1>2

LEMMA EvictThenType ==
    ASSUME ThreadTypeOK, NEW t \in Threads, NEW V \in SUBSET Names, NEW after \in Labels,
           EvictThen(t, V, after)
    PROVE  ThreadTypeOK'
<1>1. [loc[t] EXCEPT !.victims = V, !.after = after] \in Local
  BY LocalFacts, LocalExcept
<1>2. (IF V = {} THEN after ELSE "EvictStore") \in Labels
  BY DEF Labels
<1> QED
  BY <1>1, <1>2, GotoType DEF EvictThen

-----------------------------------------------------------------------------
(* The components keep their types.                                        *)

LEMMA DataSame ==
    ASSUME DataInv, UNCHANGED shared
    PROVE  DataInv'
  BY DEF DataInv, DataTypeOK, LoadTypeOK, StoreTypeOK, PayloadsFit, StoredBytes, LruInv,
         LruTypeOK, NoEntryNoCharge, CountExact, shared, loadVars, lruVars, storeVars,
         cacheVars

LEMMA LoadKept ==
    ASSUME DataInv, LoadTypeOK', UNCHANGED allButLoad
    PROVE  DataInv'
  BY DEF DataInv, DataTypeOK, StoreTypeOK, PayloadsFit, StoredBytes, LruInv, LruTypeOK,
         NoEntryNoCharge, CountExact, allButLoad, lruVars, storeVars, cacheVars

LEMMA LruKept ==
    ASSUME DataInv, LruInv', UNCHANGED allButLru
    PROVE  DataInv'
  BY DEF DataInv, DataTypeOK, LoadTypeOK, StoreTypeOK, PayloadsFit, StoredBytes, allButLru,
         loadVars, storeVars, cacheVars

LEMMA StoreKept ==
    ASSUME DataInv, StoreTypeOK', PayloadsFit', UNCHANGED allButStore
    PROVE  DataInv'
  BY DEF DataInv, DataTypeOK, LoadTypeOK, LruInv, LruTypeOK, NoEntryNoCharge, CountExact,
         allButStore, loadVars, lruVars, cacheVars

LEMMA CacheKept ==
    ASSUME DataInv, disk' \in [Names -> Nat], installed' \in [Names -> Nat],
           cache' \in [Kinds -> [Names -> Object]], UNCHANGED allButCache
    PROVE  DataInv'
  BY DEF DataInv, DataTypeOK, LoadTypeOK, StoreTypeOK, PayloadsFit, StoredBytes, LruInv,
         LruTypeOK, NoEntryNoCharge, CountExact, allButCache, loadVars, lruVars, storeVars

LEMMA SlotsKept ==
    ASSUME DataInv, UNCHANGED allButSlots
    PROVE  DataInv'
  BY DEF DataInv, DataTypeOK, LoadTypeOK, StoreTypeOK, PayloadsFit, StoredBytes, LruInv,
         LruTypeOK, NoEntryNoCharge, CountExact, allButSlots, loadVars, lruVars, storeVars,
         cacheVars

\* The sections of m_loadStateMutex.
LEMMA LoadSections ==
    ASSUME LoadTypeOK, NEW k \in Kinds, NEW n \in Names, NEW t \in Threads,
           \/ RegisterInFlight(k, n, t)
           \/ \E st \in {"value", "exception"}, v \in Object : FulfilPromise(k, n, st, v)
           \/ EraseInFlight(k, n)
           \/ \E st \in LoadState : TransitionLoadState(n, st)
           \/ EraseLoadState(n) \/ ClearStates \/ MarkPending(n) \/ UnmarkPending(n)
    PROVE  LoadTypeOK'
<1> USE NilType
<1>1. CASE RegisterInFlight(k, n, t)
  <2>1. [owner |-> t, status |-> "pending", val |-> Nil] \in Flight
    BY DEF Flight, PromiseStatus
  <2> QED
    BY <1>1, <2>1 DEF RegisterInFlight, LoadTypeOK
<1>2. ASSUME NEW st \in {"value", "exception"}, NEW v \in Object, FulfilPromise(k, n, st, v)
      PROVE  LoadTypeOK'
  <2> DEFINE e == inFlight[k][n]
             f == [e EXCEPT !.status = st, !.val = v]
  <2>1. e \in Flight
    BY DEF LoadTypeOK
  <2>2. inFlight' = [inFlight EXCEPT ![k] = [inFlight[k] EXCEPT ![n] = f]]
    BY <1>2 DEF FulfilPromise, LoadTypeOK
  <2> HIDE DEF e
  <2>3. f \in Flight
    BY <2>1 DEF Flight, PromiseStatus
  <2> HIDE DEF f
  <2>4. inFlight' \in [Kinds -> [Names -> Flight]]
    BY <2>2, <2>3 DEF LoadTypeOK
  <2> QED
    BY <1>2, <2>4 DEF FulfilPromise, LoadTypeOK
<1>3. CASE EraseInFlight(k, n)
  BY <1>3 DEF EraseInFlight, LoadTypeOK
<1>4. CASE \E st \in LoadState : TransitionLoadState(n, st)
  BY <1>4 DEF TransitionLoadState, LoadTypeOK
<1>5. CASE EraseLoadState(n)
  BY <1>5 DEF EraseLoadState, LoadTypeOK, LoadState
<1>6. CASE ClearStates
  BY <1>6 DEF ClearStates, LoadTypeOK, LoadState
<1>7. CASE MarkPending(n) \/ UnmarkPending(n)
  BY <1>7 DEF MarkPending, UnmarkPending, LoadTypeOK
<1> QED
  BY <1>1, <1>2, <1>3, <1>4, <1>5, <1>6, <1>7

\* The sections of ResponseStore::m_mutex.
LEMMA StoreSections ==
    ASSUME StoreTypeOK, PayloadsFit, NEW n \in Names,
           \/ \E g \in Nat, p \in Payload : p.bytes \in U64 /\ TryStore(n, g, p)
           \/ StoreInvalidate(n) \/ StoreClear
    PROVE  StoreTypeOK' /\ PayloadsFit'
<1>1. ASSUME NEW g \in Nat, NEW p \in Payload, p.bytes \in U64, TryStore(n, g, p)
      PROVE  StoreTypeOK' /\ PayloadsFit'
  BY <1>1 DEF TryStore, StoreTypeOK, PayloadsFit, StoredBytes
<1>2. NoPayload \in Payload /\ NoPayload.bytes \in U64
  BY NilType, ZeroIsU64 DEF NoPayload
<1>3. CASE StoreInvalidate(n)
  BY <1>2, <1>3 DEF StoreInvalidate, StoreTypeOK, PayloadsFit, StoredBytes
<1>4. CASE StoreClear
  BY <1>2, <1>4 DEF StoreClear, StoreTypeOK, PayloadsFit, StoredBytes
<1> QED
  BY <1>1, <1>3, <1>4

-----------------------------------------------------------------------------
(* Sections that only read.                                                *)

LEMMA EstimateType ==
    ASSUME DataInv, NEW n \in Names, NEW injected \in U64
    PROVE  EstimateDesignBytes(n, injected) \in U64
<1>1. StoredBytes(n) \in Int /\ OverheadBytes \in Int /\ ArchiveBytes \in Int /\ injected \in Int
  BY CacheAssumption DEF DataInv, PayloadsFit, U64
<1> QED
  BY <1>1, ModType DEF EstimateDesignBytes

\* make_shared never runs out of identities.
LEMMA FreshIdExists ==
    ASSUME ThreadTypeOK, DataInv
    PROVE  FreshId \in Nat /\ FreshId \notin LiveIds
<1> DEFINE A == {cache["design"][n].id : n \in Names}
           B == {inFlight["design"][n].val.id : n \in Names}
           C == {loc[u].val.id : u \in Threads}
           D == {loc[u].wait.val.id : u \in Threads}
           fa == [n \in Names |-> cache["design"][n].id]
           fb == [n \in Names |-> inFlight["design"][n].val.id]
           fc == [u \in Threads |-> loc[u].val.id]
           fd == [u \in Threads |-> loc[u].wait.val.id]
<1>1. IsFiniteSet(A) /\ IsFiniteSet(B)
  <2>1. fa \in Surjection(Names, A) /\ fb \in Surjection(Names, B)
    BY DEF Surjection
  <2> HIDE DEF A, B, fa, fb
  <2> QED
    BY <2>1, FS_Surjection, NamesAssumption
<1>2. IsFiniteSet(C) /\ IsFiniteSet(D)
  <2>1. fc \in Surjection(Threads, C) /\ fd \in Surjection(Threads, D)
    BY DEF Surjection
  <2> HIDE DEF C, D, fc, fd
  <2> QED
    BY <2>1, FS_Surjection, ThreadsAssumption
<1>3. LiveIds = A \cup B \cup C \cup D
  BY DEF LiveIds
<1> HIDE DEF A, B, C, D
<1>4. IsFiniteSet(LiveIds)
  BY <1>1, <1>2, <1>3, FS_Union
<1> DEFINE k == Cardinality(LiveIds)
           I == 1 .. k + 1
<1>5. k \in Nat
  BY <1>4, FS_CardinalityType
<1>6. IsFiniteSet(I) /\ Cardinality(I) = k + 1
  BY <1>5, FS_Interval
<1>7. ~(I \subseteq LiveIds)
  BY <1>4, <1>5, <1>6, FS_Subset
<1>8. \E i \in I : i \notin LiveIds
  BY <1>7
<1>9. FreshId \in I /\ FreshId \notin LiveIds
  BY <1>8 DEF FreshId
<1> QED
  BY <1>5, <1>9

\* The values that sections read have their types.
LEMMA ReadFacts ==
    ASSUME DataInv, NEW n \in Names, NEW k \in Kinds
    PROVE  /\ cache[k][n] \in Object /\ disk[n] \in Nat /\ installed[n] \in Nat
           /\ CurrentGeneration(n) \in Nat /\ epoch \in Nat
           /\ inFlight[k][n] \in Flight /\ inFlight[k][n].val \in Object
           /\ StoredBytes(n) \in U64
  BY DEF DataInv, DataTypeOK, LoadTypeOK, StoreTypeOK, PayloadsFit, CurrentGeneration, Flight

\* GetOrLoadSingleFlight.
ReadingFlight(t) ==
    \/ Lookup(t) \/ CaptureGen(t) \/ Join(t) \/ LoaderExits(t) \/ LoadDesign(t)
    \/ LoadFileArchive(t) \/ BuildDesign(t) \/ CheckGen(t) \/ CheckEpoch(t) \/ CheckFailed(t)

LEMMA ReadingFlightType ==
    ASSUME TypeInv, NEW t \in Threads, ReadingFlight(t)
    PROVE  TypeInv'
<1>0. DataInv /\ ThreadTypeOK /\ loc[t] \in Local
  BY LocalFacts DEF TypeInv
<1> DEFINE n == Name(t)
           k == Kind(t)
<1>1. n \in Names /\ k \in Kinds /\ "design" \in Kinds /\ "archive" \in Kinds
  BY <1>0, LocalFacts DEF Kinds
<1>2. UNCHANGED shared
  BY DEF ReadingFlight, Lookup, CaptureGen, Join, LoaderExits, LoadDesign, LoadFileArchive,
         BuildDesign, CheckGen, CheckEpoch, CheckFailed
<1>3. SUFFICES ThreadTypeOK'
  BY <1>0, <1>2, DataSame DEF TypeInv
<1> USE <1>0, <1>1
<1>4. CASE Lookup(t)
  <2>1. cache[k][n] \in Object
    BY ReadFacts
  <2>2. [loc[t] EXCEPT !.val = cache[k][n]] \in Local
    BY <2>1, LocalExcept
  <2> QED
    BY <1>4, <2>2, GotoType, ProceedType DEF Lookup, Labels
<1>5. CASE CaptureGen(t)
  <2>1. [loc[t] EXCEPT !.gen[k] = CurrentGeneration(n)] \in Local
    BY LocalExcept, ReadFacts
  <2> QED
    BY <1>5, <2>1, GotoType DEF CaptureGen, Labels
<1>6. CASE Join(t)
  <2>1. loc[t].wait.val \in Object
    BY LocalFacts DEF Flight
  <2>2. [loc[t] EXCEPT !.val = loc[t].wait.val] \in Local
    BY <2>1, LocalExcept
  <2> QED
    BY <1>6, <2>2, GotoType, ThrowType DEF Join, Labels
<1>7. CASE LoaderExits(t)
  <2>1. [loc[t] EXCEPT !.outcome = "guard", !.val = Nil] \in Local
    BY LocalExcept, NilType DEF Outcome
  <2> QED
    BY <1>7, <2>1, GotoType DEF LoaderExits, Labels
<1>8. CASE LoadDesign(t)
  <2>1. /\ [loc[t] EXCEPT !.outcome = "null", !.val = Nil] \in Local
        /\ [loc[t] EXCEPT !.kind = "archive", !.nested = TRUE] \in Local
    BY LocalExcept, NilType DEF Outcome
  <2> QED
    BY <1>8, <2>1, GotoType DEF LoadDesign, Labels
<1>9. CASE LoadFileArchive(t)
  <2>1. [id |-> 0, ver |-> disk[n]] \in Object
    BY ReadFacts DEF Object
  <2>2. /\ [loc[t] EXCEPT !.outcome = "null", !.val = Nil] \in Local
        /\ [loc[t] EXCEPT !.outcome = "threw", !.val = Nil] \in Local
        /\ [loc[t] EXCEPT !.val = [id |-> 0, ver |-> disk[n]]] \in Local
    BY <2>1, LocalExcept, NilType DEF Outcome
  <2> QED
    BY <1>9, <2>2, GotoType DEF LoadFileArchive, Labels
<1>10. CASE BuildDesign(t)
  <2> DEFINE v == [loc[t].val EXCEPT !.id = FreshId]
  <2>1. v \in Object
    BY FreshIdExists, LocalFacts DEF Object
  <2>2. [loc[t] EXCEPT !.val.id = FreshId] = [loc[t] EXCEPT !.val = v]
    BY DEF Local
  <2>3. /\ [loc[t] EXCEPT !.val = v] \in Local
        /\ [loc[t] EXCEPT !.outcome = "null", !.val = Nil] \in Local
        /\ [loc[t] EXCEPT !.outcome = "threw", !.val = Nil] \in Local
    BY <2>1, LocalExcept, NilType DEF Outcome
  <2>4. \/ Goto(t, "CheckGen", [loc[t] EXCEPT !.val = v])
        \/ Goto(t, "Fulfil", [loc[t] EXCEPT !.outcome = "null", !.val = Nil])
        \/ Goto(t, "Fulfil", [loc[t] EXCEPT !.outcome = "threw", !.val = Nil])
    BY <1>10, <2>2 DEF BuildDesign
  <2> HIDE DEF v
  <2> QED
    BY <2>3, <2>4, GotoType DEF Labels
<1>11. CASE CheckGen(t)
  <2> DEFINE b == CurrentGeneration(Name(t)) # loc[t].gen[Kind(t)]
  <2>1. [loc[t] EXCEPT !.stale = b] \in Local
    BY LocalExcept
  <2> QED
    BY <1>11, <2>1, GotoType DEF CheckGen, Labels
<1>12. CASE CheckEpoch(t)
  <2>1. /\ [loc[t] EXCEPT !.stale = FALSE, !.outcome = "abandoned"] \in Local
        /\ [loc[t] EXCEPT !.stale = FALSE, !.outcome = "value"] \in Local
    BY LocalExcept DEF Outcome
  <2> QED
    BY <1>12, <2>1, GotoType DEF CheckEpoch, Labels
<1>13. CASE CheckFailed(t)
  BY <1>13, ProceedType DEF CheckFailed, Labels
<1> QED
  BY <1>4, <1>5, <1>6, <1>7, <1>8, <1>9, <1>10, <1>11, <1>12, <1>13 DEF ReadingFlight

\* The other sections that change no component.
ReadingOther(t) ==
    \/ Estimate(t) \/ ResyncEstimate(t) \/ WarmCheck(t) \/ ReqState(t) \/ ReqContains(t)
    \/ SpawnFails(t) \/ ScheduleGen(t) \/ SerDesign(t) \/ SerGen(t) \/ SerEpoch(t)
    \/ BuildPayload(t) \/ CommitIdentity(t)

LEMMA ReadingOtherType ==
    ASSUME TypeInv, NEW t \in Threads, ReadingOther(t)
    PROVE  TypeInv'
<1>0. DataInv /\ ThreadTypeOK /\ loc[t] \in Local
  BY LocalFacts DEF TypeInv
<1> DEFINE n == Name(t)
<1>1. n \in Names /\ "design" \in Kinds
  BY <1>0, LocalFacts DEF Kinds
<1>2. UNCHANGED shared
  BY DEF ReadingOther, Estimate, ResyncEstimate, WarmCheck, ReqState, ReqContains,
         SpawnFails, ScheduleGen, SerDesign, SerGen, SerEpoch, BuildPayload, CommitIdentity
<1>3. SUFFICES ThreadTypeOK'
  BY <1>0, <1>2, DataSame DEF TypeInv
<1> USE <1>0, <1>1
<1>4. CASE Estimate(t)
  <2> DEFINE b == EstimateDesignBytes(n, IF loc[t].after = "AddLoaded" THEN InjectedBytes ELSE 0)
  <2>1. b \in U64
    BY EstimateType, ZeroIsU64, CacheAssumption
  <2>2. [loc[t] EXCEPT !.bytes = b] \in Local
    BY <2>1, LocalExcept
  <2>3. Goto(t, "Charge", [loc[t] EXCEPT !.bytes = b])
    BY <1>4 DEF Estimate
  <2> HIDE DEF b
  <2> QED
    BY <2>2, <2>3, GotoType DEF Labels
<1>5. CASE ResyncEstimate(t)
  <2> DEFINE b == EstimateDesignBytes(n, 0)
  <2>1. b \in U64
    BY EstimateType, ZeroIsU64
  <2>2. [loc[t] EXCEPT !.bytes = b] \in Local
    BY <2>1, LocalExcept
  <2>3. Goto(t, "Resync", [loc[t] EXCEPT !.bytes = b])
    BY <1>5 DEF ResyncEstimate
  <2> HIDE DEF b
  <2> QED
    BY <2>2, <2>3, GotoType DEF Labels
<1>6. CASE WarmCheck(t)
  <2>1. [loc[t] EXCEPT !.ret = "AsyncCheck"] \in Local
    BY LocalExcept DEF Labels
  <2> QED
    BY <1>6, <2>1, GotoType, ProceedType DEF WarmCheck, Labels
<1>7. CASE ReqState(t) \/ ReqContains(t)
  BY <1>7, ProceedType DEF ReqState, ReqContains, Labels
<1>8. CASE SpawnFails(t)
  BY <1>8, ProceedType DEF SpawnFails, Labels
<1>9. CASE ScheduleGen(t)
  <2>1. [loc[t] EXCEPT !.gen["design"] = CurrentGeneration(n)] \in Local
    BY LocalExcept, ReadFacts
  <2> QED
    BY <1>9, <2>1, GotoType DEF ScheduleGen, Labels
<1>10. CASE SerDesign(t)
  <2>1. cache["design"][n] \in Object
    BY ReadFacts
  <2>2. [loc[t] EXCEPT !.val = cache["design"][n]] \in Local
    BY <2>1, LocalExcept
  <2> QED
    BY <1>10, <2>2, GotoType DEF SerDesign, Labels
<1>11. CASE SerGen(t)
  <2>1. [loc[t] EXCEPT !.gen["design"] = CurrentGeneration(n)] \in Local
    BY LocalExcept, ReadFacts
  <2> QED
    BY <1>11, <2>1, GotoType DEF SerGen, Labels
<1>12. CASE SerEpoch(t)
  <2>1. [loc[t] EXCEPT !.ep["design"] = epoch] \in Local
    BY LocalExcept, ReadFacts
  <2> QED
    BY <1>12, <2>1, GotoType DEF SerEpoch, Labels
<1>13. CASE BuildPayload(t)
  BY <1>13, ProceedType, LocalFacts DEF BuildPayload, Labels
<1>14. CASE CommitIdentity(t)
  BY <1>14, ProceedType, LocalFacts DEF CommitIdentity, Labels
<1> QED
  BY <1>4, <1>5, <1>6, <1>7, <1>8, <1>9, <1>10, <1>11, <1>12, <1>13, <1>14 DEF ReadingOther

-----------------------------------------------------------------------------
(* Sections that change one component.                                     *)

\* Sections of m_loadStateMutex after which the thread goes on with its locals.
LoadSection(t) ==
    \/ Announce(t) \/ AnnounceLoaded(t) \/ AnnounceFailed(t) \/ EraseState(t) \/ InvState(t)
    \/ ClearLoadStates(t) \/ AsyncCheck(t) \/ AsyncUnmark(t) \/ UnmarkLoaded(t)

LEMMA LoadSectionType ==
    ASSUME TypeInv, NEW t \in Threads, LoadSection(t)
    PROVE  TypeInv'
<1>0. DataInv /\ ThreadTypeOK /\ loc[t] \in Local /\ LoadTypeOK
  BY LocalFacts DEF TypeInv, DataInv, DataTypeOK
<1>1. Name(t) \in Names /\ Kind(t) \in Kinds /\ loc[t].ret \in Labels
  BY <1>0, LocalFacts
<1>2. UNCHANGED allButLoad
  BY DEF LoadSection, Announce, AnnounceLoaded, AnnounceFailed, EraseState, InvState,
         ClearLoadStates, AsyncCheck, AsyncUnmark, UnmarkLoaded
<1>3. LoadTypeOK'
  <2>1. \/ UNCHANGED loadVars \/ \E st \in LoadState : TransitionLoadState(Name(t), st)
        \/ EraseLoadState(Name(t)) \/ ClearStates \/ MarkPending(Name(t))
        \/ UnmarkPending(Name(t))
    BY DEF LoadSection, Announce, AnnounceLoaded, AnnounceFailed, EraseState, InvState,
           ClearLoadStates, AsyncCheck, AsyncUnmark, UnmarkLoaded, LoadState
  <2>2. CASE UNCHANGED loadVars
    BY <1>0, <2>2 DEF LoadTypeOK, loadVars
  <2> QED
    BY <1>0, <1>1, <2>1, <2>2, LoadSections
<1>4. ThreadTypeOK'
  BY <1>0, <1>1, ProceedType DEF LoadSection, Announce, AnnounceLoaded, AnnounceFailed,
     EraseState, InvState, ClearLoadStates, AsyncCheck, AsyncUnmark, UnmarkLoaded, Labels
<1> QED
  BY <1>0, <1>2, <1>3, <1>4, LoadKept DEF TypeInv

\* The other sections of m_loadStateMutex.
FlightSection(t) ==
    Register(t) \/ Fulfil(t) \/ EraseFlight(t) \/ EvictState(t) \/ AddLoaded(t)

LEMMA FlightSectionType ==
    ASSUME TypeInv, NEW t \in Threads, FlightSection(t)
    PROVE  TypeInv'
<1>0. DataInv /\ ThreadTypeOK /\ loc[t] \in Local /\ LoadTypeOK
  BY LocalFacts DEF TypeInv, DataInv, DataTypeOK
<1> DEFINE n == Name(t)
           k == Kind(t)
<1>1. n \in Names /\ k \in Kinds /\ loc[t].val \in Object /\ loc[t].after \in Labels
  BY <1>0, LocalFacts
<1> USE <1>0, <1>1
<1>2. SUFFICES LoadTypeOK' /\ ThreadTypeOK'
  BY LoadKept DEF TypeInv, FlightSection, Register, Fulfil, EraseFlight, EvictState, AddLoaded
<1>3. CASE Register(t)
  <2>1. inFlight[k][n] \in Flight /\ epoch \in Nat
    BY ReadFacts
  <2>2. /\ [loc[t] EXCEPT !.wait = inFlight[k][n]] \in Local
        /\ [loc[t] EXCEPT !.ep[k] = epoch] \in Local
    BY <2>1, LocalExcept
  <2>3. ThreadTypeOK'
    BY <1>3, <2>2, GotoType DEF Register, Labels
  <2>4. LoadTypeOK'
    <3>1. CASE UNCHANGED loadVars
      BY <3>1 DEF LoadTypeOK, loadVars
    <3>2. CASE RegisterInFlight(k, n, t)
      BY <3>2, LoadSections
    <3> QED
      BY <1>3, <3>1, <3>2 DEF Register
  <2> QED
    BY <2>3, <2>4
<1>4. CASE Fulfil(t)
  <2> DEFINE threw == loc[t].outcome \in {"threw", "guard"}
             status == IF threw THEN "exception" ELSE "value"
             result == IF threw THEN Nil ELSE loc[t].val
             next == CASE loc[t].outcome = "threw" /\ UpdateState(t) -> "CheckFailed"
                       [] loc[t].outcome = "null" /\ UpdateState(t) -> "EraseState"
                       [] OTHER -> "EraseFlight"
  <2>1. status \in {"value", "exception"} /\ status \in PromiseStatus /\ result \in Object
    BY NilType DEF PromiseStatus
  <2>2. /\ FulfilPromise(k, n, status, result)
        /\ pc' = [pc EXCEPT ![t] = next]
        /\ loc' = [u \in Threads |->
                      IF u \in Joiners(t)
                      THEN [loc[u] EXCEPT !.wait.status = status, !.wait.val = result]
                      ELSE loc[u]]
    BY <1>4 DEF Fulfil
  <2>3. next \in Labels
    BY DEF Labels
  <2> HIDE DEF status, result, next
  <2>4. ASSUME NEW u \in Threads
        PROVE  [loc[u] EXCEPT !.wait.status = status, !.wait.val = result] \in Local
    <3> DEFINE w == loc[u].wait
               x == [w EXCEPT !.status = status, !.val = result]
    <3>1. loc[u] \in Local /\ w \in Flight
      BY LocalFacts
    <3>2. [loc[u] EXCEPT !.wait.status = status, !.wait.val = result]
             = [loc[u] EXCEPT !.wait = x]
      BY <3>1 DEF Local
    <3> HIDE DEF w
    <3>3. x \in Flight
      BY <2>1, <3>1 DEF Flight
    <3> HIDE DEF x
    <3> QED
      BY <3>1, <3>2, <3>3, LocalExcept
  <2>5. ThreadTypeOK'
    BY <2>2, <2>3, <2>4 DEF ThreadTypeOK
  <2>6. LoadTypeOK'
    BY <2>1, <2>2, LoadSections
  <2> QED
    BY <2>5, <2>6
<1>5. CASE EraseFlight(t)
  BY <1>5, LoadSections, ThrowType, ReturnType DEF EraseFlight
<1>6. CASE EvictState(t)
  <2> DEFINE rest == loc[t].victims \ {loc[t].victim}
             to == IF rest = {} THEN loc[t].after ELSE "EvictStore"
  <2>1. rest \in SUBSET Names /\ AnyName \in Names /\ to \in Labels /\ loc[t].victim \in Names
    BY LocalFacts, NamesAssumption DEF AnyName, Labels
  <2>2. [loc[t] EXCEPT !.victims = rest, !.victim = AnyName] \in Local
    BY <2>1, LocalExcept
  <2>3. ThreadTypeOK'
    <3>1. Goto(t, to, [loc[t] EXCEPT !.victims = rest, !.victim = AnyName])
      BY <1>6 DEF EvictState
    <3> HIDE DEF to, rest
    <3> QED
      BY <2>1, <2>2, <3>1, GotoType
  <2>4. LoadTypeOK'
    BY <1>6, <2>1, LoadSections DEF EvictState, LoadState
  <2> QED
    BY <2>3, <2>4
<1>7. CASE AddLoaded(t)
  <2> DEFINE l == [NoLocals EXCEPT !.name = n, !.kind = "archive", !.ret = "SaveModel"]
  <2>1. l \in Local
    <3>1. "SaveModel" \in Labels /\ "archive" \in Kinds
      BY DEF Labels, Kinds
    <3> QED
      BY <3>1, NoLocalsType, NewLocals
  <2>2. Goto(t, "Lookup", l) \/ Proceed(t, "Idle")
    BY <1>7 DEF AddLoaded
  <2> HIDE DEF l
  <2>3. ThreadTypeOK'
    BY <2>1, <2>2, GotoType, ProceedType DEF Labels
  <2>4. LoadTypeOK'
    BY <1>7, LoadSections DEF AddLoaded, LoadState
  <2> QED
    BY <2>3, <2>4
<1> QED
  BY <1>3, <1>4, <1>5, <1>6, <1>7 DEF FlightSection

\* The sections of m_lruMutex.
LruSection(t) ==
    \/ TouchHit(t) \/ TouchJoin(t) \/ Charge(t) \/ Resync(t) \/ AdjustLru(t)
    \/ ClearLru(t) \/ SetCacheMaxBytes(t)

LEMMA LruSectionType ==
    ASSUME TypeInv, NEW t \in Threads, LruSection(t)
    PROVE  TypeInv'
<1>0. DataInv /\ ThreadTypeOK /\ loc[t] \in Local /\ LruInv
  BY LocalFacts DEF TypeInv, DataInv
<1> DEFINE n == Name(t)
<1>1. /\ n \in Names /\ loc[t].val \in Object /\ loc[t].after \in Labels
      /\ loc[t].bytes \in U64 /\ loc[t].max \in U64 /\ StoredBytes(n) \in U64
  BY <1>0, LocalFacts DEF DataInv, PayloadsFit
<1> USE <1>0, <1>1
<1>2. SUFFICES LruInv' /\ ThreadTypeOK'
  BY LruKept DEF TypeInv, LruSection, TouchHit, TouchJoin, Charge, Resync, AdjustLru, ClearLru,
                 SetCacheMaxBytes
<1>3. CASE TouchHit(t) \/ TouchJoin(t)
  BY <1>3, TouchKeepsCount, ReturnType DEF TouchHit, TouchJoin
<1>4. CASE Charge(t)
  <2> DEFINE after == IF loc[t].after = "AddLoaded" THEN "AddLoaded" ELSE AfterInsert(t)
  <2>1. PICK V \in SUBSET Names :
           /\ ChargeEntry(n, loc[t].bytes, StoredBytes(n), LoadingNames, V)
           /\ EvictThen(t, V, after)
    BY <1>4 DEF Charge
  <2>2. after \in Labels
    BY DEF AfterInsert, Labels
  <2> HIDE DEF after
  <2> QED
    BY <2>1, <2>2, ChargeKeepsCount, EvictThenType
<1>5. CASE Resync(t)
  BY <1>5, ResyncKeepsCount, ProceedType DEF Resync, Labels
<1>6. CASE AdjustLru(t)
  <2> DEFINE a == IF loc[t].after = "Estimate" THEN "AddLoaded" ELSE "Idle"
  <2>1. [loc[t] EXCEPT !.after = a] \in Local
    <3>1. a \in Labels
      BY DEF Labels
    <3> QED
      BY <3>1, LocalExcept
  <2>2. /\ AdjustLruSerializedBytes(n, StoredBytes(n))
        /\ Goto(t, loc[t].after, [loc[t] EXCEPT !.after = a])
    BY <1>6 DEF AdjustLru, Local
  <2> HIDE DEF a
  <2> QED
    BY <2>1, <2>2, AdjustKeepsCount, GotoType
<1>7. CASE ClearLru(t)
  BY <1>7, ClearKeepsCount, ProceedType DEF ClearLru, Labels
<1>8. CASE SetCacheMaxBytes(t)
  BY <1>8, SetMaxKeepsCount, EvictThenType DEF SetCacheMaxBytes, Labels
<1> QED
  BY <1>3, <1>4, <1>5, <1>6, <1>7, <1>8 DEF LruSection

\* The sections of ResponseStore::m_mutex.
StoreSection(t) == EvictStore(t) \/ InvStore(t) \/ ClearStore(t)

LEMMA StoreSectionType ==
    ASSUME TypeInv, NEW t \in Threads, StoreSection(t)
    PROVE  TypeInv'
<1>0. /\ DataInv /\ ThreadTypeOK /\ loc[t] \in Local /\ StoreTypeOK /\ PayloadsFit
      /\ Name(t) \in Names /\ loc[t].victims \in SUBSET Names
  BY LocalFacts DEF TypeInv, DataInv, DataTypeOK
<1> USE <1>0
<1>1. SUFFICES StoreTypeOK' /\ PayloadsFit' /\ ThreadTypeOK'
  BY StoreKept DEF TypeInv, StoreSection, EvictStore, InvStore, ClearStore
<1>2. CASE EvictStore(t)
  <2>1. PICK v \in Names : /\ StoreInvalidate(v)
                           /\ Goto(t, "EvictMaps", [loc[t] EXCEPT !.victim = v])
    BY <1>2 DEF EvictStore
  <2>2. [loc[t] EXCEPT !.victim = v] \in Local
    BY LocalExcept
  <2> QED
    BY <2>1, <2>2, StoreSections, GotoType DEF Labels
<1>3. CASE InvStore(t) \/ ClearStore(t)
  BY <1>3, StoreSections, ProceedType DEF InvStore, ClearStore, Labels
<1> QED
  BY <1>2, <1>3 DEF StoreSection

\* CommitResponsePayloads under m_lruMutex.
LEMMA CommitStoreType ==
    ASSUME TypeInv, NEW t \in Threads, CommitStore(t)
    PROVE  TypeInv'
<1> DEFINE n == Name(t)
           g == loc[t].gen["design"]
           payload == [bytes |-> PayloadBytes, ver |-> loc[t].val.ver]
           charge == IF TryStoreSucceeds(n, g) THEN TryStoreBytes(n, payload)
                                               ELSE serialized[n]
<1>0. /\ DataInv /\ ThreadTypeOK /\ LruInv /\ StoreTypeOK /\ PayloadsFit
      /\ n \in Names /\ loc[t].ret \in Labels /\ loc[t].val \in Object /\ g \in Nat
  BY LocalFacts DEF TypeInv, DataInv, DataTypeOK, Kinds
<1>1. UNCHANGED <<loadVars, slotVars, cacheVars, calls>>
  BY DEF CommitStore
<1>2. CASE UNCHANGED <<storeVars, lruVars>> /\ Proceed(t, loc[t].ret)
  <2>1. DataInv'
    BY <1>0, <1>1, <1>2, DataSame DEF shared
  <2> QED
    BY <1>0, <1>2, <2>1, ProceedType DEF TypeInv
<1>3. CASE /\ n \in charged
           /\ TryStore(n, g, payload)
           /\ \E V \in SUBSET Names : /\ ChargePayload(n, charge, LoadingNames, V)
                                      /\ EvictThen(t, V, loc[t].ret)
  <2>1. payload \in Payload /\ payload.bytes \in U64
    BY <1>0, CacheAssumption DEF Payload, Object, U64
  <2>2. charge \in U64
    BY <1>0, <2>1 DEF TryStoreBytes, PayloadsFit, LruInv, LruTypeOK
  <2> HIDE DEF payload, charge, g
  <2>3. StoreTypeOK' /\ PayloadsFit'
    BY <1>0, <1>3, <2>1, StoreSections
  <2>4. LruInv' /\ ThreadTypeOK'
    BY <1>0, <1>3, <2>2, PayloadKeepsCount, EvictThenType
  <2>5. DataTypeOK'
    BY <1>0, <1>1, <2>3 DEF DataInv, DataTypeOK, LoadTypeOK, loadVars, cacheVars
  <2> QED
    BY <2>3, <2>4, <2>5 DEF TypeInv, DataInv
<1> QED
  BY <1>2, <1>3 DEF CommitStore

\* The sections of m_cacheMutex and the moves of files.
CacheSection(t) ==
    \/ Insert(t) \/ EvictMaps(t) \/ AddMaps(t) \/ InvMaps(t) \/ SaveModel(t)
    \/ ClearMaps(t) \/ UploadMove(t)

LEMMA CacheSectionType ==
    ASSUME TypeInv, NEW t \in Threads, CacheSection(t)
    PROVE  TypeInv'
<1> DEFINE n == Name(t)
           k == Kind(t)
<1>0. /\ DataInv /\ ThreadTypeOK /\ loc[t] \in Local /\ n \in Names /\ k \in Kinds
      /\ loc[t].victim \in Names /\ loc[t].val \in Object
      /\ disk \in [Names -> Nat] /\ installed \in [Names -> Nat]
      /\ cache \in [Kinds -> [Names -> Object]] /\ "design" \in Kinds /\ "archive" \in Kinds
  BY LocalFacts DEF TypeInv, DataInv, DataTypeOK, Kinds
<1> USE <1>0, NilType
<1>1. SUFFICES /\ disk' \in [Names -> Nat] /\ installed' \in [Names -> Nat]
               /\ cache' \in [Kinds -> [Names -> Object]] /\ ThreadTypeOK'
  BY CacheKept DEF TypeInv, CacheSection, Insert, EvictMaps, AddMaps, InvMaps, SaveModel, ClearMaps, UploadMove
<1>2. CASE Insert(t)
  <2>0. cache[k][n] \in Object
    OBVIOUS
  <2>1. [loc[t] EXCEPT !.val = cache[k][n]] \in Local
    BY <2>0, LocalExcept
  <2>2. ThreadTypeOK'
    BY <1>2, <2>1, GotoType, ProceedType DEF Insert, Labels
  <2> QED
    BY <1>2, <2>2 DEF Insert
<1>3. CASE EvictMaps(t)
  BY <1>3, ProceedType DEF EvictMaps, Labels
<1>4. CASE AddMaps(t)
  <2> DEFINE v == installed[n] + 1
             o == [id |-> 0, ver |-> v]
  <2>1. v \in Nat /\ o \in Object
    BY DEF Object
  <2>2. [loc[t] EXCEPT !.after = "Estimate"] \in Local
    BY LocalExcept DEF Labels
  <2>3. ThreadTypeOK'
    BY <1>4, <2>2, GotoType DEF AddMaps, Labels
  <2>4. /\ installed' = [installed EXCEPT ![n] = v] /\ disk' = disk
        /\ cache' = [cache EXCEPT !["archive"][n] = o, !["design"][n] = Nil]
    BY <1>4 DEF AddMaps
  <2> HIDE DEF o, v
  <2> QED
    BY <2>1, <2>3, <2>4
<1>5. CASE InvMaps(t)
  <2>1. [loc[t] EXCEPT !.after = "InvState"] \in Local
    BY LocalExcept DEF Labels
  <2>2. ThreadTypeOK'
    BY <1>5, <2>1, GotoType DEF InvMaps, Labels
  <2> QED
    BY <1>5, <2>2 DEF InvMaps
<1>6. CASE SaveModel(t)
  <2>1. loc[t].val.ver \in Nat
    BY DEF Object
  <2> QED
    BY <1>6, <2>1, ProceedType DEF SaveModel, Labels
<1>7. CASE ClearMaps(t)
  BY <1>7, ProceedType DEF ClearMaps, Labels
<1>8. CASE UploadMove(t)
  BY <1>8, ProceedType DEF UploadMove, Labels
<1> QED
  BY <1>2, <1>3, <1>4, <1>5, <1>6, <1>7, <1>8 DEF CacheSection

\* The sections of m_backgroundMutex.
SlotSection(t) ==
    \/ AsyncCount(t) \/ AsyncUncount(t) \/ Acquire(t) \/ Release(t) \/ Uncount(t)
    \/ ScheduleCount(t) \/ ScheduleUncount(t)

LEMMA SlotSectionType ==
    ASSUME TypeInv, NEW t \in Threads, SlotSection(t)
    PROVE  TypeInv'
<1>1. DataInv /\ ThreadTypeOK
  BY DEF TypeInv
<1>2. UNCHANGED allButSlots /\ \E to \in Labels : Proceed(t, to)
  BY DEF SlotSection, AsyncCount, AsyncUncount, Acquire, Release, Uncount, ScheduleCount,
         ScheduleUncount, Labels
<1> QED
  BY <1>1, <1>2, SlotsKept, ProceedType DEF TypeInv

\* A detached thread starts.
Spawns(t, w) == AsyncSpawn(t, w) \/ ScheduleSpawn(t, w)

LEMMA SpawnType ==
    ASSUME TypeInv, NEW t \in Threads, NEW w \in Workers, Spawns(t, w)
    PROVE  TypeInv'
<1>0. /\ DataInv /\ ThreadTypeOK /\ Name(t) \in Names /\ loc[t].val \in Object
      /\ loc[t].gen["design"] \in Nat /\ loc[t].ep["design"] \in Nat /\ "ReleaseSlot" \in Labels
  BY LocalFacts DEF TypeInv, Kinds, Labels
<1>1. w \in Threads
  BY CacheAssumption
<1> DEFINE la == [NoLocals EXCEPT !.name = Name(t), !.job = "load", !.ret = "ReleaseSlot"]
           ls == [NoLocals EXCEPT !.name = Name(t), !.job = "serialize",
                                  !.val = loc[t].val, !.ret = "ReleaseSlot",
                                  !.gen["design"] = loc[t].gen["design"],
                                  !.ep["design"] = loc[t].ep["design"]]
<1>2. la \in Local /\ ls \in Local
  BY <1>0, NoLocalsType, NewLocals
<1>3. \E to \in {"Idle", "AnnounceLoaded"}, l \in Local : Spawn(t, to, w, l)
  <2>1. Spawn(t, "Idle", w, la) \/ Spawn(t, "AnnounceLoaded", w, ls)
    BY DEF Spawns, AsyncSpawn, ScheduleSpawn
  <2> HIDE DEF la, ls
  <2> QED
    BY <1>2, <2>1
<1>4. ThreadTypeOK'
  BY <1>0, <1>1, <1>3, NoLocalsType DEF Spawn, ThreadTypeOK, Labels
<1> QED
  BY <1>0, <1>3, <1>4, DataSame DEF TypeInv, Spawn

\* A client issues a request.
LEMMA CallType ==
    ASSUME TypeInv, NEW t \in Threads, Call(t)
    PROVE  TypeInv'
<1>0. DataInv /\ ThreadTypeOK /\ calls \in [Clients -> Nat] /\ t \in Clients
  BY DEF TypeInv, DataInv, DataTypeOK, Call
<1>1. PICK r \in Request :
         Goto(t, EntryLabel(r.op),
              [NoLocals EXCEPT !.name = r.name, !.max = r.max,
                               !.kind = IF r.op = "GetFileArchive" THEN "archive"
                                                                   ELSE "design",
                               !.save = r.op = "SaveNewArchive"])
  <2>1. Script[t] \in Seq(SUBSET Request) /\ calls[t] \in Nat /\ calls[t] < Len(Script[t])
    BY <1>0, CacheAssumption DEF Call
  <2>2. Script[t][calls[t] + 1] \in SUBSET Request
    BY <2>1
  <2> QED
    BY <2>2 DEF Call
<1> DEFINE k == IF r.op = "GetFileArchive" THEN "archive" ELSE "design"
           b == r.op = "SaveNewArchive"
           l == [NoLocals EXCEPT !.name = r.name, !.max = r.max, !.kind = k, !.save = b]
<1>2. r.name \in Names /\ r.max \in U64 /\ k \in Kinds /\ b \in BOOLEAN
  BY DEF Request, Kinds
<1>3. l \in Local
  <2>1. "Idle" \in Labels
    BY DEF Labels
  <2> QED
    BY <1>2, <2>1, NoLocalsType, NewLocals
<1>4. EntryLabel(r.op) \in Labels
  <2>1. r.op \in Ops
    BY DEF Request
  <2> QED
    BY <2>1 DEF EntryLabel, Ops, Labels
<1>5. ThreadTypeOK'
  <2>1. Goto(t, EntryLabel(r.op), l)
    BY <1>1
  <2> HIDE DEF l
  <2> QED
    BY <1>0, <1>3, <1>4, <2>1, GotoType
<1>6. DataInv'
  BY <1>0 DEF Call, DataInv, DataTypeOK, LoadTypeOK, StoreTypeOK, PayloadsFit, StoredBytes,
     LruInv, LruTypeOK, NoEntryNoCharge, CountExact, loadVars, lruVars, storeVars, cacheVars
<1> QED
  BY <1>5, <1>6 DEF TypeInv

\* Every step is one of these.
Section(t) ==
    \/ ReadingFlight(t) \/ ReadingOther(t) \/ LoadSection(t) \/ FlightSection(t)
    \/ LruSection(t) \/ StoreSection(t) \/ CommitStore(t) \/ CacheSection(t)
    \/ SlotSection(t) \/ (\E w \in Workers : Spawns(t, w)) \/ Call(t)

LEMMA StepCases ==
    ASSUME [Next]_vars
    PROVE  UNCHANGED vars \/ \E t \in Threads : Section(t)
<1>1. ASSUME NEW t \in Threads, SingleFlightStep(t) \/ LruStep(t)
      PROVE  Section(t)
  BY <1>1 DEF Section, SingleFlightStep, LruStep, ReadingFlight, ReadingOther, LoadSection,
              FlightSection, LruSection, StoreSection, CacheSection
<1>2. ASSUME NEW t \in Threads, InvalidateStep(t) \/ SerializeStep(t)
      PROVE  Section(t)
  BY <1>2 DEF Section, InvalidateStep, SerializeStep, ReadingOther, LoadSection,
              FlightSection, LruSection, StoreSection, CacheSection, SlotSection
<1>3. ASSUME NEW t \in Threads, BackgroundStep(t)
      PROVE  Section(t)
  BY <1>3 DEF Section, BackgroundStep, ReadingOther, LoadSection, CacheSection, SlotSection,
              Spawns
<1>4. ASSUME NEW t \in Threads, Call(t)
      PROVE  Section(t)
  BY <1>4 DEF Section
<1> QED
  BY <1>1, <1>2, <1>3, <1>4 DEF Next, ThreadStep, Finished

\* Every step keeps the types and the byte count.
LEMMA TypeStep ==
    ASSUME TypeInv, [Next]_vars
    PROVE  TypeInv'
<1>1. CASE UNCHANGED vars
  <2>1. DataInv'
    BY <1>1, DataSame DEF vars, shared, TypeInv
  <2> QED
    BY <1>1, <2>1 DEF vars, threadVars, ThreadTypeOK, TypeInv
<1> QED
  BY <1>1, StepCases, ReadingFlightType, ReadingOtherType, LoadSectionType, FlightSectionType,
     LruSectionType, StoreSectionType, CommitStoreType, CacheSectionType, SlotSectionType,
     SpawnType, CallType DEF Section

LEMMA TypeInitial ==
    ASSUME Init
    PROVE  TypeInv
<1>1. LruInv
  BY EmptyCount, CacheAssumption DEF Init
<1>2. DataTypeOK /\ PayloadsFit
  <2>1. LoadTypeOK
    BY NilType DEF Init, LoadInit, LoadTypeOK, LoadState
  <2>2. StoreTypeOK /\ PayloadsFit
    BY NilType, ZeroIsU64 DEF Init, StoreInit, StoreTypeOK, PayloadsFit, StoredBytes,
                              NoPayload
  <2>3. InitialDisk \in [Names -> Nat]
    BY CacheAssumption
  <2>4. /\ disk \in [Names -> Nat] /\ installed \in [Names -> Nat]
        /\ cache \in [Kinds -> [Names -> Object]] /\ calls \in [Clients -> Nat]
    BY <2>3, NilType DEF Init
  <2> QED
    BY <2>1, <2>2, <2>4 DEF DataTypeOK
<1>3. ThreadTypeOK
  BY NoLocalsType DEF Init, ThreadTypeOK, Labels
<1> QED
  BY <1>1, <1>2, <1>3 DEF TypeInv, DataInv

\* The invariant behind the next theorem and the type invariant: after any section of
\* any operation, the data and the threads' locals have their types, a stored payload is
\* counted in the counter's width, and the LRU entries agree with m_cachedBytes.
THEOREM TypesAndCount == Spec => []TypeInv
<1>1. Init => TypeInv
  BY TypeInitial
<1>2. TypeInv /\ [Next]_vars => TypeInv'
  BY TypeStep
<1> QED
  BY <1>1, <1>2, PTL DEF Spec

\* For any number of names, threads and calls, any budget and any width of the byte
\* counter: m_cachedBytes is the sum, modulo that width, of what the entries charge,
\* after any interleaving of loads, commits, invalidations, re-estimations, evictions
\* and Clear().
THEOREM CountIsExact == Spec => []CachedBytesExact
<1>1. TypeInv => CachedBytesExact
  BY DEF TypeInv, DataInv, LruInv, CountExact, CachedBytesExact
<1> QED
  BY <1>1, TypesAndCount, PTL
=============================================================================
