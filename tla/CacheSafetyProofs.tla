-------------------------- MODULE CacheSafetyProofs --------------------------
(***************************************************************************)
(* Theorems about DesignCache that hold for every script of calls, with    *)
(* evictions, Clear() and every failure: a pending marker has a thread     *)
(* that drops it, the background counters are exact and used as            *)
(* BackgroundSlots promises, every variable keeps its type, and stored     *)
(* payloads are always charged.                                            *)
(*                                                                         *)
(* BaseInv joins the control invariant and the types of DesignCacheProofs. *)
(* Moves, Gets and GetsAt say what a section does to its thread; Frame     *)
(* says which variables a section leaves alone, by its label; so that a    *)
(* proof about one variable looks only at the labels that write it.        *)
(***************************************************************************)
EXTENDS DesignCacheProofs

-----------------------------------------------------------------------------
(* What a section does to its thread.                                      *)

\* Thread t alone moves: it goes on at `to` and keeps its locals but those in S; a
\* finished call drops them.
Moves(t, to, S) ==
    /\ pc'[t] = to
    /\ IF to = "Idle" THEN loc'[t] = NoLocals
                      ELSE \A f \in Fields \ S : loc'[t][f] = loc[t][f]
    /\ \A u \in Threads \ {t} : pc'[u] = pc[u] /\ loc'[u] = loc[u]

\* The local f of t is x when t is not finished.
Gets(t, f, x) == pc'[t] # "Idle" => loc'[t][f] = x

\* Of the local f only the component k changes.
GetsAt(t, f, k, x) == pc'[t] # "Idle" => loc'[t][f] = [loc[t][f] EXCEPT ![k] = x]

LEMMA GotoAt ==
    ASSUME ThreadTypeOK, NEW t \in Threads, NEW to, NEW l, Goto(t, to, l)
    PROVE  /\ pc'[t] = to
           /\ loc'[t] = IF to = "Idle" THEN NoLocals ELSE l
           /\ \A u \in Threads \ {t} : pc'[u] = pc[u] /\ loc'[u] = loc[u]
  BY DEF ThreadTypeOK, Goto

LEMMA LocalDomain ==
    ASSUME ThreadTypeOK, NEW t \in Threads
    PROVE  DOMAIN loc[t] = Fields
  BY DEF ThreadTypeOK, Local, Fields

LEMMA ProceedMoves ==
    ASSUME ThreadTypeOK, NEW t \in Threads, NEW to, Proceed(t, to)
    PROVE  Moves(t, to, {})
  BY GotoAt DEF Proceed, Moves

\* One lemma for each way a section changes the locals.
LEMMA GotoVal ==
    ASSUME ThreadTypeOK, NEW t \in Threads, NEW to, NEW x,
           Goto(t, to, [loc[t] EXCEPT !.val = x])
    PROVE  Moves(t, to, {"val"}) /\ Gets(t, "val", x)
  BY GotoAt, LocalDomain DEF Moves, Gets, Fields

LEMMA GotoWait ==
    ASSUME ThreadTypeOK, NEW t \in Threads, NEW to, NEW x,
           Goto(t, to, [loc[t] EXCEPT !.wait = x])
    PROVE  Moves(t, to, {"wait"}) /\ Gets(t, "wait", x)
  BY GotoAt, LocalDomain DEF Moves, Gets, Fields

LEMMA GotoStale ==
    ASSUME ThreadTypeOK, NEW t \in Threads, NEW to, NEW x,
           Goto(t, to, [loc[t] EXCEPT !.stale = x])
    PROVE  Moves(t, to, {"stale"}) /\ Gets(t, "stale", x)
  BY GotoAt, LocalDomain DEF Moves, Gets, Fields

LEMMA GotoBytes ==
    ASSUME ThreadTypeOK, NEW t \in Threads, NEW to, NEW x,
           Goto(t, to, [loc[t] EXCEPT !.bytes = x])
    PROVE  Moves(t, to, {"bytes"}) /\ Gets(t, "bytes", x)
  BY GotoAt, LocalDomain DEF Moves, Gets, Fields

LEMMA GotoVictim ==
    ASSUME ThreadTypeOK, NEW t \in Threads, NEW to, NEW x,
           Goto(t, to, [loc[t] EXCEPT !.victim = x])
    PROVE  Moves(t, to, {"victim"}) /\ Gets(t, "victim", x)
  BY GotoAt, LocalDomain DEF Moves, Gets, Fields

LEMMA GotoAfter ==
    ASSUME ThreadTypeOK, NEW t \in Threads, NEW to, NEW x,
           Goto(t, to, [loc[t] EXCEPT !.after = x])
    PROVE  Moves(t, to, {"after"}) /\ Gets(t, "after", x)
  BY GotoAt, LocalDomain DEF Moves, Gets, Fields

LEMMA GotoRet ==
    ASSUME ThreadTypeOK, NEW t \in Threads, NEW to, NEW x,
           Goto(t, to, [loc[t] EXCEPT !.ret = x])
    PROVE  Moves(t, to, {"ret"}) /\ Gets(t, "ret", x)
  BY GotoAt, LocalDomain DEF Moves, Gets, Fields

LEMMA GotoGen ==
    ASSUME ThreadTypeOK, NEW t \in Threads, NEW to, NEW x, NEW k,
           Goto(t, to, [loc[t] EXCEPT !.gen[k] = x])
    PROVE  Moves(t, to, {"gen"}) /\ GetsAt(t, "gen", k, x)
  BY GotoAt, LocalDomain DEF Moves, GetsAt, Fields

LEMMA GotoEp ==
    ASSUME ThreadTypeOK, NEW t \in Threads, NEW to, NEW x, NEW k,
           Goto(t, to, [loc[t] EXCEPT !.ep[k] = x])
    PROVE  Moves(t, to, {"ep"}) /\ GetsAt(t, "ep", k, x)
  BY GotoAt, LocalDomain DEF Moves, GetsAt, Fields

LEMMA GotoValId ==
    ASSUME ThreadTypeOK, NEW t \in Threads, NEW to, NEW x,
           Goto(t, to, [loc[t] EXCEPT !.val.id = x])
    PROVE  Moves(t, to, {"val"}) /\ GetsAt(t, "val", "id", x)
  BY GotoAt, LocalDomain DEF Moves, GetsAt, Fields

LEMMA GotoOutcome ==
    ASSUME ThreadTypeOK, NEW t \in Threads, NEW to, NEW x, NEW y,
           Goto(t, to, [loc[t] EXCEPT !.outcome = x, !.val = y])
    PROVE  Moves(t, to, {"outcome", "val"}) /\ Gets(t, "outcome", x) /\ Gets(t, "val", y)
<1> DEFINE l == [loc[t] EXCEPT !.outcome = x, !.val = y]
<1>1. l.outcome = x /\ l.val = y /\ \A f \in Fields \ {"outcome", "val"} : l[f] = loc[t][f]
  BY LocalDomain DEF Fields
<1>2. Goto(t, to, l)
  OBVIOUS
<1> HIDE DEF l
<1> QED
  BY <1>1, <1>2, GotoAt DEF Moves, Gets

LEMMA GotoChecked ==
    ASSUME ThreadTypeOK, NEW t \in Threads, NEW to, NEW x, NEW y,
           Goto(t, to, [loc[t] EXCEPT !.stale = x, !.outcome = y])
    PROVE  Moves(t, to, {"stale", "outcome"}) /\ Gets(t, "stale", x) /\ Gets(t, "outcome", y)
<1> DEFINE l == [loc[t] EXCEPT !.stale = x, !.outcome = y]
<1>1. l.stale = x /\ l.outcome = y /\ \A f \in Fields \ {"stale", "outcome"} : l[f] = loc[t][f]
  BY LocalDomain DEF Fields
<1>2. Goto(t, to, l)
  OBVIOUS
<1> HIDE DEF l
<1> QED
  BY <1>1, <1>2, GotoAt DEF Moves, Gets

LEMMA GotoVictims ==
    ASSUME ThreadTypeOK, NEW t \in Threads, NEW to, NEW x, NEW y,
           Goto(t, to, [loc[t] EXCEPT !.victims = x, !.after = y])
    PROVE  Moves(t, to, {"victims", "after"}) /\ Gets(t, "victims", x) /\ Gets(t, "after", y)
<1> DEFINE l == [loc[t] EXCEPT !.victims = x, !.after = y]
<1>1. l.victims = x /\ l.after = y /\ \A f \in Fields \ {"victims", "after"} : l[f] = loc[t][f]
  BY LocalDomain DEF Fields
<1>2. Goto(t, to, l)
  OBVIOUS
<1> HIDE DEF l
<1> QED
  BY <1>1, <1>2, GotoAt DEF Moves, Gets

LEMMA GotoRest ==
    ASSUME ThreadTypeOK, NEW t \in Threads, NEW to, NEW x, NEW y,
           Goto(t, to, [loc[t] EXCEPT !.victims = x, !.victim = y])
    PROVE  Moves(t, to, {"victims", "victim"}) /\ Gets(t, "victims", x) /\ Gets(t, "victim", y)
<1> DEFINE l == [loc[t] EXCEPT !.victims = x, !.victim = y]
<1>1. /\ l.victims = x /\ l.victim = y
      /\ \A f \in Fields \ {"victims", "victim"} : l[f] = loc[t][f]
  BY LocalDomain DEF Fields
<1>2. Goto(t, to, l)
  OBVIOUS
<1> HIDE DEF l
<1> QED
  BY <1>1, <1>2, GotoAt DEF Moves, Gets

LEMMA GotoNested ==
    ASSUME ThreadTypeOK, NEW t \in Threads, NEW to, NEW x, NEW y,
           Goto(t, to, [loc[t] EXCEPT !.kind = x, !.nested = y])
    PROVE  Moves(t, to, {"kind", "nested"}) /\ Gets(t, "kind", x) /\ Gets(t, "nested", y)
<1> DEFINE l == [loc[t] EXCEPT !.kind = x, !.nested = y]
<1>1. l.kind = x /\ l.nested = y /\ \A f \in Fields \ {"kind", "nested"} : l[f] = loc[t][f]
  BY LocalDomain DEF Fields
<1>2. Goto(t, to, l)
  OBVIOUS
<1> HIDE DEF l
<1> QED
  BY <1>1, <1>2, GotoAt DEF Moves, Gets

LEMMA GotoUnnested ==
    ASSUME ThreadTypeOK, NEW t \in Threads, NEW to, NEW x, NEW y,
           Goto(t, to, [loc[t] EXCEPT !.kind = "design", !.nested = FALSE, !.val = x,
                                      !.outcome = y])
    PROVE  /\ Moves(t, to, {"kind", "nested", "val", "outcome"})
           /\ Gets(t, "kind", "design") /\ Gets(t, "nested", FALSE)
           /\ Gets(t, "val", x) /\ Gets(t, "outcome", y)
<1> DEFINE l == [loc[t] EXCEPT !.kind = "design", !.nested = FALSE, !.val = x,
                               !.outcome = y]
           S == {"kind", "nested", "val", "outcome"}
<1>1. /\ l.kind = "design" /\ l.nested = FALSE /\ l.val = x /\ l.outcome = y
      /\ \A f \in Fields \ S : l[f] = loc[t][f]
  BY LocalDomain DEF Fields
<1>2. Goto(t, to, l)
  OBVIOUS
<1> HIDE DEF l
<1> QED
  BY <1>1, <1>2, GotoAt DEF Moves, Gets

\* The innermost activation ends: LoadDesign goes on, or the call does.
Unnests(t, to, v, o) ==
    /\ loc[t].nested
    /\ Moves(t, to, {"kind", "nested", "val", "outcome"})
    /\ Gets(t, "kind", "design") /\ Gets(t, "nested", FALSE)
    /\ Gets(t, "val", v) /\ Gets(t, "outcome", o)

Returns(t, v) ==
    \/ v = Nil /\ Unnests(t, "Fulfil", v, "null")
    \/ v # Nil /\ Unnests(t, "Build", v, "value")
    \/ ~loc[t].nested /\ Moves(t, loc[t].ret, {"val"}) /\ Gets(t, "val", v)

Throws(t) ==
    \/ Unnests(t, "Fulfil", Nil, "threw")
    \/ ~loc[t].nested /\ Moves(t, IF t \in Workers THEN "ReleaseSlot" ELSE "Idle", {})

LEMMA ReturnMoves ==
    ASSUME ThreadTypeOK, NEW t \in Threads, NEW v, Return(t, v)
    PROVE  Returns(t, v)
<1>1. CASE loc[t].nested /\ v = Nil
  <2>1. Goto(t, "Fulfil", [loc[t] EXCEPT !.kind = "design", !.nested = FALSE, !.val = v,
                                         !.outcome = "null"])
    BY <1>1, Zenon DEF Return
  <2> QED
    BY <1>1, <2>1, GotoUnnested, Zenon DEF Returns, Unnests
<1>2. CASE loc[t].nested /\ v # Nil
  <2>1. Goto(t, "Build", [loc[t] EXCEPT !.kind = "design", !.nested = FALSE, !.val = v,
                                        !.outcome = "value"])
    BY <1>2, Zenon DEF Return
  <2> QED
    BY <1>2, <2>1, GotoUnnested, Zenon DEF Returns, Unnests
<1>3. CASE ~loc[t].nested
  BY <1>3, GotoVal, Zenon DEF Return, Returns
<1> QED
  BY <1>1, <1>2, <1>3

LEMMA ThrowMoves ==
    ASSUME ThreadTypeOK, NEW t \in Threads, Throw(t)
    PROVE  Throws(t)
  BY GotoUnnested, ProceedMoves, Zenon DEF Throw, Throws, Unnests

\* EvictCacheEntries is called, or there is nothing to evict.
Evicts(t, V, after) ==
    /\ Moves(t, IF V = {} THEN after ELSE "EvictStore", {"victims", "after"})
    /\ Gets(t, "victims", V) /\ Gets(t, "after", after)

LEMMA EvictMoves ==
    ASSUME ThreadTypeOK, NEW t \in Threads, NEW V, NEW after, EvictThen(t, V, after)
    PROVE  Evicts(t, V, after)
  BY GotoVictims, Zenon DEF EvictThen, Evicts

\* The load of t ends with outcome o and no object.
Ends(t, o) == /\ Moves(t, "Fulfil", {"outcome", "val"})
              /\ Gets(t, "outcome", o) /\ Gets(t, "val", Nil)

\* GetOrLoadSingleFlight up to the registration or the join.
LEMMA LookupMoves ==
    ASSUME ThreadTypeOK, NEW t \in Threads
    PROVE  /\ Lookup(t) =>
              /\ pc[t] = "Lookup"
              /\ \/ /\ Moves(t, "TouchHit", {"val"}) /\ cache[Kind(t)][Name(t)] # Nil
                    /\ Gets(t, "val", cache[Kind(t)][Name(t)])
                 \/ Moves(t, "CaptureGen", {})
           /\ TouchHit(t) => pc[t] = "TouchHit" /\ Returns(t, loc[t].val)
           /\ CaptureGen(t) =>
              /\ pc[t] = "CaptureGen" /\ Moves(t, "Register", {"gen"})
              /\ GetsAt(t, "gen", Kind(t), CurrentGeneration(Name(t)))
           /\ Join(t) =>
              /\ pc[t] = "Join"
              /\ \/ Throws(t)
                 \/ Moves(t, "TouchJoin", {"val"}) /\ Gets(t, "val", loc[t].wait.val)
           /\ TouchJoin(t) => pc[t] = "TouchJoin" /\ Returns(t, loc[t].val)
  BY GotoVal, GotoGen, ProceedMoves, ReturnMoves, ThrowMoves, Zenon
     DEF Lookup, TouchHit, CaptureGen, Join, TouchJoin

\* The registration.
LEMMA RegisterMoves ==
    ASSUME ThreadTypeOK, NEW t \in Threads
    PROVE  /\ Register(t) =>
              /\ pc[t] = "Register"
              /\ \/ /\ IsInFlight(Kind(t), Name(t)) /\ Moves(t, "Join", {"wait"})
                    /\ Gets(t, "wait", inFlight[Kind(t)][Name(t)]) /\ UNCHANGED loadVars
                 \/ /\ RegisterInFlight(Kind(t), Name(t), t)
                    /\ Moves(t, IF UpdateState(t) THEN "Announce" ELSE "Load", {"ep"})
                    /\ GetsAt(t, "ep", Kind(t), epoch)
           /\ Announce(t) => pc[t] = "Announce" /\ Moves(t, "Load", {})
           /\ LoaderExits(t) =>
              /\ pc[t] \in {"Announce", "Insert"} /\ "alloc" \in Faults
              /\ Ends(t, "guard")
  BY GotoWait, GotoEp, GotoOutcome, ProceedMoves, Zenon
     DEF Register, Announce, LoaderExits, Ends

\* The load itself.
LEMMA LoadMoves ==
    ASSUME ThreadTypeOK, NEW t \in Threads
    PROVE  /\ LoadDesign(t) =>
              /\ pc[t] = "Load" /\ Kind(t) = "design"
              /\ \/ Ends(t, "null")
                 \/ /\ Moves(t, "Lookup", {"kind", "nested"})
                    /\ Gets(t, "kind", "archive") /\ Gets(t, "nested", TRUE)
           /\ LoadFileArchive(t) =>
              /\ pc[t] = "Load" /\ Kind(t) = "archive"
              /\ \/ Ends(t, "null") \/ Ends(t, "threw")
                 \/ /\ Moves(t, "CheckGen", {"val"}) /\ disk[Name(t)] # 0
                    /\ Gets(t, "val", [id |-> 0, ver |-> disk[Name(t)]])
           /\ BuildDesign(t) =>
              /\ pc[t] = "Build"
              /\ \/ Ends(t, "null") \/ Ends(t, "threw")
                 \/ Moves(t, "CheckGen", {"val"}) /\ GetsAt(t, "val", "id", FreshId)
  BY GotoVal, GotoValId, GotoOutcome, GotoNested, Zenon
     DEF LoadDesign, Ends, LoadFileArchive, BuildDesign

\* The abandon checkpoint and the insert.
LEMMA CheckMoves ==
    ASSUME ThreadTypeOK, NEW t \in Threads
    PROVE  /\ CheckGen(t) =>
              /\ pc[t] = "CheckGen" /\ Moves(t, "CheckEpoch", {"stale"})
              /\ Gets(t, "stale", CurrentGeneration(Name(t)) # loc[t].gen[Kind(t)])
           /\ CheckEpoch(t) =>
              /\ pc[t] = "CheckEpoch" /\ Gets(t, "stale", FALSE)
              /\ \/ /\ WasClearedSince(loc[t].ep[Kind(t)]) \/ loc[t].stale
                    /\ Moves(t, "Fulfil", {"stale", "outcome"})
                    /\ Gets(t, "outcome", "abandoned")
                 \/ /\ ~loc[t].stale
                    /\ Moves(t, "Insert", {"stale", "outcome"})
                    /\ Gets(t, "outcome", "value")
           /\ Insert(t) =>
              /\ pc[t] = "Insert"
              /\ \/ /\ cache[Kind(t)][Name(t)] # Nil /\ cache' = cache
                    /\ Moves(t, "Estimate", {"val"})
                    /\ Gets(t, "val", cache[Kind(t)][Name(t)])
                 \/ /\ cache[Kind(t)][Name(t)] = Nil
                    /\ cache' = [cache EXCEPT ![Kind(t)][Name(t)] = loc[t].val]
                    /\ Moves(t, "Estimate", {})
  BY GotoVal, GotoStale, GotoChecked, ProceedMoves, Zenon
     DEF CheckGen, CheckEpoch, Insert

\* The end of a load.
LEMMA SettleMoves ==
    ASSUME ThreadTypeOK, NEW t \in Threads
    PROVE  /\ AnnounceLoaded(t) => pc[t] = "AnnounceLoaded" /\ Moves(t, "Fulfil", {})
           /\ CheckFailed(t) =>
              /\ pc[t] = "CheckFailed"
              /\ Moves(t, IF WasClearedSince(loc[t].ep[Kind(t)]) THEN "EraseFlight"
                                                                ELSE "AnnounceFailed", {})
           /\ AnnounceFailed(t) => pc[t] = "AnnounceFailed" /\ Moves(t, "EraseFlight", {})
           /\ EraseState(t) => pc[t] = "EraseState" /\ Moves(t, "EraseFlight", {})
           /\ EraseFlight(t) =>
              /\ pc[t] = "EraseFlight"
              /\ IF loc[t].outcome \in {"threw", "guard"} THEN Throws(t)
                                                         ELSE Returns(t, loc[t].val)
  BY ProceedMoves, ThrowMoves, ReturnMoves, Zenon
     DEF AnnounceLoaded, CheckFailed, AnnounceFailed, EraseState, EraseFlight

\* InsertLruAndEvict, ResyncLruEstimate and EvictCacheEntries.
LEMMA BudgetMoves ==
    ASSUME ThreadTypeOK, NEW t \in Threads
    PROVE  /\ Estimate(t) => pc[t] = "Estimate" /\ Moves(t, "Charge", {"bytes"})
           /\ Charge(t) =>
              /\ pc[t] = "Charge"
              /\ \E V \in SUBSET Names :
                    /\ ChargeEntry(Name(t), loc[t].bytes, StoredBytes(Name(t)), LoadingNames,
                                   V)
                    /\ Evicts(t, V, IF loc[t].after = "AddLoaded" THEN "AddLoaded"
                                                                 ELSE AfterInsert(t))
           /\ EvictStore(t) =>
              /\ pc[t] = "EvictStore"
              /\ \E v \in loc[t].victims : /\ StoreInvalidate(v) /\ Gets(t, "victim", v)
                                           /\ Moves(t, "EvictMaps", {"victim"})
           /\ EvictMaps(t) => pc[t] = "EvictMaps" /\ Moves(t, "EvictState", {})
           /\ EvictState(t) =>
              /\ pc[t] = "EvictState"
              /\ Moves(t, IF loc[t].victims \ {loc[t].victim} = {} THEN loc[t].after
                                                                  ELSE "EvictStore",
                       {"victims", "victim"})
              /\ Gets(t, "victims", loc[t].victims \ {loc[t].victim})
           /\ ResyncEstimate(t) => pc[t] = "ResyncEstimate" /\ Moves(t, "Resync", {"bytes"})
           /\ Resync(t) => pc[t] = "Resync" /\ Moves(t, "Idle", {})
           /\ SetCacheMaxBytes(t) =>
              /\ pc[t] = "SetMaxBytes"
              /\ \E V \in SUBSET Names : /\ SetMaxBytes(loc[t].max, LoadingNames, V)
                                         /\ Evicts(t, V, "Idle")
  BY GotoBytes, GotoVictim, GotoRest, ProceedMoves, EvictMoves, Zenon
     DEF Estimate, Charge, EvictStore, EvictMaps, EvictState, ResyncEstimate, Resync,
         SetCacheMaxBytes

\* AddFileArchive, InvalidateDesign and Clear.
LEMMA DropMoves ==
    ASSUME ThreadTypeOK, NEW t \in Threads
    PROVE  /\ AddMaps(t) =>
              /\ pc[t] = "AddMaps" /\ Moves(t, "InvStore", {"after"})
              /\ Gets(t, "after", "Estimate")
           /\ InvMaps(t) =>
              /\ pc[t] = "InvMaps" /\ Moves(t, "InvStore", {"after"})
              /\ Gets(t, "after", "InvState")
           /\ InvStore(t) => pc[t] = "InvStore" /\ Moves(t, "AdjustLru", {})
           /\ InvState(t) => pc[t] = "InvState" /\ Moves(t, loc[t].ret, {})
           /\ SaveModel(t) => pc[t] = "SaveModel" /\ Moves(t, "ResyncEstimate", {})
           /\ ClearMaps(t) => pc[t] = "ClearMaps" /\ Moves(t, "ClearLru", {})
           /\ ClearLru(t) => pc[t] = "ClearLru" /\ Moves(t, "ClearStore", {})
           /\ ClearStore(t) => pc[t] = "ClearStore" /\ Moves(t, "ClearStates", {})
           /\ ClearLoadStates(t) => pc[t] = "ClearStates" /\ Moves(t, "Idle", {})
  BY GotoAfter, ProceedMoves, Zenon
     DEF AddMaps, InvMaps, InvStore, InvState, SaveModel, ClearMaps, ClearLru,
         ClearStore, ClearLoadStates

\* LoadDesignAsync and the requests that end in it.
LEMMA AsyncMoves ==
    ASSUME ThreadTypeOK, NEW t \in Threads
    PROVE  /\ UploadMove(t) => pc[t] = "UploadMove" /\ Moves(t, "WarmCheck", {})
           /\ WarmCheck(t) =>
              /\ pc[t] = "WarmCheck"
              /\ \/ Moves(t, "InvMaps", {"ret"}) /\ Gets(t, "ret", "AsyncCheck")
                 \/ Moves(t, "AsyncCheck", {})
           /\ ReqState(t) =>
              /\ pc[t] = "ReqState"
              /\ \E to \in {"Idle", "ReqContains"} : Moves(t, to, {})
           /\ ReqContains(t) =>
              /\ pc[t] = "ReqContains"
              /\ \E to \in {"Idle", "AsyncCheck"} : Moves(t, to, {})
           /\ AsyncCheck(t) =>
              /\ pc[t] = "AsyncCheck"
              /\ \/ Moves(t, "Idle", {}) /\ UNCHANGED loadVars
                 \/ Moves(t, "AsyncCount", {}) /\ MarkPending(Name(t))
           /\ AsyncCount(t) => pc[t] = "AsyncCount" /\ Moves(t, "AsyncSpawn", {})
           /\ AsyncUncount(t) => pc[t] = "AsyncUncount" /\ Moves(t, "AsyncUnmark", {})
           /\ AsyncUnmark(t) => pc[t] = "AsyncUnmark" /\ Moves(t, "Idle", {})
           /\ SpawnFails(t) =>
              \/ pc[t] = "AsyncSpawn" /\ Moves(t, "AsyncUncount", {})
              \/ pc[t] = "ScheduleSpawn" /\ Moves(t, "ScheduleUncount", {})
  BY GotoRet, ProceedMoves, Zenon
     DEF UploadMove, WarmCheck, ReqState, ReqContains, AsyncCheck, AsyncCount,
         AsyncUncount, AsyncUnmark, SpawnFails

\* Background threads and pre-serialization.
LEMMA WorkerMoves ==
    ASSUME ThreadTypeOK, NEW t \in Threads
    PROVE  /\ Acquire(t) =>
              /\ pc[t] = "AcquireSlot"
              /\ Moves(t, IF loc[t].job = "load" THEN "Lookup" ELSE "BuildPayload", {})
           /\ Release(t) =>
              /\ pc[t] = "ReleaseSlot"
              /\ Moves(t, IF loc[t].job = "load" THEN "UnmarkPending" ELSE "Uncount", {})
           /\ UnmarkLoaded(t) => pc[t] = "UnmarkPending" /\ Moves(t, "Uncount", {})
           /\ Uncount(t) => pc[t] = "Uncount" /\ Moves(t, "Idle", {})
           /\ ScheduleGen(t) =>
              /\ pc[t] = "ScheduleGen" /\ Moves(t, "ScheduleCount", {"gen"})
              /\ GetsAt(t, "gen", "design", CurrentGeneration(Name(t)))
           /\ ScheduleCount(t) => pc[t] = "ScheduleCount" /\ Moves(t, "ScheduleSpawn", {})
           /\ ScheduleUncount(t) => pc[t] = "ScheduleUncount" /\ Moves(t, "AnnounceLoaded", {})
  BY GotoGen, ProceedMoves, Zenon
     DEF Acquire, Release, UnmarkLoaded, Uncount, ScheduleGen, ScheduleCount,
         ScheduleUncount

LEMMA SerializeMoves ==
    ASSUME ThreadTypeOK, NEW t \in Threads
    PROVE  /\ SerDesign(t) =>
              /\ pc[t] = "SerDesign" /\ Gets(t, "val", cache["design"][Name(t)])
              /\ \/ Moves(t, "Idle", {"val"})
                 \/ cache["design"][Name(t)] # Nil /\ Moves(t, "SerGen", {"val"})
           /\ SerGen(t) =>
              /\ pc[t] = "SerGen" /\ Moves(t, "SerEpoch", {"gen"})
              /\ GetsAt(t, "gen", "design", CurrentGeneration(Name(t)))
           /\ SerEpoch(t) =>
              /\ pc[t] = "SerEpoch" /\ Moves(t, "BuildPayload", {"ep"})
              /\ GetsAt(t, "ep", "design", epoch)
           /\ BuildPayload(t) =>
              /\ pc[t] = "BuildPayload"
              /\ \E to \in {"CommitIdentity", loc[t].ret} : Moves(t, to, {})
           /\ CommitIdentity(t) =>
              /\ pc[t] = "CommitIdentity"
              /\ \/ Moves(t, "CommitStore", {}) /\ cache["design"][Name(t)] = loc[t].val
                 \/ Moves(t, loc[t].ret, {})
  BY GotoVal, GotoGen, GotoEp, ProceedMoves, Zenon
     DEF SerDesign, SerGen, SerEpoch, BuildPayload, CommitIdentity

\* InvalidateResponsePayloads goes on where it was called.
LEMMA AdjustMoves ==
    ASSUME ThreadTypeOK, NEW t \in Threads, AdjustLru(t)
    PROVE  /\ pc[t] = "AdjustLru" /\ Moves(t, loc[t].after, {"after"})
           /\ Gets(t, "after", IF loc[t].after = "Estimate" THEN "AddLoaded" ELSE "Idle")
<1> DEFINE a == IF loc[t].after = "Estimate" THEN "AddLoaded" ELSE "Idle"
<1>1. pc[t] = "AdjustLru" /\ Goto(t, loc[t].after, [loc[t] EXCEPT !.after = a])
  BY LocalFacts DEF AdjustLru, Local
<1> QED
  BY <1>1, GotoAfter, Zenon

\* CommitResponsePayloads: nothing, or the store and the charge.
Commits(t) ==
    /\ Name(t) \in charged /\ ~WasClearedSince(loc[t].ep["design"])
    /\ LET payload == [bytes |-> PayloadBytes, ver |-> loc[t].val.ver]
           current == TryStoreSucceeds(Name(t), loc[t].gen["design"])
       IN  /\ TryStore(Name(t), loc[t].gen["design"], payload)
           /\ \E V \in SUBSET Names :
                 /\ ChargePayload(Name(t), IF current THEN TryStoreBytes(Name(t), payload)
                                                    ELSE serialized[Name(t)],
                                  LoadingNames, V)
                 /\ Evicts(t, V, loc[t].ret)

LEMMA CommitMoves ==
    ASSUME ThreadTypeOK, NEW t \in Threads, CommitStore(t)
    PROVE  /\ pc[t] = "CommitStore"
           /\ \/ Commits(t)
              \/ Moves(t, loc[t].ret, {}) /\ UNCHANGED <<storeVars, lruVars>>
  BY ProceedMoves, EvictMoves, Zenon DEF CommitStore, Commits

\* Thread t starts at `to` on the name n with the initial locals but those in S.
Starts(t, to, n, S) ==
    /\ pc'[t] = to /\ loc'[t].name = n
    /\ \A f \in Fields \ S : f # "name" => loc'[t][f] = NoLocals[f]

Alone(t) == \A u \in Threads \ {t} : pc'[u] = pc[u] /\ loc'[u] = loc[u]

LEMMA NoLocalsDomain == DOMAIN NoLocals = Fields
  BY DEF NoLocals, Fields

LEMMA AddLoadedMoves ==
    ASSUME ThreadTypeOK, NEW t \in Threads, AddLoaded(t)
    PROVE  /\ pc[t] = "AddLoaded"
           /\ \/ Moves(t, "Idle", {})
              \/ /\ Starts(t, "Lookup", Name(t), {"kind", "ret"}) /\ Alone(t)
                 /\ Gets(t, "kind", "archive") /\ Gets(t, "ret", "SaveModel")
<1> DEFINE l == [NoLocals EXCEPT !.name = Name(t), !.kind = "archive", !.ret = "SaveModel"]
<1>1. /\ l.name = Name(t) /\ l.kind = "archive" /\ l.ret = "SaveModel"
      /\ \A f \in Fields \ {"kind", "ret"} : f # "name" => l[f] = NoLocals[f]
  BY NoLocalsDomain DEF Fields
<1>2. pc[t] = "AddLoaded" /\ (Proceed(t, "Idle") \/ Goto(t, "Lookup", l))
  BY DEF AddLoaded
<1> HIDE DEF l
<1>3. CASE Goto(t, "Lookup", l)
  BY <1>1, <1>2, <1>3, GotoAt DEF Starts, Gets, Alone
<1> QED
  BY <1>2, <1>3, ProceedMoves

LEMMA CallMoves ==
    ASSUME TypeInv, NEW t \in Threads, Call(t)
    PROVE  /\ pc[t] = "Idle" /\ t \notin Workers /\ Alone(t)
           /\ \E i \in 1 .. Len(Script[t]) : \E r \in Script[t][i] :
                 /\ r \in Request
                 /\ Starts(t, EntryLabel(r.op), r.name, {"max", "kind", "save"})
                 /\ loc'[t].kind = IF r.op = "GetFileArchive" THEN "archive" ELSE "design"
<1>0. ThreadTypeOK /\ calls \in [Clients -> Nat] /\ t \in Clients
  BY DEF TypeInv, DataInv, DataTypeOK, Call
<1> DEFINE i == calls[t] + 1
<1>1. Script[t] \in Seq(SUBSET Request) /\ calls[t] \in Nat /\ calls[t] < Len(Script[t])
  BY <1>0, CacheAssumption DEF Call
<1>2. i \in 1 .. Len(Script[t]) /\ Script[t][i] \in SUBSET Request
  BY <1>1
<1> DEFINE k(r) == IF r.op = "GetFileArchive" THEN "archive" ELSE "design"
           l(r) == [NoLocals EXCEPT !.name = r.name, !.max = r.max, !.kind = k(r),
                                    !.save = r.op = "SaveNewArchive"]
<1>3. PICK r \in Script[t][i] : Goto(t, EntryLabel(r.op), l(r))
  BY DEF Call
<1>4. r \in Request /\ EntryLabel(r.op) # "Idle"
  <2>1. r \in Request /\ r.op \in Ops
    BY <1>2 DEF Request
  <2> QED
    BY <2>1 DEF EntryLabel, Ops
<1>5. /\ l(r).name = r.name /\ l(r).kind = k(r)
      /\ \A f \in Fields \ {"max", "kind", "save"} : f # "name" => l(r)[f] = NoLocals[f]
  BY NoLocalsDomain DEF Fields
<1> HIDE DEF l, k
<1>6. pc'[t] = EntryLabel(r.op) /\ loc'[t] = l(r) /\ Alone(t)
  BY <1>0, <1>3, <1>4, GotoAt DEF Alone
<1>7. Starts(t, EntryLabel(r.op), r.name, {"max", "kind", "save"}) /\ loc'[t].kind = k(r)
  BY <1>5, <1>6 DEF Starts
<1> USE DEF k
<1> QED
  BY <1>0, <1>2, <1>4, <1>6, <1>7 DEF Call, Clients

\* A detached thread w starts; t goes on.
Spawned(t, w) == \A u \in Threads \ {t, w} : pc'[u] = pc[u] /\ loc'[u] = loc[u]

LEMMA SpawnMoves ==
    ASSUME TypeInv, NEW t \in Threads, NEW w \in Workers, Spawns(t, w)
    PROVE  /\ w \in Threads /\ w # t /\ pc[w] = "Idle" /\ Spawned(t, w)
           /\ UNCHANGED shared
           /\ loc'[w].ret = "ReleaseSlot"
           /\ \/ /\ pc[t] = "AsyncSpawn" /\ pc'[t] = "Idle" /\ loc'[t] = NoLocals
                 /\ Starts(w, "AcquireSlot", Name(t), {"job", "ret"})
                 /\ loc'[w].job = "load"
              \/ /\ pc[t] = "ScheduleSpawn" /\ pc'[t] = "AnnounceLoaded" /\ loc'[t] = loc[t]
                 /\ Starts(w, "AcquireSlot", Name(t), {"job", "ret", "val", "gen", "ep"})
                 /\ loc'[w].job = "serialize" /\ loc'[w].val = loc[t].val
                 /\ loc'[w].gen["design"] = loc[t].gen["design"]
                 /\ loc'[w].ep["design"] = loc[t].ep["design"]
                 /\ loc'[w].gen["archive"] = 0 /\ loc'[w].ep["archive"] = 0
<1>1. w \in Threads /\ ThreadTypeOK
  BY CacheAssumption DEF TypeInv
<1> DEFINE la == [NoLocals EXCEPT !.name = Name(t), !.job = "load", !.ret = "ReleaseSlot"]
           ls == [NoLocals EXCEPT !.name = Name(t), !.job = "serialize",
                                  !.val = loc[t].val, !.ret = "ReleaseSlot",
                                  !.gen["design"] = loc[t].gen["design"],
                                  !.ep["design"] = loc[t].ep["design"]]
<1>2. /\ la.name = Name(t) /\ la.job = "load" /\ la.ret = "ReleaseSlot"
      /\ \A f \in Fields \ {"job", "ret"} : f # "name" => la[f] = NoLocals[f]
  BY NoLocalsDomain DEF Fields
<1>3. /\ ls.name = Name(t) /\ ls.job = "serialize" /\ ls.ret = "ReleaseSlot"
      /\ ls.val = loc[t].val
      /\ ls.gen = [NoLocals.gen EXCEPT !["design"] = loc[t].gen["design"]]
      /\ ls.ep = [NoLocals.ep EXCEPT !["design"] = loc[t].ep["design"]]
  BY NoLocalsDomain DEF Fields
<1>4. \A f \in Fields \ {"job", "ret", "val", "gen", "ep"} : f # "name" => ls[f] = NoLocals[f]
  BY NoLocalsDomain DEF Fields
<1>5. /\ ls.gen["design"] = loc[t].gen["design"] /\ ls.gen["archive"] = 0
      /\ ls.ep["design"] = loc[t].ep["design"] /\ ls.ep["archive"] = 0
  <2>1. NoLocals.gen = [k \in Kinds |-> 0] /\ NoLocals.ep = [k \in Kinds |-> 0]
    BY DEF NoLocals
  <2> HIDE DEF ls
  <2> QED
    BY <1>3, <2>1 DEF Kinds
<1>6. \/ pc[t] = "AsyncSpawn" /\ Spawn(t, "Idle", w, la)
      \/ pc[t] = "ScheduleSpawn" /\ Spawn(t, "AnnounceLoaded", w, ls)
  BY DEF Spawns, AsyncSpawn, ScheduleSpawn
<1> HIDE DEF la, ls
<1>7. w # t
  BY <1>6 DEF Spawn
<1>8. CASE pc[t] = "AsyncSpawn" /\ Spawn(t, "Idle", w, la)
  <2>1. /\ pc'[t] = "Idle" /\ loc'[t] = NoLocals /\ pc'[w] = "AcquireSlot" /\ loc'[w] = la
        /\ Spawned(t, w) /\ pc[w] = "Idle" /\ UNCHANGED shared
    BY <1>1, <1>7, <1>8 DEF Spawn, ThreadTypeOK, Spawned
  <2> QED
    BY <1>1, <1>2, <1>7, <1>8, <2>1 DEF Starts
<1>9. CASE pc[t] = "ScheduleSpawn" /\ Spawn(t, "AnnounceLoaded", w, ls)
  <2>1. /\ pc'[t] = "AnnounceLoaded" /\ loc'[t] = loc[t] /\ pc'[w] = "AcquireSlot"
        /\ loc'[w] = ls /\ Spawned(t, w) /\ pc[w] = "Idle" /\ UNCHANGED shared
    BY <1>1, <1>7, <1>9 DEF Spawn, ThreadTypeOK, Spawned
  <2> QED
    BY <1>1, <1>3, <1>4, <1>5, <1>7, <1>9, <2>1 DEF Starts
<1> QED
  BY <1>6, <1>8, <1>9

\* Fulfil: t goes on; the threads that wait on its future see the result.
LEMMA FulfilMoves ==
    ASSUME ThreadTypeOK, NEW t \in Threads, Fulfil(t)
    PROVE  /\ pc[t] = "Fulfil" /\ loc'[t] = loc[t]
           /\ pc'[t] = CASE loc[t].outcome = "threw" /\ UpdateState(t) -> "CheckFailed"
                         [] loc[t].outcome = "null" /\ UpdateState(t) -> "EraseState"
                         [] OTHER -> "EraseFlight"
           /\ \A u \in Threads \ {t} :
                 /\ pc'[u] = pc[u]
                 /\ \A f \in Fields \ {"wait"} : loc'[u][f] = loc[u][f]
                 /\ pc[u] # "Join" => loc'[u] = loc[u]
                 /\ loc'[u].wait.owner = loc[u].wait.owner
                 /\ loc'[u].wait.val \in {loc[u].wait.val, loc[t].val, Nil}
<1> DEFINE threw == loc[t].outcome \in {"threw", "guard"}
           status == IF threw THEN "exception" ELSE "value"
           result == IF threw THEN Nil ELSE loc[t].val
           next == CASE loc[t].outcome = "threw" /\ UpdateState(t) -> "CheckFailed"
                     [] loc[t].outcome = "null" /\ UpdateState(t) -> "EraseState"
                     [] OTHER -> "EraseFlight"
           l(u) == [loc[u] EXCEPT !.wait.status = status, !.wait.val = result]
<1>1. /\ pc[t] = "Fulfil" /\ pc' = [pc EXCEPT ![t] = next]
      /\ loc' = [u \in Threads |-> IF u \in Joiners(t) THEN l(u) ELSE loc[u]]
  BY DEF Fulfil
<1>2. result \in {loc[t].val, Nil}
  OBVIOUS
<1> HIDE DEF status, result, next
<1>3. ASSUME NEW u \in Threads
      PROVE  /\ \A f \in Fields \ {"wait"} : l(u)[f] = loc[u][f]
             /\ l(u).wait.owner = loc[u].wait.owner /\ l(u).wait.val = result
  <2>1. DOMAIN loc[u] = Fields /\ DOMAIN loc[u].wait = {"owner", "status", "val"}
    BY LocalFacts, LocalDomain DEF Flight
  <2> QED
    BY <2>1 DEF Fields
<1> HIDE DEF l
<1>4. t \notin Joiners(t) /\ \A u \in Joiners(t) : pc[u] = "Join"
  BY <1>1 DEF Joiners
<1>5. loc'[t] = loc[t] /\ pc'[t] = next
  BY <1>1, <1>4 DEF ThreadTypeOK
<1>6. ASSUME NEW u \in Threads \ {t}
      PROVE  /\ pc'[u] = pc[u]
             /\ \A f \in Fields \ {"wait"} : loc'[u][f] = loc[u][f]
             /\ pc[u] # "Join" => loc'[u] = loc[u]
             /\ loc'[u].wait.owner = loc[u].wait.owner
             /\ loc'[u].wait.val \in {loc[u].wait.val, loc[t].val, Nil}
  <2>1. pc'[u] = pc[u]
    BY <1>1 DEF ThreadTypeOK
  <2>2. CASE u \in Joiners(t)
    BY <1>1, <1>2, <1>3, <1>4, <2>1, <2>2
  <2>3. CASE u \notin Joiners(t)
    BY <1>1, <2>1, <2>3
  <2> QED
    BY <2>2, <2>3
<1> USE DEF next
<1> QED
  BY <1>1, <1>5, <1>6
-----------------------------------------------------------------------------
(* What a section does to the other threads.                               *)

\* Another thread sees at most that the future it waits on is fulfilled.
Undisturbed(u) ==
    /\ pc'[u] = pc[u]
    /\ \A f \in Fields \ {"wait"} : loc'[u][f] = loc[u][f]
    /\ pc[u] # "Join" => loc'[u] = loc[u]

LEMMA MovesAlone ==
    ASSUME NEW t \in Threads,
           \/ \E to, S : Moves(t, to, S) \/ \E v : Returns(t, v) \/ Throws(t)
           \/ \E o : Ends(t, o) \/ \E V, after : Evicts(t, V, after)
    PROVE  Alone(t)
  BY Zenon DEF Moves, Returns, Throws, Unnests, Ends, Evicts, Alone

\* Unless it starts a thread or fulfils a future, a section moves its own thread alone.
LEMMA StaysAlone ==
    ASSUME TypeInv, NEW t \in Threads, Section(t), \A w \in Workers : ~Spawns(t, w)
    PROVE  Alone(t) \/ Fulfil(t)
<1>0. ThreadTypeOK
  BY DEF TypeInv
<1>1. CASE ReadingFlight(t)
  BY <1>0, <1>1, MovesAlone, LookupMoves, RegisterMoves, LoadMoves, CheckMoves,
     SettleMoves, Zenon DEF ReadingFlight
<1>2. CASE ReadingOther(t)
  BY <1>0, <1>2, MovesAlone, BudgetMoves, AsyncMoves, WorkerMoves, SerializeMoves, Zenon
     DEF ReadingOther
<1>3. CASE LoadSection(t)
  BY <1>0, <1>3, MovesAlone, RegisterMoves, SettleMoves, DropMoves, AsyncMoves,
     WorkerMoves, Zenon DEF LoadSection
<1>4. CASE Register(t) \/ EraseFlight(t) \/ EvictState(t)
  BY <1>0, <1>4, MovesAlone, RegisterMoves, SettleMoves, BudgetMoves, Zenon
<1>5. CASE AddLoaded(t)
  BY <1>0, <1>5, MovesAlone, AddLoadedMoves, Zenon
<1>6. CASE LruSection(t)
  BY <1>0, <1>6, MovesAlone, LookupMoves, BudgetMoves, DropMoves, AdjustMoves, Zenon
     DEF LruSection
<1>7. CASE StoreSection(t) \/ CommitStore(t)
  BY <1>0, <1>7, MovesAlone, BudgetMoves, DropMoves, CommitMoves, Zenon
     DEF StoreSection, Commits
<1>8. CASE CacheSection(t)
  BY <1>0, <1>8, MovesAlone, CheckMoves, BudgetMoves, DropMoves, AsyncMoves, Zenon
     DEF CacheSection
<1>9. CASE SlotSection(t)
  BY <1>0, <1>9, MovesAlone, AsyncMoves, WorkerMoves, Zenon DEF SlotSection
<1>10. CASE Call(t)
  BY <1>10, CallMoves
<1> QED
  BY <1>1, <1>2, <1>3, <1>4, <1>5, <1>6, <1>7, <1>8, <1>9, <1>10 DEF Section, FlightSection

LEMMA OthersStay ==
    ASSUME TypeInv, NEW t \in Threads, Section(t), \A w \in Workers : ~Spawns(t, w)
    PROVE  \A u \in Threads \ {t} : Undisturbed(u)
  BY StaysAlone, FulfilMoves DEF TypeInv, Alone, Undisturbed
-----------------------------------------------------------------------------
(* Request threads and detached threads.                                   *)

\* Where a detached thread can be.
WorkerPcs ==
    FlightPcs \cup EvictPcs
      \cup {"Estimate", "Charge", "BuildPayload", "CommitIdentity", "CommitStore",
            "ReleaseSlot", "UnmarkPending", "Uncount"}

\* Where only a detached thread can be.
DetachedPcs == {"AcquireSlot", "ReleaseSlot", "UnmarkPending", "Uncount"}

\* A detached thread never leaves BackgroundLoad or PreSerializeWorker before it has
\* released its slot; a request thread never enters them.
TeamOK(t, p, l) ==
    IF t \in Workers
    THEN \/ p = "Idle"
         \/ /\ p \in WorkerPcs /\ l.ret = "ReleaseSlot" /\ l.after # "AddLoaded"
            /\ p \in EvictPcs => l.after \in LoaderAfter \cup {"ReleaseSlot"}
    ELSE /\ p \notin DetachedPcs /\ l.ret # "ReleaseSlot"
         /\ p \in EvictPcs \cup {"AdjustLru", "InvStore"} => l.after \notin DetachedPcs

TeamInv == \A t \in Threads : TeamOK(t, pc[t], loc[t])

\* A move that keeps where the call returns.
TeamGoes(t, to) ==
    \/ to = "Idle"
    \/ /\ to \notin EvictPcs \cup {"AdjustLru", "InvStore"}
       /\ IF t \in Workers THEN to \in WorkerPcs ELSE to \notin DetachedPcs

LEMMA TeamKeep ==
    ASSUME NEW t \in Threads, TeamOK(t, pc[t], loc[t]), pc[t] # "Idle",
           NEW to, NEW S, Moves(t, to, S), "ret" \notin S, "after" \notin S, TeamGoes(t, to)
    PROVE  TeamOK(t, pc'[t], loc'[t])
<1>1. CASE to = "Idle"
  BY <1>1 DEF Moves, TeamOK, NoLocals, DetachedPcs, EvictPcs
<1>2. CASE to # "Idle"
  <2>1. pc'[t] = to /\ loc'[t].ret = loc[t].ret /\ loc'[t].after = loc[t].after
    BY <1>2 DEF Moves, Fields
  <2> QED
    BY <1>2, <2>1 DEF TeamOK, TeamGoes
<1> QED
  BY <1>1, <1>2

\* The innermost activation ends.
LEMMA TeamReturn ==
    ASSUME TypeInv, CInv, NEW t \in Threads, TeamOK(t, pc[t], loc[t]), pc[t] # "Idle",
           pc[t] \in FlightPcs,
           (\E v : Returns(t, v)) \/ Throws(t)
    PROVE  TeamOK(t, pc'[t], loc'[t])
<1>0. loc[t].ret \in RetPcs
  BY ThreadFacts DEF Shape
<1>1. TeamGoes(t, "Fulfil") /\ TeamGoes(t, "Build") /\ TeamGoes(t, loc[t].ret)
  BY <1>0 DEF TeamGoes, TeamOK, WorkerPcs, FlightPcs, EvictPcs, DetachedPcs, RetPcs
<1>2. TeamGoes(t, IF t \in Workers THEN "ReleaseSlot" ELSE "Idle")
  BY DEF TeamGoes, WorkerPcs, EvictPcs
<1> QED
  BY <1>1, <1>2, TeamKeep DEF Returns, Throws, Unnests

\* The program counter and the locals of t after a section of t.
LEMMA TeamFlight ==
    ASSUME TypeInv, CInv, NEW t \in Threads, TeamOK(t, pc[t], loc[t]), ReadingFlight(t)
    PROVE  TeamOK(t, pc'[t], loc'[t])
<1>0. ThreadTypeOK
  BY DEF TypeInv
<1>1. \A to \in FlightPcs \ {"AcquireSlot"} : TeamGoes(t, to)
  BY DEF TeamGoes, WorkerPcs, FlightPcs, EvictPcs, DetachedPcs
<1>2. CASE Join(t)
  BY <1>0, <1>1, <1>2, LookupMoves, TeamReturn, TeamKeep DEF FlightPcs
<1>3. CASE Lookup(t) \/ CaptureGen(t)
  BY <1>0, <1>1, <1>3, LookupMoves, TeamKeep DEF FlightPcs
<1>4. CASE LoaderExits(t) \/ CheckFailed(t)
  BY <1>0, <1>1, <1>4, RegisterMoves, SettleMoves, TeamKeep DEF FlightPcs, Ends
<1>5. CASE LoadDesign(t) \/ LoadFileArchive(t) \/ BuildDesign(t)
  <2>1. /\ pc[t] \in {"Load", "Build"}
        /\ \/ \E o : Ends(t, o) \/ Moves(t, "CheckGen", {"val"})
           \/ Moves(t, "Lookup", {"kind", "nested"})
    BY <1>0, <1>5, LoadMoves, Zenon
  <2> QED
    BY <1>1, <2>1, TeamKeep DEF FlightPcs, Ends
<1>6. CASE CheckGen(t) \/ CheckEpoch(t)
  <2>1. /\ pc[t] \in {"CheckGen", "CheckEpoch"}
        /\ \/ Moves(t, "CheckEpoch", {"stale"}) \/ Moves(t, "Insert", {"stale", "outcome"})
           \/ Moves(t, "Fulfil", {"stale", "outcome"})
    BY <1>0, <1>6, CheckMoves, Zenon
  <2> QED
    BY <1>1, <2>1, TeamKeep DEF FlightPcs
<1> QED
  BY <1>2, <1>3, <1>4, <1>5, <1>6 DEF ReadingFlight

LEMMA TeamOther ==
    ASSUME TypeInv, CInv, NEW t \in Threads, TeamOK(t, pc[t], loc[t]), ReadingOther(t)
    PROVE  TeamOK(t, pc'[t], loc'[t])
<1>0. ThreadTypeOK /\ Shape(pc[t], loc[t])
  BY ThreadFacts DEF TypeInv
<1> USE <1>0
<1>1. CASE Estimate(t) \/ ResyncEstimate(t)
  <2>1. \/ pc[t] = "Estimate" /\ Moves(t, "Charge", {"bytes"})
        \/ pc[t] = "ResyncEstimate" /\ Moves(t, "Resync", {"bytes"})
    BY <1>1, BudgetMoves, Zenon
  <2> QED
    BY <2>1, TeamKeep DEF TeamOK, TeamGoes, WorkerPcs, FlightPcs, EvictPcs, DetachedPcs
<1>2. CASE WarmCheck(t)
  BY <1>2, AsyncMoves DEF Moves, Gets, Fields, TeamOK, WorkerPcs, FlightPcs, EvictPcs, DetachedPcs
<1>3. CASE ReqState(t) \/ ReqContains(t)
  BY <1>3, AsyncMoves, TeamKeep DEF TeamOK, TeamGoes, WorkerPcs, FlightPcs, EvictPcs, DetachedPcs
<1>4. CASE SpawnFails(t)
  BY <1>4, AsyncMoves, TeamKeep DEF TeamOK, TeamGoes, WorkerPcs, FlightPcs, EvictPcs, DetachedPcs
<1>5. CASE ScheduleGen(t)
  BY <1>5, WorkerMoves, TeamKeep DEF TeamOK, TeamGoes, WorkerPcs, FlightPcs, EvictPcs, DetachedPcs
<1>6. CASE SerDesign(t) \/ SerGen(t) \/ SerEpoch(t)
  BY <1>6, SerializeMoves, TeamKeep DEF TeamOK, TeamGoes, WorkerPcs, FlightPcs, EvictPcs, DetachedPcs
<1>7. CASE BuildPayload(t) \/ CommitIdentity(t)
  <2>1. TeamGoes(t, loc[t].ret) /\ TeamGoes(t, "CommitIdentity") /\ TeamGoes(t, "CommitStore")
    BY <1>7, SerializeMoves DEF Shape, RetPcs, TeamOK, TeamGoes, WorkerPcs, FlightPcs, EvictPcs, DetachedPcs
  <2> QED
    BY <1>7, <2>1, SerializeMoves, TeamKeep
<1> QED
  BY <1>1, <1>2, <1>3, <1>4, <1>5, <1>6, <1>7 DEF ReadingOther

LEMMA TeamLoad ==
    ASSUME TypeInv, CInv, NEW t \in Threads, TeamOK(t, pc[t], loc[t]),
           LoadSection(t) \/ FlightSection(t)
    PROVE  TeamOK(t, pc'[t], loc'[t])
<1>0. ThreadTypeOK /\ Shape(pc[t], loc[t])
  BY ThreadFacts DEF TypeInv
<1>1. \A to \in FlightPcs \ {"AcquireSlot"} : TeamGoes(t, to)
  BY DEF TeamGoes, WorkerPcs, FlightPcs, EvictPcs, DetachedPcs
<1> USE <1>0
<1>2. CASE Announce(t) \/ AnnounceLoaded(t) \/ AnnounceFailed(t) \/ EraseState(t)
  BY <1>1, <1>2, RegisterMoves, SettleMoves, TeamKeep DEF FlightPcs
<1>3. CASE InvState(t) \/ ClearLoadStates(t)
  BY <1>3, DropMoves, TeamKeep DEF TeamOK, TeamGoes, WorkerPcs, FlightPcs, EvictPcs,
     DetachedPcs, Shape, RetPcs
<1>4. CASE AsyncCheck(t) \/ AsyncUnmark(t)
  BY <1>4, AsyncMoves, TeamKeep DEF TeamOK, TeamGoes, WorkerPcs, FlightPcs, EvictPcs, DetachedPcs
<1>5. CASE UnmarkLoaded(t)
  BY <1>5, WorkerMoves, TeamKeep DEF TeamOK, TeamGoes, WorkerPcs, FlightPcs, EvictPcs, DetachedPcs
<1>6. CASE Register(t)
  BY <1>1, <1>6, RegisterMoves, TeamKeep DEF FlightPcs
<1>7. CASE Fulfil(t)
  BY <1>7, FulfilMoves DEF TeamOK, WorkerPcs, FlightPcs, EvictPcs, DetachedPcs
<1>8. CASE EraseFlight(t)
  BY <1>8, SettleMoves, TeamReturn DEF FlightPcs
<1>9. CASE EvictState(t)
  <2>1. /\ pc[t] = "EvictState" /\ \E to \in {loc[t].after, "EvictStore"} :
                                       Moves(t, to, {"victims", "victim"})
    BY <1>9, BudgetMoves, Zenon
  <2> QED
    BY <2>1 DEF Moves, Fields, TeamOK, WorkerPcs, FlightPcs, EvictPcs, DetachedPcs, LoaderAfter,
                Shape, RetPcs, NoLocals
<1>10. CASE AddLoaded(t)
  BY <1>10, AddLoadedMoves DEF Moves, Gets, Starts, Fields, NoLocals, TeamOK, WorkerPcs,
     FlightPcs, EvictPcs, DetachedPcs
<1> QED
  BY <1>2, <1>3, <1>4, <1>5, <1>6, <1>7, <1>8, <1>9, <1>10 DEF LoadSection, FlightSection

LEMMA TeamLru ==
    ASSUME TypeInv, CInv, NEW t \in Threads, TeamOK(t, pc[t], loc[t]),
           LruSection(t) \/ CommitStore(t)
    PROVE  TeamOK(t, pc'[t], loc'[t])
<1>0. ThreadTypeOK /\ Shape(pc[t], loc[t])
  BY ThreadFacts DEF TypeInv
<1> USE <1>0
<1>1. ASSUME NEW V, NEW after, Evicts(t, V, after), pc[t] # "Idle",
             TeamGoes(t, after), after # "AcquireSlot",
             IF t \in Workers THEN after \in LoaderAfter \cup {"ReleaseSlot"}
                              ELSE after \notin DetachedPcs
      PROVE  TeamOK(t, pc'[t], loc'[t])
  BY <1>1 DEF Evicts, Moves, Gets, Fields, TeamOK, TeamGoes, WorkerPcs, FlightPcs, EvictPcs,
              DetachedPcs, LoaderAfter, NoLocals
<1>2. CASE TouchHit(t) \/ TouchJoin(t)
  BY <1>2, LookupMoves, TeamReturn DEF FlightPcs
<1>3. CASE Charge(t)
  <2> DEFINE a == IF loc[t].after = "AddLoaded" THEN "AddLoaded" ELSE AfterInsert(t)
  <2>1. pc[t] = "Charge" /\ \E V \in SUBSET Names : Evicts(t, V, a)
    BY <1>3, BudgetMoves, Zenon
  <2>2. a \in LoaderAfter \cup {"AddLoaded"} /\ (t \in Workers => a \in LoaderAfter)
    BY <2>1 DEF AfterInsert, LoaderAfter, TeamOK
  <2> HIDE DEF a
  <2>3. TeamGoes(t, a)
    BY <2>2 DEF TeamGoes, LoaderAfter, WorkerPcs, FlightPcs, EvictPcs, DetachedPcs
  <2> QED
    BY <1>1, <2>1, <2>2, <2>3 DEF LoaderAfter, DetachedPcs
<1>4. CASE Resync(t)
  <2>1. pc[t] = "Resync" /\ Moves(t, "Idle", {})
    BY <1>4, BudgetMoves, Zenon
  <2> QED
    BY <2>1, TeamKeep DEF TeamGoes
<1>5. CASE AdjustLru(t)
  BY <1>5, AdjustMoves DEF Moves, Gets, Fields, TeamOK, WorkerPcs, FlightPcs, EvictPcs,
     DetachedPcs, Shape, NoLocals
<1>6. CASE ClearLru(t)
  BY <1>6, DropMoves, TeamKeep DEF TeamOK, TeamGoes, WorkerPcs, FlightPcs, EvictPcs, DetachedPcs
<1>7. CASE SetCacheMaxBytes(t)
  <2>1. pc[t] = "SetMaxBytes" /\ \E V \in SUBSET Names : Evicts(t, V, "Idle")
    BY <1>7, BudgetMoves, Zenon
  <2> QED
    BY <1>1, <2>1 DEF TeamOK, TeamGoes, WorkerPcs, FlightPcs, EvictPcs, DetachedPcs
<1>8. CASE CommitStore(t)
  <2>1. /\ pc[t] = "CommitStore"
        /\ Moves(t, loc[t].ret, {}) \/ \E V \in SUBSET Names : Evicts(t, V, loc[t].ret)
    BY <1>8, CommitMoves, Zenon DEF Commits
  <2>2. TeamGoes(t, loc[t].ret)
    BY <2>1 DEF Shape, RetPcs, TeamOK, TeamGoes, WorkerPcs, FlightPcs, EvictPcs, DetachedPcs
  <2> QED
    BY <1>1, <2>1, <2>2, TeamKeep DEF TeamOK, DetachedPcs, Shape, RetPcs
<1> QED
  BY <1>2, <1>3, <1>4, <1>5, <1>6, <1>7, <1>8 DEF LruSection

LEMMA TeamRest ==
    ASSUME TypeInv, CInv, NEW t \in Threads, TeamOK(t, pc[t], loc[t]),
           StoreSection(t) \/ CacheSection(t) \/ SlotSection(t) \/ Call(t)
    PROVE  TeamOK(t, pc'[t], loc'[t])
<1>0. ThreadTypeOK /\ Shape(pc[t], loc[t])
  BY ThreadFacts DEF TypeInv
<1> USE <1>0
<1>1. CASE EvictStore(t) \/ EvictMaps(t)
  <2>1. \/ pc[t] = "EvictStore" /\ Moves(t, "EvictMaps", {"victim"})
        \/ pc[t] = "EvictMaps" /\ Moves(t, "EvictState", {})
    BY <1>1, BudgetMoves, Zenon
  <2> QED
    BY <2>1 DEF Moves, Fields, TeamOK, WorkerPcs, FlightPcs, EvictPcs, DetachedPcs
<1>2. CASE InvStore(t) \/ AddMaps(t) \/ InvMaps(t)
  BY <1>2, DropMoves DEF Moves, Gets, Fields, TeamOK, WorkerPcs, FlightPcs, EvictPcs, DetachedPcs
<1>3. CASE ClearStore(t) \/ SaveModel(t) \/ ClearMaps(t)
  BY <1>3, DropMoves, TeamKeep DEF TeamOK, TeamGoes, WorkerPcs, FlightPcs, EvictPcs, DetachedPcs
<1>4. CASE UploadMove(t) \/ AsyncCount(t) \/ AsyncUncount(t)
  BY <1>4, AsyncMoves, TeamKeep DEF TeamOK, TeamGoes, WorkerPcs, FlightPcs, EvictPcs, DetachedPcs
<1>5. CASE Insert(t)
  <2>1. pc[t] = "Insert" /\ (Moves(t, "Estimate", {"val"}) \/ Moves(t, "Estimate", {}))
    BY <1>5, CheckMoves, Zenon
  <2> QED
    BY <2>1, TeamKeep DEF TeamGoes, WorkerPcs, EvictPcs, DetachedPcs
<1>6. CASE Acquire(t) \/ Release(t) \/ Uncount(t) \/ ScheduleCount(t) \/ ScheduleUncount(t)
  BY <1>6, WorkerMoves, TeamKeep DEF TeamOK, TeamGoes, WorkerPcs, FlightPcs, EvictPcs, DetachedPcs
<1>7. CASE Call(t)
  <2>1. PICK r \in Request : Starts(t, EntryLabel(r.op), r.name, {"max", "kind", "save"})
    BY <1>7, CallMoves DEF TypeInv
  <2>2. t \notin Workers
    BY <1>7, CallMoves
  <2>3. EntryLabel(r.op) \notin DetachedPcs \cup EvictPcs \cup {"AdjustLru", "InvStore"}
    BY DEF Request, Ops, EntryLabel, DetachedPcs, EvictPcs
  <2>4. loc'[t].ret = "Idle" /\ pc'[t] = EntryLabel(r.op)
    BY <2>1 DEF Starts, Fields, NoLocals
  <2> QED
    BY <2>2, <2>3, <2>4 DEF TeamOK
<1> QED
  BY <1>1, <1>2, <1>3, <1>4, <1>5, <1>6, <1>7 DEF StoreSection, CacheSection, SlotSection

\* Every step keeps it.
LEMMA TeamStep ==
    ASSUME TypeInv, CInv, TeamInv, [Next]_vars
    PROVE  TeamInv'
<1>1. CASE UNCHANGED vars
  BY <1>1 DEF vars, threadVars, TeamInv, TeamOK
<1>2. ASSUME NEW t \in Threads, Section(t), \A w \in Workers : ~Spawns(t, w)
      PROVE  TeamInv'
  <2>1. TeamOK(t, pc'[t], loc'[t])
    BY <1>2, TeamFlight, TeamOther, TeamLoad, TeamLru, TeamRest DEF Section, TeamInv
  <2>2. ASSUME NEW u \in Threads \ {t}
        PROVE  TeamOK(u, pc'[u], loc'[u])
    <3>1. Undisturbed(u)
      BY <1>2, OthersStay
    <3> QED
      BY <3>1 DEF Undisturbed, Fields, TeamInv, TeamOK
  <2> QED
    BY <2>1, <2>2 DEF TeamInv
<1>3. ASSUME NEW t \in Threads, NEW w \in Workers, Spawns(t, w)
      PROVE  TeamInv'
  <2>1. TeamOK(t, pc'[t], loc'[t])
    BY <1>3, SpawnMoves DEF TeamInv, TeamOK, NoLocals, WorkerPcs, FlightPcs, EvictPcs, DetachedPcs
  <2>2. TeamOK(w, pc'[w], loc'[w])
    BY <1>3, SpawnMoves DEF Starts, Fields, NoLocals, TeamOK, WorkerPcs, FlightPcs, EvictPcs
  <2>3. \A u \in Threads \ {t, w} : TeamOK(u, pc'[u], loc'[u])
    BY <1>3, SpawnMoves DEF Spawned, TeamInv
  <2> QED
    BY <2>1, <2>2, <2>3 DEF TeamInv
<1> QED
  BY <1>1, <1>2, <1>3, StepCases

LEMMA TeamInitial ==
    ASSUME Init
    PROVE  TeamInv
<1>1. \A t \in Threads : pc[t] = "Idle" /\ loc[t] = NoLocals
  BY DEF Init
<1> QED
  BY <1>1 DEF TeamInv, TeamOK, NoLocals, DetachedPcs, EvictPcs

\* What is true of every thread, whatever the script.
BaseInv == TypeInv /\ CInv /\ CallsOK /\ TeamInv

LEMMA BaseStep ==
    ASSUME BaseInv, [Next]_vars
    PROVE  BaseInv'
  BY TypeStep, CInvInductive, CallsStep, TeamStep DEF BaseInv

LEMMA BaseInitial ==
    ASSUME Init
    PROVE  BaseInv
  BY TypeInitial, CInvInitial, TeamInitial DEF BaseInv

-----------------------------------------------------------------------------
(* Detached threads between the acquisition and the release of their slot. *)

BusyPcs == WorkerPcs \ DetachedPcs

\* A detached thread at work stays at work, or comes to the release of its slot.
Busy(t) ==
    /\ pc'[t] \notin {"Idle", "AcquireSlot", "UnmarkPending", "Uncount"}
    /\ loc'[t].name = loc[t].name /\ loc'[t].job = loc[t].job

LEMMA BusyMoves ==
    ASSUME NEW t \in Workers, loc[t].ret = "ReleaseSlot",
           \/ \E to, S : /\ Moves(t, to, S) /\ "name" \notin S /\ "job" \notin S
                         /\ to \notin {"Idle", "AcquireSlot", "UnmarkPending", "Uncount"}
           \/ (\E v : Returns(t, v)) \/ Throws(t) \/ (\E o : Ends(t, o))
           \/ \E V, after : Evicts(t, V, after) /\ after \in LoaderAfter \cup {"ReleaseSlot"}
    PROVE  Busy(t)
<1>1. ASSUME NEW to, NEW S, Moves(t, to, S), "name" \notin S, "job" \notin S,
             to \notin {"Idle", "AcquireSlot", "UnmarkPending", "Uncount"}
      PROVE  Busy(t)
  BY <1>1 DEF Moves, Fields, Busy
<1>2. ASSUME NEW v, Returns(t, v)
      PROVE  Busy(t)
  <2>1. \E to \in {"Fulfil", "Build", "ReleaseSlot"},
           S \in {{"val"}, {"kind", "nested", "val", "outcome"}} : Moves(t, to, S)
    BY <1>2, Zenon DEF Returns, Unnests
  <2> QED
    BY <1>1, <2>1
<1>3. CASE Throws(t)
  <2>1. \E to \in {"Fulfil", "ReleaseSlot"},
           S \in {{}, {"kind", "nested", "val", "outcome"}} : Moves(t, to, S)
    BY <1>3, Zenon DEF Throws, Unnests
  <2> QED
    BY <1>1, <2>1
<1>4. ASSUME NEW o, Ends(t, o)
      PROVE  Busy(t)
  BY <1>1, <1>4 DEF Ends
<1>5. ASSUME NEW V, NEW after, Evicts(t, V, after), after \in LoaderAfter \cup {"ReleaseSlot"}
      PROVE  Busy(t)
  BY <1>1, <1>5 DEF Evicts, LoaderAfter
<1> QED
  BY <1>1, <1>2, <1>3, <1>4, <1>5

LEMMA BusyStays ==
    ASSUME BaseInv, NEW t \in Workers, pc[t] \in BusyPcs, Section(t),
           \A w \in Workers : ~Spawns(t, w)
    PROVE  Busy(t)
<1>0. /\ ThreadTypeOK /\ Shape(pc[t], loc[t]) /\ t \in Threads /\ TypeInv
      /\ loc[t].ret = "ReleaseSlot" /\ loc[t].after # "AddLoaded"
      /\ pc[t] \in EvictPcs => loc[t].after \in LoaderAfter \cup {"ReleaseSlot"}
  BY CacheAssumption, ThreadFacts
     DEF BaseInv, TypeInv, TeamInv, TeamOK, BusyPcs, WorkerPcs, FlightPcs, EvictPcs
<1> USE <1>0, BusyMoves
<1>1. CASE ReadingFlight(t)
  <2>1. \/ Throws(t) \/ (\E o : Ends(t, o))
        \/ \E to \in {"TouchHit", "CaptureGen", "Register", "TouchJoin", "Lookup", "CheckGen",
                      "CheckEpoch", "Fulfil", "Insert", "EraseFlight", "AnnounceFailed"},
              S \in {{}, {"val"}, {"gen"}, {"kind", "nested"}, {"stale"}, {"stale", "outcome"}} :
                 Moves(t, to, S)
    BY <1>1, LookupMoves, RegisterMoves, LoadMoves, CheckMoves, SettleMoves, Zenon
       DEF ReadingFlight
  <2> QED
    BY <2>1
<1>2. CASE ReadingOther(t)
  <2>1. \/ pc[t] \notin BusyPcs
        \/ \E to \in {"Charge", "ScheduleUncount", "ScheduleCount", "CommitIdentity", "CommitStore",
                      loc[t].ret}, S \in {{}, {"bytes"}, {"gen"}} : Moves(t, to, S)
    <3>1. CASE Estimate(t) \/ BuildPayload(t) \/ CommitIdentity(t) \/ ScheduleGen(t)
      BY <3>1, BudgetMoves, SerializeMoves, WorkerMoves, Zenon
    <3>2. CASE SpawnFails(t)
      BY <3>2, AsyncMoves DEF BusyPcs, WorkerPcs, FlightPcs, EvictPcs
    <3>3. CASE WarmCheck(t) \/ ReqState(t) \/ ReqContains(t)
      BY <3>3, AsyncMoves DEF BusyPcs, WorkerPcs, FlightPcs, EvictPcs
    <3>4. CASE SerDesign(t) \/ SerGen(t) \/ SerEpoch(t)
      BY <3>4, SerializeMoves DEF BusyPcs, WorkerPcs, FlightPcs, EvictPcs
    <3>5. CASE ResyncEstimate(t)
      BY <3>5 DEF ResyncEstimate, BusyPcs, WorkerPcs, FlightPcs, EvictPcs
    <3> QED
      BY <1>2, <3>1, <3>2, <3>3, <3>4, <3>5 DEF ReadingOther
  <2> QED
    BY <2>1
<1>3. CASE LoadSection(t)
  <2>1. CASE Announce(t) \/ AnnounceLoaded(t) \/ AnnounceFailed(t) \/ EraseState(t)
    BY <2>1, RegisterMoves, SettleMoves
  <2>2. pc[t] \notin {"InvState", "ClearStates", "AsyncCheck", "AsyncUnmark", "UnmarkPending"}
    BY DEF BusyPcs, WorkerPcs, FlightPcs, EvictPcs, DetachedPcs
  <2> QED
    BY <1>3, <2>1, <2>2 DEF LoadSection, InvState, ClearLoadStates, AsyncCheck, AsyncUnmark,
                            UnmarkLoaded
<1>4. CASE FlightSection(t)
  <2>1. CASE Register(t)
    BY <2>1, RegisterMoves
  <2>2. CASE EraseFlight(t)
    BY <2>2, SettleMoves, Zenon
  <2>3. CASE EvictState(t)
    <3>1. /\ pc[t] = "EvictState" /\ \E to \in {loc[t].after, "EvictStore"} :
                                         Moves(t, to, {"victims", "victim"})
      BY <2>3, BudgetMoves, Zenon
    <3> QED
      BY <3>1 DEF EvictPcs, LoaderAfter
  <2>4. CASE Fulfil(t)
    BY <2>4, FulfilMoves DEF Busy
  <2>5. CASE AddLoaded(t)
    BY <2>5 DEF AddLoaded, BusyPcs, WorkerPcs, FlightPcs, EvictPcs
  <2> QED
    BY <1>4, <2>1, <2>2, <2>3, <2>4, <2>5 DEF FlightSection
<1>5. CASE LruSection(t) \/ CommitStore(t)
  <2>1. CASE TouchHit(t) \/ TouchJoin(t)
    BY <2>1, LookupMoves
  <2>2. CASE Charge(t)
    <3>1. \E V : Evicts(t, V, AfterInsert(t))
      BY <2>2, BudgetMoves, Zenon
    <3>2. AfterInsert(t) \in LoaderAfter
      BY DEF AfterInsert, LoaderAfter
    <3> QED
      BY <3>1, <3>2
  <2>3. CASE CommitStore(t)
    <3>1. Moves(t, loc[t].ret, {}) \/ \E V : Evicts(t, V, loc[t].ret)
      BY <2>3, CommitMoves, Zenon DEF Commits
    <3> QED
      BY <3>1
  <2>4. pc[t] \notin {"Resync", "AdjustLru", "ClearLru", "SetMaxBytes"}
    BY DEF BusyPcs, WorkerPcs, FlightPcs, EvictPcs
  <2> QED
    BY <1>5, <2>1, <2>2, <2>3, <2>4 DEF LruSection, Resync, AdjustLru, ClearLru, SetCacheMaxBytes
<1>6. CASE StoreSection(t) \/ CacheSection(t)
  <2>1. CASE EvictStore(t) \/ EvictMaps(t) \/ Insert(t)
    <3>1. \E to \in {"EvictMaps", "EvictState", "Estimate"}, S \in {{}, {"victim"}, {"val"}} :
             Moves(t, to, S)
      BY <2>1, BudgetMoves, CheckMoves, Zenon
    <3> QED
      BY <3>1
  <2>2. pc[t] \notin {"InvStore", "ClearStore", "AddMaps", "InvMaps", "SaveModel", "ClearMaps",
                      "UploadMove"}
    BY DEF BusyPcs, WorkerPcs, FlightPcs, EvictPcs
  <2> QED
    BY <1>6, <2>1, <2>2 DEF StoreSection, CacheSection, InvStore, ClearStore, AddMaps, InvMaps,
                            SaveModel, ClearMaps, UploadMove
<1>7. CASE SlotSection(t) \/ Call(t)
  <2>1. CASE ScheduleCount(t) \/ ScheduleUncount(t)
    BY <2>1, WorkerMoves
  <2>2. pc[t] \notin {"AsyncCount", "AsyncUncount", "AcquireSlot", "ReleaseSlot", "Uncount", "Idle"}
    BY DEF BusyPcs, WorkerPcs, FlightPcs, EvictPcs, DetachedPcs
  <2> QED
    BY <1>7, <2>1, <2>2 DEF SlotSection, AsyncCount, AsyncUncount, Acquire, Release, Uncount, Call
<1> QED
  BY <1>1, <1>2, <1>3, <1>4, <1>5, <1>6, <1>7 DEF Section
-----------------------------------------------------------------------------
(* Which sections change which variable.                                   *)

LoadPcs == {"Announce", "AnnounceLoaded", "AnnounceFailed", "EraseState", "InvState",
            "ClearStates", "EvictState", "AddLoaded"}
PendingPcs == {"AsyncCheck", "AsyncUnmark", "UnmarkPending"}
SlotPcs == {"AsyncCount", "AsyncUncount", "AcquireSlot", "ReleaseSlot", "Uncount",
            "ScheduleCount", "ScheduleUncount"}
ChargePcs == {"Charge", "ClearLru", "SetMaxBytes", "CommitStore"}
StorePcs == {"EvictStore", "InvStore", "ClearStore"}
MapPcs == {"Insert", "EvictMaps", "AddMaps", "InvMaps", "ClearMaps"}

LEMMA Components ==
    ASSUME NEW t \in Threads, Section(t)
    PROVE  /\ LoadSection(t) \/ FlightSection(t) \/ UNCHANGED loadVars
           /\ LruSection(t) \/ CommitStore(t) \/ UNCHANGED lruVars
           /\ StoreSection(t) \/ CommitStore(t) \/ UNCHANGED storeVars
           /\ CacheSection(t) \/ UNCHANGED cacheVars
           /\ SlotSection(t) \/ UNCHANGED slotVars
<1>1. ReadingFlight(t) => UNCHANGED shared
  BY DEF ReadingFlight, Lookup, CaptureGen, Join, LoaderExits, LoadDesign, LoadFileArchive,
         BuildDesign, CheckGen, CheckEpoch, CheckFailed
<1>2. ReadingOther(t) => UNCHANGED shared
  BY DEF ReadingOther, Estimate, ResyncEstimate, WarmCheck, ReqState, ReqContains,
         SpawnFails, ScheduleGen, SerDesign, SerGen, SerEpoch, BuildPayload, CommitIdentity
<1>3. LoadSection(t) \/ FlightSection(t) => UNCHANGED allButLoad
  BY DEF LoadSection, Announce, AnnounceLoaded, AnnounceFailed, EraseState, InvState,
         ClearLoadStates, AsyncCheck, AsyncUnmark, UnmarkLoaded,
         FlightSection, Register, Fulfil, EraseFlight, EvictState, AddLoaded
<1>4. LruSection(t) => UNCHANGED allButLru
  BY DEF LruSection, TouchHit, TouchJoin, Charge, Resync, AdjustLru, ClearLru, SetCacheMaxBytes
<1>5. StoreSection(t) => UNCHANGED allButStore
  BY DEF StoreSection, EvictStore, InvStore, ClearStore
<1>6. CommitStore(t) => UNCHANGED <<loadVars, slotVars, cacheVars, calls>>
  BY DEF CommitStore
<1>7. CacheSection(t) => UNCHANGED allButCache
  BY DEF CacheSection, Insert, EvictMaps, AddMaps, InvMaps, SaveModel, ClearMaps, UploadMove
<1>8. SlotSection(t) => UNCHANGED allButSlots
  BY DEF SlotSection, AsyncCount, AsyncUncount, Acquire, Release, Uncount, ScheduleCount,
         ScheduleUncount
<1>9. (\E w \in Workers : Spawns(t, w)) => UNCHANGED shared
  BY DEF Spawns, AsyncSpawn, ScheduleSpawn, Spawn
<1>10. Call(t) => UNCHANGED <<loadVars, lruVars, storeVars, slotVars, cacheVars>>
  BY DEF Call
<1> QED
  BY <1>1, <1>2, <1>3, <1>4, <1>5, <1>6, <1>7, <1>8, <1>9, <1>10, Zenon
     DEF Section, shared, allButLoad, allButLru, allButStore, allButCache, allButSlots

LEMMA Frame ==
    ASSUME NEW t \in Threads, Section(t)
    PROVE  /\ pc[t] \notin PendingPcs => pending' = pending
           /\ pc[t] # "ClearStates" => epoch' = epoch
           /\ pc[t] \notin LoadPcs => loadState' = loadState
           /\ pc[t] \notin {"Register", "Fulfil", "EraseFlight"} => inFlight' = inFlight
           /\ pc[t] \notin SlotPcs => active' = active /\ outstanding' = outstanding
           /\ maxLoads' = maxLoads
           /\ pc[t] \notin ChargePcs => charged' = charged
           /\ pc[t] \notin ChargePcs \cup {"AdjustLru"} => serialized' = serialized
           /\ pc[t] # "SetMaxBytes" => maxBytes' = maxBytes
           /\ pc[t] \notin StorePcs => generations' = generations
           /\ pc[t] \notin StorePcs \cup {"CommitStore"} => entries' = entries
           /\ pc[t] \notin MapPcs => cache' = cache
           /\ pc[t] \notin {"UploadMove", "SaveModel"} => disk' = disk
           /\ pc[t] \notin {"UploadMove", "AddMaps"} => installed' = installed
<1>1. /\ pc[t] \notin PendingPcs => pending' = pending
      /\ pc[t] # "ClearStates" => epoch' = epoch
      /\ pc[t] \notin LoadPcs => loadState' = loadState
      /\ pc[t] \notin {"Register", "Fulfil", "EraseFlight"} => inFlight' = inFlight
  <2>1. CASE UNCHANGED loadVars
    BY <2>1 DEF loadVars
  <2>2. CASE LoadSection(t)
    BY <2>2 DEF LoadSection, Announce, AnnounceLoaded, AnnounceFailed, EraseState, InvState,
         ClearLoadStates, AsyncCheck, AsyncUnmark, UnmarkLoaded, TransitionLoadState,
         EraseLoadState, ClearStates, MarkPending, UnmarkPending, loadVars, LoadPcs, PendingPcs
  <2>3. CASE FlightSection(t)
    BY <2>3 DEF FlightSection, Register, Fulfil, EraseFlight, EvictState, AddLoaded,
         RegisterInFlight, FulfilPromise, EraseInFlight, TransitionLoadState, loadVars, LoadPcs
  <2> QED
    BY <2>1, <2>2, <2>3, Components
<1>2. /\ pc[t] \notin SlotPcs => active' = active /\ outstanding' = outstanding
      /\ maxLoads' = maxLoads
  <2>1. CASE UNCHANGED slotVars
    BY <2>1 DEF slotVars
  <2>2. CASE SlotSection(t)
    BY <2>2 DEF SlotSection, AsyncCount, AsyncUncount, Acquire, Release, Uncount, ScheduleCount,
         ScheduleUncount, CountThread, UncountThread, AcquireSlot, ReleaseSlot, SlotPcs
  <2> QED
    BY <2>1, <2>2, Components
<1>3. /\ pc[t] \notin ChargePcs => charged' = charged
      /\ pc[t] \notin ChargePcs \cup {"AdjustLru"} => serialized' = serialized
      /\ pc[t] # "SetMaxBytes" => maxBytes' = maxBytes
  <2>1. CASE UNCHANGED lruVars
    BY <2>1 DEF lruVars
  <2>2. CASE LruSection(t)
    <3>1. CASE TouchHit(t) \/ TouchJoin(t) \/ Resync(t) \/ AdjustLru(t) \/ ClearLru(t)
      BY <3>1 DEF TouchHit, TouchJoin, Resync, AdjustLru, ClearLru, TouchLru, ResyncEntry,
         AdjustLruSerializedBytes, LruClear, ChargePcs
    <3>2. CASE Charge(t)
      BY <3>2 DEF Charge, ChargeEntry, ChargePcs
    <3>3. CASE SetCacheMaxBytes(t)
      BY <3>3 DEF SetCacheMaxBytes, ChargePcs
    <3> QED
      BY <2>2, <3>1, <3>2, <3>3 DEF LruSection
  <2>3. CASE CommitStore(t)
    BY <2>3 DEF CommitStore, ChargePayload, ChargePcs, lruVars
  <2> QED
    BY <2>1, <2>2, <2>3, Components
<1>4. /\ pc[t] \notin StorePcs => generations' = generations
      /\ pc[t] \notin StorePcs \cup {"CommitStore"} => entries' = entries
  <2>1. CASE UNCHANGED storeVars
    BY <2>1 DEF storeVars
  <2>2. CASE StoreSection(t) \/ CommitStore(t)
    BY <2>2 DEF StoreSection, EvictStore, InvStore, ClearStore, CommitStore, TryStore, StorePcs,
         storeVars
  <2> QED
    BY <2>1, <2>2, Components
<1>5. /\ pc[t] \notin MapPcs => cache' = cache
      /\ pc[t] \notin {"UploadMove", "SaveModel"} => disk' = disk
      /\ pc[t] \notin {"UploadMove", "AddMaps"} => installed' = installed
  <2>1. CASE UNCHANGED cacheVars
    BY <2>1 DEF cacheVars
  <2>2. CASE CacheSection(t)
    BY <2>2 DEF CacheSection, Insert, EvictMaps, AddMaps, InvMaps, SaveModel, ClearMaps,
         UploadMove, MapPcs
  <2> QED
    BY <2>1, <2>2, Components
<1> QED
  BY <1>1, <1>2, <1>3, <1>4, <1>5
-----------------------------------------------------------------------------
(* The program counter tells the section.                                  *)

\* Where each section starts.
LEMMA SectionPcs ==
    ASSUME NEW t \in Threads
    PROVE  /\ (Lookup(t) => pc[t] = "Lookup")
           /\ (CaptureGen(t) => pc[t] = "CaptureGen")
           /\ (Join(t) => pc[t] = "Join")
           /\ (LoaderExits(t) => pc[t] \in {"Announce", "Insert"})
           /\ (LoadDesign(t) => pc[t] = "Load")
           /\ (LoadFileArchive(t) => pc[t] = "Load")
           /\ (BuildDesign(t) => pc[t] = "Build")
           /\ (CheckGen(t) => pc[t] = "CheckGen")
           /\ (CheckEpoch(t) => pc[t] = "CheckEpoch")
           /\ (CheckFailed(t) => pc[t] = "CheckFailed")
           /\ (Estimate(t) => pc[t] = "Estimate")
           /\ (ResyncEstimate(t) => pc[t] = "ResyncEstimate")
           /\ (WarmCheck(t) => pc[t] = "WarmCheck")
           /\ (ReqState(t) => pc[t] = "ReqState")
           /\ (ReqContains(t) => pc[t] = "ReqContains")
           /\ (SpawnFails(t) => pc[t] \in {"AsyncSpawn", "ScheduleSpawn"})
           /\ (ScheduleGen(t) => pc[t] = "ScheduleGen")
           /\ (SerDesign(t) => pc[t] = "SerDesign")
           /\ (SerGen(t) => pc[t] = "SerGen")
           /\ (SerEpoch(t) => pc[t] = "SerEpoch")
           /\ (BuildPayload(t) => pc[t] = "BuildPayload")
           /\ (CommitIdentity(t) => pc[t] = "CommitIdentity")
           /\ (Announce(t) => pc[t] = "Announce")
           /\ (AnnounceLoaded(t) => pc[t] = "AnnounceLoaded")
           /\ (AnnounceFailed(t) => pc[t] = "AnnounceFailed")
           /\ (EraseState(t) => pc[t] = "EraseState")
           /\ (InvState(t) => pc[t] = "InvState")
           /\ (AsyncCheck(t) => pc[t] = "AsyncCheck")
           /\ (AsyncUnmark(t) => pc[t] = "AsyncUnmark")
           /\ (ClearLoadStates(t) => pc[t] = "ClearStates")
           /\ (UnmarkLoaded(t) => pc[t] = "UnmarkPending")
           /\ (Register(t) => pc[t] = "Register")
           /\ (Fulfil(t) => pc[t] = "Fulfil")
           /\ (EraseFlight(t) => pc[t] = "EraseFlight")
           /\ (EvictState(t) => pc[t] = "EvictState")
           /\ (AddLoaded(t) => pc[t] = "AddLoaded")
           /\ (TouchHit(t) => pc[t] = "TouchHit")
           /\ (TouchJoin(t) => pc[t] = "TouchJoin")
           /\ (Charge(t) => pc[t] = "Charge")
           /\ (Resync(t) => pc[t] = "Resync")
           /\ (AdjustLru(t) => pc[t] = "AdjustLru")
           /\ (ClearLru(t) => pc[t] = "ClearLru")
           /\ (SetCacheMaxBytes(t) => pc[t] = "SetMaxBytes")
           /\ (EvictStore(t) => pc[t] = "EvictStore")
           /\ (InvStore(t) => pc[t] = "InvStore")
           /\ (ClearStore(t) => pc[t] = "ClearStore")
           /\ (Insert(t) => pc[t] = "Insert")
           /\ (EvictMaps(t) => pc[t] = "EvictMaps")
           /\ (AddMaps(t) => pc[t] = "AddMaps")
           /\ (InvMaps(t) => pc[t] = "InvMaps")
           /\ (SaveModel(t) => pc[t] = "SaveModel")
           /\ (ClearMaps(t) => pc[t] = "ClearMaps")
           /\ (UploadMove(t) => pc[t] = "UploadMove")
           /\ (AsyncCount(t) => pc[t] = "AsyncCount")
           /\ (AsyncUncount(t) => pc[t] = "AsyncUncount")
           /\ (Uncount(t) => pc[t] = "Uncount")
           /\ (ScheduleCount(t) => pc[t] = "ScheduleCount")
           /\ (ScheduleUncount(t) => pc[t] = "ScheduleUncount")
           /\ (Acquire(t) => pc[t] = "AcquireSlot")
           /\ (Release(t) => pc[t] = "ReleaseSlot")
           /\ (CommitStore(t) => pc[t] = "CommitStore")
           /\ (Call(t) => pc[t] = "Idle")
           /\ ((\E w \in Workers : Spawns(t, w)) => pc[t] \in {"AsyncSpawn", "ScheduleSpawn"})
<1>1. /\ (Lookup(t) => pc[t] = "Lookup")
      /\ (CaptureGen(t) => pc[t] = "CaptureGen")
      /\ (Join(t) => pc[t] = "Join")
      /\ (LoaderExits(t) => pc[t] \in {"Announce", "Insert"})
      /\ (LoadDesign(t) => pc[t] = "Load")
      /\ (LoadFileArchive(t) => pc[t] = "Load")
      /\ (BuildDesign(t) => pc[t] = "Build")
      /\ (CheckGen(t) => pc[t] = "CheckGen")
      /\ (CheckEpoch(t) => pc[t] = "CheckEpoch")
      /\ (CheckFailed(t) => pc[t] = "CheckFailed")
  BY DEF Lookup, CaptureGen, Join, LoaderExits, LoadDesign, LoadFileArchive, BuildDesign,
         CheckGen, CheckEpoch, CheckFailed
<1>2. /\ (Estimate(t) => pc[t] = "Estimate")
      /\ (ResyncEstimate(t) => pc[t] = "ResyncEstimate")
      /\ (WarmCheck(t) => pc[t] = "WarmCheck")
      /\ (ReqState(t) => pc[t] = "ReqState")
      /\ (ReqContains(t) => pc[t] = "ReqContains")
      /\ (SpawnFails(t) => pc[t] \in {"AsyncSpawn", "ScheduleSpawn"})
      /\ (ScheduleGen(t) => pc[t] = "ScheduleGen")
      /\ (SerDesign(t) => pc[t] = "SerDesign")
      /\ (SerGen(t) => pc[t] = "SerGen")
      /\ (SerEpoch(t) => pc[t] = "SerEpoch")
      /\ (BuildPayload(t) => pc[t] = "BuildPayload")
      /\ (CommitIdentity(t) => pc[t] = "CommitIdentity")
  BY DEF Estimate, ResyncEstimate, WarmCheck, ReqState, ReqContains, SpawnFails, ScheduleGen,
         SerDesign, SerGen, SerEpoch, BuildPayload, CommitIdentity
<1>3. /\ (Announce(t) => pc[t] = "Announce")
      /\ (AnnounceLoaded(t) => pc[t] = "AnnounceLoaded")
      /\ (AnnounceFailed(t) => pc[t] = "AnnounceFailed")
      /\ (EraseState(t) => pc[t] = "EraseState")
      /\ (InvState(t) => pc[t] = "InvState")
      /\ (AsyncCheck(t) => pc[t] = "AsyncCheck")
      /\ (AsyncUnmark(t) => pc[t] = "AsyncUnmark")
      /\ (ClearLoadStates(t) => pc[t] = "ClearStates")
      /\ (UnmarkLoaded(t) => pc[t] = "UnmarkPending")
  BY DEF Announce, AnnounceLoaded, AnnounceFailed, EraseState, InvState, AsyncCheck,
         AsyncUnmark, ClearLoadStates, UnmarkLoaded
<1>4. /\ (Register(t) => pc[t] = "Register")
      /\ (Fulfil(t) => pc[t] = "Fulfil")
      /\ (EraseFlight(t) => pc[t] = "EraseFlight")
      /\ (EvictState(t) => pc[t] = "EvictState")
      /\ (AddLoaded(t) => pc[t] = "AddLoaded")
  BY DEF Register, Fulfil, EraseFlight, EvictState, AddLoaded
<1>5. /\ (TouchHit(t) => pc[t] = "TouchHit")
      /\ (TouchJoin(t) => pc[t] = "TouchJoin")
      /\ (Charge(t) => pc[t] = "Charge")
      /\ (Resync(t) => pc[t] = "Resync")
      /\ (AdjustLru(t) => pc[t] = "AdjustLru")
      /\ (ClearLru(t) => pc[t] = "ClearLru")
      /\ (SetCacheMaxBytes(t) => pc[t] = "SetMaxBytes")
  BY DEF TouchHit, TouchJoin, Charge, Resync, AdjustLru, ClearLru, SetCacheMaxBytes
<1>6. /\ (EvictStore(t) => pc[t] = "EvictStore")
      /\ (InvStore(t) => pc[t] = "InvStore")
      /\ (ClearStore(t) => pc[t] = "ClearStore")
  BY DEF EvictStore, InvStore, ClearStore
<1>7. /\ (Insert(t) => pc[t] = "Insert")
      /\ (EvictMaps(t) => pc[t] = "EvictMaps")
      /\ (AddMaps(t) => pc[t] = "AddMaps")
      /\ (InvMaps(t) => pc[t] = "InvMaps")
      /\ (SaveModel(t) => pc[t] = "SaveModel")
      /\ (ClearMaps(t) => pc[t] = "ClearMaps")
      /\ (UploadMove(t) => pc[t] = "UploadMove")
  BY DEF Insert, EvictMaps, AddMaps, InvMaps, SaveModel, ClearMaps, UploadMove
<1>8. /\ (AsyncCount(t) => pc[t] = "AsyncCount")
      /\ (AsyncUncount(t) => pc[t] = "AsyncUncount")
      /\ (Uncount(t) => pc[t] = "Uncount")
      /\ (ScheduleCount(t) => pc[t] = "ScheduleCount")
      /\ (ScheduleUncount(t) => pc[t] = "ScheduleUncount")
      /\ (Acquire(t) => pc[t] = "AcquireSlot")
      /\ (Release(t) => pc[t] = "ReleaseSlot")
  BY DEF AsyncCount, AsyncUncount, Uncount, ScheduleCount, ScheduleUncount, Acquire, Release
<1>9. /\ (CommitStore(t) => pc[t] = "CommitStore")
      /\ (Call(t) => pc[t] = "Idle")
      /\ ((\E w \in Workers : Spawns(t, w)) => pc[t] \in {"AsyncSpawn", "ScheduleSpawn"})
  BY DEF CommitStore, Call, Spawns, AsyncSpawn, ScheduleSpawn
<1> QED
  BY <1>1, <1>2, <1>3, <1>4, <1>5, <1>6, <1>7, <1>8, <1>9, Zenon

\* Which section starts there.
LEMMA SectionAt ==
    ASSUME NEW t \in Threads, Section(t)
    PROVE  /\ (pc[t] = "Lookup" => Lookup(t))
           /\ (pc[t] = "CaptureGen" => CaptureGen(t))
           /\ (pc[t] = "Join" => Join(t))
           /\ (pc[t] = "Announce" => LoaderExits(t) \/ Announce(t))
           /\ (pc[t] = "Insert" => LoaderExits(t) \/ Insert(t))
           /\ (pc[t] = "Load" => LoadDesign(t) \/ LoadFileArchive(t))
           /\ (pc[t] = "Build" => BuildDesign(t))
           /\ (pc[t] = "CheckGen" => CheckGen(t))
           /\ (pc[t] = "CheckEpoch" => CheckEpoch(t))
           /\ (pc[t] = "CheckFailed" => CheckFailed(t))
           /\ (pc[t] = "Estimate" => Estimate(t))
           /\ (pc[t] = "ResyncEstimate" => ResyncEstimate(t))
           /\ (pc[t] = "WarmCheck" => WarmCheck(t))
           /\ (pc[t] = "ReqState" => ReqState(t))
           /\ (pc[t] = "ReqContains" => ReqContains(t))
           /\ (pc[t] = "AsyncSpawn" => SpawnFails(t) \/ \E w \in Workers : Spawns(t, w))
           /\ (pc[t] = "ScheduleSpawn" => SpawnFails(t) \/ \E w \in Workers : Spawns(t, w))
           /\ (pc[t] = "ScheduleGen" => ScheduleGen(t))
           /\ (pc[t] = "SerDesign" => SerDesign(t))
           /\ (pc[t] = "SerGen" => SerGen(t))
           /\ (pc[t] = "SerEpoch" => SerEpoch(t))
           /\ (pc[t] = "BuildPayload" => BuildPayload(t))
           /\ (pc[t] = "CommitIdentity" => CommitIdentity(t))
           /\ (pc[t] = "AnnounceLoaded" => AnnounceLoaded(t))
           /\ (pc[t] = "AnnounceFailed" => AnnounceFailed(t))
           /\ (pc[t] = "EraseState" => EraseState(t))
           /\ (pc[t] = "InvState" => InvState(t))
           /\ (pc[t] = "AsyncCheck" => AsyncCheck(t))
           /\ (pc[t] = "AsyncUnmark" => AsyncUnmark(t))
           /\ (pc[t] = "ClearStates" => ClearLoadStates(t))
           /\ (pc[t] = "UnmarkPending" => UnmarkLoaded(t))
           /\ (pc[t] = "Register" => Register(t))
           /\ (pc[t] = "Fulfil" => Fulfil(t))
           /\ (pc[t] = "EraseFlight" => EraseFlight(t))
           /\ (pc[t] = "EvictState" => EvictState(t))
           /\ (pc[t] = "AddLoaded" => AddLoaded(t))
           /\ (pc[t] = "TouchHit" => TouchHit(t))
           /\ (pc[t] = "TouchJoin" => TouchJoin(t))
           /\ (pc[t] = "Charge" => Charge(t))
           /\ (pc[t] = "Resync" => Resync(t))
           /\ (pc[t] = "AdjustLru" => AdjustLru(t))
           /\ (pc[t] = "ClearLru" => ClearLru(t))
           /\ (pc[t] = "SetMaxBytes" => SetCacheMaxBytes(t))
           /\ (pc[t] = "EvictStore" => EvictStore(t))
           /\ (pc[t] = "InvStore" => InvStore(t))
           /\ (pc[t] = "ClearStore" => ClearStore(t))
           /\ (pc[t] = "EvictMaps" => EvictMaps(t))
           /\ (pc[t] = "AddMaps" => AddMaps(t))
           /\ (pc[t] = "InvMaps" => InvMaps(t))
           /\ (pc[t] = "SaveModel" => SaveModel(t))
           /\ (pc[t] = "ClearMaps" => ClearMaps(t))
           /\ (pc[t] = "UploadMove" => UploadMove(t))
           /\ (pc[t] = "AsyncCount" => AsyncCount(t))
           /\ (pc[t] = "AsyncUncount" => AsyncUncount(t))
           /\ (pc[t] = "Uncount" => Uncount(t))
           /\ (pc[t] = "ScheduleCount" => ScheduleCount(t))
           /\ (pc[t] = "ScheduleUncount" => ScheduleUncount(t))
           /\ (pc[t] = "AcquireSlot" => Acquire(t))
           /\ (pc[t] = "ReleaseSlot" => Release(t))
           /\ (pc[t] = "CommitStore" => CommitStore(t))
  BY SectionPcs DEF Section, ReadingFlight, ReadingOther, LoadSection, FlightSection, LruSection, StoreSection, CacheSection, SlotSection
-----------------------------------------------------------------------------
(* Pending asynchronous loads.                                             *)

\* Thread t, at p with locals l, has marked n and still has to unmark it.
Marks(t, p, l, n) ==
    /\ l.name = n
    /\ \/ p \in {"AsyncCount", "AsyncSpawn", "AsyncUncount", "AsyncUnmark"}
       \/ t \in Workers /\ l.job = "load" /\ p \notin {"Idle", "Uncount"}

LEMMA MarkKept ==
    ASSUME BaseInv, NEW t \in Threads, Section(t), \A w \in Workers : ~Spawns(t, w),
           NEW n, Marks(t, pc[t], loc[t], n), pc[t] \notin {"AsyncUnmark", "UnmarkPending"}
    PROVE  Marks(t, pc'[t], loc'[t], n)
<1>0. ThreadTypeOK /\ TeamOK(t, pc[t], loc[t])
  BY DEF BaseInv, TypeInv, TeamInv
<1>1. CASE pc[t] \in {"AsyncCount", "AsyncSpawn", "AsyncUncount"}
  <2>1. \E to \in {"AsyncSpawn", "AsyncUncount", "AsyncUnmark"} : Moves(t, to, {})
    BY <1>0, <1>1, SectionAt, AsyncMoves
  <2> QED
    BY <2>1 DEF Moves, Fields, Marks
<1>2. CASE t \in Workers /\ loc[t].job = "load" /\ pc[t] \notin {"Idle", "Uncount"}
  <2>1. pc[t] \in BusyPcs \cup {"AcquireSlot", "ReleaseSlot"}
    BY <1>0, <1>2 DEF TeamOK, BusyPcs, DetachedPcs
  <2>2. CASE pc[t] \in BusyPcs
    BY <1>2, <2>2, BusyStays DEF Busy, Marks
  <2>3. CASE pc[t] \in {"AcquireSlot", "ReleaseSlot"}
    <3>1. \E to \in {"Lookup", "UnmarkPending"} : Moves(t, to, {})
      BY <1>0, <1>2, <2>3, SectionAt, WorkerMoves
    <3> QED
      BY <1>2, <3>1 DEF Moves, Fields, Marks
  <2> QED
    BY <2>1, <2>2, <2>3
<1> QED
  BY <1>1, <1>2 DEF Marks

LEMMA PendingStep ==
    ASSUME BaseInv, PendingHasThread, [Next]_vars
    PROVE  PendingHasThread'
<1>0. ThreadTypeOK /\ TypeInv
  BY DEF BaseInv, TypeInv
<1>1. \A n \in pending : \E u \in Threads : Marks(u, pc[u], loc[u], n)
  BY DEF PendingHasThread, Marks, Name
<1>2. SUFFICES ASSUME NEW n \in pending'
               PROVE  \E u \in Threads : Marks(u, pc'[u], loc'[u], n)
  BY DEF PendingHasThread, Marks, Name
<1>3. CASE UNCHANGED vars
  BY <1>1, <1>3 DEF vars, loadVars, threadVars
<1>4. ASSUME NEW t \in Threads, NEW w \in Workers, Spawns(t, w)
      PROVE  \E u \in Threads : Marks(u, pc'[u], loc'[u], n)
  <2>1. pending' = pending
    BY <1>0, <1>4, SpawnMoves DEF shared, loadVars
  <2>2. PICK u \in Threads : Marks(u, pc[u], loc[u], n)
    BY <1>1, <2>1
  <2>3. CASE u = t
    BY <1>0, <1>4, <2>2, <2>3, SpawnMoves DEF Starts, Marks, Name
  <2>4. CASE u # t
    <3>1. u # w
      BY <1>0, <1>4, <2>2, SpawnMoves DEF Marks
    <3> QED
      BY <1>0, <1>4, <2>2, <2>4, <3>1, SpawnMoves DEF Spawned
  <2> QED
    BY <2>3, <2>4
<1>5. ASSUME NEW t \in Threads, Section(t), \A w \in Workers : ~Spawns(t, w)
      PROVE  \E u \in Threads : Marks(u, pc'[u], loc'[u], n)
  <2>1. ASSUME NEW u \in Threads \ {t}, Marks(u, pc[u], loc[u], n)
        PROVE  Marks(u, pc'[u], loc'[u], n)
    <3>1. Undisturbed(u)
      BY <1>0, <1>5, OthersStay
    <3> QED
      BY <2>1, <3>1 DEF Undisturbed, Fields, Marks
  <2>2. CASE pc[t] \notin PendingPcs
    <3>1. n \in pending
      BY <1>5, <2>2, Frame
    <3> QED
      BY <1>1, <1>5, <2>1, <2>2, <3>1, MarkKept DEF PendingPcs
  <2>3. CASE pc[t] = "AsyncCheck"
    <3>1. \/ Moves(t, "Idle", {}) /\ UNCHANGED loadVars
          \/ Moves(t, "AsyncCount", {}) /\ MarkPending(Name(t))
      BY <1>0, <1>5, <2>3, SectionAt, AsyncMoves
    <3>2. CASE n \in pending
      BY <1>1, <1>5, <2>1, <2>3, <3>2, MarkKept
    <3>3. CASE n \notin pending
      BY <3>1, <3>3 DEF MarkPending, loadVars, Moves, Fields, Marks, Name
    <3> QED
      BY <3>2, <3>3
  <2>4. CASE pc[t] \in {"AsyncUnmark", "UnmarkPending"}
    <3>1. UnmarkPending(Name(t))
      BY <1>5, <2>4, SectionAt DEF AsyncUnmark, UnmarkLoaded
    <3>2. n \in pending /\ n # Name(t)
      BY <3>1 DEF UnmarkPending
    <3> QED
      BY <1>1, <2>1, <3>2 DEF Marks, Name
  <2> QED
    BY <2>2, <2>3, <2>4 DEF PendingPcs
<1> QED
  BY <1>3, <1>4, <1>5, StepCases

\* LoadDesignAsync: for any number of names, threads and requests, whatever load,
\* spawn or parse fails and whoever clears or invalidates, a name with a pending
\* marker has a thread that will drop the marker: RequestLoad and the auto-warm never
\* refuse a name for ever because of a marker that was forgotten.
THEOREM MarkersAreOwned == Spec => []PendingHasThread
<1>1. Init => BaseInv /\ PendingHasThread
  BY BaseInitial DEF Init, LoadInit, PendingHasThread
<1>2. BaseInv /\ PendingHasThread /\ [Next]_vars => (BaseInv /\ PendingHasThread)'
  BY BaseStep, PendingStep
<1> QED
  BY <1>1, <1>2, PTL DEF Spec
-----------------------------------------------------------------------------
(* The control flow graph.                                                 *)

\* Where the innermost activation of GetOrLoadSingleFlight returns or throws to.
LeavePcs == {"Fulfil", "Build"} \cup RetPcs

LEMMA Leaves ==
    ASSUME NEW t \in Threads, loc[t].ret \in RetPcs, (\E v : Returns(t, v)) \/ Throws(t)
    PROVE  pc'[t] \in LeavePcs
<1>1. \E to \in {"Fulfil", "Build", loc[t].ret, "ReleaseSlot", "Idle"} : pc'[t] = to
  BY Zenon DEF Returns, Throws, Unnests, Moves
<1> QED
  BY <1>1 DEF LeavePcs, RetPcs

\* GetOrLoadSingleFlight.
LEMMA FlightFlow ==
    ASSUME TypeInv, CInv, NEW t \in Threads, Section(t)
    PROVE  /\ pc[t] = "Lookup" => pc'[t] \in {"TouchHit", "CaptureGen"}
           /\ pc[t] \in {"TouchHit", "TouchJoin", "EraseFlight"} => pc'[t] \in LeavePcs
           /\ pc[t] = "CaptureGen" => pc'[t] = "Register"
           /\ pc[t] = "Register" => pc'[t] \in {"Join", "Announce", "Load"}
           /\ pc[t] = "Join" => pc'[t] \in {"TouchJoin"} \cup LeavePcs
           /\ pc[t] = "Announce" => pc'[t] \in {"Load", "Fulfil"}
           /\ pc[t] = "Load" => pc'[t] \in {"Fulfil", "Lookup", "CheckGen"}
           /\ pc[t] = "Build" => pc'[t] \in {"Fulfil", "CheckGen"}
           /\ pc[t] = "CheckGen" => pc'[t] = "CheckEpoch"
           /\ pc[t] = "CheckEpoch" => pc'[t] \in {"Fulfil", "Insert"}
           /\ pc[t] = "Insert" => pc'[t] \in {"Fulfil", "Estimate"}
           /\ pc[t] = "AnnounceLoaded" => pc'[t] = "Fulfil"
           /\ pc[t] = "Fulfil" => pc'[t] \in {"CheckFailed", "EraseState", "EraseFlight"}
           /\ pc[t] = "CheckFailed" => pc'[t] \in {"AnnounceFailed", "EraseFlight"}
           /\ pc[t] \in {"AnnounceFailed", "EraseState"} => pc'[t] = "EraseFlight"
<1>0. ThreadTypeOK /\ loc[t].ret \in RetPcs
  BY ThreadFacts DEF TypeInv, Shape
<1> USE <1>0
<1>1. /\ pc[t] = "Lookup" => pc'[t] \in {"TouchHit", "CaptureGen"}
      /\ pc[t] = "CaptureGen" => pc'[t] = "Register"
      /\ pc[t] \in {"TouchHit", "TouchJoin"} => pc'[t] \in LeavePcs
      /\ pc[t] = "Join" => pc'[t] \in {"TouchJoin"} \cup LeavePcs
  BY SectionAt, LookupMoves, Leaves DEF Moves
<1>2. /\ pc[t] = "Register" => pc'[t] \in {"Join", "Announce", "Load"}
      /\ pc[t] = "Announce" => pc'[t] \in {"Load", "Fulfil"}
  BY SectionAt, RegisterMoves DEF Moves, Ends
<1>3. /\ pc[t] = "Load" => pc'[t] \in {"Fulfil", "Lookup", "CheckGen"}
      /\ pc[t] = "Build" => pc'[t] \in {"Fulfil", "CheckGen"}
  <2>1. /\ pc[t] = "Load" => \/ Moves(t, "Lookup", {"kind", "nested"})
                             \/ Moves(t, "CheckGen", {"val"}) \/ \E o : Ends(t, o)
        /\ pc[t] = "Build" => Moves(t, "CheckGen", {"val"}) \/ \E o : Ends(t, o)
    BY SectionAt, LoadMoves, Zenon
  <2> QED
    BY <2>1 DEF Moves, Ends
<1>4. /\ pc[t] = "CheckGen" => pc'[t] = "CheckEpoch"
      /\ pc[t] = "CheckEpoch" => pc'[t] \in {"Fulfil", "Insert"}
      /\ pc[t] = "Insert" => pc'[t] \in {"Fulfil", "Estimate"}
  <2>1. /\ pc[t] = "CheckGen" => Moves(t, "CheckEpoch", {"stale"})
        /\ pc[t] = "CheckEpoch" => \/ Moves(t, "Fulfil", {"stale", "outcome"})
                                   \/ Moves(t, "Insert", {"stale", "outcome"})
        /\ pc[t] = "Insert" => \/ Moves(t, "Estimate", {"val"}) \/ Moves(t, "Estimate", {})
                               \/ Ends(t, "guard")
    BY SectionAt, CheckMoves, RegisterMoves, Zenon
  <2> QED
    BY <2>1 DEF Moves, Ends
<1>5. /\ pc[t] = "AnnounceLoaded" => pc'[t] = "Fulfil"
      /\ pc[t] = "CheckFailed" => pc'[t] \in {"AnnounceFailed", "EraseFlight"}
      /\ pc[t] \in {"AnnounceFailed", "EraseState"} => pc'[t] = "EraseFlight"
      /\ pc[t] = "EraseFlight" => pc'[t] \in LeavePcs
  BY SectionAt, SettleMoves, Leaves DEF Moves
<1>6. pc[t] = "Fulfil" => pc'[t] \in {"CheckFailed", "EraseState", "EraseFlight"}
  BY SectionAt, FulfilMoves
<1> QED
  BY <1>1, <1>2, <1>3, <1>4, <1>5, <1>6

\* InsertLruAndEvict, AddFileArchive, InvalidateDesign, Clear and setCacheMaxBytes.
LEMMA DropFlow ==
    ASSUME TypeInv, CInv, NEW t \in Threads, Section(t)
    PROVE  /\ pc[t] = "Estimate" => pc'[t] = "Charge"
           /\ pc[t] = "Charge" => pc'[t] \in {"EvictStore", "AddLoaded"} \cup LoaderAfter
           /\ pc[t] = "EvictStore" => pc'[t] = "EvictMaps"
           /\ pc[t] = "EvictMaps" => pc'[t] = "EvictState"
           /\ pc[t] = "EvictState" =>
              pc'[t] \in {"EvictStore", "AddLoaded"} \cup LoaderAfter \cup RetPcs
           /\ pc[t] = "AddMaps" => pc'[t] = "InvStore"
           /\ pc[t] = "AddLoaded" => pc'[t] \in {"Idle", "Lookup"}
           /\ pc[t] = "SaveModel" => pc'[t] = "ResyncEstimate"
           /\ pc[t] = "ResyncEstimate" => pc'[t] = "Resync"
           /\ pc[t] = "Resync" => pc'[t] = "Idle"
           /\ pc[t] = "InvMaps" => pc'[t] = "InvStore"
           /\ pc[t] = "InvStore" => pc'[t] = "AdjustLru"
           /\ pc[t] = "AdjustLru" => pc'[t] \in {"Estimate", "InvState"}
           /\ pc[t] = "InvState" => pc'[t] \in RetPcs
           /\ pc[t] = "ClearMaps" => pc'[t] = "ClearLru"
           /\ pc[t] = "ClearLru" => pc'[t] = "ClearStore"
           /\ pc[t] = "ClearStore" => pc'[t] = "ClearStates"
           /\ pc[t] = "ClearStates" => pc'[t] = "Idle"
           /\ pc[t] = "SetMaxBytes" => pc'[t] \in {"Idle", "EvictStore"}
<1>0. ThreadTypeOK /\ Shape(pc[t], loc[t])
  BY ThreadFacts DEF TypeInv
<1> USE <1>0
<1>1. /\ pc[t] = "Estimate" => pc'[t] = "Charge"
      /\ pc[t] = "ResyncEstimate" => pc'[t] = "Resync"
      /\ pc[t] = "Resync" => pc'[t] = "Idle"
      /\ pc[t] = "EvictStore" => pc'[t] = "EvictMaps"
      /\ pc[t] = "EvictMaps" => pc'[t] = "EvictState"
  <2>1. /\ pc[t] = "Estimate" => Moves(t, "Charge", {"bytes"})
        /\ pc[t] = "ResyncEstimate" => Moves(t, "Resync", {"bytes"})
        /\ pc[t] = "Resync" => Moves(t, "Idle", {})
        /\ pc[t] = "EvictStore" => Moves(t, "EvictMaps", {"victim"})
        /\ pc[t] = "EvictMaps" => Moves(t, "EvictState", {})
    BY SectionAt, BudgetMoves, Zenon
  <2> QED
    BY <2>1 DEF Moves
<1>2. /\ pc[t] = "Charge" => pc'[t] \in {"EvictStore", "AddLoaded"} \cup LoaderAfter
      /\ pc[t] = "SetMaxBytes" => pc'[t] \in {"Idle", "EvictStore"}
      /\ pc[t] = "EvictState" =>
           pc'[t] \in {"EvictStore", "AddLoaded"} \cup LoaderAfter \cup RetPcs
  <2>1. /\ pc[t] = "Charge" => \E V : \/ Evicts(t, V, "AddLoaded") \/ Evicts(t, V, AfterInsert(t))
        /\ pc[t] = "SetMaxBytes" => \E V : Evicts(t, V, "Idle")
        /\ pc[t] = "EvictState" => \E to \in {loc[t].after, "EvictStore"} :
                                        Moves(t, to, {"victims", "victim"})
    BY SectionAt, BudgetMoves, Zenon
  <2>2. AfterInsert(t) \in LoaderAfter
    BY DEF AfterInsert, LoaderAfter
  <2> QED
    BY <2>1, <2>2 DEF Moves, Evicts, Shape, EvictPcs
<1>3. /\ pc[t] = "AddMaps" => pc'[t] = "InvStore"
      /\ pc[t] = "SaveModel" => pc'[t] = "ResyncEstimate"
      /\ pc[t] = "InvMaps" => pc'[t] = "InvStore"
      /\ pc[t] = "InvStore" => pc'[t] = "AdjustLru"
      /\ pc[t] = "InvState" => pc'[t] \in RetPcs
      /\ pc[t] = "ClearMaps" => pc'[t] = "ClearLru"
      /\ pc[t] = "ClearLru" => pc'[t] = "ClearStore"
      /\ pc[t] = "ClearStore" => pc'[t] = "ClearStates"
      /\ pc[t] = "ClearStates" => pc'[t] = "Idle"
  BY SectionAt, DropMoves DEF Moves, Shape
<1>4. /\ pc[t] = "AdjustLru" => pc'[t] \in {"Estimate", "InvState"}
      /\ pc[t] = "AddLoaded" => pc'[t] \in {"Idle", "Lookup"}
  BY SectionAt, AdjustMoves, AddLoadedMoves DEF Moves, Starts, Shape
<1> QED
  BY <1>1, <1>2, <1>3, <1>4

\* The requests that end in LoadDesignAsync, detached threads and serialization.
LEMMA AsyncFlow ==
    ASSUME TypeInv, CInv, NEW t \in Threads, Section(t)
    PROVE  /\ pc[t] = "UploadMove" => pc'[t] = "WarmCheck"
           /\ pc[t] = "WarmCheck" => pc'[t] \in {"InvMaps", "AsyncCheck"}
           /\ pc[t] = "ReqState" => pc'[t] \in {"Idle", "ReqContains"}
           /\ pc[t] = "ReqContains" => pc'[t] \in {"Idle", "AsyncCheck"}
           /\ pc[t] = "AsyncCheck" => pc'[t] \in {"Idle", "AsyncCount"}
           /\ pc[t] = "AsyncCount" => pc'[t] = "AsyncSpawn"
           /\ pc[t] = "AsyncSpawn" => pc'[t] \in {"Idle", "AsyncUncount"}
           /\ pc[t] = "AsyncUncount" => pc'[t] = "AsyncUnmark"
           /\ pc[t] = "AsyncUnmark" => pc'[t] = "Idle"
           /\ pc[t] = "AcquireSlot" => pc'[t] \in {"Lookup", "BuildPayload"}
           /\ pc[t] = "ReleaseSlot" => pc'[t] \in {"UnmarkPending", "Uncount"}
           /\ pc[t] = "UnmarkPending" => pc'[t] = "Uncount"
           /\ pc[t] = "Uncount" => pc'[t] = "Idle"
           /\ pc[t] = "ScheduleGen" => pc'[t] = "ScheduleCount"
           /\ pc[t] = "ScheduleCount" => pc'[t] = "ScheduleSpawn"
           /\ pc[t] = "ScheduleSpawn" => pc'[t] \in {"AnnounceLoaded", "ScheduleUncount"}
           /\ pc[t] = "ScheduleUncount" => pc'[t] = "AnnounceLoaded"
           /\ pc[t] = "SerDesign" => pc'[t] \in {"Idle", "SerGen"}
           /\ pc[t] = "SerGen" => pc'[t] = "SerEpoch"
           /\ pc[t] = "SerEpoch" => pc'[t] = "BuildPayload"
           /\ pc[t] = "BuildPayload" => pc'[t] \in {"CommitIdentity"} \cup RetPcs
           /\ pc[t] = "CommitIdentity" => pc'[t] \in {"CommitStore"} \cup RetPcs
           /\ pc[t] = "CommitStore" => pc'[t] \in {"EvictStore"} \cup RetPcs
<1>0. ThreadTypeOK /\ Shape(pc[t], loc[t])
  BY ThreadFacts DEF TypeInv
<1> USE <1>0
<1>1. /\ pc[t] = "UploadMove" => pc'[t] = "WarmCheck"
      /\ pc[t] = "WarmCheck" => pc'[t] \in {"InvMaps", "AsyncCheck"}
      /\ pc[t] = "ReqState" => pc'[t] \in {"Idle", "ReqContains"}
      /\ pc[t] = "ReqContains" => pc'[t] \in {"Idle", "AsyncCheck"}
      /\ pc[t] = "AsyncCheck" => pc'[t] \in {"Idle", "AsyncCount"}
      /\ pc[t] = "AsyncCount" => pc'[t] = "AsyncSpawn"
      /\ pc[t] = "AsyncUncount" => pc'[t] = "AsyncUnmark"
      /\ pc[t] = "AsyncUnmark" => pc'[t] = "Idle"
  BY SectionAt, AsyncMoves DEF Moves
<1>2. /\ pc[t] = "AsyncSpawn" => pc'[t] \in {"Idle", "AsyncUncount"}
      /\ pc[t] = "ScheduleSpawn" => pc'[t] \in {"AnnounceLoaded", "ScheduleUncount"}
  BY SectionAt, AsyncMoves, SpawnMoves DEF Moves
<1>3. /\ pc[t] = "AcquireSlot" => pc'[t] \in {"Lookup", "BuildPayload"}
      /\ pc[t] = "ReleaseSlot" => pc'[t] \in {"UnmarkPending", "Uncount"}
      /\ pc[t] = "UnmarkPending" => pc'[t] = "Uncount"
      /\ pc[t] = "Uncount" => pc'[t] = "Idle"
      /\ pc[t] = "ScheduleGen" => pc'[t] = "ScheduleCount"
      /\ pc[t] = "ScheduleCount" => pc'[t] = "ScheduleSpawn"
      /\ pc[t] = "ScheduleUncount" => pc'[t] = "AnnounceLoaded"
  BY SectionAt, WorkerMoves DEF Moves
<1>4. /\ pc[t] = "SerDesign" => pc'[t] \in {"Idle", "SerGen"}
      /\ pc[t] = "SerGen" => pc'[t] = "SerEpoch"
      /\ pc[t] = "SerEpoch" => pc'[t] = "BuildPayload"
      /\ pc[t] = "BuildPayload" => pc'[t] \in {"CommitIdentity"} \cup RetPcs
      /\ pc[t] = "CommitIdentity" => pc'[t] \in {"CommitStore"} \cup RetPcs
  BY SectionAt, SerializeMoves DEF Moves, Shape
<1>5. pc[t] = "CommitStore" => pc'[t] \in {"EvictStore"} \cup RetPcs
  <2>1. pc[t] = "CommitStore" => \/ Moves(t, loc[t].ret, {})
                                 \/ \E V : Evicts(t, V, loc[t].ret)
    BY SectionAt, CommitMoves, Zenon DEF Commits
  <2> QED
    BY <2>1 DEF Moves, Evicts, Shape
<1> QED
  BY <1>1, <1>2, <1>3, <1>4, <1>5

EntryPcs == {"Lookup", "AddMaps", "InvMaps", "ClearMaps", "SetMaxBytes", "AsyncCheck",
             "ReqState", "UploadMove", "SerDesign"}

\* A request starts.
LEMMA CallFlow ==
    ASSUME TypeInv, CInv, NEW t \in Threads, Section(t), pc[t] = "Idle"
    PROVE  Call(t) /\ pc'[t] \in EntryPcs
<1>1. Call(t)
  BY SectionPcs DEF Section, ReadingFlight, ReadingOther, LoadSection, FlightSection, LruSection,
                    StoreSection, CacheSection, SlotSection
<1>2. PICK r \in Request : pc'[t] = EntryLabel(r.op)
  BY <1>1, CallMoves DEF Starts
<1> QED
  BY <1>1, <1>2 DEF Request, Ops, EntryLabel, EntryPcs
-----------------------------------------------------------------------------
(* The counters of m_backgroundMutex.                                      *)

SpawnPcs == {"AsyncSpawn", "AsyncUncount", "ScheduleSpawn", "ScheduleUncount"}
SlotlessPcs == {"Idle", "AcquireSlot", "UnmarkPending", "Uncount"}

\* The detached threads, those that hold a slot, and the threads that have counted
\* the thread they are about to start.
Running == {w \in Workers : pc[w] # "Idle"}
Holding == {w \in Workers : pc[w] \notin SlotlessPcs}
Spawning == {t \in Threads : pc[t] \in SpawnPcs}

\* The counters count them.
SlotsExact ==
    /\ active = Cardinality(Holding)
    /\ outstanding = Cardinality(Running) + Cardinality(Spawning)

LEMMA TeamsFinite ==
    /\ IsFiniteSet(Running) /\ IsFiniteSet(Holding) /\ IsFiniteSet(Spawning)
    /\ Holding \subseteq Running /\ Running \subseteq Threads
    /\ Cardinality(Running) \in Nat /\ Cardinality(Holding) \in Nat
    /\ Cardinality(Spawning) \in Nat /\ Cardinality(Holding) <= Cardinality(Running)
<1>1. /\ Running \subseteq Threads /\ Holding \subseteq Running /\ Spawning \subseteq Threads
  BY CacheAssumption DEF Running, Holding, Spawning, SlotlessPcs
<1>2. IsFiniteSet(Running) /\ IsFiniteSet(Holding) /\ IsFiniteSet(Spawning)
  BY <1>1, ThreadsAssumption, FS_Subset
<1> QED
  BY <1>1, <1>2, FS_CardinalityType, FS_Subset

LEMMA OneMore ==
    ASSUME NEW S, IsFiniteSet(S), NEW x, x \notin S
    PROVE  Cardinality(S \cup {x}) = Cardinality(S) + 1
  BY FS_AddElement

LEMMA OneLess ==
    ASSUME NEW S, IsFiniteSet(S), NEW x \in S
    PROVE  Cardinality(S \ {x}) = Cardinality(S) - 1 /\ Cardinality(S) > 0
<1>1. Cardinality(S \ {x}) = Cardinality(S) - 1
  BY FS_RemoveElement
<1>2. Cardinality(S \ {x}) \in Nat /\ Cardinality(S) \in Nat
  BY FS_RemoveElement, FS_CardinalityType
<1> QED
  BY <1>1, <1>2

\* Where threads enter the places that count.
LEMMA CameToSpawn ==
    ASSUME BaseInv, NEW t \in Threads, Section(t)
    PROVE  /\ pc'[t] \in SpawnPcs
                => pc[t] \in {"AsyncCount", "AsyncSpawn", "ScheduleCount", "ScheduleSpawn"}
           /\ pc[t] \in {"AsyncSpawn", "ScheduleSpawn"} /\ pc'[t] \notin SpawnPcs
                => \E w \in Workers : Spawns(t, w)
<1>1. TypeInv /\ CInv /\ pc[t] \in Labels /\ ThreadTypeOK
  BY LocalFacts DEF BaseInv, TypeInv
<1>2. pc[t] = "Idle" => pc'[t] \in EntryPcs
  BY <1>1, CallFlow
<1>3. pc'[t] \in SpawnPcs
        => pc[t] \in {"AsyncCount", "AsyncSpawn", "ScheduleCount", "ScheduleSpawn"}
  BY <1>1, <1>2, FlightFlow, DropFlow, AsyncFlow
     DEF Labels, EntryPcs, LeavePcs, RetPcs, LoaderAfter, SpawnPcs
<1>4. pc[t] \in {"AsyncSpawn", "ScheduleSpawn"} /\ pc'[t] \notin SpawnPcs
        => \E w \in Workers : Spawns(t, w)
  BY <1>1, SectionAt, AsyncMoves DEF Moves, SpawnPcs
<1> QED
  BY <1>3, <1>4

\* Only the thread that takes the step enters or leaves a team.
LEMMA TeamsMove ==
    ASSUME TypeInv, NEW t \in Threads, Section(t), \A w \in Workers : ~Spawns(t, w)
    PROVE  /\ Running' = IF t \in Workers /\ pc'[t] # "Idle" THEN Running \cup {t}
                                                              ELSE Running \ {t}
           /\ Holding' = IF t \in Workers /\ pc'[t] \notin SlotlessPcs THEN Holding \cup {t}
                                                                       ELSE Holding \ {t}
           /\ Spawning' = IF pc'[t] \in SpawnPcs THEN Spawning \cup {t} ELSE Spawning \ {t}
<1>1. \A u \in Threads \ {t} : pc'[u] = pc[u]
  BY OthersStay DEF Undisturbed
<1>2. Workers \subseteq Threads
  BY CacheAssumption
<1>3. Running' = IF t \in Workers /\ pc'[t] # "Idle" THEN Running \cup {t} ELSE Running \ {t}
  BY <1>1, <1>2 DEF Running
<1>4. Holding' = IF t \in Workers /\ pc'[t] \notin SlotlessPcs THEN Holding \cup {t}
                                                               ELSE Holding \ {t}
  BY <1>1, <1>2 DEF Holding
<1>5. Spawning' = IF pc'[t] \in SpawnPcs THEN Spawning \cup {t} ELSE Spawning \ {t}
  BY <1>1 DEF Spawning
<1> QED
  BY <1>3, <1>4, <1>5

\* The counters of one step: nothing changes, or one section counts what it does.
SlotStep(t) ==
    \/ UNCHANGED slotVars /\ UNCHANGED <<Running, Holding, Spawning>>
    \/ /\ AcquireSlot /\ t \in Running \ Holding
       /\ Holding' = Holding \cup {t} /\ UNCHANGED <<Running, Spawning>>
    \/ /\ ReleaseSlot /\ t \in Holding
       /\ Holding' = Holding \ {t} /\ UNCHANGED <<Running, Spawning>>
    \/ /\ CountThread /\ t \notin Spawning
       /\ Spawning' = Spawning \cup {t} /\ UNCHANGED <<Running, Holding>>
    \/ /\ UncountThread /\ t \in Spawning
       /\ Spawning' = Spawning \ {t} /\ UNCHANGED <<Running, Holding>>
    \/ /\ UncountThread /\ t \in Running \ Holding
       /\ Running' = Running \ {t} /\ UNCHANGED <<Holding, Spawning>>
    \/ /\ UNCHANGED slotVars /\ UNCHANGED Holding /\ t \in Spawning /\ Spawning' = Spawning \ {t}
       /\ \E w \in Workers \ Running : Running' = Running \cup {w}

LEMMA SlotSteps ==
    ASSUME BaseInv, NEW t \in Threads, Section(t)
    PROVE  SlotStep(t)
<1>0. TypeInv /\ ThreadTypeOK /\ TeamOK(t, pc[t], loc[t])
  BY DEF BaseInv, TypeInv, TeamInv
<1>1. ASSUME NEW w \in Workers, Spawns(t, w)
      PROVE  SlotStep(t)
  <2>1. /\ pc[w] = "Idle" /\ pc'[w] = "AcquireSlot" /\ w # t /\ UNCHANGED slotVars
        /\ \A u \in Threads \ {t, w} : pc'[u] = pc[u]
        /\ \/ pc[t] = "AsyncSpawn" /\ pc'[t] = "Idle"
           \/ pc[t] = "ScheduleSpawn" /\ pc'[t] = "AnnounceLoaded"
    BY <1>0, <1>1, SpawnMoves DEF Starts, Spawned, shared
  <2>2. Workers \subseteq Threads
    BY CacheAssumption
  <2>3. t \in Workers => pc[t] # "AsyncSpawn"
    BY <1>0 DEF TeamOK, WorkerPcs, FlightPcs, EvictPcs
  <2>4. Running' = Running \cup {w} /\ w \notin Running
    BY <2>1, <2>2, <2>3 DEF Running
  <2>5. Holding' = Holding
    BY <2>1, <2>2, <2>3 DEF Holding, SlotlessPcs
  <2>6. Spawning' = Spawning \ {t} /\ t \in Spawning
    BY <2>1, <2>2 DEF Spawning, SpawnPcs
  <2> QED
    BY <2>1, <2>4, <2>5, <2>6 DEF SlotStep
<1>2. CASE \A w \in Workers : ~Spawns(t, w)
  <2>0. /\ Running' = IF t \in Workers /\ pc'[t] # "Idle" THEN Running \cup {t}
                                                         ELSE Running \ {t}
        /\ Holding' = IF t \in Workers /\ pc'[t] \notin SlotlessPcs THEN Holding \cup {t}
                                                                    ELSE Holding \ {t}
        /\ Spawning' = IF pc'[t] \in SpawnPcs THEN Spawning \cup {t} ELSE Spawning \ {t}
    BY <1>0, <1>2, TeamsMove
  <2>1. /\ t \in Running <=> t \in Workers /\ pc[t] # "Idle"
        /\ t \in Holding <=> t \in Workers /\ pc[t] \notin SlotlessPcs
        /\ t \in Spawning <=> pc[t] \in SpawnPcs
    BY DEF Running, Holding, Spawning
  <2>2. CASE pc[t] \in {"AsyncCount", "ScheduleCount", "AsyncUncount", "ScheduleUncount"}
    <3>1. /\ pc'[t] = CASE pc[t] = "AsyncCount" -> "AsyncSpawn"
                        [] pc[t] = "ScheduleCount" -> "ScheduleSpawn"
                        [] pc[t] = "AsyncUncount" -> "AsyncUnmark"
                        [] OTHER -> "AnnounceLoaded"
          /\ IF pc[t] \in {"AsyncCount", "ScheduleCount"} THEN CountThread ELSE UncountThread
      BY <1>0, <2>2, SectionAt, AsyncMoves, WorkerMoves
         DEF Moves, AsyncCount, ScheduleCount, AsyncUncount, ScheduleUncount
    <3>2. /\ Running' = Running /\ Holding' = Holding
      BY <2>0, <2>1, <2>2, <3>1 DEF SlotlessPcs
    <3> QED
      BY <2>0, <2>1, <2>2, <3>1, <3>2 DEF SlotStep, SpawnPcs
  <2>3. CASE pc[t] \in {"AcquireSlot", "ReleaseSlot", "Uncount"}
    <3>0. t \in Workers
      BY <1>0, <2>3 DEF TeamOK, DetachedPcs
    <3>1. CASE pc[t] = "AcquireSlot"
      <4>1. AcquireSlot /\ pc'[t] \in {"Lookup", "BuildPayload"}
        BY <1>0, <3>1, SectionAt, WorkerMoves DEF Acquire, Moves
      <4> QED
        BY <2>0, <2>1, <3>0, <3>1, <4>1 DEF SlotStep, SpawnPcs, SlotlessPcs
    <3>2. CASE pc[t] = "ReleaseSlot"
      <4>1. ReleaseSlot /\ pc'[t] \in {"UnmarkPending", "Uncount"}
        BY <1>0, <3>2, SectionAt, WorkerMoves DEF Release, Moves
      <4> QED
        BY <2>0, <2>1, <3>0, <3>2, <4>1 DEF SlotStep, SpawnPcs, SlotlessPcs
    <3>3. CASE pc[t] = "Uncount"
      <4>1. UncountThread /\ pc'[t] = "Idle"
        BY <1>0, <3>3, SectionAt, WorkerMoves DEF Uncount, Moves
      <4> QED
        BY <2>0, <2>1, <3>0, <3>3, <4>1 DEF SlotStep, SpawnPcs, SlotlessPcs
    <3> QED
      BY <2>3, <3>1, <3>2, <3>3
  <2>4. CASE pc[t] \notin SlotPcs
    <3>1. UNCHANGED slotVars
      BY <2>4, Frame DEF slotVars
    <3>2. pc'[t] \in SpawnPcs <=> pc[t] \in SpawnPcs
      BY <1>2, <2>4, CameToSpawn DEF SpawnPcs, SlotPcs
    <3>3. t \in Workers => /\ pc[t] = "Idle" <=> pc'[t] = "Idle"
                           /\ pc[t] \in SlotlessPcs <=> pc'[t] \in SlotlessPcs
      <4>1. CASE t \in Workers /\ pc[t] \in BusyPcs
        BY <1>2, <4>1, BusyStays DEF Busy, SlotlessPcs, BusyPcs, WorkerPcs, FlightPcs, EvictPcs,
           DetachedPcs
      <4>2. CASE t \in Workers /\ pc[t] = "UnmarkPending"
        BY <1>0, <4>2, SectionAt, WorkerMoves DEF Moves, SlotlessPcs
      <4>3. t \in Workers => pc[t] # "Idle"
        BY <1>0, CallFlow, CallMoves DEF BaseInv
      <4> QED
        BY <1>0, <2>4, <4>1, <4>2, <4>3 DEF TeamOK, BusyPcs, DetachedPcs, SlotPcs
    <3> QED
      BY <2>0, <2>1, <3>1, <3>2, <3>3 DEF SlotStep
  <2> QED
    BY <2>2, <2>3, <2>4 DEF SlotPcs
<1> QED
  BY <1>1, <1>2

LEMMA SlotsCount ==
    ASSUME SlotsExact, NEW t \in Threads, SlotStep(t)
    PROVE  SlotsExact' /\ [SlotsNext]_slotVars
<1>0. /\ IsFiniteSet(Running) /\ IsFiniteSet(Holding) /\ IsFiniteSet(Spawning)
      /\ Holding \subseteq Running
      /\ Cardinality(Running) \in Nat /\ Cardinality(Holding) \in Nat
      /\ Cardinality(Spawning) \in Nat /\ Cardinality(Holding) <= Cardinality(Running)
      /\ active = Cardinality(Holding)
      /\ outstanding = Cardinality(Running) + Cardinality(Spawning)
  BY TeamsFinite DEF SlotsExact
<1>1. CASE UNCHANGED slotVars /\ UNCHANGED <<Running, Holding, Spawning>>
  BY <1>0, <1>1 DEF SlotsExact, slotVars
<1>2. t \in Running \ Holding => Cardinality(Holding) < Cardinality(Running)
  <2>1. ASSUME t \in Running \ Holding
        PROVE  Cardinality(Holding) < Cardinality(Running)
    <3>1. Holding \subseteq Running \ {t} /\ IsFiniteSet(Running \ {t})
      BY <1>0, <2>1, FS_RemoveElement
    <3>2. Cardinality(Holding) <= Cardinality(Running \ {t})
      BY <3>1, FS_Subset
    <3>3. Cardinality(Running \ {t}) = Cardinality(Running) - 1
      BY <1>0, <2>1, OneLess
    <3> QED
      BY <1>0, <3>2, <3>3
  <2> QED
    BY <2>1
<1>3. CASE /\ AcquireSlot /\ t \in Running \ Holding
           /\ Holding' = Holding \cup {t} /\ UNCHANGED <<Running, Spawning>>
  <2>1. Cardinality(Holding') = Cardinality(Holding) + 1
    BY <1>0, <1>3, OneMore
  <2> QED
    BY <1>0, <1>2, <1>3, <2>1 DEF SlotsExact, AcquireSlot, SlotsNext
<1>4. CASE /\ ReleaseSlot /\ t \in Holding
           /\ Holding' = Holding \ {t} /\ UNCHANGED <<Running, Spawning>>
  <2>1. Cardinality(Holding') = Cardinality(Holding) - 1 /\ Cardinality(Holding) > 0
    BY <1>0, <1>4, OneLess
  <2> QED
    BY <1>0, <1>4, <2>1 DEF SlotsExact, ReleaseSlot, SlotsNext
<1>5. CASE /\ CountThread /\ t \notin Spawning
           /\ Spawning' = Spawning \cup {t} /\ UNCHANGED <<Running, Holding>>
  <2>1. Cardinality(Spawning') = Cardinality(Spawning) + 1
    BY <1>0, <1>5, OneMore
  <2> QED
    BY <1>0, <1>5, <2>1 DEF SlotsExact, CountThread, SlotsNext
<1>6. CASE /\ UncountThread /\ t \in Spawning
           /\ Spawning' = Spawning \ {t} /\ UNCHANGED <<Running, Holding>>
  <2>1. Cardinality(Spawning') = Cardinality(Spawning) - 1 /\ Cardinality(Spawning) > 0
    BY <1>0, <1>6, OneLess
  <2> QED
    BY <1>0, <1>6, <2>1 DEF SlotsExact, UncountThread, SlotsNext
<1>7. CASE /\ UncountThread /\ t \in Running \ Holding
           /\ Running' = Running \ {t} /\ UNCHANGED <<Holding, Spawning>>
  <2>1. Cardinality(Running') = Cardinality(Running) - 1
    BY <1>0, <1>7, OneLess
  <2> QED
    BY <1>0, <1>2, <1>7, <2>1 DEF SlotsExact, UncountThread, SlotsNext
<1>8. CASE /\ UNCHANGED slotVars /\ UNCHANGED Holding /\ t \in Spawning
           /\ Spawning' = Spawning \ {t}
           /\ \E w \in Workers \ Running : Running' = Running \cup {w}
  <2>1. Cardinality(Spawning') = Cardinality(Spawning) - 1
    BY <1>0, <1>8, OneLess
  <2>2. Cardinality(Running') = Cardinality(Running) + 1
    BY <1>0, <1>8, OneMore
  <2> QED
    BY <1>0, <1>8, <2>1, <2>2 DEF SlotsExact, slotVars
<1> QED
  BY <1>1, <1>3, <1>4, <1>5, <1>6, <1>7, <1>8 DEF SlotStep

LEMMA SlotsInductive ==
    ASSUME BaseInv, SlotsExact, [Next]_vars
    PROVE  SlotsExact' /\ [SlotsNext]_slotVars
<1>1. CASE UNCHANGED vars
  <2>1. UNCHANGED slotVars /\ pc' = pc
    BY <1>1 DEF vars, threadVars
  <2>2. UNCHANGED <<Running, Holding, Spawning>>
    BY <2>1 DEF Running, Holding, Spawning
  <2> QED
    BY <2>1, <2>2 DEF SlotsExact, slotVars
<1> QED
  BY <1>1, StepCases, SlotSteps, SlotsCount

LEMMA SlotsInitial ==
    ASSUME Init
    PROVE  SlotsExact
<1>1. Running = {} /\ Holding = {} /\ Spawning = {}
  <2>1. \A t \in Threads : pc[t] = "Idle"
    BY DEF Init
  <2> QED
    BY <2>1, CacheAssumption DEF Running, Holding, Spawning, SlotlessPcs, SpawnPcs
<1>2. active = 0 /\ outstanding = 0
  BY DEF Init, SlotsInit
<1> QED
  BY <1>1, <1>2, FS_EmptySet DEF SlotsExact

\* The slots of the background semaphore and the count that ~DesignCache drains are
\* exact: every slot is held by one detached thread and every counted thread runs or
\* is about to, whatever fails on the way.
THEOREM CountersAreExact == Spec => []SlotsExact
<1>1. Init => BaseInv /\ SlotsExact
  BY BaseInitial, SlotsInitial
<1>2. BaseInv /\ SlotsExact /\ [Next]_vars => (BaseInv /\ SlotsExact)'
  BY BaseStep, SlotsInductive
<1> QED
  BY <1>1, <1>2, PTL DEF Spec

\* The cache uses its background slots as BackgroundSlots promises: a slot is taken by
\* a counted thread only, and neither m_activeBackgroundLoads nor
\* m_outstandingBackgroundLoads is decremented below zero, which would wrap.
THEOREM CacheKeepsSlotsPromise == Spec => SlotsSpec
<1>1. Init => BaseInv /\ SlotsExact /\ SlotsInit
  BY BaseInitial, SlotsInitial DEF Init
<1>2. BaseInv /\ SlotsExact /\ [Next]_vars
        => (BaseInv /\ SlotsExact)' /\ [SlotsNext]_slotVars
  BY BaseStep, SlotsInductive
<1> QED
  BY <1>1, <1>2, PTL DEF Spec, SlotsSpec

\* Every variable keeps its type, the unsigned counters of bytes and of threads
\* included: no operation takes them below zero or past their width.
THEOREM TypesOK == Spec => []TypeOK
<1> DEFINE I == BaseInv /\ SlotsExact /\ maxLoads \in Nat
<1>1. Init => I
  BY BaseInitial, SlotsInitial, InitialMaxLoadsAssumption DEF Init, SlotsInit
<1>2. I /\ [Next]_vars => I'
  <2>1. SUFFICES ASSUME I, [Next]_vars PROVE maxLoads' = maxLoads
    BY BaseStep, SlotsInductive
  <2> QED
    BY <2>1, StepCases, Frame DEF vars, slotVars
<1>3. I => TypeOK
  BY TeamsFinite DEF BaseInv, TypeInv, DataInv, LruInv, SlotsExact, TypeOK, CoreTypeOK,
                     SlotsTypeOK, ThreadTypeOK
<1> QED
  BY <1>1, <1>2, <1>3, PTL DEF Spec
-----------------------------------------------------------------------------
(* Payloads in the store and their charge.                                 *)

\* A thread at p with locals l has taken the LRU entry of n and still has to drop the
\* payloads of n.
Drops(p, l, n) ==
    \/ p = "EvictStore" /\ n \in l.victims
    \/ p \in {"EvictMaps", "EvictState"} /\ n \in l.victims \ {l.victim}
    \/ p = "ClearStore"

LEMMA DropPendingIs ==
    ASSUME NEW n
    PROVE  /\ DropPending(n) <=> \E t \in Threads : Drops(pc[t], loc[t], n)
           /\ DropPending(n)' <=> \E t \in Threads : Drops(pc'[t], loc'[t], n)
  BY DEF DropPending, Drops

LEMMA EvictedDrops ==
    ASSUME NEW t \in Threads, NEW V, NEW after, Evicts(t, V, after), NEW n \in V
    PROVE  Drops(pc'[t], loc'[t], n)
  BY DEF Evicts, Moves, Gets, Drops

\* A thread that owes a drop still owes it after a section, or has done it.
LEMMA DropKept ==
    ASSUME BaseInv, NEW t \in Threads, Section(t), NEW n \in Names, Drops(pc[t], loc[t], n)
    PROVE  Drops(pc'[t], loc'[t], n) \/ StoredBytes(n)' = 0
<1>0. ThreadTypeOK /\ StoreTypeOK
  BY DEF BaseInv, TypeInv, DataInv, DataTypeOK
<1>1. CASE pc[t] = "EvictStore"
  <2>1. PICK v \in loc[t].victims : /\ StoreInvalidate(v) /\ Gets(t, "victim", v)
                                    /\ Moves(t, "EvictMaps", {"victim"})
    BY <1>0, <1>1, SectionAt, BudgetMoves, Zenon
  <2>2. pc'[t] = "EvictMaps" /\ loc'[t].victim = v /\ loc'[t].victims = loc[t].victims
    BY <2>1 DEF Gets, Moves, Fields
  <2>3. CASE n = v
    BY <1>0, <2>1, <2>3 DEF StoreInvalidate, StoredBytes, NoPayload, StoreTypeOK
  <2> QED
    BY <1>1, <2>2, <2>3 DEF Drops
<1>2. CASE pc[t] = "EvictMaps"
  <2>1. Moves(t, "EvictState", {})
    BY <1>0, <1>2, SectionAt, BudgetMoves, Zenon
  <2> QED
    BY <1>2, <2>1 DEF Drops, Moves, Fields
<1>3. CASE pc[t] = "EvictState"
  <2> DEFINE rest == loc[t].victims \ {loc[t].victim}
  <2>1. /\ Moves(t, IF rest = {} THEN loc[t].after ELSE "EvictStore", {"victims", "victim"})
        /\ Gets(t, "victims", rest)
    BY <1>0, <1>3, SectionAt, BudgetMoves, Zenon
  <2>2. n \in rest
    BY <1>3 DEF Drops
  <2> HIDE DEF rest
  <2> QED
    BY <2>1, <2>2 DEF Drops, Moves, Gets
<1>4. CASE pc[t] = "ClearStore"
  <2>1. StoreClear
    BY <1>4, SectionAt DEF ClearStore
  <2> QED
    BY <2>1 DEF StoreClear, StoredBytes, NoPayload
<1> QED
  BY <1>1, <1>2, <1>3, <1>4 DEF Drops

\* What a section that may evict does to the charge of a name it does not evict.
LEMMA EvictCharges ==
    ASSUME NEW V \in SUBSET Names, NEW names, NEW est, NEW ser, NEW after, NEW bytes,
           EvictLocked(V, names, est, ser, after, bytes), NEW n \in Names \ V
    PROVE  serialized'[n] = ser[n] /\ (n \in charged' <=> n \in names)
  BY DEF EvictLocked

LEMMA ChargeEffect ==
    ASSUME BaseInv, NEW t \in Threads, Charge(t), NEW n \in Names
    PROVE  \/ Drops(pc'[t], loc'[t], n)
           \/ /\ serialized'[n] = serialized[n]
              /\ n \in charged' <=> n \in charged \cup {Name(t)}
<1> DEFINE a == IF loc[t].after = "AddLoaded" THEN "AddLoaded" ELSE AfterInsert(t)
<1>1. PICK V \in SUBSET Names :
         /\ ChargeEntry(Name(t), loc[t].bytes, StoredBytes(Name(t)), LoadingNames, V)
         /\ Evicts(t, V, a)
  BY BudgetMoves, Zenon DEF BaseInv, TypeInv
<1> HIDE DEF a
<1>2. CASE n \in V
  BY <1>1, <1>2, EvictedDrops
<1>3. CASE n \notin V
  <2>1. serialized'[n] = serialized[n] /\ (n \in charged' <=> n \in charged \cup {Name(t)})
    BY <1>1, <1>3 DEF ChargeEntry, EvictLocked
  <2> QED
    BY <2>1
<1> QED
  BY <1>2, <1>3

LEMMA SetMaxEffect ==
    ASSUME BaseInv, NEW t \in Threads, SetCacheMaxBytes(t), NEW n \in Names
    PROVE  \/ Drops(pc'[t], loc'[t], n)
           \/ serialized'[n] = serialized[n] /\ (n \in charged' <=> n \in charged)
<1>1. PICK V \in SUBSET Names : SetMaxBytes(loc[t].max, LoadingNames, V) /\ Evicts(t, V, "Idle")
  BY BudgetMoves, Zenon DEF BaseInv, TypeInv
<1>2. CASE n \in V
  BY <1>1, <1>2, EvictedDrops
<1>3. CASE n \notin V
  BY <1>1, <1>3 DEF SetMaxBytes, EvictLocked
<1> QED
  BY <1>2, <1>3

\* CommitResponsePayloads: what is stored is charged.
LEMMA CommitEffect ==
    ASSUME BaseInv, NEW t \in Threads, CommitStore(t), NEW n \in Names
    PROVE  \/ Drops(pc'[t], loc'[t], n)
           \/ /\ serialized'[n] = serialized[n] /\ entries'[n] = entries[n]
              /\ n \in charged' <=> n \in charged
           \/ /\ n = Name(t) /\ serialized'[n] = entries'[n].bytes
              /\ n \in charged' /\ n \in charged
              /\ TryStoreSucceeds(n, loc[t].gen["design"]) /\ ~WasClearedSince(loc[t].ep["design"])
              /\ \/ HasEntry(n) /\ entries'[n] = entries[n]
                 \/ entries'[n] = [bytes |-> PayloadBytes, ver |-> loc[t].val.ver]
<1>0. ThreadTypeOK /\ StoreTypeOK /\ Name(t) \in Names
      /\ serialized \in [Names -> U64]
  BY LocalFacts DEF BaseInv, TypeInv, DataInv, DataTypeOK, LruInv, LruTypeOK
<1>1. CASE UNCHANGED <<storeVars, lruVars>>
  BY <1>1 DEF storeVars, lruVars
<1>2. CASE Commits(t)
  <2> DEFINE payload == [bytes |-> PayloadBytes, ver |-> loc[t].val.ver]
             current == TryStoreSucceeds(Name(t), loc[t].gen["design"])
             charge == IF current THEN TryStoreBytes(Name(t), payload) ELSE serialized[Name(t)]
  <2>1. PICK V \in SUBSET Names : ChargePayload(Name(t), charge, LoadingNames, V)
                                  /\ Evicts(t, V, loc[t].ret)
    BY <1>2 DEF Commits
  <2>2. /\ Name(t) \in charged /\ ~WasClearedSince(loc[t].ep["design"])
        /\ TryStore(Name(t), loc[t].gen["design"], payload)
    BY <1>2 DEF Commits
  <2>3. CASE n \in V
    BY <2>1, <2>3, EvictedDrops
  <2>4. CASE n \notin V
    <3>1. /\ serialized'[n] = [serialized EXCEPT ![Name(t)] = charge][n]
          /\ n \in charged' <=> n \in charged
      <4> HIDE DEF charge
      <4> QED
        BY <2>1, <2>4 DEF ChargePayload, EvictLocked
    <3>2. CASE n # Name(t) \/ ~current
      <4>1. serialized'[n] = serialized[n]
        BY <1>0, <3>1, <3>2
      <4>2. entries'[n] = entries[n]
        BY <1>0, <2>2, <3>2 DEF TryStore, StoreTypeOK
      <4> QED
        BY <3>1, <4>1, <4>2
    <3>3. CASE n = Name(t) /\ current
      <4>1. serialized'[n] = TryStoreBytes(n, payload)
        BY <1>0, <3>1, <3>3
      <4>2. entries'[n] = IF HasEntry(n) THEN entries[n] ELSE payload
        BY <1>0, <2>2, <3>3 DEF TryStore, StoreTypeOK
      <4>3. serialized'[n] = entries'[n].bytes
        BY <4>1, <4>2 DEF TryStoreBytes, StoredBytes
      <4>4. \/ HasEntry(n) /\ entries'[n] = entries[n]
            \/ entries'[n] = payload
        BY <4>2
      <4> QED
        BY <2>2, <3>1, <3>3, <4>3, <4>4
    <3> QED
      BY <3>2, <3>3
  <2> QED
    BY <2>3, <2>4
<1> QED
  BY <1>0, <1>1, <1>2, CommitMoves

LEMMA UnchargedStep ==
    ASSUME BaseInv, PayloadNeverUncharged, [Next]_vars
    PROVE  PayloadNeverUncharged'
<1>0. TypeInv /\ ThreadTypeOK /\ StoreTypeOK /\ TypeInv' /\ LruInv /\ LruInv'
  BY TypeStep DEF BaseInv, TypeInv, DataInv, DataTypeOK
<1>1. CASE UNCHANGED vars
  BY <1>1 DEF vars, threadVars, storeVars, lruVars, PayloadNeverUncharged, DropPending,
              StoredBytes, Name
<1>2. SUFFICES ASSUME NEW t \in Threads, Section(t), NEW n \in Names
               PROVE  \/ \E u \in Threads : Drops(pc'[u], loc'[u], n)
                      \/ StoredBytes(n)' <= serialized'[n]
  BY <1>1, StepCases, DropPendingIs DEF PayloadNeverUncharged
<1>3. \/ \E u \in Threads : Drops(pc[u], loc[u], n)
      \/ StoredBytes(n) <= serialized[n]
  BY DropPendingIs DEF PayloadNeverUncharged
<1>4. serialized[n] \in Nat /\ serialized'[n] \in Nat /\ StoredBytes(n) \in Nat
  BY <1>0, WordAssumption DEF LruInv, LruTypeOK, U64, StoreTypeOK, StoredBytes, Payload
<1>5. ASSUME NEW u \in Threads, Drops(pc[u], loc[u], n)
      PROVE  \/ \E v \in Threads : Drops(pc'[v], loc'[v], n)
             \/ StoredBytes(n)' <= serialized'[n]
  <2>1. CASE u = t
    BY <1>2, <1>4, <1>5, <2>1, DropKept
  <2>2. CASE u # t /\ \A w \in Workers : ~Spawns(t, w)
    <3>1. pc'[u] = pc[u] /\ loc'[u].victims = loc[u].victims /\ loc'[u].victim = loc[u].victim
      BY <1>0, <1>2, <2>2, OthersStay DEF Undisturbed, Fields
    <3> QED
      BY <1>5, <3>1 DEF Drops
  <2>3. ASSUME NEW w \in Workers, Spawns(t, w), u # t
        PROVE  Drops(pc'[u], loc'[u], n)
    <3>1. u # w
      BY <1>0, <1>5, <2>3, SpawnMoves DEF Drops
    <3> QED
      BY <1>0, <1>5, <2>3, <3>1, SpawnMoves DEF Spawned
  <2> QED
    BY <2>1, <2>2, <2>3
<1>6. CASE StoredBytes(n) <= serialized[n]
  <2>1. CASE pc[t] \in StorePcs
    <3>1. StoredBytes(n)' \in {0, StoredBytes(n)}
      <4>1. StoreClear \/ \E v \in Names : StoreInvalidate(v)
        BY <1>0, <1>2, <2>1, SectionAt, LocalFacts DEF StorePcs, EvictStore, InvStore, ClearStore
      <4> QED
        BY <1>0, <4>1 DEF StoreClear, StoreInvalidate, StoredBytes, NoPayload, StoreTypeOK
    <3>2. serialized' = serialized
      BY <1>2, <2>1, Frame DEF StorePcs, ChargePcs
    <3> QED
      BY <1>4, <1>6, <3>1, <3>2
  <2>2. CASE pc[t] = "CommitStore"
    <3>1. CommitStore(t)
      BY <1>2, <2>2, SectionAt
    <3>2. entries' \in [Names -> Payload]
      BY <1>0 DEF TypeInv, DataInv, DataTypeOK, StoreTypeOK
    <3> QED
      BY <1>2, <1>4, <1>6, <3>1, <3>2, CommitEffect DEF StoredBytes, Payload
  <2>3. CASE pc[t] \in {"Charge", "SetMaxBytes"}
    <3>1. Charge(t) \/ SetCacheMaxBytes(t)
      BY <1>2, <2>3, SectionAt
    <3>2. entries' = entries
      BY <1>2, <2>3, Frame DEF StorePcs
    <3>3. Drops(pc'[t], loc'[t], n) \/ serialized'[n] = serialized[n]
      BY <1>2, <3>1, ChargeEffect, SetMaxEffect
    <3> QED
      BY <1>6, <3>2, <3>3 DEF StoredBytes
  <2>4. CASE pc[t] = "ClearLru"
    <3>1. pc'[t] = "ClearStore"
      BY <1>2, <2>4, DropFlow DEF BaseInv
    <3> QED
      BY <3>1 DEF Drops
  <2>5. CASE pc[t] = "AdjustLru"
    <3>1. AdjustLruSerializedBytes(Name(t), StoredBytes(Name(t))) /\ entries' = entries
      BY <1>2, <2>5, SectionAt, Frame DEF AdjustLru, StorePcs
    <3>2. serialized'[n] \in {serialized[n], StoredBytes(n)}
      BY <1>0, <3>1 DEF AdjustLruSerializedBytes, LruInv, LruTypeOK
    <3> QED
      BY <1>4, <1>6, <3>1, <3>2 DEF StoredBytes
  <2>6. CASE pc[t] \notin StorePcs \cup ChargePcs \cup {"AdjustLru"}
    BY <1>2, <1>6, <2>6, Frame DEF ChargePcs, StoredBytes
  <2> QED
    BY <2>1, <2>2, <2>3, <2>4, <2>5, <2>6 DEF ChargePcs
<1> QED
  BY <1>3, <1>5, <1>6

\* The byte budget never misses stored payloads: whatever commits, invalidations,
\* evictions, budget changes and Clear() interleave, the bytes the ResponseStore holds
\* for a name are at most the bytes charged to it, unless a thread is on its way to
\* drop them.
THEOREM StoredIsCharged == Spec => []PayloadNeverUncharged
<1>1. Init => BaseInv /\ PayloadNeverUncharged
  <2>1. Init => \A n \in Names : StoredBytes(n) = 0 /\ serialized[n] = 0
    BY DEF Init, StoreInit, LruEmpty, StoredBytes, NoPayload
  <2> QED
    BY <2>1, BaseInitial DEF PayloadNeverUncharged
<1>2. BaseInv /\ PayloadNeverUncharged /\ [Next]_vars => (BaseInv /\ PayloadNeverUncharged)'
  BY BaseStep, UnchargedStep
<1> QED
  BY <1>1, <1>2, PTL DEF Spec
=============================================================================
