----------------------------- MODULE DesignCache -----------------------------
(***************************************************************************)
(* Odb::Lib::App::DesignCache: the in-memory cache of parsed ODB++ designs *)
(* behind the REST and gRPC services, as threads that interleave at the    *)
(* granularity of the code's critical sections.                            *)
(*                                                                         *)
(* The cache composes five pieces of state, each behind its own mutex: the *)
(* object maps (m_cacheMutex, here), LoadStates (m_loadStateMutex),        *)
(* LruBudget (m_lruMutex), ResponseStore (ResponseStore::m_mutex) and      *)
(* BackgroundSlots (m_backgroundMutex).  No operation holds two of these   *)
(* locks except m_lruMutex around a read or a TryStore of another; such a  *)
(* section is one step.  Between two steps of a thread any other thread    *)
(* may run.                                                                *)
(*                                                                         *)
(* pc[t] names the next section thread t runs, loc[t] holds its locals.    *)
(* Two activations of GetOrLoadSingleFlight can be nested on a thread (a   *)
(* design load that pulls its archive): loc[t].kind is the innermost one   *)
(* and loc[t].nested tells that it was called from LoadDesign, which is    *)
(* when updateState is false.                                              *)
(***************************************************************************)
EXTENDS LoadStates, LruBudget, ResponseStore, BackgroundSlots, Sequences

CONSTANTS
    Workers,            \* the threads that detached std::threads run on
    Script,             \* Script[c][i]: the requests client c may issue as its
                        \* i-th call; its length bounds the calls of c
    Faults,             \* the external failures that may happen
    InitialDisk,        \* contents version on disk of each name, 0 if no file
    InitialMaxBytes,    \* m_maxBytes at start
    OverheadBytes,      \* DESIGN_BYTES_OVERHEAD
    ArchiveBytes,       \* size of an archive file
    InjectedBytes,      \* size of the body of POST /filemodels
    PayloadBytes        \* size of a serialized design

Clients == Threads \ Workers

Ops == {"GetDesign", "GetFileArchive", "AddFileArchive", "SaveNewArchive",
        "InvalidateDesign", "Clear", "SetCacheMaxBytes", "LoadDesignAsync",
        "RequestLoad", "Upload", "SerializeResponses"}

Request == [op : Ops, name : Names, max : U64]

ASSUME CacheAssumption ==
    /\ Workers \subseteq Threads
    /\ Script \in [Clients -> Seq(SUBSET Request)]
    /\ Faults \subseteq {"parse", "build", "alloc", "serialize", "save"}
    /\ InitialDisk \in [Names -> {0, 1}]
    /\ InitialMaxBytes \in U64
    /\ OverheadBytes \in U64 /\ ArchiveBytes \in U64
    /\ InjectedBytes \in U64 /\ PayloadBytes \in U64 \ {0}

VARIABLES
    disk,           \* contents version of the archive file, 0 if there is none
    installed,      \* number of contents versions given to the name so far
    cache,          \* m_fileArchivesByName and m_designsByName, Nil if absent
    pc,             \* the next section of each thread
    loc,            \* the locals of each thread
    calls           \* calls each client has issued

cacheVars == <<disk, installed, cache>>
threadVars == <<pc, loc>>
vars == <<loadVars, lruVars, storeVars, slotVars, cacheVars, threadVars, calls>>

\* Everything but the threads, and everything but the threads and one component.
shared == <<loadVars, lruVars, storeVars, slotVars, cacheVars, calls>>
allButLoad == <<lruVars, storeVars, slotVars, cacheVars, calls>>
allButLru == <<loadVars, storeVars, slotVars, cacheVars, calls>>
allButStore == <<loadVars, lruVars, slotVars, cacheVars, calls>>
allButSlots == <<loadVars, lruVars, storeVars, cacheVars, calls>>
allButCache == <<loadVars, lruVars, storeVars, slotVars, calls>>

Outcome == {"value", "null", "threw", "abandoned", "guard"}

Labels ==
    {"Idle",
     "Lookup", "TouchHit", "CaptureGen", "Register", "Join", "TouchJoin",
     "Announce", "Load", "Build", "CheckGen", "CheckEpoch", "Insert",
     "ScheduleGen", "ScheduleCount", "ScheduleSpawn", "ScheduleUncount",
     "AnnounceLoaded", "Fulfil", "CheckFailed", "AnnounceFailed", "EraseState",
     "EraseFlight",
     "Estimate", "Charge", "EvictStore", "EvictMaps", "EvictState",
     "AddMaps", "AddLoaded", "SaveModel", "ResyncEstimate", "Resync",
     "InvMaps", "InvStore", "AdjustLru", "InvState",
     "ClearMaps", "ClearLru", "ClearStore", "ClearStates",
     "SetMaxBytes",
     "UploadMove", "WarmCheck", "ReqState", "ReqContains",
     "AsyncCheck", "AsyncCount", "AsyncSpawn", "AsyncUncount", "AsyncUnmark",
     "AcquireSlot", "ReleaseSlot", "UnmarkPending", "Uncount",
     "SerDesign", "SerGen", "SerEpoch", "BuildPayload", "CommitIdentity",
     "CommitStore"}

Local ==
    [name : Names, kind : Kinds, nested : BOOLEAN, job : {"load", "serialize"},
     gen : [Kinds -> Nat], ep : [Kinds -> Nat], val : Object,
     wait : Flight, stale : BOOLEAN, outcome : Outcome, bytes : U64,
     victims : SUBSET Names, victim : Names, save : BOOLEAN, max : U64,
     after : Labels, ret : Labels]

AnyName == CHOOSE n \in Names : TRUE

NoLocals ==
    [name |-> AnyName, kind |-> "design", nested |-> FALSE, job |-> "load",
     gen |-> [k \in Kinds |-> 0], ep |-> [k \in Kinds |-> 0], val |-> Nil,
     wait |-> NoFlight, stale |-> FALSE, outcome |-> "value", bytes |-> 0,
     victims |-> {}, victim |-> AnyName, save |-> FALSE, max |-> 0,
     after |-> "Idle", ret |-> "Idle"]

DataTypeOK ==
    /\ LoadTypeOK /\ StoreTypeOK
    /\ disk \in [Names -> Nat]
    /\ installed \in [Names -> Nat]
    /\ cache \in [Kinds -> [Names -> Object]]
    /\ calls \in [Clients -> Nat]

CoreTypeOK ==
    /\ DataTypeOK
    /\ pc \in [Threads -> Labels]
    /\ loc \in [Threads -> Local]

TypeOK == CoreTypeOK /\ LruTypeOK /\ SlotsTypeOK

Init ==
    /\ LoadInit /\ StoreInit /\ SlotsInit
    /\ LruEmpty /\ maxBytes = InitialMaxBytes
    /\ disk = InitialDisk
    /\ installed = InitialDisk
    /\ cache = [k \in Kinds |-> [n \in Names |-> Nil]]
    /\ pc = [t \in Threads |-> "Idle"]
    /\ loc = [t \in Threads |-> NoLocals]
    /\ calls = [c \in Clients |-> 0]

-----------------------------------------------------------------------------
(* Control flow of a thread.                                               *)

Name(t) == loc[t].name
Kind(t) == loc[t].kind

\* updateState: every activation but the archive load inside LoadDesign.
UpdateState(t) == ~loc[t].nested

\* Thread t goes on at `to` with locals l; a finished call drops its locals.
Goto(t, to, l) ==
    /\ pc' = [pc EXCEPT ![t] = to]
    /\ loc' = [loc EXCEPT ![t] = IF to = "Idle" THEN NoLocals ELSE l]

Proceed(t, to) == Goto(t, to, loc[t])

\* The innermost activation of GetOrLoadSingleFlight returns v: into LoadDesign,
\* which builds the design, or to the caller.
Return(t, v) ==
    IF loc[t].nested
    THEN Goto(t, IF v = Nil THEN "Fulfil" ELSE "Build",
              [loc[t] EXCEPT !.kind = "design", !.nested = FALSE, !.val = v,
                             !.outcome = IF v = Nil THEN "null" ELSE "value"])
    ELSE Goto(t, loc[t].ret, [loc[t] EXCEPT !.val = v])

\* It throws: the exception ends the load around it, or the call (a background
\* load catches it and goes on to release its slot).
Throw(t) ==
    IF loc[t].nested
    THEN Goto(t, "Fulfil", [loc[t] EXCEPT !.kind = "design", !.nested = FALSE,
                                          !.val = Nil, !.outcome = "threw"])
    ELSE Proceed(t, IF t \in Workers THEN "ReleaseSlot" ELSE "Idle")

\* EvictCacheEntries(V), then on to `after`.
EvictThen(t, V, after) ==
    Goto(t, IF V = {} THEN after ELSE "EvictStore",
         [loc[t] EXCEPT !.victims = V, !.after = after])

\* Names whose recorded state keeps EvictOverBudgetLocked away.
LoadingNames == {n \in Names : loadState[n] = "Loading"}

-----------------------------------------------------------------------------
(* GetOrLoadSingleFlight<T>.                                               *)

\* Fast path under the shared lock.
Lookup(t) ==
    /\ pc[t] = "Lookup"
    /\ LET found == cache[Kind(t)][Name(t)]
       IN  IF found # Nil
           THEN Goto(t, "TouchHit", [loc[t] EXCEPT !.val = found])
           ELSE Proceed(t, "CaptureGen")
    /\ UNCHANGED shared

TouchHit(t) ==
    /\ pc[t] = "TouchHit"
    /\ TouchLru(Name(t))
    /\ Return(t, loc[t].val)
    /\ UNCHANGED allButLru

CaptureGen(t) ==
    /\ pc[t] = "CaptureGen"
    /\ Goto(t, "Register",
            [loc[t] EXCEPT !.gen[Kind(t)] = CurrentGeneration(Name(t))])
    /\ UNCHANGED shared

\* BUG (mutant): every thread that misses becomes a loader.
RegisterAlways(t) ==
    /\ pc[t] = "Register"
    /\ RegisterInFlight(Kind(t), Name(t), t)
    /\ Goto(t, IF UpdateState(t) THEN "Announce" ELSE "Load",
            [loc[t] EXCEPT !.ep[Kind(t)] = epoch])
    /\ UNCHANGED allButLoad

\* Join the in-flight load or become its only runner.
Register(t) ==
    /\ pc[t] = "Register"
    /\ IF IsInFlight(Kind(t), Name(t))
       THEN /\ Goto(t, "Join",
                    [loc[t] EXCEPT !.wait = inFlight[Kind(t)][Name(t)]])
            /\ UNCHANGED loadVars
       ELSE /\ RegisterInFlight(Kind(t), Name(t), t)
            /\ Goto(t, IF UpdateState(t) THEN "Announce" ELSE "Load",
                    [loc[t] EXCEPT !.ep[Kind(t)] = epoch])
    /\ UNCHANGED allButLoad

\* future.get() in a joiner; a failed parse rethrows.
Join(t) ==
    /\ pc[t] = "Join"
    /\ loc[t].wait.status # "pending"
    /\ IF loc[t].wait.status = "exception"
       THEN Throw(t)
       ELSE Goto(t, "TouchJoin", [loc[t] EXCEPT !.val = loc[t].wait.val])
    /\ UNCHANGED shared

TouchJoin(t) ==
    /\ pc[t] = "TouchJoin"
    /\ TouchLru(Name(t))
    /\ Return(t, loc[t].val)
    /\ UNCHANGED allButLru

Announce(t) ==
    /\ pc[t] = "Announce"
    /\ TransitionLoadState(Name(t), "Loading")
    /\ Proceed(t, "Load")
    /\ UNCHANGED allButLoad

\* LoaderExitGuard: bad_alloc before the load or at the cache insert.
LoaderExits(t) ==
    /\ "alloc" \in Faults
    /\ pc[t] \in {"Announce", "Insert"}
    /\ Goto(t, "Fulfil", [loc[t] EXCEPT !.outcome = "guard", !.val = Nil])
    /\ UNCHANGED shared

\* LoadDesign up to the archive it pulls.
LoadDesign(t) ==
    /\ pc[t] = "Load" /\ Kind(t) = "design"
    /\ IF disk[Name(t)] = 0
       THEN Goto(t, "Fulfil", [loc[t] EXCEPT !.outcome = "null", !.val = Nil])
       ELSE Goto(t, "Lookup", [loc[t] EXCEPT !.kind = "archive", !.nested = TRUE])
    /\ UNCHANGED shared

\* LoadFileArchive: finds and parses the file that is on disk now.
LoadFileArchive(t) ==
    /\ pc[t] = "Load" /\ Kind(t) = "archive"
    /\ \/ /\ disk[Name(t)] = 0
          /\ Goto(t, "Fulfil", [loc[t] EXCEPT !.outcome = "null", !.val = Nil])
       \/ /\ disk[Name(t)] # 0
          /\ Goto(t, "CheckGen",
                  [loc[t] EXCEPT !.val = [id |-> 0, ver |-> disk[Name(t)]]])
       \/ /\ disk[Name(t)] # 0 /\ "parse" \in Faults
          /\ Goto(t, "Fulfil", [loc[t] EXCEPT !.outcome = "threw", !.val = Nil])
    /\ UNCHANGED shared

\* Identities of the Designs some shared_ptr still refers to.
LiveIds ==
    {cache["design"][n].id : n \in Names}
      \cup {inFlight["design"][n].val.id : n \in Names}
      \cup {loc[u].val.id : u \in Threads} \cup {loc[u].wait.val.id : u \in Threads}

\* make_shared<Design>(): an identity no live pointer has.
FreshId == CHOOSE i \in 1 .. Cardinality(LiveIds) + 1 : i \notin LiveIds

\* LoadDesign from Design::Build on.
BuildDesign(t) ==
    /\ pc[t] = "Build"
    /\ \/ Goto(t, "CheckGen", [loc[t] EXCEPT !.val.id = FreshId])
       \/ /\ "build" \in Faults
          /\ \E o \in {"null", "threw"} :
                Goto(t, "Fulfil", [loc[t] EXCEPT !.outcome = o, !.val = Nil])
    /\ UNCHANGED shared

CheckGen(t) ==
    /\ pc[t] = "CheckGen"
    /\ Goto(t, "CheckEpoch",
            [loc[t] EXCEPT !.stale =
                CurrentGeneration(Name(t)) # loc[t].gen[Kind(t)]])
    /\ UNCHANGED shared

\* The abandon checkpoint: Clear() or an invalidation ran since registration.
CheckEpoch(t) ==
    /\ pc[t] = "CheckEpoch"
    /\ IF WasClearedSince(loc[t].ep[Kind(t)]) \/ loc[t].stale
       THEN Goto(t, "Fulfil", [loc[t] EXCEPT !.stale = FALSE, !.outcome = "abandoned"])
       ELSE Goto(t, "Insert", [loc[t] EXCEPT !.stale = FALSE, !.outcome = "value"])
    /\ UNCHANGED shared

\* Insert under the exclusive lock; an object that got there first wins.
Insert(t) ==
    /\ pc[t] = "Insert"
    /\ LET found == cache[Kind(t)][Name(t)]
       IN  IF found # Nil
           THEN /\ Goto(t, "Estimate", [loc[t] EXCEPT !.val = found])
                /\ UNCHANGED cache
           ELSE /\ cache' = [cache EXCEPT ![Kind(t)][Name(t)] = loc[t].val]
                /\ Proceed(t, "Estimate")
    /\ UNCHANGED <<disk, installed, allButCache>>

AnnounceLoaded(t) ==
    /\ pc[t] = "AnnounceLoaded"
    /\ TransitionLoadState(Name(t), "Loaded")
    /\ Proceed(t, "Fulfil")
    /\ UNCHANGED allButLoad

\* The threads blocked on the future that t fulfils.
Joiners(t) ==
    {u \in Threads : /\ pc[u] = "Join" /\ loc[u].wait.owner = t
                     /\ Kind(u) = Kind(t) /\ Name(u) = Name(t)
                     /\ loc[u].wait.status = "pending"}

\* promise.set_value / set_exception: joiners and later callers see the result.
Fulfil(t) ==
    LET threw == loc[t].outcome \in {"threw", "guard"}
        status == IF threw THEN "exception" ELSE "value"
        result == IF threw THEN Nil ELSE loc[t].val
        next == CASE loc[t].outcome = "threw" /\ UpdateState(t) -> "CheckFailed"
                  [] loc[t].outcome = "null" /\ UpdateState(t) -> "EraseState"
                  [] OTHER -> "EraseFlight"
    IN  /\ pc[t] = "Fulfil"
        /\ FulfilPromise(Kind(t), Name(t), status, result)
        /\ pc' = [pc EXCEPT ![t] = next]
        /\ loc' = [u \in Threads |->
                      IF u \in Joiners(t)
                      THEN [loc[u] EXCEPT !.wait.status = status, !.wait.val = result]
                      ELSE loc[u]]
        /\ UNCHANGED allButLoad

\* The catch block: Failed is recorded unless Clear() ran meanwhile.
CheckFailed(t) ==
    /\ pc[t] = "CheckFailed"
    /\ Proceed(t, IF WasClearedSince(loc[t].ep[Kind(t)])
                  THEN "EraseFlight" ELSE "AnnounceFailed")
    /\ UNCHANGED shared

\* Recording Failed is best effort: a bad_alloc on the way is caught, so that the
\* in-flight entry is erased all the same.
AnnounceFailed(t) ==
    /\ pc[t] = "AnnounceFailed"
    /\ \/ TransitionLoadState(Name(t), "Failed")
       \/ "alloc" \in Faults /\ UNCHANGED loadVars
    /\ Proceed(t, "EraseFlight")
    /\ UNCHANGED allButLoad

\* BUG (mutant): a design that is not found keeps the state of its load.
EraseStateForgotten(t) ==
    /\ pc[t] = "EraseState"
    /\ Proceed(t, "EraseFlight")
    /\ UNCHANGED shared

EraseState(t) ==
    /\ pc[t] = "EraseState"
    /\ EraseLoadState(Name(t))
    /\ Proceed(t, "EraseFlight")
    /\ UNCHANGED allButLoad

\* BUG (mutant): a failed load leaves its in-flight entry behind.
EraseFlightOnSuccessOnly(t) ==
    /\ pc[t] = "EraseFlight"
    /\ IF loc[t].outcome \in {"threw", "guard"}
       THEN UNCHANGED loadVars /\ Throw(t)
       ELSE EraseInFlight(Kind(t), Name(t)) /\ Return(t, loc[t].val)
    /\ UNCHANGED allButLoad

\* eraseInFlight, then the activation returns or rethrows.
EraseFlight(t) ==
    /\ pc[t] = "EraseFlight"
    /\ EraseInFlight(Kind(t), Name(t))
    /\ IF loc[t].outcome \in {"threw", "guard"}
       THEN Throw(t)
       ELSE Return(t, loc[t].val)
    /\ UNCHANGED allButLoad

-----------------------------------------------------------------------------
(* InsertLruAndEvict, ResyncLruEstimate and EvictCacheEntries.             *)

\* EstimateDesignBytes: the file on disk, or the injected bytes without one.
EstimateDesignBytes(n, injected) ==
    (OverheadBytes + StoredBytes(n) + (IF disk[n] # 0 THEN ArchiveBytes ELSE injected))
       % Word

\* InsertLruAndEvict before it takes m_lruMutex.
Estimate(t) ==
    /\ pc[t] = "Estimate"
    /\ LET injected == IF loc[t].after = "AddLoaded" THEN InjectedBytes ELSE 0
       IN  Goto(t, "Charge",
                [loc[t] EXCEPT !.bytes = EstimateDesignBytes(Name(t), injected)])
    /\ UNCHANGED shared

\* Where a loader goes on after InsertLruAndEvict.
AfterInsert(t) ==
    CASE Kind(t) = "design" -> "ScheduleGen"
      [] Kind(t) = "archive" /\ UpdateState(t) -> "AnnounceLoaded"
      [] OTHER -> "Fulfil"

\* InsertLruAndEvict under m_lruMutex.
Charge(t) ==
    /\ pc[t] = "Charge"
    /\ \E V \in SUBSET Names :
          /\ ChargeEntry(Name(t), loc[t].bytes, StoredBytes(Name(t)), LoadingNames, V)
          /\ EvictThen(t, V, IF loc[t].after = "AddLoaded" THEN "AddLoaded"
                                                           ELSE AfterInsert(t))
    /\ UNCHANGED allButLru

\* BUG (mutant): eviction drops the objects and keeps the payloads.
EvictStoreForgotten(t) ==
    /\ pc[t] = "EvictStore"
    /\ \E v \in loc[t].victims :
          Goto(t, "EvictMaps", [loc[t] EXCEPT !.victim = v])
    /\ UNCHANGED shared

\* EvictCacheEntries, for each victim: the payloads, ...
EvictStore(t) ==
    /\ pc[t] = "EvictStore"
    /\ \E v \in loc[t].victims :
          /\ StoreInvalidate(v)
          /\ Goto(t, "EvictMaps", [loc[t] EXCEPT !.victim = v])
    /\ UNCHANGED allButStore

\* BUG (mutant): eviction drops the Design and keeps the archive it came from.
EvictDesignOnly(t) ==
    /\ pc[t] = "EvictMaps"
    /\ cache' = [cache EXCEPT !["design"][loc[t].victim] = Nil]
    /\ Proceed(t, "EvictState")
    /\ UNCHANGED <<disk, installed, allButCache>>

\* ... the objects, ...
EvictMaps(t) ==
    /\ pc[t] = "EvictMaps"
    /\ cache' = [k \in Kinds |-> [cache[k] EXCEPT ![loc[t].victim] = Nil]]
    /\ Proceed(t, "EvictState")
    /\ UNCHANGED <<disk, installed, allButCache>>

\* ... and the load state.
EvictState(t) ==
    /\ pc[t] = "EvictState"
    /\ TransitionLoadState(loc[t].victim, "Unloaded")
    /\ LET rest == loc[t].victims \ {loc[t].victim}
       IN  Goto(t, IF rest = {} THEN loc[t].after ELSE "EvictStore",
                [loc[t] EXCEPT !.victims = rest, !.victim = AnyName])
    /\ UNCHANGED allButLoad

ResyncEstimate(t) ==
    /\ pc[t] = "ResyncEstimate"
    /\ Goto(t, "Resync", [loc[t] EXCEPT !.bytes = EstimateDesignBytes(Name(t), 0)])
    /\ UNCHANGED shared

Resync(t) ==
    /\ pc[t] = "Resync"
    /\ ResyncEntry(Name(t), loc[t].bytes, StoredBytes(Name(t)))
    /\ Proceed(t, "Idle")
    /\ UNCHANGED allButLru

-----------------------------------------------------------------------------
(* AddFileArchive, InvalidateDesign, Clear, setCacheMaxBytes.              *)

\* AddFileArchive: the injected archive replaces the cached one, and the Design
\* built from the old one goes.
AddMaps(t) ==
    /\ pc[t] = "AddMaps"
    /\ LET v == installed[Name(t)] + 1
       IN  /\ installed' = [installed EXCEPT ![Name(t)] = v]
           /\ cache' = [cache EXCEPT !["archive"][Name(t)] = [id |-> 0, ver |-> v],
                                     !["design"][Name(t)] = Nil]
    /\ Goto(t, "InvStore", [loc[t] EXCEPT !.after = "Estimate"])
    /\ UNCHANGED <<disk, allButCache>>

InvMaps(t) ==
    /\ pc[t] = "InvMaps"
    /\ cache' = [k \in Kinds |-> [cache[k] EXCEPT ![Name(t)] = Nil]]
    /\ Goto(t, "InvStore", [loc[t] EXCEPT !.after = "InvState"])
    /\ UNCHANGED <<disk, installed, allButCache>>

\* InvalidateResponsePayloads: the store, then the LRU charge of the payloads.
InvStore(t) ==
    /\ pc[t] = "InvStore"
    /\ StoreInvalidate(Name(t))
    /\ Proceed(t, "AdjustLru")
    /\ UNCHANGED allButStore

AdjustLru(t) ==
    /\ pc[t] = "AdjustLru"
    /\ AdjustLruSerializedBytes(Name(t), StoredBytes(Name(t)))
    /\ Goto(t, loc[t].after,
            [loc[t] EXCEPT !.after = IF @ = "Estimate" THEN "AddLoaded" ELSE "Idle"])
    /\ UNCHANGED allButLru

InvState(t) ==
    /\ pc[t] = "InvState"
    /\ TransitionLoadState(Name(t), "Unloaded")
    /\ Proceed(t, loc[t].ret)
    /\ UNCHANGED allButLoad

\* SaveFileArchive fetches the archive through the cache again.
AddLoaded(t) ==
    /\ pc[t] = "AddLoaded"
    /\ TransitionLoadState(Name(t), "Loaded")
    /\ IF loc[t].save
       THEN Goto(t, "Lookup", [NoLocals EXCEPT !.name = Name(t), !.kind = "archive",
                                               !.ret = "SaveModel"])
       ELSE Proceed(t, "Idle")
    /\ UNCHANGED allButLoad

\* FileArchive::SaveFileModel moves the compressed archive into the directory.
SaveModel(t) ==
    /\ pc[t] = "SaveModel"
    /\ \/ /\ loc[t].val # Nil
          /\ disk' = [disk EXCEPT ![Name(t)] = loc[t].val.ver]
       \/ /\ loc[t].val = Nil \/ "save" \in Faults
          /\ UNCHANGED disk
    /\ Proceed(t, "ResyncEstimate")
    /\ UNCHANGED <<installed, cache, allButCache>>

ClearMaps(t) ==
    /\ pc[t] = "ClearMaps"
    /\ cache' = [k \in Kinds |-> [n \in Names |-> Nil]]
    /\ Proceed(t, "ClearLru")
    /\ UNCHANGED <<disk, installed, allButCache>>

ClearLru(t) ==
    /\ pc[t] = "ClearLru"
    /\ LruClear
    /\ Proceed(t, "ClearStore")
    /\ UNCHANGED allButLru

ClearStore(t) ==
    /\ pc[t] = "ClearStore"
    /\ StoreClear
    /\ Proceed(t, "ClearStates")
    /\ UNCHANGED allButStore

ClearLoadStates(t) ==
    /\ pc[t] = "ClearStates"
    /\ ClearStates
    /\ Proceed(t, "Idle")
    /\ UNCHANGED allButLoad

SetCacheMaxBytes(t) ==
    /\ pc[t] = "SetMaxBytes"
    /\ \E V \in SUBSET Names :
          /\ SetMaxBytes(loc[t].max, LoadingNames, V)
          /\ EvictThen(t, V, "Idle")
    /\ UNCHANGED allButLru

-----------------------------------------------------------------------------
(* LoadDesignAsync, and the requests that end in it.                       *)

\* handleOctetStreamUpload: the new file is moved over the old one.
UploadMove(t) ==
    /\ pc[t] = "UploadMove"
    /\ LET v == installed[Name(t)] + 1
       IN  /\ installed' = [installed EXCEPT ![Name(t)] = v]
           /\ disk' = [disk EXCEPT ![Name(t)] = v]
    /\ Proceed(t, "WarmCheck")
    /\ UNCHANGED <<cache, allButCache>>

\* autoWarmDesign: whatever is cached is dropped before the new load is kicked.
WarmCheck(t) ==
    /\ pc[t] = "WarmCheck"
    /\ IF GetLoadState(Name(t)) # "Unloaded"
       THEN Goto(t, "InvMaps", [loc[t] EXCEPT !.ret = "AsyncCheck"])
       ELSE Proceed(t, "AsyncCheck")
    /\ UNCHANGED shared

\* ComputeRequestLoadStatus: LOAD_ALREADY_LOADING and LOAD_ALREADY_LOADED.
ReqState(t) ==
    /\ pc[t] = "ReqState"
    /\ Proceed(t, IF GetLoadState(Name(t)) \in {"Loading", "Loaded"}
                  THEN "Idle" ELSE "ReqContains")
    /\ UNCHANGED shared

\* LOAD_NOT_FOUND.
ReqContains(t) ==
    /\ pc[t] = "ReqContains"
    /\ Proceed(t, IF disk[Name(t)] = 0 THEN "Idle" ELSE "AsyncCheck")
    /\ UNCHANGED shared

AsyncCheck(t) ==
    /\ pc[t] = "AsyncCheck"
    /\ IF AlreadyLoading(Name(t))
       THEN UNCHANGED loadVars /\ Proceed(t, "Idle")
       ELSE MarkPending(Name(t)) /\ Proceed(t, "AsyncCount")
    /\ UNCHANGED allButLoad

AsyncCount(t) ==
    /\ pc[t] = "AsyncCount"
    /\ CountThread
    /\ Proceed(t, "AsyncSpawn")
    /\ UNCHANGED allButSlots

\* A detached thread w starts with locals lw while t goes on at `to`.  Idle workers
\* only differ in their names: one of them is taken.
Spawn(t, to, w, lw) ==
    /\ w \in Workers /\ pc[w] = "Idle"
    /\ w = CHOOSE v \in Workers : pc[v] = "Idle"
    /\ pc' = [pc EXCEPT ![t] = to, ![w] = "AcquireSlot"]
    /\ loc' = [loc EXCEPT ![t] = IF to = "Idle" THEN NoLocals ELSE @, ![w] = lw]
    /\ UNCHANGED shared

AsyncSpawn(t, w) ==
    /\ pc[t] = "AsyncSpawn"
    /\ Spawn(t, "Idle", w, [NoLocals EXCEPT !.name = Name(t), !.job = "load",
                                            !.ret = "ReleaseSlot"])

\* std::thread's constructor throws: the system has no thread left.
SpawnFails(t) ==
    /\ \A w \in Workers : pc[w] # "Idle"
    /\ pc[t] \in {"AsyncSpawn", "ScheduleSpawn"}
    /\ Proceed(t, IF pc[t] = "AsyncSpawn" THEN "AsyncUncount" ELSE "ScheduleUncount")
    /\ UNCHANGED shared

AsyncUncount(t) ==
    /\ pc[t] = "AsyncUncount"
    /\ UncountThread
    /\ Proceed(t, "AsyncUnmark")
    /\ UNCHANGED allButSlots

AsyncUnmark(t) ==
    /\ pc[t] = "AsyncUnmark"
    /\ UnmarkPending(Name(t))
    /\ Proceed(t, "Idle")
    /\ UNCHANGED allButLoad

-----------------------------------------------------------------------------
(* BackgroundLoad and PreSerializeWorker.                                  *)

Acquire(t) ==
    /\ pc[t] = "AcquireSlot"
    /\ AcquireSlot
    /\ Proceed(t, IF loc[t].job = "load" THEN "Lookup" ELSE "BuildPayload")
    /\ UNCHANGED allButSlots

\* BUG (mutant): a load that failed keeps its slot.
ReleaseAfterSuccessOnly(t) ==
    /\ pc[t] = "ReleaseSlot"
    /\ IF loc[t].val = Nil THEN UNCHANGED slotVars ELSE ReleaseSlot
    /\ Proceed(t, IF loc[t].job = "load" THEN "UnmarkPending" ELSE "Uncount")
    /\ UNCHANGED allButSlots

Release(t) ==
    /\ pc[t] = "ReleaseSlot"
    /\ ReleaseSlot
    /\ Proceed(t, IF loc[t].job = "load" THEN "UnmarkPending" ELSE "Uncount")
    /\ UNCHANGED allButSlots

\* BUG (mutant): the marker is dropped only when the load produced a design.
UnmarkAfterSuccessOnly(t) ==
    /\ pc[t] = "UnmarkPending"
    /\ IF loc[t].val = Nil THEN UNCHANGED loadVars ELSE UnmarkPending(Name(t))
    /\ Proceed(t, "Uncount")
    /\ UNCHANGED allButLoad

UnmarkLoaded(t) ==
    /\ pc[t] = "UnmarkPending"
    /\ UnmarkPending(Name(t))
    /\ Proceed(t, "Uncount")
    /\ UNCHANGED allButLoad

Uncount(t) ==
    /\ pc[t] = "Uncount"
    /\ UncountThread
    /\ Proceed(t, "Idle")
    /\ UNCHANGED allButSlots

-----------------------------------------------------------------------------
(* Pre-serialization of the responses.                                     *)

\* ScheduleResponsePreSerialization, on the loader's thread.
ScheduleGen(t) ==
    /\ pc[t] = "ScheduleGen"
    /\ Goto(t, "ScheduleCount",
            [loc[t] EXCEPT !.gen["design"] = CurrentGeneration(Name(t))])
    /\ UNCHANGED shared

ScheduleCount(t) ==
    /\ pc[t] = "ScheduleCount"
    /\ CountThread
    /\ Proceed(t, "ScheduleSpawn")
    /\ UNCHANGED allButSlots

ScheduleSpawn(t, w) ==
    /\ pc[t] = "ScheduleSpawn"
    /\ Spawn(t, "AnnounceLoaded", w,
             [NoLocals EXCEPT !.name = Name(t), !.job = "serialize",
                              !.val = loc[t].val, !.ret = "ReleaseSlot",
                              !.gen["design"] = loc[t].gen["design"],
                              !.ep["design"] = loc[t].ep["design"]])

ScheduleUncount(t) ==
    /\ pc[t] = "ScheduleUncount"
    /\ UncountThread
    /\ Proceed(t, "AnnounceLoaded")
    /\ UNCHANGED allButSlots

\* SerializeResponsePayloads: the cached Design, then its generation, then the
\* epoch, each under its own lock.
SerDesign(t) ==
    /\ pc[t] = "SerDesign"
    /\ LET found == cache["design"][Name(t)]
       IN  Goto(t, IF found = Nil THEN "Idle" ELSE "SerGen",
                [loc[t] EXCEPT !.val = found])
    /\ UNCHANGED shared

SerGen(t) ==
    /\ pc[t] = "SerGen"
    /\ Goto(t, "SerEpoch",
            [loc[t] EXCEPT !.gen["design"] = CurrentGeneration(Name(t))])
    /\ UNCHANGED shared

SerEpoch(t) ==
    /\ pc[t] = "SerEpoch"
    /\ Goto(t, "BuildPayload", [loc[t] EXCEPT !.ep["design"] = epoch])
    /\ UNCHANGED shared

\* BuildResponsePayload; an empty or failed serialization commits nothing.
BuildPayload(t) ==
    /\ pc[t] = "BuildPayload"
    /\ \/ Proceed(t, "CommitIdentity")
       \/ "serialize" \in Faults /\ Proceed(t, loc[t].ret)
    /\ UNCHANGED shared

\* BUG (mutant): the payloads of a Design that is no longer cached are committed.
CommitAnyDesign(t) ==
    /\ pc[t] = "CommitIdentity"
    /\ Proceed(t, "CommitStore")
    /\ UNCHANGED shared

\* CommitResponsePayloads: only for the Design object still in the cache.
CommitIdentity(t) ==
    /\ pc[t] = "CommitIdentity"
    /\ Proceed(t, IF cache["design"][Name(t)] = loc[t].val
                  THEN "CommitStore" ELSE loc[t].ret)
    /\ UNCHANGED shared

\* CommitResponsePayloads under m_lruMutex: evicted or cleared meanwhile aborts;
\* a stored payload is charged to the entry of its name.
CommitStore(t) ==
    LET n == Name(t)
        g == loc[t].gen["design"]
        payload == [bytes |-> PayloadBytes, ver |-> loc[t].val.ver]
        charge == IF TryStoreSucceeds(n, g) THEN TryStoreBytes(n, payload)
                                            ELSE serialized[n]
    IN  /\ pc[t] = "CommitStore"
        /\ IF n \notin charged \/ WasClearedSince(loc[t].ep["design"])
           THEN Proceed(t, loc[t].ret) /\ UNCHANGED <<storeVars, lruVars>>
           ELSE /\ TryStore(n, g, payload)
                /\ \E V \in SUBSET Names :
                      /\ ChargePayload(n, charge, LoadingNames, V)
                      /\ EvictThen(t, V, loc[t].ret)
        /\ UNCHANGED <<loadVars, slotVars, cacheVars, calls>>

-----------------------------------------------------------------------------
(* The specification.                                                      *)

\* The first section of a request.
EntryLabel(op) ==
    CASE op \in {"GetDesign", "GetFileArchive"} -> "Lookup"
      [] op \in {"AddFileArchive", "SaveNewArchive"} -> "AddMaps"
      [] op = "InvalidateDesign" -> "InvMaps"
      [] op = "Clear" -> "ClearMaps"
      [] op = "SetCacheMaxBytes" -> "SetMaxBytes"
      [] op = "LoadDesignAsync" -> "AsyncCheck"
      [] op = "RequestLoad" -> "ReqState"
      [] op = "Upload" -> "UploadMove"
      [] op = "SerializeResponses" -> "SerDesign"

Call(t) ==
    /\ t \in Clients /\ pc[t] = "Idle" /\ calls[t] < Len(Script[t])
    /\ calls' = [calls EXCEPT ![t] = @ + 1]
    /\ \E r \in Script[t][calls[t] + 1] :
          Goto(t, EntryLabel(r.op),
               [NoLocals EXCEPT !.name = r.name, !.max = r.max,
                                !.kind = IF r.op = "GetFileArchive" THEN "archive"
                                                                    ELSE "design",
                                !.save = r.op = "SaveNewArchive"])
    /\ UNCHANGED <<loadVars, lruVars, storeVars, slotVars, cacheVars>>

SingleFlightStep(t) ==
    \/ Lookup(t) \/ TouchHit(t) \/ CaptureGen(t) \/ Register(t) \/ Join(t)
    \/ TouchJoin(t) \/ Announce(t) \/ LoaderExits(t) \/ LoadDesign(t)
    \/ LoadFileArchive(t) \/ BuildDesign(t) \/ CheckGen(t) \/ CheckEpoch(t)
    \/ Insert(t) \/ AnnounceLoaded(t) \/ Fulfil(t) \/ CheckFailed(t)
    \/ AnnounceFailed(t) \/ EraseState(t) \/ EraseFlight(t)

LruStep(t) ==
    \/ Estimate(t) \/ Charge(t) \/ EvictStore(t) \/ EvictMaps(t) \/ EvictState(t)
    \/ ResyncEstimate(t) \/ Resync(t) \/ SetCacheMaxBytes(t)

InvalidateStep(t) ==
    \/ AddMaps(t) \/ AddLoaded(t) \/ SaveModel(t) \/ InvMaps(t) \/ InvStore(t)
    \/ AdjustLru(t) \/ InvState(t)
    \/ ClearMaps(t) \/ ClearLru(t) \/ ClearStore(t) \/ ClearLoadStates(t)

BackgroundStep(t) ==
    \/ UploadMove(t) \/ WarmCheck(t) \/ ReqState(t) \/ ReqContains(t)
    \/ AsyncCheck(t) \/ AsyncCount(t) \/ AsyncUncount(t) \/ AsyncUnmark(t)
    \/ \E w \in Workers : AsyncSpawn(t, w) \/ ScheduleSpawn(t, w)
    \/ SpawnFails(t) \/ Acquire(t) \/ Release(t) \/ UnmarkLoaded(t) \/ Uncount(t)

SerializeStep(t) ==
    \/ ScheduleGen(t) \/ ScheduleCount(t) \/ ScheduleUncount(t)
    \/ SerDesign(t) \/ SerGen(t) \/ SerEpoch(t) \/ BuildPayload(t)
    \/ CommitIdentity(t) \/ CommitStore(t)

ThreadStep(t) ==
    \/ SingleFlightStep(t) \/ LruStep(t) \/ InvalidateStep(t) \/ BackgroundStep(t)
    \/ SerializeStep(t)

Quiescent == \A t \in Threads : pc[t] = "Idle"

\* Every call has returned and no client calls any more.
Finished ==
    /\ Quiescent
    /\ \A c \in Clients : calls[c] = Len(Script[c])
    /\ UNCHANGED vars

Next ==
    \/ \E t \in Threads : Call(t) \/ ThreadStep(t)
    \/ Finished

Spec == Init /\ [][Next]_vars

\* While some thread can run, the scheduler runs one.  Fairness to each thread is
\* not needed: clients issue finitely many calls, and no step undoes another.
FairSpec == Spec /\ WF_vars(\E t \in Threads : ThreadStep(t))

-----------------------------------------------------------------------------
(* Properties.                                                             *)

\* A thread with program counter p and locals l runs the load of an activation of
\* GetOrLoadSingleFlight: it is between the registration of its future and the
\* erasure of it.
InLoader(p, l) ==
    \/ p \in {"Announce", "Load", "Build", "CheckGen", "CheckEpoch", "Insert",
              "ScheduleGen", "ScheduleCount", "ScheduleSpawn", "ScheduleUncount",
              "AnnounceLoaded", "Fulfil", "CheckFailed", "AnnounceFailed",
              "EraseState", "EraseFlight"}
    \/ p \in {"Estimate", "Charge"} /\ l.after # "AddLoaded"
    \/ /\ p \in {"EvictStore", "EvictMaps", "EvictState"}
       /\ l.after \in {"ScheduleGen", "AnnounceLoaded", "Fulfil"}

\* Such a thread is the loader of (k, n); inside a nested archive load it also is
\* the loader of the design.
Loads(p, l, k, n) ==
    /\ l.name = n
    /\ \/ l.kind = k /\ InLoader(p, l)
       \/ k = "design" /\ l.nested

IsLoader(t, k, n) == Loads(pc[t], loc[t], k, n)

\* "Exactly one parse per design name": the thread named by an in-flight entry is
\* the one that runs the load, every running load is registered, and so at most
\* one thread parses an archive or builds a design of a name at any time.
SingleFlight ==
    \A k \in Kinds, n \in Names, t \in Threads :
        IsLoader(t, k, n) <=> inFlight[k][n].owner = t

\* A thread blocked on a future waits for a promise that its loader, still
\* registered under the name, has yet to fulfil: no joiner is left behind by a
\* failure, an abandoned load, a Clear() or a fresh load of the same name.
JoinersHaveLoader ==
    \A u \in Threads :
        pc[u] = "Join" /\ loc[u].wait.status = "pending"
           => /\ inFlight[Kind(u)][Name(u)] = loc[u].wait
              /\ IsLoader(loc[u].wait.owner, Kind(u), Name(u))

\* m_cachedBytes is the sum of what the LRU entries charge, whatever was
\* inserted, committed, invalidated, resynchronised, evicted or cleared.
CachedBytesExact ==
    cachedBytes = Contribution(estimated, serialized, Names) % Word

\* A thread has taken the LRU entry of n and still has to drop the payloads of n:
\* an eviction that has not come to n, or a Clear().
DropPending(n) ==
    \E t \in Threads :
        \/ pc[t] = "EvictStore" /\ n \in loc[t].victims
        \/ pc[t] \in {"EvictMaps", "EvictState"} /\ n \in loc[t].victims \ {loc[t].victim}
        \/ pc[t] = "ClearStore"

\* The charge of one name is what the store holds for it.
PayloadIsCharged(n) ==
    \/ DropPending(n)
    \/ \E t \in Threads : pc[t] = "AdjustLru" /\ Name(t) = n
    \/ serialized[n] = StoredBytes(n)

\* Without Clear() and with an unlimited budget (m_maxBytes = 0) the payload bytes
\* charged to a name are the bytes the store holds, except while an invalidation is
\* between the store and the LRU entry.
PayloadCharged == \A n \in Names : PayloadIsCharged(n)

\* Whatever is evicted or cleared, the store never holds payload bytes of a name
\* that the budget does not count, except those a thread is on its way to drop.
\* (The converse fails: an eviction can drop the payloads of a name that a load has
\* charged again meanwhile, and their charge stays.)
PayloadNeverUncharged ==
    \A n \in Names : DropPending(n) \/ StoredBytes(n) <= serialized[n]

\* Without Clear() a cached object is charged to the budget, so that eviction can
\* reach it, except while a thread is on its way to charge or drop it.  (An insert
\* between the maps and the LRU section of a Clear() loses its charge.)
CachedIsCharged ==
    Quiescent => \A k \in Kinds, n \in Names : cache[k][n] # Nil => n \in charged

\* The payload stored for one name describes its cached Design.
PayloadMatches(n) == HasEntry(n) => entries[n].ver = cache["design"][n].ver

\* Without Clear() and with an unlimited budget: when no call is running, the payload
\* served by the gRPC fast path describes the same contents as the Design in the
\* cache, however reads, uploads, injections and invalidations were interleaved.
PayloadMatchesDesign == Quiescent => \A n \in Names : PayloadMatches(n)

\* What one loader that reads the captured generation again is about to cache.
InsertIsFresh(t) ==
    /\ pc[t] = "Insert" /\ Kind(t) = "design" /\ loc[t].wait = NoFlight
    /\ CurrentGeneration(Name(t)) = loc[t].gen["design"]
    /\ cache["archive"][Name(t)] # Nil
    /\ \A u \in Threads : pc[u] = "InvStore" => Name(u) # Name(t)
    => loc[t].val.ver = cache["archive"][Name(t)].ver

\* Without Clear() and with an unlimited budget the abandon checkpoint can rely on
\* the generation: while it is the one the loader captured before it looked at
\* anything, and nobody is between the maps and the store of an invalidation, a
\* Design about to be cached describes the archive in the cache, whoever parsed or
\* injected that archive.  A loader that joined the archive load of another thread
\* is left out: it may have been given the archive of a load that an earlier
\* invalidation made abandon its result.
InsertsAreFresh == \A t \in Threads : InsertIsFresh(t)

\* A load that no invalidation, eviction or Clear() raced never leaves its name
\* in Loading, whether it succeeds, fails or finds nothing.  (A Clear() has raced
\* it from the moment it resets the generations.  A bad_alloc at the cache insert is
\* the one failure that does leave Loading behind.)
UnracedLoadsSettle ==
    epoch = 0 /\ (\A t \in Threads : pc[t] # "ClearStates")
       => \A n \in Names :
             loadState[n] = "Loading" /\ generations[n] = 0 => AlreadyLoading(n)

\* "A load for this design is already queued or parsing" (LOAD_ALREADY_LOADING):
\* no name is left Loading when no load is queued or parsing any more.
NoStuckLoading ==
    Quiescent => \A n \in Names : loadState[n] # "Loading"

\* "A commit racing any of these is discarded ..., so stale bytes can never be
\* published" (DesignCache.h): with no call running, the payload describes the
\* archive in the cache.
NoStalePayload ==
    Quiescent => \A n \in Names :
        HasEntry(n) /\ cache["archive"][n] # Nil
          => entries[n].ver = cache["archive"][n].ver

\* "An overwrite of an already-cached design must drop the stale cache entry":
\* once an upload and its warm-up are over, nothing older than the file on disk
\* is cached.
UploadDropsStale ==
    Quiescent => \A k \in Kinds, n \in Names :
        cache[k][n] # Nil => cache[k][n].ver >= disk[n]

\* The pending marker of a name is owned by exactly the asynchronous load that
\* set it.
PendingHasThread ==
    \A n \in pending : \E t \in Threads :
        /\ Name(t) = n
        /\ \/ pc[t] \in {"AsyncCount", "AsyncSpawn", "AsyncUncount", "AsyncUnmark"}
           \/ t \in Workers /\ loc[t].job = "load" /\ pc[t] \notin {"Idle", "Uncount"}

\* Every call returns and every detached thread ends: no thread waits for ever on
\* a future, on a slot or on another thread that waits.
CallsReturn == []<>Quiescent
=============================================================================
