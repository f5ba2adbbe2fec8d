-------------------------- MODULE CacheContentProofs --------------------------
(***************************************************************************)
(* Theorems about what DesignCache holds when calls are interleaved: what  *)
(* is cached is charged, loads settle, payload charges are exact, payloads *)
(* describe the cached Design, and a Design is inserted only over the      *)
(* archive it was built from.                                              *)
(*                                                                         *)
(* Each has a hypothesis on the calls or the failures that the code needs: *)
(* NoClear (the server never calls Clear()), NoAlloc (no bad_alloc), and   *)
(* for the last three, []SparedIn(S): the names S they speak of are not    *)
(* evicted, while any other may be, whatever the byte budget is (the       *)
(* server's default is 4096 MB).  Without its hypothesis each of the five  *)
(* is false, and TLC has a behaviour that shows it.                        *)
(***************************************************************************)
EXTENDS CacheSafetyProofs

-----------------------------------------------------------------------------
(* Steps of one thread seen from another, and where threads come from.     *)

LEMMA OtherSame ==
    ASSUME TypeInv, NEW t \in Threads, Section(t), NEW u \in Threads \ {t},
           pc[u] \notin {"Idle", "Join"}
    PROVE  pc'[u] = pc[u] /\ loc'[u] = loc[u]
<1>1. CASE \A w \in Workers : ~Spawns(t, w)
  BY <1>1, OthersStay DEF Undisturbed
<1>2. ASSUME NEW w \in Workers, Spawns(t, w)
      PROVE  pc'[u] = pc[u] /\ loc'[u] = loc[u]
  BY <1>2, SpawnMoves DEF Spawned
<1> QED
  BY <1>1, <1>2

\* A thread that the step does not run stays where it is, or is started by it.
LEMMA OtherThread ==
    ASSUME TypeInv, NEW t \in Threads, Section(t), NEW u \in Threads \ {t}
    PROVE  \/ Undisturbed(u)
           \/ u \in Workers /\ Spawns(t, u) /\ pc[u] = "Idle" /\ pc'[u] = "AcquireSlot"
<1>1. CASE \A w \in Workers : ~Spawns(t, w)
  BY <1>1, OthersStay
<1>2. ASSUME NEW w \in Workers, Spawns(t, w)
      PROVE  \/ Undisturbed(u)
             \/ u \in Workers /\ Spawns(t, u) /\ pc[u] = "Idle" /\ pc'[u] = "AcquireSlot"
  BY <1>2, SpawnMoves DEF Spawned, Undisturbed, Starts
<1> QED
  BY <1>1, <1>2

ClearPcs == {"ClearMaps", "ClearLru", "ClearStore", "ClearStates"}

LEMMA CameFrom ==
    ASSUME BaseInv, NEW t \in Threads, Section(t)
    PROVE  /\ pc'[t] \in ClearPcs => pc[t] \in ClearPcs \cup {"Idle"}
           /\ pc'[t] = "SetMaxBytes" => pc[t] = "Idle"
           /\ pc'[t] \in EvictPcs
                => pc[t] \in EvictPcs \cup {"Charge", "SetMaxBytes", "CommitStore"}
           /\ pc'[t] = "InvStore" => pc[t] \in {"AddMaps", "InvMaps"}
           /\ pc'[t] = "AdjustLru" => pc[t] = "InvStore"
           /\ pc'[t] = "Estimate" => pc[t] \in {"Insert", "AdjustLru"}
           /\ pc'[t] = "Charge" => pc[t] = "Estimate"
           /\ pc'[t] = "CommitStore" => pc[t] = "CommitIdentity"
           /\ pc'[t] = "CommitIdentity" => pc[t] = "BuildPayload"
           /\ pc'[t] = "BuildPayload" => pc[t] \in {"AcquireSlot", "SerEpoch"}
           /\ pc'[t] = "SerEpoch" => pc[t] = "SerGen"
           /\ pc'[t] = "SerGen" => pc[t] = "SerDesign"
           /\ pc'[t] = "Register" => pc[t] = "CaptureGen"
           /\ pc'[t] = "Join" => pc[t] = "Register"
           /\ pc'[t] = "TouchJoin" => pc[t] = "Join"
           /\ pc'[t] = "TouchHit" => pc[t] = "Lookup"
           /\ pc'[t] = "Announce" => pc[t] = "Register"
           /\ pc'[t] = "Load" => pc[t] \in {"Register", "Announce"}
           /\ pc'[t] = "Build" => pc[t] \in {"TouchHit", "Join", "TouchJoin", "EraseFlight"}
           /\ pc'[t] = "CheckGen" => pc[t] \in {"Load", "Build"}
           /\ pc'[t] = "CheckEpoch" => pc[t] = "CheckGen"
           /\ pc'[t] = "Insert" => pc[t] = "CheckEpoch"
           /\ pc'[t] = "EraseFlight"
                => pc[t] \in {"Fulfil", "CheckFailed", "AnnounceFailed", "EraseState"}
           /\ pc'[t] # "AcquireSlot"
<1>1. TypeInv /\ CInv /\ pc[t] \in Labels
  BY LocalFacts DEF BaseInv, TypeInv
<1>2. pc[t] = "Idle" => pc'[t] \in EntryPcs
  BY <1>1, CallFlow
<1> USE <1>1, <1>2, FlightFlow, DropFlow, AsyncFlow
        DEF Labels, EntryPcs, LeavePcs, RetPcs, LoaderAfter, EvictPcs, ClearPcs
<1>3. /\ pc'[t] \in ClearPcs => pc[t] \in ClearPcs \cup {"Idle"}
      /\ pc'[t] = "SetMaxBytes" => pc[t] = "Idle"
      /\ pc'[t] \in EvictPcs
           => pc[t] \in EvictPcs \cup {"Charge", "SetMaxBytes", "CommitStore"}
  OBVIOUS
<1>4. /\ pc'[t] = "InvStore" => pc[t] \in {"AddMaps", "InvMaps"}
      /\ pc'[t] = "AdjustLru" => pc[t] = "InvStore"
      /\ pc'[t] = "Estimate" => pc[t] \in {"Insert", "AdjustLru"}
      /\ pc'[t] = "Charge" => pc[t] = "Estimate"
  OBVIOUS
<1>5. /\ pc'[t] = "CommitStore" => pc[t] = "CommitIdentity"
      /\ pc'[t] = "CommitIdentity" => pc[t] = "BuildPayload"
      /\ pc'[t] = "BuildPayload" => pc[t] \in {"AcquireSlot", "SerEpoch"}
      /\ pc'[t] = "SerEpoch" => pc[t] = "SerGen"
      /\ pc'[t] = "SerGen" => pc[t] = "SerDesign"
  OBVIOUS
<1>6. /\ pc'[t] = "Register" => pc[t] = "CaptureGen"
      /\ pc'[t] = "Join" => pc[t] = "Register"
      /\ pc'[t] = "TouchJoin" => pc[t] = "Join"
      /\ pc'[t] = "TouchHit" => pc[t] = "Lookup"
      /\ pc'[t] = "Announce" => pc[t] = "Register"
      /\ pc'[t] = "Load" => pc[t] \in {"Register", "Announce"}
  OBVIOUS
<1>7. /\ pc'[t] = "Build" => pc[t] \in {"TouchHit", "Join", "TouchJoin", "EraseFlight"}
      /\ pc'[t] = "CheckGen" => pc[t] \in {"Load", "Build"}
      /\ pc'[t] = "CheckEpoch" => pc[t] = "CheckGen"
      /\ pc'[t] = "Insert" => pc[t] = "CheckEpoch"
      /\ pc'[t] = "EraseFlight"
           => pc[t] \in {"Fulfil", "CheckFailed", "AnnounceFailed", "EraseState"}
      /\ pc'[t] # "AcquireSlot"
  OBVIOUS
<1> QED
  BY <1>3, <1>4, <1>5, <1>6, <1>7
-----------------------------------------------------------------------------
(* Without Clear(): what is cached is charged.                             *)

\* No client calls Clear(), as in the server: only tests do.
NoClear ==
    \A c \in Clients : \A i \in 1 .. Len(Script[c]) : \A r \in Script[c][i] : r.op # "Clear"

NeverCleared == epoch = 0 /\ \A t \in Threads : pc[t] \notin ClearPcs

\* No step takes a thread into Clear().
LEMMA NoClearEntered ==
    ASSUME NoClear, BaseInv, NEW t \in Threads, Section(t), pc[t] \notin ClearPcs
    PROVE  pc'[t] \notin ClearPcs
<1>1. CASE pc[t] # "Idle"
  BY <1>1, CameFrom
<1>2. CASE pc[t] = "Idle"
  <2>1. Call(t)
    BY <1>2, CallFlow DEF BaseInv
  <2>2. t \in Clients /\ \E i \in 1 .. Len(Script[t]) : \E r \in Script[t][i] :
                            r \in Request /\ pc'[t] = EntryLabel(r.op)
    BY <2>1, CallMoves DEF BaseInv, Starts, Clients
  <2>3. PICK r \in Request : r.op # "Clear" /\ pc'[t] = EntryLabel(r.op)
    BY <2>2 DEF NoClear
  <2> QED
    BY <2>3 DEF Request, Ops, EntryLabel, ClearPcs
<1> QED
  BY <1>1, <1>2

LEMMA NeverClearedStep ==
    ASSUME NoClear, BaseInv, NeverCleared, [Next]_vars
    PROVE  NeverCleared'
<1>1. CASE UNCHANGED vars
  BY <1>1 DEF vars, threadVars, loadVars, NeverCleared
<1>2. SUFFICES ASSUME NEW t \in Threads, Section(t)
               PROVE  NeverCleared'
  BY <1>1, StepCases
<1>3. epoch' = 0
  BY <1>2, Frame DEF NeverCleared, ClearPcs
<1>4. pc'[t] \notin ClearPcs
  BY <1>2, NoClearEntered DEF NeverCleared
<1>5. \A u \in Threads \ {t} : pc'[u] \notin ClearPcs
  <2>1. ASSUME NEW u \in Threads \ {t} PROVE pc'[u] \notin ClearPcs
    BY <1>2, OtherThread DEF BaseInv, NeverCleared, Undisturbed, ClearPcs
  <2> QED
    BY <2>1
<1> QED
  BY <1>3, <1>4, <1>5 DEF NeverCleared

LEMMA NeverClearedInitial ==
    ASSUME Init PROVE NeverCleared
  BY DEF Init, LoadInit, NeverCleared, ClearPcs

\* A thread at p with locals l is on its way to charge or to drop what is cached
\* under n.
Owes(p, l, n) ==
    \/ l.name = n /\ p \in {"Estimate", "Charge"}
    \/ l.name = n /\ p \in {"InvStore", "AdjustLru"} /\ l.after = "Estimate"
    \/ p \in {"EvictStore", "EvictMaps"} /\ n \in l.victims
    \/ p = "EvictState" /\ n \in l.victims \ {l.victim}

ChargeOwed(n) == n \in charged \/ \E t \in Threads : Owes(pc[t], loc[t], n)

ChargedInv == \A k \in Kinds, n \in Names : cache[k][n] # Nil => ChargeOwed(n)

\* A thread that owes a charge still does after its next section, or has paid.
LEMMA DebtKept ==
    ASSUME BaseInv, NEW t \in Threads, Section(t), NEW n \in Names, Owes(pc[t], loc[t], n)
    PROVE  \/ Owes(pc'[t], loc'[t], n) \/ n \in charged'
           \/ \A k \in Kinds : cache'[k][n] = Nil
<1>0. ThreadTypeOK /\ TypeInv
  BY DEF BaseInv, TypeInv
<1>1. CASE pc[t] \in {"Estimate", "EvictStore"}
  <2>1. Moves(t, "Charge", {"bytes"}) \/ Moves(t, "EvictMaps", {"victim"})
    BY <1>0, <1>1, SectionAt, BudgetMoves, Zenon
  <2>2. pc[t] = "Estimate" <=> pc'[t] = "Charge"
    BY <1>0, <1>1, DropFlow DEF BaseInv
  <2> QED
    BY <1>1, <2>1, <2>2 DEF Moves, Fields, Owes
<1>2. CASE pc[t] = "Charge"
  <2>1. Charge(t) /\ pc'[t] # "ClearStore"
    BY <1>0, <1>2, SectionAt, DropFlow DEF BaseInv, LoaderAfter
  <2>2. Drops(pc'[t], loc'[t], n) \/ n \in charged'
    BY <1>2, <2>1, ChargeEffect DEF Owes, Name
  <2> QED
    BY <2>1, <2>2 DEF Drops, Owes
<1>3. CASE pc[t] = "InvStore"
  BY <1>0, <1>3, SectionAt, DropMoves DEF Moves, Fields, Owes
<1>4. CASE pc[t] = "AdjustLru"
  BY <1>0, <1>4, SectionAt, AdjustMoves DEF Moves, Fields, Owes
<1>5. CASE pc[t] = "EvictMaps"
  <2>1. /\ Moves(t, "EvictState", {})
    BY <1>0, <1>5, SectionAt, BudgetMoves, Zenon
  <2>2. cache' = [k \in Kinds |-> [cache[k] EXCEPT ![loc[t].victim] = Nil]]
    BY <1>5, SectionAt DEF EvictMaps
  <2>3. CASE n = loc[t].victim
    <3>1. \A k \in Kinds : n \in DOMAIN cache[k]
      BY <1>0 DEF TypeInv, DataInv, DataTypeOK
    <3> QED
      BY <2>2, <2>3, <3>1
  <2> QED
    BY <1>5, <2>1, <2>3 DEF Moves, Fields, Owes
<1>6. CASE pc[t] = "EvictState"
  <2> DEFINE rest == loc[t].victims \ {loc[t].victim}
  <2>1. /\ Moves(t, IF rest = {} THEN loc[t].after ELSE "EvictStore", {"victims", "victim"})
        /\ Gets(t, "victims", rest)
    BY <1>0, <1>6, SectionAt, BudgetMoves, Zenon
  <2>2. n \in rest
    BY <1>6 DEF Owes
  <2> HIDE DEF rest
  <2> QED
    BY <2>1, <2>2 DEF Owes, Moves, Gets
<1> QED
  BY <1>1, <1>2, <1>3, <1>4, <1>5, <1>6 DEF Owes

LEMMA ChargedStep ==
    ASSUME NoClear, BaseInv, NeverCleared, ChargedInv, [Next]_vars
    PROVE  ChargedInv'
<1>0. TypeInv /\ ThreadTypeOK /\ cache \in [Kinds -> [Names -> Object]]
  BY DEF BaseInv, TypeInv, DataInv, DataTypeOK
<1>1. CASE UNCHANGED vars
  BY <1>1 DEF vars, threadVars, lruVars, cacheVars, ChargedInv, ChargeOwed
<1>2. SUFFICES ASSUME NEW t \in Threads, Section(t), NEW k \in Kinds, NEW n \in Names,
                      cache'[k][n] # Nil
               PROVE  n \in charged' \/ \E u \in Threads : Owes(pc'[u], loc'[u], n)
  BY <1>1, StepCases DEF ChargedInv, ChargeOwed
<1>3. pc[t] \notin ClearPcs
  BY DEF NeverCleared
<1>4. ASSUME NEW u \in Threads, Owes(pc[u], loc[u], n)
      PROVE  n \in charged' \/ \E v \in Threads : Owes(pc'[v], loc'[v], n)
  <2>1. CASE u = t
    BY <1>2, <1>4, <2>1, DebtKept
  <2>2. CASE u # t
    BY <1>0, <1>2, <1>4, <2>2, OtherSame DEF Owes
  <2> QED
    BY <2>1, <2>2
<1>5. CASE n \in charged
  <2>1. CASE pc[t] \in {"Charge", "SetMaxBytes", "CommitStore"}
    <3>1. Charge(t) \/ SetCacheMaxBytes(t) \/ CommitStore(t)
      BY <1>2, <2>1, SectionAt
    <3>2. pc'[t] # "ClearStore"
      BY <1>0, <1>2, <2>1, DropFlow, AsyncFlow DEF BaseInv, LoaderAfter, RetPcs
    <3>3. Drops(pc'[t], loc'[t], n) \/ n \in charged'
      BY <1>2, <1>5, <3>1, ChargeEffect, SetMaxEffect, CommitEffect
    <3> QED
      BY <3>2, <3>3 DEF Drops, Owes
  <2>2. CASE pc[t] \notin {"Charge", "SetMaxBytes", "CommitStore"}
    BY <1>2, <1>3, <1>5, <2>2, Frame DEF ChargePcs, ClearPcs
  <2> QED
    BY <2>1, <2>2
<1>6. CASE cache[k][n] # Nil
  BY <1>4, <1>5, <1>6 DEF ChargedInv, ChargeOwed
<1>7. CASE cache[k][n] = Nil
  <2>1. cache' # cache
    BY <1>2, <1>7
  <2>2. pc[t] \in {"Insert", "EvictMaps", "AddMaps", "InvMaps"}
    BY <1>2, <1>3, <2>1, Frame DEF MapPcs, ClearPcs
  <2>3. CASE pc[t] \in {"EvictMaps", "InvMaps"}
    <3>1. \E m \in Names : cache' = [j \in Kinds |-> [cache[j] EXCEPT ![m] = Nil]]
      BY <1>0, <1>2, <2>3, SectionAt, LocalFacts DEF EvictMaps, InvMaps
    <3> QED
      BY <1>0, <1>2, <1>7, <3>1
  <2>4. CASE pc[t] = "Insert"
    <3>1. /\ cache' = [cache EXCEPT ![Kind(t)][Name(t)] = loc[t].val] /\ Moves(t, "Estimate", {})
      <4>1. Insert(t) \/ LoaderExits(t)
        BY <1>2, <2>4, SectionAt
      <4>2. LoaderExits(t) => UNCHANGED shared
        BY DEF LoaderExits
      <4>3. ~LoaderExits(t)
        BY <2>1, <4>2 DEF shared, cacheVars
      <4> QED
        BY <1>0, <2>1, <4>1, <4>3, CheckMoves, Zenon
    <3>2. n = Name(t)
      BY <1>0, <1>2, <1>7, <3>1, LocalFacts
    <3> QED
      BY <3>1, <3>2 DEF Moves, Fields, Owes, Name
  <2>5. CASE pc[t] = "AddMaps"
    <3>1. AddMaps(t)
      BY <1>2, <2>5, SectionAt
    <3>2. Moves(t, "InvStore", {"after"}) /\ Gets(t, "after", "Estimate")
      BY <1>0, <3>1, DropMoves
    <3>3. n = Name(t)
      <4>1. \E o : cache' = [cache EXCEPT !["archive"][Name(t)] = o, !["design"][Name(t)] = Nil]
        BY <3>1 DEF AddMaps
      <4> QED
        BY <1>0, <1>2, <1>7, <4>1, LocalFacts DEF Kinds
    <3> QED
      BY <3>2, <3>3 DEF Moves, Gets, Fields, Owes, Name
  <2> QED
    BY <2>2, <2>3, <2>4, <2>5
<1> QED
  BY <1>6, <1>7

\* Without Clear(), for any number of names, threads and calls and any budget: once
\* every call has returned, every cached archive and Design is charged to the budget,
\* so that eviction can reach it, however loads, injections, invalidations, evictions
\* and budget changes were interleaved.
THEOREM WhatIsCachedIsCharged ==
    ASSUME NoClear PROVE Spec => []CachedIsCharged
<1> DEFINE I == BaseInv /\ NeverCleared /\ ChargedInv
<1>1. Init => I
  <2>1. Init => ChargedInv
    BY DEF Init, ChargedInv
  <2> QED
    BY <2>1, BaseInitial, NeverClearedInitial
<1>2. I /\ [Next]_vars => I'
  BY BaseStep, NeverClearedStep, ChargedStep
<1>3. I => CachedIsCharged
  BY DEF ChargedInv, ChargeOwed, CachedIsCharged, Quiescent, Owes
<1> QED
  BY <1>1, <1>2, <1>3, PTL DEF Spec
-----------------------------------------------------------------------------
(* Captured generations and epochs.                                        *)

\* No Clear() has reset the generations.
NotCleared == epoch = 0 /\ \A t \in Threads : pc[t] # "ClearStates"

\* A captured generation is at most the current one, a captured epoch is the current one.
Captured(l) == \A k \in Kinds : l.gen[k] <= generations[l.name] /\ l.ep[k] = 0

GenInv == NotCleared => \A t \in Threads : Captured(loc[t])

\* A step after which nothing was cleared clears nothing.
LEMMA NotClearedBefore ==
    ASSUME BaseInv, NEW t \in Threads, Section(t), NotCleared'
    PROVE  /\ NotCleared /\ pc[t] \notin {"ClearStore", "ClearStates"}
           /\ \A n \in Names : generations'[n] >= generations[n]
<1>0. TypeInv /\ CInv /\ ThreadTypeOK /\ StoreTypeOK /\ epoch \in Nat
  BY DEF BaseInv, TypeInv, DataInv, DataTypeOK, LoadTypeOK
<1>1. pc[t] # "ClearStore"
  BY <1>0, DropFlow DEF NotCleared
<1>2. pc[t] # "ClearStates"
  <2>1. pc[t] = "ClearStates" => epoch' = epoch + 1
    BY SectionAt DEF ClearLoadStates, ClearStates
  <2> QED
    BY <1>0, <2>1 DEF NotCleared
<1>3. epoch = 0
  BY <1>2, Frame DEF NotCleared
<1>4. ASSUME NEW u \in Threads \ {t} PROVE pc[u] # "ClearStates"
  BY <1>0, OtherSame DEF NotCleared
<1>5. \A n \in Names : generations'[n] >= generations[n]
  <2>1. CASE pc[t] \in StorePcs
    <3>1. \E v \in Names : StoreInvalidate(v)
      BY <1>0, <1>1, <2>1, SectionAt, LocalFacts DEF StorePcs, EvictStore, InvStore
    <3> QED
      BY <1>0, <3>1 DEF StoreInvalidate, StoreTypeOK
  <2>2. CASE pc[t] \notin StorePcs
    BY <1>0, <2>2, Frame DEF StoreTypeOK
  <2> QED
    BY <2>1, <2>2
<1> QED
  BY <1>1, <1>2, <1>3, <1>4, <1>5 DEF NotCleared

\* The captured values of a thread after its step: none, or the old ones but the
\* current ones for one kind.
Recaptures(t) ==
    \/ loc'[t].gen = NoLocals.gen /\ loc'[t].ep = NoLocals.ep
    \/ /\ loc'[t].name = loc[t].name
       /\ \/ loc'[t].gen = loc[t].gen
          \/ \E k \in Kinds : loc'[t].gen = [loc[t].gen EXCEPT ![k] = generations[Name(t)]]
       /\ \/ loc'[t].ep = loc[t].ep
          \/ \E k \in Kinds : loc'[t].ep = [loc[t].ep EXCEPT ![k] = epoch]

LEMMA Captures ==
    ASSUME BaseInv, NEW t \in Threads, Section(t)
    PROVE  Recaptures(t)
<1>0. TypeInv /\ CInv /\ ThreadTypeOK /\ Kind(t) \in Kinds /\ "design" \in Kinds
  BY LocalFacts DEF BaseInv, TypeInv, Kinds
<1>1. ASSUME NEW to, NEW S, Moves(t, to, S), "name" \notin S, "gen" \notin S, "ep" \notin S
      PROVE  Recaptures(t)
  BY <1>1 DEF Moves, Fields, Recaptures
<1>2. ASSUME (\E v : Returns(t, v)) \/ Throws(t) \/ (\E o : Ends(t, o))
             \/ \E V, after : Evicts(t, V, after)
      PROVE  Recaptures(t)
  <2>1. \E to : \E S \in {{}, {"val"}, {"kind", "nested", "val", "outcome"}, {"outcome", "val"},
                      {"victims", "after"}} : Moves(t, to, S)
    BY <1>2, Zenon DEF Returns, Throws, Unnests, Ends, Evicts
  <2> QED
    BY <1>1, <2>1
<1>3. ASSUME NEW to, NEW k \in Kinds, Moves(t, to, {"gen"}),
             GetsAt(t, "gen", k, generations[Name(t)])
      PROVE  Recaptures(t)
  BY <1>3 DEF Moves, GetsAt, Fields, Recaptures
<1>4. ASSUME NEW to, NEW k \in Kinds, Moves(t, to, {"ep"}), GetsAt(t, "ep", k, epoch)
      PROVE  Recaptures(t)
  BY <1>4 DEF Moves, GetsAt, Fields, Recaptures
<1>5. ASSUME NEW to, NEW n, NEW S, Starts(t, to, n, S), "gen" \notin S, "ep" \notin S
      PROVE  Recaptures(t)
  BY <1>5 DEF Starts, Fields, Recaptures
<1>6. CASE ReadingFlight(t)
  <2>1. \/ Throws(t) \/ (\E o : Ends(t, o))
        \/ \E to : \E S \in {{}, {"val"}, {"kind", "nested"}, {"stale"}, {"stale", "outcome"}} :
              Moves(t, to, S)
        \/ CaptureGen(t)
    BY <1>0, <1>6, LookupMoves, RegisterMoves, LoadMoves, CheckMoves, SettleMoves, Zenon
       DEF ReadingFlight
  <2>2. CaptureGen(t) => Moves(t, "Register", {"gen"})
                         /\ GetsAt(t, "gen", Kind(t), generations[Name(t)])
    BY <1>0, LookupMoves, Zenon DEF CurrentGeneration
  <2> QED
    BY <1>0, <1>1, <1>2, <1>3, <2>1, <2>2
<1>7. CASE ReadingOther(t)
  <2>1. \/ \E to : \E S \in {{}, {"val"}, {"bytes"}, {"ret"}} : Moves(t, to, S)
        \/ \E to : Moves(t, to, {"gen"}) /\ GetsAt(t, "gen", "design", generations[Name(t)])
        \/ \E to : Moves(t, to, {"ep"}) /\ GetsAt(t, "ep", "design", epoch)
    BY <1>0, <1>7, BudgetMoves, AsyncMoves, WorkerMoves, SerializeMoves, Zenon
       DEF ReadingOther, CurrentGeneration
  <2> QED
    BY <1>0, <1>1, <1>3, <1>4, <2>1
<1>8. CASE LoadSection(t) \/ SlotSection(t)
  <2>1. \E to : Moves(t, to, {})
    BY <1>0, <1>8, RegisterMoves, SettleMoves, DropMoves, AsyncMoves, WorkerMoves, Zenon
       DEF LoadSection, SlotSection
  <2> QED
    BY <1>1, <2>1
<1>9. CASE FlightSection(t)
  <2>1. CASE Register(t)
    <3>1. \/ Moves(t, "Join", {"wait"})
          \/ \E to : Moves(t, to, {"ep"}) /\ GetsAt(t, "ep", Kind(t), epoch)
      BY <1>0, <2>1, RegisterMoves, Zenon
    <3> QED
      BY <1>0, <1>1, <1>4, <3>1
  <2>2. CASE Fulfil(t)
    BY <1>0, <2>2, FulfilMoves DEF Recaptures
  <2>3. CASE EraseFlight(t)
    BY <1>0, <1>2, <2>3, SettleMoves, Zenon
  <2>4. CASE EvictState(t)
    <3>1. \E to : Moves(t, to, {"victims", "victim"})
      BY <1>0, <2>4, BudgetMoves, Zenon
    <3> QED
      BY <1>1, <3>1
  <2>5. CASE AddLoaded(t)
    BY <1>0, <1>1, <1>5, <2>5, AddLoadedMoves
  <2> QED
    BY <1>9, <2>1, <2>2, <2>3, <2>4, <2>5 DEF FlightSection
<1>10. CASE LruSection(t) \/ CommitStore(t)
  <2>1. \/ (\E v : Returns(t, v)) \/ (\E V, after : Evicts(t, V, after))
        \/ \E to : \E S \in {{}, {"after"}} : Moves(t, to, S)
    BY <1>0, <1>10, LookupMoves, BudgetMoves, DropMoves, AdjustMoves, CommitMoves, Zenon
       DEF LruSection, Commits
  <2> QED
    BY <1>1, <1>2, <2>1
<1>11. CASE StoreSection(t) \/ CacheSection(t)
  <2>1. \E to : \E S \in {{}, {"after"}, {"victim"}, {"val"}} : Moves(t, to, S)
    BY <1>0, <1>11, BudgetMoves, DropMoves, CheckMoves, AsyncMoves, Zenon
       DEF StoreSection, CacheSection
  <2> QED
    BY <1>1, <2>1
<1>12. ASSUME NEW w \in Workers, Spawns(t, w)
       PROVE  Recaptures(t)
  BY <1>0, <1>12, SpawnMoves DEF Recaptures
<1>13. CASE Call(t)
  BY <1>0, <1>5, <1>13, CallMoves
<1> QED
  BY <1>6, <1>7, <1>8, <1>9, <1>10, <1>11, <1>12, <1>13 DEF Section

LEMMA GenStep ==
    ASSUME BaseInv, GenInv, [Next]_vars
    PROVE  GenInv'
<1>0. TypeInv /\ ThreadTypeOK /\ StoreTypeOK /\ TypeInv' /\ ThreadTypeOK' /\ StoreTypeOK'
  BY TypeStep DEF BaseInv, TypeInv, DataInv, DataTypeOK
<1>1. CASE UNCHANGED vars
  BY <1>1 DEF vars, threadVars, loadVars, storeVars, GenInv, NotCleared, Captured
<1>2. SUFFICES ASSUME NEW t \in Threads, Section(t), NotCleared', NEW u \in Threads
               PROVE  \A k \in Kinds : /\ loc'[u].gen[k] <= generations'[loc'[u].name]
                                       /\ loc'[u].ep[k] = 0
  BY <1>1, StepCases DEF GenInv, Captured
<1>3. /\ NotCleared /\ \A n \in Names : generations'[n] >= generations[n]
      /\ \A n \in Names : generations[n] \in Nat /\ generations'[n] \in Nat
  BY <1>0, <1>2, NotClearedBefore DEF StoreTypeOK
<1>4. \A v \in Threads : Captured(loc[v])
  BY <1>3 DEF GenInv
<1>5. \A v \in Threads : /\ loc[v].name \in Names /\ loc[v].gen \in [Kinds -> Nat]
                         /\ loc'[v].name \in Names /\ loc'[v].gen \in [Kinds -> Nat]
                         /\ loc[v].ep \in [Kinds -> Nat]
  BY <1>0 DEF ThreadTypeOK, Local
<1>6. \A k \in Kinds : NoLocals.gen[k] = 0 /\ NoLocals.ep[k] = 0
  BY DEF NoLocals
<1>7. CASE u = t
  <2>1. CASE loc'[t].gen = NoLocals.gen /\ loc'[t].ep = NoLocals.ep
    BY <1>3, <1>5, <1>6, <1>7, <2>1
  <2>2. CASE ~(loc'[t].gen = NoLocals.gen /\ loc'[t].ep = NoLocals.ep)
    <3>0. Recaptures(t)
      BY <1>2, Captures
    <3>1. epoch = 0 /\ loc[t].name \in Names /\ loc[t].gen \in [Kinds -> Nat]
          /\ loc[t].ep \in [Kinds -> Nat] /\ loc'[t].gen \in [Kinds -> Nat]
          /\ \A k \in Kinds : loc[t].gen[k] <= generations[loc[t].name] /\ loc[t].ep[k] = 0
      BY <1>3, <1>4, <1>5 DEF NotCleared, Captured
    <3>2. loc'[t].name = loc[t].name
      BY <2>2, <3>0 DEF Recaptures
    <3>3. \A k \in Kinds : loc'[t].gen[k] \in {loc[t].gen[k], generations[loc[t].name]}
      BY <2>2, <3>0, <3>1 DEF Recaptures, Name
    <3>4. \A k \in Kinds : loc'[t].ep[k] = 0
      BY <2>2, <3>0, <3>1 DEF Recaptures
    <3>5. generations[loc[t].name] \in Nat /\ generations'[loc[t].name] \in Nat
          /\ generations'[loc[t].name] >= generations[loc[t].name]
      BY <1>3, <3>1
    <3> QED
      BY <1>7, <3>1, <3>2, <3>3, <3>4, <3>5
  <2> QED
    BY <2>1, <2>2
<1>8. CASE u # t /\ Undisturbed(u)
  <2>1. loc'[u].name = loc[u].name /\ loc'[u].gen = loc[u].gen /\ loc'[u].ep = loc[u].ep
    BY <1>8 DEF Undisturbed, Fields
  <2> QED
    BY <1>3, <1>4, <1>5, <2>1 DEF Captured
<1>9. CASE u # t /\ u \in Workers /\ Spawns(t, u)
  <2>1. \A k \in Kinds : /\ loc'[u].gen[k] \in {0, loc[t].gen[k]} /\ loc'[u].ep[k] \in {0, loc[t].ep[k]}
                         /\ loc'[u].name = loc[t].name
    BY <1>0, <1>6, <1>9, SpawnMoves DEF Starts, Fields, Kinds, Name
  <2> QED
    BY <1>3, <1>4, <1>5, <2>1 DEF Captured
<1> QED
  BY <1>0, <1>2, <1>7, <1>8, <1>9, OtherThread

LEMMA GenInitial == Init => GenInv
<1> SUFFICES ASSUME Init, NEW t \in Threads
             PROVE  Captured(loc[t])
  BY DEF GenInv
<1>1. loc[t] = NoLocals /\ generations = [n \in Names |-> 0]
  BY DEF Init, StoreInit
<1>2. NoLocals.name \in Names /\ \A k \in Kinds : NoLocals.gen[k] = 0 /\ NoLocals.ep[k] = 0
  BY NoLocalsType DEF Local, NoLocals
<1> QED
  BY <1>1, <1>2 DEF Captured
-----------------------------------------------------------------------------
(* Loads that nothing races settle the state of their name.                *)

SettlingPcs ==
    {"Load", "Build", "CheckGen", "Insert", "ScheduleGen", "ScheduleCount", "ScheduleSpawn",
     "ScheduleUncount", "AnnounceLoaded", "CheckFailed", "AnnounceFailed", "EraseState"}

\* A thread at p with locals l is in a load that, if nothing races it, will record
\* Loaded or Failed or erase the state.
Settling(p, l) ==
    \/ l.nested
    \/ p \in SettlingPcs
    \/ p = "CheckEpoch" /\ ~l.stale
    \/ p \in {"Estimate", "Charge"} /\ l.after # "AddLoaded"
    \/ p \in EvictPcs /\ l.after \in {"ScheduleGen", "AnnounceLoaded"}
    \/ p = "Fulfil" /\ l.outcome \in {"null", "threw"}

\* The thread t is in such a load after the step, for the name it had before.
StillSettling(t) == loc'[t].name = loc[t].name /\ Settling(pc'[t], loc'[t])

\* bad_alloc is not among the failures.
NoAlloc == "alloc" \notin Faults

SettleInv ==
    NotCleared => \A n \in Names :
        loadState[n] = "Loading" /\ generations[n] = 0
          => \E t \in Threads : loc[t].name = n /\ Settling(pc[t], loc[t])

LEMMA EndsSettle ==
    ASSUME NEW t \in Threads, NEW o \in {"null", "threw"}, Ends(t, o)
    PROVE  StillSettling(t)
  BY DEF Ends, Moves, Gets, Fields, StillSettling, Settling

LEMMA UnnestSettles ==
    ASSUME NEW t \in Threads, loc[t].nested, (\E v : Returns(t, v)) \/ Throws(t)
    PROVE  StillSettling(t)
<1>1. \E to \in {"Fulfil", "Build"}, o \in {"null", "value", "threw"} :
         /\ Moves(t, to, {"kind", "nested", "val", "outcome"}) /\ Gets(t, "outcome", o)
         /\ to = "Fulfil" => o # "value"
  <2>1. ASSUME NEW v, Unnests(t, "Fulfil", v, "null") \/ Unnests(t, "Build", v, "value")
                      \/ Unnests(t, "Fulfil", v, "threw")
        PROVE  \E to \in {"Fulfil", "Build"}, o \in {"null", "value", "threw"} :
                  /\ Moves(t, to, {"kind", "nested", "val", "outcome"}) /\ Gets(t, "outcome", o)
                  /\ to = "Fulfil" => o # "value"
    BY <2>1 DEF Unnests
  <2> QED
    BY <2>1, Zenon DEF Returns, Throws
<1> QED
  BY <1>1 DEF Moves, Gets, Fields, StillSettling, Settling, SettlingPcs

\* Inside LoadDesign the archive load changes nothing.
LEMMA NestedSettles ==
    ASSUME BaseInv, NEW t \in Threads, Section(t), loc[t].nested
    PROVE  StillSettling(t)
<1>0. TypeInv /\ CInv /\ ThreadTypeOK /\ Shape(pc[t], loc[t])
  BY ThreadFacts DEF BaseInv, TypeInv
<1>1. ASSUME NEW to, NEW S, Moves(t, to, S), to # "Idle", "name" \notin S, "nested" \notin S
      PROVE  StillSettling(t)
  BY <1>1 DEF Moves, Fields, StillSettling, Settling
<1>2. ASSUME NEW V, NEW after, Evicts(t, V, after), after # "Idle"
      PROVE  StillSettling(t)
  <2>1. \E to \in {"EvictStore", after} : Moves(t, to, {"victims", "after"})
    BY <1>2 DEF Evicts
  <2> QED
    BY <1>1, <1>2, <2>1
<1>3. ASSUME NEW o, Ends(t, o)
      PROVE  StillSettling(t)
  BY <1>1, <1>3 DEF Ends
<1>4. CASE pc[t] \in {"Lookup", "CaptureGen", "TouchHit", "Join", "TouchJoin"}
  <2>1. \/ (\E v : Returns(t, v)) \/ Throws(t)
        \/ \E to \in {"TouchHit", "CaptureGen", "Register", "TouchJoin"}, S \in {{}, {"val"}, {"gen"}} :
              Moves(t, to, S)
    BY <1>0, <1>4, SectionAt, LookupMoves, Zenon
  <2> QED
    BY <1>1, <2>1, UnnestSettles
<1>5. CASE pc[t] \in {"Register", "Load", "CheckGen", "CheckEpoch", "Insert"}
  <2>1. \/ (\E o : Ends(t, o))
        \/ \E to \in {"Join", "Announce", "Load", "Lookup", "CheckGen", "CheckEpoch", "Fulfil", "Insert",
                      "Estimate"},
              S \in {{}, {"wait"}, {"ep"}, {"val"}, {"stale"}, {"stale", "outcome"}} :
              Moves(t, to, S)
    <3>1. Kind(t) = "archive"
      BY <1>0 DEF Shape, Kind
    <3>2. pc[t] = "Load" => LoadFileArchive(t)
      BY <3>1, SectionAt DEF LoadDesign
    <3> QED
      BY <1>0, <1>5, <3>2, SectionAt, RegisterMoves, LoadMoves, CheckMoves, Zenon
  <2> QED
    BY <1>1, <1>3, <2>1
<1>6. CASE pc[t] \in {"Estimate", "EvictStore", "EvictMaps", "EvictState"}
  <2>1. \/ Moves(t, "Charge", {"bytes"}) \/ Moves(t, "EvictMaps", {"victim"})
        \/ Moves(t, "EvictState", {})
        \/ pc[t] = "EvictState" /\ \E to \in {"EvictStore", loc[t].after} :
                                      Moves(t, to, {"victims", "victim"})
    BY <1>0, <1>6, SectionAt, BudgetMoves, Zenon
  <2>2. pc[t] = "EvictState" => loc[t].after = "Fulfil"
    BY <1>0 DEF Shape, EvictPcs
  <2> QED
    BY <1>1, <2>1, <2>2
<1>7. CASE pc[t] = "Charge"
  <2>1. \E V : Evicts(t, V, IF loc[t].after = "AddLoaded" THEN "AddLoaded" ELSE AfterInsert(t))
    BY <1>0, <1>7, SectionAt, BudgetMoves, Zenon
  <2>2. AfterInsert(t) # "Idle"
    BY DEF AfterInsert
  <2> QED
    BY <1>2, <2>1, <2>2
<1>8. CASE pc[t] = "Fulfil"
  <2>1. loc'[t] = loc[t]
    BY <1>0, <1>8, SectionAt, FulfilMoves
  <2> QED
    BY <2>1 DEF StillSettling, Settling
<1>9. CASE pc[t] = "EraseFlight"
  BY <1>0, <1>9, SectionAt, SettleMoves, UnnestSettles
<1> QED
  BY <1>0, <1>4, <1>5, <1>6, <1>7, <1>8, <1>9 DEF Shape, NestedPcs

\* Recording a state other than Loading, or erasing the state, ends Loading.
LEMMA Records ==
    ASSUME NoAlloc, BaseInv, NEW t \in Threads, Section(t),
           pc[t] \in {"AnnounceLoaded", "AnnounceFailed", "EraseState"}
    PROVE  loadState'[loc[t].name] # "Loading"
<1>0. loadState \in [Names -> LoadState] /\ Name(t) \in Names
  BY LocalFacts DEF BaseInv, TypeInv, DataInv, DataTypeOK, LoadTypeOK
<1>1. \/ TransitionLoadState(Name(t), "Loaded") \/ TransitionLoadState(Name(t), "Failed")
      \/ EraseLoadState(Name(t))
  BY SectionAt DEF NoAlloc, AnnounceLoaded, AnnounceFailed, EraseState
<1> QED
  BY <1>0, <1>1 DEF TransitionLoadState, EraseLoadState, GetLoadState, Name

\* A load that nothing raced goes on towards its announcement, or makes it.
LEMMA OuterSettles ==
    ASSUME NoAlloc, BaseInv, GenInv, NotCleared, NEW t \in Threads, Section(t),
           ~loc[t].nested, Settling(pc[t], loc[t]), generations[loc[t].name] = 0
    PROVE  StillSettling(t) \/ loadState'[loc[t].name] # "Loading"
<1>0. /\ TypeInv /\ CInv /\ ThreadTypeOK /\ Shape(pc[t], loc[t]) /\ Kind(t) \in Kinds
      /\ loc[t].gen \in [Kinds -> Nat] /\ loc[t].nested \in BOOLEAN
  BY ThreadFacts, LocalFacts DEF BaseInv, TypeInv, ThreadTypeOK, Local
<1>1. \A k \in Kinds : loc[t].gen[k] = 0 /\ loc[t].ep[k] = 0
  BY <1>0 DEF GenInv, Captured
<1>2. epoch = 0
  BY DEF NotCleared
<1>3. ASSUME NEW to, NEW S, Moves(t, to, S), to \in SettlingPcs, "name" \notin S
      PROVE  StillSettling(t)
  BY <1>3 DEF Moves, Fields, StillSettling, Settling, SettlingPcs
<1>4. CASE pc[t] = "Load"
  <2>1. \/ Ends(t, "null") \/ Ends(t, "threw")
        \/ Moves(t, "Lookup", {"kind", "nested"}) /\ Gets(t, "nested", TRUE)
        \/ Moves(t, "CheckGen", {"val"})
    BY <1>0, <1>4, SectionAt, LoadMoves, Zenon
  <2>2. CASE Moves(t, "Lookup", {"kind", "nested"}) /\ Gets(t, "nested", TRUE)
    BY <2>2 DEF Moves, Gets, Fields, StillSettling, Settling
  <2> QED
    BY <1>3, <2>1, <2>2, EndsSettle DEF SettlingPcs
<1>5. CASE pc[t] = "Build"
  <2>1. Ends(t, "null") \/ Ends(t, "threw") \/ Moves(t, "CheckGen", {"val"})
    BY <1>0, <1>5, SectionAt, LoadMoves, Zenon
  <2> QED
    BY <1>3, <2>1, EndsSettle DEF SettlingPcs
<1>6. CASE pc[t] = "CheckGen"
  <2>1. /\ Moves(t, "CheckEpoch", {"stale"})
        /\ Gets(t, "stale", CurrentGeneration(Name(t)) # loc[t].gen[Kind(t)])
    BY <1>0, <1>6, SectionAt, CheckMoves, Zenon
  <2>2. CurrentGeneration(Name(t)) = loc[t].gen[Kind(t)]
    BY <1>0, <1>1 DEF CurrentGeneration, Name
  <2>3. loc'[t].stale = FALSE
    BY <2>1, <2>2 DEF Moves, Gets
  <2> QED
    BY <2>1, <2>3 DEF Moves, Fields, StillSettling, Settling
<1>7. CASE pc[t] = "CheckEpoch"
  <2>1. ~loc[t].stale
    BY <1>7 DEF Settling, SettlingPcs, EvictPcs
  <2>2. ~WasClearedSince(loc[t].ep[Kind(t)])
    BY <1>0, <1>1, <1>2 DEF WasClearedSince
  <2>3. Moves(t, "Insert", {"stale", "outcome"})
    BY <1>0, <1>7, <2>1, <2>2, SectionAt, CheckMoves, Zenon
  <2> QED
    BY <1>3, <2>3 DEF SettlingPcs
<1>8. CASE pc[t] = "Insert"
  <2>1. ~LoaderExits(t)
    BY DEF NoAlloc, LoaderExits
  <2>2. Moves(t, "Estimate", {}) \/ Moves(t, "Estimate", {"val"})
    BY <1>0, <1>8, <2>1, SectionAt, CheckMoves, Zenon
  <2>3. loc[t].after # "AddLoaded"
    BY <1>0, <1>8 DEF Shape, FlightPcs
  <2> QED
    BY <2>2, <2>3 DEF Moves, Fields, StillSettling, Settling
<1>9. CASE pc[t] = "Estimate"
  <2>1. Moves(t, "Charge", {"bytes"})
    BY <1>0, <1>9, SectionAt, BudgetMoves, Zenon
  <2>2. loc[t].after # "AddLoaded"
    BY <1>9 DEF Settling, SettlingPcs, EvictPcs
  <2> QED
    BY <2>1, <2>2 DEF Moves, Fields, StillSettling, Settling
<1>10. CASE pc[t] = "Charge"
  <2>1. loc[t].after # "AddLoaded"
    BY <1>10 DEF Settling, SettlingPcs, EvictPcs
  <2>2. \E V : Evicts(t, V, AfterInsert(t))
    BY <1>0, <1>10, <2>1, SectionAt, BudgetMoves, Zenon
  <2>3. AfterInsert(t) \in {"ScheduleGen", "AnnounceLoaded"}
    BY <1>0 DEF AfterInsert, UpdateState, Kinds
  <2> QED
    BY <2>2, <2>3 DEF Evicts, Moves, Gets, Fields, StillSettling, Settling, SettlingPcs, EvictPcs
<1>11. CASE pc[t] \in EvictPcs
  <2>1. loc[t].after \in {"ScheduleGen", "AnnounceLoaded"}
    BY <1>11 DEF Settling, SettlingPcs, EvictPcs
  <2>2. \/ Moves(t, "EvictMaps", {"victim"}) \/ Moves(t, "EvictState", {})
        \/ \E to \in {loc[t].after, "EvictStore"} : Moves(t, to, {"victims", "victim"})
    BY <1>0, <1>11, SectionAt, BudgetMoves, Zenon DEF EvictPcs
  <2> QED
    BY <2>1, <2>2 DEF Moves, Fields, StillSettling, Settling, SettlingPcs, EvictPcs
<1>12. CASE pc[t] \in {"ScheduleGen", "ScheduleCount", "ScheduleUncount"}
  <2>1. \E to \in {"ScheduleCount", "ScheduleSpawn", "AnnounceLoaded"}, S \in {{}, {"gen"}} :
           Moves(t, to, S)
    BY <1>0, <1>12, SectionAt, WorkerMoves
  <2> QED
    BY <1>3, <2>1 DEF SettlingPcs
<1>13. CASE pc[t] = "ScheduleSpawn"
  <2>1. \/ Moves(t, "ScheduleUncount", {})
        \/ pc'[t] = "AnnounceLoaded" /\ loc'[t] = loc[t]
    BY <1>0, <1>13, SectionAt, AsyncMoves, SpawnMoves
  <2> QED
    BY <1>3, <2>1 DEF StillSettling, Settling, SettlingPcs
<1>14. CASE pc[t] = "Fulfil"
  <2>1. loc[t].outcome \in {"null", "threw"}
    BY <1>14 DEF Settling, SettlingPcs, EvictPcs
  <2>2. loc'[t] = loc[t] /\ pc'[t] \in {"CheckFailed", "EraseState"}
    BY <1>0, <1>14, <2>1, SectionAt, FulfilMoves DEF UpdateState
  <2> QED
    BY <2>2 DEF StillSettling, Settling, SettlingPcs
<1>15. CASE pc[t] = "CheckFailed"
  <2>1. ~WasClearedSince(loc[t].ep[Kind(t)])
    BY <1>0, <1>1, <1>2 DEF WasClearedSince
  <2>2. Moves(t, "AnnounceFailed", {})
    BY <1>0, <1>15, <2>1, SectionAt, SettleMoves
  <2> QED
    BY <1>3, <2>2 DEF SettlingPcs
<1>16. CASE pc[t] \in {"AnnounceLoaded", "AnnounceFailed", "EraseState"}
  BY <1>16, Records
<1> QED
  BY <1>4, <1>5, <1>6, <1>7, <1>8, <1>9, <1>10, <1>11, <1>12, <1>13, <1>14, <1>15, <1>16
     DEF Settling, SettlingPcs

\* Loading is recorded by a thread that starts a load.
LEMMA LoadingStarts ==
    ASSUME BaseInv, NotCleared', NEW t \in Threads, Section(t), NEW n \in Names,
           loadState'[n] = "Loading", loadState[n] # "Loading"
    PROVE  loc'[t].name = n /\ pc'[t] = "Load"
<1>0. /\ TypeInv /\ ThreadTypeOK /\ loadState \in [Names -> LoadState]
      /\ Name(t) \in Names /\ loc[t].victim \in Names /\ pc[t] # "ClearStates"
  BY LocalFacts, NotClearedBefore DEF BaseInv, TypeInv, DataInv, DataTypeOK, LoadTypeOK
<1>1. pc[t] \in LoadPcs
  BY Frame
<1>2. pc[t] # "EvictState"
  <2>1. pc[t] = "EvictState" => TransitionLoadState(loc[t].victim, "Unloaded")
    BY SectionAt DEF EvictState
  <2> QED
    BY <1>0, <2>1 DEF TransitionLoadState, GetLoadState
<1>3. pc[t] \notin {"AnnounceLoaded", "AnnounceFailed", "EraseState", "InvState", "AddLoaded"}
  <2>1. pc[t] \in {"AnnounceLoaded", "AnnounceFailed", "EraseState", "InvState", "AddLoaded"}
           => \/ \E s \in {"Loaded", "Failed", "Unloaded"} : TransitionLoadState(Name(t), s)
              \/ EraseLoadState(Name(t))
              \/ loadState' = loadState
    BY SectionAt DEF AnnounceLoaded, AnnounceFailed, EraseState, InvState, AddLoaded, loadVars
  <2> QED
    BY <1>0, <2>1 DEF TransitionLoadState, EraseLoadState, GetLoadState
<1>4. Announce(t)
  <2>1. pc[t] = "Announce"
    BY <1>0, <1>1, <1>2, <1>3 DEF LoadPcs
  <2>2. LoaderExits(t) => loadState' = loadState
    BY DEF LoaderExits, shared, loadVars
  <2> QED
    BY <2>1, <2>2, SectionAt
<1>5. n = Name(t)
  BY <1>0, <1>4 DEF Announce, TransitionLoadState, GetLoadState
<1>6. Moves(t, "Load", {})
  BY <1>0, <1>4, RegisterMoves
<1> QED
  BY <1>5, <1>6 DEF Moves, Fields, Name

LEMMA SettleStep ==
    ASSUME NoAlloc, BaseInv, GenInv, SettleInv, [Next]_vars
    PROVE  SettleInv'
<1>0. TypeInv /\ StoreTypeOK /\ StoreTypeOK'
  BY TypeStep DEF BaseInv, TypeInv, DataInv, DataTypeOK
<1>1. CASE UNCHANGED vars
  BY <1>1 DEF vars, threadVars, loadVars, storeVars, SettleInv, NotCleared
<1>2. SUFFICES ASSUME NEW t \in Threads, Section(t), NotCleared', NEW n \in Names,
                      loadState'[n] = "Loading", generations'[n] = 0
               PROVE  \E u \in Threads : loc'[u].name = n /\ Settling(pc'[u], loc'[u])
  BY <1>1, StepCases DEF SettleInv
<1>3. NotCleared /\ generations[n] = 0
  BY <1>0, <1>2, NotClearedBefore DEF StoreTypeOK
<1>4. CASE loadState[n] # "Loading"
  BY <1>2, <1>4, LoadingStarts DEF Settling, SettlingPcs
<1>5. CASE loadState[n] = "Loading"
  <2>1. PICK u \in Threads : loc[u].name = n /\ Settling(pc[u], loc[u])
    BY <1>3, <1>5 DEF SettleInv
  <2>2. CASE u = t
    <3>1. CASE loc[t].nested
      BY <1>2, <2>1, <2>2, <3>1, NestedSettles DEF StillSettling
    <3>2. CASE ~loc[t].nested
      BY <1>2, <1>3, <2>1, <2>2, <3>2, OuterSettles DEF StillSettling
    <3> QED
      BY <3>1, <3>2
  <2>3. CASE u # t
    <3>1. pc[u] # "Idle"
      <4>1. loc[u].nested => pc[u] \in NestedPcs
        BY ThreadFacts DEF BaseInv, Shape
      <4> QED
        BY <2>1, <4>1 DEF Settling, SettlingPcs, EvictPcs, NestedPcs
    <3>2. CASE pc[u] # "Join"
      BY <1>0, <1>2, <2>1, <2>3, <3>1, <3>2, OtherSame
    <3>3. CASE pc[u] = "Join"
      <4>1. loc[u].nested
        BY <2>1, <3>3 DEF Settling, SettlingPcs, EvictPcs
      <4>2. loc'[u].nested = loc[u].nested /\ loc'[u].name = loc[u].name
        BY <1>0, <1>2, <2>3, <3>1, OtherThread DEF Undisturbed, Fields
      <4> QED
        BY <2>1, <4>1, <4>2 DEF Settling
    <3> QED
      BY <3>2, <3>3
  <2> QED
    BY <2>2, <2>3
<1> QED
  BY <1>4, <1>5

\* Unless memory runs out: for any number of names, threads and calls, a name in state
\* Loading that no invalidation, eviction or Clear() has touched is being loaded, so
\* its state will be settled; no interleaving of loads, joins, failures and not-found
\* results leaves it behind.
THEOREM LoadsSettle ==
    ASSUME NoAlloc PROVE Spec => []UnracedLoadsSettle
<1> DEFINE I == BaseInv /\ GenInv /\ SettleInv
<1>1. Init => I
  <2>1. Init => GenInv
    BY GenInitial
  <2>2. Init => SettleInv
    BY DEF Init, LoadInit, SettleInv
  <2> QED
    BY <2>1, <2>2, BaseInitial
<1>2. I /\ [Next]_vars => I'
  BY BaseStep, GenStep, SettleStep
<1>3. I => UnracedLoadsSettle
  <2> SUFFICES ASSUME I, NotCleared, NEW n \in Names,
                      loadState[n] = "Loading", generations[n] = 0
               PROVE  AlreadyLoading(n)
    BY DEF UnracedLoadsSettle, NotCleared
  <2>1. PICK t \in Threads : loc[t].name = n /\ Settling(pc[t], loc[t])
    BY DEF SettleInv
  <2>2. \E k \in Kinds : IsLoader(t, k, n)
    <3>1. loc[t].kind \in Kinds
      BY ThreadFacts DEF BaseInv, ControlOK
    <3> QED
      BY <2>1, <3>1 DEF Settling, SettlingPcs, EvictPcs, IsLoader, Loads, InLoader, Kinds
  <2>3. \E k \in Kinds : inFlight[k][n].owner = t
    BY <2>2 DEF BaseInv, CInv, SingleFlight
  <2> QED
    BY <2>3, ThreadsAssumption DEF AlreadyLoading, IsInFlight
<1> QED
  BY <1>1, <1>2, <1>3, PTL DEF Spec
-----------------------------------------------------------------------------
(* Names that are not evicted.                                             *)

\* A thread at p with locals l has taken n as a victim and is not done with it.
Evicting(p, l, n) ==
    /\ p \in EvictPcs
    /\ n \in l.victims \/ (p # "EvictStore" /\ l.victim = n)

\* Nobody is evicting n, or one of the names S.
Spared(n) == \A t \in Threads : ~Evicting(pc[t], loc[t], n)
SparedIn(S) == \A n \in S : Spared(n)

\* No step drops the payloads or the charge of a name that is spared after it.
LEMMA NothingToDrop ==
    ASSUME NeverCleared', NEW n, Spared(n)', NEW t \in Threads
    PROVE  ~Drops(pc'[t], loc'[t], n)
  BY DEF NeverCleared, Spared, Evicting, Drops, EvictPcs, ClearPcs

\* What is evicted from the store and the maps is another name.
LEMMA EvictsOthers ==
    ASSUME BaseInv, NEW n \in Names, Spared(n), NEW t \in Threads, Section(t)
    PROVE  /\ pc[t] = "EvictStore" => \E v \in Names \ {n} : StoreInvalidate(v)
           /\ pc[t] = "EvictMaps" =>
                \E v \in Names \ {n} : cache' = [k \in Kinds |-> [cache[k] EXCEPT ![v] = Nil]]
<1>1. ThreadTypeOK /\ loc[t].victims \subseteq Names /\ loc[t].victim \in Names
  BY LocalFacts DEF BaseInv, TypeInv, ThreadTypeOK, Local
<1>2. ~Evicting(pc[t], loc[t], n)
  BY DEF Spared
<1>3. CASE pc[t] = "EvictStore"
  <2>1. \E v \in loc[t].victims : StoreInvalidate(v)
    BY <1>1, <1>3, SectionAt, BudgetMoves, Zenon
  <2> QED
    BY <1>1, <1>2, <1>3, <2>1 DEF Evicting, EvictPcs
<1>4. CASE pc[t] = "EvictMaps"
  <2>1. cache' = [k \in Kinds |-> [cache[k] EXCEPT ![loc[t].victim] = Nil]]
    BY <1>4, SectionAt DEF EvictMaps
  <2>2. loc[t].victim # n
    BY <1>2, <1>4 DEF Evicting, EvictPcs
  <2> QED
    BY <1>1, <1>4, <2>1, <2>2
<1> QED
  BY <1>3, <1>4

\* The budget is 0, which turns eviction off, and nobody sets another one.
NoEviction ==
    /\ InitialMaxBytes = 0
    /\ \A c \in Clients : \A i \in 1 .. Len(Script[c]) : \A r \in Script[c][i] :
          r.op # "SetCacheMaxBytes"

NeverEvicts == maxBytes = 0 /\ \A t \in Threads : pc[t] \notin EvictPcs \cup {"SetMaxBytes"}

\* EvictOverBudgetLocked finds no victim.
LEMMA NoVictims ==
    ASSUME NEW V, NEW names, NEW est, NEW ser, NEW after, NEW bytes, NEW protected, NEW loading,
           V \in VictimSets(names, est, ser, after, bytes, 0, protected, loading)
    PROVE  V = {}
  BY DEF VictimSets

LEMMA NoEvictionEntered ==
    ASSUME NoEviction, BaseInv, NeverEvicts, NEW t \in Threads, Section(t)
    PROVE  pc'[t] \notin EvictPcs \cup {"SetMaxBytes"}
<1>0. TypeInv /\ CInv /\ ThreadTypeOK /\ Shape(pc[t], loc[t])
  BY ThreadFacts DEF BaseInv, TypeInv
<1>1. pc'[t] # "SetMaxBytes"
  <2>1. SUFFICES ASSUME pc[t] = "Idle" PROVE pc'[t] # "SetMaxBytes"
    BY CameFrom
  <2>2. Call(t)
    BY <1>0, <2>1, CallFlow
  <2>3. t \in Clients /\ \E i \in 1 .. Len(Script[t]) : \E r \in Script[t][i] :
                            r \in Request /\ pc'[t] = EntryLabel(r.op)
    BY <1>0, <2>2, CallMoves DEF Starts, Clients
  <2>4. PICK r \in Request : r.op # "SetCacheMaxBytes" /\ pc'[t] = EntryLabel(r.op)
    BY <2>3 DEF NoEviction
  <2> QED
    BY <2>4 DEF Request, Ops, EntryLabel
<1>2. CASE pc[t] = "Charge"
  <2> DEFINE a == IF loc[t].after = "AddLoaded" THEN "AddLoaded" ELSE AfterInsert(t)
  <2>1. PICK V \in SUBSET Names :
           /\ ChargeEntry(Name(t), loc[t].bytes, StoredBytes(Name(t)), LoadingNames, V)
           /\ Evicts(t, V, a)
    BY <1>0, <1>2, SectionAt, BudgetMoves, Zenon
  <2>2. a \in {"AddLoaded", "ScheduleGen", "AnnounceLoaded", "Fulfil"}
    BY DEF AfterInsert
  <2> HIDE DEF a
  <2>3. V = {}
    BY <2>1, NoVictims DEF ChargeEntry, NeverEvicts
  <2> QED
    BY <2>1, <2>2, <2>3 DEF Evicts, Moves, EvictPcs
<1>3. CASE pc[t] = "CommitStore"
  <2>1. Moves(t, loc[t].ret, {}) \/ Commits(t)
    BY <1>0, <1>3, SectionAt, CommitMoves, Zenon
  <2>2. Commits(t) => \E V, stored : /\ ChargePayload(Name(t), stored, LoadingNames, V)
                                     /\ Evicts(t, V, loc[t].ret)
    BY Zenon DEF Commits
  <2>3. ASSUME NEW V, NEW stored, ChargePayload(Name(t), stored, LoadingNames, V),
               Evicts(t, V, loc[t].ret)
        PROVE  pc'[t] = loc[t].ret
    <3>1. V = {}
      BY <2>3, NoVictims DEF ChargePayload, NeverEvicts
    <3> QED
      BY <2>3, <3>1 DEF Evicts, Moves
  <2>4. pc'[t] = loc[t].ret
    BY <2>1, <2>2, <2>3 DEF Moves
  <2> QED
    BY <1>0, <2>4 DEF Shape, RetPcs, EvictPcs
<1> QED
  BY <1>1, <1>2, <1>3, CameFrom DEF NeverEvicts

LEMMA NeverEvictsStep ==
    ASSUME NoEviction, BaseInv, NeverEvicts, [Next]_vars
    PROVE  NeverEvicts'
<1>1. CASE UNCHANGED vars
  BY <1>1 DEF vars, threadVars, lruVars, NeverEvicts
<1>2. SUFFICES ASSUME NEW t \in Threads, Section(t)
               PROVE  NeverEvicts'
  BY <1>1, StepCases
<1>3. maxBytes' = 0
  BY <1>2, Frame DEF NeverEvicts
<1>4. pc'[t] \notin EvictPcs \cup {"SetMaxBytes"}
  BY <1>2, NoEvictionEntered
<1>5. ASSUME NEW u \in Threads \ {t} PROVE pc'[u] \notin EvictPcs \cup {"SetMaxBytes"}
  BY <1>2, OtherThread DEF BaseInv, NeverEvicts, Undisturbed, EvictPcs
<1> QED
  BY <1>3, <1>4, <1>5 DEF NeverEvicts

\* A server configured without a byte budget evicts nothing: for any number of names,
\* threads and calls, every name is spared in every state.
THEOREM UnlimitedBudgetSpares ==
    ASSUME NoEviction PROVE Spec => []SparedIn(Names)
<1> DEFINE I == BaseInv /\ NeverEvicts
<1>1. Init => I
  BY BaseInitial DEF NeverEvicts, Init, EvictPcs, NoEviction
<1>2. I /\ [Next]_vars => I'
  BY BaseStep, NeverEvictsStep
<1>3. I => SparedIn(Names)
  BY DEF NeverEvicts, SparedIn, Spared, Evicting
<1> QED
  BY <1>1, <1>2, <1>3, PTL DEF Spec
-----------------------------------------------------------------------------
(* Payloads are charged exactly.                                           *)

\* The payloads of n have been dropped and are still charged.
Adjusts(p, l, n) == p = "AdjustLru" /\ l.name = n

PayOK(n) ==
    /\ HasEntry(n) => n \in charged
    /\ serialized[n] = StoredBytes(n) \/ \E t \in Threads : Adjusts(pc[t], loc[t], n)

LEMMA PayStep ==
    ASSUME BaseInv, NeverCleared, NeverCleared', NEW n \in Names, Spared(n), Spared(n)',
           PayOK(n), [Next]_vars
    PROVE  PayOK(n)'
<1>0. TypeInv /\ ThreadTypeOK /\ StoreTypeOK /\ LruInv /\ StoreTypeOK'
  BY TypeStep DEF BaseInv, TypeInv, DataInv, DataTypeOK
<1>1. CASE UNCHANGED vars
  BY <1>1 DEF vars, threadVars, storeVars, lruVars, PayOK, HasEntry, StoredBytes
<1>2. SUFFICES ASSUME NEW t \in Threads, Section(t)
               PROVE  /\ entries'[n] # NoPayload => n \in charged'
                      /\ \/ serialized'[n] = entries'[n].bytes
                         \/ \E u \in Threads : Adjusts(pc'[u], loc'[u], n)
  BY <1>1, StepCases DEF PayOK, HasEntry, StoredBytes
<1>3. /\ entries[n] # NoPayload => n \in charged
      /\ \/ serialized[n] = entries[n].bytes
         \/ \E u \in Threads : Adjusts(pc[u], loc[u], n)
  BY DEF PayOK, HasEntry, StoredBytes
<1>4. ASSUME NEW u \in Threads \ {t}, Adjusts(pc[u], loc[u], n)
      PROVE  Adjusts(pc'[u], loc'[u], n)
  BY <1>0, <1>2, <1>4, OtherSame DEF Adjusts
<1>5. pc[t] \notin ClearPcs /\ ~Drops(pc'[t], loc'[t], n)
  BY NothingToDrop DEF NeverCleared
<1>6. CASE pc[t] = "InvStore"
  <2>1. StoreInvalidate(Name(t)) /\ Moves(t, "AdjustLru", {})
    BY <1>0, <1>2, <1>6, SectionAt, DropMoves DEF InvStore
  <2>2. charged' = charged /\ serialized' = serialized
    BY <1>2, <1>6, Frame DEF ChargePcs
  <2>3. CASE n = Name(t)
    <3>1. entries'[n] = NoPayload
      BY <1>0, <2>1, <2>3 DEF StoreInvalidate, StoreTypeOK
    <3>2. Adjusts(pc'[t], loc'[t], n)
      BY <2>1, <2>3 DEF Moves, Fields, Adjusts, Name
    <3> QED
      BY <3>1, <3>2
  <2>4. CASE n # Name(t)
    <3>1. entries'[n] = entries[n]
      BY <1>0, <2>1, <2>4 DEF StoreInvalidate, StoreTypeOK
    <3> QED
      BY <1>3, <1>4, <1>6, <2>2, <3>1 DEF Adjusts
  <2> QED
    BY <2>3, <2>4
<1>7. CASE pc[t] = "CommitStore"
  <2>1. CommitStore(t)
    BY <1>2, <1>7, SectionAt
  <2> QED
    BY <1>2, <1>3, <1>4, <1>5, <1>7, <2>1, CommitEffect DEF Adjusts
<1>8. CASE pc[t] = "Charge"
  <2>1. Charge(t) /\ entries' = entries
    BY <1>2, <1>8, SectionAt, Frame DEF StorePcs
  <2>2. serialized'[n] = serialized[n] /\ (n \in charged => n \in charged')
    BY <1>2, <1>5, <2>1, ChargeEffect
  <2> QED
    BY <1>3, <1>4, <1>8, <2>1, <2>2 DEF Adjusts
<1>9. CASE pc[t] = "AdjustLru"
  <2>1. /\ AdjustLruSerializedBytes(Name(t), StoredBytes(Name(t)))
        /\ entries' = entries /\ charged' = charged
    BY <1>2, <1>9, SectionAt, Frame DEF AdjustLru, StorePcs, ChargePcs
  <2>2. CASE n = Name(t)
    <3>1. CASE n \in charged
      BY <1>0, <1>3, <2>1, <2>2, <3>1
         DEF AdjustLruSerializedBytes, LruInv, LruTypeOK, StoredBytes
    <3>2. CASE n \notin charged
      <4>1. entries[n].bytes = 0
        BY <1>3, <3>2 DEF NoPayload
      <4>2. serialized'[n] = 0
        BY <1>0, <2>1, <2>2, <3>2 DEF AdjustLruSerializedBytes, LruInv, NoEntryNoCharge
      <4> QED
        BY <1>3, <2>1, <4>1, <4>2
    <3> QED
      BY <3>1, <3>2
  <2>3. CASE n # Name(t)
    <3>1. serialized'[n] = serialized[n]
      BY <1>0, <2>1, <2>3 DEF AdjustLruSerializedBytes, LruInv, LruTypeOK
    <3> QED
      BY <1>3, <1>4, <2>1, <2>3, <3>1 DEF Adjusts, Name
  <2> QED
    BY <2>2, <2>3
<1>10. CASE pc[t] = "SetMaxBytes"
  <2>1. SetCacheMaxBytes(t) /\ entries' = entries
    BY <1>2, <1>10, SectionAt, Frame DEF StorePcs
  <2>2. serialized'[n] = serialized[n] /\ (n \in charged => n \in charged')
    BY <1>5, <2>1, SetMaxEffect
  <2> QED
    BY <1>3, <1>4, <1>10, <2>1, <2>2 DEF Adjusts
<1>11. CASE pc[t] = "EvictStore"
  <2>1. PICK v \in Names \ {n} : StoreInvalidate(v)
    BY <1>2, <1>11, EvictsOthers
  <2>2. entries'[n] = entries[n]
    BY <1>0, <2>1 DEF StoreInvalidate, StoreTypeOK
  <2>3. charged' = charged /\ serialized' = serialized
    BY <1>2, <1>11, Frame DEF ChargePcs
  <2> QED
    BY <1>3, <1>4, <1>11, <2>2, <2>3 DEF Adjusts
<1>12. CASE pc[t] \notin {"InvStore", "CommitStore", "Charge", "AdjustLru", "SetMaxBytes",
                         "EvictStore"}
  <2>1. entries' = entries /\ charged' = charged /\ serialized' = serialized
    BY <1>2, <1>5, <1>12, Frame DEF StorePcs, ChargePcs, ClearPcs
  <2> QED
    BY <1>3, <1>4, <1>12, <2>1 DEF Adjusts
<1> QED
  BY <1>6, <1>7, <1>8, <1>9, <1>10, <1>11, <1>12

PayInv(S) == BaseInv /\ NeverCleared /\ \A n \in S : PayOK(n)

LEMMA PayInitial ==
    ASSUME NEW S \in SUBSET Names, Init PROVE PayInv(S)
<1>1. \A n \in S : PayOK(n)
  BY DEF Init, StoreInit, LruEmpty, PayOK, HasEntry, StoredBytes, NoPayload
<1> QED
  BY <1>1, BaseInitial, NeverClearedInitial DEF PayInv

LEMMA PayInvStep ==
    ASSUME NoClear, NEW S \in SUBSET Names, PayInv(S), SparedIn(S), SparedIn(S)', [Next]_vars
    PROVE  PayInv(S)'
<1>1. BaseInv' /\ NeverCleared'
  BY BaseStep, NeverClearedStep DEF PayInv
<1>2. ASSUME NEW n \in S PROVE PayOK(n)'
  BY <1>1, PayStep DEF PayInv, SparedIn
<1> QED
  BY <1>1, <1>2 DEF PayInv

LEMMA PayCharges ==
    ASSUME NEW S, PayInv(S) PROVE \A n \in S : PayloadIsCharged(n)
  BY DEF PayInv, PayOK, PayloadIsCharged, Adjusts, Name

\* Without Clear() and under any budget: as long as the names S are not evicted,
\* whatever else is, the bytes charged for the payloads of each of them are the bytes
\* the ResponseStore holds for it, except between the two sections of an invalidation,
\* for any number of names, threads, loads, commits and invalidations.
THEOREM SparedPayloadsCharged ==
    ASSUME NoClear, NEW S \in SUBSET Names
    PROVE  Spec /\ []SparedIn(S) => [](\A n \in S : PayloadIsCharged(n))
<1>1. Init => PayInv(S)
  BY PayInitial
<1>2. PayInv(S) /\ SparedIn(S) /\ SparedIn(S)' /\ [Next]_vars => PayInv(S)'
  BY PayInvStep
<1>3. PayInv(S) => \A n \in S : PayloadIsCharged(n)
  BY PayCharges
<1> QED
  BY <1>1, <1>2, <1>3, PTL DEF Spec

\* The case of all names: without Clear(), in a run that evicts nothing, whatever the
\* budget is, every payload charge is exact.
THEOREM PayloadsChargedExactly ==
    ASSUME NoClear PROVE Spec /\ []SparedIn(Names) => []PayloadCharged
<1>1. Init => PayInv(Names)
  BY PayInitial
<1>2. PayInv(Names) /\ SparedIn(Names) /\ SparedIn(Names)' /\ [Next]_vars => PayInv(Names)'
  BY PayInvStep
<1>3. PayInv(Names) => PayloadCharged
  BY PayCharges DEF PayloadCharged
<1> QED
  BY <1>1, <1>2, <1>3, PTL DEF Spec
-----------------------------------------------------------------------------
(* Objects and the contents they describe.                                 *)

\* An object describes some contents; only Nil describes none.
Real(o) == o = Nil \/ o.ver # 0

\* Where a thread may hold an object it has loaded, found or built.
ValuePcs ==
    {"Build", "CheckGen", "CheckEpoch", "Insert", "Estimate", "Charge",
     "EvictStore", "EvictMaps", "EvictState",
     "ScheduleGen", "ScheduleCount", "ScheduleSpawn", "ScheduleUncount",
     "AcquireSlot", "SerGen", "SerEpoch", "BuildPayload", "CommitIdentity", "CommitStore"}

\* A thread at p with locals l holds one.
HasValue(p, l) ==
    \/ p \in ValuePcs \ {"Estimate", "Charge", "EvictStore", "EvictMaps", "EvictState",
                         "AcquireSlot"}
    \/ p \in {"Estimate", "Charge"} /\ l.after # "AddLoaded"
    \/ p \in EvictPcs /\ l.after = "ScheduleGen"
    \/ p = "AcquireSlot" /\ l.job = "serialize"

ValueOK(p, l) ==
    /\ Real(l.val) /\ Real(l.wait.val)
    /\ HasValue(p, l) => l.val.ver # 0

SharedValuesOK == \A k \in Kinds, n \in Names : Real(cache[k][n]) /\ Real(inFlight[k][n].val)

ValueInv == SharedValuesOK /\ \A t \in Threads : ValueOK(pc[t], loc[t])

LEMMA NoValue ==
    /\ Real(Nil) /\ NoLocals.val = Nil /\ NoLocals.wait = NoFlight /\ NoFlight.val = Nil
    /\ ValueOK("Idle", NoLocals)
  BY DEF Real, Nil, NoLocals, NoFlight, ValueOK, HasValue, ValuePcs, EvictPcs

\* A section that leaves the object alone.
LEMMA ValueKept ==
    ASSUME NEW t \in Threads, NEW to, NEW S, Moves(t, to, S), "val" \notin S, "wait" \notin S,
           ValueOK(pc[t], loc[t]), to \notin ValuePcs \/ HasValue(pc[t], loc[t])
    PROVE  ValueOK(pc'[t], loc'[t])
<1>1. CASE to = "Idle"
  BY <1>1, NoValue DEF Moves
<1>2. CASE to # "Idle"
  <2>1. loc'[t].val = loc[t].val /\ loc'[t].wait = loc[t].wait /\ pc'[t] = to
    BY <1>2 DEF Moves, Fields
  <2>2. HasValue(to, loc'[t]) => to \in ValuePcs
    BY DEF HasValue, ValuePcs, EvictPcs
  <2> QED
    BY <2>1, <2>2 DEF ValueOK
<1> QED
  BY <1>1, <1>2

\* A section that gives the thread the object v.
LEMMA ValueGiven ==
    ASSUME NEW t \in Threads, NEW to, NEW S, NEW v, Moves(t, to, S), "wait" \notin S,
           Gets(t, "val", v), Real(v), to \in ValuePcs => v.ver # 0,
           ValueOK(pc[t], loc[t])
    PROVE  ValueOK(pc'[t], loc'[t])
<1>1. CASE to = "Idle"
  BY <1>1, NoValue DEF Moves
<1>2. CASE to # "Idle"
  <2>1. loc'[t].val = v /\ loc'[t].wait = loc[t].wait /\ pc'[t] = to
    BY <1>2 DEF Moves, Fields, Gets
  <2>2. HasValue(to, loc'[t]) => to \in ValuePcs
    BY DEF HasValue, ValuePcs, EvictPcs
  <2> QED
    BY <2>1, <2>2 DEF ValueOK
<1> QED
  BY <1>1, <1>2

\* The end of an activation of GetOrLoadSingleFlight, or of the load in it.
LEMMA ValueLeaves ==
    ASSUME NEW t \in Threads, loc[t].ret \in RetPcs, ValueOK(pc[t], loc[t]),
           (\E o : Ends(t, o)) \/ Throws(t) \/ \E v : Returns(t, v) /\ Real(v)
    PROVE  ValueOK(pc'[t], loc'[t])
<1>1. loc[t].ret \notin ValuePcs
  BY DEF RetPcs, ValuePcs
<1>2. ASSUME NEW o, Ends(t, o) PROVE ValueOK(pc'[t], loc'[t])
  <2>1. Moves(t, "Fulfil", {"outcome", "val"}) /\ Gets(t, "val", Nil)
    BY <1>2 DEF Ends
  <2>2. "Fulfil" \notin ValuePcs /\ "wait" \notin {"outcome", "val"}
    BY DEF ValuePcs
  <2> QED
    BY <2>1, <2>2, NoValue, ValueGiven, Zenon
<1>3. ASSUME NEW to \in {"Fulfil", "Build"}, NEW v, NEW o, Unnests(t, to, v, o), Real(v),
             to = "Build" => v # Nil
      PROVE  ValueOK(pc'[t], loc'[t])
  <2>1. Moves(t, to, {"kind", "nested", "val", "outcome"}) /\ Gets(t, "val", v)
    BY <1>3, Zenon DEF Unnests
  <2>2. to \in ValuePcs => v.ver # 0
    BY <1>3 DEF ValuePcs, Real
  <2>3. "wait" \notin {"kind", "nested", "val", "outcome"}
    OBVIOUS
  <2> QED
    BY <1>3, <2>1, <2>2, <2>3, ValueGiven, Zenon
<1>4. CASE Throws(t)
  <2>1. \/ Unnests(t, "Fulfil", Nil, "threw")
        \/ \E to \in {"ReleaseSlot", "Idle"} : Moves(t, to, {})
    BY <1>4, Zenon DEF Throws
  <2>2. \A to \in {"ReleaseSlot", "Idle"} : to \notin ValuePcs
    BY DEF ValuePcs
  <2>3. CASE Unnests(t, "Fulfil", Nil, "threw")
    BY <1>3, <2>3, NoValue
  <2>4. ASSUME NEW to \in {"ReleaseSlot", "Idle"}, Moves(t, to, {})
        PROVE  ValueOK(pc'[t], loc'[t])
    BY <2>2, <2>4, ValueKept
  <2> QED
    BY <2>1, <2>3, <2>4
<1>5. ASSUME NEW v, Returns(t, v), Real(v) PROVE ValueOK(pc'[t], loc'[t])
  <2>1. \/ Unnests(t, "Fulfil", v, "null")
        \/ v # Nil /\ Unnests(t, "Build", v, "value")
        \/ Moves(t, loc[t].ret, {"val"}) /\ Gets(t, "val", v)
    BY <1>5 DEF Returns
  <2>2. CASE Moves(t, loc[t].ret, {"val"}) /\ Gets(t, "val", v)
    <3>1. "wait" \notin {"val"}
      OBVIOUS
    <3> QED
      BY <1>1, <1>5, <2>2, <3>1, ValueGiven, Zenon
  <2>3. CASE Unnests(t, "Fulfil", v, "null")
    BY <1>3, <1>5, <2>3
  <2>4. CASE v # Nil /\ Unnests(t, "Build", v, "value")
    BY <1>3, <1>5, <2>4
  <2> QED
    BY <2>1, <2>2, <2>3, <2>4
<1> QED
  BY <1>2, <1>4, <1>5

\* What a thread holds after its own section.
LEMMA ValueThread ==
    ASSUME BaseInv, ValueInv, NEW t \in Threads, Section(t)
    PROVE  ValueOK(pc'[t], loc'[t])
<1>0. /\ TypeInv /\ CInv /\ ThreadTypeOK /\ Shape(pc[t], loc[t]) /\ loc[t].ret \in RetPcs
      /\ Name(t) \in Names /\ Kind(t) \in Kinds /\ "design" \in Kinds
      /\ loc[t].val \in Object /\ pc[t] \in Labels /\ loc[t].job \in {"load", "serialize"}
  BY ThreadFacts, LocalFacts DEF BaseInv, TypeInv, Shape, Kinds, ThreadTypeOK, Local
<1>1. /\ ValueOK(pc[t], loc[t]) /\ Real(loc[t].val) /\ Real(loc[t].wait.val)
      /\ \A k \in Kinds : Real(cache[k][Name(t)]) /\ Real(inFlight[k][Name(t)].val)
  BY <1>0 DEF ValueInv, SharedValuesOK, ValueOK
<1>2. ASSUME NEW to, NEW S, Moves(t, to, S), "val" \notin S, "wait" \notin S,
             to \notin ValuePcs \/ HasValue(pc[t], loc[t])
      PROVE  ValueOK(pc'[t], loc'[t])
  BY <1>1, <1>2, ValueKept
<1>3. \A to \in RetPcs : to \notin ValuePcs
  BY DEF RetPcs, ValuePcs
<1>4. CASE pc[t] \in {"TouchHit", "TouchJoin", "EraseFlight"}
  <2>1. Returns(t, loc[t].val) \/ Throws(t)
    BY <1>0, <1>4, SectionAt, LookupMoves, SettleMoves, Zenon
  <2> QED
    BY <1>0, <1>1, <2>1, ValueLeaves
<1>5. CASE pc[t] = "Lookup"
  <2>1. \/ /\ Moves(t, "TouchHit", {"val"}) /\ Gets(t, "val", cache[Kind(t)][Name(t)])
        \/ Moves(t, "CaptureGen", {})
    BY <1>0, <1>5, SectionAt, LookupMoves, Zenon
  <2>2. "TouchHit" \notin ValuePcs /\ "CaptureGen" \notin ValuePcs /\ "wait" \notin {"val"}
    BY DEF ValuePcs
  <2>3. CASE Moves(t, "TouchHit", {"val"}) /\ Gets(t, "val", cache[Kind(t)][Name(t)])
    BY <1>0, <1>1, <2>2, <2>3, ValueGiven, Zenon
  <2> QED
    BY <1>2, <2>1, <2>2, <2>3
<1>6. CASE pc[t] = "Join"
  <2>1. \/ Throws(t)
        \/ Moves(t, "TouchJoin", {"val"}) /\ Gets(t, "val", loc[t].wait.val)
    BY <1>0, <1>6, SectionAt, LookupMoves, Zenon
  <2>2. "TouchJoin" \notin ValuePcs /\ "wait" \notin {"val"}
    BY DEF ValuePcs
  <2>3. CASE Moves(t, "TouchJoin", {"val"}) /\ Gets(t, "val", loc[t].wait.val)
    BY <1>0, <1>1, <2>2, <2>3, ValueGiven, Zenon
  <2> QED
    BY <1>0, <1>1, <2>1, <2>3, ValueLeaves
<1>7. CASE pc[t] = "Register"
  <2>1. \/ Moves(t, "Join", {"wait"}) /\ Gets(t, "wait", inFlight[Kind(t)][Name(t)])
        \/ \E to \in {"Announce", "Load"} : Moves(t, to, {"ep"})
    BY <1>0, <1>7, SectionAt, RegisterMoves, Zenon
  <2>2. CASE Moves(t, "Join", {"wait"}) /\ Gets(t, "wait", inFlight[Kind(t)][Name(t)])
    <3>1. /\ pc'[t] = "Join" /\ loc'[t].val = loc[t].val
          /\ loc'[t].wait = inFlight[Kind(t)][Name(t)]
      BY <2>2 DEF Moves, Gets, Fields
    <3> QED
      BY <1>0, <1>1, <3>1 DEF ValueOK, HasValue, ValuePcs, EvictPcs
  <2> QED
    BY <1>2, <2>1, <2>2 DEF ValuePcs
<1>8. CASE pc[t] \in {"Announce", "Insert"}
  <2>1. \/ \E o : Ends(t, o)
        \/ pc[t] = "Announce" /\ Moves(t, "Load", {})
        \/ pc[t] = "Insert" /\ Moves(t, "Estimate", {})
        \/ /\ pc[t] = "Insert" /\ Moves(t, "Estimate", {"val"})
           /\ Gets(t, "val", cache[Kind(t)][Name(t)]) /\ cache[Kind(t)][Name(t)] # Nil
    BY <1>0, <1>8, SectionAt, RegisterMoves, CheckMoves, Zenon
  <2>2. CASE /\ Moves(t, "Estimate", {"val"})
             /\ Gets(t, "val", cache[Kind(t)][Name(t)]) /\ cache[Kind(t)][Name(t)] # Nil
    <3>1. cache[Kind(t)][Name(t)].ver # 0 /\ "wait" \notin {"val"}
      BY <1>0, <1>1, <2>2 DEF Real
    <3> QED
      BY <1>0, <1>1, <2>2, <3>1, ValueGiven, Zenon
  <2>3. CASE pc[t] = "Announce" /\ Moves(t, "Load", {})
    BY <1>2, <2>3 DEF ValuePcs
  <2>4. CASE pc[t] = "Insert" /\ Moves(t, "Estimate", {})
    BY <1>2, <2>4 DEF HasValue, ValuePcs
  <2> QED
    BY <1>0, <1>1, <2>1, <2>2, <2>3, <2>4, ValueLeaves
<1>9. CASE pc[t] = "Load"
  <2> DEFINE v == [id |-> 0, ver |-> disk[Name(t)]]
  <2>1. \/ (\E o : Ends(t, o)) \/ Moves(t, "Lookup", {"kind", "nested"})
        \/ Moves(t, "CheckGen", {"val"}) /\ disk[Name(t)] # 0 /\ Gets(t, "val", v)
    BY <1>0, <1>9, SectionAt, LoadMoves, Zenon
  <2>2. CASE Moves(t, "CheckGen", {"val"}) /\ disk[Name(t)] # 0 /\ Gets(t, "val", v)
    <3>1. v.ver # 0 /\ Real(v) /\ "wait" \notin {"val"}
      BY <2>2 DEF Real
    <3> HIDE DEF v
    <3> QED
      BY <1>1, <2>2, <3>1, ValueGiven, Zenon
  <2>3. CASE Moves(t, "Lookup", {"kind", "nested"})
    BY <1>2, <2>3 DEF ValuePcs
  <2> HIDE DEF v
  <2> QED
    BY <1>0, <1>1, <2>1, <2>2, <2>3, ValueLeaves
<1>10. CASE pc[t] = "Build"
  <2>1. \/ \E o : Ends(t, o)
        \/ Moves(t, "CheckGen", {"val"}) /\ GetsAt(t, "val", "id", FreshId)
    BY <1>0, <1>10, SectionAt, LoadMoves, Zenon
  <2>2. CASE Moves(t, "CheckGen", {"val"}) /\ GetsAt(t, "val", "id", FreshId)
    <3>1. /\ pc'[t] = "CheckGen" /\ loc'[t].wait = loc[t].wait
          /\ loc'[t].val = [loc[t].val EXCEPT !["id"] = FreshId]
      BY <2>2 DEF Moves, GetsAt, Fields
    <3>2. loc'[t].val.ver = loc[t].val.ver
      BY <1>0, <3>1 DEF Object
    <3>3. loc[t].val.ver # 0
      BY <1>1, <1>10 DEF ValueOK, HasValue, ValuePcs
    <3> QED
      BY <1>1, <3>1, <3>2, <3>3 DEF ValueOK, Real
  <2> QED
    BY <1>0, <1>1, <2>1, <2>2, ValueLeaves
<1>11. CASE pc[t] \in {"CheckGen", "CheckEpoch", "ScheduleGen", "ScheduleCount", "ScheduleUncount",
                       "SerGen", "SerEpoch", "BuildPayload", "CommitIdentity"}
  <2>1. HasValue(pc[t], loc[t])
    BY <1>11 DEF HasValue, ValuePcs
  <2>2. \E to : \E S \in {{}, {"stale"}, {"stale", "outcome"}, {"gen"}, {"ep"}} : Moves(t, to, S)
    BY <1>0, <1>11, SectionAt, CheckMoves, WorkerMoves, SerializeMoves, Zenon
  <2> QED
    BY <1>2, <2>1, <2>2
<1>12. CASE pc[t] \in {"Estimate", "Charge"}
  <2> DEFINE a == IF loc[t].after = "AddLoaded" THEN "AddLoaded" ELSE AfterInsert(t)
  <2>1. Moves(t, "Charge", {"bytes"}) \/ \E V : Evicts(t, V, a)
    BY <1>0, <1>12, SectionAt, BudgetMoves, Zenon
  <2>2. a # "AddLoaded" => loc[t].after # "AddLoaded"
    OBVIOUS
  <2> HIDE DEF a
  <2>4. CASE loc[t].after # "AddLoaded"
    <3>1. HasValue(pc[t], loc[t])
      BY <1>12, <2>4 DEF HasValue
    <3>2. \E to : \E S \in {{"bytes"}, {"victims", "after"}} : Moves(t, to, S)
      BY <2>1 DEF Evicts
    <3> QED
      BY <1>2, <3>1, <3>2
  <2>5. CASE loc[t].after = "AddLoaded"
    <3>1. a = "AddLoaded"
      BY <2>5 DEF a
    <3>2. /\ loc'[t].val = loc[t].val /\ loc'[t].wait = loc[t].wait
          /\ loc'[t].after = "AddLoaded" /\ pc'[t] \in {"Charge", "EvictStore", "AddLoaded"}
      BY <2>1, <2>5, <3>1 DEF Evicts, Moves, Gets, Fields
    <3> QED
      BY <1>1, <3>2 DEF ValueOK, HasValue, ValuePcs, EvictPcs
  <2> QED
    BY <2>4, <2>5
<1>13. CASE pc[t] \in EvictPcs
  <2>1. \/ Moves(t, "EvictMaps", {"victim"}) \/ Moves(t, "EvictState", {})
        \/ \E to \in {loc[t].after, "EvictStore"} : Moves(t, to, {"victims", "victim"})
    BY <1>0, <1>13, SectionAt, BudgetMoves, Zenon DEF EvictPcs
  <2>2. CASE loc[t].after = "ScheduleGen"
    <3>1. HasValue(pc[t], loc[t])
      BY <1>13, <2>2 DEF HasValue
    <3> QED
      BY <1>2, <2>1, <3>1
  <2>3. CASE loc[t].after # "ScheduleGen"
    <3>1. loc[t].after \in RetPcs \cup {"AnnounceLoaded", "Fulfil", "AddLoaded"}
      BY <1>0, <1>13, <2>3 DEF Shape, LoaderAfter
    <3>2. loc[t].after \notin ValuePcs
      BY <3>1 DEF RetPcs, ValuePcs
    <3>3. CASE pc'[t] \notin ValuePcs
      <4>1. PICK to, S : Moves(t, to, S) /\ "val" \notin S /\ "wait" \notin S
        BY <2>1
      <4>2. to \notin ValuePcs
        BY <3>3, <4>1 DEF Moves
      <4> QED
        BY <1>2, <4>1, <4>2
    <3>4. CASE pc'[t] \in EvictPcs
      <4>1. /\ loc'[t].val = loc[t].val /\ loc'[t].wait = loc[t].wait
            /\ loc'[t].after = loc[t].after
        BY <2>1, <3>4 DEF Moves, Fields, EvictPcs
      <4> QED
        BY <1>1, <2>3, <3>4, <4>1 DEF ValueOK, HasValue, ValuePcs, EvictPcs
    <3>5. pc'[t] \in EvictPcs \cup {loc[t].after}
      BY <2>1 DEF Moves, EvictPcs
    <3> QED
      BY <3>2, <3>3, <3>4, <3>5
  <2> QED
    BY <2>2, <2>3
<1>14. CASE pc[t] \in {"ScheduleSpawn", "AsyncSpawn"}
  <2>1. \/ \E to \in {"AsyncUncount", "ScheduleUncount"} : Moves(t, to, {})
        \/ pc'[t] = "Idle" /\ loc'[t] = NoLocals
        \/ pc'[t] = "AnnounceLoaded" /\ loc'[t] = loc[t]
    BY <1>0, <1>14, SectionAt, AsyncMoves, SpawnMoves
  <2>2. pc[t] = "ScheduleSpawn" => HasValue(pc[t], loc[t])
    BY DEF HasValue, ValuePcs
  <2>3. pc[t] = "AsyncSpawn" => pc'[t] # "ScheduleUncount"
    BY <1>0, AsyncFlow
  <2>4. CASE \E to \in {"AsyncUncount", "ScheduleUncount"} : Moves(t, to, {})
    <3>1. PICK to \in {"AsyncUncount", "ScheduleUncount"} : Moves(t, to, {})
      BY <2>4
    <3>2. to \notin ValuePcs \/ HasValue(pc[t], loc[t])
      BY <1>14, <2>2, <2>3, <3>1 DEF Moves, ValuePcs
    <3> QED
      BY <1>2, <3>1, <3>2
  <2>5. CASE pc'[t] = "AnnounceLoaded" /\ loc'[t] = loc[t]
    BY <1>1, <2>5 DEF ValueOK, HasValue, ValuePcs, EvictPcs
  <2> QED
    BY <2>1, <2>4, <2>5, NoValue
<1>15. CASE pc[t] = "Fulfil"
  <2>1. loc'[t] = loc[t] /\ pc'[t] \in {"CheckFailed", "EraseState", "EraseFlight"}
    BY <1>0, <1>15, SectionAt, FulfilMoves
  <2> QED
    BY <1>1, <2>1 DEF ValueOK, HasValue, ValuePcs, EvictPcs
<1>16. CASE pc[t] = "AdjustLru"
  <2>1. /\ Moves(t, loc[t].after, {"after"})
        /\ Gets(t, "after", IF loc[t].after = "Estimate" THEN "AddLoaded" ELSE "Idle")
    BY <1>0, <1>16, SectionAt, AdjustMoves
  <2>2. loc[t].after \in {"Estimate", "InvState"}
    BY <1>0, <1>16 DEF Shape
  <2>3. CASE loc[t].after = "InvState"
    BY <1>2, <2>1, <2>3 DEF ValuePcs
  <2>4. CASE loc[t].after = "Estimate"
    <3>1. /\ pc'[t] = "Estimate" /\ loc'[t].after = "AddLoaded"
          /\ loc'[t].val = loc[t].val /\ loc'[t].wait = loc[t].wait
      BY <2>1, <2>4 DEF Moves, Gets, Fields
    <3> QED
      BY <1>1, <3>1 DEF ValueOK, HasValue, ValuePcs, EvictPcs
  <2> QED
    BY <2>2, <2>3, <2>4
<1>17. CASE pc[t] = "SerDesign"
  <2>1. /\ Gets(t, "val", cache["design"][Name(t)])
        /\ \/ Moves(t, "Idle", {"val"})
           \/ cache["design"][Name(t)] # Nil /\ Moves(t, "SerGen", {"val"})
    BY <1>0, <1>17, SectionAt, SerializeMoves
  <2>2. Real(cache["design"][Name(t)]) /\ "wait" \notin {"val"} /\ "Idle" \notin ValuePcs
    BY <1>0, <1>1 DEF ValuePcs
  <2>3. cache["design"][Name(t)] # Nil => cache["design"][Name(t)].ver # 0
    BY <2>2 DEF Real
  <2> QED
    BY <1>1, <2>1, <2>2, <2>3, ValueGiven, Zenon
<1>18. CASE pc[t] = "CommitStore"
  <2>1. HasValue(pc[t], loc[t])
    BY <1>18 DEF HasValue, ValuePcs
  <2>2. Moves(t, loc[t].ret, {}) \/ \E V : Evicts(t, V, loc[t].ret)
    BY <1>0, <1>18, SectionAt, CommitMoves, Zenon DEF Commits
  <2>3. \E to : \E S \in {{}, {"victims", "after"}} : Moves(t, to, S)
    BY <2>2 DEF Evicts
  <2> QED
    BY <1>2, <2>1, <2>3
<1>19. CASE pc[t] = "AcquireSlot"
  <2>1. Moves(t, IF loc[t].job = "load" THEN "Lookup" ELSE "BuildPayload", {})
    BY <1>0, <1>19, SectionAt, WorkerMoves
  <2>2. CASE loc[t].job = "load"
    BY <1>2, <2>1, <2>2 DEF ValuePcs
  <2>3. CASE loc[t].job # "load"
    <3>1. HasValue(pc[t], loc[t])
      BY <1>0, <1>19, <2>3 DEF HasValue
    <3> QED
      BY <1>2, <2>1, <3>1
  <2> QED
    BY <2>2, <2>3
<1>20. CASE pc[t] \in {"Idle", "AddLoaded"}
  <2>1. Call(t) \/ AddLoaded(t)
    BY <1>0, <1>20, CallFlow, SectionAt
  <2>2. \/ Moves(t, "Idle", {})
        \/ \E to \in EntryPcs, S \in {{"kind", "ret"}, {"max", "kind", "save"}} :
              \E n : Starts(t, to, n, S)
    <3>1. Call(t) => pc'[t] \in EntryPcs
      BY <1>0, CallFlow, SectionPcs, CallMoves
    <3> QED
      BY <1>0, <2>1, <3>1, CallMoves, AddLoadedMoves DEF Starts, EntryPcs
  <2>3. ASSUME NEW to \in EntryPcs, NEW n, NEW S \in {{"kind", "ret"}, {"max", "kind", "save"}},
               Starts(t, to, n, S)
        PROVE  ValueOK(pc'[t], loc'[t])
    <3>1. pc'[t] = to /\ loc'[t].val = NoLocals.val /\ loc'[t].wait = NoLocals.wait
      BY <2>3 DEF Starts, Fields
    <3> QED
      BY <3>1, NoValue DEF ValueOK, HasValue, ValuePcs, EvictPcs, EntryPcs
  <2> QED
    BY <1>2, <2>2, <2>3 DEF ValuePcs
<1>21. CASE pc[t] \in {"CaptureGen", "AnnounceLoaded", "CheckFailed", "AnnounceFailed", "EraseState",
                       "AddMaps", "SaveModel", "ResyncEstimate", "Resync", "InvMaps", "InvStore",
                       "InvState", "ClearMaps", "ClearLru", "ClearStore", "ClearStates"}
  <2>1. \E to : \E S \in {{}, {"gen"}, {"after"}, {"bytes"}} : Moves(t, to, S)
    BY <1>0, <1>21, SectionAt, LookupMoves, SettleMoves, DropMoves, BudgetMoves, Zenon
  <2>2. pc'[t] \notin ValuePcs
    BY <1>0, <1>3, <1>21, FlightFlow, DropFlow DEF ValuePcs
  <2> QED
    BY <1>2, <2>1, <2>2 DEF Moves
<1>22. CASE pc[t] = "SetMaxBytes"
  <2>1. PICK V : Evicts(t, V, "Idle")
    BY <1>0, <1>22, SectionAt, BudgetMoves, Zenon
  <2>2. CASE pc'[t] = "Idle"
    BY <2>1, <2>2, NoValue DEF Evicts, Moves
  <2>3. CASE pc'[t] # "Idle"
    <3>1. /\ pc'[t] = "EvictStore" /\ loc'[t].after = "Idle"
          /\ loc'[t].val = loc[t].val /\ loc'[t].wait = loc[t].wait
      BY <2>1, <2>3 DEF Evicts, Moves, Gets, Fields
    <3> QED
      BY <1>1, <3>1 DEF ValueOK, HasValue, ValuePcs, EvictPcs
  <2> QED
    BY <2>2, <2>3
<1>23. CASE pc[t] \in {"UploadMove", "WarmCheck", "ReqState", "ReqContains", "AsyncCheck",
                       "AsyncCount", "AsyncUncount", "AsyncUnmark", "ReleaseSlot",
                       "UnmarkPending", "Uncount"}
  <2>1. \E to : \E S \in {{}, {"ret"}} : Moves(t, to, S)
    BY <1>0, <1>23, SectionAt, AsyncMoves, WorkerMoves, Zenon
  <2>2. pc'[t] \notin ValuePcs
    BY <1>0, <1>23, AsyncFlow DEF ValuePcs
  <2> QED
    BY <1>2, <2>1, <2>2 DEF Moves
<1> QED
  BY <1>0, <1>4, <1>5, <1>6, <1>7, <1>8, <1>9, <1>10, <1>11, <1>12, <1>13, <1>14, <1>15, <1>16,
     <1>17, <1>18, <1>19, <1>20, <1>21, <1>22, <1>23 DEF Labels, EvictPcs

\* The future another thread waits on changes only by being fulfilled by t.
LEMMA OtherWait ==
    ASSUME TypeInv, NEW t \in Threads, Section(t), NEW u \in Threads \ {t}, Undisturbed(u)
    PROVE  loc'[u].wait.val \in {loc[u].wait.val, loc[t].val, Nil}
<1>0. ThreadTypeOK
  BY DEF TypeInv
<1>1. ASSUME NEW w \in Workers, Spawns(t, w)
      PROVE  loc'[u] = loc[u]
  <2>1. u # w
    BY <1>1, SpawnMoves DEF Undisturbed, Starts
  <2> QED
    BY <1>1, <2>1, SpawnMoves DEF Spawned
<1>2. CASE \A w \in Workers : ~Spawns(t, w)
  BY <1>0, <1>2, StaysAlone, FulfilMoves DEF Alone
<1> QED
  BY <1>1, <1>2

\* What another thread holds.
LEMMA ValueOthers ==
    ASSUME BaseInv, ValueInv, NEW t \in Threads, Section(t), NEW u \in Threads \ {t}
    PROVE  ValueOK(pc'[u], loc'[u])
<1>0. TypeInv /\ ThreadTypeOK /\ ValueOK(pc[t], loc[t]) /\ ValueOK(pc[u], loc[u])
  BY DEF BaseInv, TypeInv, ValueInv
<1>1. CASE Undisturbed(u)
  <2>1. /\ pc'[u] = pc[u] /\ loc'[u].val = loc[u].val
        /\ loc'[u].after = loc[u].after /\ loc'[u].job = loc[u].job
    BY <1>1 DEF Undisturbed, Fields
  <2>2. Real(loc'[u].wait.val)
    BY <1>0, <1>1, OtherWait, NoValue DEF ValueOK
  <2> QED
    BY <1>0, <2>1, <2>2 DEF ValueOK, HasValue
<1>2. CASE u \in Workers /\ Spawns(t, u)
  <2>1. CASE pc[t] = "AsyncSpawn"
    <3>1. /\ pc'[u] = "AcquireSlot" /\ loc'[u].val = NoLocals.val /\ loc'[u].wait = NoLocals.wait
          /\ loc'[u].job = "load"
      BY <1>0, <1>2, <2>1, SpawnMoves DEF Starts, Fields
    <3> QED
      BY <3>1, NoValue DEF ValueOK, HasValue, ValuePcs, EvictPcs
  <2>2. CASE pc[t] # "AsyncSpawn"
    <3>1. /\ pc'[u] = "AcquireSlot" /\ loc'[u].val = loc[t].val /\ loc'[u].wait = NoLocals.wait
          /\ pc[t] = "ScheduleSpawn"
      BY <1>0, <1>2, <2>2, SpawnMoves DEF Starts, Fields
    <3>2. loc[t].val.ver # 0 /\ Real(loc[t].val)
      BY <1>0, <3>1 DEF ValueOK, HasValue, ValuePcs
    <3> QED
      BY <3>1, <3>2, NoValue DEF ValueOK
  <2> QED
    BY <2>1, <2>2
<1> QED
  BY <1>0, <1>1, <1>2, OtherThread

\* What is cached and what futures carry.
LEMMA ValueShared ==
    ASSUME BaseInv, ValueInv, NEW t \in Threads, Section(t)
    PROVE  SharedValuesOK'
<1>0. /\ TypeInv /\ ThreadTypeOK /\ cache \in [Kinds -> [Names -> Object]]
      /\ inFlight \in [Kinds -> [Names -> Flight]] /\ installed \in [Names -> Nat]
      /\ Name(t) \in Names /\ Kind(t) \in Kinds
  BY LocalFacts DEF BaseInv, TypeInv, DataInv, DataTypeOK, LoadTypeOK
<1>1. SUFFICES ASSUME NEW k \in Kinds, NEW n \in Names
               PROVE  Real(cache'[k][n]) /\ Real(inFlight'[k][n].val)
  BY DEF SharedValuesOK, Real
<1>2. Real(cache[k][n]) /\ Real(inFlight[k][n].val) /\ Real(loc[t].val)
  BY DEF ValueInv, SharedValuesOK, ValueOK
<1>3. Real(cache'[k][n])
  <2>1. CASE pc[t] \notin MapPcs
    BY <1>2, <2>1, Frame
  <2>2. CASE pc[t] \in {"EvictMaps", "InvMaps", "ClearMaps"}
    <3>1. \/ \E m \in Names : cache' = [j \in Kinds |-> [cache[j] EXCEPT ![m] = Nil]]
          \/ cache' = [j \in Kinds |-> [m \in Names |-> Nil]]
      BY <1>0, <2>2, SectionAt, LocalFacts DEF EvictMaps, InvMaps, ClearMaps
    <3>2. cache'[k][n] \in {cache[k][n], Nil}
      BY <1>0, <3>1
    <3> QED
      BY <1>2, <3>2, NoValue
  <2>3. CASE pc[t] = "Insert"
    <3>1. cache' = cache \/ cache' = [cache EXCEPT ![Kind(t)][Name(t)] = loc[t].val]
      BY <2>3, SectionAt DEF Insert, LoaderExits, shared, cacheVars
    <3>2. cache'[k][n] \in {cache[k][n], loc[t].val}
      BY <1>0, <3>1
    <3> QED
      BY <1>2, <3>2
  <2>4. CASE pc[t] = "AddMaps"
    <3> DEFINE o == [id |-> 0, ver |-> installed[Name(t)] + 1]
    <3>1. cache' = [cache EXCEPT !["archive"][Name(t)] = o, !["design"][Name(t)] = Nil]
      BY <2>4, SectionAt DEF AddMaps
    <3>2. Real(o)
      BY <1>0 DEF Real
    <3> HIDE DEF o
    <3>3. cache'[k][n] \in {cache[k][n], o, Nil}
      BY <1>0, <3>1 DEF Kinds
    <3> QED
      BY <1>2, <3>2, <3>3, NoValue
  <2> QED
    BY <2>1, <2>2, <2>3, <2>4 DEF MapPcs
<1>4. Real(inFlight'[k][n].val)
  <2>1. inFlight'[k][n].val \in {inFlight[k][n].val, loc[t].val, Nil}
    <3>1. CASE pc[t] \notin {"Register", "Fulfil", "EraseFlight"}
      BY <3>1, Frame
    <3>2. CASE pc[t] \in {"Register", "EraseFlight"}
      <4>1. \/ inFlight' = inFlight
            \/ \E f : f.val = Nil /\ inFlight' = [inFlight EXCEPT ![Kind(t)][Name(t)] = f]
        BY <3>2, SectionAt, NoValue
           DEF Register, EraseFlight, RegisterInFlight, EraseInFlight, loadVars
      <4> QED
        BY <1>0, <4>1
    <3>3. CASE pc[t] = "Fulfil"
      <4> DEFINE threw == loc[t].outcome \in {"threw", "guard"}
                 status == IF threw THEN "exception" ELSE "value"
                 result == IF threw THEN Nil ELSE loc[t].val
      <4>1. Fulfil(t)
        BY <3>3, SectionAt
      <4>2. inFlight' = [inFlight EXCEPT ![Kind(t)][Name(t)].status = status,
                                         ![Kind(t)][Name(t)].val = result]
        BY <4>1 DEF Fulfil, FulfilPromise
      <4>3. result \in {loc[t].val, Nil}
        OBVIOUS
      <4> HIDE DEF status, result
      <4> QED
        BY <1>0, <4>2, <4>3 DEF Flight
    <3> QED
      BY <3>1, <3>2, <3>3
  <2> QED
    BY <1>2, <2>1, NoValue
<1> QED
  BY <1>3, <1>4

LEMMA ValueStep ==
    ASSUME BaseInv, ValueInv, [Next]_vars
    PROVE  ValueInv'
<1>1. CASE UNCHANGED vars
  BY <1>1 DEF vars, threadVars, loadVars, cacheVars, ValueInv, SharedValuesOK, ValueOK, Real
<1>2. SUFFICES ASSUME NEW t \in Threads, Section(t) PROVE ValueInv'
  BY <1>1, StepCases DEF BaseInv
<1>3. \A u \in Threads : ValueOK(pc'[u], loc'[u])
  BY <1>2, ValueThread, ValueOthers
<1> QED
  BY <1>2, <1>3, ValueShared DEF ValueInv, ValueOK, Real

LEMMA ValueInitial == Init => ValueInv
<1> SUFFICES ASSUME Init PROVE ValueInv
  OBVIOUS
<1>1. SharedValuesOK
  BY NoValue DEF Init, LoadInit, SharedValuesOK
<1>2. \A t \in Threads : pc[t] = "Idle" /\ loc[t] = NoLocals
  BY DEF Init
<1> QED
  BY <1>1, <1>2, NoValue DEF ValueInv
-----------------------------------------------------------------------------
(* Payloads describe the cached Design.                                    *)

\* An invalidation of n is between the maps and the store.
Invalidating(n) == \E t \in Threads : pc[t] = "InvStore" /\ loc[t].name = n

LEMMA StillInvalidating ==
    ASSUME BaseInv, NEW t \in Threads, Section(t), NEW n, Invalidating(n),
           ~(pc[t] = "InvStore" /\ loc[t].name = n)
    PROVE  Invalidating(n)'
<1>1. PICK u \in Threads : pc[u] = "InvStore" /\ loc[u].name = n
  BY DEF Invalidating
<1>2. u # t
  BY <1>1
<1>3. pc'[u] = pc[u] /\ loc'[u] = loc[u]
  BY <1>1, <1>2, OtherSame DEF BaseInv
<1> QED
  BY <1>1, <1>3 DEF Invalidating

\* A step replaces or drops a cached object of a spared name only at the start of an
\* invalidation, and caches an object only where there is none.
LEMMA CachedStays ==
    ASSUME BaseInv, NeverCleared, NEW t \in Threads, Section(t), NEW k \in Kinds,
           NEW n \in Names, Spared(n)
    PROVE  cache'[k][n] = cache[k][n] \/ Invalidating(n)' \/ cache[k][n] = Nil
<1>0. /\ TypeInv /\ ThreadTypeOK /\ cache \in [Kinds -> [Names -> Object]]
      /\ Name(t) \in Names /\ Kind(t) \in Kinds
  BY LocalFacts DEF BaseInv, TypeInv, DataInv, DataTypeOK
<1>1. CASE pc[t] \notin MapPcs
  BY <1>1, Frame
<1>2. CASE pc[t] = "Insert"
  <2>1. \/ cache' = cache
        \/ /\ cache[Kind(t)][Name(t)] = Nil
           /\ cache' = [cache EXCEPT ![Kind(t)][Name(t)] = loc[t].val]
    BY <1>2, SectionAt DEF Insert, LoaderExits, shared, cacheVars
  <2> QED
    BY <1>0, <2>1
<1>3. CASE pc[t] \in {"AddMaps", "InvMaps"}
  <2>1. Moves(t, "InvStore", {"after"})
    BY <1>0, <1>3, SectionAt, DropMoves
  <2>2. pc'[t] = "InvStore" /\ loc'[t].name = Name(t)
    BY <2>1 DEF Moves, Fields, Name
  <2>3. CASE n = Name(t)
    BY <2>2, <2>3 DEF Invalidating
  <2>4. CASE n # Name(t)
    <3>1. \/ \E o : cache' = [cache EXCEPT !["archive"][Name(t)] = o, !["design"][Name(t)] = Nil]
          \/ cache' = [j \in Kinds |-> [cache[j] EXCEPT ![Name(t)] = Nil]]
      BY <1>3, SectionAt DEF AddMaps, InvMaps
    <3> QED
      BY <1>0, <2>4, <3>1 DEF Kinds
  <2> QED
    BY <2>3, <2>4
<1>4. CASE pc[t] = "EvictMaps"
  <2>1. PICK v \in Names \ {n} : cache' = [j \in Kinds |-> [cache[j] EXCEPT ![v] = Nil]]
    BY <1>4, EvictsOthers
  <2> QED
    BY <1>0, <2>1
<1> QED
  BY <1>1, <1>2, <1>3, <1>4 DEF MapPcs, NeverCleared, ClearPcs

\* A stored payload describes the cached Design, and one about to be stored is of it,
\* unless an invalidation will drop the one or has outdated the other.
PayloadOK(n) ==
    HasEntry(n) => /\ entries[n].ver # 0
                   /\ Invalidating(n) \/ cache["design"][n].ver = entries[n].ver

CommitOK(p, l) ==
    p = "CommitStore" /\ l.gen["design"] = generations[l.name]
      => Invalidating(l.name) \/ cache["design"][l.name] = l.val

MatchOK(n) == PayloadOK(n) /\ \A t \in Threads : loc[t].name = n => CommitOK(pc[t], loc[t])

LEMMA PayloadStays ==
    ASSUME BaseInv, NeverCleared, NeverCleared', ValueInv,
           NEW n \in Names, Spared(n), Spared(n)', MatchOK(n),
           NEW t \in Threads, Section(t), entries'[n] # NoPayload
    PROVE  /\ entries'[n].ver # 0
           /\ Invalidating(n)' \/ cache'["design"][n].ver = entries'[n].ver
<1>0. TypeInv /\ ThreadTypeOK /\ StoreTypeOK /\ "design" \in Kinds /\ Name(t) \in Names
  BY LocalFacts DEF BaseInv, TypeInv, DataInv, DataTypeOK, Kinds
<1>1. ~(pc[t] = "InvStore" /\ loc[t].name = n)
  <2>1. pc[t] = "InvStore" => StoreInvalidate(Name(t))
    BY SectionAt DEF InvStore
  <2> QED
    BY <1>0, <2>1 DEF StoreInvalidate, StoreTypeOK, Name
<1>2. Invalidating(n) => Invalidating(n)'
  BY <1>1, StillInvalidating
<1>3. ASSUME entries'[n] = entries[n]
      PROVE  /\ entries'[n].ver # 0
             /\ Invalidating(n)' \/ cache'["design"][n].ver = entries'[n].ver
  <2>1. /\ entries[n].ver # 0
        /\ Invalidating(n) \/ cache["design"][n].ver = entries[n].ver
    BY <1>3 DEF MatchOK, PayloadOK, HasEntry
  <2>2. cache["design"][n].ver = entries[n].ver => cache["design"][n] # Nil
    BY <2>1 DEF Nil
  <2> QED
    BY <1>0, <1>2, <1>3, <2>1, <2>2, CachedStays
<1>4. CASE pc[t] = "CommitStore"
  <2>1. CommitStore(t) /\ cache' = cache
    BY <1>4, SectionAt, Frame DEF MapPcs
  <2>2. ~Drops(pc'[t], loc'[t], n)
    BY NothingToDrop
  <2>3. CASE entries'[n] # entries[n]
    <3>1. /\ n = Name(t) /\ TryStoreSucceeds(n, loc[t].gen["design"])
          /\ entries'[n] = [bytes |-> PayloadBytes, ver |-> loc[t].val.ver]
      BY <2>1, <2>2, <2>3, CommitEffect
    <3>2. loc[t].val.ver # 0
      BY <1>4 DEF ValueInv, ValueOK, HasValue, ValuePcs
    <3>3. Invalidating(n) \/ cache["design"][n] = loc[t].val
      BY <1>4, <3>1 DEF MatchOK, CommitOK, TryStoreSucceeds, Name
    <3>4. entries'[n].ver = loc[t].val.ver
      BY <3>1
    <3> QED
      BY <1>2, <2>1, <3>2, <3>3, <3>4
  <2> QED
    BY <1>3, <2>3
<1>5. CASE pc[t] = "InvStore"
  <2>1. StoreInvalidate(Name(t))
    BY <1>5, SectionAt DEF InvStore
  <2>2. entries'[n] = entries[n]
    BY <1>0, <1>1, <1>5, <2>1 DEF StoreInvalidate, StoreTypeOK, Name
  <2> QED
    BY <1>3, <2>2
<1>6. CASE pc[t] = "EvictStore"
  <2>1. PICK v \in Names \ {n} : StoreInvalidate(v)
    BY <1>6, EvictsOthers
  <2>2. entries'[n] = entries[n]
    BY <1>0, <2>1 DEF StoreInvalidate, StoreTypeOK
  <2> QED
    BY <1>3, <2>2
<1>7. CASE pc[t] \notin {"CommitStore", "InvStore", "EvictStore"}
  <2>1. entries' = entries
    BY <1>7, Frame DEF StorePcs, NeverCleared, ClearPcs
  <2> QED
    BY <1>3, <2>1
<1> QED
  BY <1>4, <1>5, <1>6, <1>7

\* A generation that a thread captured is outdated by an invalidation.
LEMMA GenerationMoves ==
    ASSUME BaseInv, NeverCleared, GenInv, NEW t \in Threads, Section(t), NEW u \in Threads,
           Spared(loc[u].name), NEW k \in Kinds, loc[u].gen[k] = generations'[loc[u].name]
    PROVE  /\ loc[u].gen[k] = generations[loc[u].name]
           /\ ~(pc[t] = "InvStore" /\ loc[t].name = loc[u].name)
<1>0. /\ ThreadTypeOK /\ StoreTypeOK /\ Name(t) \in Names /\ loc[u].name \in Names
      /\ loc[u].gen[k] \in Nat /\ generations[loc[u].name] \in Nat
      /\ generations \in [Names -> Nat]
  <2>1. ThreadTypeOK /\ StoreTypeOK
    BY DEF BaseInv, TypeInv, DataInv, DataTypeOK
  <2> QED
    BY <2>1, LocalFacts DEF StoreTypeOK, Name
<1>1. loc[u].gen[k] <= generations[loc[u].name]
  BY DEF GenInv, NotCleared, Captured, NeverCleared, ClearPcs
<1>2. CASE pc[t] = "InvStore"
  <2>1. StoreInvalidate(Name(t))
    BY <1>2, SectionAt DEF InvStore
  <2>2. CASE loc[t].name = loc[u].name
    <3>1. generations'[loc[u].name] = generations[loc[u].name] + 1
      BY <1>0, <2>1, <2>2 DEF StoreInvalidate, Name
    <3> QED
      BY <1>0, <1>1, <3>1
  <2>3. CASE loc[t].name # loc[u].name
    <3>1. generations'[loc[u].name] = generations[loc[u].name]
      BY <1>0, <2>1, <2>3 DEF StoreInvalidate, Name
    <3> QED
      BY <2>3, <3>1
  <2> QED
    BY <2>2, <2>3
<1>3. CASE pc[t] = "EvictStore"
  <2>1. \A m \in Names : Spared(m) => \E v \in Names \ {m} : StoreInvalidate(v)
    BY <1>3, EvictsOthers
  <2>2. generations'[loc[u].name] = generations[loc[u].name]
    BY <1>0, <2>1 DEF StoreInvalidate
  <2> QED
    BY <1>3, <2>2
<1>4. CASE pc[t] \notin {"InvStore", "EvictStore"}
  BY <1>4, Frame DEF StorePcs, NeverCleared, ClearPcs
<1> QED
  BY <1>2, <1>3, <1>4

LEMMA CommitStays ==
    ASSUME BaseInv, NeverCleared, GenInv, ValueInv, NEW n \in Names, Spared(n), MatchOK(n),
           NEW t \in Threads, Section(t), NEW u \in Threads, loc'[u].name = n,
           pc'[u] = "CommitStore", loc'[u].gen["design"] = generations'[n]
    PROVE  Invalidating(n)' \/ cache'["design"][n] = loc'[u].val
<1>0. TypeInv /\ ThreadTypeOK /\ "design" \in Kinds
  BY DEF BaseInv, TypeInv, Kinds
<1>1. CASE u = t
  <2>1. pc[t] = "CommitIdentity"
    BY <1>1, CameFrom
  <2>2. /\ \/ Moves(t, "CommitStore", {}) /\ cache["design"][Name(t)] = loc[t].val
           \/ Moves(t, loc[t].ret, {})
        /\ loc[t].ret \in RetPcs
    BY <1>0, <2>1, SectionAt, SerializeMoves, ThreadFacts DEF BaseInv, Shape
  <2>3. Moves(t, "CommitStore", {}) /\ cache["design"][Name(t)] = loc[t].val
    BY <1>1, <2>2 DEF Moves, RetPcs
  <2>4. loc'[t].name = loc[t].name /\ loc'[t].val = loc[t].val
    BY <2>3 DEF Moves, Fields
  <2>5. cache' = cache
    BY <2>1, Frame DEF MapPcs
  <2> QED
    BY <1>1, <2>3, <2>4, <2>5 DEF Name
<1>2. CASE u # t
  <2>1. pc[u] = "CommitStore"
    BY <1>0, <1>2, OtherThread DEF Undisturbed
  <2>2. loc'[u] = loc[u] /\ loc[u].name = n
    BY <1>0, <1>2, <2>1, OtherSame
  <2>3. /\ loc[u].gen["design"] = generations[n]
        /\ ~(pc[t] = "InvStore" /\ loc[t].name = n)
    BY <1>0, <2>2, GenerationMoves
  <2>4. Invalidating(n) \/ cache["design"][n] = loc[u].val
    BY <2>1, <2>2, <2>3 DEF MatchOK, CommitOK
  <2>5. loc[u].val # Nil
    BY <2>1 DEF ValueInv, ValueOK, HasValue, ValuePcs, Nil
  <2>6. CASE Invalidating(n)
    BY <2>3, <2>6, StillInvalidating
  <2>7. CASE cache["design"][n] = loc[u].val
    BY <1>0, <2>2, <2>5, <2>7, CachedStays
  <2> QED
    BY <2>4, <2>6, <2>7
<1> QED
  BY <1>1, <1>2

LEMMA MatchStep ==
    ASSUME BaseInv, NeverCleared, NeverCleared', GenInv, ValueInv,
           NEW n \in Names, Spared(n), Spared(n)', MatchOK(n), [Next]_vars
    PROVE  MatchOK(n)'
<1>1. CASE UNCHANGED vars
  BY <1>1 DEF vars, threadVars, storeVars, cacheVars, MatchOK, PayloadOK, CommitOK, Invalidating,
              HasEntry
<1>2. SUFFICES ASSUME NEW t \in Threads, Section(t) PROVE MatchOK(n)'
  BY <1>1, StepCases DEF BaseInv
<1>3. PayloadOK(n)'
  BY <1>2, PayloadStays DEF PayloadOK, HasEntry
<1>4. ASSUME NEW u \in Threads, loc'[u].name = n PROVE CommitOK(pc[u], loc[u])'
  <2>1. pc'[u] = "CommitStore" /\ loc'[u].gen["design"] = generations'[n]
          => Invalidating(n)' \/ cache'["design"][n] = loc'[u].val
    BY <1>2, <1>4, CommitStays
  <2> QED
    BY <1>4, <2>1 DEF CommitOK, Invalidating
<1> QED
  BY <1>3, <1>4 DEF MatchOK, CommitOK, Invalidating

MatchInv(S) ==
    BaseInv /\ NeverCleared /\ GenInv /\ ValueInv /\ \A n \in S : MatchOK(n)

LEMMA MatchInitial ==
    ASSUME NEW S \in SUBSET Names, Init PROVE MatchInv(S)
<1>1. \A n \in S : MatchOK(n)
  BY DEF Init, StoreInit, MatchOK, PayloadOK, CommitOK, HasEntry
<1> QED
  BY <1>1, BaseInitial, NeverClearedInitial, GenInitial, ValueInitial DEF MatchInv

LEMMA MatchInvStep ==
    ASSUME NoClear, NEW S \in SUBSET Names, MatchInv(S), SparedIn(S), SparedIn(S)', [Next]_vars
    PROVE  MatchInv(S)'
<1>1. BaseInv' /\ NeverCleared' /\ GenInv' /\ ValueInv'
  BY BaseStep, NeverClearedStep, GenStep, ValueStep DEF MatchInv
<1>2. ASSUME NEW n \in S PROVE MatchOK(n)'
  BY <1>1, MatchStep DEF MatchInv, SparedIn
<1> QED
  BY <1>1, <1>2 DEF MatchInv

LEMMA Matches ==
    ASSUME NEW S, MatchInv(S), Quiescent PROVE \A n \in S : PayloadMatches(n)
  BY DEF MatchInv, MatchOK, PayloadOK, Invalidating, PayloadMatches, Quiescent

\* Without Clear() and under any budget: as long as the names S are not evicted, when no
\* call is running, the payload that the gRPC fast path serves for one of them describes
\* the same contents as the Design in the cache, for any number of names and threads and
\* however loads, commits, injections, uploads, invalidations and evictions of other
\* names were interleaved.
THEOREM SparedPayloadsMatch ==
    ASSUME NoClear, NEW S \in SUBSET Names
    PROVE  Spec /\ []SparedIn(S) => [](Quiescent => \A n \in S : PayloadMatches(n))
<1>1. Init => MatchInv(S)
  BY MatchInitial
<1>2. MatchInv(S) /\ SparedIn(S) /\ SparedIn(S)' /\ [Next]_vars => MatchInv(S)'
  BY MatchInvStep
<1>3. MatchInv(S) => (Quiescent => \A n \in S : PayloadMatches(n))
  BY Matches
<1> QED
  BY <1>1, <1>2, <1>3, PTL DEF Spec

\* The case of all names: without Clear(), in a run that evicts nothing, whatever the
\* budget is, the payload served for any name matches the Design in the cache.
THEOREM ServedPayloadsMatch ==
    ASSUME NoClear PROVE Spec /\ []SparedIn(Names) => []PayloadMatchesDesign
<1>1. Init => MatchInv(Names)
  BY MatchInitial
<1>2. MatchInv(Names) /\ SparedIn(Names) /\ SparedIn(Names)' /\ [Next]_vars
        => MatchInv(Names)'
  BY MatchInvStep
<1>3. MatchInv(Names) => PayloadMatchesDesign
  BY Matches DEF PayloadMatchesDesign
<1> QED
  BY <1>1, <1>2, <1>3, PTL DEF Spec
-----------------------------------------------------------------------------
(* What a loader inserts is fresh.                                         *)

\* The archive l holds is the cached one, unless an invalidation is on its way to the
\* generation that the design load captured, or has reached it.
ArchiveOK(l) ==
    /\ l.val.ver # 0
    /\ l.gen["design"] = generations[l.name]
         => Invalidating(l.name) \/ cache["archive"][l.name].ver = l.val.ver

\* Where a design load holds the archive that it looked up or loaded itself.
HasArchive(p, l) ==
    /\ l.wait = NoFlight
    /\ \/ l.nested /\ p \in {"TouchHit", "Estimate", "Charge"} \cup EvictPcs
       \/ l.nested /\ p \in {"Fulfil", "EraseFlight"} /\ l.outcome = "value"
       \/ ~l.nested /\ l.kind = "design" /\ p \in {"Build", "CheckGen", "CheckEpoch", "Insert"}

\* A nested archive load that an invalidation has raced.
Raced(p, l) ==
    /\ l.nested
    /\ \/ p = "CheckEpoch" /\ l.stale
       \/ p \in {"Fulfil", "EraseFlight"} /\ l.outcome = "abandoned"

\* The generation captured by a design load is not later than that of its archive load.
Ordered(p, l) ==
    l.nested /\ p \in {"Register", "Join", "Load", "CheckGen"}
      => l.gen["design"] <= l.gen["archive"]

\* What a load found out about itself.
Recorded(p, l) ==
    /\ p = "TouchJoin" => l.wait # NoFlight
    /\ l.nested /\ p \in {"Insert", "Estimate", "Charge"} \cup EvictPcs => l.outcome = "value"
    /\ l.nested /\ p \in {"Fulfil", "EraseFlight"} /\ l.outcome = "null" => l.val = Nil

FreshOK(p, l) ==
    /\ Ordered(p, l) /\ Recorded(p, l)
    /\ Raced(p, l) => l.gen["design"] < generations[l.name]

FreshInv == \A t \in Threads : FreshOK(pc[t], loc[t])

\* The archive that a design load of n is given is the cached one.
ArchivesOK(n) ==
    \A t \in Threads : loc[t].name = n /\ HasArchive(pc[t], loc[t]) => ArchiveOK(loc[t])

\* A thread that keeps its archive, its name and its generation.
LEMMA ArchiveStays ==
    ASSUME BaseInv, NeverCleared, GenInv, NEW t \in Threads, Section(t), NEW u \in Threads,
           Spared(loc[u].name), loc'[u].name = loc[u].name, loc'[u].gen["design"] = loc[u].gen["design"],
           loc'[u].val.ver = loc[u].val.ver, ArchiveOK(loc[u])
    PROVE  ArchiveOK(loc[u])'
<1>0. TypeInv /\ ThreadTypeOK /\ "design" \in Kinds /\ "archive" \in Kinds /\ loc[u].name \in Names
  BY LocalFacts DEF BaseInv, TypeInv, Kinds, Name
<1>1. SUFFICES ASSUME loc[u].gen["design"] = generations'[loc[u].name]
               PROVE  \/ \E w \in Threads : pc'[w] = "InvStore" /\ loc'[w].name = loc[u].name
                      \/ cache'["archive"][loc[u].name].ver = loc[u].val.ver
  BY DEF ArchiveOK, Invalidating
<1>2. /\ loc[u].gen["design"] = generations[loc[u].name]
      /\ ~(pc[t] = "InvStore" /\ loc[t].name = loc[u].name)
  BY <1>0, <1>1, GenerationMoves
<1>3. loc[u].val.ver # 0
  BY DEF ArchiveOK
<1>4. CASE Invalidating(loc[u].name)
  <2>1. ASSUME NEW m, Invalidating(m), ~(pc[t] = "InvStore" /\ loc[t].name = m)
        PROVE  \E w \in Threads : pc'[w] = "InvStore" /\ loc'[w].name = m
    BY <2>1, StillInvalidating DEF Invalidating
  <2> QED
    BY <1>2, <1>4, <2>1
<1>5. CASE cache["archive"][loc[u].name].ver = loc[u].val.ver
  <2>1. ASSUME NEW m \in Names, Spared(m)
        PROVE  \/ cache'["archive"][m] = cache["archive"][m]
               \/ \E w \in Threads : pc'[w] = "InvStore" /\ loc'[w].name = m
               \/ cache["archive"][m] = Nil
    BY <1>0, <2>1, CachedStays DEF Invalidating
  <2>2. cache["archive"][loc[u].name] # Nil
    BY <1>3, <1>5 DEF Nil
  <2> QED
    BY <1>0, <1>5, <2>1, <2>2
<1> QED
  BY <1>2, <1>4, <1>5 DEF ArchiveOK

\* A generation that was outdated stays outdated.
LEMMA RacedStays ==
    ASSUME BaseInv, BaseInv', NeverCleared', NEW t \in Threads, Section(t), NEW u \in Threads,
           loc'[u].name = loc[u].name, loc'[u].gen["design"] = loc[u].gen["design"],
           loc[u].gen["design"] < generations[loc[u].name]
    PROVE  loc'[u].gen["design"] < generations'[loc'[u].name]
<1>0. /\ ThreadTypeOK /\ StoreTypeOK /\ StoreTypeOK' /\ loc[u].name \in Names
      /\ "design" \in Kinds
  <2>1. ThreadTypeOK /\ StoreTypeOK /\ "design" \in Kinds
    BY DEF BaseInv, TypeInv, DataInv, DataTypeOK, Kinds
  <2>2. TypeInv'
    BY DEF BaseInv
  <2> QED
    BY <2>1, <2>2, LocalFacts DEF TypeInv, DataInv, DataTypeOK, Name
<1>1. NotCleared'
  BY DEF NeverCleared, NotCleared, ClearPcs
<1>2. generations'[loc[u].name] >= generations[loc[u].name]
  BY <1>0, <1>1, NotClearedBefore
<1>3. loc[u].gen["design"] \in Nat /\ generations[loc[u].name] \in Nat
      /\ generations'[loc[u].name] \in Nat
  BY <1>0, LocalFacts DEF StoreTypeOK
<1> QED
  BY <1>2, <1>3

\* The threads that the step does not run.
LEMMA FreshOthers ==
    ASSUME BaseInv, BaseInv', NeverCleared', FreshInv,
           NEW t \in Threads, Section(t), NEW u \in Threads \ {t}
    PROVE  FreshOK(pc[u], loc[u])'
<1>0. TypeInv /\ u \in Threads /\ FreshOK(pc[u], loc[u])
  BY DEF BaseInv, FreshInv
<1>1. CASE pc[u] \notin {"Idle", "Join"}
  <2>1. pc'[u] = pc[u] /\ loc'[u] = loc[u]
    BY <1>0, <1>1, OtherSame
  <2>2. Ordered(pc'[u], loc'[u]) /\ Recorded(pc'[u], loc'[u])
    BY <1>0, <2>1 DEF FreshOK
  <2>3. Raced(pc'[u], loc'[u]) => loc'[u].gen["design"] < generations'[loc'[u].name]
    BY <1>0, <2>1, RacedStays DEF FreshOK
  <2> QED
    BY <2>2, <2>3 DEF FreshOK, Ordered, Recorded, Raced
<1>2. CASE pc[u] \in {"Idle", "Join"}
  <2>1. pc'[u] \in {"Idle", "Join", "AcquireSlot"}
    BY <1>0, <1>2, OtherThread DEF Undisturbed
  <2>2. CASE pc'[u] # "Join"
    BY <2>1, <2>2 DEF FreshOK, Ordered, Recorded, Raced, EvictPcs
  <2>3. CASE pc'[u] = "Join"
    <3>1. pc[u] = "Join" /\ loc'[u].nested = loc[u].nested /\ loc'[u].gen = loc[u].gen
      BY <1>0, <1>2, <2>3, OtherThread DEF Undisturbed, Fields
    <3>2. Ordered(pc'[u], loc'[u])
      BY <1>0, <2>3, <3>1 DEF FreshOK, Ordered
    <3> QED
      BY <2>3, <3>2 DEF FreshOK, Ordered, Recorded, Raced, EvictPcs
  <2> QED
    BY <2>2, <2>3
<1> QED
  BY <1>1, <1>2

\* What the sections of a load do to the locals FreshOK is about.
LEMMA FreshMoves ==
    ASSUME BaseInv, NEW t \in Threads, Section(t), pc'[t] # "Idle"
    PROVE  /\ pc[t] = "CaptureGen" =>
              /\ loc'[t].nested = loc[t].nested
              /\ loc'[t].gen = [loc[t].gen EXCEPT ![Kind(t)] = generations[Name(t)]]
           /\ pc[t] = "Register" /\ pc'[t] \in {"Join", "Load"} =>
              loc'[t].nested = loc[t].nested /\ loc'[t].gen = loc[t].gen
           /\ pc[t] = "Load" =>
              /\ loc'[t].gen = loc[t].gen
              /\ pc'[t] # "Lookup" => loc'[t].nested = loc[t].nested /\ loc'[t].kind = loc[t].kind
              /\ pc'[t] = "CheckGen" => loc[t].kind = "archive"
              /\ pc'[t] = "Fulfil" => loc'[t].val = Nil /\ loc'[t].outcome \in {"null", "threw"}
           /\ pc[t] = "CheckGen" =>
              /\ \A f \in Fields \ {"stale"} : loc'[t][f] = loc[t][f]
              /\ loc'[t].stale = (generations[Name(t)] # loc[t].gen[Kind(t)])
           /\ pc[t] = "CheckEpoch" =>
              /\ \A f \in Fields \ {"stale", "outcome"} : loc'[t][f] = loc[t][f]
              /\ pc'[t] = "Fulfil" => /\ loc'[t].outcome = "abandoned"
                                      /\ epoch # loc[t].ep[Kind(t)] \/ loc[t].stale
              /\ pc'[t] = "Insert" => loc'[t].outcome = "value"
           /\ pc[t] = "Insert" /\ pc'[t] = "Estimate" =>
              /\ \A f \in Fields \ {"val"} : loc'[t][f] = loc[t][f]
              /\ \/ /\ cache[Kind(t)][Name(t)] # Nil /\ cache' = cache
                    /\ loc'[t].val = cache[Kind(t)][Name(t)]
                 \/ /\ cache' = [cache EXCEPT ![Kind(t)][Name(t)] = loc[t].val]
                    /\ loc'[t].val = loc[t].val
           /\ pc[t] = "Insert" /\ pc'[t] = "Fulfil" => loc'[t].outcome = "guard"
           /\ pc[t] = "Estimate" => \A f \in Fields \ {"bytes"} : loc'[t][f] = loc[t][f]
           /\ pc[t] = "Charge" => \A f \in Fields \ {"victims", "after"} : loc'[t][f] = loc[t][f]
           /\ pc[t] \in EvictPcs =>
              \A f \in Fields \ {"victims", "victim"} : loc'[t][f] = loc[t][f]
<1>0. TypeInv /\ ThreadTypeOK
  BY DEF BaseInv, TypeInv
<1>1. pc[t] = "CaptureGen" =>
        /\ loc'[t].nested = loc[t].nested
        /\ loc'[t].gen = [loc[t].gen EXCEPT ![Kind(t)] = generations[Name(t)]]
  <2>1. pc[t] = "CaptureGen" => /\ Moves(t, "Register", {"gen"})
                                /\ GetsAt(t, "gen", Kind(t), generations[Name(t)])
    BY <1>0, SectionAt, LookupMoves, Zenon DEF CurrentGeneration
  <2> QED
    BY <2>1 DEF Moves, GetsAt, Fields
<1>2. pc[t] = "Register" /\ pc'[t] \in {"Join", "Load"} =>
        loc'[t].nested = loc[t].nested /\ loc'[t].gen = loc[t].gen
  <2>1. pc[t] = "Register" => \/ Moves(t, "Join", {"wait"})
                              \/ \E to : Moves(t, to, {"ep"})
    BY <1>0, SectionAt, RegisterMoves, Zenon
  <2> QED
    BY <2>1 DEF Moves, Fields
<1>3. pc[t] = "Load" =>
        /\ loc'[t].gen = loc[t].gen
        /\ pc'[t] # "Lookup" => loc'[t].nested = loc[t].nested /\ loc'[t].kind = loc[t].kind
        /\ pc'[t] = "CheckGen" => loc[t].kind = "archive"
        /\ pc'[t] = "Fulfil" => loc'[t].val = Nil /\ loc'[t].outcome \in {"null", "threw"}
  <2>1. pc[t] = "Load" => \/ Moves(t, "Lookup", {"kind", "nested"})
                          \/ \E o \in {"null", "threw"} : Ends(t, o)
                          \/ Moves(t, "CheckGen", {"val"}) /\ Kind(t) = "archive"
    BY <1>0, SectionAt, LoadMoves, Zenon
  <2> QED
    BY <2>1 DEF Moves, Ends, Gets, Fields, Kind
<1>4. pc[t] = "CheckGen" =>
        /\ \A f \in Fields \ {"stale"} : loc'[t][f] = loc[t][f]
        /\ loc'[t].stale = (generations[Name(t)] # loc[t].gen[Kind(t)])
  <2>1. pc[t] = "CheckGen" =>
          /\ Moves(t, "CheckEpoch", {"stale"})
          /\ Gets(t, "stale", generations[Name(t)] # loc[t].gen[Kind(t)])
    BY <1>0, SectionAt, CheckMoves, Zenon DEF CurrentGeneration
  <2> QED
    BY <2>1, Zenon DEF Moves, Gets
<1>5. pc[t] = "CheckEpoch" =>
        /\ \A f \in Fields \ {"stale", "outcome"} : loc'[t][f] = loc[t][f]
        /\ pc'[t] = "Fulfil" => /\ loc'[t].outcome = "abandoned"
                                /\ epoch # loc[t].ep[Kind(t)] \/ loc[t].stale
        /\ pc'[t] = "Insert" => loc'[t].outcome = "value"
  <2>1. pc[t] = "CheckEpoch" =>
          \/ /\ epoch # loc[t].ep[Kind(t)] \/ loc[t].stale
             /\ Moves(t, "Fulfil", {"stale", "outcome"}) /\ Gets(t, "outcome", "abandoned")
          \/ Moves(t, "Insert", {"stale", "outcome"}) /\ Gets(t, "outcome", "value")
    BY <1>0, SectionAt, CheckMoves, Zenon DEF WasClearedSince
  <2> QED
    BY <2>1 DEF Moves, Gets
<1>6. /\ pc[t] = "Insert" /\ pc'[t] = "Estimate" =>
         /\ \A f \in Fields \ {"val"} : loc'[t][f] = loc[t][f]
         /\ \/ /\ cache[Kind(t)][Name(t)] # Nil /\ cache' = cache
               /\ loc'[t].val = cache[Kind(t)][Name(t)]
            \/ /\ cache' = [cache EXCEPT ![Kind(t)][Name(t)] = loc[t].val]
               /\ loc'[t].val = loc[t].val
      /\ pc[t] = "Insert" /\ pc'[t] = "Fulfil" => loc'[t].outcome = "guard"
  <2> DEFINE c == [cache EXCEPT ![Kind(t)][Name(t)] = loc[t].val]
  <2>1. pc[t] = "Insert" =>
          \/ /\ cache[Kind(t)][Name(t)] # Nil /\ cache' = cache
             /\ Moves(t, "Estimate", {"val"}) /\ Gets(t, "val", cache[Kind(t)][Name(t)])
          \/ cache' = c /\ Moves(t, "Estimate", {})
          \/ Ends(t, "guard")
    BY <1>0, SectionAt, CheckMoves, RegisterMoves, Zenon
  <2> HIDE DEF c
  <2>2. /\ pc[t] = "Insert" /\ pc'[t] = "Estimate" =>
           /\ \A f \in Fields \ {"val"} : loc'[t][f] = loc[t][f]
           /\ \/ /\ cache[Kind(t)][Name(t)] # Nil /\ cache' = cache
                 /\ loc'[t].val = cache[Kind(t)][Name(t)]
              \/ cache' = c /\ loc'[t].val = loc[t].val
        /\ pc[t] = "Insert" /\ pc'[t] = "Fulfil" => loc'[t].outcome = "guard"
    BY <2>1 DEF Moves, Gets, Ends, Fields
  <2> QED
    BY <2>2, Zenon DEF c
<1>7. /\ pc[t] = "Estimate" => \A f \in Fields \ {"bytes"} : loc'[t][f] = loc[t][f]
      /\ pc[t] = "Charge" => \A f \in Fields \ {"victims", "after"} : loc'[t][f] = loc[t][f]
  <2>1. /\ pc[t] = "Estimate" => Moves(t, "Charge", {"bytes"})
        /\ pc[t] = "Charge" => \E V, after : Evicts(t, V, after)
    BY <1>0, SectionAt, BudgetMoves, Zenon
  <2> QED
    BY <2>1 DEF Moves, Evicts
<1>8. pc[t] \in EvictPcs => \A f \in Fields \ {"victims", "victim"} : loc'[t][f] = loc[t][f]
  <2>1. pc[t] \in EvictPcs => \E to : \E S \in {{"victim"}, {}, {"victims", "victim"}} :
                                  Moves(t, to, S)
    BY <1>0, SectionAt, BudgetMoves, Zenon DEF EvictPcs
  <2> QED
    BY <2>1 DEF Moves
<1> QED
  BY <1>1, <1>2, <1>3, <1>4, <1>5, <1>6, <1>7, <1>8, Zenon

\* The end of the nested archive load.
LEMMA FreshLeaves ==
    ASSUME BaseInv, NEW t \in Threads, Section(t),
           pc[t] \in {"TouchHit", "Join", "TouchJoin", "EraseFlight"},
           pc'[t] \in {"Fulfil", "Build"}
    PROVE  /\ loc[t].nested /\ loc'[t].nested = FALSE
           /\ loc'[t].name = loc[t].name /\ loc'[t].gen = loc[t].gen /\ loc'[t].wait = loc[t].wait
           /\ pc'[t] = "Build" =>
              /\ pc[t] # "Join" /\ loc'[t].val = loc[t].val /\ loc[t].val # Nil
              /\ pc[t] = "EraseFlight" => loc[t].outcome \notin {"threw", "guard"}
<1>0. TypeInv /\ ThreadTypeOK /\ loc[t].ret \in RetPcs
  BY ThreadFacts DEF BaseInv, TypeInv, Shape
<1>1. \/ /\ Returns(t, loc[t].val) /\ pc[t] # "Join"
         /\ pc[t] = "EraseFlight" => loc[t].outcome \notin {"threw", "guard"}
      \/ Throws(t) \/ Moves(t, "TouchJoin", {"val"})
  BY <1>0, SectionAt, LookupMoves, SettleMoves, Zenon
<1>2. ASSUME NEW to, NEW v, NEW o, Unnests(t, to, v, o)
      PROVE  /\ loc[t].nested /\ loc'[t].nested = FALSE /\ pc'[t] = to
             /\ loc'[t].name = loc[t].name /\ loc'[t].gen = loc[t].gen
             /\ loc'[t].wait = loc[t].wait /\ loc'[t].val = v
  BY <1>2 DEF Unnests, Moves, Gets, Fields
<1>3. CASE Throws(t)
  <2>1. Unnests(t, "Fulfil", Nil, "threw") \/ \E to \in {"ReleaseSlot", "Idle"} : pc'[t] = to
    BY <1>3, Zenon DEF Throws, Moves
  <2> QED
    BY <1>2, <2>1
<1>4. CASE Returns(t, loc[t].val)
  <2>1. \/ Unnests(t, "Fulfil", loc[t].val, "null")
        \/ loc[t].val # Nil /\ Unnests(t, "Build", loc[t].val, "value")
        \/ pc'[t] = loc[t].ret
    BY <1>4, Zenon DEF Returns, Moves
  <2>2. CASE Unnests(t, "Fulfil", loc[t].val, "null")
    BY <1>2, <2>2
  <2>3. CASE loc[t].val # Nil /\ Unnests(t, "Build", loc[t].val, "value")
    <3>1. pc[t] # "Join"
      BY <1>1, <1>2, <2>3 DEF Throws, Unnests, Moves, Gets
    <3>2. pc[t] = "EraseFlight" => loc[t].outcome \notin {"threw", "guard"}
      BY <1>1, <1>2, <2>3 DEF Throws, Unnests, Moves, Gets
    <3> QED
      BY <1>2, <2>3, <3>1, <3>2
  <2> QED
    BY <1>0, <2>1, <2>2, <2>3 DEF RetPcs
<1> QED
  BY <1>1, <1>3, <1>4 DEF Moves

\* A nested archive load reaches its fulfilment.
LEMMA FreshFulfil ==
    ASSUME BaseInv, NeverCleared, GenInv, NEW t \in Threads, Section(t),
           pc'[t] = "Fulfil", loc'[t].nested
    PROVE  \/ pc[t] = "Load" /\ loc'[t].val = Nil /\ loc'[t].outcome \in {"null", "threw"}
           \/ /\ pc[t] = "CheckEpoch" /\ loc[t].nested /\ loc[t].stale
              /\ loc'[t].outcome = "abandoned"
              /\ loc'[t].name = loc[t].name /\ loc'[t].gen = loc[t].gen
           \/ pc[t] = "Insert" /\ loc'[t].outcome = "guard"
           \/ /\ pc[t] \in {"Charge"} \cup EvictPcs
              /\ \A f \in Fields \ {"victims", "victim", "after"} : loc'[t][f] = loc[t][f]
<1>0. /\ TypeInv /\ CInv /\ ThreadTypeOK /\ Shape(pc[t], loc[t]) /\ pc[t] \in Labels
      /\ Kind(t) \in Kinds
  BY ThreadFacts, LocalFacts DEF BaseInv, TypeInv
<1>1. pc[t] \in {"Announce", "Load", "Build", "CheckEpoch", "Insert", "AnnounceLoaded", "Charge",
                 "TouchHit", "Join", "TouchJoin", "EraseFlight"} \cup EvictPcs
  <2>1. pc[t] = "Idle" => pc'[t] \in EntryPcs
    BY <1>0, CallFlow
  <2> QED
    BY <1>0, <2>1, FlightFlow, DropFlow, AsyncFlow DEF Labels, EntryPcs, RetPcs, EvictPcs
<1>2. CASE pc[t] \in EvictPcs
  <2>1. \A f \in Fields \ {"victims", "victim"} : loc'[t][f] = loc[t][f]
    BY <1>2, FreshMoves, Zenon
  <2> QED
    BY <1>2, <2>1
<1>3. pc[t] \notin {"TouchHit", "Join", "TouchJoin", "EraseFlight"}
  BY FreshLeaves
<1>4. pc[t] \notin {"Announce", "Build", "AnnounceLoaded"}
  <2>1. pc[t] \in {"Announce", "Build", "AnnounceLoaded"} =>
          \/ \E to : \E S \in {{}, {"val"}} : Moves(t, to, S)
          \/ \E o : Ends(t, o)
    BY <1>0, SectionAt, RegisterMoves, LoadMoves, SettleMoves, Zenon
  <2>2. pc[t] \in {"Announce", "Build", "AnnounceLoaded"} => ~loc[t].nested
    BY <1>0 DEF Shape, NestedPcs
  <2> QED
    BY <2>1, <2>2 DEF Moves, Ends, Fields
<1>5. CASE pc[t] = "Load"
  BY <1>5, FreshMoves
<1>6. CASE pc[t] = "CheckEpoch"
  <2>1. /\ \A f \in Fields \ {"stale", "outcome"} : loc'[t][f] = loc[t][f]
        /\ loc'[t].outcome = "abandoned"
        /\ epoch # loc[t].ep[Kind(t)] \/ loc[t].stale
    BY <1>6, FreshMoves, Zenon
  <2>2. epoch = 0 /\ loc[t].ep[Kind(t)] = 0
    BY <1>0 DEF GenInv, NotCleared, Captured, NeverCleared, ClearPcs
  <2> QED
    BY <1>6, <2>1, <2>2 DEF Fields
<1>7. CASE pc[t] = "Insert"
  BY <1>7, FreshMoves
<1>8. CASE pc[t] = "Charge"
  <2>1. \A f \in Fields \ {"victims", "after"} : loc'[t][f] = loc[t][f]
    BY <1>8, FreshMoves, Zenon
  <2> QED
    BY <1>8, <2>1
<1> QED
  BY <1>1, <1>2, <1>3, <1>4, <1>5, <1>6, <1>7, <1>8

\* A nested archive load erases its in-flight entry right after its fulfilment.
LEMMA FreshErase ==
    ASSUME BaseInv, NEW t \in Threads, Section(t), pc'[t] = "EraseFlight", loc'[t].nested
    PROVE  pc[t] = "Fulfil" /\ loc'[t] = loc[t]
<1>0. TypeInv /\ ThreadTypeOK /\ Shape(pc[t], loc[t])
  BY ThreadFacts DEF BaseInv, TypeInv
<1>1. pc[t] \in {"Fulfil", "CheckFailed", "AnnounceFailed", "EraseState"}
  BY CameFrom
<1>2. pc[t] \in {"CheckFailed", "AnnounceFailed", "EraseState"} =>
        (\E to : Moves(t, to, {})) /\ ~loc[t].nested
  <2>1. pc[t] \in {"CheckFailed", "AnnounceFailed", "EraseState"} => \E to : Moves(t, to, {})
    BY <1>0, SectionAt, SettleMoves, Zenon
  <2> QED
    BY <1>0, <2>1 DEF Shape, NestedPcs
<1>3. pc[t] = "Fulfil"
  BY <1>1, <1>2 DEF Moves, Fields
<1> QED
  BY <1>0, <1>3, SectionAt, FulfilMoves

\* A nested archive load evicts because of the entry it has charged.
LEMMA FreshEvicts ==
    ASSUME BaseInv, NEW t \in Threads, Section(t), pc'[t] \in EvictPcs, loc'[t].nested
    PROVE  /\ pc[t] \in {"Charge"} \cup EvictPcs
           /\ \A f \in Fields \ {"victims", "victim", "after"} : loc'[t][f] = loc[t][f]
<1>0. TypeInv /\ ThreadTypeOK /\ Shape(pc[t], loc[t])
  BY ThreadFacts DEF BaseInv, TypeInv
<1>1. pc[t] \in EvictPcs \cup {"Charge", "SetMaxBytes", "CommitStore"}
  BY CameFrom
<1>2. pc[t] \notin {"SetMaxBytes", "CommitStore"}
  <2>1. pc[t] \in {"SetMaxBytes", "CommitStore"} =>
          (\E to : \E S \in {{}, {"victims", "after"}} : Moves(t, to, S)) /\ ~loc[t].nested
    <3>1. pc[t] \in {"SetMaxBytes", "CommitStore"} =>
            \E to : \E S \in {{}, {"victims", "after"}} : Moves(t, to, S)
      BY <1>0, SectionAt, BudgetMoves, CommitMoves, Zenon DEF Commits, Evicts
    <3>2. pc[t] \in {"SetMaxBytes", "CommitStore"} => ~loc[t].nested
      BY <1>0 DEF Shape, NestedPcs
    <3> QED
      BY <3>1, <3>2
  <2>2. pc'[t] # "Idle"
    BY DEF EvictPcs
  <2> QED
    BY <2>1, <2>2 DEF Moves, Fields
<1>3. pc'[t] # "Idle"
  BY DEF EvictPcs
<1>4. CASE pc[t] = "Charge"
  <2>1. \A f \in Fields \ {"victims", "after"} : loc'[t][f] = loc[t][f]
    BY <1>3, <1>4, FreshMoves, Zenon
  <2> QED
    BY <1>4, <2>1
<1>5. CASE pc[t] \in EvictPcs
  <2>1. \A f \in Fields \ {"victims", "victim"} : loc'[t][f] = loc[t][f]
    BY <1>3, <1>5, FreshMoves, Zenon
  <2> QED
    BY <1>5, <2>1
<1> QED
  BY <1>1, <1>2, <1>4, <1>5

\* The parts of FreshOK that a thread decides alone.
LEMMA FreshRecorded ==
    ASSUME BaseInv, BaseInv', NeverCleared, GenInv, FreshInv, NEW t \in Threads, Section(t)
    PROVE  Ordered(pc'[t], loc'[t]) /\ Recorded(pc'[t], loc'[t])
<1>0. /\ TypeInv /\ CInv /\ ThreadTypeOK /\ Shape(pc[t], loc[t]) /\ Shape(pc'[t], loc'[t])
      /\ loc[t].gen \in [Kinds -> Nat] /\ Name(t) \in Names
      /\ "archive" \in Kinds /\ "design" \in Kinds
  <2>1. TypeInv /\ CInv /\ CInv' /\ ThreadTypeOK /\ "archive" \in Kinds /\ "design" \in Kinds
    BY DEF BaseInv, TypeInv, Kinds
  <2> QED
    BY <2>1, ThreadFacts, LocalFacts DEF CInv, ThreadOK
<1>1. FreshOK(pc[t], loc[t])
  BY DEF FreshInv
<1>2. Ordered(pc'[t], loc'[t])
  <2>1. SUFFICES ASSUME loc'[t].nested, pc'[t] \in {"Register", "Join", "Load", "CheckGen"}
                 PROVE  loc'[t].gen["design"] <= loc'[t].gen["archive"]
    BY DEF Ordered
  <2>2. CASE pc'[t] = "Register"
    <3>1. pc[t] = "CaptureGen"
      BY <2>2, CameFrom
    <3>2. /\ loc'[t].nested = loc[t].nested
          /\ loc'[t].gen = [loc[t].gen EXCEPT ![Kind(t)] = generations[Name(t)]]
      BY <2>2, <3>1, FreshMoves
    <3>3. Kind(t) = "archive"
      BY <1>0, <2>1, <3>2 DEF Shape, Kind
    <3>4. loc[t].gen["design"] <= generations[Name(t)]
      BY <1>0 DEF GenInv, NotCleared, Captured, NeverCleared, ClearPcs, Name
    <3> QED
      BY <1>0, <3>2, <3>3, <3>4
  <2>3. CASE pc'[t] \in {"Join", "Load"}
    <3>1. pc[t] \in {"Register", "Announce"} /\ pc'[t] # "Idle"
      BY <2>3, CameFrom
    <3>2. pc[t] = "Announce" => ~loc'[t].nested
      <4>1. pc[t] = "Announce" => Moves(t, "Load", {}) \/ pc'[t] = "Fulfil"
        BY <1>0, SectionAt, RegisterMoves, Zenon DEF Ends, Moves
      <4>2. pc[t] = "Announce" => ~loc[t].nested
        BY <1>0 DEF Shape, NestedPcs
      <4> QED
        BY <2>3, <4>1, <4>2 DEF Moves, Fields
    <3>3. pc[t] = "Register" /\ loc'[t].nested = loc[t].nested /\ loc'[t].gen = loc[t].gen
      BY <2>1, <2>3, <3>1, <3>2, FreshMoves
    <3> QED
      BY <1>1, <2>1, <3>3 DEF FreshOK, Ordered
  <2>4. CASE pc'[t] = "CheckGen"
    <3>1. pc[t] \in {"Load", "Build"}
      BY <2>4, CameFrom
    <3>2. pc[t] # "Build"
      <4>1. pc[t] = "Build" => Moves(t, "CheckGen", {"val"}) \/ pc'[t] = "Fulfil"
        BY <1>0, SectionAt, LoadMoves, Zenon DEF Ends, Moves
      <4>2. pc[t] = "Build" => ~loc[t].nested
        BY <1>0 DEF Shape, NestedPcs
      <4> QED
        BY <2>1, <2>4, <4>1, <4>2 DEF Moves, Fields
    <3>3. pc[t] = "Load" /\ loc'[t].nested = loc[t].nested /\ loc'[t].gen = loc[t].gen
      BY <2>4, <3>1, <3>2, FreshMoves
    <3> QED
      BY <1>1, <2>1, <3>3 DEF FreshOK, Ordered
  <2> QED
    BY <2>1, <2>2, <2>3, <2>4
<1>3. pc'[t] = "TouchJoin" => loc'[t].wait # NoFlight
  <2>1. SUFFICES ASSUME pc'[t] = "TouchJoin" PROVE loc'[t].wait # NoFlight
    OBVIOUS
  <2>2. pc[t] = "Join"
    BY <2>1, CameFrom
  <2>3. Throws(t) \/ Moves(t, "TouchJoin", {"val"})
    BY <1>0, <2>2, SectionAt, LookupMoves, Zenon
  <2>4. ~Throws(t)
    BY <2>1 DEF Throws, Unnests, Moves
  <2>5. loc'[t].wait = loc[t].wait
    BY <2>3, <2>4 DEF Moves, Fields
  <2> QED
    BY <1>0, <2>2, <2>5 DEF Shape, NoFlight
<1>4. loc'[t].nested /\ pc'[t] \in {"Insert", "Estimate", "Charge"}
        => loc'[t].outcome = "value"
  <2>1. SUFFICES ASSUME loc'[t].nested, pc'[t] \in {"Insert", "Estimate", "Charge"}
                 PROVE  loc'[t].outcome = "value"
    OBVIOUS
  <2>2. pc[t] \in {"CheckEpoch", "Insert", "AdjustLru", "Estimate"}
    BY <2>1, CameFrom
  <2>3. pc[t] # "AdjustLru"
    <3>1. pc[t] = "AdjustLru" => Moves(t, loc[t].after, {"after"}) /\ ~loc[t].nested
      BY <1>0, SectionAt, AdjustMoves DEF Shape, NestedPcs
    <3> QED
      BY <2>1, <3>1 DEF Moves, Fields
  <2>4. CASE pc[t] = "CheckEpoch"
    BY <2>1, <2>4, <1>0, FlightFlow, FreshMoves
  <2>5. CASE pc[t] \in {"Insert", "Estimate"}
    <3>1. pc[t] = "Insert" => pc'[t] = "Estimate"
      BY <1>0, <2>1, FlightFlow
    <3>2. \A f \in Fields \ {"val", "bytes"} : loc'[t][f] = loc[t][f]
      <4>1. CASE pc[t] = "Insert"
        <5>1. \A f \in Fields \ {"val"} : loc'[t][f] = loc[t][f]
          BY <2>1, <3>1, <4>1, FreshMoves, Zenon
        <5> QED
          BY <5>1
      <4>2. CASE pc[t] = "Estimate"
        <5>1. pc'[t] # "Idle"
          BY <2>1
        <5>2. \A f \in Fields \ {"bytes"} : loc'[t][f] = loc[t][f]
          BY <4>2, <5>1, FreshMoves, Zenon
        <5> QED
          BY <5>2
      <4> QED
        BY <2>5, <4>1, <4>2
    <3>3. loc'[t].outcome = loc[t].outcome /\ loc'[t].nested = loc[t].nested
      BY <3>2 DEF Fields
    <3> QED
      BY <1>1, <2>1, <2>5, <3>3 DEF FreshOK, Recorded
  <2> QED
    BY <2>2, <2>3, <2>4, <2>5
<1>5. loc'[t].nested /\ pc'[t] \in {"Fulfil", "EraseFlight"} /\ loc'[t].outcome = "null"
        => loc'[t].val = Nil
  <2>1. SUFFICES ASSUME loc'[t].nested, pc'[t] \in {"Fulfil", "EraseFlight"},
                        loc'[t].outcome = "null"
                 PROVE  loc'[t].val = Nil
    OBVIOUS
  <2>2. CASE pc'[t] = "EraseFlight"
    BY <1>1, <2>1, <2>2, FreshErase DEF FreshOK, Recorded
  <2>3. CASE pc'[t] = "Fulfil"
    <3>1. \/ loc'[t].val = Nil
          \/ /\ pc[t] \in {"Charge"} \cup EvictPcs
             /\ loc'[t].nested = loc[t].nested /\ loc'[t].outcome = loc[t].outcome
      BY <2>1, <2>3, FreshFulfil DEF Fields
    <3> QED
      BY <1>1, <2>1, <3>1 DEF FreshOK, Recorded
  <2> QED
    BY <2>1, <2>2, <2>3
<1>6. loc'[t].nested /\ pc'[t] \in EvictPcs => loc'[t].outcome = "value"
  <2>1. SUFFICES ASSUME loc'[t].nested, pc'[t] \in EvictPcs PROVE loc'[t].outcome = "value"
    OBVIOUS
  <2>2. /\ pc[t] \in {"Charge"} \cup EvictPcs
        /\ \A f \in Fields \ {"victims", "victim", "after"} : loc'[t][f] = loc[t][f]
    BY <2>1, FreshEvicts
  <2> QED
    BY <1>1, <2>1, <2>2 DEF FreshOK, Recorded, Fields
<1> QED
  BY <1>2, <1>3, <1>4, <1>5, <1>6 DEF Recorded

\* A nested archive load that finds it was raced was raced in the design load too.
LEMMA FreshRaced ==
    ASSUME BaseInv, BaseInv', NeverCleared, NeverCleared', GenInv, FreshInv,
           NEW t \in Threads, Section(t), Raced(pc'[t], loc'[t])
    PROVE  loc'[t].gen["design"] < generations'[loc'[t].name]
<1>0. /\ TypeInv /\ CInv /\ ThreadTypeOK /\ StoreTypeOK /\ Shape(pc[t], loc[t])
      /\ loc[t].gen \in [Kinds -> Nat] /\ Name(t) \in Names /\ Name(t) = loc[t].name
      /\ "archive" \in Kinds /\ "design" \in Kinds
  <2>1. TypeInv /\ CInv /\ ThreadTypeOK /\ StoreTypeOK /\ "archive" \in Kinds /\ "design" \in Kinds
    BY DEF BaseInv, TypeInv, DataInv, DataTypeOK, Kinds
  <2> QED
    BY <2>1, ThreadFacts, LocalFacts DEF Name
<1>1. FreshOK(pc[t], loc[t])
  BY DEF FreshInv
<1>2. CASE pc'[t] = "CheckEpoch"
  <2>1. pc[t] = "CheckGen"
    BY <1>2, CameFrom
  <2>2. /\ \A f \in Fields \ {"stale"} : loc'[t][f] = loc[t][f]
        /\ loc'[t].stale = (generations[Name(t)] # loc[t].gen[Kind(t)])
    BY <1>2, <2>1, FreshMoves, Zenon
  <2>3. loc'[t].nested /\ loc'[t].stale
    BY <1>2 DEF Raced
  <2>4. generations[Name(t)] # loc[t].gen[Kind(t)]
    BY <2>2, <2>3
  <2>5. loc[t].nested /\ loc'[t].name = loc[t].name /\ loc'[t].gen = loc[t].gen
    BY <2>2, <2>3 DEF Fields
  <2>6. Kind(t) = "archive"
    BY <1>0, <2>5 DEF Shape, Kind
  <2>7. loc[t].gen["design"] <= loc[t].gen["archive"]
    BY <1>1, <2>1, <2>5 DEF FreshOK, Ordered
  <2>8. loc[t].gen["archive"] <= generations[Name(t)]
    BY <1>0 DEF GenInv, NotCleared, Captured, NeverCleared, ClearPcs
  <2>9. generations[Name(t)] \in Nat /\ loc[t].gen["archive"] \in Nat /\ loc[t].gen["design"] \in Nat
    BY <1>0 DEF StoreTypeOK
  <2>10. loc[t].gen["design"] < generations[loc[t].name]
    BY <1>0, <2>4, <2>6, <2>7, <2>8, <2>9
  <2> QED
    BY <2>5, <2>10, RacedStays
<1>3. CASE pc'[t] = "Fulfil"
  <2>1. loc'[t].nested /\ loc'[t].outcome = "abandoned"
    BY <1>3 DEF Raced
  <2>2. \/ /\ pc[t] = "CheckEpoch" /\ loc[t].nested /\ loc[t].stale
           /\ loc'[t].name = loc[t].name /\ loc'[t].gen = loc[t].gen
        \/ /\ pc[t] \in {"Charge"} \cup EvictPcs
           /\ \A f \in Fields \ {"victims", "victim", "after"} : loc'[t][f] = loc[t][f]
    BY <1>3, <2>1, FreshFulfil
  <2>3. pc[t] \notin {"Charge"} \cup EvictPcs
    BY <1>1, <2>1, <2>2 DEF FreshOK, Recorded, Fields, EvictPcs
  <2>4. Raced(pc[t], loc[t])
    BY <2>2, <2>3 DEF Raced
  <2> QED
    BY <1>1, <2>2, <2>3, <2>4, RacedStays DEF FreshOK
<1>4. CASE pc'[t] = "EraseFlight"
  <2>1. loc'[t].nested /\ loc'[t].outcome = "abandoned"
    BY <1>4 DEF Raced
  <2>2. pc[t] = "Fulfil" /\ loc'[t] = loc[t]
    BY <1>4, <2>1, FreshErase
  <2>3. Raced(pc[t], loc[t])
    BY <2>1, <2>2 DEF Raced
  <2> QED
    BY <1>1, <2>2, <2>3, RacedStays DEF FreshOK
<1> QED
  BY <1>2, <1>3, <1>4 DEF Raced

\* The archive a design load of a spared name is given without joining, up to the insert
\* of the Design.
LEMMA FreshArchive ==
    ASSUME BaseInv, BaseInv', NeverCleared, NeverCleared', GenInv, ValueInv, FreshInv,
           NEW n \in Names, Spared(n), ArchivesOK(n),
           NEW t \in Threads, Section(t), HasArchive(pc'[t], loc'[t]), loc'[t].name = n
    PROVE  ArchiveOK(loc[t])'
<1>0. /\ TypeInv /\ CInv /\ ThreadTypeOK /\ Shape(pc[t], loc[t]) /\ Shape(pc'[t], loc'[t])
      /\ Name(t) \in Names /\ Name(t) = loc[t].name /\ Kind(t) = loc[t].kind
      /\ "archive" \in Kinds /\ "design" \in Kinds /\ loc[t].val \in Object
      /\ cache \in [Kinds -> [Names -> Object]] /\ loc[t].nested \in BOOLEAN
      /\ loc[t].outcome \in Outcome
  <2>1. /\ TypeInv /\ CInv /\ CInv' /\ ThreadTypeOK /\ "archive" \in Kinds /\ "design" \in Kinds
        /\ cache \in [Kinds -> [Names -> Object]]
    BY DEF BaseInv, TypeInv, DataInv, DataTypeOK, Kinds
  <2>2. loc[t].outcome \in Outcome
    BY <2>1 DEF ThreadTypeOK, Local
  <2> QED
    BY <2>1, <2>2, ThreadFacts, LocalFacts DEF Name, Kind, CInv, ThreadOK
<1>1. /\ FreshOK(pc[t], loc[t]) /\ ValueOK(pc[t], loc[t])
      /\ loc[t].name = n /\ HasArchive(pc[t], loc[t]) => ArchiveOK(loc[t])
  BY DEF FreshInv, ValueInv, ArchivesOK
<1>2. ASSUME HasArchive(pc[t], loc[t]),
             \A f \in {"name", "gen", "val"} : loc'[t][f] = loc[t][f]
      PROVE  ArchiveOK(loc[t])'
  <2>1. ArchiveOK(loc[t])
    BY <1>1, <1>2
  <2> QED
    BY <1>2, <2>1, ArchiveStays
<1>3. CASE pc'[t] = "TouchHit"
  <2>1. pc[t] = "Lookup"
    BY <1>3, CameFrom
  <2>2. /\ Moves(t, "TouchHit", {"val"}) /\ cache[Kind(t)][Name(t)] # Nil
        /\ Gets(t, "val", cache[Kind(t)][Name(t)])
    BY <1>0, <1>3, <2>1, SectionAt, LookupMoves DEF Moves
  <2>3. /\ loc'[t].nested = loc[t].nested /\ loc'[t].name = loc[t].name
        /\ loc'[t].val = cache[Kind(t)][Name(t)] /\ loc'[t].gen = loc[t].gen
    BY <2>2 DEF Moves, Gets, Fields
  <2>4. Kind(t) = "archive"
    BY <1>0, <1>3, <2>3 DEF HasArchive, Shape
  <2>5. cache["archive"][Name(t)].ver # 0
    BY <1>0, <2>2, <2>4 DEF ValueInv, SharedValuesOK, Real
  <2>6. cache' = cache
    BY <2>1, Frame DEF MapPcs
  <2> QED
    BY <1>0, <2>3, <2>4, <2>5, <2>6 DEF ArchiveOK
<1>4. CASE pc'[t] = "Estimate"
  <2>1. pc[t] \in {"Insert", "AdjustLru"} /\ loc'[t].nested
    BY <1>4, CameFrom DEF HasArchive
  <2>2. pc[t] = "Insert"
    <3>1. pc[t] = "AdjustLru" => Moves(t, loc[t].after, {"after"}) /\ ~loc[t].nested
      BY <1>0, SectionAt, AdjustMoves DEF Shape, NestedPcs
    <3> QED
      BY <1>4, <2>1, <3>1 DEF Moves, Fields
  <2> DEFINE c == [cache EXCEPT ![Kind(t)][Name(t)] = loc[t].val]
  <2>3. /\ \A f \in Fields \ {"val"} : loc'[t][f] = loc[t][f]
        /\ \/ /\ cache[Kind(t)][Name(t)] # Nil /\ cache' = cache
              /\ loc'[t].val = cache[Kind(t)][Name(t)]
           \/ cache' = c /\ loc'[t].val = loc[t].val
    BY <1>4, <2>2, FreshMoves, Zenon
  <2>4. loc'[t].name = Name(t) /\ loc'[t].nested = loc[t].nested
    BY <1>0, <2>3 DEF Fields
  <2>5. Kind(t) = "archive"
    BY <1>0, <2>1, <2>4 DEF Shape
  <2>6. loc[t].val.ver # 0
    BY <1>1, <2>2 DEF ValueOK, HasValue, ValuePcs
  <2>7. cache["archive"][Name(t)] # Nil => cache["archive"][Name(t)].ver # 0
    BY <1>0 DEF ValueInv, SharedValuesOK, Real
  <2>8. c["archive"][Name(t)] = loc[t].val
    BY <1>0, <2>5
  <2> HIDE DEF c
  <2>9. loc'[t].val.ver # 0 /\ cache'["archive"][Name(t)].ver = loc'[t].val.ver
    BY <2>3, <2>5, <2>6, <2>7, <2>8
  <2> QED
    BY <2>4, <2>9 DEF ArchiveOK
<1>5. CASE pc'[t] = "Charge"
  <2>1. pc[t] = "Estimate"
    BY <1>5, CameFrom
  <2>2. \A f \in Fields \ {"bytes"} : loc'[t][f] = loc[t][f]
    BY <1>5, <2>1, FreshMoves, Zenon
  <2>3. HasArchive(pc[t], loc[t])
    BY <1>5, <2>1, <2>2 DEF HasArchive, Fields
  <2> QED
    BY <1>2, <2>2, <2>3 DEF Fields
<1>6. CASE pc'[t] = "Fulfil"
  <2>1. loc'[t].nested /\ loc'[t].outcome = "value"
    BY <1>6 DEF HasArchive, EvictPcs
  <2>2. /\ pc[t] \in {"Charge"} \cup EvictPcs
        /\ \A f \in Fields \ {"victims", "victim", "after"} : loc'[t][f] = loc[t][f]
    BY <1>0, <1>1, <1>6, <2>1, FreshFulfil
  <2>3. HasArchive(pc[t], loc[t])
    BY <1>6, <2>1, <2>2 DEF HasArchive, Fields
  <2> QED
    BY <1>2, <2>2, <2>3 DEF Fields
<1>7. CASE pc'[t] = "EraseFlight"
  <2>1. loc'[t].nested
    BY <1>7 DEF HasArchive
  <2>2. pc[t] = "Fulfil" /\ loc'[t] = loc[t]
    BY <1>7, <2>1, FreshErase
  <2>3. HasArchive(pc[t], loc[t])
    BY <1>7, <2>2 DEF HasArchive, EvictPcs
  <2> QED
    BY <1>2, <2>2, <2>3
<1>8. CASE pc'[t] = "Build"
  <2>1. pc[t] \in {"TouchHit", "Join", "TouchJoin", "EraseFlight"}
    BY <1>8, CameFrom
  <2>2. /\ loc[t].nested /\ pc[t] # "Join" /\ loc[t].val # Nil
        /\ loc'[t].name = loc[t].name /\ loc'[t].gen = loc[t].gen /\ loc'[t].wait = loc[t].wait
        /\ loc'[t].val = loc[t].val
        /\ pc[t] = "EraseFlight" => loc[t].outcome \notin {"threw", "guard"}
    BY <1>8, <2>1, FreshLeaves
  <2>3. loc[t].wait = NoFlight
    BY <2>2 DEF HasArchive
  <2>4. pc[t] # "TouchJoin"
    BY <1>1, <2>3 DEF FreshOK, Recorded
  <2>5. CASE HasArchive(pc[t], loc[t])
    BY <1>2, <2>2, <2>5
  <2>6. CASE ~HasArchive(pc[t], loc[t])
    <3>1. pc[t] = "EraseFlight" /\ loc[t].outcome \in {"null", "abandoned"}
      BY <1>0, <2>1, <2>2, <2>3, <2>4, <2>6 DEF HasArchive, Outcome
    <3>2. loc[t].outcome # "null"
      BY <1>1, <2>2, <3>1 DEF FreshOK, Recorded
    <3>3. loc[t].gen["design"] < generations[loc[t].name]
      BY <1>1, <2>2, <3>1, <3>2 DEF FreshOK, Raced
    <3>4. loc'[t].gen["design"] < generations'[loc'[t].name]
      BY <2>2, <3>3, RacedStays
    <3>5. loc'[t].val.ver # 0
      BY <1>1, <2>2 DEF ValueOK, Real
    <3>6. loc'[t].gen["design"] # generations'[loc'[t].name]
      <4>1. loc'[t].gen["design"] \in Nat
        BY <1>0, <2>2, LocalFacts
      <4>2. StoreTypeOK' /\ loc'[t].name \in Names
        BY <1>0, <2>2 DEF BaseInv, TypeInv, DataInv, DataTypeOK
      <4>3. generations'[loc'[t].name] \in Nat
        BY <4>2 DEF StoreTypeOK
      <4> QED
        BY <3>4, <4>1, <4>3
    <3> QED
      BY <3>5, <3>6 DEF ArchiveOK
  <2> QED
    BY <2>5, <2>6
<1>9. CASE pc'[t] = "CheckGen"
  <2>1. pc[t] \in {"Load", "Build"} /\ ~loc'[t].nested /\ loc'[t].kind = "design"
    BY <1>9, CameFrom DEF HasArchive, EvictPcs
  <2>2. pc[t] = "Build"
    BY <1>9, <2>1, FreshMoves
  <2>3. \/ \E o : Ends(t, o)
        \/ Moves(t, "CheckGen", {"val"}) /\ GetsAt(t, "val", "id", FreshId)
    BY <1>0, <2>2, SectionAt, LoadMoves, Zenon
  <2>4. Moves(t, "CheckGen", {"val"}) /\ GetsAt(t, "val", "id", FreshId)
    BY <1>9, <2>3 DEF Ends, Moves
  <2>5. /\ loc'[t].name = loc[t].name /\ loc'[t].gen = loc[t].gen /\ loc'[t].wait = loc[t].wait
        /\ loc'[t].kind = loc[t].kind /\ loc'[t].nested = loc[t].nested
        /\ loc'[t].val = [loc[t].val EXCEPT !["id"] = FreshId]
    BY <1>9, <2>4 DEF Moves, GetsAt, Fields
  <2>6. loc'[t].val.ver = loc[t].val.ver
    BY <1>0, <2>5 DEF Object
  <2>7. HasArchive(pc[t], loc[t])
    BY <1>9, <2>1, <2>2, <2>5 DEF HasArchive
  <2>8. ArchiveOK(loc[t])
    BY <1>1, <2>5, <2>7
  <2> QED
    BY <2>5, <2>6, <2>8, ArchiveStays
<1>10. CASE pc'[t] \in {"CheckEpoch", "Insert"}
  <2>1. /\ pc'[t] = "CheckEpoch" => pc[t] = "CheckGen"
        /\ pc'[t] = "Insert" => pc[t] = "CheckEpoch"
    BY CameFrom
  <2>2. \A f \in Fields \ {"stale", "outcome"} : loc'[t][f] = loc[t][f]
    <3>1. CASE pc'[t] = "CheckEpoch"
      <4>1. \A f \in Fields \ {"stale"} : loc'[t][f] = loc[t][f]
        BY <2>1, <3>1, FreshMoves, Zenon
      <4> QED
        BY <4>1
    <3>2. CASE pc'[t] = "Insert"
      BY <2>1, <3>2, FreshMoves, Zenon
    <3> QED
      BY <1>10, <3>1, <3>2
  <2>3. HasArchive(pc[t], loc[t])
    BY <1>10, <2>1, <2>2 DEF HasArchive, Fields, EvictPcs
  <2> QED
    BY <1>2, <2>2, <2>3 DEF Fields
<1>11. CASE pc'[t] \in EvictPcs
  <2>1. loc'[t].nested
    BY <1>11 DEF HasArchive, EvictPcs
  <2>2. /\ pc[t] \in {"Charge"} \cup EvictPcs
        /\ \A f \in Fields \ {"victims", "victim", "after"} : loc'[t][f] = loc[t][f]
    BY <1>11, <2>1, FreshEvicts
  <2>3. HasArchive(pc[t], loc[t])
    BY <1>11, <2>1, <2>2 DEF HasArchive, Fields, EvictPcs
  <2> QED
    BY <1>2, <2>2, <2>3 DEF Fields
<1> QED
  BY <1>3, <1>4, <1>5, <1>6, <1>7, <1>8, <1>9, <1>10, <1>11 DEF HasArchive

LEMMA FreshStep ==
    ASSUME BaseInv, BaseInv', NeverCleared, NeverCleared', GenInv, FreshInv, [Next]_vars
    PROVE  FreshInv'
<1>1. CASE UNCHANGED vars
  BY <1>1 DEF vars, threadVars, storeVars, FreshInv, FreshOK, Ordered, Recorded, Raced
<1>2. SUFFICES ASSUME NEW t \in Threads, Section(t) PROVE FreshInv'
  BY <1>1, StepCases DEF BaseInv
<1>3. FreshOK(pc[t], loc[t])'
  <2>1. Ordered(pc'[t], loc'[t]) /\ Recorded(pc'[t], loc'[t])
    BY <1>2, FreshRecorded
  <2>2. Raced(pc'[t], loc'[t]) => loc'[t].gen["design"] < generations'[loc'[t].name]
    BY <1>2, FreshRaced
  <2> QED
    BY <2>1, <2>2 DEF FreshOK, Ordered, Recorded, Raced
<1>4. ASSUME NEW u \in Threads PROVE FreshOK(pc[u], loc[u])'
  BY <1>2, <1>3, FreshOthers
<1> QED
  BY <1>4 DEF FreshInv

LEMMA ArchivesStep ==
    ASSUME BaseInv, BaseInv', NeverCleared, NeverCleared', GenInv, ValueInv, FreshInv,
           NEW n \in Names, Spared(n), ArchivesOK(n), [Next]_vars
    PROVE  ArchivesOK(n)'
<1>0. TypeInv
  BY DEF BaseInv
<1>1. CASE UNCHANGED vars
  BY <1>1 DEF vars, threadVars, storeVars, cacheVars, ArchivesOK, HasArchive, ArchiveOK,
              Invalidating
<1>2. SUFFICES ASSUME NEW t \in Threads, Section(t), NEW u \in Threads, loc'[u].name = n,
                      HasArchive(pc'[u], loc'[u])
               PROVE  ArchiveOK(loc[u])'
  BY <1>1, StepCases DEF BaseInv, ArchivesOK, HasArchive
<1>3. CASE u = t
  BY <1>2, <1>3, FreshArchive
<1>4. CASE u # t
  <2>1. pc'[u] \notin {"Idle", "Join", "AcquireSlot"}
    BY <1>2 DEF HasArchive, EvictPcs
  <2>2. pc[u] \notin {"Idle", "Join"}
    BY <1>0, <1>2, <1>4, <2>1, OtherThread DEF Undisturbed
  <2>3. pc'[u] = pc[u] /\ loc'[u] = loc[u]
    BY <1>0, <1>2, <1>4, <2>2, OtherSame
  <2>4. ArchiveOK(loc[u])
    BY <1>2, <2>3 DEF ArchivesOK
  <2> QED
    BY <1>2, <2>3, <2>4, ArchiveStays
<1> QED
  BY <1>3, <1>4

InsertInv(S) ==
    BaseInv /\ NeverCleared /\ GenInv /\ ValueInv /\ FreshInv /\ \A n \in S : ArchivesOK(n)

LEMMA InsertInitial ==
    ASSUME NEW S \in SUBSET Names, Init PROVE InsertInv(S)
<1>1. FreshInv /\ \A n \in S : ArchivesOK(n)
  BY DEF Init, FreshInv, FreshOK, Ordered, Recorded, Raced, ArchivesOK, HasArchive, EvictPcs
<1> QED
  BY <1>1, BaseInitial, NeverClearedInitial, GenInitial, ValueInitial DEF InsertInv

LEMMA InsertInvStep ==
    ASSUME NoClear, NEW S \in SUBSET Names, InsertInv(S), SparedIn(S), [Next]_vars
    PROVE  InsertInv(S)'
<1>1. BaseInv' /\ NeverCleared' /\ GenInv' /\ ValueInv'
  BY BaseStep, NeverClearedStep, GenStep, ValueStep DEF InsertInv
<1>2. FreshInv'
  BY <1>1, FreshStep DEF InsertInv
<1>3. ASSUME NEW n \in S PROVE ArchivesOK(n)'
  BY <1>1, ArchivesStep DEF InsertInv, SparedIn
<1> QED
  BY <1>1, <1>2, <1>3 DEF InsertInv

LEMMA InsertsFresh ==
    ASSUME NEW S, InsertInv(S), NEW t \in Threads, Name(t) \in S PROVE InsertIsFresh(t)
<1>1. SUFFICES ASSUME pc[t] = "Insert", Kind(t) = "design", loc[t].wait = NoFlight,
                      CurrentGeneration(Name(t)) = loc[t].gen["design"],
                      \A u \in Threads : pc[u] = "InvStore" => Name(u) # Name(t)
               PROVE  loc[t].val.ver = cache["archive"][Name(t)].ver
  BY DEF InsertIsFresh
<1>2. ~loc[t].nested
  BY <1>1, ThreadFacts DEF InsertInv, BaseInv, Shape, Kind
<1>3. ArchiveOK(loc[t])
  BY <1>1, <1>2 DEF InsertInv, ArchivesOK, HasArchive, Kind, Name
<1> QED
  BY <1>1, <1>3 DEF ArchiveOK, Invalidating, CurrentGeneration, Name

\* Without Clear() and under any budget: the generation the abandon checkpoint compares
\* is enough for the names S as long as they are not evicted, whatever else is.  While it
\* is the one a loader captured, and no invalidation is between the maps and the store,
\* the Design the loader is about to cache was built from the contents of the archive in
\* the cache, for any number of threads and names.
THEOREM SparedInsertsAreFresh ==
    ASSUME NoClear, NEW S \in SUBSET Names
    PROVE  Spec /\ []SparedIn(S) => [](\A t \in Threads : Name(t) \in S => InsertIsFresh(t))
<1>1. Init => InsertInv(S)
  BY InsertInitial
<1>2. InsertInv(S) /\ SparedIn(S) /\ [Next]_vars => InsertInv(S)'
  BY InsertInvStep
<1>3. InsertInv(S) => \A t \in Threads : Name(t) \in S => InsertIsFresh(t)
  BY InsertsFresh
<1> QED
  BY <1>1, <1>2, <1>3, PTL DEF Spec

\* The case of all names: without Clear(), in a run that evicts nothing, whatever the
\* budget is, the checkpoint can rely on the generation.
THEOREM DesignsInsertedAreFresh ==
    ASSUME NoClear PROVE Spec /\ []SparedIn(Names) => []InsertsAreFresh
<1>1. Init => InsertInv(Names)
  BY InsertInitial
<1>2. InsertInv(Names) /\ SparedIn(Names) /\ [Next]_vars => InsertInv(Names)'
  BY InsertInvStep
<1>3. InsertInv(Names) => InsertsAreFresh
  BY InsertsFresh, LocalFacts DEF InsertInv, BaseInv, TypeInv, InsertsAreFresh
<1> QED
  BY <1>1, <1>2, <1>3, PTL DEF Spec
=============================================================================
