----------------------------- MODULE GrpcService -----------------------------
(***************************************************************************)
(* OdbDesignServiceImpl: the handlers of the gRPC service.  A call runs on   *)
(* its own thread and shares only the design cache with the others, so one   *)
(* call at a time is enough.  The streaming handlers advance one record per  *)
(* step while the client may cancel or disconnect between any two steps.     *)
(***************************************************************************)
EXTENDS Integers, Sequences, FiniteSets, SequencesExt, FiniteSetsExt

CONSTANTS MaxRecords,  \* bound: feature records in a layer
          BatchSize,   \* config.batch_size
          MaxSymbols,  \* bound: symbols declared in a features file
          MaxIndex     \* bound: symbol indices and references

(* GrpcServiceConfig clamps batch_size to 100..1000. *)
ASSUME BatchSizePositive == BatchSize \in Nat \ {0}

ASSUME MaxIndexAssumption == MaxIndex \in Nat

VARIABLE call  \* the call being served, and what its client has received

OK == "OK"
NoCall == [rpc |-> "none"]

(* A layer's feature records; a null pointer in the vector is FALSE. *)
Records == UNION {[1..n -> BOOLEAN] : n \in 0..MaxRecords}
-----------------------------------------------------------------------------
(* Lookups shared by the layer handlers.  "corrupt" is an archive whose load *)
(* throws; the handler's catch answers INTERNAL.                             *)
Names == {"known", "unknown"}
FindLayer(design, step, layer) ==
    CASE design = "corrupt" -> "INTERNAL"
      [] design = "unknown" -> "NOT_FOUND"
      [] step = "unknown" -> "NOT_FOUND"
      [] layer = "unknown" -> "NOT_FOUND"
      [] OTHER -> OK

(* GetStandardFonts(), RequestLoadDesign() and HealthCheck() answer in one   *)
(* step; a load status is data of an OK answer.                              *)
GetStandardFonts(design) == FindLayer(design, "known", "known")
HealthCheck(service) == IF service \in {"", "OdbDesignService"}
                        THEN "SERVING" ELSE "NOT_SERVING"

(* GetDesign(): stored bytes serve the default flavour if they parse; bytes  *)
(* that do not parse fall through to the design itself, with the message     *)
(* cleared of what the parse had merged into it.                             *)
GetDesign(design, stored, lists) ==
    IF ~lists /\ stored = "good" THEN [status |-> OK, body |-> "bytes"]
    ELSE IF FindLayer(design, "known", "known") # OK
         THEN [status |-> FindLayer(design, "known", "known"), body |-> "none"]
    ELSE [status |-> OK, body |-> IF lists THEN "full" ELSE "pruned"]

UnaryCall == \E d \in Names \cup {"corrupt"}, s \in {"none", "good", "bad"},
                l \in BOOLEAN, h \in {"", "OdbDesignService", "Other"} :
    call' = [rpc |-> "unary", design |-> GetDesign(d, s, l),
             fonts |-> GetStandardFonts(d), health |-> HealthCheck(h)]
-----------------------------------------------------------------------------
(* The streams *)

(* GetLayerFeaturesStream() and GetLayerFeaturesBatchStream() up to the loop.*)
StreamStart ==
    \E batching \in BOOLEAN, enabled \in BOOLEAN, records \in Records,
       d \in Names \cup {"corrupt"}, l \in Names :
        call' = [rpc |-> "stream", batching |-> batching, records |-> records,
                 next |-> 1, batch |-> <<>>, wire |-> <<>>,
                 cancelled |-> FALSE, connected |-> TRUE,
                 status |-> IF batching /\ ~enabled THEN "UNIMPLEMENTED"
                            ELSE IF FindLayer(d, "known", l) # OK
                                 THEN FindLayer(d, "known", l)
                            ELSE "running"]

Running == call.rpc = "stream" /\ call.status = "running"
MoreRecords == call.next <= Len(call.records)

(* writer->Write(): FALSE once the client is gone (external). *)
WriteAndGo(message, next, batch, last) ==
    IF call.connected
    THEN call' = [call EXCEPT !.wire = Append(@, message), !.next = next,
                              !.batch = batch,
                              !.status = IF last THEN OK ELSE @]
    ELSE call' = [call EXCEPT !.status = OK]

(* One record of the plain stream; it does not look at cancellation. *)
StreamRecord ==
    /\ Running /\ ~call.batching /\ MoreRecords
    /\ IF call.records[call.next]
       THEN WriteAndGo(<<call.next>>, call.next + 1, <<>>, FALSE)
       ELSE call' = [call EXCEPT !.next = @ + 1]

StreamDone == /\ Running /\ ~call.batching /\ ~MoreRecords
              /\ call' = [call EXCEPT !.status = OK]

(* One record of the batch stream: cancellation ends it, a null record is    *)
(* skipped, and a full batch is written and emptied.                         *)
BatchRecordKeepsBatch ==
    /\ Running /\ call.batching /\ MoreRecords
    /\ IF call.cancelled THEN call' = [call EXCEPT !.status = "CANCELLED"]
       ELSE IF ~call.records[call.next] THEN call' = [call EXCEPT !.next = @ + 1]
       ELSE LET batch == Append(call.batch, call.next)
            IN IF Len(batch) >= BatchSize
               THEN WriteAndGo(batch, call.next + 1, batch, FALSE)
               ELSE call' = [call EXCEPT !.batch = batch, !.next = @ + 1]

BatchRecord ==
    /\ Running /\ call.batching /\ MoreRecords
    /\ IF call.cancelled THEN call' = [call EXCEPT !.status = "CANCELLED"]
       ELSE IF ~call.records[call.next] THEN call' = [call EXCEPT !.next = @ + 1]
       ELSE LET batch == Append(call.batch, call.next)
            IN IF Len(batch) >= BatchSize
               THEN WriteAndGo(batch, call.next + 1, <<>>, FALSE)
               ELSE call' = [call EXCEPT !.batch = batch, !.next = @ + 1]

(* The final, partial batch. *)
BatchDone ==
    /\ Running /\ call.batching /\ ~MoreRecords
    /\ IF call.batch = <<>> THEN call' = [call EXCEPT !.status = OK]
       ELSE IF call.cancelled THEN call' = [call EXCEPT !.status = "CANCELLED"]
       ELSE WriteAndGo(call.batch, call.next, <<>>, TRUE)

ClientCancels == Running /\ ~call.cancelled
                 /\ call' = [call EXCEPT !.cancelled = TRUE]
ClientLeaves == Running /\ call.connected
                /\ call' = [call EXCEPT !.connected = FALSE]
-----------------------------------------------------------------------------
(* GetLayerSymbols() *)

UnitType == {"Metric", "Imperial", "None"}
RawUnits == {"", "inch", "mm", "furlong"}

(* A file without units is served as millimetres. *)
NormalizeUnits(raw) == CASE raw = "" -> "mm" [] raw = "furlong" -> "error"
                         [] OTHER -> raw
ExpectedUnitType(units) ==
    CASE units \in {"mm", "micron"} -> "Metric"
      [] units \in {"inch", "mil"} -> "Imperial"
      [] OTHER -> "None"

Symbol == [idx : -1..MaxIndex, unit : UnitType]
Symbols == UNION {[1..n -> Symbol] : n \in 0..MaxSymbols}

(* Symbols of both systems, or of the one the layer does not use. *)
UnitMismatch(symbols, expected) ==
    LET used == {symbols[i].unit : i \in DOMAIN symbols} \ {"None"}
    IN used \notin {{}, {expected}}

(* Positions 0..size-1 of the answer; 0 marks a placeholder. *)
IndexedAt(symbols, p) == {i \in DOMAIN symbols : symbols[i].idx = p}
FirstIndexed(symbols, size) ==
    [p \in 0..size - 1 |-> IF IndexedAt(symbols, p) = {} THEN 0
                           ELSE Min(IndexedAt(symbols, p))]
LastIndexed(symbols, size) ==
    [p \in 0..size - 1 |-> IF IndexedAt(symbols, p) = {} THEN 0
                           ELSE Max(IndexedAt(symbols, p))]
PlaceIndexed(symbols, size) == FirstIndexed(symbols, size)

(* The position of x in the ascending order of S, counted from 0. *)
Rank(S, x) == Cardinality({y \in S : y < x})

(* Symbols without an index fill the gaps in input order and then extend the *)
(* answer: the k-th of them goes to the k-th free position.                  *)
OrderSymbols(symbols, maxRef) ==
    LET top == Max({maxRef} \cup {symbols[i].idx : i \in DOMAIN symbols})
        placed == PlaceIndexed(symbols, top + 1)
        gaps == {p \in 0..top : placed[p] = 0}
        loose == {i \in DOMAIN symbols : symbols[i].idx < 0}
        extra == Max({0, Cardinality(loose) - Cardinality(gaps)})
        free == gaps \cup (top + 1..top + extra)
        filling(p) == {i \in loose : Rank(loose, i) = Rank(free, p)}
    IN [p \in 0..top + extra |->
           IF p \notin free THEN placed[p]
           ELSE IF filling(p) = {} THEN 0 ELSE Min(filling(p))]

(* Pads must carry the symbol number of their aperture; the highest number a *)
(* record references sizes the answer.                                       *)
GetLayerSymbols ==
    \E symbols \in Symbols, raw \in RawUnits, maxRef \in -1..MaxIndex,
       padsAgree \in BOOLEAN :
        LET expected == ExpectedUnitType(NormalizeUnits(raw))
        IN call' = [rpc |-> "symbols", symbols |-> symbols, maxRef |-> maxRef,
                    expected |-> expected,
                    status |-> IF \/ NormalizeUnits(raw) = "error"
                                  \/ UnitMismatch(symbols, expected)
                                  \/ ~padsAgree
                               THEN "FAILED_PRECONDITION" ELSE OK,
                    table |-> OrderSymbols(symbols, maxRef)]
-----------------------------------------------------------------------------
CallEnds == /\ call.rpc # "none" /\ ~Running
            /\ call' = NoCall

GrpcCallNext == \/ call.rpc = "none" /\ (UnaryCall \/ StreamStart \/ GetLayerSymbols)
                \/ StreamRecord \/ StreamDone \/ BatchRecord \/ BatchDone
                \/ ClientCancels \/ ClientLeaves \/ CallEnds
-----------------------------------------------------------------------------
(* Properties *)

(* What a stream has written, the records it has to write, and their order. *)
Sent(wire) == UNION {Range(wire[i]) : i \in DOMAIN wire}
Present(records, n) == {k \in 1..n : records[k]}
Increasing(s) == \A i, j \in DOMAIN s : i < j => s[i] < s[j]

InOrder(wire) ==
    /\ \A i \in DOMAIN wire : Increasing(wire[i])
    /\ \A i, j \in DOMAIN wire :
          i < j => \A a \in Range(wire[i]), b \in Range(wire[j]) : a < b

(* What reaches the client is the layer's records in order, each once, with  *)
(* nothing skipped in between; a stream that ends OK with its client still   *)
(* there has sent them all, whatever the batch boundaries and null records   *)
(* (GetLayerFeaturesStream, GetLayerFeaturesBatchStream).                    *)
StreamExact ==
    call.rpc = "stream" =>
        /\ InOrder(call.wire)
        /\ \E n \in 0..Len(call.records) : Sent(call.wire) = Present(call.records, n)
        /\ call.status = OK /\ call.connected
              => Sent(call.wire) = Present(call.records, Len(call.records))
        /\ \A i \in DOMAIN call.wire :
              /\ call.wire[i] # <<>>
              /\ call.batching /\ i < Len(call.wire) => Len(call.wire[i]) = BatchSize

(* A feature's sym_num selects its symbol: a declared index keeps its        *)
(* position (the first declaration on a duplicate), every referenced number  *)
(* has a row, a symbol without index appears once, in input order, and no    *)
(* symbol of the other unit system gets through (GetLayerSymbols).           *)
SymbolsAligned ==
    (call.rpc = "symbols" /\ call.status = OK) =>
        LET sy == call.symbols
            rows == DOMAIN call.table
            loose == {i \in DOMAIN sy : sy[i].idx < 0}
            row(i) == {p \in rows : call.table[p] = i}
        IN /\ 0..call.maxRef \subseteq rows
           /\ \A i \in DOMAIN sy :
                 (i \notin loose /\ \A j \in 1..i - 1 : sy[j].idx # sy[i].idx)
                     => row(i) = {sy[i].idx}
           /\ \A i \in loose : Cardinality(row(i)) = 1
           /\ \A i, j \in loose : i < j => Min(row(i)) < Min(row(j))
           /\ \A i \in DOMAIN sy : sy[i].unit \in {"None", call.expected}
=============================================================================
