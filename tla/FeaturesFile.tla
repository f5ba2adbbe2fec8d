---------------------------- MODULE FeaturesFile ----------------------------
(***************************************************************************)
(* FeaturesFile: the features of a layer, of a symbol or of a profile, with  *)
(* the symbols they refer to and the units of those; its parser and its      *)
(* protobuf conversion.                                                      *)
(***************************************************************************)
EXTENDS RecordTree

FeatureSlots == {"surface", "polygon"}

(* Three alphabets: the features that are one line; surfaces, from S to SE,  *)
(* where L stands for those; symbol lines, which have no unit type of their  *)
(* own, or M, or I.                                                          *)
FeatureLineKinds == {"L", "P", "T", "A", "B"}
FeatureShapeKinds == {"HEAD", "L", "S", "SE", "OB", "OE", "OS", "BAD"}
UnitsKinds == {"U mm", "U inch", "U other"}
SymbolKinds == {"$", "$ M", "$ I"}
FeatureSymbolKinds == UnitsKinds \union SymbolKinds \union {"L"}

(* units: the last units line; unitOf: the unit type of the symbol of a line. *)
FeaturesOpen(maxLines) ==
    [tree |-> Reading(FeatureSlots), units |-> "none",
     unitOf |-> [n \in 1..maxLines |-> "None"]]
-----------------------------------------------------------------------------
(* inferred_unit_type_from_features_units                                    *)
InferredUnit(units) == CASE units = "U mm" -> "Metric"
                         [] units = "U inch" -> "Imperial"
                         [] OTHER -> "None"

(* The suffix of the symbol's own line.                                      *)
SymbolUnit(kind) == CASE kind = "$ M" -> "Metric"
                      [] kind = "$ I" -> "Imperial"
                      [] OTHER -> "None"

ApplyDefaultUnitTypeIfNone(own, default) == IF own = "None" THEN default ELSE own

(* The m_symbolNames vector: the lines of the symbols read so far.           *)
SymbolLines(f) == {f.tree.kept[i][2] : i \in {j \in DOMAIN f.tree.kept :
                                              f.tree.kept[j][3] \in SymbolKinds}}

(* apply_default_units_to_symbols: the symbols that have no unit type yet    *)
(* get it.                                                                   *)
ApplyDefaultUnits(f, unit) ==
    [f EXCEPT !.unitOf = [n \in DOMAIN @ |->
                             IF n \in SymbolLines(f)
                             THEN ApplyDefaultUnitTypeIfNone(@[n], unit)
                             ELSE @[n]]]

(* UNITS= or U                                                               *)
UnitsLineOnlyAhead(f, kind) == [f EXCEPT !.units = kind]
UnitsLine(f, kind) ==
    ApplyDefaultUnits([f EXCEPT !.units = kind], InferredUnit(kind))

SymbolLine(f, kind, n) ==
    [f EXCEPT !.tree = Push(@, 0, n, kind),
              !.unitOf[n] = ApplyDefaultUnitTypeIfNone(SymbolUnit(kind),
                                                       InferredUnit(f.units))]
-----------------------------------------------------------------------------
(* Features that are one line go to m_featureRecords at once.                *)
LineFeature(p, n) == Push(p, 0, n, "L")
PadFeature(p, n) == Push(p, 0, n, "L")
TextFeature(p, n) == Push(p, 0, n, "L")
ArcFeature(p, n) == Push(p, 0, n, "L")
BarcodeFeature(p, n) == Push(p, 0, n, "L")

(* ID, F, attribute names and texts, comments                                *)
FeatureHeadLine(p, n) == p

(* S replaces a surface that was not ended; SE wants one.                    *)
SurfaceStart(p, n) == Hold(p, "surface", n)
SurfaceEnd(p, n) == IF Holds(p, "surface") THEN Flush(p, "surface", 0, "S") ELSE Fail(p)

SurfacePolygonBegin(p, n) == Hold(p, "polygon", n)
SurfacePolygonEnd(p, n) ==
    IF Holds(p, "surface")
    THEN Drop(Push(p, p.cur["surface"], p.cur["polygon"], "OB"), "polygon")
    ELSE Fail(p)
SurfacePolygonPart(p, n) ==
    IF Holds(p, "polygon") THEN Push(p, p.cur["polygon"], n, "OS") ELSE Fail(p)

FeatureTreeLine(p, kind, n) ==
    CASE kind = "HEAD" -> FeatureHeadLine(p, n)
      [] kind = "L" -> LineFeature(p, n)
      [] kind = "P" -> PadFeature(p, n)
      [] kind = "T" -> TextFeature(p, n)
      [] kind = "A" -> ArcFeature(p, n)
      [] kind = "B" -> BarcodeFeature(p, n)
      [] kind = "S" -> SurfaceStart(p, n)
      [] kind = "SE" -> SurfaceEnd(p, n)
      [] kind = "OB" -> SurfacePolygonBegin(p, n)
      [] kind = "OE" -> SurfacePolygonEnd(p, n)
      [] kind = "OS" -> SurfacePolygonPart(p, n)
      [] kind = "BAD" -> Fail(p)

FeaturesLine(f, kind, n) ==
    CASE kind \in UnitsKinds -> UnitsLine(f, kind)
      [] kind \in SymbolKinds -> SymbolLine(f, kind, n)
      [] OTHER -> [f EXCEPT !.tree = FeatureTreeLine(@, kind, n)]

FeaturesEnd(f) == [f EXCEPT !.tree = Accept(Flush(@, "surface", 0, "S"))]
-----------------------------------------------------------------------------
(* m_symbolNames is written in order, with names and unit types.             *)
FeaturesFileMessage == {"L", "S"} \union SymbolKinds
FeatureMessage == {"OB"}
SurfacePolygonMessage == {"OS"}
FeaturesMessages == [FILE |-> FeaturesFileMessage, S |-> FeatureMessage,
                     OB |-> SurfacePolygonMessage]
-----------------------------------------------------------------------------
FeaturesOwners ==
    [k \in FeatureLineKinds \union SymbolKinds \union {"S", "OB", "OS"} |->
        CASE k = "OB" -> {"S"} [] k = "OS" -> {"OB"} [] OTHER -> {}]

(* Surfaces and polygons bracketed and closed; nothing else inside one.      *)
FeaturesOrderly(lines) ==
    LET next(n) == IF n = Len(lines) THEN "EOF" ELSE lines[n + 1]
        inside == {"OB", "OS", "OE", "SE"}
    IN  /\ \A n \in DOMAIN lines :
              /\ lines[n] # "BAD"
              /\ lines[n] \in {"S", "OE"} => next(n) \in {"OB", "SE"}
              /\ lines[n] \in {"OB", "OS"} => next(n) \in {"OS", "OE"}
              /\ lines[n] \notin {"S", "OE", "OB", "OS"} => next(n) \notin inside
        /\ Len(lines) > 0 => lines[1] \notin inside
=============================================================================
