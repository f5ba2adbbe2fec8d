------------------------------ MODULE FileModel ------------------------------
(***************************************************************************)
(* From the text of a design's files to the product model: the line parsers  *)
(* and their protobuf conversion, the parsing of a whole archive, the build  *)
(* of the product model, and the repair of the strings on the way to a       *)
(* message.  Each is a computation of its own on one thread, so a behaviour  *)
(* follows one of them.  A file is read line by line, each line any of its   *)
(* kind's, so that the behaviours are all the files up to MaxLines lines.    *)
(***************************************************************************)
EXTENDS EdaDataFile, ComponentsFile, FeaturesFile, NetlistFile, MatrixFile,
        FileArchive, ProductModel, Utf8Sanitizer

CONSTANT MaxLines   \* bound: lines of a file
ASSUME MaxLinesAssumption == MaxLines \in Nat

VARIABLES part,     \* what the behaviour follows
          lines,    \* the lines read
          parse     \* the parser: its records, and the units of a features file

fileVars == <<part, lines, parse, job, design, text>>

Formats == {"eda nets", "eda shapes", "components", "other layer", "features",
            "feature lines", "symbols", "netlist", "matrix"}

LineKinds == [f \in Formats |-> CASE f = "eda nets" -> EdaNetKinds
                                  [] f = "eda shapes" -> EdaShapeKinds
                                  [] f \in {"components", "other layer"} -> ComponentKinds
                                  [] f = "features" -> FeatureShapeKinds
                                  [] f = "feature lines" -> FeatureLineKinds
                                  [] f = "symbols" -> FeatureSymbolKinds
                                  [] f = "netlist" -> NetlistKinds
                                  [] f = "matrix" -> MatrixKinds]

Opened(f) == CASE f \in {"eda nets", "eda shapes"} -> EdaOpen
               [] f = "components" -> ComponentsOpen(TRUE)
               [] f = "other layer" -> ComponentsOpen(FALSE)
               [] f = "netlist" -> NetlistOpen
               [] f = "matrix" -> MatrixOpen
               [] OTHER -> Reading(FeatureSlots)

Init == /\ part \in Formats \union {"archive", "design", "text"}
        /\ lines = <<>>
        /\ parse = [FeaturesOpen(MaxLines) EXCEPT
                       !.tree = Opened(IF part \in Formats THEN part ELSE "netlist")]
        /\ IF part = "archive" THEN ArchiveInit ELSE job = <<>>
        /\ IF part = "design" THEN DesignInit ELSE design = <<>>
        /\ IF part = "text" THEN TextInit ELSE text = <<>>
-----------------------------------------------------------------------------
AfterLine(kind, n) ==
    CASE part \in {"eda nets", "eda shapes"} -> [parse EXCEPT !.tree = EdaLine(@, kind, n)]
      [] part = "components" -> [parse EXCEPT !.tree = ComponentsLine(@, kind, n)]
      [] part \in {"features", "feature lines", "symbols"} -> FeaturesLine(parse, kind, n)
      [] part = "netlist" -> [parse EXCEPT !.tree = NetlistLine(@, kind, n)]
      [] part = "matrix" -> [parse EXCEPT !.tree = MatrixLine(@, kind, n)]

AtEnd ==
    CASE part \in {"eda nets", "eda shapes"} -> [parse EXCEPT !.tree = EdaEnd(@)]
      [] part = "components" -> [parse EXCEPT !.tree = ComponentsEnd(@)]
      [] part \in {"features", "feature lines", "symbols"} -> FeaturesEnd(parse)
      [] part = "netlist" -> [parse EXCEPT !.tree = NetlistEnd(@)]
      [] part = "matrix" -> [parse EXCEPT !.tree = MatrixEnd(@)]

Converted ==
    LET tree == parse.tree
    IN  [parse EXCEPT !.tree =
            CASE part \in {"eda nets", "eda shapes"} -> EdaRoundTrip(tree, lines)
              [] part \in {"components", "other layer"} -> RoundTrip(tree, ComponentsMessages, lines)
              [] part \in {"features", "feature lines", "symbols"} -> RoundTrip(tree, FeaturesMessages, lines)
              [] part = "netlist" -> RoundTrip(tree, NetlistMessages, lines)
              [] part = "matrix" -> RoundTrip(tree, MatrixMessages, lines)]

(* std::getline and the chain of record tokens                               *)
ReadLine ==
    /\ parse.tree.status = "reading" /\ Len(lines) < MaxLines
    /\ \E kind \in LineKinds[part] :
          /\ lines' = Append(lines, kind)
          /\ parse' = AfterLine(kind, Len(lines) + 1)

(* The end of the file: what is still open is finished.                      *)
EndOfFile ==
    /\ parse.tree.status = "reading"
    /\ parse' = AtEnd
    /\ UNCHANGED lines

(* to_protobuf on the way out, from_protobuf where the message comes in.     *)
Convert ==
    /\ parse.tree.status = "accepted"
    /\ parse' = Converted
    /\ UNCHANGED lines

FileNext == \/ ReadLine
            \/ EndOfFile
            \/ Convert

Next == \/ part \in Formats /\ FileNext /\ UNCHANGED <<part, job, design, text>>
        \/ part = "archive" /\ ArchiveNext /\ UNCHANGED <<part, lines, parse, design, text>>
        \/ part = "design" /\ DesignNext /\ UNCHANGED <<part, lines, parse, job, text>>
        \/ part = "text" /\ TextNext /\ UNCHANGED <<part, lines, parse, job, design>>

Spec == Init /\ [][Next]_fileVars
-----------------------------------------------------------------------------
(* Properties *)

Owners == CASE part \in {"eda nets", "eda shapes"} -> EdaOwners
            [] part \in {"features", "feature lines", "symbols"} -> FeaturesOwners
            [] part = "netlist" -> NetlistOwners
            [] part = "matrix" -> MatrixOwners
            [] OTHER -> ComponentsOwners

Orderly(file) == CASE part \in {"eda nets", "eda shapes"} -> EdaOrderly(file)
                   [] part \in {"features", "feature lines", "symbols"} -> FeaturesOrderly(file)
                   [] part = "netlist" -> NetlistOrderly(file)
                   [] part = "matrix" -> MatrixOrderly(file)
                   [] OTHER -> ComponentsOrderly(file)

(* What can be missing from the brackets of an orderly file's first lines.   *)
Closings == {<<>>, <<"CE">>, <<"OE", "CE">>, <<"SE">>, <<"OE", "SE">>, <<"}">>, <<"{", "}">>}

Ended == part \in Formats /\ parse.tree.status # "reading"
Serialised == parse.tree.status \in {"round_trip", "unserialisable"}

(* The parser stops only at a line that no orderly file has there, and at    *)
(* the end of an orderly file it has each of its records.                    *)
OrderlyKept ==
    /\ parse.tree.status \in {"parse_error", "crashed"} =>
          \A closing \in Closings : ~Orderly(lines \o closing)
    /\ parse.tree.status = "accepted" /\ Orderly(lines) =>
          KeptExactly(lines, Owners, RecordLines(lines, Owners), parse.tree.kept)

(* A file in the order the format prescribes is accepted, and every record   *)
(* of it is in the model exactly once, under the record that the text puts   *)
(* it under and in the text's order, although parsers keep records aside     *)
(* until a later line, of any of several kinds, finishes them.               *)
RecordsWhole == Ended /\ part # "matrix" => OrderlyKept

(* The outlines of a pin, which its message leaves out, and what is in them. *)
OfPinOutline(n) ==
    LET owner(m) == Owner(lines, m, Owners)
        outline == CASE lines[n] \in {"RC", "CT"} -> n
                     [] lines[n] = "OB" -> owner(n)
                     [] lines[n] = "OS" -> owner(owner(n))
                     [] OTHER -> 0
    IN  part = "eda shapes" /\ outline # 0 /\ lines[owner(outline)] = "PIN"

GroupProperty(n) == /\ lines[n] = "PRP" /\ Owner(lines, n, Owners) # 0
                    /\ lines[Owner(lines, n, Owners)] = "FGR"

(* An orderly file whose feature groups have no properties can be serialised, *)
(* and reading the message back neither loses nor moves a record, the        *)
(* outlines of pins excepted.                                                *)
SerialisationWhole ==
    /\ Serialised /\ part # "matrix" /\ Orderly(lines)
    /\ \A n \in DOMAIN lines : ~GroupProperty(n)
    => /\ parse.tree.status = "round_trip"
       /\ KeptExactly(lines, Owners,
                      {n \in RecordLines(lines, Owners) : ~OfPinOutline(n)}, parse.tree.kept)

(* In a file with one line of units, a symbol without a unit type of its own *)
(* has that line's wherever the line stands, and one with its own keeps it.  *)
SymbolUnitsResolved ==
    part = "symbols" /\ parse.tree.status # "reading" =>
       LET unitsAt == {n \in DOMAIN lines : lines[n] \in UnitsKinds}
       IN  Cardinality(unitsAt) = 1 =>
              \A s \in {n \in DOMAIN lines : lines[n] \in SymbolKinds} :
                 \E u \in unitsAt :
                    parse.unitOf[s] = IF lines[s] = "$" THEN InferredUnit(lines[u])
                                      ELSE SymbolUnit(lines[s])

(* A matrix whose records are all opened and closed is accepted and gives    *)
(* every step and layer once, each with its own attributes.                  *)
MatrixWhole == Ended /\ part = "matrix" => OrderlyKept

(* FileArchive: what ParseFileModel shows of a design is complete, whatever  *)
(* part of it failed.                                                        *)
ArchiveWhole == part = "archive" => LoadedArchiveWhole

(* ProductModel: a design that was built has every net's connections.        *)
DesignExact == part = "design" => ConnectionsExact

(* Utf8Sanitizer: what goes into a message is UTF-8.                         *)
TextIsUtf8 == part = "text" => SanitizedIsUtf8
=============================================================================
