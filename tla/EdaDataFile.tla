----------------------------- MODULE EdaDataFile -----------------------------
(***************************************************************************)
(* EdaDataFile: the eda/data file of a step (nets and their subnets,         *)
(* packages and their pins and outlines, feature groups), its parser and its *)
(* protobuf conversion.                                                      *)
(***************************************************************************)
EXTENDS RecordTree

EdaSlots == {"net", "subnet", "package", "pin", "group", "contour", "polygon"}

EdaOpen == Reading(EdaSlots)

(* Two alphabets: the records of the connectivity and those of the shapes.   *)
EdaNetKinds == {"HEAD", "PRP", "NET", "SNT", "FID", "PKG", "FGR", "BAD"}
EdaShapeKinds == {"PKG", "PIN", "RC", "CT", "CE", "OB", "OE", "OS"}
-----------------------------------------------------------------------------
(* The blocks that finish a record; they are spelt out at each use.          *)

FinishNet(p) == Flush(Flush(p, "subnet", p.cur["net"], "SNT"), "net", 0, "NET")
FinishPackageDropsPin(p) == Flush(Drop(p, "pin"), "package", 0, "PKG")
FinishPackage(p) == Flush(Flush(p, "pin", p.cur["package"], "PIN"), "package", 0, "PKG")
FinishGroup(p) == Flush(p, "group", 0, "FGR")

(* if (net) ... else if (package) ... : what PKG finishes                    *)
FinishNetElsePackage(p) == IF Holds(p, "net") THEN FinishNet(p) ELSE
                           IF Holds(p, "package") THEN FinishPackage(p) ELSE p

(* ... else if (group): what FGR and the end of the file finish              *)
FinishOpen(p) == IF Holds(p, "net") \/ Holds(p, "package") THEN FinishNetElsePackage(p)
                 ELSE FinishGroup(p)
-----------------------------------------------------------------------------
(* One operator per record; n is the number of the line.                     *)

(* #@ #& UNITS HDR LYR and comments                                          *)
HeaderLine(p, n) == p

PropertyLine(p, n) ==
    LET holder == CASE Holds(p, "net") -> p.cur["net"]
                    [] ~Holds(p, "net") /\ Holds(p, "package") -> p.cur["package"]
                    [] OTHER -> p.cur["group"]
    IN  Push(p, holder, n, "PRP")

NetLine(p, n) == Hold(IF Holds(p, "net") THEN FinishNet(p) ELSE p, "net", n)

(* The new subnet's index is read from the current net, whether or not there *)
(* is one.                                                                   *)
SubnetLine(p, n) ==
    IF Holds(p, "net") THEN Hold(Flush(p, "subnet", p.cur["net"], "SNT"), "subnet", n)
    ELSE Crash(p)

FeatureIdLine(p, n) ==
    IF Holds(p, "net") /\ Holds(p, "subnet") THEN Push(p, p.cur["subnet"], n, "FID") ELSE
    IF Holds(p, "group") THEN Push(p, p.cur["group"], n, "FID") ELSE Fail(p)

PackageLine(p, n) == Hold(FinishNetElsePackage(p), "package", n)

PinLine(p, n) ==
    Hold(IF Holds(p, "package") THEN Flush(p, "pin", p.cur["package"], "PIN") ELSE p,
         "pin", n)

GroupLine(p, n) == Hold(FinishOpen(p), "group", n)

(* An outline goes to the current pin, or else to the package.               *)
AddOutline(p, record) ==
    IF Holds(p, "package")
    THEN Push(p, p.cur[IF Holds(p, "pin") THEN "pin" ELSE "package"], record, "RC")
    ELSE Fail(p)

OutlineLine(p, n) == AddOutline(p, n)
ContourBegin(p, n) == Hold(p, "contour", n)
ContourEnd(p, n) == Drop(AddOutline(p, p.cur["contour"]), "contour")

(* OE pushes the current polygon, null if no OB came before.                 *)
PolygonBegin(p, n) == Hold(p, "polygon", n)
PolygonEnd(p, n) ==
    IF Holds(p, "contour")
    THEN Drop(Push(p, p.cur["contour"], p.cur["polygon"], "OB"), "polygon")
    ELSE Fail(p)
PolygonPart(p, n) ==
    IF Holds(p, "polygon") THEN Push(p, p.cur["polygon"], n, "OS") ELSE Fail(p)

EdaLine(p, kind, n) ==
    CASE kind = "HEAD" -> HeaderLine(p, n)
      [] kind = "PRP" -> PropertyLine(p, n)
      [] kind = "NET" -> NetLine(p, n)
      [] kind = "SNT" -> SubnetLine(p, n)
      [] kind = "FID" -> FeatureIdLine(p, n)
      [] kind = "PKG" -> PackageLine(p, n)
      [] kind = "PIN" -> PinLine(p, n)
      [] kind = "FGR" -> GroupLine(p, n)
      [] kind = "RC" -> OutlineLine(p, n)
      [] kind = "CT" -> ContourBegin(p, n)
      [] kind = "CE" -> ContourEnd(p, n)
      [] kind = "OB" -> PolygonBegin(p, n)
      [] kind = "OE" -> PolygonEnd(p, n)
      [] kind = "OS" -> PolygonPart(p, n)
      [] kind = "BAD" -> Fail(p)

EdaEnd(p) == Accept(FinishOpen(p))
-----------------------------------------------------------------------------
(* The vectors each to_protobuf writes and each from_protobuf reads back.    *)
(* RC stands for the outlines of all shapes, CT among them.                  *)

EdaFileMessage == {"NET", "PKG", "PRP", "FGR"}
NetMessageNoSubnets == {"PRP"}
NetMessage == {"PRP", "SNT"}
SubnetMessage == {"FID"}
GroupMessage == {"FID"}
PackageMessage == {"PIN", "PRP", "RC"}
PinMessage == {}
OutlineMessage == {"OB"}
PolygonMessage == {"OS"}

EdaMessages == [FILE |-> EdaFileMessage, NET |-> NetMessage, SNT |-> SubnetMessage,
                FGR |-> GroupMessage, PKG |-> PackageMessage, PIN |-> PinMessage,
                CT |-> OutlineMessage, OB |-> PolygonMessage]

(* The properties of a feature group are copied into messages of another     *)
(* type, which the protobuf library refuses by aborting.                     *)
EdaRoundTrip(p, lines) ==
    IF \E i \in DOMAIN p.kept :
          p.kept[i][1] # 0 /\ p.kept[i][3] = "PRP" /\ lines[p.kept[i][1]] = "FGR"
    THEN Unserialisable(p)
    ELSE RoundTrip(p, EdaMessages, lines)
-----------------------------------------------------------------------------
(* The format: who owns what, and files whose sections come in order.        *)

EdaOwners == [PRP |-> {"NET", "PKG", "FGR"}, NET |-> {}, SNT |-> {"NET"},
              FID |-> {"SNT", "FGR"}, PKG |-> {}, PIN |-> {"PKG"}, FGR |-> {},
              RC |-> {"PKG", "PIN"}, CT |-> {"PKG", "PIN"}, OB |-> {"CT"}, OS |-> {"OB"}]

Section == [NET |-> 1, SNT |-> 1, PKG |-> 2, PIN |-> 2, FGR |-> 3]

(* Sections in the order nets, packages, groups; feature ids below a subnet  *)
(* or a group, every other record below its owner; contours and polygons     *)
(* bracketed and closed.                                                     *)
EdaOrderly(lines) ==
    LET at(kinds) == {n \in DOMAIN lines : lines[n] \in kinds}
        next(n) == IF n = Len(lines) THEN "EOF" ELSE lines[n + 1]
    IN  /\ at({"BAD"}) = {}
        /\ \A m, n \in at(DOMAIN Section) : m < n => Section[lines[m]] <= Section[lines[n]]
        /\ \A n \in at({"SNT", "PIN", "RC", "CT"}) : Owner(lines, n, EdaOwners) # 0
        /\ \A n \in at({"FID"}) :
              LET owner == Owner(lines, n, EdaOwners)
              IN  owner # 0 /\ (lines[owner] = "SNT" =>
                                  \A m \in (owner + 1)..n : lines[m] \notin {"NET", "PKG"})
        /\ \A n \in DOMAIN lines :
              /\ lines[n] \in {"CT", "OE"} => next(n) \in {"OB", "CE"}
              /\ lines[n] \in {"OB", "OS"} => next(n) \in {"OS", "OE"}
              /\ lines[n] \notin {"CT", "OE", "OB", "OS"} =>
                    next(n) \notin {"OB", "OS", "OE", "CE"}
        /\ Len(lines) > 0 => lines[1] \notin {"OB", "OS", "OE", "CE"}
=============================================================================
