--------------------------- MODULE ComponentsFile ---------------------------
(***************************************************************************)
(* ComponentsFile: the components file of the comp_+_top or comp_+_bot       *)
(* layer of a step, its parser and its protobuf conversion.                  *)
(***************************************************************************)
EXTENDS RecordTree

ComponentSlots == {"component", "bom"}

(* IPN stands for the lines that set one field of the current BOM record     *)
(* (IPN, VPL_VND, VPL_MPN, VND, MPN), DSC appends to its descriptions.       *)
ComponentKinds == {"HEAD", "CMP", "PRP", "TOP", "CPN", "IPN", "DSC", "BAD"}

(* Other layers than the two component layers have no file to read.          *)
ComponentsOpen(isComponentLayer) ==
    IF isComponentLayer THEN Reading(ComponentSlots) ELSE Accept(Reading(ComponentSlots))
-----------------------------------------------------------------------------
(* m_bomDescriptionRecordsByCpn[cpn] = record: cpn is never read from the    *)
(* line, so every record goes under the empty key.                           *)
FinishBom(p) ==
    IF Holds(p, "bom")
    THEN LET others == SelectAt(p.kept, {i \in DOMAIN p.kept : p.kept[i][3] # "CPN"})
         IN  Drop([p EXCEPT !.kept = Append(others, <<0, p.cur["bom"], "CPN">>)], "bom")
    ELSE p

FinishComponent(p) == Flush(p, "component", 0, "CMP")

ComponentHeadLine(p, n) == p
ComponentLine(p, n) == Hold(FinishComponent(FinishBom(p)), "component", n)

(* Neither asks whether there is a component.                                *)
ComponentChild(p, n, kind) ==
    IF Holds(p, "component") THEN Push(p, p.cur["component"], n, kind) ELSE Crash(p)
ComponentPropertyLine(p, n) == ComponentChild(p, n, "PRP")
ToeprintLine(p, n) == ComponentChild(p, n, "TOP")

CpnLine(p, n) == Hold(FinishBom(p), "bom", n)
BomFieldLine(p, n) == IF Holds(p, "bom") THEN p ELSE Fail(p)
DscLine(p, n) == IF Holds(p, "bom") THEN Push(p, p.cur["bom"], n, "DSC") ELSE Fail(p)

ComponentsLine(p, kind, n) ==
    CASE kind = "HEAD" -> ComponentHeadLine(p, n)
      [] kind = "CMP" -> ComponentLine(p, n)
      [] kind = "PRP" -> ComponentPropertyLine(p, n)
      [] kind = "TOP" -> ToeprintLine(p, n)
      [] kind = "CPN" -> CpnLine(p, n)
      [] kind = "IPN" -> BomFieldLine(p, n)
      [] kind = "DSC" -> DscLine(p, n)
      [] kind = "BAD" -> Fail(p)

ComponentsEnd(p) == Accept(FinishComponent(FinishBom(p)))
-----------------------------------------------------------------------------
ComponentsFileMessage == {"CMP", "CPN"}
ComponentMessage == {"PRP", "TOP"}
BomMessage == {"DSC"}
ComponentsMessages == [FILE |-> ComponentsFileMessage, CMP |-> ComponentMessage,
                       CPN |-> BomMessage]
-----------------------------------------------------------------------------
ComponentsOwners == [CMP |-> {}, PRP |-> {"CMP"}, TOP |-> {"CMP"}, CPN |-> {},
                     DSC |-> {"CPN"}]

(* Every child below its owner, the BOM lines in one block, and one BOM      *)
(* record: a second one replaces the first.                                  *)
ComponentsOrderly(lines) ==
    LET at(kinds) == {n \in DOMAIN lines : lines[n] \in kinds}
    IN  /\ at({"BAD"}) = {}
        /\ \A n \in at({"PRP", "TOP", "DSC"}) : Owner(lines, n, ComponentsOwners) # 0
        /\ Cardinality(at({"CPN"})) <= 1
        /\ \A n \in at({"IPN", "DSC"}) :
              \E c \in at({"CPN"}) : c < n /\ \A m \in c..n : lines[m] # "CMP"
=============================================================================
