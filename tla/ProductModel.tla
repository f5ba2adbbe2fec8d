---------------------------- MODULE ProductModel ----------------------------
(***************************************************************************)
(* ProductModel::Design::Build: nets, packages, parts, components and pin    *)
(* connections from the file model of a design's first step.  Indexes are    *)
(* the file's, from 0; a net number of None is the file's -1.                *)
(***************************************************************************)
EXTENDS Selection, FiniteSets

CONSTANTS RefDes,     \* reference designators
          MaxPins,    \* bound: pins of a package
          NetCount    \* nets in the eda data
ASSUME ProductAssumption == MaxPins \in Nat /\ NetCount \in Nat

VARIABLE design  \* one Build: the file model it reads and what it has built

None == -1
Toeprints == [net : {None} \union 0..NetCount, pin : 0..(MaxPins - 1)]
ComponentRecords(maxToeprints) ==
    [ref : RefDes, pkg : 0..1,
     toeprints : UNION {[1..n -> Toeprints] : n \in 0..maxToeprints}]

(* A side of the board: whether its components layer is there, and its       *)
(* records.                                                                  *)
Sides(maxToeprints) ==
    [exists : {FALSE}, records : {<<>>}] \union
    [exists : {TRUE}, records : {<<>>} \union {<<c>> : c \in ComponentRecords(maxToeprints)}]

(* One package; a component may name a second one that does not exist.       *)
DesignInit ==
    \E hasStep \in BOOLEAN, pins \in 1..MaxPins, top \in Sides(2), bottom \in Sides(1) :
       design = [hasStep |-> hasStep, pins |-> pins, top |-> top, bottom |-> bottom,
                 packages |-> <<>>, components |-> <<>>, todo |-> <<>>,
                 nets |-> <<>>, pc |-> "nets"]

Built == design.pc \in {"true", "false", "crashed"}
Fails == design' = [design EXCEPT !.pc = "false"]
FileMissing == ~design.top.exists \/ ~design.bottom.exists
Records == design.top.records \o design.bottom.records
-----------------------------------------------------------------------------
BuildNets ==
    /\ design.pc = "nets"
    /\ \/ ~design.hasStep /\ Fails
       \/ /\ design.hasStep
          /\ design' = [design EXCEPT !.pc = "packages", !.nets = [n \in 1..NetCount |-> <<>>]]

BuildPackages ==
    /\ design.pc = "packages"
    /\ design' = [design EXCEPT !.pc = "parts", !.packages = <<design.pins>>]

(* Parts are collected by name; what is left of it here is that both         *)
(* components files must be there.                                           *)
BuildAllParts ==
    /\ design.pc = "parts"
    /\ \/ FileMissing /\ Fails
       \/ ~FileMissing /\ design' = [design EXCEPT !.pc = "components"]

(* m_packages[pkgRef] is not checked: an index past the end is undefined.    *)
BuildAllComponents ==
    /\ design.pc = "components"
    /\ LET unknown == {i \in DOMAIN Records : Records[i].pkg >= Len(design.packages)}
       IN  \/ /\ unknown # {}
              /\ design' = [design EXCEPT !.pc = "crashed"]
           \/ /\ unknown = {}
              /\ design' = [design EXCEPT !.pc = "placements",
                               !.components = [i \in DOMAIN Records |-> Records[i].ref]]

(* m_componentsByName: the last component with that name.                    *)
ByName(ref) == CHOOSE i \in DOMAIN design.components :
                  /\ design.components[i] = ref
                  /\ \A j \in DOMAIN design.components :
                        design.components[j] = ref => j <= i

(* BuildPlacementsFromComponentsFile for both files, top first: the          *)
(* toeprints to connect, those without a net left out.                       *)
Connectable(records) ==
    LET toeprintsOf(r) == [i \in DOMAIN r.toeprints |->
                              [ref |-> r.ref, net |-> r.toeprints[i].net, pin |-> r.toeprints[i].pin]]
        all == IF records = <<>> THEN <<>> ELSE toeprintsOf(records[1])
    IN  SelectAt(all, {i \in DOMAIN all : all[i].net # None})

PlacementsToMakeOfTop == Connectable(design.top.records)
PlacementsToMake == Connectable(design.top.records) \o Connectable(design.bottom.records)

BuildPlacementsFromComponentsFiles ==
    /\ design.pc = "placements"
    /\ design' = [design EXCEPT !.pc = "connect", !.todo = PlacementsToMake]

(* An unknown net or pin number makes it false, and Build with it.           *)
CreatePinConnection ==
    /\ design.pc = "connect" /\ design.todo # <<>>
    /\ LET t == Head(design.todo)
       IN  \/ /\ t.net >= Len(design.nets) \/ t.pin >= design.packages[1]
              /\ Fails
           \/ /\ t.net < Len(design.nets) /\ t.pin < design.packages[1]
              /\ design' = [design EXCEPT
                              !.todo = Tail(@),
                              !.nets[t.net + 1] = Append(@, <<ByName(t.ref), t.pin>>)]

BuildReturns ==
    /\ design.pc = "connect" /\ design.todo = <<>>
    /\ design' = [design EXCEPT !.pc = "true"]

DesignNext == \/ BuildNets
              \/ BuildPackages
              \/ BuildAllParts
              \/ BuildAllComponents
              \/ BuildPlacementsFromComponentsFiles
              \/ CreatePinConnection
              \/ BuildReturns
-----------------------------------------------------------------------------
(* Build answers true only with every net complete: its connections are the  *)
(* toeprints that name it, each once, in the order of the files, and each    *)
(* with its own pin and a component of its own reference designator, which   *)
(* is its own component unless another one has that designator (then         *)
(* m_componentsByName decides, Design.cpp:462).                              *)
ConnectionsExact ==
    design.pc = "true" =>
       LET named(i, net) ==
               LET all == Records[i].toeprints
                   those == SelectAt(all, {k \in DOMAIN all : all[k].net = net})
               IN  [k \in DOMAIN those |-> <<i, those[k].pin>>]
           wanted(net) == CASE Len(Records) = 0 -> <<>>
                            [] Len(Records) = 1 -> named(1, net)
                            [] Len(Records) = 2 -> named(1, net) \o named(2, net)
           agrees(made, asked) == /\ made[1] \in DOMAIN Records
                                  /\ Records[made[1]].ref = Records[asked[1]].ref
                                  /\ made[2] = asked[2]
       IN  \A n \in 1..NetCount :
              LET made == design.nets[n]
                  asked == wanted(n - 1)
              IN  /\ Len(made) = Len(asked)
                  /\ \A k \in DOMAIN made : agrees(made[k], asked[k])
=============================================================================
