----------------------------- MODULE NetlistFile -----------------------------
(***************************************************************************)
(* NetlistFile: a netlist of a step, its parser and its protobuf conversion. *)
(***************************************************************************)
EXTENDS RecordTree

NetlistKinds == {"HEAD", "H", "$", "point", "BAD"}

(* The netlist line parser keeps no current record.                          *)
NetlistOpen == Reading({})

NetlistHeadLine(p, n) == p
NetlistHeaderLine(p, n) == p
NetlistNetLine(p, n) == Push(p, 0, n, "$")
NetlistPointLine(p, n) == Push(p, 0, n, "point")

NetlistLine(p, kind, n) ==
    CASE kind = "HEAD" -> NetlistHeadLine(p, n)
      [] kind = "H" -> NetlistHeaderLine(p, n)
      [] kind = "$" -> NetlistNetLine(p, n)
      [] kind = "point" -> NetlistPointLine(p, n)
      [] kind = "BAD" -> Fail(p)

NetlistEnd(p) == Accept(p)

NetlistFileMessage == {"$", "point"}
NetlistMessages == [FILE |-> NetlistFileMessage]
NetlistOwners == [k \in NetlistFileMessage |-> {}]
NetlistOrderly(lines) == \A n \in DOMAIN lines : lines[n] # "BAD"
=============================================================================
