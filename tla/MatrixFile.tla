----------------------------- MODULE MatrixFile -----------------------------
(***************************************************************************)
(* MatrixFile: the steps and layers of the product, in braced records.  The  *)
(* open brace is one flag for the step and the layer being read; STEP{ and   *)
(* LAYER{ are the forms with the brace on the same line.                     *)
(***************************************************************************)
EXTENDS RecordTree

MatrixSlots == {"step", "layer", "brace"}
MatrixRecordKinds == {"STEP", "STEP{", "LAYER", "LAYER{"}
MatrixKinds == MatrixRecordKinds \union {"HEAD", "{", "}", "ATTR", "BAD"}

MatrixOpen == Reading(MatrixSlots)
-----------------------------------------------------------------------------
(* A comment, or an attribute without a value, which is only warned about.   *)
MatrixHeadLine(p, n) == p

(* A step or layer line wants no unfinished record of its own kind.          *)
BeginRecord(p, n, slot, brace) ==
    IF Holds(p, slot) THEN Fail(p)
    ELSE IF brace THEN Hold(Hold(p, slot, n), "brace", n) ELSE Hold(p, slot, n)
StepRecordLine(p, n, brace) == BeginRecord(p, n, "step", brace)
LayerRecordLine(p, n, brace) == BeginRecord(p, n, "layer", brace)

OpenBraceLine(p, n) ==
    IF (Holds(p, "step") \/ Holds(p, "layer")) /\ ~Holds(p, "brace")
    THEN Hold(p, "brace", n) ELSE Fail(p)

CloseBraceKeepsStep(p, n) ==
    IF ~Holds(p, "brace") THEN Fail(p) ELSE
    IF Holds(p, "step") THEN Drop(Push(p, 0, p.cur["step"], "STEP"), "brace") ELSE
    IF Holds(p, "layer") THEN Drop(Flush(p, "layer", 0, "LAYER"), "brace") ELSE Fail(p)
CloseBraceLine(p, n) ==
    IF ~Holds(p, "brace") THEN Fail(p) ELSE
    IF Holds(p, "step") THEN Drop(Flush(p, "step", 0, "STEP"), "brace") ELSE
    IF Holds(p, "layer") THEN Drop(Flush(p, "layer", 0, "LAYER"), "brace") ELSE Fail(p)

(* An attribute sets a field of the step, else of the layer.                 *)
AttributeLine(p, n) ==
    IF ~Holds(p, "brace") THEN Fail(p) ELSE
    IF Holds(p, "step") THEN Push(p, p.cur["step"], n, "ATTR") ELSE
    IF Holds(p, "layer") THEN Push(p, p.cur["layer"], n, "ATTR") ELSE Fail(p)

MatrixLine(p, kind, n) ==
    CASE kind = "HEAD" -> MatrixHeadLine(p, n)
      [] kind \in {"STEP", "STEP{"} -> StepRecordLine(p, n, kind = "STEP{")
      [] kind \in {"LAYER", "LAYER{"} -> LayerRecordLine(p, n, kind = "LAYER{")
      [] kind = "{" -> OpenBraceLine(p, n)
      [] kind = "}" -> CloseBraceLine(p, n)
      [] kind = "ATTR" -> AttributeLine(p, n)
      [] kind = "BAD" -> Fail(p)

(* A record that is still open when the file ends is not kept.               *)
MatrixEnd(p) == Accept(p)
-----------------------------------------------------------------------------
MatrixFileMessage == {"STEP", "LAYER"}
MatrixRecordMessage == {"ATTR"}
MatrixMessages == [k \in MatrixRecordKinds \union {"FILE"} |->
                      IF k = "FILE" THEN MatrixFileMessage ELSE MatrixRecordMessage]
-----------------------------------------------------------------------------
MatrixOwners == [k \in MatrixRecordKinds \union {"ATTR"} |->
                    IF k = "ATTR" THEN MatrixRecordKinds ELSE {}]

(* Every record is opened by the line that begins it or by the next one, and *)
(* closed before another begins.                                             *)
MatrixOrderly(lines) ==
    LET next(n) == IF n = Len(lines) THEN "EOF" ELSE lines[n + 1]
        opens(n) == lines[n] \in {"STEP{", "LAYER{", "{"}
        closes(n) == lines[n] = "}"
    IN  \A n \in DOMAIN lines :
          /\ lines[n] # "BAD"
          /\ lines[n] \in {"STEP", "LAYER"} <=> next(n) = "{"
          /\ opens(n) => \E m \in (n + 1)..Len(lines) :
                           closes(m) /\ \A k \in (n + 1)..(m - 1) : lines[k] \in {"ATTR", "HEAD"}
          /\ lines[n] \in {"ATTR", "}"} => \E m \in 1..(n - 1) :
                           opens(m) /\ \A k \in (m + 1)..(n - 1) : lines[k] \in {"ATTR", "HEAD"}
          /\ n = 1 => lines[n] # "{"
=============================================================================
