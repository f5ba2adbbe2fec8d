----------------------------- MODULE RecordTree -----------------------------
(***************************************************************************)
(* What the line parsers of the file model share.  A parser reads a file    *)
(* line by line and keeps "current" records (the pCurrent... pointers) that  *)
(* it pushes into their owners' vectors later, when a following line or the  *)
(* end of the file finishes them.  A line is its record token; a record is   *)
(* the number of the line that began it, 0 being the null pointer.  The      *)
(* fields of a line are abstracted: a BAD line is one whose fields do not    *)
(* parse, and every record kind raises parse_error on it.                    *)
(***************************************************************************)
EXTENDS Selection, FiniteSets

(* A parser at the top of an open file: no current records and empty vectors. *)
Reading(slots) == [status |-> "reading", cur |-> [s \in slots |-> 0], kept |-> <<>>]

Holds(p, slot) == p.cur[slot] # 0

(* pCurrent = make_shared<Record>() ; pCurrent.reset() *)
Hold(p, slot, line) == [p EXCEPT !.cur[slot] = line]
Drop(p, slot) == Hold(p, slot, 0)

(* owner->m_records.push_back(record): owner 0 is the file itself.           *)
Push(p, owner, line, kind) == [p EXCEPT !.kept = Append(@, <<owner, line, kind>>)]

(* Push the current record of a slot and reset the slot, if there is one.    *)
Flush(p, slot, owner, kind) ==
    IF Holds(p, slot) THEN Drop(Push(p, owner, p.cur[slot], kind), slot) ELSE p

(* parse_error or invalid_odb_error leaves Parse; a null pointer is followed *)
(* while parsing, or to_protobuf aborts.                                     *)
Fail(p) == [p EXCEPT !.status = "parse_error"]
Crash(p) == [p EXCEPT !.status = "crashed"]
Unserialisable(p) == [p EXCEPT !.status = "unserialisable"]
Accept(p) == [p EXCEPT !.status = "accepted"]
-----------------------------------------------------------------------------
(* Serialisation: messages says which vectors of a record its to_protobuf    *)
(* writes and its from_protobuf reads.                                       *)

(* The records that reach the message: those whose owner does, in a vector   *)
(* that is written.  Owners begin on earlier lines than what they own.       *)
Written(p, messages, kindOf) ==
    LET reached[n \in 0..Len(kindOf)] ==
            \/ n = 0
            \/ \E i \in DOMAIN p.kept :
                  /\ p.kept[i][2] = n /\ p.kept[i][1] < n
                  /\ p.kept[i][3] \in messages[IF p.kept[i][1] = 0 THEN "FILE"
                                               ELSE kindOf[p.kept[i][1]]]
                  /\ reached[p.kept[i][1]]
    IN  {n \in 0..Len(kindOf) : reached[n]}

(* from_protobuf(to_protobuf(file)): following a null record crashes.        *)
RoundTrip(p, messages, kindOf) ==
    LET written == Written(p, messages, kindOf)
        inMessage(e) == /\ e[1] \in written
                        /\ e[3] \in messages[IF e[1] = 0 THEN "FILE" ELSE kindOf[e[1]]]
    IN  IF \E i \in DOMAIN p.kept : inMessage(p.kept[i]) /\ p.kept[i][2] = 0
        THEN Unserialisable(p)
        ELSE [p EXCEPT !.status = "round_trip",
                       !.kept = SelectAt(@, {i \in DOMAIN p.kept : inMessage(p.kept[i])})]
-----------------------------------------------------------------------------
(* The reference: who owns a line, from the file's text alone.  owners gives *)
(* for each record kind the kinds that may own it; the nearest one above     *)
(* does, and the file does where there is none.                              *)

Above(lines, n, kinds) == {m \in 1..(n - 1) : lines[m] \in kinds}

Owner(lines, n, owners) ==
    LET above == Above(lines, n, owners[lines[n]])
    IN  IF above = {} THEN 0 ELSE CHOOSE m \in above : \A k \in above : k <= m

RecordLines(lines, owners) == {n \in DOMAIN lines : lines[n] \in DOMAIN owners}

(* kept holds exactly the records of the lines in shown, each once, in its   *)
(* owner's vector, and each vector in the order of the file.                 *)
KeptExactly(lines, owners, shown, kept) ==
    /\ {<<kept[i][1], kept[i][2]>> : i \in DOMAIN kept} =
           {<<Owner(lines, n, owners), n>> : n \in shown}
    /\ Len(kept) = Cardinality(shown)
    /\ \A i, j \in DOMAIN kept :
          i < j /\ kept[i][1] = kept[j][1] /\ kept[i][3] = kept[j][3]
             => kept[i][2] < kept[j][2]
=============================================================================
