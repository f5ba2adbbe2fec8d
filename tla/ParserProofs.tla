----------------------------- MODULE ParserProofs -----------------------------
(***************************************************************************)
(* Theorems about the line parsers of FileModel and their messages, for    *)
(* files of any length: an orderly file is read to its end without an      *)
(* error, every record of it is then in the model once, under its owner    *)
(* and in order, and the message gives it back.                            *)
(*                                                                         *)
(* A file that is being read is not known to be orderly.  ParserInv speaks *)
(* of every orderly file w that the lines read so far begin: the reader    *)
(* has not stopped, and what it holds has the shape that w gives it        *)
(* (ReadSoFar).  That is what makes the invariant inductive, since a later *)
(* line only rules files out.  For each format a shape says which records  *)
(* are still current (those of the pCurrent... pointers, and the lines     *)
(* they began on) and that all the others are Tidy: each in its owner's    *)
(* vector, once, in order.  One lemma per kind of line carries the shape   *)
(* over that line; the end of the file finishes what is current.           *)
(*                                                                         *)
(* SerialInv adds the message: Written, a function defined by recursion    *)
(* over the lines, is for a tidy file the set of lines whose vector is     *)
(* written and whose owner is in it (WrittenSolves), which for an orderly  *)
(* file are all lines but those of pins' outlines (EdaSent, AllSent).      *)
(***************************************************************************)
EXTENDS FileModelProofs

\* The tokens of a line, those of the closings among them.
Token == {"HEAD", "PRP", "NET", "SNT", "FID", "PKG", "FGR", "BAD", "PIN", "RC", "CT", "CE", "OB",
          "OE", "OS", "CMP", "TOP", "CPN", "IPN", "DSC", "L", "P", "T", "A", "B", "S", "SE",
          "U mm", "U inch", "U other", "$", "$ M", "$ I", "H", "point", "STEP", "STEP{", "LAYER",
          "LAYER{", "{", "}", "ATTR"}

\* The vector that a record goes to.
Vector(k) == IF k = "STEP{" THEN "STEP" ELSE IF k = "LAYER{" THEN "LAYER" ELSE
             IF k = "CT" THEN "RC" ELSE IF k \in FeatureLineKinds THEN "L" ELSE k

\* The records of the lines in shown, each in its owner's vector and in order.
Tidy(w, owners, shown, kept) ==
    /\ \E X : kept \in Seq(X)
    /\ \A i \in DOMAIN kept : /\ kept[i][2] \in shown
                              /\ kept[i][1] = Owner(w, kept[i][2], owners)
                              /\ kept[i][3] = Vector(w[kept[i][2]])
    /\ \A n \in shown : \E i \in DOMAIN kept : kept[i][2] = n
    /\ \A i, j \in DOMAIN kept : kept[i][2] = kept[j][2] => i = j
    /\ \A i, j \in DOMAIN kept : i < j /\ kept[i][1] = kept[j][1] /\ kept[i][3] = kept[j][3]
                                    => kept[i][2] < kept[j][2]

LEMMA TidyEmpty == \A w, owners : Tidy(w, owners, {}, <<>>)
<1>1. <<>> \in Seq({})
  BY EmptySeq
<1>2. \E X : <<>> \in Seq(X)
  BY <1>1
<1> DEFINE s == <<>>
<1>3. DOMAIN s = {}
  OBVIOUS
<1> HIDE DEF s
<1>4. \A w, owners : Tidy(w, owners, {}, s)
  BY <1>2, <1>3 DEF Tidy, s
<1> QED
  BY <1>4 DEF s

\* A record that follows those that its vector has.
LEMMA TidyPush ==
    ASSUME NEW w, NEW owners, NEW shown, NEW kept, Tidy(w, owners, shown, kept),
           NEW o, NEW n, NEW k, n \notin shown, o = Owner(w, n, owners), k = Vector(w[n]),
           \A m \in shown : Owner(w, m, owners) = o /\ Vector(w[m]) = k => m < n
    PROVE  Tidy(w, owners, shown \union {n}, Append(kept, <<o, n, k>>))
<1> DEFINE e == <<o, n, k>>
           more == Append(kept, e)
           l == Len(kept)
<1>0. e[1] = o /\ e[2] = n /\ e[3] = k
  OBVIOUS
<1>1. PICK X : kept \in Seq(X)
  BY DEF Tidy
<1> DEFINE Y == X \union {e}
<1>2. kept \in Seq(Y) /\ e \in Y
  BY <1>1, SeqMonotonic
<1> HIDE DEF Y, e
<1>3. more = Append(kept, e)
  OBVIOUS
<1> HIDE DEF more
<1>4. /\ more \in Seq(Y) /\ l \in Nat /\ Len(more) = l + 1
      /\ DOMAIN kept = 1..l /\ DOMAIN more = 1..(l + 1)
      /\ \A i \in 1..l : i \in 1..(l + 1) /\ more[i] = kept[i]
      /\ more[l + 1] = e /\ l + 1 \in 1..(l + 1)
      /\ \A i \in 1..(l + 1) : i # l + 1 => i \in 1..l
  BY <1>2, <1>3, OneMore
<1> HIDE DEF l
<1>5. \E Z : more \in Seq(Z)
  BY <1>4
<1>6. \A i \in DOMAIN more : /\ more[i][2] \in shown \union {n}
                             /\ more[i][1] = Owner(w, more[i][2], owners)
                             /\ more[i][3] = Vector(w[more[i][2]])
  <2> SUFFICES ASSUME NEW i \in DOMAIN more
               PROVE  /\ more[i][2] \in shown \union {n}
                      /\ more[i][1] = Owner(w, more[i][2], owners)
                      /\ more[i][3] = Vector(w[more[i][2]])
    OBVIOUS
  <2>1. CASE i = l + 1
    BY <1>0, <1>4, <2>1
  <2>2. CASE i # l + 1
    <3>1. i \in DOMAIN kept /\ more[i] = kept[i]
      BY <1>4, <2>2
    <3> QED
      BY <3>1 DEF Tidy
  <2> QED
    BY <2>1, <2>2
<1>7. \A m \in shown \union {n} : \E i \in DOMAIN more : more[i][2] = m
  <2>1. \A m \in shown : \E i \in DOMAIN kept : kept[i][2] = m
    BY DEF Tidy
  <2>2. \A m \in shown : \E i \in DOMAIN more : more[i][2] = m
    BY <1>4, <2>1
  <2>3. more[l + 1][2] = n /\ l + 1 \in DOMAIN more
    BY <1>0, <1>4
  <2> QED
    BY <2>2, <2>3
<1>8. \A i \in DOMAIN kept : kept[i][2] \in shown /\ kept[i][2] # n
  BY DEF Tidy
<1>9. \A i, j \in DOMAIN more : more[i][2] = more[j][2] => i = j
  <2>1. \A i, j \in DOMAIN kept : kept[i][2] = kept[j][2] => i = j
    BY DEF Tidy
  <2>2. \A i \in DOMAIN more : more[i][2] = n => i = l + 1
    BY <1>4, <1>8
  <2>3. more[l + 1][2] = n
    BY <1>0, <1>4
  <2> QED
    BY <1>4, <2>1, <2>2, <2>3
<1>10. \A i, j \in DOMAIN more : i < j /\ more[i][1] = more[j][1] /\ more[i][3] = more[j][3]
                                    => more[i][2] < more[j][2]
  <2> SUFFICES ASSUME NEW i \in DOMAIN more, NEW j \in DOMAIN more, i < j,
                      more[i][1] = more[j][1], more[i][3] = more[j][3]
               PROVE  more[i][2] < more[j][2]
    OBVIOUS
  <2>1. i \in DOMAIN kept /\ more[i] = kept[i]
    BY <1>4
  <2>2. CASE j = l + 1
    <3>1. more[j][1] = o /\ more[j][2] = n /\ more[j][3] = k
      BY <1>0, <1>4, <2>2
    <3>2. kept[i][2] \in shown /\ Owner(w, kept[i][2], owners) = o /\ Vector(w[kept[i][2]]) = k
      BY <2>1, <3>1 DEF Tidy
    <3> QED
      BY <2>1, <3>1, <3>2
  <2>3. CASE j # l + 1
    <3>1. j \in DOMAIN kept /\ more[j] = kept[j]
      BY <1>4, <2>3
    <3> QED
      BY <2>1, <3>1 DEF Tidy
  <2> QED
    BY <2>2, <2>3
<1>11. Tidy(w, owners, shown \union {n}, more)
  BY <1>5, <1>6, <1>7, <1>9, <1>10 DEF Tidy
<1> QED
  BY <1>11 DEF more, e

LEMMA TidyIsExact ==
    ASSUME NEW w, NEW owners, NEW shown, NEW kept, Tidy(w, owners, shown, kept)
    PROVE  KeptExactly(w, owners, shown, kept)
<1>1. PICK X : kept \in Seq(X)
  BY DEF Tidy
<1> DEFINE l == Len(kept)
           f == [i \in 1..l |-> kept[i][2]]
<1>2. l \in Nat /\ DOMAIN kept = 1..l
  BY <1>1
<1>3. /\ \A i \in DOMAIN kept : /\ kept[i][2] \in shown
                                /\ kept[i][1] = Owner(w, kept[i][2], owners)
      /\ \A n \in shown : \E i \in DOMAIN kept : kept[i][2] = n
      /\ \A i, j \in DOMAIN kept : kept[i][2] = kept[j][2] => i = j
  BY DEF Tidy
<1> HIDE DEF l
<1>4. /\ f \in [1..l -> shown]
      /\ \A n \in shown : \E i \in 1..l : f[i] = n
      /\ \A i, j \in 1..l : f[i] = f[j] => i = j
  BY <1>2, <1>3
<1>5. f \in Bijection(1..l, shown)
  <2> HIDE DEF f
  <2> QED
    BY <1>4 DEF Bijection, Injection, Surjection, IsInjective
<1>6. ExistsBijection(1..l, shown)
  BY <1>5 DEF ExistsBijection
<1>7. Cardinality(shown) = l
  BY <1>2, <1>6, FS_CountingElements
<1>8. {<<kept[i][1], kept[i][2]>> : i \in DOMAIN kept} = {<<Owner(w, n, owners), n>> : n \in shown}
  <2>1. \A i \in DOMAIN kept : \E n \in shown : <<kept[i][1], kept[i][2]>> = <<Owner(w, n, owners), n>>
    BY <1>3
  <2>2. \A n \in shown : \E i \in DOMAIN kept : <<kept[i][1], kept[i][2]>> = <<Owner(w, n, owners), n>>
    BY <1>3
  <2> QED
    BY <2>1, <2>2
<1>9. \A i, j \in DOMAIN kept : i < j /\ kept[i][1] = kept[j][1] /\ kept[i][3] = kept[j][3]
                                   => kept[i][2] < kept[j][2]
  BY DEF Tidy
<1> QED
  BY <1>7, <1>8, <1>9 DEF KeptExactly, l

\* The nearest line of the right kind above a line, if there is one.
LEMMA OwnerIs ==
    ASSUME NEW w, NEW owners, NEW n \in Nat, NEW m \in 1..(n - 1), w[m] \in owners[w[n]],
           \A k \in (m + 1)..(n - 1) : w[k] \notin owners[w[n]]
    PROVE  Owner(w, n, owners) = m
<1> DEFINE above == Above(w, n, owners[w[n]])
           Last(x) == \A k \in above : k <= x
<1>1. m \in above /\ Last(m)
  BY DEF Above
<1>2. \A x \in above : Last(x) => x = m
  BY <1>1 DEF Above
<1>3. Owner(w, n, owners) = CHOOSE x \in above : Last(x)
  BY <1>1 DEF Owner
<1> HIDE DEF above, Last
<1>4. (CHOOSE x \in above : Last(x)) = m
  BY <1>1, <1>2
<1> QED
  BY <1>3, <1>4

LEMMA OwnerNone ==
    ASSUME NEW w, NEW owners, NEW n, \A k \in 1..(n - 1) : w[k] \notin owners[w[n]]
    PROVE  Owner(w, n, owners) = 0
<1>1. Above(w, n, owners[w[n]]) = {}
  BY DEF Above
<1> QED
  BY <1>1 DEF Owner

\* The fields after each operation.
LEMMA HoldF ==
    ASSUME NEW t, IsTree(t), NEW s, NEW v
    PROVE  /\ IsTree(Hold(t, s, v)) /\ Hold(t, s, v).status = t.status
           /\ Hold(t, s, v).kept = t.kept /\ Hold(t, s, v).cur = [t.cur EXCEPT ![s] = v]
<1> DEFINE c == [t.cur EXCEPT ![s] = v]
           h == Hold(t, s, v)
<1>1. h = [status |-> t.status, cur |-> c, kept |-> t.kept]
  BY HoldIs
<1> HIDE DEF c, h
<1>2. IsTree(h) /\ h.status = t.status /\ h.kept = t.kept /\ h.cur = c
  BY <1>1 DEF IsTree
<1> QED
  BY <1>2 DEF c, h

LEMMA DropF ==
    ASSUME NEW t, IsTree(t), NEW s
    PROVE  /\ IsTree(Drop(t, s)) /\ Drop(t, s).status = t.status
           /\ Drop(t, s).kept = t.kept /\ Drop(t, s).cur = [t.cur EXCEPT ![s] = 0]
<1> DEFINE c == [t.cur EXCEPT ![s] = 0]
           h == Drop(t, s)
<1>1. h = [status |-> t.status, cur |-> c, kept |-> t.kept]
  BY HoldIs DEF Drop
<1> HIDE DEF c, h
<1>2. IsTree(h) /\ h.status = t.status /\ h.kept = t.kept /\ h.cur = c
  BY <1>1 DEF IsTree
<1> QED
  BY <1>2 DEF c, h

LEMMA PushF ==
    ASSUME NEW t, IsTree(t), NEW o, NEW n, NEW k
    PROVE  /\ IsTree(Push(t, o, n, k)) /\ Push(t, o, n, k).status = t.status
           /\ Push(t, o, n, k).kept = Append(t.kept, <<o, n, k>>)
           /\ Push(t, o, n, k).cur = t.cur
<1> DEFINE c == Append(t.kept, <<o, n, k>>)
           h == Push(t, o, n, k)
<1>1. h = [status |-> t.status, cur |-> t.cur, kept |-> c]
  BY PushIs
<1> HIDE DEF c, h
<1>2. IsTree(h) /\ h.status = t.status /\ h.kept = c /\ h.cur = t.cur
  BY <1>1 DEF IsTree
<1> QED
  BY <1>2 DEF c, h

LEMMA FailF ==
    ASSUME NEW t, IsTree(t)
    PROVE  /\ IsTree(Fail(t)) /\ Fail(t).status = "parse_error" /\ Fail(t).cur = t.cur
           /\ IsTree(Crash(t)) /\ Crash(t).status = "crashed" /\ Crash(t).cur = t.cur
<1>1. Fail(t) = [status |-> "parse_error", cur |-> t.cur, kept |-> t.kept]
  BY DEF Fail, IsTree
<1>2. Crash(t) = [status |-> "crashed", cur |-> t.cur, kept |-> t.kept]
  BY DEF Crash, IsTree
<1> QED
  BY <1>1, <1>2 DEF IsTree

\* The type of a parser's records, over a set of slots.
TreeOver(slots, t) == IsTree(t) /\ t.cur \in [slots -> Nat]

LEMMA HoldT ==
    ASSUME NEW S, NEW t, TreeOver(S, t), NEW s, NEW v \in Nat
    PROVE  TreeOver(S, Hold(t, s, v)) /\ Hold(t, s, v).status = t.status
<1> DEFINE h == Hold(t, s, v)
<1>1. IsTree(t) /\ t.cur \in [S -> Nat]
  BY DEF TreeOver
<1>2. /\ IsTree(h) /\ h.status = t.status
      /\ h.kept = t.kept /\ h.cur = [t.cur EXCEPT ![s] = v]
  BY <1>1, HoldF
<1> HIDE DEF h
<1> QED
  BY <1>1, <1>2 DEF TreeOver, h

LEMMA DropT ==
    ASSUME NEW S, NEW t, TreeOver(S, t), NEW s
    PROVE  TreeOver(S, Drop(t, s)) /\ Drop(t, s).status = t.status
<1> DEFINE v == 0
<1>1. v \in Nat
  OBVIOUS
<1> HIDE DEF v
<1>2. TreeOver(S, Hold(t, s, v)) /\ Hold(t, s, v).status = t.status
  BY <1>1, HoldT
<1> QED
  BY <1>2 DEF Drop, v

LEMMA PushT ==
    ASSUME NEW S, NEW t, TreeOver(S, t), NEW o, NEW n, NEW k
    PROVE  TreeOver(S, Push(t, o, n, k)) /\ Push(t, o, n, k).status = t.status
<1> DEFINE h == Push(t, o, n, k)
<1>1. IsTree(t) /\ t.cur \in [S -> Nat]
  BY DEF TreeOver
<1>2. /\ IsTree(h) /\ h.status = t.status
      /\ h.kept = Append(t.kept, <<o, n, k>>) /\ h.cur = t.cur
  BY <1>1, PushF
<1> HIDE DEF h
<1> QED
  BY <1>1, <1>2 DEF TreeOver, h

LEMMA FlushT ==
    ASSUME NEW S, NEW t, TreeOver(S, t), NEW s, NEW o, NEW k
    PROVE  TreeOver(S, Flush(t, s, o, k)) /\ Flush(t, s, o, k).status = t.status
<1> DEFINE f == Flush(t, s, o, k)
           u == Push(t, o, t.cur[s], k)
<1>1. TreeOver(S, u) /\ u.status = t.status
  BY PushT
<1>2. TreeOver(S, Drop(u, s)) /\ Drop(u, s).status = u.status
  <2> HIDE DEF u
  <2> QED
    BY <1>1, DropT
<1>3. f = t \/ f = Drop(u, s)
  BY DEF Flush
<1> HIDE DEF f, u
<1> QED
  BY <1>1, <1>2, <1>3 DEF f

LEMMA FailT ==
    ASSUME NEW S, NEW t, TreeOver(S, t)
    PROVE  TreeOver(S, Fail(t)) /\ Fail(t).status = "parse_error"
<1>1. IsTree(t) /\ t.cur \in [S -> Nat]
  BY DEF TreeOver
<1>2. /\ IsTree(Fail(t)) /\ Fail(t).status = "parse_error" /\ Fail(t).cur = t.cur
      /\ IsTree(Crash(t)) /\ Crash(t).status = "crashed" /\ Crash(t).cur = t.cur
  BY <1>1, FailF
<1> QED
  BY <1>1, <1>2 DEF TreeOver

LEMMA CrashT ==
    ASSUME NEW S, NEW t, TreeOver(S, t)
    PROVE  TreeOver(S, Crash(t)) /\ Crash(t).status = "crashed"
<1>1. IsTree(t) /\ t.cur \in [S -> Nat]
  BY DEF TreeOver
<1>2. /\ IsTree(Fail(t)) /\ Fail(t).status = "parse_error" /\ Fail(t).cur = t.cur
      /\ IsTree(Crash(t)) /\ Crash(t).status = "crashed" /\ Crash(t).cur = t.cur
  BY <1>1, FailF
<1> QED
  BY <1>1, <1>2 DEF TreeOver

\* The first c lines that begin or are records.
RecordsTo(w, owners, c) == {n \in 1..c : w[n] \in DOMAIN owners}

LEMMA ShownSame ==
    ASSUME NEW w, NEW owners, NEW c \in Nat, w[c + 1] \notin DOMAIN owners
    PROVE  RecordsTo(w, owners, c + 1) = RecordsTo(w, owners, c)
<1> DEFINE n == c + 1
<1>1. \A m : m \in 1..n <=> m \in 1..c \/ m = n
  OBVIOUS
<1> HIDE DEF n
<1>2. RecordsTo(w, owners, n) = RecordsTo(w, owners, c)
  BY <1>1 DEF RecordsTo, n
<1> QED
  BY <1>2 DEF n

LEMMA ShownMore ==
    ASSUME NEW w, NEW owners, NEW c \in Nat, w[c + 1] \in DOMAIN owners
    PROVE  RecordsTo(w, owners, c + 1) = RecordsTo(w, owners, c) \union {c + 1}
<1> DEFINE n == c + 1
<1>1. \A m : m \in 1..n <=> m \in 1..c \/ m = n
  OBVIOUS
<1> HIDE DEF n
<1>2. RecordsTo(w, owners, n) = RecordsTo(w, owners, c) \union {n}
  BY <1>1 DEF RecordsTo, n
<1> QED
  BY <1>2 DEF n

LEMMA ShownAbove ==
    ASSUME NEW w, NEW owners, NEW c \in Nat, NEW n \in RecordsTo(w, owners, c)
    PROVE  n \in 1..c /\ n < c + 1 /\ n # c + 1
  BY DEF RecordsTo

LEMMA ShownAll ==
    ASSUME NEW T, NEW w \in Seq(T), NEW owners
    PROVE  RecordLines(w, owners) = RecordsTo(w, owners, Len(w))
  BY DEF RecordLines, RecordsTo

\* The record of the line just read goes last.
LEMMA PushLine ==
    ASSUME NEW w, NEW owners, NEW c \in Nat, NEW kept, NEW S \in SUBSET RecordsTo(w, owners, c),
           Tidy(w, owners, S, kept), NEW o, o = Owner(w, c + 1, owners),
           NEW k, k = Vector(w[c + 1])
    PROVE  Tidy(w, owners, S \union {c + 1}, Append(kept, <<o, c + 1, k>>))
<1> DEFINE n == c + 1
<1>1. \A m \in S : m < n /\ m # n
  BY ShownAbove
<1>2. o = Owner(w, n, owners) /\ k = Vector(w[n])
  OBVIOUS
<1> HIDE DEF n
<1>3. n \notin S
  BY <1>1
<1>4. Tidy(w, owners, S \union {n}, Append(kept, <<o, n, k>>))
  BY <1>1, <1>2, <1>3, TidyPush
<1> QED
  BY <1>4 DEF n

-----------------------------------------------------------------------------
(* The matrix.  In a whole orderly file w, c lines of it read: no record is *)
(* current, or the one whose line was just read and whose brace is next, or *)
(* one in braces.                                                           *)

StepKinds == {"STEP", "STEP{"}
LayerKinds == {"LAYER", "LAYER{"}
Openers == {"STEP{", "LAYER{", "{"}
Inside == {"ATTR", "HEAD"}

MatrixTree(p) == TreeOver(MatrixSlots, p)

MatrixIdle(w, c, p) ==
    /\ p.cur["step"] = 0 /\ p.cur["layer"] = 0 /\ p.cur["brace"] = 0
    /\ c > 0 => w[c] \notin {"STEP", "LAYER"}
    /\ \A m \in 1..c : w[m] \in Openers => \E k \in (m + 1)..c : w[k] \notin Inside
    /\ Tidy(w, MatrixOwners, RecordsTo(w, MatrixOwners, c), p.kept)

MatrixHolds(w, c, p, r) ==
    /\ r \in 1..c /\ w[r] \in MatrixRecordKinds
    /\ p.cur["step"] = (IF w[r] \in StepKinds THEN r ELSE 0)
    /\ p.cur["layer"] = (IF w[r] \in StepKinds THEN 0 ELSE r)
    /\ \A k \in (r + 1)..c : w[k] \notin MatrixRecordKinds
    /\ Tidy(w, MatrixOwners, RecordsTo(w, MatrixOwners, c) \ {r}, p.kept)

MatrixBegun(w, c, p) ==
    MatrixHolds(w, c, p, c) /\ w[c] \in {"STEP", "LAYER"} /\ p.cur["brace"] = 0

MatrixOpened(w, c, p) ==
    \E r \in 1..c : \E m \in r..c :
       /\ MatrixHolds(w, c, p, r) /\ p.cur["brace"] # 0
       /\ w[m] \in Openers /\ \A k \in (m + 1)..c : w[k] \in Inside

MatrixShape(w, c, p) ==
    MatrixIdle(w, c, p) \/ MatrixBegun(w, c, p) \/ MatrixOpened(w, c, p)

LEMMA MatrixOwnersAre ==
    /\ DOMAIN MatrixOwners = MatrixRecordKinds \union {"ATTR"}
    /\ MatrixOwners["ATTR"] = MatrixRecordKinds
    /\ \A k \in MatrixRecordKinds : MatrixOwners[k] = {}
  BY DEF MatrixOwners, MatrixRecordKinds

\* What an orderly file says of a line and the next.
MatrixRule(w, n) ==
    /\ w[n] # "BAD"
    /\ n < Len(w) => (w[n] \in {"STEP", "LAYER"} <=> w[n + 1] = "{")
    /\ n = Len(w) => w[n] \notin {"STEP", "LAYER"}
    /\ w[n] \in Openers => \E m \in (n + 1)..Len(w) :
             w[m] = "}" /\ \A k \in (n + 1)..(m - 1) : w[k] \in Inside
    /\ w[n] \in {"ATTR", "}"} => \E m \in 1..(n - 1) :
             w[m] \in Openers /\ \A k \in (m + 1)..(n - 1) : w[k] \in Inside
    /\ n = 1 => w[n] # "{"

LEMMA MatrixOrder ==
    ASSUME NEW w \in Seq(Token), MatrixOrderly(w), NEW n \in 1..Len(w)
    PROVE  MatrixRule(w, n)
<1> DEFINE next(i) == IF i = Len(w) THEN "EOF" ELSE w[i + 1]
<1>1. n \in DOMAIN w
  OBVIOUS
<1>2. /\ w[n] # "BAD"
      /\ w[n] \in {"STEP", "LAYER"} <=> next(n) = "{"
      /\ w[n] \in Openers => \E m \in (n + 1)..Len(w) :
               w[m] = "}" /\ \A k \in (n + 1)..(m - 1) : w[k] \in Inside
      /\ w[n] \in {"ATTR", "}"} => \E m \in 1..(n - 1) :
               w[m] \in Openers /\ \A k \in (m + 1)..(n - 1) : w[k] \in Inside
      /\ n = 1 => w[n] # "{"
  BY <1>1 DEF MatrixOrderly, Openers, Inside
<1>3. /\ n < Len(w) => next(n) = w[n + 1]
      /\ n = Len(w) => next(n) = "EOF"
  OBVIOUS
<1> QED
  BY <1>2, <1>3 DEF MatrixRule

LEMMA MatrixLineTypes ==
    ASSUME NEW p, MatrixTree(p), p.status = "reading", NEW k \in MatrixKinds, NEW n \in Nat
    PROVE  MatrixTree(MatrixLine(p, k, n)) /\ MatrixLine(p, k, n).status \in {"reading", "parse_error"}
<1> DEFINE Typed(t) == MatrixTree(t) /\ t.status \in {"reading", "parse_error"}
           Both(t) == MatrixTree(t) /\ t.status = "reading"
<1>1. ASSUME NEW t, Both(t), NEW s, NEW v \in Nat PROVE Both(Hold(t, s, v))
  <2>1. TreeOver(MatrixSlots, Hold(t, s, v)) /\ Hold(t, s, v).status = t.status
    BY <1>1, HoldT DEF MatrixTree
  <2> QED
    BY <1>1, <2>1 DEF MatrixTree
<1>2. ASSUME NEW t, Both(t), NEW s PROVE Both(Drop(t, s))
  <2>1. TreeOver(MatrixSlots, Drop(t, s)) /\ Drop(t, s).status = t.status
    BY <1>2, DropT DEF MatrixTree
  <2> QED
    BY <1>2, <2>1 DEF MatrixTree
<1>3. ASSUME NEW t, Both(t), NEW o, NEW v, NEW x PROVE Both(Push(t, o, v, x))
  <2>1. TreeOver(MatrixSlots, Push(t, o, v, x)) /\ Push(t, o, v, x).status = t.status
    BY <1>3, PushT DEF MatrixTree
  <2> QED
    BY <1>3, <2>1 DEF MatrixTree
<1>4. Typed(Fail(p))
  <2>1. TreeOver(MatrixSlots, Fail(p)) /\ Fail(p).status = "parse_error"
    BY FailT DEF MatrixTree
  <2> QED
    BY <2>1 DEF MatrixTree
<1>5. Both(p) /\ \A t : Both(t) => Typed(t)
  OBVIOUS
<1> HIDE DEF Typed, Both
<1>7. ASSUME NEW s, NEW b \in BOOLEAN PROVE Typed(BeginRecord(p, n, s, b))
  BY <1>1, <1>4, <1>5, <1>7 DEF BeginRecord
<1>8. ASSUME NEW t, Both(t), NEW s, NEW o, NEW x PROVE Both(Flush(t, s, o, x))
  BY <1>2, <1>3, <1>8 DEF Flush
<1>9. Typed(OpenBraceLine(p, n))
  BY <1>1, <1>4, <1>5 DEF OpenBraceLine
<1>10. Typed(CloseBraceLine(p, n))
  BY <1>2, <1>4, <1>5, <1>8 DEF CloseBraceLine
<1>11. Typed(AttributeLine(p, n))
  BY <1>3, <1>4, <1>5 DEF AttributeLine
<1>12. Typed(MatrixHeadLine(p, n))
  BY <1>5 DEF MatrixHeadLine
<1>13. \A b \in BOOLEAN : Typed(StepRecordLine(p, n, b)) /\ Typed(LayerRecordLine(p, n, b))
  BY <1>7 DEF StepRecordLine, LayerRecordLine
<1>14. Typed(MatrixLine(p, k, n))
  BY <1>4, <1>9, <1>10, <1>11, <1>12, <1>13 DEF MatrixLine, MatrixKinds, MatrixRecordKinds
<1> QED
  BY <1>14 DEF Typed

\* The line that may come next.
LEMMA MatrixNextKinds ==
    ASSUME NEW w \in Seq(Token), MatrixOrderly(w), NEW c \in Nat, c < Len(w), NEW p,
           w[c + 1] \in MatrixKinds
    PROVE  /\ w[c + 1] # "BAD"
           /\ MatrixIdle(w, c, p) => w[c + 1] \in {"HEAD", "STEP", "STEP{", "LAYER", "LAYER{"}
           /\ MatrixBegun(w, c, p) => w[c + 1] = "{"
           /\ MatrixOpened(w, c, p) => w[c + 1] \in {"HEAD", "ATTR", "}"}
<1> DEFINE n == c + 1
<1>1. n \in 1..Len(w) /\ n - 1 = c /\ Len(w) \in Nat
  OBVIOUS
<1>r. \A i \in 1..Len(w) : MatrixRule(w, i)
  BY MatrixOrder
<1>2. w[n] # "BAD" /\ (n = 1 => w[n] # "{")
  BY <1>1, <1>r DEF MatrixRule
<1>3. c > 0 => (w[c] \in {"STEP", "LAYER"} <=> w[n] = "{")
  <2>1. c > 0 => c \in 1..Len(w) /\ c < Len(w) /\ c + 1 = n
    OBVIOUS
  <2> HIDE DEF n
  <2>2. c > 0 => MatrixRule(w, c)
    BY <2>1, <1>r
  <2> QED
    BY <2>1, <2>2 DEF MatrixRule
<1>4. w[n] \in {"ATTR", "}"} => \E m \in 1..c : w[m] \in Openers /\ \A k \in (m + 1)..c : w[k] \in Inside
  <2>1. MatrixRule(w, n)
    BY <1>1, <1>r
  <2> HIDE DEF n
  <2> QED
    BY <1>1, <2>1 DEF MatrixRule
<1>5. ASSUME NEW m \in 1..c, w[m] \in Openers, \A k \in (m + 1)..c : w[k] \in Inside
      PROVE  w[n] \in {"HEAD", "ATTR", "}"}
  <2>0. m \in 1..Len(w) /\ MatrixRule(w, m)
    BY <1>1, <1>r
  <2>1. PICK z \in (m + 1)..Len(w) : w[z] = "}" /\ \A k \in (m + 1)..(z - 1) : w[k] \in Inside
    BY <1>5, <2>0 DEF MatrixRule
  <2>2. z \in Nat /\ z > c
    <3>1. ~(z \in (m + 1)..c)
      BY <1>5, <2>1 DEF Inside
    <3> QED
      BY <3>1
  <2>3. z = n \/ n \in (m + 1)..(z - 1)
    BY <1>1, <2>2
  <2> QED
    BY <2>1, <2>3 DEF Inside
<1>m. w[n] \in MatrixKinds
  OBVIOUS
<1> HIDE DEF n
<1>z. c = 0 => n = 1
  BY DEF n
<1>6. ASSUME MatrixIdle(w, c, p) PROVE w[n] \in {"HEAD", "STEP", "STEP{", "LAYER", "LAYER{"}
  <2>0. /\ \A m \in 1..c : w[m] \in Openers => \E k \in (m + 1)..c : w[k] \notin Inside
        /\ c > 0 => ~(w[c] \in {"STEP", "LAYER"})
    BY <1>6 DEF MatrixIdle
  <2>1. ~(w[n] \in {"ATTR", "}"})
    BY <1>4, <2>0
  <2>2. w[n] # "{"
    <3>1. c = 0 \/ c > 0
      OBVIOUS
    <3> QED
      BY <1>2, <1>3, <1>z, <2>0, <3>1
  <2> QED
    BY <1>2, <1>m, <2>1, <2>2 DEF MatrixKinds, MatrixRecordKinds
<1>7. ASSUME MatrixBegun(w, c, p) PROVE w[n] = "{"
  <2>1. w[c] \in {"STEP", "LAYER"} /\ c \in 1..c
    BY <1>7 DEF MatrixBegun, MatrixHolds
  <2>2. c > 0
    BY <2>1
  <2> QED
    BY <1>3, <2>1, <2>2, Zenon
<1>8. ASSUME MatrixOpened(w, c, p) PROVE w[n] \in {"HEAD", "ATTR", "}"}
  <2>1. PICK m \in 1..c : w[m] \in Openers /\ \A k \in (m + 1)..c : w[k] \in Inside
    BY <1>8 DEF MatrixOpened
  <2> QED
    BY <1>5, <2>1, Zenon
<1> QED
  BY <1>2, <1>6, <1>7, <1>8 DEF n

\* The operations of the matrix by kind.
LEMMA MatrixLineIs ==
    ASSUME NEW p, NEW n
    PROVE  /\ MatrixLine(p, "HEAD", n) = p
           /\ MatrixLine(p, "STEP", n) = BeginRecord(p, n, "step", FALSE)
           /\ MatrixLine(p, "STEP{", n) = BeginRecord(p, n, "step", TRUE)
           /\ MatrixLine(p, "LAYER", n) = BeginRecord(p, n, "layer", FALSE)
           /\ MatrixLine(p, "LAYER{", n) = BeginRecord(p, n, "layer", TRUE)
           /\ MatrixLine(p, "{", n) = OpenBraceLine(p, n)
           /\ MatrixLine(p, "}", n) = CloseBraceLine(p, n)
           /\ MatrixLine(p, "ATTR", n) = AttributeLine(p, n)
  BY DEF MatrixLine, MatrixHeadLine, StepRecordLine, LayerRecordLine

LEMMA MatrixHead ==
    ASSUME NEW w \in Seq(Token), NEW c \in Nat, NEW p, w[c + 1] = "HEAD",
           MatrixIdle(w, c, p) \/ MatrixOpened(w, c, p)
    PROVE  MatrixShape(w, c + 1, p)
<1> DEFINE n == c + 1
<1>1. "HEAD" \notin DOMAIN MatrixOwners /\ "HEAD" \notin MatrixRecordKinds
  BY MatrixOwnersAre DEF MatrixRecordKinds
<1>2. RecordsTo(w, MatrixOwners, n) = RecordsTo(w, MatrixOwners, c)
  BY <1>1, ShownSame
<1>3. \A k \in 1..n : k # n => k \in 1..c
  OBVIOUS
<1>4. w[n] = "HEAD" /\ n \in Nat
  OBVIOUS
<1>5. CASE MatrixIdle(w, c, p)
  <2>1. \A m \in 1..n : w[m] \in Openers => \E k \in (m + 1)..n : w[k] \notin Inside
    <3> SUFFICES ASSUME NEW m \in 1..n, w[m] \in Openers PROVE \E k \in (m + 1)..n : w[k] \notin Inside
      OBVIOUS
    <3>1. m \in 1..c
      BY <1>3, <1>4 DEF Openers
    <3>2. PICK k \in (m + 1)..c : w[k] \notin Inside
      BY <1>5, <3>1 DEF MatrixIdle
    <3> QED
      BY <3>2
  <2> HIDE DEF n
  <2>2. MatrixIdle(w, n, p)
    BY <1>2, <1>4, <1>5, <2>1 DEF MatrixIdle
  <2> QED
    BY <2>2 DEF MatrixShape, n
<1>6. CASE MatrixOpened(w, c, p)
  <2>1. PICK r \in 1..c, m \in 1..c :
           /\ m \in r..c
           /\ MatrixHolds(w, c, p, r) /\ p.cur["brace"] # 0
           /\ w[m] \in Openers /\ \A k \in (m + 1)..c : w[k] \in Inside
    BY <1>6 DEF MatrixOpened
  <2>2. r \in 1..n /\ m \in r..n
    BY <2>1
  <2>3. \A k \in (m + 1)..n : w[k] \in Inside
    <3>1. \A k \in (m + 1)..n : k = n \/ k \in (m + 1)..c
      OBVIOUS
    <3> QED
      BY <1>4, <2>1, <3>1 DEF Inside
  <2>4. \A k \in (r + 1)..n : w[k] \notin MatrixRecordKinds
    <3>1. \A k \in (r + 1)..n : k = n \/ k \in (r + 1)..c
      OBVIOUS
    <3> QED
      BY <1>1, <1>4, <2>1, <3>1 DEF MatrixHolds
  <2> HIDE DEF n
  <2>5. MatrixHolds(w, n, p, r)
    BY <1>2, <2>1, <2>2, <2>4 DEF MatrixHolds
  <2>6. MatrixOpened(w, n, p)
    BY <2>1, <2>2, <2>3, <2>5 DEF MatrixOpened
  <2> QED
    BY <2>6 DEF MatrixShape, n
<1> QED
  BY <1>5, <1>6

\* The records after each operation, slot by slot.
Held(h, t, S, s, v) ==
    /\ TreeOver(S, h) /\ h.status = t.status /\ h.kept = t.kept
    /\ h.cur[s] = v
    /\ \A x \in S : x # s => h.cur[x] = t.cur[x]

Pushed(h, t, S, o, n, k) ==
    /\ TreeOver(S, h) /\ h.status = t.status /\ h.cur = t.cur
    /\ h.kept = Append(t.kept, <<o, n, k>>)

Flushed(h, t, S, s, o, k) ==
    /\ TreeOver(S, h) /\ h.status = t.status
    /\ h.kept = Append(t.kept, <<o, t.cur[s], k>>)
    /\ h.cur[s] = 0
    /\ \A x \in S : x # s => h.cur[x] = t.cur[x]

LEMMA HoldHeld ==
    ASSUME NEW S, NEW t, TreeOver(S, t), NEW s \in S, NEW v \in Nat
    PROVE  Held(Hold(t, s, v), t, S, s, v)
<1> DEFINE h == Hold(t, s, v)
<1>1. IsTree(t) /\ t.cur \in [S -> Nat]
  BY DEF TreeOver
<1>2. /\ IsTree(h) /\ h.status = t.status
      /\ h.kept = t.kept /\ h.cur = [t.cur EXCEPT ![s] = v]
  BY <1>1, HoldF
<1> HIDE DEF h
<1>3. h.cur \in [S -> Nat] /\ h.cur[s] = v /\ \A x \in S : x # s => h.cur[x] = t.cur[x]
  BY <1>1, <1>2
<1> QED
  BY <1>2, <1>3 DEF TreeOver, Held, h

LEMMA DropHeld ==
    ASSUME NEW S, NEW t, TreeOver(S, t), NEW s \in S
    PROVE  Held(Drop(t, s), t, S, s, 0)
<1> DEFINE v == 0
<1>1. v \in Nat
  OBVIOUS
<1> HIDE DEF v
<1>2. Held(Hold(t, s, v), t, S, s, v)
  BY <1>1, HoldHeld
<1> QED
  BY <1>2 DEF Drop, v

LEMMA PushPushed ==
    ASSUME NEW S, NEW t, TreeOver(S, t), NEW o, NEW n, NEW k
    PROVE  Pushed(Push(t, o, n, k), t, S, o, n, k)
<1> DEFINE h == Push(t, o, n, k)
           l == Append(t.kept, <<o, n, k>>)
<1>1. IsTree(t) /\ t.cur \in [S -> Nat]
  BY DEF TreeOver
<1>2. /\ IsTree(h) /\ h.status = t.status
      /\ h.kept = l /\ h.cur = t.cur
  BY <1>1, PushF
<1> HIDE DEF h, l
<1>3. TreeOver(S, h)
  BY <1>1, <1>2 DEF TreeOver
<1>4. h.kept = Append(t.kept, <<o, n, k>>)
  BY <1>2 DEF l
<1>5. Pushed(h, t, S, o, n, k)
  BY <1>2, <1>3, <1>4, Zenon DEF Pushed
<1> QED
  BY <1>5 DEF h

LEMMA FlushFlushed ==
    ASSUME NEW S, NEW t, TreeOver(S, t), NEW s \in S, t.cur[s] # 0, NEW o, NEW k
    PROVE  Flushed(Flush(t, s, o, k), t, S, s, o, k)
<1> DEFINE n == t.cur[s]
           u == Push(t, o, n, k)
           d == Drop(u, s)
           e == <<o, t.cur[s], k>>
<1>1. Flush(t, s, o, k) = d
  BY DEF Flush, Holds
<1>2. Pushed(u, t, S, o, n, k)
  BY PushPushed
<1> HIDE DEF u
<1>3. TreeOver(S, u)
  BY <1>2, Zenon DEF Pushed
<1>4. Held(d, u, S, s, 0)
  BY <1>3, DropHeld
<1> HIDE DEF d
<1>5. u.status = t.status /\ u.cur = t.cur /\ u.kept = Append(t.kept, <<o, n, k>>)
  BY <1>2, Zenon DEF Pushed
<1>6. /\ TreeOver(S, d) /\ d.status = u.status /\ d.kept = u.kept
      /\ d.cur[s] = 0 /\ \A x \in S : x # s => d.cur[x] = u.cur[x]
  BY <1>4, Zenon DEF Held
<1>7. d.kept = Append(t.kept, <<o, t.cur[s], k>>)
  BY <1>5, <1>6, Zenon
<1>8. Flushed(d, t, S, s, o, k)
  BY <1>5, <1>6, <1>7, Zenon DEF Flushed
<1> QED
  BY <1>1, <1>8

\* A record's line.
LEMMA MatrixBegins ==
    ASSUME NEW w \in Seq(Token), NEW c \in Nat, NEW p, MatrixTree(p), p.status = "reading",
           w[c + 1] \in MatrixRecordKinds, MatrixIdle(w, c, p)
    PROVE  /\ MatrixLine(p, w[c + 1], c + 1).status = "reading"
           /\ MatrixShape(w, c + 1, MatrixLine(p, w[c + 1], c + 1))
<1> DEFINE n == c + 1
           slot == IF w[n] \in StepKinds THEN "step" ELSE "layer"
           other == IF w[n] \in StepKinds THEN "layer" ELSE "step"
           braced == w[n] \in {"STEP{", "LAYER{"}
           h == Hold(p, slot, n)
           b == Hold(h, "brace", n)
           q == MatrixLine(p, w[n], n)
<1>1. n \in Nat /\ n # 0 /\ n \in 1..n /\ n \in n..n
  OBVIOUS
<1>2. /\ p.cur["step"] = 0 /\ p.cur["layer"] = 0 /\ p.cur["brace"] = 0
      /\ Tidy(w, MatrixOwners, RecordsTo(w, MatrixOwners, c), p.kept)
  BY DEF MatrixIdle
<1>3. w[n] \in DOMAIN MatrixOwners
  BY MatrixOwnersAre
<1>4. RecordsTo(w, MatrixOwners, n) \ {n} = RecordsTo(w, MatrixOwners, c)
  <2>1. \A m : m \in 1..n <=> m \in 1..c \/ m = n
    OBVIOUS
  <2>2. ~(n \in 1..c)
    OBVIOUS
  <2> HIDE DEF n
  <2> QED
    BY <2>1, <2>2 DEF RecordsTo
<1>5. \A k \in (n + 1)..n : w[k] \notin MatrixRecordKinds
  OBVIOUS
<1>6. \A k \in (n + 1)..n : w[k] \in Inside
  OBVIOUS
<1>k. w[n] \in {"STEP", "STEP{", "LAYER", "LAYER{"}
  BY DEF MatrixRecordKinds
<1> HIDE DEF n
<1>7. q = (IF braced THEN b ELSE h)
  <2>1. p.cur[slot] = 0
    BY <1>2
  <2>2. w[n] = "STEP" => q = h
    BY <2>1 DEF MatrixLine, StepRecordLine, BeginRecord, Holds, StepKinds
  <2>3. w[n] = "STEP{" => q = b
    BY <2>1 DEF MatrixLine, StepRecordLine, BeginRecord, Holds, StepKinds
  <2>4. w[n] = "LAYER" => q = h
    BY <2>1 DEF MatrixLine, LayerRecordLine, BeginRecord, Holds, StepKinds
  <2>5. w[n] = "LAYER{" => q = b
    BY <2>1 DEF MatrixLine, LayerRecordLine, BeginRecord, Holds, StepKinds
  <2> HIDE DEF q, h, b
  <2> QED
    BY <1>k, <2>2, <2>3, <2>4, <2>5
<1> HIDE DEF q
<1>8. TreeOver(MatrixSlots, p) /\ slot \in MatrixSlots
  BY DEF MatrixTree, MatrixSlots
<1>9. slot # other /\ other \in MatrixSlots /\ slot # "brace" /\ other # "brace" /\ "brace" \in MatrixSlots
  BY DEF MatrixSlots
<1>s. /\ p.cur[other] = 0 /\ p.cur["brace"] = 0
      /\ (w[n] \in StepKinds => slot = "step" /\ other = "layer")
      /\ (w[n] \notin StepKinds => slot = "layer" /\ other = "step")
  BY <1>2
<1> HIDE DEF slot, other
<1>10. Held(h, p, MatrixSlots, slot, n)
  BY <1>1, <1>8, HoldHeld
<1> HIDE DEF h
<1>11. /\ TreeOver(MatrixSlots, h) /\ h.status = p.status /\ h.kept = p.kept
       /\ h.cur[slot] = n /\ h.cur[other] = 0 /\ h.cur["brace"] = 0
  BY <1>9, <1>10, <1>s DEF Held
<1>12. Held(b, h, MatrixSlots, "brace", n)
  BY <1>1, <1>9, <1>11, HoldHeld
<1> HIDE DEF b
<1>13. /\ b.status = p.status /\ b.kept = p.kept
       /\ b.cur[slot] = n /\ b.cur[other] = 0 /\ b.cur["brace"] = n
  <2>1. /\ b.status = h.status /\ b.kept = h.kept /\ b.cur["brace"] = n
        /\ \A x \in MatrixSlots : x # "brace" => b.cur[x] = h.cur[x]
    BY <1>12, Zenon DEF Held
  <2>2. b.cur[slot] = h.cur[slot] /\ b.cur[other] = h.cur[other]
    BY <1>8, <1>9, <2>1, Zenon
  <2> QED
    BY <1>11, <2>1, <2>2, Zenon
<1>14. /\ q.status = "reading" /\ q.kept = p.kept
       /\ q.cur[slot] = n /\ q.cur[other] = 0
       /\ q.cur["brace"] = (IF braced THEN n ELSE 0)
  BY <1>7, <1>11, <1>13
<1>15. MatrixHolds(w, n, q, n)
  <2>1. /\ q.cur["step"] = (IF w[n] \in StepKinds THEN n ELSE 0)
        /\ q.cur["layer"] = (IF w[n] \in StepKinds THEN 0 ELSE n)
    BY <1>14, <1>s
  <2>2. Tidy(w, MatrixOwners, RecordsTo(w, MatrixOwners, n) \ {n}, q.kept)
    BY <1>2, <1>4, <1>14
  <2>3. w[n] \in MatrixRecordKinds
    BY <1>k DEF MatrixRecordKinds
  <2> QED
    BY <1>1, <1>5, <2>1, <2>2, <2>3, Zenon DEF MatrixHolds
<1>16. MatrixShape(w, n, q)
  <2>1. CASE braced
    <3>1. w[n] \in Openers
      BY <2>1 DEF Openers
    <3>2. q.cur["brace"] # 0
      BY <1>1, <1>14, <2>1
    <3>3. MatrixOpened(w, n, q)
      BY <1>1, <1>6, <1>15, <3>1, <3>2 DEF MatrixOpened
    <3> QED
      BY <3>3 DEF MatrixShape
  <2>2. CASE ~braced
    <3>1. w[n] \in {"STEP", "LAYER"} /\ q.cur["brace"] = 0
      BY <1>k, <1>14, <2>2
    <3>2. MatrixBegun(w, n, q)
      BY <1>15, <3>1 DEF MatrixBegun
    <3> QED
      BY <3>2 DEF MatrixShape
  <2> QED
    BY <2>1, <2>2
<1> QED
  BY <1>14, <1>16 DEF q, n

\* The braces.
OpenBrace == "{"
CloseBrace == "}"

LEMMA BraceIs ==
    /\ OpenBrace \in Openers
    /\ OpenBrace \notin MatrixRecordKinds
    /\ OpenBrace \notin MatrixRecordKinds \union {"ATTR"}
    /\ CloseBrace \notin Openers
    /\ CloseBrace \notin MatrixRecordKinds
    /\ CloseBrace \notin MatrixRecordKinds \union {"ATTR"}
    /\ CloseBrace \notin Inside
    /\ CloseBrace \notin {"STEP", "LAYER"}
  BY Zenon DEF OpenBrace, CloseBrace, Openers, Inside, MatrixRecordKinds

\* The brace of the record whose line was just read.
LEMMA MatrixOpens ==
    ASSUME NEW w \in Seq(Token), NEW c \in Nat, NEW p, MatrixTree(p), p.status = "reading",
           w[c + 1] = OpenBrace, MatrixBegun(w, c, p)
    PROVE  /\ MatrixLine(p, w[c + 1], c + 1).status = "reading"
           /\ MatrixShape(w, c + 1, MatrixLine(p, w[c + 1], c + 1))
<1> DEFINE n == c + 1
           q == MatrixLine(p, w[n], n)
           h == Hold(p, "brace", n)
<1>1. /\ MatrixHolds(w, c, p, c) /\ p.cur["brace"] = 0
  BY DEF MatrixBegun
<1>2. /\ c \in 1..c /\ w[c] \in MatrixRecordKinds
      /\ p.cur["step"] = (IF w[c] \in StepKinds THEN c ELSE 0)
      /\ p.cur["layer"] = (IF w[c] \in StepKinds THEN 0 ELSE c)
      /\ Tidy(w, MatrixOwners, RecordsTo(w, MatrixOwners, c) \ {c}, p.kept)
  BY <1>1 DEF MatrixHolds
<1>3. c # 0 /\ c \in 1..n /\ n \in c..n /\ n \in Nat /\ n # 0
  BY <1>2
<1>4. \A k \in (c + 1)..n : k = n
  OBVIOUS
<1>5. \A k \in (n + 1)..n : w[k] \in Inside
  OBVIOUS
<1>6. RecordsTo(w, MatrixOwners, n) = RecordsTo(w, MatrixOwners, c)
  <2>1. w[n] \notin DOMAIN MatrixOwners
    BY MatrixOwnersAre, BraceIs
  <2>2. \A m : m \in 1..n <=> m \in 1..c \/ m = n
    OBVIOUS
  <2> HIDE DEF n
  <2> QED
    BY <2>1, <2>2 DEF RecordsTo
<1>7. w[n] = OpenBrace
  OBVIOUS
<1> HIDE DEF n
<1>8. q = h
  <2>1. p.cur["step"] # 0 \/ p.cur["layer"] # 0
    BY <1>2, <1>3
  <2>2. MatrixLine(p, w[n], n) = OpenBraceLine(p, n)
    <3>1. \A x : MatrixLine(p, OpenBrace, x) = OpenBraceLine(p, x)
      BY Zenon DEF MatrixLine, OpenBrace
    <3> QED
      BY <1>7, <3>1, Zenon
  <2> QED
    BY <1>1, <2>1, <2>2 DEF OpenBraceLine, Holds
<1> HIDE DEF q
<1>9. TreeOver(MatrixSlots, p) /\ "brace" \in MatrixSlots /\ "step" \in MatrixSlots /\ "layer" \in MatrixSlots
  BY DEF MatrixTree, MatrixSlots
<1>10. Held(h, p, MatrixSlots, "brace", n)
  BY <1>3, <1>9, HoldHeld
<1> HIDE DEF h
<1>11. /\ q.status = "reading" /\ q.kept = p.kept /\ q.cur["brace"] = n
       /\ q.cur["step"] = p.cur["step"] /\ q.cur["layer"] = p.cur["layer"]
  BY <1>8, <1>9, <1>10 DEF Held
<1>12. \A k \in (c + 1)..n : w[k] \notin MatrixRecordKinds
  BY <1>4, <1>7, BraceIs
<1>13. MatrixHolds(w, n, q, c)
  BY <1>2, <1>3, <1>6, <1>11, <1>12 DEF MatrixHolds
<1>14. MatrixOpened(w, n, q)
  <2>1. w[n] \in Openers /\ q.cur["brace"] # 0
    BY <1>3, <1>7, <1>11, BraceIs
  <2> QED
    BY <1>3, <1>5, <1>13, <2>1 DEF MatrixOpened
<1> QED
  BY <1>11, <1>14 DEF MatrixShape, q, n

\* An attribute of the record in braces.
LEMMA MatrixAttribute ==
    ASSUME NEW w \in Seq(Token), NEW c \in Nat, NEW p, MatrixTree(p), p.status = "reading",
           w[c + 1] = "ATTR", MatrixOpened(w, c, p)
    PROVE  /\ MatrixLine(p, w[c + 1], c + 1).status = "reading"
           /\ MatrixShape(w, c + 1, MatrixLine(p, w[c + 1], c + 1))
<1> DEFINE n == c + 1
           q == MatrixLine(p, w[n], n)
<1>1. PICK r \in 1..c, m \in 1..c :
           /\ m \in r..c
           /\ MatrixHolds(w, c, p, r) /\ p.cur["brace"] # 0
           /\ w[m] \in Openers /\ \A k \in (m + 1)..c : w[k] \in Inside
  BY DEF MatrixOpened
<1> DEFINE u == Push(p, r, n, "ATTR")
           shown == RecordsTo(w, MatrixOwners, c) \ {r}
<1>2. /\ r \in 1..c /\ w[r] \in MatrixRecordKinds
      /\ p.cur["step"] = (IF w[r] \in StepKinds THEN r ELSE 0)
      /\ p.cur["layer"] = (IF w[r] \in StepKinds THEN 0 ELSE r)
      /\ \A k \in (r + 1)..c : w[k] \notin MatrixRecordKinds
      /\ Tidy(w, MatrixOwners, shown, p.kept)
  BY <1>1 DEF MatrixHolds
<1>3. r # 0 /\ r \in 1..n /\ m \in r..n /\ n \in Nat /\ r \in 1..(n - 1) /\ n - 1 = c
  BY <1>1
<1>4. \A k \in (r + 1)..n : k = n \/ k \in (r + 1)..c
  OBVIOUS
<1>5. \A k \in (m + 1)..n : k = n \/ k \in (m + 1)..c
  OBVIOUS
<1>7. w[n] = "ATTR" /\ "ATTR" \in DOMAIN MatrixOwners /\ MatrixOwners["ATTR"] = MatrixRecordKinds
      /\ "ATTR" \notin MatrixRecordKinds
  BY MatrixOwnersAre DEF MatrixRecordKinds
<1>6. /\ RecordsTo(w, MatrixOwners, n) = RecordsTo(w, MatrixOwners, c) \union {n} /\ n # r
      /\ \A x \in RecordsTo(w, MatrixOwners, c) : x \in 1..c /\ x < n /\ x # n
  <2>2. /\ \A x : x \in 1..n <=> x \in 1..c \/ x = n
        /\ \A x \in 1..c : x < n /\ x # n
    OBVIOUS
  <2> HIDE DEF n
  <2> QED
    BY <1>7, <2>2 DEF RecordsTo
<1> HIDE DEF n
<1>8. q = u
  <2>2. MatrixLine(p, w[n], n) = AttributeLine(p, n)
    BY <1>7 DEF MatrixLine
  <2>3. AttributeLine(p, n) = u
    BY <1>1, <1>2, <1>3 DEF AttributeLine, Holds
  <2> QED
    BY <2>2, <2>3
<1> HIDE DEF q
<1>9. TreeOver(MatrixSlots, p)
  BY DEF MatrixTree
<1>10. Pushed(u, p, MatrixSlots, r, n, "ATTR")
  BY <1>9, PushPushed
<1> HIDE DEF u
<1>11. q.status = "reading" /\ q.cur = p.cur /\ q.kept = Append(p.kept, <<r, n, "ATTR">>)
  BY <1>8, <1>10, Zenon DEF Pushed
<1>12. \A k \in (r + 1)..(n - 1) : w[k] \notin MatrixOwners[w[n]]
  BY <1>2, <1>3, <1>7
<1>13. Owner(w, n, MatrixOwners) = r
  <2>1. w[r] \in MatrixOwners[w[n]]
    BY <1>2, <1>7
  <2> QED
    BY <1>3, <1>12, <2>1, OwnerIs
<1>14. Vector(w[n]) = "ATTR"
  BY <1>7 DEF Vector, FeatureLineKinds
<1>15. n \notin shown /\ \A x \in shown : x < n
  BY <1>6
<1>16. shown \union {n} = RecordsTo(w, MatrixOwners, n) \ {r}
  BY <1>6
<1> HIDE DEF shown
<1>17. Tidy(w, MatrixOwners, shown \union {n}, Append(p.kept, <<r, n, "ATTR">>))
  BY <1>2, <1>13, <1>14, <1>15, TidyPush
<1>18. MatrixHolds(w, n, q, r)
  <2>1. \A k \in (r + 1)..n : w[k] \notin MatrixRecordKinds
    BY <1>2, <1>4, <1>7
  <2>2. Tidy(w, MatrixOwners, RecordsTo(w, MatrixOwners, n) \ {r}, q.kept)
    BY <1>11, <1>16, <1>17
  <2>3. /\ q.cur["step"] = (IF w[r] \in StepKinds THEN r ELSE 0)
        /\ q.cur["layer"] = (IF w[r] \in StepKinds THEN 0 ELSE r)
    BY <1>2, <1>11
  <2> QED
    BY <1>2, <1>3, <2>1, <2>2, <2>3, Zenon DEF MatrixHolds
<1>19. \A k \in (m + 1)..n : w[k] \in Inside
  BY <1>1, <1>5, <1>7 DEF Inside
<1>20. MatrixOpened(w, n, q)
  BY <1>1, <1>3, <1>11, <1>18, <1>19 DEF MatrixOpened
<1> QED
  BY <1>11, <1>20 DEF MatrixShape, q, n

\* The brace that closes a record.
LEMMA MatrixCloses ==
    ASSUME NEW w \in Seq(Token), NEW c \in Nat, NEW p, MatrixTree(p), p.status = "reading",
           w[c + 1] = CloseBrace, MatrixOpened(w, c, p)
    PROVE  /\ MatrixLine(p, w[c + 1], c + 1).status = "reading"
           /\ MatrixShape(w, c + 1, MatrixLine(p, w[c + 1], c + 1))
<1> DEFINE n == c + 1
           q == MatrixLine(p, w[n], n)
<1>1. PICK r \in 1..c, m \in 1..c :
           /\ m \in r..c
           /\ MatrixHolds(w, c, p, r) /\ p.cur["brace"] # 0
           /\ w[m] \in Openers /\ \A k \in (m + 1)..c : w[k] \in Inside
  BY DEF MatrixOpened
<1> DEFINE all == RecordsTo(w, MatrixOwners, c)
           shown == all \ {r}
           slot == IF w[r] \in StepKinds THEN "step" ELSE "layer"
           other == IF w[r] \in StepKinds THEN "layer" ELSE "step"
           v == IF w[r] \in StepKinds THEN "STEP" ELSE "LAYER"
           f == Flush(p, slot, 0, v)
           d == Drop(f, "brace")
<1>2. /\ r \in 1..c /\ w[r] \in MatrixRecordKinds
      /\ p.cur["step"] = (IF w[r] \in StepKinds THEN r ELSE 0)
      /\ p.cur["layer"] = (IF w[r] \in StepKinds THEN 0 ELSE r)
      /\ \A k \in (r + 1)..c : w[k] \notin MatrixRecordKinds
      /\ Tidy(w, MatrixOwners, shown, p.kept)
  BY <1>1 DEF MatrixHolds
<1>3. r # 0 /\ r \in Nat /\ n \in Nat /\ n > 0
  BY <1>1
<1>4. /\ w[r] \in DOMAIN MatrixOwners /\ MatrixOwners[w[r]] = {}
      /\ DOMAIN MatrixOwners = MatrixRecordKinds \union {"ATTR"}
  BY <1>2, MatrixOwnersAre
<1>5. RecordsTo(w, MatrixOwners, n) = all
  <2>1. w[n] \notin DOMAIN MatrixOwners
    BY <1>4, BraceIs
  <2>2. \A x : x \in 1..n <=> x \in 1..c \/ x = n
    OBVIOUS
  <2> HIDE DEF n
  <2> QED
    BY <2>1, <2>2 DEF RecordsTo
<1>6. shown \union {r} = all
  BY <1>2, <1>4 DEF RecordsTo
<1>7. w[n] = CloseBrace
  OBVIOUS
<1>8. \A x \in 1..n : x # n => x \in 1..c
  OBVIOUS
<1>9. \A x \in 1..c : n \in (x + 1)..n /\ \A k \in (x + 1)..c : k \in (x + 1)..n
  OBVIOUS
<1> HIDE DEF n
<1>10. \A k \in 1..(r - 1) : w[k] \notin MatrixOwners[w[r]]
  BY <1>4
<1>11. Owner(w, r, MatrixOwners) = 0
  BY <1>10, OwnerNone
<1>12. Vector(w[r]) = v
  <2>1. w[r] \in {"STEP", "STEP{", "LAYER", "LAYER{"}
    BY <1>2 DEF MatrixRecordKinds
  <2>2. /\ Vector("STEP{") = "STEP" /\ Vector("LAYER{") = "LAYER"
        /\ Vector("STEP") = "STEP" /\ Vector("LAYER") = "LAYER"
    BY DEF Vector, FeatureLineKinds
  <2>3. w[r] = "STEP" \/ w[r] = "STEP{" => w[r] \in StepKinds
    BY DEF StepKinds
  <2>4. w[r] = "LAYER" \/ w[r] = "LAYER{" => w[r] \notin StepKinds
    BY DEF StepKinds
  <2> QED
    BY <2>1, <2>2, <2>3, <2>4
<1>13. \A x \in shown : Owner(w, x, MatrixOwners) = 0 /\ Vector(w[x]) = v => x < r
  <2> SUFFICES ASSUME NEW x \in shown, Vector(w[x]) = v PROVE x < r
    OBVIOUS
  <2>1. x \in 1..c /\ x # r /\ w[x] \in MatrixRecordKinds \union {"ATTR"}
    BY <1>4 DEF RecordsTo
  <2>2. Vector("ATTR") = "ATTR" /\ v # "ATTR"
    BY DEF Vector, FeatureLineKinds
  <2>3. w[x] \in MatrixRecordKinds
    BY <2>1, <2>2
  <2>4. ~(x \in (r + 1)..c)
    BY <1>2, <2>3
  <2> QED
    BY <1>3, <2>1, <2>4
<1>14. r \notin shown
  OBVIOUS
<1>s. /\ slot \in MatrixSlots /\ other \in MatrixSlots /\ slot # other /\ "brace" \in MatrixSlots
      /\ slot # "brace" /\ other # "brace"
      /\ p.cur[slot] = r /\ p.cur[other] = 0 /\ p.cur[slot] # 0
      /\ (slot = "step" /\ other = "layer") \/ (slot = "layer" /\ other = "step")
  <2>1. CASE w[r] \in StepKinds
    <3>1. p.cur["step"] = r /\ p.cur["layer"] = 0 /\ slot = "step" /\ other = "layer"
      BY <1>2, <2>1
    <3> HIDE DEF slot, other
    <3> QED
      BY <1>3, <3>1 DEF MatrixSlots
  <2>2. CASE w[r] \notin StepKinds
    <3>1. p.cur["layer"] = r /\ p.cur["step"] = 0 /\ slot = "layer" /\ other = "step"
      BY <1>2, <2>2
    <3> HIDE DEF slot, other
    <3> QED
      BY <1>3, <3>1 DEF MatrixSlots
  <2> QED
    BY <2>1, <2>2
<1> HIDE DEF all, shown
<1>15. Tidy(w, MatrixOwners, shown \union {r}, Append(p.kept, <<0, r, v>>))
  BY <1>2, <1>11, <1>12, <1>13, <1>14, TidyPush
<1>16. q = d
  <2>1. \A x : MatrixLine(p, CloseBrace, x) = CloseBraceLine(p, x)
    BY Zenon DEF MatrixLine, CloseBrace
  <2>2. CloseBraceLine(p, n) = d
    <3>1. CASE w[r] \in StepKinds
      BY <1>1, <1>2, <1>3, <3>1 DEF CloseBraceLine, Holds
    <3>2. CASE w[r] \notin StepKinds
      BY <1>1, <1>2, <1>3, <3>2 DEF CloseBraceLine, Holds
    <3> QED
      BY <3>1, <3>2
  <2> QED
    BY <1>7, <2>1, <2>2, Zenon
<1> HIDE DEF q, slot, other, v
<1>17. Flushed(f, p, MatrixSlots, slot, 0, v)
  <2>1. TreeOver(MatrixSlots, p)
    BY DEF MatrixTree
  <2> QED
    BY <1>s, <2>1, FlushFlushed
<1> HIDE DEF f
<1>18. /\ TreeOver(MatrixSlots, f) /\ f.status = p.status
       /\ f.kept = Append(p.kept, <<0, p.cur[slot], v>>)
       /\ f.cur[slot] = 0
       /\ \A x \in MatrixSlots : x # slot => f.cur[x] = p.cur[x]
  BY <1>17, Zenon DEF Flushed
<1>19. Held(d, f, MatrixSlots, "brace", 0)
  BY <1>s, <1>18, DropHeld
<1> HIDE DEF d
<1>20. /\ d.status = f.status /\ d.kept = f.kept /\ d.cur["brace"] = 0
       /\ \A x \in MatrixSlots : x # "brace" => d.cur[x] = f.cur[x]
  BY <1>19, Zenon DEF Held
<1>21. /\ q.status = "reading" /\ q.kept = Append(p.kept, <<0, r, v>>)
       /\ q.cur["brace"] = 0 /\ q.cur["step"] = 0 /\ q.cur["layer"] = 0
  <2>1. q.cur[slot] = 0 /\ q.cur[other] = 0 /\ q.cur["brace"] = 0
    BY <1>16, <1>18, <1>20, <1>s, Zenon
  <2>2. q.status = "reading"
    BY <1>16, <1>18, <1>20, Zenon
  <2>3. q.kept = Append(p.kept, <<0, r, v>>)
    BY <1>16, <1>18, <1>20, <1>s, Zenon
  <2> QED
    BY <1>s, <2>1, <2>2, <2>3, Zenon
<1>22. Tidy(w, MatrixOwners, RecordsTo(w, MatrixOwners, n), q.kept)
  BY <1>5, <1>6, <1>15, <1>21, Zenon
<1>23. \A x \in 1..n : w[x] \in Openers => \E k \in (x + 1)..n : w[k] \notin Inside
  <2> SUFFICES ASSUME NEW x \in 1..n, w[x] \in Openers PROVE \E k \in (x + 1)..n : w[k] \notin Inside
    OBVIOUS
  <2>1. x \in 1..c
    BY <1>7, <1>8, BraceIs
  <2>2. n \in (x + 1)..n
    BY <1>9, <2>1
  <2> QED
    BY <1>7, <2>2, BraceIs
<1>24. w[n] \notin {"STEP", "LAYER"}
  BY <1>7, BraceIs
<1>25. MatrixIdle(w, n, q)
  BY <1>21, <1>22, <1>23, <1>24, Zenon DEF MatrixIdle
<1> QED
  BY <1>21, <1>25 DEF MatrixShape, q, n

\* A line of an orderly matrix is read.
LEMMA MatrixReads ==
    ASSUME NEW w \in Seq(Token), MatrixOrderly(w), NEW c \in Nat, c < Len(w), NEW p,
           MatrixTree(p), p.status = "reading", w[c + 1] \in MatrixKinds, MatrixShape(w, c, p)
    PROVE  /\ MatrixLine(p, w[c + 1], c + 1).status = "reading"
           /\ MatrixShape(w, c + 1, MatrixLine(p, w[c + 1], c + 1))
<1> DEFINE Good(k) == /\ MatrixLine(p, k, c + 1).status = "reading"
                      /\ MatrixShape(w, c + 1, MatrixLine(p, k, c + 1))
           k0 == w[c + 1]
<1>1. /\ k0 # "BAD"
      /\ MatrixIdle(w, c, p) => k0 \in {"HEAD", "STEP", "STEP{", "LAYER", "LAYER{"}
      /\ MatrixBegun(w, c, p) => k0 = "{"
      /\ MatrixOpened(w, c, p) => k0 \in {"HEAD", "ATTR", "}"}
  BY MatrixNextKinds
<1>2. (MatrixIdle(w, c, p) \/ MatrixOpened(w, c, p)) /\ k0 = "HEAD" => Good(k0)
  <2>1. \A x : MatrixLine(p, "HEAD", x) = p
    BY DEF MatrixLine, MatrixHeadLine
  <2> QED
    BY <2>1, MatrixHead
<1>3. MatrixIdle(w, c, p) /\ k0 \in MatrixRecordKinds => Good(k0)
  BY MatrixBegins
<1>4. MatrixBegun(w, c, p) /\ k0 = OpenBrace => Good(k0)
  BY MatrixOpens
<1>5. MatrixOpened(w, c, p) /\ k0 = "ATTR" => Good(k0)
  BY MatrixAttribute
<1>6. MatrixOpened(w, c, p) /\ k0 = CloseBrace => Good(k0)
  BY MatrixCloses
<1>7. MatrixIdle(w, c, p) \/ MatrixBegun(w, c, p) \/ MatrixOpened(w, c, p)
  BY DEF MatrixShape
<1> HIDE DEF Good, k0
<1>8. Good(k0)
  BY <1>1, <1>2, <1>3, <1>4, <1>5, <1>6, <1>7, Zenon DEF MatrixRecordKinds, OpenBrace, CloseBrace
<1> QED
  BY <1>8 DEF Good, k0

\* At the end of an orderly matrix nothing is open.
LEMMA MatrixEnds ==
    ASSUME NEW w \in Seq(Token), MatrixOrderly(w), NEW p, MatrixShape(w, Len(w), p)
    PROVE  Tidy(w, MatrixOwners, RecordLines(w, MatrixOwners), p.kept)
<1>r. \A i \in 1..Len(w) : MatrixRule(w, i)
  BY MatrixOrder
<1> DEFINE c == Len(w)
<1>1. c \in Nat /\ DOMAIN w = 1..c
  OBVIOUS
<1>2. RecordLines(w, MatrixOwners) = RecordsTo(w, MatrixOwners, c)
  BY DEF RecordLines, RecordsTo
<1> HIDE DEF c
<1>3. ~MatrixBegun(w, c, p)
  <2> SUFFICES ASSUME MatrixBegun(w, c, p) PROVE FALSE
    OBVIOUS
  <2>1. w[c] \in {"STEP", "LAYER"} /\ c \in 1..c
    BY DEF MatrixBegun, MatrixHolds
  <2>2. MatrixRule(w, c)
    BY <1>r, <2>1 DEF c
  <2> QED
    BY <2>1, <2>2, Zenon DEF MatrixRule, c
<1>4. ~MatrixOpened(w, c, p)
  <2> SUFFICES ASSUME MatrixOpened(w, c, p) PROVE FALSE
    OBVIOUS
  <2>1. PICK m \in 1..c : w[m] \in Openers /\ \A k \in (m + 1)..c : w[k] \in Inside
    BY DEF MatrixOpened
  <2>2. MatrixRule(w, m)
    BY <1>r, <2>1 DEF c
  <2>3. PICK z \in (m + 1)..c : w[z] = "}"
    BY <2>1, <2>2, Zenon DEF MatrixRule, c
  <2>4. w[z] = CloseBrace
    BY <2>3, Zenon DEF CloseBrace
  <2> QED
    BY <2>1, <2>3, <2>4, BraceIs, Zenon
<1>5. MatrixIdle(w, c, p)
  BY <1>3, <1>4 DEF MatrixShape, c
<1> QED
  BY <1>2, <1>5 DEF MatrixIdle

-----------------------------------------------------------------------------
(* The netlist keeps every record at once.                                   *)

NetlistShape(w, c, p) == Tidy(w, NetlistOwners, RecordsTo(w, NetlistOwners, c), p.kept)

LEMMA NetlistOwnersAre ==
    DOMAIN NetlistOwners = {"$", "point"} /\ \A k \in {"$", "point"} : NetlistOwners[k] = {}
  BY DEF NetlistOwners, NetlistFileMessage

LEMMA NetlistReads ==
    ASSUME NEW w, NEW c \in Nat, NEW p, TreeOver({}, p), p.status = "reading",
           w[c + 1] \in NetlistKinds, w[c + 1] # "BAD", NetlistShape(w, c, p)
    PROVE  /\ NetlistLine(p, w[c + 1], c + 1).status = "reading"
           /\ NetlistShape(w, c + 1, NetlistLine(p, w[c + 1], c + 1))
<1> DEFINE n == c + 1
           k == w[n]
           q == NetlistLine(p, k, n)
           u == Push(p, 0, n, k)
<1>1. k \in {"HEAD", "H", "$", "point"}
  BY DEF NetlistKinds
<1>2. CASE k \in {"HEAD", "H"}
  <2>1. q = p
    BY <1>2 DEF NetlistLine, NetlistHeadLine, NetlistHeaderLine
  <2>2. k \notin DOMAIN NetlistOwners
    BY <1>2, NetlistOwnersAre
  <2>3. RecordsTo(w, NetlistOwners, n) = RecordsTo(w, NetlistOwners, c)
    BY <2>2, ShownSame
  <2> HIDE DEF q, n
  <2> QED
    BY <2>1, <2>3 DEF NetlistShape, q, n
<1>3. CASE k \in {"$", "point"}
  <2>1. q = u
    BY <1>3 DEF NetlistLine, NetlistNetLine, NetlistPointLine
  <2>2. k \in DOMAIN NetlistOwners /\ NetlistOwners[k] = {}
    BY <1>3, NetlistOwnersAre
  <2>3. RecordsTo(w, NetlistOwners, n) = RecordsTo(w, NetlistOwners, c) \union {n}
    BY <2>2, ShownMore
  <2>4. \A m \in 1..(n - 1) : w[m] \notin NetlistOwners[w[n]]
    BY <2>2
  <2>5. Vector(k) = k
    BY <1>3 DEF Vector, FeatureLineKinds
  <2>6. Owner(w, n, NetlistOwners) = 0
    BY <2>4, OwnerNone
  <2> DEFINE S == RecordsTo(w, NetlistOwners, c)
  <2>7. Tidy(w, NetlistOwners, S, p.kept) /\ S \in SUBSET RecordsTo(w, NetlistOwners, c)
    BY DEF NetlistShape
  <2>8. Tidy(w, NetlistOwners, S \union {n}, Append(p.kept, <<0, n, k>>))
    <3> HIDE DEF S
    <3> QED
      BY <2>5, <2>6, <2>7, PushLine
  <2>9. Pushed(u, p, {}, 0, n, k)
    BY PushPushed
  <2> HIDE DEF u, n, k
  <2>10. u.status = p.status /\ u.kept = Append(p.kept, <<0, n, k>>)
    BY <2>9, Zenon DEF Pushed
  <2> HIDE DEF q
  <2>11. q.status = "reading" /\ Tidy(w, NetlistOwners, RecordsTo(w, NetlistOwners, n), q.kept)
    BY <2>1, <2>3, <2>8, <2>10
  <2> QED
    BY <2>11 DEF NetlistShape, q, n, k
<1> QED
  BY <1>1, <1>2, <1>3

-----------------------------------------------------------------------------
(* The features: outside, in a surface, or in a polygon of one.              *)

FeatureNoRecordKinds == {"HEAD"} \union UnitsKinds
FeatureAtOnceKinds == FeatureLineKinds \union SymbolKinds
FeatureKinds == FeatureNoRecordKinds \union FeatureAtOnceKinds
                   \union {"S", "SE", "OB", "OE", "OS", "BAD"}

FeatureTreeOf(p, k, n) ==
    IF k \in UnitsKinds THEN p ELSE
    IF k \in SymbolKinds THEN Push(p, 0, n, k) ELSE FeatureTreeLine(p, k, n)

FeaturesIdle(w, c, p) ==
    /\ p.cur["surface"] = 0 /\ p.cur["polygon"] = 0
    /\ c > 0 => w[c] \notin {"S", "OE", "OB", "OS"}
    /\ Tidy(w, FeaturesOwners, RecordsTo(w, FeaturesOwners, c), p.kept)

FeaturesInSurface(w, c, p, r) ==
    /\ r \in 1..c /\ w[r] = "S" /\ w[c] \in {"S", "OE"}
    /\ p.cur["surface"] = r /\ p.cur["polygon"] = 0
    /\ \A k \in (r + 1)..c : w[k] \in {"OB", "OS", "OE"}
    /\ Tidy(w, FeaturesOwners, RecordsTo(w, FeaturesOwners, c) \ {r}, p.kept)

FeaturesInPolygon(w, c, p, r, o) ==
    /\ r \in 1..c /\ w[r] = "S" /\ o \in (r + 1)..c /\ w[o] = "OB" /\ w[c] \in {"OB", "OS"}
    /\ p.cur["surface"] = r /\ p.cur["polygon"] = o
    /\ \A k \in (r + 1)..c : w[k] \in {"OB", "OS", "OE"}
    /\ \A k \in (o + 1)..c : w[k] = "OS"
    /\ Tidy(w, FeaturesOwners, RecordsTo(w, FeaturesOwners, c) \ {r, o}, p.kept)

FeaturesShape(w, c, p) ==
    \/ FeaturesIdle(w, c, p)
    \/ \E r \in 1..c : FeaturesInSurface(w, c, p, r)
    \/ \E r, o \in 1..c : FeaturesInPolygon(w, c, p, r, o)

LEMMA FeaturesOwnersAre ==
    /\ DOMAIN FeaturesOwners = FeatureAtOnceKinds \union {"S", "OB", "OS"}
    /\ \A k \in FeatureAtOnceKinds \union {"S"} : FeaturesOwners[k] = {}
    /\ FeaturesOwners["OB"] = {"S"} /\ FeaturesOwners["OS"] = {"OB"}
<1>1. "OB" \notin FeatureAtOnceKinds \union {"S"} /\ "OS" \notin FeatureAtOnceKinds \union {"S"}
  BY DEF FeatureAtOnceKinds, FeatureLineKinds, SymbolKinds
<1>2. DOMAIN FeaturesOwners = FeatureAtOnceKinds \union {"S", "OB", "OS"}
  BY DEF FeaturesOwners, FeatureAtOnceKinds
<1>3. \A k \in FeatureAtOnceKinds \union {"S"} : FeaturesOwners[k] = {}
  BY <1>1 DEF FeaturesOwners, FeatureAtOnceKinds
<1>4. FeaturesOwners["OB"] = {"S"} /\ FeaturesOwners["OS"] = {"OB"}
  BY DEF FeaturesOwners
<1> QED
  BY <1>2, <1>3, <1>4

\* What an orderly file says of a line and the next.
FeaturesRule(w, n) ==
    /\ w[n] # "BAD"
    /\ n < Len(w) =>
          /\ w[n] \in {"S", "OE"} => w[n + 1] \in {"OB", "SE"}
          /\ w[n] \in {"OB", "OS"} => w[n + 1] \in {"OS", "OE"}
          /\ w[n] \notin {"S", "OE", "OB", "OS"} => w[n + 1] \notin {"OB", "OS", "OE", "SE"}
    /\ n = Len(w) => w[n] \notin {"S", "OE", "OB", "OS"}
    /\ n = 1 => w[n] \notin {"OB", "OS", "OE", "SE"}

LEMMA FeaturesOrder ==
    ASSUME NEW w \in Seq(Token), FeaturesOrderly(w), NEW n \in 1..Len(w)
    PROVE  FeaturesRule(w, n)
<1> DEFINE next(i) == IF i = Len(w) THEN "EOF" ELSE w[i + 1]
<1>1. n \in DOMAIN w /\ Len(w) \in Nat
  OBVIOUS
<1>2. /\ w[n] # "BAD"
      /\ w[n] \in {"S", "OE"} => next(n) \in {"OB", "SE"}
      /\ w[n] \in {"OB", "OS"} => next(n) \in {"OS", "OE"}
      /\ w[n] \notin {"S", "OE", "OB", "OS"} => next(n) \notin {"OB", "OS", "OE", "SE"}
  BY <1>1 DEF FeaturesOrderly
<1>4. n = 1 => w[n] \notin {"OB", "OS", "OE", "SE"}
  BY <1>1 DEF FeaturesOrderly
<1>3. /\ n < Len(w) => next(n) = w[n + 1]
      /\ n = Len(w) => next(n) = "EOF"
  OBVIOUS
<1> QED
  BY <1>2, <1>3, <1>4 DEF FeaturesRule

LEMMA FeaturesNextKinds ==
    ASSUME NEW w \in Seq(Token), FeaturesOrderly(w), NEW c \in Nat, c < Len(w), NEW p,
           NEW n, n = c + 1
    PROVE  /\ w[n] # "BAD"
           /\ FeaturesIdle(w, c, p) => w[n] \notin {"OB", "OS", "OE", "SE"}
           /\ \A r : FeaturesInSurface(w, c, p, r) => w[n] \in {"OB", "SE"}
           /\ \A r, o : FeaturesInPolygon(w, c, p, r, o) => w[n] \in {"OS", "OE"}
<1>r. \A i \in 1..Len(w) : FeaturesRule(w, i)
  BY FeaturesOrder
<1>1. n \in 1..Len(w) /\ (c = 0 => n = 1) /\ (c > 0 => c \in 1..Len(w))
  OBVIOUS
<1>2. w[n] # "BAD" /\ (c = 0 => w[n] \notin {"OB", "OS", "OE", "SE"})
  BY <1>1, <1>r DEF FeaturesRule
<1>3. c > 0 =>
          /\ w[c] \in {"S", "OE"} => w[n] \in {"OB", "SE"}
          /\ w[c] \in {"OB", "OS"} => w[n] \in {"OS", "OE"}
          /\ w[c] \notin {"S", "OE", "OB", "OS"} => w[n] \notin {"OB", "OS", "OE", "SE"}
  BY <1>1, <1>r DEF FeaturesRule
<1>4. c = 0 \/ c > 0
  OBVIOUS
<1>5. FeaturesIdle(w, c, p) => w[n] \notin {"OB", "OS", "OE", "SE"}
  <2>1. FeaturesIdle(w, c, p) => (c > 0 => w[c] \notin {"S", "OE", "OB", "OS"})
    BY DEF FeaturesIdle
  <2> QED
    BY <1>2, <1>3, <1>4, <2>1, Zenon
<1>6. ASSUME NEW r, FeaturesInSurface(w, c, p, r) PROVE w[n] \in {"OB", "SE"}
  <2>1. w[c] \in {"S", "OE"} /\ r \in 1..c
    BY <1>6 DEF FeaturesInSurface
  <2>2. c > 0
    BY <2>1
  <2> QED
    BY <1>3, <2>1, <2>2, Zenon
<1>7. ASSUME NEW r, NEW o, FeaturesInPolygon(w, c, p, r, o) PROVE w[n] \in {"OS", "OE"}
  <2>1. w[c] \in {"OB", "OS"} /\ r \in 1..c
    BY <1>7 DEF FeaturesInPolygon
  <2>2. c > 0
    BY <2>1
  <2> QED
    BY <1>3, <2>1, <2>2, Zenon
<1> QED
  BY <1>2, <1>5, <1>6, <1>7

LEMMA FeaturesNoRecord ==
    ASSUME NEW w, NEW c \in Nat, NEW p, FeaturesIdle(w, c, p), p.status = "reading",
           NEW n, n = c + 1, w[n] \in FeatureNoRecordKinds, NEW q, q = FeatureTreeOf(p, w[n], n)
    PROVE  q.status = "reading" /\ FeaturesIdle(w, n, q)
<1>1. w[n] \notin DOMAIN FeaturesOwners /\ w[n] \notin {"S", "OE", "OB", "OS"}
  BY FeaturesOwnersAre DEF FeatureNoRecordKinds, UnitsKinds, FeatureAtOnceKinds, FeatureLineKinds, SymbolKinds
<1>2. RecordsTo(w, FeaturesOwners, n) = RecordsTo(w, FeaturesOwners, c)
  BY <1>1, ShownSame
<1>3. q = p
  BY DEF FeatureTreeOf, FeatureTreeLine, FeatureHeadLine, FeatureNoRecordKinds, SymbolKinds
<1> QED
  BY <1>1, <1>2, <1>3 DEF FeaturesIdle

LEMMA FeaturesAtOnce ==
    ASSUME NEW w, NEW c \in Nat, NEW p, FeaturesIdle(w, c, p), p.status = "reading",
           TreeOver(FeatureSlots, p), NEW n, n = c + 1, w[n] \in FeatureAtOnceKinds,
           NEW q, q = FeatureTreeOf(p, w[n], n)
    PROVE  q.status = "reading" /\ FeaturesIdle(w, n, q)
<1> DEFINE k == Vector(w[n])
           u == Push(p, 0, n, k)
           S == RecordsTo(w, FeaturesOwners, c)
<1>1. /\ w[n] \in DOMAIN FeaturesOwners /\ FeaturesOwners[w[n]] = {}
      /\ w[n] \notin {"S", "OE", "OB", "OS"}
  BY FeaturesOwnersAre DEF FeatureAtOnceKinds, FeatureLineKinds, SymbolKinds
<1>2. RecordsTo(w, FeaturesOwners, n) = S \union {n}
  BY <1>1, ShownMore
<1>3. q = u
  <2>1. CASE w[n] \in SymbolKinds
    BY <2>1 DEF FeatureTreeOf, SymbolKinds, UnitsKinds, Vector, FeatureLineKinds
  <2>2. CASE w[n] \in FeatureLineKinds
    BY <2>2 DEF FeatureTreeOf, SymbolKinds, UnitsKinds, Vector, FeatureLineKinds, FeatureTreeLine,
                LineFeature, PadFeature, TextFeature, ArcFeature, BarcodeFeature
  <2> QED
    BY <2>1, <2>2 DEF FeatureAtOnceKinds
<1>4. \A m \in 1..(n - 1) : w[m] \notin FeaturesOwners[w[n]]
  BY <1>1
<1>5. Owner(w, n, FeaturesOwners) = 0
  BY <1>4, OwnerNone
<1>6. Tidy(w, FeaturesOwners, S, p.kept)
  BY DEF FeaturesIdle
<1> HIDE DEF k
<1>7. k = Vector(w[c + 1]) /\ n = c + 1 /\ 0 = Owner(w, c + 1, FeaturesOwners)
  BY <1>5 DEF k
<1>8. Tidy(w, FeaturesOwners, S \union {n}, Append(p.kept, <<0, n, k>>))
  <2>1. S \in SUBSET RecordsTo(w, FeaturesOwners, c)
    OBVIOUS
  <2> HIDE DEF S
  <2> QED
    BY <1>6, <1>7, <2>1, PushLine
<1>9. Pushed(u, p, FeatureSlots, 0, n, k)
  BY PushPushed
<1> HIDE DEF u, S
<1>10. q.status = "reading" /\ q.cur = p.cur /\ q.kept = Append(p.kept, <<0, n, k>>)
  BY <1>3, <1>9, Zenon DEF Pushed
<1>11. Tidy(w, FeaturesOwners, RecordsTo(w, FeaturesOwners, n), q.kept)
  BY <1>2, <1>8, <1>10, Zenon
<1>12. q.cur["surface"] = 0 /\ q.cur["polygon"] = 0
  BY <1>10 DEF FeaturesIdle
<1> QED
  BY <1>1, <1>10, <1>11, <1>12 DEF FeaturesIdle

LEMMA FeaturesSurfaceStarts ==
    ASSUME NEW w, NEW c \in Nat, NEW p, FeaturesIdle(w, c, p), p.status = "reading",
           TreeOver(FeatureSlots, p), NEW n, n = c + 1, w[n] = "S",
           NEW q, q = FeatureTreeOf(p, w[n], n)
    PROVE  q.status = "reading" /\ FeaturesInSurface(w, n, q, n)
<1> DEFINE h == Hold(p, "surface", n)
<1>1. q = h
  BY DEF FeatureTreeOf, SymbolKinds, UnitsKinds, FeatureTreeLine, SurfaceStart
<1>2. w[n] \in DOMAIN FeaturesOwners
  BY FeaturesOwnersAre
<1>3. RecordsTo(w, FeaturesOwners, n) = RecordsTo(w, FeaturesOwners, c) \union {n}
  BY <1>2, ShownMore
<1>4. n \notin RecordsTo(w, FeaturesOwners, c)
  BY ShownAbove
<1>5. RecordsTo(w, FeaturesOwners, n) \ {n} = RecordsTo(w, FeaturesOwners, c)
  BY <1>3, <1>4
<1>6. "surface" \in FeatureSlots /\ "polygon" \in FeatureSlots /\ n \in Nat
  BY DEF FeatureSlots
<1>7. Held(h, p, FeatureSlots, "surface", n)
  BY <1>6, HoldHeld
<1> HIDE DEF h
<1>8. q.status = "reading" /\ q.kept = p.kept /\ q.cur["surface"] = n /\ q.cur["polygon"] = p.cur["polygon"]
  BY <1>1, <1>6, <1>7 DEF Held
<1>9. n \in 1..n /\ \A k \in (n + 1)..n : w[k] \in {"OB", "OS", "OE"}
  OBVIOUS
<1>10. Tidy(w, FeaturesOwners, RecordsTo(w, FeaturesOwners, n) \ {n}, q.kept)
  BY <1>5, <1>8 DEF FeaturesIdle
<1>11. q.cur["polygon"] = 0
  BY <1>8 DEF FeaturesIdle
<1> QED
  BY <1>8, <1>9, <1>10, <1>11 DEF FeaturesInSurface

LEMMA FeaturesSurfaceEnds ==
    ASSUME NEW w, NEW c \in Nat, NEW p, NEW r, FeaturesInSurface(w, c, p, r), p.status = "reading",
           TreeOver(FeatureSlots, p), NEW n, n = c + 1, w[n] = "SE",
           NEW q, q = FeatureTreeOf(p, w[n], n)
    PROVE  q.status = "reading" /\ FeaturesIdle(w, n, q)
<1> DEFINE f == Flush(p, "surface", 0, "S")
           S == RecordsTo(w, FeaturesOwners, c) \ {r}
<1>1. /\ r \in 1..c /\ w[r] = "S" /\ p.cur["surface"] = r /\ p.cur["polygon"] = 0
      /\ \A k \in (r + 1)..c : w[k] \in {"OB", "OS", "OE"}
      /\ Tidy(w, FeaturesOwners, S, p.kept)
  BY DEF FeaturesInSurface
<1>2. r # 0 /\ r \in Nat /\ (n > 0)
  BY <1>1
<1>3. q = f
  BY <1>1, <1>2 DEF FeatureTreeOf, SymbolKinds, UnitsKinds, FeatureTreeLine, SurfaceEnd, Holds
<1>4. w[n] \notin DOMAIN FeaturesOwners
  BY FeaturesOwnersAre DEF FeatureAtOnceKinds, FeatureLineKinds, SymbolKinds
<1>5. RecordsTo(w, FeaturesOwners, n) = RecordsTo(w, FeaturesOwners, c)
  BY <1>4, ShownSame
<1>6. /\ w[r] \in DOMAIN FeaturesOwners /\ FeaturesOwners[w[r]] = {}
      /\ DOMAIN FeaturesOwners = FeatureAtOnceKinds \union {"S", "OB", "OS"}
  BY <1>1, FeaturesOwnersAre
<1>7. S \union {r} = RecordsTo(w, FeaturesOwners, n)
  BY <1>1, <1>5, <1>6 DEF RecordsTo
<1>8. \A k \in 1..(r - 1) : w[k] \notin FeaturesOwners[w[r]]
  BY <1>6
<1>9. Owner(w, r, FeaturesOwners) = 0
  BY <1>8, OwnerNone
<1>10. Vector(w[r]) = "S"
  BY <1>1 DEF Vector, FeatureLineKinds
<1>11. \A x \in S : Owner(w, x, FeaturesOwners) = 0 /\ Vector(w[x]) = "S" => x < r
  <2> SUFFICES ASSUME NEW x \in S, Vector(w[x]) = "S" PROVE x < r
    OBVIOUS
  <2>1. x \in 1..c /\ x # r
    BY DEF RecordsTo
  <2>2. Vector("OB") = "OB" /\ Vector("OS") = "OS" /\ Vector("OE") = "OE"
    BY DEF Vector, FeatureLineKinds
  <2>3. ~(x \in (r + 1)..c)
    BY <1>1, <2>2
  <2> QED
    BY <1>2, <2>1, <2>3
<1>12. r \notin S
  OBVIOUS
<1> HIDE DEF S
<1>13. Tidy(w, FeaturesOwners, S \union {r}, Append(p.kept, <<0, r, "S">>))
  BY <1>1, <1>9, <1>10, <1>11, <1>12, TidyPush
<1>14. "surface" \in FeatureSlots /\ "polygon" \in FeatureSlots /\ "surface" # "polygon"
  BY DEF FeatureSlots
<1>15. Flushed(f, p, FeatureSlots, "surface", 0, "S")
  BY <1>1, <1>2, <1>14, FlushFlushed
<1> HIDE DEF f
<1>16. /\ q.status = "reading" /\ q.kept = Append(p.kept, <<0, p.cur["surface"], "S">>)
       /\ q.cur["surface"] = 0 /\ q.cur["polygon"] = p.cur["polygon"]
  BY <1>3, <1>14, <1>15, Zenon DEF Flushed
<1>17. Tidy(w, FeaturesOwners, RecordsTo(w, FeaturesOwners, n), q.kept)
  BY <1>1, <1>7, <1>13, <1>16, Zenon
<1>18. w[n] \notin {"S", "OE", "OB", "OS"}
  OBVIOUS
<1>19. q.cur["polygon"] = 0
  BY <1>1, <1>16
<1> QED
  BY <1>16, <1>17, <1>18, <1>19 DEF FeaturesIdle

LEMMA FeaturesPolygonBegins ==
    ASSUME NEW w, NEW c \in Nat, NEW p, NEW r, FeaturesInSurface(w, c, p, r), p.status = "reading",
           TreeOver(FeatureSlots, p), NEW n, n = c + 1, w[n] = "OB",
           NEW q, q = FeatureTreeOf(p, w[n], n)
    PROVE  q.status = "reading" /\ FeaturesInPolygon(w, n, q, r, n)
<1> DEFINE h == Hold(p, "polygon", n)
<1>1. /\ r \in 1..c /\ w[r] = "S" /\ p.cur["surface"] = r /\ p.cur["polygon"] = 0
      /\ \A k \in (r + 1)..c : w[k] \in {"OB", "OS", "OE"}
      /\ Tidy(w, FeaturesOwners, RecordsTo(w, FeaturesOwners, c) \ {r}, p.kept)
  BY DEF FeaturesInSurface
<1>2. q = h
  BY DEF FeatureTreeOf, SymbolKinds, UnitsKinds, FeatureTreeLine, SurfacePolygonBegin
<1>3. w[n] \in DOMAIN FeaturesOwners
  BY FeaturesOwnersAre
<1>4. RecordsTo(w, FeaturesOwners, n) = RecordsTo(w, FeaturesOwners, c) \union {n}
  BY <1>3, ShownMore
<1>5. n \notin RecordsTo(w, FeaturesOwners, c)
  BY ShownAbove
<1>6. RecordsTo(w, FeaturesOwners, n) \ {r, n} = RecordsTo(w, FeaturesOwners, c) \ {r}
  BY <1>4, <1>5
<1>7. "surface" \in FeatureSlots /\ "polygon" \in FeatureSlots /\ n \in Nat
  BY DEF FeatureSlots
<1>8. Held(h, p, FeatureSlots, "polygon", n)
  BY <1>7, HoldHeld
<1> HIDE DEF h
<1>9. q.status = "reading" /\ q.kept = p.kept /\ q.cur["polygon"] = n /\ q.cur["surface"] = p.cur["surface"]
  BY <1>2, <1>7, <1>8 DEF Held
<1>10. /\ r \in 1..n /\ n \in (r + 1)..n
       /\ \A k \in (r + 1)..n : k = n \/ k \in (r + 1)..c
       /\ \A k \in (n + 1)..n : w[k] = "OS"
  BY <1>1
<1>11. \A k \in (r + 1)..n : w[k] \in {"OB", "OS", "OE"}
  BY <1>1, <1>10
<1>12. Tidy(w, FeaturesOwners, RecordsTo(w, FeaturesOwners, n) \ {r, n}, q.kept)
  BY <1>1, <1>6, <1>9
<1> QED
  BY <1>1, <1>9, <1>10, <1>11, <1>12 DEF FeaturesInPolygon

LEMMA FeaturesPolygonPart ==
    ASSUME NEW w, NEW c \in Nat, NEW p, NEW r, NEW o, FeaturesInPolygon(w, c, p, r, o),
           p.status = "reading", TreeOver(FeatureSlots, p), NEW n, n = c + 1, w[n] = "OS",
           NEW q, q = FeatureTreeOf(p, w[n], n)
    PROVE  q.status = "reading" /\ FeaturesInPolygon(w, n, q, r, o)
<1> DEFINE u == Push(p, o, n, "OS")
           S == RecordsTo(w, FeaturesOwners, c) \ {r, o}
<1>1. /\ r \in 1..c /\ w[r] = "S" /\ o \in (r + 1)..c /\ w[o] = "OB"
      /\ p.cur["surface"] = r /\ p.cur["polygon"] = o
      /\ \A k \in (r + 1)..c : w[k] \in {"OB", "OS", "OE"}
      /\ \A k \in (o + 1)..c : w[k] = "OS"
      /\ Tidy(w, FeaturesOwners, S, p.kept)
  BY DEF FeaturesInPolygon
<1>2. /\ o # 0 /\ o \in Nat /\ r \in 1..n /\ o \in (r + 1)..n /\ o \in 1..(n - 1) /\ n \in Nat
      /\ \A k \in (r + 1)..n : k = n \/ k \in (r + 1)..c
      /\ \A k \in (o + 1)..n : k = n \/ k \in (o + 1)..c
      /\ \A k \in (o + 1)..(n - 1) : k \in (o + 1)..c
  BY <1>1
<1>3. q = u
  BY <1>1, <1>2 DEF FeatureTreeOf, SymbolKinds, UnitsKinds, FeatureTreeLine, SurfacePolygonPart, Holds
<1>4. w[n] \in DOMAIN FeaturesOwners /\ FeaturesOwners[w[n]] = {"OB"}
  BY FeaturesOwnersAre
<1>5. RecordsTo(w, FeaturesOwners, n) = RecordsTo(w, FeaturesOwners, c) \union {n}
  BY <1>4, ShownMore
<1>6. n # r /\ n # o
  BY <1>1
<1>7. RecordsTo(w, FeaturesOwners, n) \ {r, o} = S \union {n}
  BY <1>5, <1>6
<1>8. Owner(w, n, FeaturesOwners) = o
  <2>1. w[o] \in FeaturesOwners[w[n]] /\ \A k \in (o + 1)..(n - 1) : w[k] \notin FeaturesOwners[w[n]]
    BY <1>1, <1>2, <1>4
  <2> QED
    BY <1>2, <2>1, OwnerIs
<1>9. Vector(w[n]) = "OS"
  BY DEF Vector, FeatureLineKinds
<1> DEFINE k0 == "OS"
<1>10. S \in SUBSET RecordsTo(w, FeaturesOwners, c)
  OBVIOUS
<1>11. o = Owner(w, c + 1, FeaturesOwners) /\ k0 = Vector(w[c + 1])
  BY <1>8, <1>9
<1> HIDE DEF S, k0
<1>12. Tidy(w, FeaturesOwners, S \union {c + 1}, Append(p.kept, <<o, c + 1, k0>>))
  BY <1>1, <1>10, <1>11, PushLine
<1>13. Pushed(u, p, FeatureSlots, o, n, "OS")
  BY PushPushed
<1> HIDE DEF u
<1>14. q.status = "reading" /\ q.cur = p.cur /\ q.kept = Append(p.kept, <<o, n, "OS">>)
  BY <1>3, <1>13, Zenon DEF Pushed
<1>15. Tidy(w, FeaturesOwners, RecordsTo(w, FeaturesOwners, n) \ {r, o}, q.kept)
  BY <1>7, <1>12, <1>14, Zenon DEF k0
<1>16. /\ \A k \in (r + 1)..n : w[k] \in {"OB", "OS", "OE"}
       /\ \A k \in (o + 1)..n : w[k] = "OS"
  BY <1>1, <1>2
<1>17. q.cur["surface"] = r /\ q.cur["polygon"] = o /\ w[n] \in {"OB", "OS"}
  BY <1>1, <1>14
<1> QED
  BY <1>1, <1>2, <1>14, <1>15, <1>16, <1>17 DEF FeaturesInPolygon

LEMMA FeaturesPolygonEnds ==
    ASSUME NEW w, NEW c \in Nat, NEW p, NEW r, NEW o, FeaturesInPolygon(w, c, p, r, o),
           p.status = "reading", TreeOver(FeatureSlots, p), NEW n, n = c + 1, w[n] = "OE",
           NEW q, q = FeatureTreeOf(p, w[n], n)
    PROVE  q.status = "reading" /\ FeaturesInSurface(w, n, q, r)
<1> DEFINE u == Push(p, r, o, "OB")
           d == Drop(u, "polygon")
           S == RecordsTo(w, FeaturesOwners, c) \ {r, o}
<1>1. /\ r \in 1..c /\ w[r] = "S" /\ o \in (r + 1)..c /\ w[o] = "OB"
      /\ p.cur["surface"] = r /\ p.cur["polygon"] = o
      /\ \A k \in (r + 1)..c : w[k] \in {"OB", "OS", "OE"}
      /\ \A k \in (o + 1)..c : w[k] = "OS"
      /\ Tidy(w, FeaturesOwners, S, p.kept)
  BY DEF FeaturesInPolygon
<1>2. /\ r # 0 /\ o \in Nat /\ r \in 1..n /\ r \in 1..(o - 1) /\ o \in 1..c /\ r # o
      /\ \A k \in (r + 1)..n : k = n \/ k \in (r + 1)..c
      /\ \A k \in (r + 1)..(o - 1) : k \in (r + 1)..c
  BY <1>1
<1>3. q = d
  BY <1>1, <1>2 DEF FeatureTreeOf, SymbolKinds, UnitsKinds, FeatureTreeLine, SurfacePolygonEnd, Holds
<1>4. w[n] \notin DOMAIN FeaturesOwners
  BY FeaturesOwnersAre DEF FeatureAtOnceKinds, FeatureLineKinds, SymbolKinds
<1>5. RecordsTo(w, FeaturesOwners, n) = RecordsTo(w, FeaturesOwners, c)
  BY <1>4, ShownSame
<1>6. w[o] \in DOMAIN FeaturesOwners /\ FeaturesOwners[w[o]] = {"S"}
  BY <1>1, FeaturesOwnersAre
<1>7. S \union {o} = RecordsTo(w, FeaturesOwners, n) \ {r}
  BY <1>1, <1>2, <1>5, <1>6 DEF RecordsTo
<1>8. Owner(w, o, FeaturesOwners) = r
  <2>1. w[r] \in FeaturesOwners[w[o]] /\ \A k \in (r + 1)..(o - 1) : w[k] \notin FeaturesOwners[w[o]]
    BY <1>1, <1>2, <1>6
  <2> QED
    BY <1>2, <2>1, OwnerIs
<1>9. Vector(w[o]) = "OB"
  BY <1>1 DEF Vector, FeatureLineKinds
<1>10. \A x \in S : Owner(w, x, FeaturesOwners) = r /\ Vector(w[x]) = "OB" => x < o
  <2> SUFFICES ASSUME NEW x \in S, Vector(w[x]) = "OB" PROVE x < o
    OBVIOUS
  <2>1. x \in 1..c /\ x # o
    BY DEF RecordsTo
  <2>2. Vector("OS") = "OS"
    BY DEF Vector, FeatureLineKinds
  <2>3. ~(x \in (o + 1)..c)
    BY <1>1, <2>2
  <2> QED
    BY <1>2, <2>1, <2>3
<1>11. o \notin S
  OBVIOUS
<1> HIDE DEF S
<1>12. Tidy(w, FeaturesOwners, S \union {o}, Append(p.kept, <<r, o, "OB">>))
  BY <1>1, <1>8, <1>9, <1>10, <1>11, TidyPush
<1>13. "surface" \in FeatureSlots /\ "polygon" \in FeatureSlots /\ "surface" # "polygon"
  BY DEF FeatureSlots
<1>14. Pushed(u, p, FeatureSlots, r, o, "OB")
  BY PushPushed
<1> HIDE DEF u
<1>15. TreeOver(FeatureSlots, u) /\ u.status = p.status /\ u.cur = p.cur
       /\ u.kept = Append(p.kept, <<r, o, "OB">>)
  BY <1>14, Zenon DEF Pushed
<1>16. Held(d, u, FeatureSlots, "polygon", 0)
  BY <1>13, <1>15, DropHeld
<1> HIDE DEF d
<1>17. d.status = u.status /\ d.kept = u.kept /\ d.cur["polygon"] = 0 /\ d.cur["surface"] = u.cur["surface"]
  BY <1>13, <1>16, Zenon DEF Held
<1>18. /\ q.status = "reading" /\ q.kept = Append(p.kept, <<r, o, "OB">>)
       /\ q.cur["polygon"] = 0 /\ q.cur["surface"] = r
  <2>1. q.kept = Append(p.kept, <<r, o, "OB">>) /\ q.cur["polygon"] = 0 /\ q.status = "reading"
    BY <1>3, <1>15, <1>17, Zenon
  <2>2. q.cur["surface"] = r
    BY <1>1, <1>3, <1>15, <1>17, Zenon
  <2> QED
    BY <2>1, <2>2
<1>19. Tidy(w, FeaturesOwners, RecordsTo(w, FeaturesOwners, n) \ {r}, q.kept)
  BY <1>7, <1>12, <1>18, Zenon
<1>20. \A k \in (r + 1)..n : w[k] \in {"OB", "OS", "OE"}
  BY <1>1, <1>2
<1> QED
  BY <1>1, <1>2, <1>18, <1>19, <1>20 DEF FeaturesInSurface

\* A line of an orderly features file is read.
LEMMA FeaturesReads ==
    ASSUME NEW w \in Seq(Token), FeaturesOrderly(w), NEW c \in Nat, c < Len(w), NEW p,
           TreeOver(FeatureSlots, p), p.status = "reading", FeaturesShape(w, c, p),
           NEW n, n = c + 1, w[n] \in FeatureKinds, NEW q, q = FeatureTreeOf(p, w[n], n)
    PROVE  q.status = "reading" /\ FeaturesShape(w, n, q)
<1>1. /\ w[n] # "BAD"
      /\ FeaturesIdle(w, c, p) => w[n] \notin {"OB", "OS", "OE", "SE"}
      /\ \A r : FeaturesInSurface(w, c, p, r) => w[n] \in {"OB", "SE"}
      /\ \A r, o : FeaturesInPolygon(w, c, p, r, o) => w[n] \in {"OS", "OE"}
  BY FeaturesNextKinds
<1>2. n \in Nat /\ n \in 1..n /\ \A r \in 1..c : r \in 1..n
  OBVIOUS
<1>3. CASE FeaturesIdle(w, c, p)
  <2>1. w[n] \in FeatureNoRecordKinds \union FeatureAtOnceKinds \union {"S"}
    BY <1>1, <1>3 DEF FeatureKinds
  <2>2. w[n] \in FeatureNoRecordKinds => q.status = "reading" /\ FeaturesIdle(w, n, q)
    BY <1>3, FeaturesNoRecord
  <2>3. w[n] \in FeatureAtOnceKinds => q.status = "reading" /\ FeaturesIdle(w, n, q)
    BY <1>3, FeaturesAtOnce
  <2>4. w[n] = "S" => q.status = "reading" /\ FeaturesInSurface(w, n, q, n)
    BY <1>3, FeaturesSurfaceStarts
  <2> QED
    BY <1>2, <2>1, <2>2, <2>3, <2>4 DEF FeaturesShape
<1>4. ASSUME NEW r \in 1..c, FeaturesInSurface(w, c, p, r)
      PROVE  q.status = "reading" /\ FeaturesShape(w, n, q)
  <2>1. w[n] \in {"OB", "SE"}
    BY <1>1, <1>4
  <2>2. w[n] = "OB" => q.status = "reading" /\ FeaturesInPolygon(w, n, q, r, n)
    BY <1>4, FeaturesPolygonBegins
  <2>3. w[n] = "SE" => q.status = "reading" /\ FeaturesIdle(w, n, q)
    BY <1>4, FeaturesSurfaceEnds
  <2> QED
    BY <1>2, <2>1, <2>2, <2>3 DEF FeaturesShape
<1>5. ASSUME NEW r \in 1..c, NEW o \in 1..c, FeaturesInPolygon(w, c, p, r, o)
      PROVE  q.status = "reading" /\ FeaturesShape(w, n, q)
  <2>1. w[n] \in {"OS", "OE"}
    BY <1>1, <1>5
  <2>2. w[n] = "OS" => q.status = "reading" /\ FeaturesInPolygon(w, n, q, r, o)
    BY <1>5, FeaturesPolygonPart
  <2>3. w[n] = "OE" => q.status = "reading" /\ FeaturesInSurface(w, n, q, r)
    BY <1>5, FeaturesPolygonEnds
  <2> QED
    BY <1>2, <2>1, <2>2, <2>3 DEF FeaturesShape
<1> QED
  BY <1>3, <1>4, <1>5 DEF FeaturesShape

\* At the end of an orderly features file no surface is open.
LEMMA FeaturesEnds ==
    ASSUME NEW w \in Seq(Token), FeaturesOrderly(w), NEW c, c = Len(w), NEW p,
           TreeOver(FeatureSlots, p), FeaturesShape(w, c, p),
           NEW q, q = Accept(Flush(p, "surface", 0, "S"))
    PROVE  q.status = "accepted" /\ Tidy(w, FeaturesOwners, RecordsTo(w, FeaturesOwners, c), q.kept)
<1>r. \A i \in 1..Len(w) : FeaturesRule(w, i)
  BY FeaturesOrder
<1>0. c > 0 => c \in 1..Len(w)
  OBVIOUS
<1>1. c > 0 => w[c] \notin {"S", "OE", "OB", "OS"}
  BY <1>0, <1>r DEF FeaturesRule
<1>2. ASSUME NEW r \in 1..c PROVE ~FeaturesInSurface(w, c, p, r)
  BY <1>1 DEF FeaturesInSurface
<1>3. ASSUME NEW r \in 1..c, NEW o PROVE ~FeaturesInPolygon(w, c, p, r, o)
  BY <1>1 DEF FeaturesInPolygon
<1>4. FeaturesIdle(w, c, p)
  BY <1>2, <1>3 DEF FeaturesShape
<1>5. Flush(p, "surface", 0, "S") = p
  BY <1>4 DEF Flush, Holds, FeaturesIdle
<1>6. IsTree(Accept(p)) /\ Accept(p).status = "accepted" /\ Accept(p).kept = p.kept
  BY AcceptIs DEF TreeOver
<1> QED
  BY <1>4, <1>5, <1>6 DEF FeaturesIdle

-----------------------------------------------------------------------------
(* The components: the last component and the BOM record after it are held.  *)

ComponentsShape(w, c, p, a, b) ==
    /\ a \in 0..c /\ b \in 0..c /\ p.cur["component"] = a /\ p.cur["bom"] = b
    /\ a # 0 => w[a] = "CMP"
    /\ \A k \in (a + 1)..c : w[k] # "CMP"
    /\ b # 0 => w[b] = "CPN" /\ b > a
    /\ \A k \in 1..c : w[k] = "CPN" => k = b \/ k < a
    /\ Tidy(w, ComponentsOwners, RecordsTo(w, ComponentsOwners, c) \ {a, b}, p.kept)

LEMMA ComponentsOwnersAre ==
    /\ DOMAIN ComponentsOwners = {"CMP", "PRP", "TOP", "CPN", "DSC"}
    /\ ComponentsOwners["CMP"] = {} /\ ComponentsOwners["CPN"] = {}
    /\ ComponentsOwners["PRP"] = {"CMP"} /\ ComponentsOwners["TOP"] = {"CMP"}
    /\ ComponentsOwners["DSC"] = {"CPN"}
  BY DEF ComponentsOwners

\* What an orderly file says of its lines.
ComponentsRule(w) ==
    /\ \A n \in 1..Len(w) : w[n] # "BAD"
    /\ \A n \in 1..Len(w) : w[n] \in {"PRP", "TOP", "DSC"} => Owner(w, n, ComponentsOwners) # 0
    /\ \A i, j \in 1..Len(w) : w[i] = "CPN" /\ w[j] = "CPN" => i = j
    /\ \A n \in 1..Len(w) : w[n] \in {"IPN", "DSC"} =>
          \E x \in 1..(n - 1) : w[x] = "CPN" /\ \A m \in x..n : w[m] # "CMP"

LEMMA ComponentsOrder ==
    ASSUME NEW w \in Seq(Token), ComponentsOrderly(w)
    PROVE  ComponentsRule(w)
<1> DEFINE at(kinds) == {n \in DOMAIN w : w[n] \in kinds}
<1>1. /\ at({"BAD"}) = {}
      /\ \A n \in at({"PRP", "TOP", "DSC"}) : Owner(w, n, ComponentsOwners) # 0
      /\ Cardinality(at({"CPN"})) <= 1
      /\ \A n \in at({"IPN", "DSC"}) :
            \E c \in at({"CPN"}) : c < n /\ \A m \in c..n : w[m] # "CMP"
  BY DEF ComponentsOrderly
<1>2. DOMAIN w = 1..Len(w) /\ Len(w) \in Nat
  OBVIOUS
<1>3. \A n \in 1..Len(w) : w[n] # "BAD"
  BY <1>1, <1>2
<1>4. \A n \in 1..Len(w) : w[n] \in {"PRP", "TOP", "DSC"} => Owner(w, n, ComponentsOwners) # 0
  BY <1>1, <1>2
<1>5. ASSUME NEW i \in 1..Len(w), NEW j \in 1..Len(w), w[i] = "CPN", w[j] = "CPN"
      PROVE  i = j
  <2> DEFINE C == at({"CPN"})
  <2>1. IsFiniteSet(C)
    <3>1. IsFiniteSet(1..Len(w))
      BY <1>2, FS_Interval
    <3> QED
      BY <1>2, <3>1, FS_Subset
  <2>2. i \in C /\ j \in C
    BY <1>2, <1>5
  <2>3. Cardinality(C) \in Nat /\ Cardinality(C) <= 1
    BY <1>1, <2>1, FS_CardinalityType
  <2> HIDE DEF C
  <2>4. Cardinality(C) # 0
    BY <2>1, <2>2, FS_EmptySet
  <2>5. Cardinality(C) = 1
    BY <2>3, <2>4
  <2>6. \E x : C = {x}
    BY <2>1, <2>5, FS_Singleton
  <2> QED
    BY <2>2, <2>6
<1>6. ASSUME NEW n \in 1..Len(w), w[n] \in {"IPN", "DSC"}
      PROVE  \E x \in 1..(n - 1) : w[x] = "CPN" /\ \A m \in x..n : w[m] # "CMP"
  <2>1. PICK x \in at({"CPN"}) : x < n /\ \A m \in x..n : w[m] # "CMP"
    BY <1>1, <1>2, <1>6
  <2>2. x \in 1..(n - 1) /\ w[x] = "CPN"
    BY <1>2, <2>1
  <2> QED
    BY <2>1, <2>2
<1> QED
  BY <1>3, <1>4, <1>5, <1>6 DEF ComponentsRule

LEMMA BomFinished ==
    ASSUME NEW w, ComponentsRule(w), NEW c \in Nat, c <= Len(w), Len(w) \in Nat, NEW p, TreeOver(ComponentSlots, p),
           NEW a, NEW b, ComponentsShape(w, c, p, a, b), NEW q, q = FinishBom(p)
    PROVE  /\ TreeOver(ComponentSlots, q) /\ q.status = p.status
           /\ q.cur["component"] = a /\ q.cur["bom"] = 0
           /\ Tidy(w, ComponentsOwners, RecordsTo(w, ComponentsOwners, c) \ {a}, q.kept)
<1> DEFINE all == RecordsTo(w, ComponentsOwners, c)
           S == all \ {a, b}
<1>1. /\ a \in 0..c /\ b \in 0..c /\ p.cur["component"] = a /\ p.cur["bom"] = b
      /\ b # 0 => w[b] = "CPN" /\ b > a
      /\ Tidy(w, ComponentsOwners, S, p.kept)
  BY DEF ComponentsShape
<1>2. CASE b = 0
  <2>1. q = p
    BY <1>1, <1>2 DEF FinishBom, Holds
  <2>2. S = all \ {a}
    BY <1>2 DEF RecordsTo
  <2> QED
    BY <1>1, <1>2, <2>1, <2>2
<1>3. CASE b # 0
  <2> DEFINE at == {i \in DOMAIN p.kept : p.kept[i][3] # "CPN"}
             u == Push(p, 0, b, "CPN")
             d == Drop(u, "bom")
  <2>1. b \in 1..c /\ b # a /\ w[b] = "CPN" /\ b \in 1..Len(w) /\ 1..c \subseteq 1..Len(w)
    BY <1>1, <1>3
  <2>2. \A x \in 1..c : Vector(w[x]) = "CPN" => x = b
    <3>1. \A x \in 1..c : w[x] = "CPN" => x = b
      BY <2>1 DEF ComponentsRule
    <3>2. \A k : Vector(k) = "CPN" => k = "CPN"
      BY DEF Vector
    <3> QED
      BY <3>1, <3>2
  <2>3. b \in all
    BY <2>1, ComponentsOwnersAre DEF RecordsTo
  <2>4. SelectAt(p.kept, at) = p.kept
    <3>1. PICK X : p.kept \in Seq(X)
      BY <1>1 DEF Tidy
    <3>2. \A i \in DOMAIN p.kept : p.kept[i][2] \in S /\ p.kept[i][3] = Vector(w[p.kept[i][2]])
      BY <1>1 DEF Tidy
    <3>3. \A x \in S : x \in 1..c /\ x # b
      BY DEF RecordsTo
    <3>4. \A i \in DOMAIN p.kept : i \in at
      BY <2>2, <3>2, <3>3
    <3>5. DOMAIN p.kept = 1..Len(p.kept)
      BY <3>1
    <3> HIDE DEF at
    <3>6. \A i \in 1..Len(p.kept) : i \in at
      BY <3>4, <3>5
    <3> QED
      BY <3>1, <3>6, SelAll
  <2>5. q = d
    <3> DEFINE l == Append(p.kept, <<0, b, "CPN">>)
    <3>1. q = Drop([p EXCEPT !.kept = Append(SelectAt(p.kept, at), <<0, p.cur["bom"], "CPN">>)], "bom")
      BY <1>1, <1>3 DEF FinishBom, Holds
    <3>2. q = Drop([p EXCEPT !.kept = l], "bom")
      BY <1>1, <2>4, <3>1
    <3>3. u = [p EXCEPT !.kept = l]
      BY DEF Push
    <3> QED
      BY <3>2, <3>3
  <2>6. Tidy(w, ComponentsOwners, S \union {b}, Append(p.kept, <<0, b, "CPN">>))
    <3>1. \A k \in 1..(b - 1) : w[k] \notin ComponentsOwners[w[b]]
      BY <2>1, ComponentsOwnersAre
    <3>2. Owner(w, b, ComponentsOwners) = 0
      BY <3>1, OwnerNone
    <3>3. Vector(w[b]) = "CPN"
      BY <2>1 DEF Vector, FeatureLineKinds
    <3>4. \A x \in S : Owner(w, x, ComponentsOwners) = 0 /\ Vector(w[x]) = "CPN" => x < b
      BY <2>2 DEF RecordsTo
    <3>5. b \notin S
      OBVIOUS
    <3> HIDE DEF S
    <3> QED
      BY <1>1, <3>2, <3>3, <3>4, <3>5, TidyPush
  <2>7. S \union {b} = all \ {a}
    BY <2>1, <2>3
  <2>8. Pushed(u, p, ComponentSlots, 0, b, "CPN")
    BY PushPushed
  <2> HIDE DEF S, all, u, at
  <2>9. TreeOver(ComponentSlots, u) /\ u.status = p.status /\ u.cur = p.cur
        /\ u.kept = Append(p.kept, <<0, b, "CPN">>)
    BY <2>8, Zenon DEF Pushed
  <2>10. "bom" \in ComponentSlots /\ "component" \in ComponentSlots /\ "component" # "bom"
    BY DEF ComponentSlots
  <2>11. Held(d, u, ComponentSlots, "bom", 0)
    BY <2>9, <2>10, DropHeld
  <2> HIDE DEF d
  <2>12. /\ TreeOver(ComponentSlots, d) /\ d.status = u.status /\ d.kept = u.kept
         /\ d.cur["bom"] = 0 /\ d.cur["component"] = u.cur["component"]
    BY <2>10, <2>11, Zenon DEF Held
  <2>13. TreeOver(ComponentSlots, q) /\ q.status = p.status /\ q.cur["component"] = a /\ q.cur["bom"] = 0
    BY <1>1, <2>5, <2>9, <2>12, Zenon
  <2>14. Tidy(w, ComponentsOwners, all \ {a}, q.kept)
    BY <2>5, <2>6, <2>7, <2>9, <2>12, Zenon
  <2> QED
    BY <2>13, <2>14 DEF all
<1> QED
  BY <1>2, <1>3

LEMMA ComponentFinished ==
    ASSUME NEW w, NEW c \in Nat, NEW p, TreeOver(ComponentSlots, p),
           NEW a \in 0..c, p.cur["component"] = a, p.cur["bom"] = 0, a # 0 => w[a] = "CMP",
           \A k \in (a + 1)..c : w[k] # "CMP",
           Tidy(w, ComponentsOwners, RecordsTo(w, ComponentsOwners, c) \ {a}, p.kept),
           NEW q, q = FinishComponent(p)
    PROVE  /\ TreeOver(ComponentSlots, q) /\ q.status = p.status
           /\ q.cur["component"] = 0 /\ q.cur["bom"] = 0
           /\ Tidy(w, ComponentsOwners, RecordsTo(w, ComponentsOwners, c), q.kept)
<1> DEFINE all == RecordsTo(w, ComponentsOwners, c)
           S == all \ {a}
<1>2. CASE a = 0
  <2>1. q = p
    BY <1>2 DEF FinishComponent, Flush, Holds
  <2>2. S = all
    BY <1>2 DEF RecordsTo
  <2> QED
    BY <1>2, <2>1, <2>2
<1>3. CASE a # 0
  <2>1. a \in 1..c /\ w[a] = "CMP" /\ a \in Nat
    BY <1>3
  <2>2. a \in all
    BY <2>1, ComponentsOwnersAre DEF RecordsTo
  <2>3. Tidy(w, ComponentsOwners, S \union {a}, Append(p.kept, <<0, a, "CMP">>))
    <3>1. \A k \in 1..(a - 1) : w[k] \notin ComponentsOwners[w[a]]
      BY <2>1, ComponentsOwnersAre
    <3>2. Owner(w, a, ComponentsOwners) = 0
      BY <3>1, OwnerNone
    <3>3. Vector(w[a]) = "CMP"
      BY <2>1 DEF Vector, FeatureLineKinds
    <3>4. \A x \in S : Owner(w, x, ComponentsOwners) = 0 /\ Vector(w[x]) = "CMP" => x < a
      <4> SUFFICES ASSUME NEW x \in S, Vector(w[x]) = "CMP" PROVE x < a
        OBVIOUS
      <4>1. x \in 1..c /\ x # a
        BY DEF RecordsTo
      <4>2. w[x] = "CMP"
        BY DEF Vector
      <4>3. ~(x \in (a + 1)..c)
        BY <4>2
      <4> QED
        BY <2>1, <4>1, <4>3
    <3>5. a \notin S
      OBVIOUS
    <3> HIDE DEF S
    <3> QED
      BY <3>2, <3>3, <3>4, <3>5, TidyPush DEF S
  <2>4. S \union {a} = all
    BY <2>2
  <2>5. "bom" \in ComponentSlots /\ "component" \in ComponentSlots /\ "component" # "bom"
    BY DEF ComponentSlots
  <2>6. p.cur["component"] # 0 /\ q = Flush(p, "component", 0, "CMP")
    BY <1>3 DEF FinishComponent
  <2>7. Flushed(q, p, ComponentSlots, "component", 0, "CMP")
    BY <2>5, <2>6, FlushFlushed
  <2> HIDE DEF S, all
  <2>8. /\ TreeOver(ComponentSlots, q) /\ q.status = p.status
        /\ q.kept = Append(p.kept, <<0, p.cur["component"], "CMP">>)
        /\ q.cur["component"] = 0 /\ q.cur["bom"] = p.cur["bom"]
    BY <2>5, <2>7, Zenon DEF Flushed
  <2>9. Tidy(w, ComponentsOwners, all, q.kept)
    BY <2>3, <2>4, <2>8, Zenon
  <2> QED
    BY <2>8, <2>9 DEF all
<1> QED
  BY <1>2, <1>3

\* Both finished, a component or a BOM record begins.
LEMMA ComponentsBegin ==
    ASSUME NEW w, ComponentsRule(w), NEW c \in Nat, c < Len(w), Len(w) \in Nat, NEW p, TreeOver(ComponentSlots, p),
           p.status = "reading", NEW a, NEW b, ComponentsShape(w, c, p, a, b),
           NEW n, n = c + 1, w[n] = "CMP", NEW q, q = ComponentsLine(p, w[n], n)
    PROVE  q.status = "reading" /\ ComponentsShape(w, n, q, n, 0)
<1> DEFINE f == FinishBom(p)
           g == FinishComponent(f)
           h == Hold(g, "component", n)
<1>0. c <= Len(w) /\ f = FinishBom(p)
  OBVIOUS
<1>1. /\ TreeOver(ComponentSlots, f) /\ f.status = p.status
      /\ f.cur["component"] = a /\ f.cur["bom"] = 0
      /\ Tidy(w, ComponentsOwners, RecordsTo(w, ComponentsOwners, c) \ {a}, f.kept)
  BY <1>0, BomFinished
<1>2. a \in 0..c /\ (a # 0 => w[a] = "CMP") /\ \A k \in (a + 1)..c : w[k] # "CMP"
  BY DEF ComponentsShape
<1> HIDE DEF f
<1>3. /\ TreeOver(ComponentSlots, g) /\ g.status = f.status
      /\ g.cur["component"] = 0 /\ g.cur["bom"] = 0
      /\ Tidy(w, ComponentsOwners, RecordsTo(w, ComponentsOwners, c), g.kept)
  BY <1>1, <1>2, ComponentFinished
<1> HIDE DEF g
<1>4. q = h
  BY DEF ComponentsLine, ComponentLine, f, g
<1>5. "bom" \in ComponentSlots /\ "component" \in ComponentSlots /\ "component" # "bom" /\ n \in Nat
  BY DEF ComponentSlots
<1>6. Held(h, g, ComponentSlots, "component", n)
  BY <1>3, <1>5, HoldHeld
<1> HIDE DEF h
<1>7. h.status = g.status /\ h.kept = g.kept /\ h.cur["component"] = n /\ h.cur["bom"] = g.cur["bom"]
  BY <1>5, <1>6, Zenon DEF Held
<1>8. w[n] \in DOMAIN ComponentsOwners
  BY ComponentsOwnersAre
<1>9. RecordsTo(w, ComponentsOwners, n) = RecordsTo(w, ComponentsOwners, c) \union {n}
  BY <1>8, ShownMore
<1>10. \A x \in RecordsTo(w, ComponentsOwners, c) : x # n /\ x # 0
  BY DEF RecordsTo
<1>11. RecordsTo(w, ComponentsOwners, n) \ {n, 0} = RecordsTo(w, ComponentsOwners, c)
  BY <1>9, <1>10
<1>12. Tidy(w, ComponentsOwners, RecordsTo(w, ComponentsOwners, n) \ {n, 0}, q.kept)
  BY <1>3, <1>4, <1>7, <1>11
<1>13. /\ n \in 0..n /\ 0 \in 0..n /\ \A k \in (n + 1)..n : w[k] # "CMP"
       /\ \A k \in 1..n : w[k] = "CPN" => k < n
  <2>1. n \in 0..n /\ 0 \in 0..n /\ \A k \in (n + 1)..n : w[k] # "CMP"
    OBVIOUS
  <2>2. \A k \in 1..n : k < n \/ k = n
    OBVIOUS
  <2> QED
    BY <2>1, <2>2
<1>14. q.cur["component"] = n /\ q.cur["bom"] = 0 /\ q.status = "reading"
  BY <1>1, <1>3, <1>4, <1>7
<1> QED
  BY <1>12, <1>13, <1>14 DEF ComponentsShape

LEMMA BomBegin ==
    ASSUME NEW w, ComponentsRule(w), NEW c \in Nat, c < Len(w), Len(w) \in Nat, NEW p, TreeOver(ComponentSlots, p),
           p.status = "reading", NEW a, NEW b, ComponentsShape(w, c, p, a, b),
           NEW n, n = c + 1, w[n] = "CPN", NEW q, q = ComponentsLine(p, w[n], n)
    PROVE  q.status = "reading" /\ ComponentsShape(w, n, q, a, n)
<1> DEFINE f == FinishBom(p)
           h == Hold(f, "bom", n)
<1>0. c <= Len(w) /\ f = FinishBom(p)
  OBVIOUS
<1>1. /\ TreeOver(ComponentSlots, f) /\ f.status = p.status
      /\ f.cur["component"] = a /\ f.cur["bom"] = 0
      /\ Tidy(w, ComponentsOwners, RecordsTo(w, ComponentsOwners, c) \ {a}, f.kept)
  BY <1>0, BomFinished
<1>2. a \in 0..c /\ (a # 0 => w[a] = "CMP") /\ \A k \in (a + 1)..c : w[k] # "CMP"
  BY DEF ComponentsShape
<1>4. q = h
  BY DEF ComponentsLine, CpnLine
<1> HIDE DEF f
<1>5. "bom" \in ComponentSlots /\ "component" \in ComponentSlots /\ "component" # "bom" /\ n \in Nat
  BY DEF ComponentSlots
<1>6. Held(h, f, ComponentSlots, "bom", n)
  BY <1>1, <1>5, HoldHeld
<1> HIDE DEF h
<1>7. h.status = f.status /\ h.kept = f.kept /\ h.cur["bom"] = n /\ h.cur["component"] = f.cur["component"]
  BY <1>5, <1>6, Zenon DEF Held
<1>8. w[n] \in DOMAIN ComponentsOwners
  BY ComponentsOwnersAre
<1>9. RecordsTo(w, ComponentsOwners, n) = RecordsTo(w, ComponentsOwners, c) \union {n}
  BY <1>8, ShownMore
<1>10. \A x \in RecordsTo(w, ComponentsOwners, c) : x # n
  BY DEF RecordsTo
<1>11. RecordsTo(w, ComponentsOwners, n) \ {a, n} = RecordsTo(w, ComponentsOwners, c) \ {a}
  BY <1>9, <1>10
<1>12. Tidy(w, ComponentsOwners, RecordsTo(w, ComponentsOwners, n) \ {a, n}, q.kept)
  BY <1>1, <1>4, <1>7, <1>11
<1>13. /\ a \in 0..n /\ n \in 0..n /\ n > a /\ \A k \in (a + 1)..n : k = n \/ k \in (a + 1)..c
       /\ n \in 1..Len(w) /\ 1..n \subseteq 1..Len(w)
  BY <1>2
<1>14. \A k \in (a + 1)..n : w[k] # "CMP"
  BY <1>2, <1>13
<1>15. \A k \in 1..n : w[k] = "CPN" => k = n
  BY <1>13 DEF ComponentsRule
<1>16. q.cur["component"] = a /\ q.cur["bom"] = n /\ q.status = "reading"
  BY <1>1, <1>4, <1>7
<1> QED
  BY <1>2, <1>12, <1>13, <1>14, <1>15, <1>16 DEF ComponentsShape

\* A line that neither begins a record nor is one.
LEMMA ComponentsPass ==
    ASSUME NEW w, ComponentsRule(w), NEW c \in Nat, c < Len(w), Len(w) \in Nat, NEW p,
           p.status = "reading", NEW a, NEW b, ComponentsShape(w, c, p, a, b),
           NEW n, n = c + 1, w[n] \in {"HEAD", "IPN"}, NEW q, q = ComponentsLine(p, w[n], n)
    PROVE  q.status = "reading" /\ ComponentsShape(w, n, q, a, b)
<1>1. /\ a \in 0..c /\ b \in 0..c /\ p.cur["bom"] = b
      /\ a # 0 => w[a] = "CMP"
      /\ \A k \in (a + 1)..c : w[k] # "CMP"
      /\ \A k \in 1..c : w[k] = "CPN" => k = b \/ k < a
  BY DEF ComponentsShape
<1>2. n \in 1..Len(w) /\ n - 1 = c
  OBVIOUS
<1>3. w[n] = "IPN" => b # 0
  <2> SUFFICES ASSUME w[n] = "IPN", b = 0 PROVE FALSE
    OBVIOUS
  <2>1. PICK x \in 1..c : w[x] = "CPN" /\ \A m \in x..n : w[m] # "CMP"
    BY <1>2 DEF ComponentsRule
  <2>2. x < a
    BY <1>1, <2>1
  <2>3. a \in x..n /\ a # 0
    BY <1>1, <2>2
  <2> QED
    BY <1>1, <2>1, <2>3
<1>4. q = p
  BY <1>1, <1>3 DEF ComponentsLine, ComponentHeadLine, BomFieldLine, Holds
<1>5. w[n] \notin DOMAIN ComponentsOwners
  BY ComponentsOwnersAre
<1>6. RecordsTo(w, ComponentsOwners, n) = RecordsTo(w, ComponentsOwners, c)
  BY <1>5, ShownSame
<1>7. /\ a \in 0..n /\ b \in 0..n
      /\ \A k \in (a + 1)..n : k = n \/ k \in (a + 1)..c
      /\ \A k \in 1..n : k = n \/ k \in 1..c
  BY <1>1
<1>8. /\ \A k \in (a + 1)..n : w[k] # "CMP"
      /\ \A k \in 1..n : w[k] = "CPN" => k = b \/ k < a
  BY <1>1, <1>7
<1> QED
  BY <1>4, <1>6, <1>7, <1>8 DEF ComponentsShape

\* A record of the component or of the BOM record.
LEMMA ComponentsChild ==
    ASSUME NEW w, ComponentsRule(w), NEW c \in Nat, c < Len(w), Len(w) \in Nat, NEW p, TreeOver(ComponentSlots, p),
           p.status = "reading", NEW a, NEW b, ComponentsShape(w, c, p, a, b),
           NEW n, n = c + 1, w[n] \in {"PRP", "TOP", "DSC"}, NEW q, q = ComponentsLine(p, w[n], n)
    PROVE  q.status = "reading" /\ ComponentsShape(w, n, q, a, b)
<1> DEFINE o == IF w[n] = "DSC" THEN b ELSE a
           k0 == w[n]
           u == Push(p, o, n, k0)
           S == RecordsTo(w, ComponentsOwners, c) \ {a, b}
<1>1. /\ a \in 0..c /\ b \in 0..c /\ p.cur["component"] = a /\ p.cur["bom"] = b
      /\ a # 0 => w[a] = "CMP"
      /\ \A k \in (a + 1)..c : w[k] # "CMP"
      /\ b # 0 => w[b] = "CPN" /\ b > a
      /\ \A k \in 1..c : w[k] = "CPN" => k = b \/ k < a
      /\ Tidy(w, ComponentsOwners, S, p.kept)
  BY DEF ComponentsShape
<1>2. /\ n \in 1..Len(w) /\ n - 1 = c /\ n \in Nat /\ a \in 0..n /\ b \in 0..n /\ n # a /\ n # b
      /\ \A k \in (a + 1)..n : k = n \/ k \in (a + 1)..c
      /\ \A k \in 1..n : k = n \/ k \in 1..c
  BY <1>1
<1>3. Owner(w, n, ComponentsOwners) # 0
  BY <1>2 DEF ComponentsRule
<1>4. ~(\A k \in 1..c : w[k] \notin ComponentsOwners[w[n]])
  BY <1>2, <1>3, OwnerNone
<1>5. Owner(w, n, ComponentsOwners) = o /\ o # 0
  <2>1. CASE w[n] = "DSC"
    <3>1. PICK x \in 1..c : w[x] = "CPN" /\ \A m \in x..n : w[m] # "CMP"
      BY <1>2, <2>1 DEF ComponentsRule
    <3>2. x = b
      <4> SUFFICES ASSUME x < a PROVE FALSE
        BY <1>1, <3>1
      <4>1. a \in x..n /\ a # 0
        BY <1>1
      <4> QED
        BY <1>1, <3>1, <4>1
    <3>3. \A k \in (b + 1)..c : w[k] # "CPN"
      <4> SUFFICES ASSUME NEW k \in (b + 1)..c, w[k] = "CPN" PROVE FALSE
        OBVIOUS
      <4>1. k \in 1..Len(w) /\ b \in 1..Len(w) /\ k # b
        BY <1>1, <3>1, <3>2
      <4> QED
        BY <3>1, <3>2, <4>1 DEF ComponentsRule
    <3>4. w[b] \in ComponentsOwners[w[n]] /\ \A k \in (b + 1)..(n - 1) : w[k] \notin ComponentsOwners[w[n]]
      BY <1>2, <2>1, <3>1, <3>2, <3>3, ComponentsOwnersAre
    <3>5. b \in 1..(n - 1) /\ b # 0
      BY <1>2, <3>2
    <3>6. Owner(w, n, ComponentsOwners) = b
      BY <1>2, <3>4, <3>5, OwnerIs
    <3> QED
      BY <2>1, <3>5, <3>6
  <2>2. CASE w[n] # "DSC"
    <3>1. ComponentsOwners[w[n]] = {"CMP"}
      BY <2>2, ComponentsOwnersAre
    <3>2. PICK x \in 1..c : w[x] = "CMP"
      BY <1>4, <3>1
    <3>3. ~(x \in (a + 1)..c)
      BY <1>1, <3>2
    <3>4. a # 0
      BY <1>1, <3>3
    <3>5. w[a] \in ComponentsOwners[w[n]] /\ \A k \in (a + 1)..(n - 1) : w[k] \notin ComponentsOwners[w[n]]
      BY <1>1, <1>2, <3>1, <3>4
    <3>6. a \in 1..(n - 1)
      BY <1>1, <1>2, <3>4
    <3>7. Owner(w, n, ComponentsOwners) = a
      BY <1>2, <3>5, <3>6, OwnerIs
    <3> QED
      BY <2>2, <3>4, <3>7
  <2> QED
    BY <2>1, <2>2
<1>6. q = u
  BY <1>1, <1>5 DEF ComponentsLine, ComponentPropertyLine, ToeprintLine, ComponentChild, DscLine, Holds
<1>7. w[n] \in DOMAIN ComponentsOwners
  BY ComponentsOwnersAre
<1>8. RecordsTo(w, ComponentsOwners, n) = RecordsTo(w, ComponentsOwners, c) \union {n}
  BY <1>7, ShownMore
<1>9. RecordsTo(w, ComponentsOwners, n) \ {a, b} = S \union {n}
  BY <1>2, <1>8
<1>10. k0 = Vector(w[n])
  BY DEF Vector, FeatureLineKinds
<1>11. S \in SUBSET RecordsTo(w, ComponentsOwners, c)
  OBVIOUS
<1>s. w[n] = k0
  OBVIOUS
<1> HIDE DEF S, k0, o
<1>12. Tidy(w, ComponentsOwners, S \union {c + 1}, Append(p.kept, <<o, c + 1, k0>>))
  <2>1. o = Owner(w, c + 1, ComponentsOwners) /\ k0 = Vector(w[c + 1])
    BY <1>5, <1>10
  <2> QED
    BY <1>1, <1>11, <2>1, PushLine
<1>13. Pushed(u, p, ComponentSlots, o, n, k0)
  BY PushPushed
<1> HIDE DEF u
<1>14. q.status = "reading" /\ q.cur = p.cur /\ q.kept = Append(p.kept, <<o, n, k0>>)
  BY <1>6, <1>13, Zenon DEF Pushed
<1>15. Tidy(w, ComponentsOwners, RecordsTo(w, ComponentsOwners, n) \ {a, b}, q.kept)
  BY <1>9, <1>12, <1>14, Zenon
<1>16. /\ \A k \in (a + 1)..n : w[k] # "CMP"
       /\ \A k \in 1..n : w[k] = "CPN" => k = b \/ k < a
  BY <1>1, <1>2
<1>17. q.cur["component"] = a /\ q.cur["bom"] = b
  BY <1>1, <1>14
<1> QED
  BY <1>1, <1>2, <1>14, <1>15, <1>16, <1>17 DEF ComponentsShape

\* A line of an orderly components file is read.
LEMMA ComponentsReads ==
    ASSUME NEW w \in Seq(Token), ComponentsOrderly(w), NEW c \in Nat, c < Len(w), NEW p,
           TreeOver(ComponentSlots, p), p.status = "reading", \E a, b \in 0..c : ComponentsShape(w, c, p, a, b),
           NEW n, n = c + 1, w[n] \in ComponentKinds, NEW q, q = ComponentsLine(p, w[n], n)
    PROVE  q.status = "reading" /\ \E a, b \in 0..n : ComponentsShape(w, n, q, a, b)
<1>1. ComponentsRule(w) /\ Len(w) \in Nat /\ n \in 1..Len(w)
  BY ComponentsOrder
<1>2. PICK a \in 0..c, b \in 0..c : ComponentsShape(w, c, p, a, b)
  OBVIOUS
<1>3. w[n] \in {"HEAD", "CMP", "PRP", "TOP", "CPN", "IPN", "DSC"}
  BY <1>1 DEF ComponentKinds, ComponentsRule
<1>4. w[n] = "CMP" => q.status = "reading" /\ ComponentsShape(w, n, q, n, 0)
  BY <1>1, <1>2, ComponentsBegin
<1>5. w[n] = "CPN" => q.status = "reading" /\ ComponentsShape(w, n, q, a, n)
  BY <1>1, <1>2, BomBegin
<1>6. w[n] \in {"HEAD", "IPN"} => q.status = "reading" /\ ComponentsShape(w, n, q, a, b)
  BY <1>1, <1>2, ComponentsPass
<1>7. w[n] \in {"PRP", "TOP", "DSC"} => q.status = "reading" /\ ComponentsShape(w, n, q, a, b)
  BY <1>1, <1>2, ComponentsChild
<1>8. n \in 0..n /\ 0 \in 0..n /\ a \in 0..n /\ b \in 0..n
  OBVIOUS
<1> QED
  BY <1>3, <1>4, <1>5, <1>6, <1>7, <1>8

\* The end of the file finishes both.
LEMMA ComponentsEnds ==
    ASSUME NEW w \in Seq(Token), ComponentsOrderly(w), NEW c \in Nat, c <= Len(w), NEW p, TreeOver(ComponentSlots, p),
           \E a, b \in 0..c : ComponentsShape(w, c, p, a, b), NEW q, q = ComponentsEnd(p)
    PROVE  q.status = "accepted" /\ Tidy(w, ComponentsOwners, RecordsTo(w, ComponentsOwners, c), q.kept)
<1> DEFINE f == FinishBom(p)
           g == FinishComponent(f)
<1>1. ComponentsRule(w) /\ Len(w) \in Nat
  BY ComponentsOrder
<1>2. PICK a \in 0..c, b \in 0..c : ComponentsShape(w, c, p, a, b)
  OBVIOUS
<1>0. f = FinishBom(p) /\ g = FinishComponent(f)
  OBVIOUS
<1>3. /\ TreeOver(ComponentSlots, f) /\ f.status = p.status
      /\ f.cur["component"] = a /\ f.cur["bom"] = 0
      /\ Tidy(w, ComponentsOwners, RecordsTo(w, ComponentsOwners, c) \ {a}, f.kept)
  BY <1>0, <1>1, <1>2, BomFinished
<1>4. a \in 0..c /\ (a # 0 => w[a] = "CMP") /\ \A k \in (a + 1)..c : w[k] # "CMP"
  BY <1>2 DEF ComponentsShape
<1> HIDE DEF f
<1>5. /\ TreeOver(ComponentSlots, g) /\ g.status = f.status
      /\ g.cur["component"] = 0 /\ g.cur["bom"] = 0
      /\ Tidy(w, ComponentsOwners, RecordsTo(w, ComponentsOwners, c), g.kept)
  BY <1>3, <1>4, ComponentFinished
<1> HIDE DEF g
<1>6. IsTree(g)
  BY <1>5 DEF TreeOver
<1>7. IsTree(Accept(g)) /\ Accept(g).status = "accepted" /\ Accept(g).cur = g.cur /\ Accept(g).kept = g.kept
  BY <1>6, AcceptIs
<1> QED
  BY <1>5, <1>7 DEF ComponentsEnd, f, g

-----------------------------------------------------------------------------
(* The eda file: the last net, package or group is held, and under it the    *)
(* last subnet or pin, the contour that is not closed and its polygon.       *)

EdaTops == {"NET", "PKG", "FGR"}
EdaBrackets == {"CT", "OE", "OB", "OS"}
EdaInside == {"OB", "OS", "OE"}

\* What each slot holds.
EdaCur(p, net, subnet, package, pin, group, contour, polygon) ==
    /\ p.cur["net"] = net /\ p.cur["subnet"] = subnet
    /\ p.cur["package"] = package /\ p.cur["pin"] = pin /\ p.cur["group"] = group
    /\ p.cur["contour"] = contour /\ p.cur["polygon"] = polygon

Where(cond, n) == IF cond THEN n ELSE 0

EdaTopIs(w, p, a, b, r, o) ==
    EdaCur(p, Where(w[a] = "NET", a), Where(w[a] = "NET", b), Where(w[a] = "PKG", a),
           Where(w[a] = "PKG", b), Where(w[a] = "FGR", a), r, o)

EdaLast(w, c, a, b) ==
    /\ a \in 0..c /\ b \in 0..c
    /\ a # 0 => w[a] \in EdaTops
    /\ \A k \in (a + 1)..c : w[k] \notin EdaTops
    /\ b # 0 => a # 0 /\ b > a /\ ((w[a] = "NET" /\ w[b] = "SNT") \/ (w[a] = "PKG" /\ w[b] = "PIN"))
    /\ \A k \in 1..c : w[k] \in {"SNT", "PIN"} => k <= b \/ k < a

EdaTidy(w, c, p, held) == Tidy(w, EdaOwners, RecordsTo(w, EdaOwners, c) \ held, p.kept)

EdaHeld(w, c, p, a, b, r, o) ==
    /\ EdaLast(w, c, a, b)
    /\ (a = 0 => EdaCur(p, 0, 0, 0, 0, 0, r, o)) /\ (a # 0 => EdaTopIs(w, p, a, b, r, o))
    /\ EdaTidy(w, c, p, {a, b, r, o})

EdaIdle(w, c, p, a, b) ==
    EdaHeld(w, c, p, a, b, 0, 0) /\ (c > 0 => w[c] \notin EdaBrackets)

EdaInContour(w, c, p, a, b, r) ==
    /\ EdaHeld(w, c, p, a, b, r, 0) /\ a # 0 /\ w[a] = "PKG"
    /\ r \in 1..c /\ w[r] = "CT" /\ r > a /\ r > b /\ w[c] \in {"CT", "OE"}
    /\ \A k \in (r + 1)..c : w[k] \in EdaInside

EdaInPolygon(w, c, p, a, b, r, o) ==
    /\ EdaHeld(w, c, p, a, b, r, o) /\ a # 0 /\ w[a] = "PKG"
    /\ r \in 1..c /\ w[r] = "CT" /\ r > a /\ r > b /\ w[c] \in {"OB", "OS"}
    /\ \A k \in (r + 1)..c : w[k] \in EdaInside
    /\ o \in (r + 1)..c /\ w[o] = "OB" /\ \A k \in (o + 1)..c : w[k] = "OS"

LEMMA EdaOwnersAre ==
    /\ DOMAIN EdaOwners = {"PRP", "NET", "SNT", "FID", "PKG", "PIN", "FGR", "RC", "CT", "OB", "OS"}
    /\ EdaOwners["PRP"] = EdaTops
    /\ EdaOwners["NET"] = {} /\ EdaOwners["PKG"] = {} /\ EdaOwners["FGR"] = {}
    /\ EdaOwners["SNT"] = {"NET"} /\ EdaOwners["PIN"] = {"PKG"} /\ EdaOwners["FID"] = {"SNT", "FGR"}
    /\ EdaOwners["RC"] = {"PKG", "PIN"} /\ EdaOwners["CT"] = {"PKG", "PIN"}
    /\ EdaOwners["OB"] = {"CT"} /\ EdaOwners["OS"] = {"OB"}
  BY DEF EdaOwners, EdaTops

\* What an orderly file says of its lines.
EdaSections(w) ==
    \A m, n \in 1..Len(w) : w[m] \in {"NET", "SNT", "PKG", "PIN", "FGR"} /\
                            w[n] \in {"NET", "SNT", "PKG", "PIN", "FGR"} /\ m < n =>
        Section[w[m]] <= Section[w[n]]

EdaOwned(w) ==
    /\ \A n \in 1..Len(w) : w[n] \in {"SNT", "PIN", "RC", "CT"} => Owner(w, n, EdaOwners) # 0
    /\ \A n \in 1..Len(w) : w[n] = "FID" =>
          /\ Owner(w, n, EdaOwners) # 0
          /\ w[Owner(w, n, EdaOwners)] = "SNT" =>
                \A m \in (Owner(w, n, EdaOwners) + 1)..n : w[m] \notin {"NET", "PKG"}

EdaBracketed(w) ==
    \A n \in 1..Len(w) :
        /\ w[n] # "BAD"
        /\ n < Len(w) =>
              /\ w[n] \in {"CT", "OE"} => w[n + 1] \in {"OB", "CE"}
              /\ w[n] \in {"OB", "OS"} => w[n + 1] \in {"OS", "OE"}
              /\ w[n] \notin EdaBrackets => w[n + 1] \notin {"OB", "OS", "OE", "CE"}
        /\ n = Len(w) => w[n] \notin EdaBrackets
        /\ n = 1 => w[n] \notin {"OB", "OS", "OE", "CE"}

EdaRule(w) == EdaSections(w) /\ EdaOwned(w) /\ EdaBracketed(w)

LEMMA EdaOrder ==
    ASSUME NEW w \in Seq(Token), EdaOrderly(w)
    PROVE  EdaRule(w)
<1> DEFINE at(kinds) == {n \in DOMAIN w : w[n] \in kinds}
           next(n) == IF n = Len(w) THEN "EOF" ELSE w[n + 1]
<1>1. DOMAIN w = 1..Len(w) /\ Len(w) \in Nat
  OBVIOUS
<1>2. DOMAIN Section = {"NET", "SNT", "PKG", "PIN", "FGR"}
  BY DEF Section
<1>b. at({"BAD"}) = {}
  BY DEF EdaOrderly
<1>3. \A m, n \in at(DOMAIN Section) : m < n => Section[w[m]] <= Section[w[n]]
  BY DEF EdaOrderly
<1>4. \A n \in at({"SNT", "PIN", "RC", "CT"}) : Owner(w, n, EdaOwners) # 0
  BY DEF EdaOrderly
<1>5. \A n \in at({"FID"}) :
          /\ Owner(w, n, EdaOwners) # 0
          /\ w[Owner(w, n, EdaOwners)] = "SNT" =>
                \A m \in (Owner(w, n, EdaOwners) + 1)..n : w[m] \notin {"NET", "PKG"}
  BY DEF EdaOrderly
<1>6. \A n \in DOMAIN w :
          /\ w[n] \in {"CT", "OE"} => next(n) \in {"OB", "CE"}
          /\ w[n] \in {"OB", "OS"} => next(n) \in {"OS", "OE"}
          /\ w[n] \notin {"CT", "OE", "OB", "OS"} => next(n) \notin {"OB", "OS", "OE", "CE"}
  BY DEF EdaOrderly
<1>7. Len(w) > 0 => w[1] \notin {"OB", "OS", "OE", "CE"}
  BY DEF EdaOrderly
<1>8. EdaSections(w)
  BY <1>1, <1>2, <1>3 DEF EdaSections
<1>9. EdaOwned(w)
  BY <1>1, <1>4, <1>5 DEF EdaOwned
<1>10. EdaBracketed(w)
  <2> SUFFICES ASSUME NEW n \in 1..Len(w)
               PROVE  /\ w[n] # "BAD"
                      /\ n < Len(w) =>
                            /\ w[n] \in {"CT", "OE"} => w[n + 1] \in {"OB", "CE"}
                            /\ w[n] \in {"OB", "OS"} => w[n + 1] \in {"OS", "OE"}
                            /\ w[n] \notin EdaBrackets => w[n + 1] \notin {"OB", "OS", "OE", "CE"}
                      /\ n = Len(w) => w[n] \notin EdaBrackets
                      /\ n = 1 => w[n] \notin {"OB", "OS", "OE", "CE"}
    BY DEF EdaBracketed
  <2>0. n \in DOMAIN w
    BY <1>1
  <2>1. w[n] # "BAD"
    <3>1. w[n] = "BAD" => n \in at({"BAD"})
      BY <2>0
    <3> HIDE DEF at
    <3>2. ~(n \in at({"BAD"}))
      BY <1>b
    <3> QED
      BY <3>1, <3>2, Zenon
  <2>2. n < Len(w) => next(n) = w[n + 1]
    <3>1. n < Len(w) => n # Len(w)
      OBVIOUS
    <3> QED
      BY <3>1, Zenon
  <2>3. n = Len(w) => next(n) = "EOF"
    BY Zenon
  <2>4. /\ w[n] \in {"CT", "OE"} => next(n) \in {"OB", "CE"}
        /\ w[n] \in {"OB", "OS"} => next(n) \in {"OS", "OE"}
        /\ w[n] \notin {"CT", "OE", "OB", "OS"} => next(n) \notin {"OB", "OS", "OE", "CE"}
    BY <1>1, <1>6
  <2>5. n = 1 => w[n] \notin {"OB", "OS", "OE", "CE"}
    BY <1>1, <1>7
  <2> HIDE DEF next
  <2> QED
    BY <2>1, <2>2, <2>3, <2>4, <2>5 DEF EdaBrackets
<1> QED
  BY <1>8, <1>9, <1>10 DEF EdaRule

\* The section of each record that opens one.
LEMMA SectionsAre ==
    Section["NET"] = 1 /\ Section["SNT"] = 1 /\ Section["PKG"] = 2 /\ Section["PIN"] = 2
    /\ Section["FGR"] = 3
  BY DEF Section

LEMMA OwnerLast ==
    ASSUME NEW w, NEW owners, NEW n \in Nat, NEW m, m = Owner(w, n, owners), m # 0
    PROVE  /\ m \in 1..(n - 1) /\ w[m] \in owners[w[n]]
           /\ \A k \in (m + 1)..(n - 1) : w[k] \notin owners[w[n]]
<1> DEFINE K == owners[w[n]]
           D == {d \in Nat : n - d \in 1..(n - 1) /\ w[n - d] \in K}
<1>1. \E k \in 1..(n - 1) : w[k] \in K
  BY OwnerNone
<1>2. D # {} /\ D \in SUBSET Nat
  <2>1. PICK k \in 1..(n - 1) : w[k] \in K
    BY <1>1
  <2>2. n - k \in Nat /\ n - (n - k) = k
    OBVIOUS
  <2>3. n - k \in D
    BY <2>1, <2>2
  <2> QED
    BY <2>3
<1>3. PICK d \in D : \A e \in D : d <= e
  BY <1>2, LeastNat
<1> DEFINE x == n - d
<1>4. x \in 1..(n - 1) /\ w[x] \in K /\ d \in Nat
  BY <1>3
<1>5. \A k \in (x + 1)..(n - 1) : w[k] \notin K
  <2> SUFFICES ASSUME NEW k \in (x + 1)..(n - 1), w[k] \in K PROVE FALSE
    OBVIOUS
  <2>1. n - k \in Nat /\ n - (n - k) = k /\ k \in 1..(n - 1) /\ n - k < d
    BY <1>4
  <2>2. n - k \in D
    BY <2>1
  <2> QED
    BY <1>3, <1>4, <2>1, <2>2
<1> HIDE DEF x
<1>6. Owner(w, n, owners) = x
  BY <1>4, <1>5, OwnerIs
<1> QED
  BY <1>4, <1>5, <1>6

\* The records after a slot is flushed, its record being the last of its vector.
FlushInto(q, p, w, s, T) ==
    /\ TreeOver(EdaSlots, q) /\ q.status = p.status /\ q.cur[s] = 0
    /\ \A x \in EdaSlots : x # s => q.cur[x] = p.cur[x]
    /\ Tidy(w, EdaOwners, T, q.kept)

LastOfVector(w, S, r, o, k) ==
    /\ r \notin S /\ o = Owner(w, r, EdaOwners) /\ k = Vector(w[r])
    /\ \A m \in S : Owner(w, m, EdaOwners) = o /\ Vector(w[m]) = k => m < r

LEMMA EdaFlush ==
    ASSUME NEW w, NEW p, TreeOver(EdaSlots, p), NEW s \in EdaSlots, NEW r, r = p.cur[s], NEW o, NEW k,
           NEW S, Tidy(w, EdaOwners, S, p.kept), r # 0 => LastOfVector(w, S, r, o, k),
           NEW q, q = Flush(p, s, o, k), NEW T, r = 0 => T = S, r # 0 => T = S \union {r}
    PROVE  FlushInto(q, p, w, s, T)
<1>1. CASE r = 0
  <2>1. q = p
    BY <1>1 DEF Flush, Holds
  <2> QED
    BY <1>1, <2>1 DEF FlushInto
<1>2. CASE r # 0
  <2>1. Tidy(w, EdaOwners, S \union {r}, Append(p.kept, <<o, r, k>>))
    <3>1. /\ r \notin S /\ o = Owner(w, r, EdaOwners) /\ k = Vector(w[r])
          /\ \A m \in S : Owner(w, m, EdaOwners) = o /\ Vector(w[m]) = k => m < r
      BY <1>2 DEF LastOfVector
    <3> QED
      BY <3>1, TidyPush
  <2>2. Flushed(q, p, EdaSlots, s, o, k)
    BY <1>2, FlushFlushed
  <2>3. /\ TreeOver(EdaSlots, q) /\ q.status = p.status
        /\ q.kept = Append(p.kept, <<o, p.cur[s], k>>)
        /\ q.cur[s] = 0
        /\ \A x \in EdaSlots : x # s => q.cur[x] = p.cur[x]
    BY <2>2, Zenon DEF Flushed
  <2>4. Tidy(w, EdaOwners, T, q.kept)
    BY <1>2, <2>1, <2>3, Zenon
  <2> QED
    BY <2>3, <2>4, Zenon DEF FlushInto
<1> QED
  BY <1>1, <1>2

EdaTopOnly(w, c, p, a) ==
    /\ TreeOver(EdaSlots, p) /\ EdaTopIs(w, p, a, 0, 0, 0)
    /\ Tidy(w, EdaOwners, RecordsTo(w, EdaOwners, c) \ {a}, p.kept)

EdaSettled(w, c, p) ==
    /\ TreeOver(EdaSlots, p) /\ EdaCur(p, 0, 0, 0, 0, 0, 0, 0)
    /\ Tidy(w, EdaOwners, RecordsTo(w, EdaOwners, c), p.kept)

LEMMA EdaSlotsAre ==
    /\ "net" \in EdaSlots /\ "subnet" \in EdaSlots /\ "package" \in EdaSlots /\ "pin" \in EdaSlots
    /\ "group" \in EdaSlots /\ "contour" \in EdaSlots /\ "polygon" \in EdaSlots
  BY DEF EdaSlots

LEMMA VectorsAre ==
    /\ \A k \in {"NET", "SNT", "PKG", "PIN", "FGR", "PRP", "FID", "OB", "OS", "OE", "RC"} : Vector(k) = k
    /\ Vector("CT") = "RC"
    /\ \A k : Vector(k) \in {"NET", "SNT", "PKG", "PIN", "FGR", "PRP", "FID", "OB", "OS"} => Vector(k) = k
<1>1. \A k \in {"NET", "SNT", "PKG", "PIN", "FGR", "PRP", "FID", "OB", "OS", "OE", "RC"} : Vector(k) = k
  BY DEF Vector, FeatureLineKinds
<1>2. Vector("CT") = "RC"
  BY DEF Vector
<1>3. \A k : Vector(k) \in {"NET", "SNT", "PKG", "PIN", "FGR", "PRP", "FID", "OB", "OS"} => Vector(k) = k
  BY DEF Vector
<1> QED
  BY <1>1, <1>2, <1>3

\* The subnet of the net, or the pin of the package, is finished.
LEMMA ChildFinished ==
    ASSUME NEW w, NEW c \in Nat, NEW p, TreeOver(EdaSlots, p), NEW a, NEW b,
           EdaHeld(w, c, p, a, b, 0, 0), a # 0, NEW s, NEW v,
           \/ w[a] = "NET" /\ s = "subnet" /\ v = "SNT"
           \/ w[a] = "PKG" /\ s = "pin" /\ v = "PIN",
           NEW q, q = Flush(p, s, a, v)
    PROVE  EdaTopOnly(w, c, q, a) /\ q.status = p.status
<1> DEFINE all == RecordsTo(w, EdaOwners, c)
           S == all \ {a, b, 0, 0}
           T == all \ {a}
<1>1. /\ a \in 0..c /\ b \in 0..c
      /\ \A k \in (a + 1)..c : w[k] \notin EdaTops
      /\ b # 0 => b > a /\ ((w[a] = "NET" /\ w[b] = "SNT") \/ (w[a] = "PKG" /\ w[b] = "PIN"))
      /\ \A k \in 1..c : w[k] \in {"SNT", "PIN"} => k <= b \/ k < a
      /\ EdaTopIs(w, p, a, b, 0, 0)
  BY DEF EdaHeld, EdaLast
<1>2. Tidy(w, EdaOwners, S, p.kept)
  BY DEF EdaHeld, EdaTidy
<1>3. s \in EdaSlots /\ p.cur[s] = b
  BY <1>1, EdaSlotsAre DEF EdaTopIs, EdaCur, Where
<1>4. b = 0 => T = S
  BY DEF RecordsTo
<1>5. b # 0 => T = S \union {b}
  <2> SUFFICES ASSUME b # 0 PROVE T = S \union {b}
    OBVIOUS
  <2>1. b \in all
    BY <1>1, EdaOwnersAre DEF RecordsTo
  <2>2. b # a
    BY <1>1
  <2>3. 0 \notin all
    BY DEF RecordsTo
  <2> HIDE DEF all
  <2> QED
    BY <2>1, <2>2, <2>3
<1>6. b # 0 => LastOfVector(w, S, b, a, v)
  <2> SUFFICES ASSUME b # 0 PROVE LastOfVector(w, S, b, a, v)
    OBVIOUS
  <2>1. /\ a \in 1..(b - 1) /\ b \in Nat /\ \A k \in (a + 1)..(b - 1) : k \in (a + 1)..c
    BY <1>1
  <2>2. w[b] = v
    BY <1>1
  <2>3. w[a] \in EdaOwners[w[b]] /\ EdaOwners[w[b]] \subseteq EdaTops
    BY <1>1, EdaOwnersAre DEF EdaTops
  <2>4. \A k \in (a + 1)..(b - 1) : w[k] \notin EdaOwners[w[b]]
    BY <1>1, <2>1, <2>3
  <2>5. Owner(w, b, EdaOwners) = a
    BY <2>1, <2>3, <2>4, OwnerIs
  <2>6. Vector(w[b]) = v
    BY <2>2, VectorsAre
  <2>7. \A m \in S : Vector(w[m]) = v => m < b
    <3> SUFFICES ASSUME NEW m \in S, Vector(w[m]) = v PROVE m < b
      OBVIOUS
    <3>1. m \in 1..c /\ m # b
      BY DEF RecordsTo
    <3>2. v \in {"SNT", "PIN"}
      OBVIOUS
    <3>3. w[m] \in {"SNT", "PIN"}
      BY <3>2, VectorsAre
    <3>4. m <= b \/ m < a
      BY <1>1, <3>1, <3>3
    <3> QED
      BY <1>1, <2>1, <3>1, <3>4
  <2>8. b \notin S
    OBVIOUS
  <2> HIDE DEF S
  <2> QED
    BY <2>5, <2>6, <2>7, <2>8 DEF LastOfVector
<1> HIDE DEF S, T, all
<1>7. FlushInto(q, p, w, s, T)
  BY <1>2, <1>3, <1>4, <1>5, <1>6, EdaFlush
<1>8. /\ TreeOver(EdaSlots, q) /\ q.status = p.status /\ q.cur[s] = 0
      /\ \A x \in EdaSlots : x # s => q.cur[x] = p.cur[x]
      /\ Tidy(w, EdaOwners, T, q.kept)
  BY <1>7, Zenon DEF FlushInto
<1>9. EdaTopIs(w, q, a, 0, 0, 0)
  <2>1. CASE w[a] = "NET" /\ s = "subnet"
    <3>1. \A x \in {"net", "package", "pin", "group", "contour", "polygon"} : q.cur[x] = p.cur[x]
      BY <1>8, <2>1 DEF EdaSlots
    <3> QED
      BY <1>1, <1>8, <2>1, <3>1 DEF EdaTopIs, EdaCur, Where
  <2>2. CASE w[a] = "PKG" /\ s = "pin"
    <3>1. \A x \in {"net", "package", "subnet", "group", "contour", "polygon"} : q.cur[x] = p.cur[x]
      BY <1>8, <2>2 DEF EdaSlots
    <3> QED
      BY <1>1, <1>8, <2>2, <3>1 DEF EdaTopIs, EdaCur, Where
  <2> QED
    BY <2>1, <2>2
<1> QED
  BY <1>8, <1>9 DEF EdaTopOnly, T, all

\* The net, package or group is finished.
LEMMA TopFinished ==
    ASSUME NEW w, NEW c \in Nat, NEW p, NEW a \in 1..c, EdaTopOnly(w, c, p, a),
           \A k \in (a + 1)..c : w[k] \notin EdaTops, NEW s, NEW v,
           \/ w[a] = "NET" /\ s = "net" /\ v = "NET"
           \/ w[a] = "PKG" /\ s = "package" /\ v = "PKG"
           \/ w[a] = "FGR" /\ s = "group" /\ v = "FGR",
           NEW q, q = Flush(p, s, 0, v)
    PROVE  EdaSettled(w, c, q) /\ q.status = p.status
<1> DEFINE T == RecordsTo(w, EdaOwners, c)
           S == T \ {a}
<1>1. Tidy(w, EdaOwners, S, p.kept) /\ TreeOver(EdaSlots, p) /\ EdaTopIs(w, p, a, 0, 0, 0)
  BY DEF EdaTopOnly
<1>2. s \in EdaSlots /\ p.cur[s] = a /\ a # 0 /\ w[a] = v
  BY <1>1, EdaSlotsAre DEF EdaTopIs, EdaCur, Where
<1>3. a # 0 => T = S \union {a}
  <2>1. a \in T
    BY <1>2, EdaOwnersAre DEF RecordsTo
  <2> HIDE DEF T
  <2> QED
    BY <2>1
<1>4. LastOfVector(w, S, a, 0, v)
  <2>1. \A k \in 1..(a - 1) : w[k] \notin EdaOwners[w[a]]
    BY <1>2, EdaOwnersAre
  <2>2. Owner(w, a, EdaOwners) = 0
    BY <2>1, OwnerNone
  <2>3. Vector(w[a]) = v
    BY <1>2, VectorsAre
  <2>4. \A m \in S : Vector(w[m]) = v => m < a
    <3> SUFFICES ASSUME NEW m \in S, Vector(w[m]) = v PROVE m < a
      OBVIOUS
    <3>1. m \in 1..c /\ m # a
      BY DEF RecordsTo
    <3>2. v \in {"NET", "PKG", "FGR"}
      OBVIOUS
    <3>3. w[m] \in EdaTops
      BY <3>2, VectorsAre DEF EdaTops
    <3>4. ~(m \in (a + 1)..c)
      BY <3>3
    <3> QED
      BY <3>1, <3>4
  <2>5. a \notin S
    OBVIOUS
  <2> HIDE DEF S
  <2> QED
    BY <2>2, <2>3, <2>4, <2>5 DEF LastOfVector
<1> HIDE DEF S, T
<1>5. FlushInto(q, p, w, s, T)
  BY <1>1, <1>2, <1>3, <1>4, EdaFlush
<1>6. /\ TreeOver(EdaSlots, q) /\ q.status = p.status /\ q.cur[s] = 0
      /\ \A x \in EdaSlots : x # s => q.cur[x] = p.cur[x]
      /\ Tidy(w, EdaOwners, T, q.kept)
  BY <1>5, Zenon DEF FlushInto
<1>7. EdaCur(q, 0, 0, 0, 0, 0, 0, 0)
  <2>0. \A x \in {"subnet", "pin", "contour", "polygon"} : q.cur[x] = p.cur[x]
    BY <1>6 DEF EdaSlots
  <2>1. CASE w[a] = "NET" /\ s = "net"
    <3>1. q.cur["package"] = p.cur["package"] /\ q.cur["group"] = p.cur["group"]
      BY <1>6, <2>1 DEF EdaSlots
    <3> QED
      BY <1>1, <1>6, <2>0, <2>1, <3>1 DEF EdaTopIs, EdaCur, Where
  <2>2. CASE w[a] = "PKG" /\ s = "package"
    <3>1. q.cur["net"] = p.cur["net"] /\ q.cur["group"] = p.cur["group"]
      BY <1>6, <2>2 DEF EdaSlots
    <3> QED
      BY <1>1, <1>6, <2>0, <2>2, <3>1 DEF EdaTopIs, EdaCur, Where
  <2>3. CASE w[a] = "FGR" /\ s = "group"
    <3>1. q.cur["package"] = p.cur["package"] /\ q.cur["net"] = p.cur["net"]
      BY <1>6, <2>3 DEF EdaSlots
    <3> QED
      BY <1>1, <1>6, <2>0, <2>3, <3>1 DEF EdaTopIs, EdaCur, Where
  <2> QED
    BY <2>1, <2>2, <2>3
<1> QED
  BY <1>6, <1>7 DEF EdaSettled, T

\* What a line that begins a net, a package or a group finishes.
LEMMA EdaSettles ==
    ASSUME NEW w, NEW c \in Nat, NEW p, TreeOver(EdaSlots, p), NEW a, NEW b,
           EdaHeld(w, c, p, a, b, 0, 0), NEW q, q = FinishOpen(p)
    PROVE  EdaSettled(w, c, q) /\ q.status = p.status
<1>1. /\ a \in 0..c /\ b \in 0..c
      /\ a # 0 => w[a] \in EdaTops
      /\ \A k \in (a + 1)..c : w[k] \notin EdaTops
      /\ b # 0 => a # 0 /\ ((w[a] = "NET" /\ w[b] = "SNT") \/ (w[a] = "PKG" /\ w[b] = "PIN"))
      /\ (a = 0 => EdaCur(p, 0, 0, 0, 0, 0, 0, 0)) /\ (a # 0 => EdaTopIs(w, p, a, b, 0, 0))
      /\ Tidy(w, EdaOwners, RecordsTo(w, EdaOwners, c) \ {a, b, 0, 0}, p.kept)
  BY DEF EdaHeld, EdaLast, EdaTidy
<1>2. 0 \notin RecordsTo(w, EdaOwners, c)
  BY DEF RecordsTo
<1>3. CASE a = 0
  <2>1. EdaCur(p, 0, 0, 0, 0, 0, 0, 0) /\ b = 0
    BY <1>1, <1>3
  <2>2. q = p
    BY <2>1 DEF FinishOpen, FinishGroup, Flush, Holds, EdaCur
  <2>3. RecordsTo(w, EdaOwners, c) \ {a, b, 0, 0} = RecordsTo(w, EdaOwners, c)
    BY <1>2, <1>3, <2>1
  <2> QED
    BY <1>1, <2>1, <2>2, <2>3 DEF EdaSettled
<1>4. CASE a # 0
  <2>0. a \in 1..c /\ EdaTopIs(w, p, a, b, 0, 0)
    BY <1>1, <1>4
  <2>1. CASE w[a] = "NET"
    <3> DEFINE f == Flush(p, "subnet", a, "SNT")
               s == "net"
               v == "NET"
               g == Flush(f, s, 0, v)
    <3>1. EdaTopOnly(w, c, f, a) /\ f.status = p.status
      BY <1>4, <2>1, ChildFinished
    <3>2. q = g
      BY <1>4, <2>0, <2>1 DEF FinishOpen, FinishNetElsePackage, FinishNet, Holds, EdaTopIs, EdaCur, Where
    <3>3. w[a] = "NET" /\ s = "net" /\ v = "NET"
      BY <2>1
    <3> HIDE DEF f, s, v
    <3>4. EdaSettled(w, c, g) /\ g.status = f.status
      BY <1>1, <2>0, <3>1, <3>3, TopFinished
    <3> QED
      BY <3>1, <3>2, <3>4, Zenon
  <2>2. CASE w[a] = "PKG"
    <3> DEFINE f == Flush(p, "pin", a, "PIN")
               s == "package"
               v == "PKG"
               g == Flush(f, s, 0, v)
    <3>1. EdaTopOnly(w, c, f, a) /\ f.status = p.status
      BY <1>4, <2>2, ChildFinished
    <3>2. q = g
      BY <1>4, <2>0, <2>2 DEF FinishOpen, FinishNetElsePackage, FinishPackage, Holds, EdaTopIs, EdaCur, Where
    <3>3. w[a] = "PKG" /\ s = "package" /\ v = "PKG"
      BY <2>2
    <3> HIDE DEF f, s, v
    <3>4. EdaSettled(w, c, g) /\ g.status = f.status
      BY <1>1, <2>0, <3>1, <3>3, TopFinished
    <3> QED
      BY <3>1, <3>2, <3>4, Zenon
  <2>3. CASE w[a] = "FGR"
    <3> DEFINE s == "group"
               v == "FGR"
               g == Flush(p, s, 0, v)
    <3>1. b = 0
      BY <1>1, <2>3
    <3>2. EdaTopIs(w, p, a, 0, 0, 0)
      BY <2>0, <3>1
    <3>3. RecordsTo(w, EdaOwners, c) \ {a, b, 0, 0} = RecordsTo(w, EdaOwners, c) \ {a}
      BY <1>2, <3>1
    <3>4. EdaTopOnly(w, c, p, a)
      BY <1>1, <3>2, <3>3 DEF EdaTopOnly
    <3>5. q = g
      BY <2>0, <2>3 DEF FinishOpen, FinishGroup, Holds, EdaTopIs, EdaCur, Where
    <3>6. w[a] = "FGR" /\ s = "group" /\ v = "FGR"
      BY <2>3
    <3> HIDE DEF s, v
    <3>7. EdaSettled(w, c, g) /\ g.status = p.status
      BY <1>1, <2>0, <3>4, <3>6, TopFinished
    <3> QED
      BY <3>5, <3>7, Zenon
  <2> QED
    BY <1>1, <1>4, <2>1, <2>2, <2>3 DEF EdaTops
<1> QED
  BY <1>3, <1>4

\* A net, a package or a group begins.
LEMMA EdaTopBegins ==
    ASSUME NEW w, NEW c \in Nat, NEW p, EdaSettled(w, c, p), NEW n, n = c + 1, NEW s,
           \/ w[n] = "NET" /\ s = "net"
           \/ w[n] = "PKG" /\ s = "package"
           \/ w[n] = "FGR" /\ s = "group",
           NEW q, q = Hold(p, s, n)
    PROVE  EdaIdle(w, n, q, n, 0) /\ q.status = p.status
<1>1. /\ TreeOver(EdaSlots, p) /\ EdaCur(p, 0, 0, 0, 0, 0, 0, 0)
      /\ Tidy(w, EdaOwners, RecordsTo(w, EdaOwners, c), p.kept)
  BY DEF EdaSettled
<1>2. s \in EdaSlots /\ n \in Nat /\ n # 0 /\ n > 0
  BY EdaSlotsAre
<1>3. Held(q, p, EdaSlots, s, n)
  BY <1>1, <1>2, HoldHeld
<1>4. /\ q.status = p.status /\ q.kept = p.kept /\ q.cur[s] = n
      /\ \A x \in EdaSlots : x # s => q.cur[x] = p.cur[x]
  BY <1>3, Zenon DEF Held
<1>5. EdaTopIs(w, q, n, 0, 0, 0)
  <2>0. \A x \in {"subnet", "pin", "contour", "polygon"} : q.cur[x] = p.cur[x]
    BY <1>4 DEF EdaSlots
  <2>1. CASE w[n] = "NET" /\ s = "net"
    <3>1. q.cur["package"] = p.cur["package"] /\ q.cur["group"] = p.cur["group"]
      BY <1>4, <2>1 DEF EdaSlots
    <3> QED
      BY <1>1, <1>4, <2>0, <2>1, <3>1 DEF EdaTopIs, EdaCur, Where
  <2>2. CASE w[n] = "PKG" /\ s = "package"
    <3>1. q.cur["net"] = p.cur["net"] /\ q.cur["group"] = p.cur["group"]
      BY <1>4, <2>2 DEF EdaSlots
    <3> QED
      BY <1>1, <1>4, <2>0, <2>2, <3>1 DEF EdaTopIs, EdaCur, Where
  <2>3. CASE w[n] = "FGR" /\ s = "group"
    <3>1. q.cur["package"] = p.cur["package"] /\ q.cur["net"] = p.cur["net"]
      BY <1>4, <2>3 DEF EdaSlots
    <3> QED
      BY <1>1, <1>4, <2>0, <2>3, <3>1 DEF EdaTopIs, EdaCur, Where
  <2> QED
    BY <2>1, <2>2, <2>3
<1>6. w[n] \in EdaTops /\ w[n] \in DOMAIN EdaOwners /\ w[n] \notin EdaBrackets /\ w[n] \notin {"SNT", "PIN"}
  BY EdaOwnersAre DEF EdaTops, EdaBrackets
<1>7. RecordsTo(w, EdaOwners, n) = RecordsTo(w, EdaOwners, c) \union {n}
  BY <1>6, ShownMore
<1>8. \A x \in RecordsTo(w, EdaOwners, c) : x # n /\ x # 0
  BY DEF RecordsTo
<1>9. RecordsTo(w, EdaOwners, n) \ {n, 0, 0, 0} = RecordsTo(w, EdaOwners, c)
  BY <1>7, <1>8
<1>10. EdaTidy(w, n, q, {n, 0, 0, 0})
  BY <1>1, <1>4, <1>9 DEF EdaTidy
<1>11. /\ n \in 0..n /\ 0 \in 0..n
       /\ \A k \in (n + 1)..n : w[k] \notin EdaTops
       /\ \A k \in 1..n : k = n \/ k < n
  BY <1>2
<1>12. EdaLast(w, n, n, 0)
  BY <1>6, <1>11 DEF EdaLast
<1> QED
  BY <1>2, <1>4, <1>5, <1>6, <1>10, <1>12 DEF EdaIdle, EdaHeld

\* A subnet or a pin begins.
LEMMA EdaChildBegins ==
    ASSUME NEW w, NEW c \in Nat, NEW p, TreeOver(EdaSlots, p), NEW a, NEW b,
           EdaHeld(w, c, p, a, b, 0, 0), a # 0, NEW n, n = c + 1, NEW s, NEW v, w[n] = v,
           \/ w[a] = "NET" /\ s = "subnet" /\ v = "SNT"
           \/ w[a] = "PKG" /\ s = "pin" /\ v = "PIN",
           NEW q, q = Hold(Flush(p, s, a, v), s, n)
    PROVE  EdaIdle(w, n, q, a, n) /\ q.status = p.status
<1> DEFINE f == Flush(p, s, a, v)
<1>0. /\ (w[a] = "NET" /\ s = "subnet" /\ v = "SNT") \/ (w[a] = "PKG" /\ s = "pin" /\ v = "PIN")
      /\ f = Flush(p, s, a, v)
  OBVIOUS
<1>1. EdaTopOnly(w, c, f, a) /\ f.status = p.status
  <2> HIDE DEF f
  <2> QED
    BY <1>0, ChildFinished
<1>2. s \in EdaSlots /\ n \in Nat /\ n # 0 /\ n > 0
  BY EdaSlotsAre
<1>t. q = Hold(f, s, n)
  OBVIOUS
<1> HIDE DEF f
<1>3. /\ TreeOver(EdaSlots, f) /\ EdaTopIs(w, f, a, 0, 0, 0)
      /\ Tidy(w, EdaOwners, RecordsTo(w, EdaOwners, c) \ {a}, f.kept)
  BY <1>1 DEF EdaTopOnly
<1>4. Held(q, f, EdaSlots, s, n)
  BY <1>t, <1>2, <1>3, HoldHeld
<1>5. /\ q.status = f.status /\ q.kept = f.kept /\ q.cur[s] = n
      /\ \A x \in EdaSlots : x # s => q.cur[x] = f.cur[x]
  BY <1>4, Zenon DEF Held
<1>6. EdaTopIs(w, q, a, n, 0, 0)
  <2>0. \A x \in {"net", "package", "group", "contour", "polygon"} : q.cur[x] = f.cur[x]
    BY <1>5 DEF EdaSlots
  <2>1. CASE w[a] = "NET" /\ s = "subnet"
    <3>1. q.cur["pin"] = f.cur["pin"]
      BY <1>5, <2>1 DEF EdaSlots
    <3> QED
      BY <1>3, <1>5, <2>0, <2>1, <3>1 DEF EdaTopIs, EdaCur, Where
  <2>2. CASE w[a] = "PKG" /\ s = "pin"
    <3>1. q.cur["subnet"] = f.cur["subnet"]
      BY <1>5, <2>2 DEF EdaSlots
    <3> QED
      BY <1>3, <1>5, <2>0, <2>2, <3>1 DEF EdaTopIs, EdaCur, Where
  <2> QED
    BY <2>1, <2>2
<1>7. v \notin EdaTops /\ v \in DOMAIN EdaOwners /\ v \notin EdaBrackets
  BY EdaOwnersAre DEF EdaTops, EdaBrackets
<1>8. RecordsTo(w, EdaOwners, n) = RecordsTo(w, EdaOwners, c) \union {n}
  BY <1>7, ShownMore
<1>9. \A x \in RecordsTo(w, EdaOwners, c) : x # n /\ x # 0
  BY DEF RecordsTo
<1>l. /\ a \in 0..c /\ w[a] \in EdaTops
      /\ \A k \in (a + 1)..c : w[k] \notin EdaTops
      /\ \A k \in 1..c : w[k] \in {"SNT", "PIN"} => k <= b \/ k < a
  BY DEF EdaHeld, EdaLast
<1>10. RecordsTo(w, EdaOwners, n) \ {a, n, 0, 0} = RecordsTo(w, EdaOwners, c) \ {a}
  BY <1>2, <1>8, <1>9
<1>11. EdaTidy(w, n, q, {a, n, 0, 0})
  BY <1>3, <1>5, <1>10 DEF EdaTidy
<1>12. /\ a \in 0..n /\ n \in 0..n /\ n > a
       /\ \A k \in (a + 1)..n : k = n \/ k \in (a + 1)..c
       /\ \A k \in 1..n : k <= n
  BY <1>l, <1>2
<1>13. \A k \in (a + 1)..n : w[k] \notin EdaTops
  BY <1>l, <1>7, <1>12
<1>14. EdaLast(w, n, a, n)
  BY <1>l, <1>12, <1>13 DEF EdaLast
<1> QED
  BY <1>1, <1>2, <1>5, <1>6, <1>7, <1>11, <1>14 DEF EdaIdle, EdaHeld

\* A line that is not a record, or one that is pushed at once.
LEMMA EdaPass ==
    ASSUME NEW w, NEW c \in Nat, NEW p, NEW a, NEW b, NEW r, NEW o, EdaHeld(w, c, p, a, b, r, o),
           NEW n, n = c + 1, w[n] \notin DOMAIN EdaOwners
    PROVE  EdaHeld(w, n, p, a, b, r, o)
<1>1. RecordsTo(w, EdaOwners, n) = RecordsTo(w, EdaOwners, c)
  BY ShownSame
<1>2. w[n] \notin EdaTops /\ w[n] \notin {"SNT", "PIN"}
  BY EdaOwnersAre DEF EdaTops
<1>3. EdaLast(w, c, a, b)
  BY DEF EdaHeld
<1>4. /\ \A k \in 1..n : k = n \/ k \in 1..c
      /\ a \in 0..c => \A k \in (a + 1)..n : k = n \/ k \in (a + 1)..c
      /\ \A k \in 0..c : k \in 0..n
  OBVIOUS
<1>5. EdaLast(w, n, a, b)
  BY <1>2, <1>3, <1>4 DEF EdaLast
<1> QED
  BY <1>1, <1>5 DEF EdaHeld, EdaTidy

LEMMA EdaPush ==
    ASSUME NEW w, NEW c \in Nat, NEW p, TreeOver(EdaSlots, p), NEW a, NEW b, NEW r \in 0..c, NEW o \in 0..c,
           EdaHeld(w, c, p, a, b, r, o), NEW n, n = c + 1,
           w[n] \in {"PRP", "FID", "RC", "OS"}, NEW x, x = Owner(w, n, EdaOwners),
           NEW v, v = w[n], NEW q, q = Push(p, x, n, v)
    PROVE  EdaHeld(w, n, q, a, b, r, o) /\ q.status = p.status
<1> DEFINE H == {a, b, r, o}
           S == RecordsTo(w, EdaOwners, c) \ H
<1>1. w[n] \in DOMAIN EdaOwners
  BY EdaOwnersAre
<1>2. RecordsTo(w, EdaOwners, n) = RecordsTo(w, EdaOwners, c) \union {n}
  BY <1>1, ShownMore
<1>3. w[n] \notin EdaTops /\ w[n] \notin {"SNT", "PIN"}
  BY DEF EdaTops
<1>4. EdaLast(w, c, a, b)
  BY DEF EdaHeld
<1>5. /\ \A k \in 1..n : k = n \/ k \in 1..c
      /\ a \in 0..c => \A k \in (a + 1)..n : k = n \/ k \in (a + 1)..c
      /\ \A k \in 0..c : k \in 0..n /\ k # n
  OBVIOUS
<1>6. EdaLast(w, n, a, b)
  BY <1>3, <1>4, <1>5 DEF EdaLast
<1>7. n \notin H
  BY <1>4, <1>5 DEF EdaLast
<1>8. RecordsTo(w, EdaOwners, n) \ H = S \union {n}
  <2> HIDE DEF H
  <2> QED
    BY <1>2, <1>7
<1>9. Tidy(w, EdaOwners, S, p.kept)
  BY DEF EdaHeld, EdaTidy
<1>10. v = Vector(w[c + 1]) /\ x = Owner(w, c + 1, EdaOwners)
  <2>1. v \in {"PRP", "FID", "RC", "OS"} /\ w[c + 1] = v
    OBVIOUS
  <2>2. Vector(v) = v
    BY <2>1, VectorsAre
  <2> QED
    BY <2>1, <2>2
<1>11. S \in SUBSET RecordsTo(w, EdaOwners, c)
  OBVIOUS
<1> HIDE DEF S
<1>12. Tidy(w, EdaOwners, S \union {c + 1}, Append(p.kept, <<x, c + 1, v>>))
  BY <1>9, <1>10, <1>11, PushLine
<1>13. Pushed(q, p, EdaSlots, x, n, v)
  BY PushPushed
<1>14. q.status = p.status /\ q.cur = p.cur /\ q.kept = Append(p.kept, <<x, n, v>>)
  BY <1>13, Zenon DEF Pushed
<1>15. Tidy(w, EdaOwners, RecordsTo(w, EdaOwners, n) \ H, q.kept)
  BY <1>8, <1>12, <1>14
<1>16. (a = 0 => EdaCur(q, 0, 0, 0, 0, 0, r, o)) /\ (a # 0 => EdaTopIs(w, q, a, b, r, o))
  BY <1>14 DEF EdaHeld, EdaCur, EdaTopIs
<1> QED
  BY <1>6, <1>14, <1>15, <1>16 DEF EdaHeld, EdaTidy

LEMMA EdaHeader ==
    ASSUME NEW w, NEW c \in Nat, NEW p, NEW a, NEW b, EdaHeld(w, c, p, a, b, 0, 0),
           NEW n, n = c + 1, w[n] = "HEAD", NEW q, q = EdaLine(p, w[n], n)
    PROVE  q.status = p.status /\ EdaIdle(w, n, q, a, b)
<1>1. q = p
  BY DEF EdaLine, HeaderLine
<1>2. w[n] \notin DOMAIN EdaOwners /\ w[n] \notin EdaBrackets
  BY EdaOwnersAre DEF EdaBrackets
<1>3. EdaHeld(w, n, p, a, b, 0, 0)
  BY <1>2, EdaPass
<1> QED
  BY <1>1, <1>2, <1>3 DEF EdaIdle

LEMMA EdaProperty ==
    ASSUME NEW w, NEW c \in Nat, NEW p, TreeOver(EdaSlots, p), NEW a, NEW b, EdaHeld(w, c, p, a, b, 0, 0),
           NEW n, n = c + 1, w[n] = "PRP", NEW q, q = EdaLine(p, w[n], n)
    PROVE  q.status = p.status /\ EdaIdle(w, n, q, a, b)
<1> DEFINE v == "PRP"
           z == 0
           u == Push(p, a, n, v)
<1>1. /\ a \in 0..c /\ (a # 0 => w[a] \in EdaTops) /\ \A k \in (a + 1)..c : w[k] \notin EdaTops
      /\ (a = 0 => EdaCur(p, 0, 0, 0, 0, 0, 0, 0)) /\ (a # 0 => EdaTopIs(w, p, a, b, 0, 0))
  BY DEF EdaHeld, EdaLast
<1>2. q = u
  <2>1. q = PropertyLine(p, n)
    BY DEF EdaLine
  <2>2. CASE a = 0
    BY <1>1, <2>1, <2>2 DEF PropertyLine, Holds, EdaCur
  <2>3. CASE a # 0 /\ w[a] = "NET"
    BY <1>1, <2>1, <2>3 DEF PropertyLine, Holds, EdaCur, EdaTopIs, Where
  <2>4. CASE a # 0 /\ w[a] = "PKG"
    BY <1>1, <2>1, <2>4 DEF PropertyLine, Holds, EdaCur, EdaTopIs, Where
  <2>5. CASE a # 0 /\ w[a] = "FGR"
    BY <1>1, <2>1, <2>5 DEF PropertyLine, Holds, EdaCur, EdaTopIs, Where
  <2> QED
    BY <1>1, <2>2, <2>3, <2>4, <2>5 DEF EdaTops
<1>3. n \in Nat /\ n - 1 = c /\ (a # 0 => a \in 1..(n - 1))
  BY <1>1
<1>4. a = Owner(w, n, EdaOwners)
  <2>1. EdaOwners[w[n]] = EdaTops
    BY EdaOwnersAre
  <2>2. CASE a = 0
    <3>1. \A k \in 1..(n - 1) : w[k] \notin EdaOwners[w[n]]
      BY <1>1, <1>3, <2>1, <2>2
    <3> QED
      BY <2>2, <3>1, OwnerNone
  <2>3. CASE a # 0
    <3>1. w[a] \in EdaOwners[w[n]] /\ \A k \in (a + 1)..(n - 1) : w[k] \notin EdaOwners[w[n]]
      BY <1>1, <1>3, <2>1, <2>3
    <3> QED
      BY <1>3, <2>3, <3>1, OwnerIs
  <2> QED
    BY <2>2, <2>3
<1>5. v = w[n] /\ w[n] \in {"PRP", "FID", "RC", "OS"} /\ w[n] \notin EdaBrackets
  BY DEF EdaBrackets
<1>6. z \in 0..c /\ EdaHeld(w, c, p, a, b, z, z)
  OBVIOUS
<1> HIDE DEF v, z
<1>7. EdaHeld(w, n, u, a, b, z, z) /\ u.status = p.status
  BY <1>4, <1>5, <1>6, EdaPush
<1> QED
  BY <1>2, <1>5, <1>7 DEF EdaIdle, z

\* Who owns the feature ids that an orderly file has.
LEMMA EdaFeatureIdOwner ==
    ASSUME NEW w, EdaRule(w), Len(w) \in Nat, NEW c \in Nat, c < Len(w), NEW a, NEW b, EdaLast(w, c, a, b),
           NEW n, n = c + 1, w[n] = "FID"
    PROVE  /\ a # 0
           /\ \/ w[a] = "NET" /\ b # 0 /\ Owner(w, n, EdaOwners) = b
              \/ w[a] = "FGR" /\ Owner(w, n, EdaOwners) = a
<1> DEFINE y == Owner(w, n, EdaOwners)
<1>1. /\ a \in 0..c /\ b \in 0..c
      /\ a # 0 => w[a] \in EdaTops
      /\ \A k \in (a + 1)..c : w[k] \notin EdaTops
      /\ b # 0 => a # 0 /\ b > a /\ ((w[a] = "NET" /\ w[b] = "SNT") \/ (w[a] = "PKG" /\ w[b] = "PIN"))
      /\ \A k \in 1..c : w[k] \in {"SNT", "PIN"} => k <= b \/ k < a
  BY DEF EdaLast
<1>2. n \in 1..Len(w) /\ n \in Nat /\ n - 1 = c /\ 1..c \subseteq 1..Len(w)
  OBVIOUS
<1>3. /\ y # 0
      /\ w[y] = "SNT" => \A m \in (y + 1)..n : w[m] \notin {"NET", "PKG"}
  BY <1>2 DEF EdaRule, EdaOwned
<1> HIDE DEF y
<1>4. y \in 1..(n - 1) /\ w[y] \in EdaOwners[w[n]] /\ \A k \in (y + 1)..(n - 1) : w[k] \notin EdaOwners[w[n]]
  BY <1>2, <1>3, OwnerLast DEF y
<1>5. y \in 1..c /\ w[y] \in {"SNT", "FGR"} /\ \A k \in (y + 1)..c : w[k] \notin {"SNT", "FGR"}
  BY <1>2, <1>4, EdaOwnersAre
<1>6. w[y] = "FGR" => y <= a
  <2>1. w[y] = "FGR" => w[y] \in EdaTops
    BY DEF EdaTops
  <2> QED
    BY <1>1, <1>5, <2>1
<1>7. w[y] = "SNT" => y <= b \/ y < a
  BY <1>1, <1>5
<1>8. w[y] = "SNT" => ~(a \in (y + 1)..n /\ w[a] \in {"NET", "PKG"})
  BY <1>3
<1>9. a # 0
  <2> SUFFICES ASSUME a = 0 PROVE FALSE
    OBVIOUS
  <2>1. b = 0
    BY <1>1
  <2> QED
    BY <1>5, <1>6, <1>7, <2>1
<1>10. a \in 1..Len(w) /\ y \in 1..Len(w) /\ a \in 1..c /\ w[a] \in {"NET", "PKG", "FGR"}
  BY <1>1, <1>2, <1>5, <1>9 DEF EdaTops
<1>11. w[y] = "FGR" => w[a] = "FGR"
  <2> SUFFICES ASSUME w[y] = "FGR", w[a] \in {"NET", "PKG"} PROVE FALSE
    BY <1>10
  <2>1. y < a
    BY <1>5, <1>6, <1>10
  <2>2. Section[w[y]] <= Section[w[a]]
    BY <1>10, <2>1 DEF EdaRule, EdaSections
  <2> QED
    BY <2>2, SectionsAre
<1>12. CASE w[a] = "FGR"
  <2>1. b = 0
    BY <1>1, <1>12
  <2>2. y = a
    <3>1. w[y] = "SNT" => FALSE
      <4> SUFFICES ASSUME w[y] = "SNT" PROVE FALSE
        OBVIOUS
      <4>1. y < a
        BY <1>5, <1>7, <2>1
      <4>2. a \in (y + 1)..c
        BY <1>10, <1>5, <4>1
      <4> QED
        BY <1>5, <1>12, <4>2
    <3>2. w[y] = "FGR"
      BY <1>5, <3>1
    <3>3. y <= a /\ (y < a => a \in (y + 1)..c)
      BY <1>5, <1>6, <1>10, <3>2
    <3>4. ~(a \in (y + 1)..c)
      BY <1>5, <1>12
    <3> QED
      BY <1>5, <1>10, <3>3, <3>4
  <2> QED
    BY <1>9, <1>12, <2>2 DEF y
<1>13. CASE w[a] \in {"NET", "PKG"}
  <2>1. w[y] = "SNT"
    BY <1>5, <1>11, <1>13
  <2>2. ~(y < a)
    <3>1. y < a => a \in (y + 1)..n
      BY <1>2, <1>5, <1>10
    <3> QED
      BY <1>8, <1>13, <2>1, <3>1
  <2>3. y <= b /\ b # 0
    BY <1>5, <1>7, <2>1, <2>2
  <2>4. w[a] = "NET"
    <3> SUFFICES ASSUME w[a] = "PKG" PROVE FALSE
      BY <1>13
    <3>1. a < y
      <4>1. a # y
        BY <2>1
      <4> QED
        BY <1>5, <1>10, <2>2, <4>1
    <3>2. Section[w[a]] <= Section[w[y]]
      BY <1>10, <2>1, <3>1 DEF EdaRule, EdaSections
    <3> QED
      BY <2>1, <3>2, SectionsAre
  <2>5. w[b] = "SNT" /\ b \in 1..c
    BY <1>1, <2>3, <2>4
  <2>6. y = b
    <3>1. y < b => b \in (y + 1)..c
      BY <1>5, <2>5
    <3>2. ~(b \in (y + 1)..c)
      BY <1>5, <2>5
    <3> QED
      BY <1>5, <2>3, <2>5, <3>1, <3>2
  <2> QED
    BY <1>9, <2>3, <2>4, <2>6 DEF y
<1> QED
  BY <1>10, <1>12, <1>13

LEMMA EdaFeatureId ==
    ASSUME NEW w, EdaRule(w), Len(w) \in Nat, NEW c \in Nat, c < Len(w), NEW p, TreeOver(EdaSlots, p), NEW a, NEW b,
           EdaHeld(w, c, p, a, b, 0, 0), NEW n, n = c + 1, w[n] = "FID", NEW q, q = EdaLine(p, w[n], n)
    PROVE  q.status = p.status /\ EdaIdle(w, n, q, a, b)
<1> DEFINE v == "FID"
           z == 0
           x == Owner(w, n, EdaOwners)
           u == Push(p, x, n, v)
<1>1. EdaLast(w, c, a, b) /\ (a # 0 => EdaTopIs(w, p, a, b, 0, 0))
  BY DEF EdaHeld
<1>2. /\ a # 0
      /\ \/ w[a] = "NET" /\ b # 0 /\ Owner(w, n, EdaOwners) = b
         \/ w[a] = "FGR" /\ Owner(w, n, EdaOwners) = a
  BY <1>1, EdaFeatureIdOwner
<1>3. q = u
  <2>1. q = FeatureIdLine(p, n)
    BY DEF EdaLine
  <2>2. EdaTopIs(w, p, a, b, 0, 0)
    BY <1>1, <1>2
  <2>3. CASE w[a] = "NET" /\ b # 0 /\ x = b
    BY <1>2, <2>1, <2>2, <2>3 DEF FeatureIdLine, Holds, EdaTopIs, EdaCur, Where
  <2>4. CASE w[a] = "FGR" /\ x = a
    BY <1>2, <2>1, <2>2, <2>4 DEF FeatureIdLine, Holds, EdaTopIs, EdaCur, Where
  <2> QED
    BY <1>2, <2>3, <2>4
<1>4. v = w[n] /\ w[n] \in {"PRP", "FID", "RC", "OS"} /\ w[n] \notin EdaBrackets
  BY DEF EdaBrackets
<1>5. z \in 0..c /\ EdaHeld(w, c, p, a, b, z, z) /\ x = Owner(w, n, EdaOwners)
  OBVIOUS
<1> HIDE DEF v, z, x
<1>6. EdaHeld(w, n, u, a, b, z, z) /\ u.status = p.status
  BY <1>4, <1>5, EdaPush
<1> QED
  BY <1>3, <1>4, <1>6 DEF EdaIdle, z

\* The sections of an orderly file: what a line that opens a record finds held.
LEMMA EdaSectionAbove ==
    ASSUME NEW w, EdaRule(w), Len(w) \in Nat, NEW c \in Nat, c < Len(w), NEW a, NEW b, EdaLast(w, c, a, b),
           a # 0, NEW n, n = c + 1
    PROVE  /\ w[n] \in {"NET", "SNT"} => w[a] = "NET"
           /\ w[n] \in {"PKG", "PIN"} => w[a] \in {"NET", "PKG"}
<1>1. a \in 1..c /\ w[a] \in {"NET", "PKG", "FGR"}
  BY DEF EdaLast, EdaTops
<1>2. a \in 1..Len(w) /\ n \in 1..Len(w) /\ a < n
  BY <1>1
<1>3. w[n] \in {"NET", "SNT", "PKG", "PIN", "FGR"} => Section[w[a]] <= Section[w[n]]
  BY <1>1, <1>2 DEF EdaRule, EdaSections
<1> QED
  BY <1>1, <1>3, SectionsAre

LEMMA EdaTop ==
    ASSUME NEW w, EdaRule(w), Len(w) \in Nat, NEW c \in Nat, c < Len(w), NEW p, TreeOver(EdaSlots, p), NEW a, NEW b,
           EdaHeld(w, c, p, a, b, 0, 0), NEW n, n = c + 1, w[n] \in {"NET", "PKG", "FGR"},
           NEW q, q = EdaLine(p, w[n], n)
    PROVE  q.status = p.status /\ EdaIdle(w, n, q, n, 0)
<1> DEFINE s == IF w[n] = "NET" THEN "net" ELSE IF w[n] = "PKG" THEN "package" ELSE "group"
           f == FinishOpen(p)
<1>1. EdaSettled(w, c, f) /\ f.status = p.status
  BY EdaSettles
<1>2. EdaLast(w, c, a, b) /\ (a = 0 => EdaCur(p, 0, 0, 0, 0, 0, 0, 0)) /\ (a # 0 => EdaTopIs(w, p, a, b, 0, 0))
  BY DEF EdaHeld
<1>3. a # 0 /\ w[n] = "NET" => w[a] = "NET"
  BY <1>2, EdaSectionAbove
<1>4. a # 0 /\ w[n] = "PKG" => w[a] \in {"NET", "PKG"}
  BY <1>2, EdaSectionAbove
<1>5. q = Hold(f, s, n)
  <2>1. CASE w[n] = "NET"
    <3>1. q = NetLine(p, n) /\ s = "net"
      BY <2>1 DEF EdaLine
    <3>2. CASE a = 0
      BY <1>2, <3>1, <3>2 DEF NetLine, FinishOpen, FinishGroup, Flush, Holds, EdaCur
    <3>3. CASE a # 0
      <4>1. w[a] = "NET" /\ EdaTopIs(w, p, a, b, 0, 0)
        BY <1>2, <1>3, <2>1, <3>3
      <4>2. Holds(p, "net")
        BY <3>3, <4>1 DEF Holds, EdaTopIs, EdaCur, Where
      <4> QED
        BY <3>1, <4>2 DEF NetLine, FinishOpen, FinishNetElsePackage
    <3> QED
      BY <3>2, <3>3
  <2>2. CASE w[n] = "PKG"
    <3>1. q = PackageLine(p, n) /\ s = "package"
      BY <2>2 DEF EdaLine
    <3>2. CASE a = 0
      BY <1>2, <3>1, <3>2 DEF PackageLine, FinishNetElsePackage, FinishOpen, FinishGroup, Flush, Holds, EdaCur
    <3>3. CASE a # 0
      <4>1. w[a] \in {"NET", "PKG"} /\ EdaTopIs(w, p, a, b, 0, 0)
        BY <1>2, <1>4, <2>2, <3>3
      <4>2. Holds(p, "net") \/ Holds(p, "package")
        BY <3>3, <4>1 DEF Holds, EdaTopIs, EdaCur, Where
      <4> QED
        BY <3>1, <4>2 DEF PackageLine, FinishOpen
    <3> QED
      BY <3>2, <3>3
  <2>3. CASE w[n] = "FGR"
    BY <2>3 DEF EdaLine, GroupLine
  <2> QED
    BY <2>1, <2>2, <2>3
<1>6. \/ w[n] = "NET" /\ s = "net"
      \/ w[n] = "PKG" /\ s = "package"
      \/ w[n] = "FGR" /\ s = "group"
  OBVIOUS
<1> HIDE DEF f, s
<1>7. EdaIdle(w, n, q, n, 0) /\ q.status = f.status
  BY <1>1, <1>5, <1>6, EdaTopBegins
<1> QED
  BY <1>1, <1>7

\* A subnet or a pin has a net or a package above.
LEMMA EdaOwnedAbove ==
    ASSUME NEW w, EdaRule(w), Len(w) \in Nat, NEW c \in Nat, c < Len(w), NEW a, NEW b, EdaLast(w, c, a, b),
           NEW n, n = c + 1, w[n] \in {"SNT", "PIN", "RC", "CT"}
    PROVE  a # 0 /\ (w[n] = "PIN" => w[a] = "PKG")
<1> DEFINE y == Owner(w, n, EdaOwners)
<1>1. n \in 1..Len(w) /\ n \in Nat /\ n - 1 = c /\ 1..c \subseteq 1..Len(w)
  OBVIOUS
<1>2. y # 0
  BY <1>1 DEF EdaRule, EdaOwned
<1>3. /\ a \in 0..c /\ b \in 0..c
      /\ a # 0 => w[a] \in EdaTops
      /\ \A k \in (a + 1)..c : w[k] \notin EdaTops
      /\ b # 0 => a # 0
      /\ \A k \in 1..c : w[k] \in {"SNT", "PIN"} => k <= b \/ k < a
  BY DEF EdaLast
<1> HIDE DEF y
<1>4. y \in 1..(n - 1) /\ w[y] \in EdaOwners[w[n]]
  BY <1>1, <1>2, OwnerLast DEF y
<1>5. y \in 1..c /\ y \in 1..Len(w) /\ w[y] \in {"NET", "PKG", "PIN"} /\ (w[n] = "PIN" => w[y] = "PKG")
  BY <1>1, <1>4, EdaOwnersAre
<1>6. w[y] \in EdaTops => y <= a
  BY <1>3, <1>5
<1>7. a # 0
  <2> SUFFICES ASSUME a = 0 PROVE FALSE
    OBVIOUS
  <2>1. b = 0
    BY <1>3
  <2>2. w[y] = "PIN" => FALSE
    BY <1>3, <1>5, <2>1
  <2>3. w[y] \in EdaTops
    BY <1>5, <2>2 DEF EdaTops
  <2> QED
    BY <1>5, <1>6, <2>3
<1>8. ASSUME w[n] = "PIN" PROVE w[a] = "PKG"
  <2>1. w[a] \in {"NET", "PKG"}
    BY <1>7, <1>8, EdaSectionAbove
  <2> SUFFICES ASSUME w[a] = "NET" PROVE FALSE
    BY <2>1
  <2>2. w[y] = "PKG" /\ w[y] \in EdaTops
    BY <1>5, <1>8 DEF EdaTops
  <2>3. y < a /\ a \in 1..Len(w)
    BY <1>3, <1>5, <1>6, <1>7, <2>2
  <2>4. Section[w[y]] <= Section[w[a]]
    BY <1>5, <2>2, <2>3 DEF EdaRule, EdaSections
  <2> QED
    BY <2>2, <2>4, SectionsAre
<1> QED
  BY <1>7, <1>8

LEMMA EdaChild ==
    ASSUME NEW w, EdaRule(w), Len(w) \in Nat, NEW c \in Nat, c < Len(w), NEW p, TreeOver(EdaSlots, p), NEW a, NEW b,
           EdaHeld(w, c, p, a, b, 0, 0), NEW n, n = c + 1, w[n] \in {"SNT", "PIN"},
           NEW q, q = EdaLine(p, w[n], n)
    PROVE  q.status = p.status /\ EdaIdle(w, n, q, a, n)
<1>1. EdaLast(w, c, a, b) /\ (a # 0 => EdaTopIs(w, p, a, b, 0, 0))
  BY DEF EdaHeld
<1>2. a # 0 /\ (w[n] = "PIN" => w[a] = "PKG")
  BY <1>1, EdaOwnedAbove
<1>3. w[n] = "SNT" => w[a] = "NET"
  BY <1>1, <1>2, EdaSectionAbove
<1> DEFINE s == IF w[n] = "SNT" THEN "subnet" ELSE "pin"
           v == w[n]
<1>4. q = Hold(Flush(p, s, a, v), s, n)
  <2>1. CASE w[n] = "SNT"
    <3>1. q = SubnetLine(p, n) /\ s = "subnet" /\ v = "SNT"
      BY <2>1 DEF EdaLine
    <3>2. p.cur["net"] = a
      BY <1>1, <1>2, <1>3, <2>1 DEF EdaTopIs, EdaCur, Where
    <3> HIDE DEF s, v
    <3> QED
      BY <1>2, <3>1, <3>2 DEF SubnetLine, Holds
  <2>2. CASE w[n] = "PIN"
    <3>1. q = PinLine(p, n) /\ s = "pin" /\ v = "PIN"
      BY <2>2 DEF EdaLine
    <3>2. p.cur["package"] = a
      BY <1>1, <1>2, <2>2 DEF EdaTopIs, EdaCur, Where
    <3> HIDE DEF s, v
    <3> QED
      BY <1>2, <3>1, <3>2 DEF PinLine, Holds
  <2> QED
    BY <2>1, <2>2
<1>5. \/ w[a] = "NET" /\ s = "subnet" /\ v = "SNT"
      \/ w[a] = "PKG" /\ s = "pin" /\ v = "PIN"
  BY <1>2, <1>3
<1>6. EdaHeld(w, c, p, a, b, 0, 0) /\ TreeOver(EdaSlots, p) /\ a # 0 /\ n = c + 1 /\ w[n] = v
  BY <1>2
<1> DEFINE u == Hold(Flush(p, s, a, v), s, n)
<1>7. u = Hold(Flush(p, s, a, v), s, n)
  OBVIOUS
<1> HIDE DEF s, v, u
<1>8. EdaIdle(w, n, u, a, n)
  BY ONLY c \in Nat, <1>5, <1>6, <1>7, EdaChildBegins
<1>9. u.status = p.status
  BY ONLY c \in Nat, <1>5, <1>6, <1>7, EdaChildBegins
<1> QED
  BY <1>4, <1>7, <1>8, <1>9

\* The outlines: the pin owns them, or else the package.
EdaShapeOwner(a, b) == IF b # 0 THEN b ELSE a

EdaPackage(w, a) == a # 0 => w[a] = "PKG"

LEMMA EdaOutlineOwner ==
    ASSUME NEW w, NEW c \in Nat, NEW a, NEW b, EdaLast(w, c, a, b), a # 0, w[a] = "PKG",
           NEW m \in Nat, a < m, b < m, m <= c + 1, w[m] \in {"RC", "CT"}
    PROVE  Owner(w, m, EdaOwners) = EdaShapeOwner(a, b)
<1>1. /\ a \in 1..c /\ b \in 0..c
      /\ \A k \in (a + 1)..c : w[k] \notin EdaTops
      /\ b # 0 => b > a /\ w[b] = "PIN"
      /\ \A k \in 1..c : w[k] \in {"SNT", "PIN"} => k <= b \/ k < a
  BY DEF EdaLast
<1>2. EdaOwners[w[m]] = {"PKG", "PIN"}
  BY EdaOwnersAre
<1>3. CASE b # 0
  <2>1. b \in 1..(m - 1) /\ \A k \in (b + 1)..(m - 1) : k \in 1..c /\ k \in (a + 1)..c
    BY <1>1, <1>3
  <2>2. \A k \in (b + 1)..(m - 1) : w[k] \notin EdaTops /\ w[k] # "PIN"
    BY <1>1, <2>1
  <2>3. w[b] \in EdaOwners[w[m]] /\ \A k \in (b + 1)..(m - 1) : w[k] \notin EdaOwners[w[m]]
    BY <1>1, <1>2, <1>3, <2>2 DEF EdaTops
  <2>4. Owner(w, m, EdaOwners) = b
    BY <2>1, <2>3, OwnerIs
  <2> QED
    BY <1>3, <2>4 DEF EdaShapeOwner
<1>4. CASE b = 0
  <2>1. a \in 1..(m - 1) /\ \A k \in (a + 1)..(m - 1) : k \in 1..c /\ k \in (a + 1)..c
    BY <1>1
  <2>2. \A k \in (a + 1)..(m - 1) : w[k] \notin EdaTops /\ w[k] # "PIN"
    BY <1>1, <1>4, <2>1
  <2>3. w[a] \in EdaOwners[w[m]] /\ \A k \in (a + 1)..(m - 1) : w[k] \notin EdaOwners[w[m]]
    BY <1>2, <2>2 DEF EdaTops
  <2>4. Owner(w, m, EdaOwners) = a
    BY <2>1, <2>3, OwnerIs
  <2> QED
    BY <1>4, <2>4 DEF EdaShapeOwner
<1> QED
  BY <1>3, <1>4

\* What is held when the package's slots say so.
LEMMA EdaAddOutline ==
    ASSUME NEW w, NEW p, NEW a \in Nat, NEW b \in Nat, NEW r, NEW o, EdaTopIs(w, p, a, b, r, o), a # 0, w[a] = "PKG",
           NEW n
    PROVE  AddOutline(p, n) = Push(p, EdaShapeOwner(a, b), n, "RC")
<1>1. p.cur["package"] = a /\ p.cur["pin"] = b
  BY DEF EdaTopIs, EdaCur, Where
<1> QED
  BY <1>1 DEF AddOutline, Holds, EdaShapeOwner

LEMMA EdaOutline ==
    ASSUME NEW w, EdaRule(w), Len(w) \in Nat, NEW c \in Nat, c < Len(w), NEW p, TreeOver(EdaSlots, p), NEW a, NEW b,
           EdaHeld(w, c, p, a, b, 0, 0), EdaPackage(w, a),
           NEW n, n = c + 1, w[n] = "RC", NEW q, q = EdaLine(p, w[n], n)
    PROVE  q.status = p.status /\ EdaIdle(w, n, q, a, b)
<1> DEFINE v == "RC"
           z == 0
           x == EdaShapeOwner(a, b)
           u == Push(p, x, n, v)
<1>1. EdaLast(w, c, a, b) /\ (a # 0 => EdaTopIs(w, p, a, b, 0, 0)) /\ a \in 0..c /\ b \in 0..c
  BY DEF EdaHeld, EdaLast
<1>2. a # 0
  BY <1>1, EdaOwnedAbove
<1>3. w[a] = "PKG" /\ a \in Nat /\ b \in Nat /\ a < n /\ b < n /\ n \in Nat /\ n <= c + 1
  BY <1>1, <1>2 DEF EdaPackage
<1>4. q = u
  <2>1. q = AddOutline(p, n)
    BY DEF EdaLine, OutlineLine
  <2> QED
    BY <1>1, <1>2, <1>3, <2>1, EdaAddOutline
<1>5. x = Owner(w, n, EdaOwners)
  BY <1>1, <1>2, <1>3, EdaOutlineOwner
<1>6. v = w[n] /\ w[n] \in {"PRP", "FID", "RC", "OS"} /\ w[n] \notin EdaBrackets
  BY DEF EdaBrackets
<1>7. z \in 0..c /\ EdaHeld(w, c, p, a, b, z, z)
  OBVIOUS
<1> HIDE DEF v, z, x
<1>8. EdaHeld(w, n, u, a, b, z, z) /\ u.status = p.status
  BY <1>5, <1>6, <1>7, EdaPush
<1> QED
  BY <1>4, <1>6, <1>8 DEF EdaIdle, z

\* A contour or a polygon begins.
LEMMA EdaShapeBegins ==
    ASSUME NEW w, NEW c \in Nat, NEW p, TreeOver(EdaSlots, p), NEW a, NEW b, NEW r \in 0..c,
           EdaHeld(w, c, p, a, b, r, 0), a # 0, NEW n, n = c + 1, NEW x, NEW y, NEW s,
           \/ w[n] = "CT" /\ s = "contour" /\ r = 0 /\ x = n /\ y = 0
           \/ w[n] = "OB" /\ s = "polygon" /\ x = r /\ y = n,
           NEW q, q = Hold(p, s, n)
    PROVE  EdaHeld(w, n, q, a, b, x, y) /\ q.status = p.status
<1>1. /\ EdaLast(w, c, a, b) /\ EdaTopIs(w, p, a, b, r, 0) /\ EdaTidy(w, c, p, {a, b, r, 0})
      /\ a \in 0..c /\ b \in 0..c
  BY DEF EdaHeld, EdaLast
<1>2. s \in EdaSlots /\ n \in Nat
  BY EdaSlotsAre
<1>3. Held(q, p, EdaSlots, s, n)
  BY <1>2, HoldHeld
<1>4. /\ q.status = p.status /\ q.kept = p.kept /\ q.cur[s] = n
      /\ \A z \in EdaSlots : z # s => q.cur[z] = p.cur[z]
  BY <1>3, Zenon DEF Held
<1>5. EdaTopIs(w, q, a, b, x, y)
  <2>0. \A z \in {"net", "subnet", "package", "pin", "group"} : q.cur[z] = p.cur[z]
    BY <1>4 DEF EdaSlots
  <2>1. CASE s = "contour" /\ r = 0 /\ x = n /\ y = 0
    <3>1. q.cur["polygon"] = p.cur["polygon"]
      BY <1>4, <2>1 DEF EdaSlots
    <3> QED
      BY <1>1, <1>4, <2>0, <2>1, <3>1 DEF EdaTopIs, EdaCur, Where
  <2>2. CASE s = "polygon" /\ x = r /\ y = n
    <3>1. q.cur["contour"] = p.cur["contour"]
      BY <1>4, <2>2 DEF EdaSlots
    <3> QED
      BY <1>1, <1>4, <2>0, <2>2, <3>1 DEF EdaTopIs, EdaCur, Where
  <2> QED
    BY <2>1, <2>2
<1>6. w[n] \in DOMAIN EdaOwners /\ w[n] \notin EdaTops /\ w[n] \notin {"SNT", "PIN"}
  BY EdaOwnersAre DEF EdaTops
<1>7. RecordsTo(w, EdaOwners, n) = RecordsTo(w, EdaOwners, c) \union {n}
  BY <1>6, ShownMore
<1>8. \A z \in RecordsTo(w, EdaOwners, c) : z # n /\ z # 0
  BY DEF RecordsTo
<1>9. {a, b, x, y} \ {n, 0} = {a, b, r, 0} \ {n, 0} /\ n \in {a, b, x, y}
  BY <1>1
<1>10. RecordsTo(w, EdaOwners, n) \ {a, b, x, y} = RecordsTo(w, EdaOwners, c) \ {a, b, r, 0}
  BY <1>7, <1>8, <1>9
<1>11. EdaTidy(w, n, q, {a, b, x, y})
  BY <1>1, <1>4, <1>10 DEF EdaTidy
<1>12. /\ \A k \in 1..n : k = n \/ k \in 1..c
       /\ \A k \in (a + 1)..n : k = n \/ k \in (a + 1)..c
       /\ \A k \in 0..c : k \in 0..n
  BY <1>1
<1>13. EdaLast(w, n, a, b)
  BY <1>1, <1>6, <1>12 DEF EdaLast
<1> QED
  BY <1>4, <1>5, <1>11, <1>13 DEF EdaHeld

LEMMA EdaContourBegins ==
    ASSUME NEW w, EdaRule(w), Len(w) \in Nat, NEW c \in Nat, c < Len(w), NEW p, TreeOver(EdaSlots, p), NEW a, NEW b,
           EdaHeld(w, c, p, a, b, 0, 0), EdaPackage(w, a),
           NEW n, n = c + 1, w[n] = "CT", NEW q, q = EdaLine(p, w[n], n)
    PROVE  q.status = p.status /\ EdaInContour(w, n, q, a, b, n)
<1> DEFINE s == "contour"
           z == 0
           u == Hold(p, s, n)
<1>1. EdaLast(w, c, a, b) /\ a \in 0..c /\ b \in 0..c
  BY DEF EdaHeld, EdaLast
<1>2. a # 0
  BY <1>1, EdaOwnedAbove
<1>3. w[a] = "PKG" /\ n \in 1..n /\ n > a /\ n > b /\ \A k \in (n + 1)..n : FALSE
  BY <1>1, <1>2 DEF EdaPackage
<1>4. q = u
  BY DEF EdaLine, ContourBegin
<1>5. w[n] = "CT" /\ s = "contour" /\ z = 0 /\ n = n /\ z \in 0..c /\ EdaHeld(w, c, p, a, b, z, 0)
  OBVIOUS
<1> HIDE DEF s, z
<1>6. EdaHeld(w, n, u, a, b, n, z) /\ u.status = p.status
  BY <1>2, <1>5, EdaShapeBegins
<1> QED
  BY <1>2, <1>3, <1>4, <1>5, <1>6 DEF EdaInContour

LEMMA EdaPolygonBegins ==
    ASSUME NEW w, NEW c \in Nat, NEW p, TreeOver(EdaSlots, p), NEW a, NEW b, NEW r, EdaInContour(w, c, p, a, b, r),
           NEW n, n = c + 1, w[n] = "OB", NEW q, q = EdaLine(p, w[n], n)
    PROVE  q.status = p.status /\ EdaInPolygon(w, n, q, a, b, r, n)
<1> DEFINE s == "polygon"
           u == Hold(p, s, n)
<1>1. /\ EdaHeld(w, c, p, a, b, r, 0) /\ a # 0 /\ w[a] = "PKG"
      /\ r \in 1..c /\ w[r] = "CT" /\ r > a /\ r > b
      /\ \A k \in (r + 1)..c : w[k] \in EdaInside
  BY DEF EdaInContour
<1>2. /\ r \in 0..c /\ r \in 1..n /\ n \in (r + 1)..n /\ \A k \in (n + 1)..n : FALSE
      /\ \A k \in (r + 1)..n : k = n \/ k \in (r + 1)..c
  BY <1>1
<1>3. \A k \in (r + 1)..n : w[k] \in EdaInside
  BY <1>1, <1>2 DEF EdaInside
<1>4. q = u
  BY DEF EdaLine, PolygonBegin
<1>5. w[n] = "OB" /\ s = "polygon" /\ r = r /\ n = n
  OBVIOUS
<1> HIDE DEF s
<1>6. EdaHeld(w, n, u, a, b, r, n) /\ u.status = p.status
  BY <1>1, <1>2, <1>5, EdaShapeBegins
<1> QED
  BY <1>1, <1>2, <1>3, <1>4, <1>6 DEF EdaInPolygon

LEMMA EdaPolygonParts ==
    ASSUME NEW w, NEW c \in Nat, NEW p, TreeOver(EdaSlots, p), NEW a, NEW b, NEW r, NEW o,
           EdaInPolygon(w, c, p, a, b, r, o),
           NEW n, n = c + 1, w[n] = "OS", NEW q, q = EdaLine(p, w[n], n)
    PROVE  q.status = p.status /\ EdaInPolygon(w, n, q, a, b, r, o)
<1> DEFINE v == "OS"
           u == Push(p, o, n, v)
<1>1. /\ EdaHeld(w, c, p, a, b, r, o) /\ a # 0 /\ w[a] = "PKG"
      /\ r \in 1..c /\ w[r] = "CT" /\ r > a /\ r > b
      /\ \A k \in (r + 1)..c : w[k] \in EdaInside
      /\ o \in (r + 1)..c /\ w[o] = "OB" /\ \A k \in (o + 1)..c : w[k] = "OS"
  BY DEF EdaInPolygon
<1>2. /\ r \in 0..c /\ r \in 1..n /\ o \in 0..c /\ o \in (r + 1)..n /\ o \in 1..(n - 1) /\ n \in Nat
      /\ \A k \in (r + 1)..n : k = n \/ k \in (r + 1)..c
      /\ \A k \in (o + 1)..n : k = n \/ k \in (o + 1)..c
      /\ \A k \in (o + 1)..(n - 1) : k \in (o + 1)..c
  BY <1>1
<1>3. /\ \A k \in (r + 1)..n : w[k] \in EdaInside
      /\ \A k \in (o + 1)..n : w[k] = "OS"
  BY <1>1, <1>2 DEF EdaInside
<1>4. q = u
  <2>1. EdaTopIs(w, p, a, b, r, o)
    BY <1>1 DEF EdaHeld
  <2>2. p.cur["polygon"] = o /\ o # 0
    BY <1>1, <2>1 DEF EdaTopIs, EdaCur
  <2> QED
    BY <2>2 DEF EdaLine, PolygonPart, Holds
<1>5. o = Owner(w, n, EdaOwners)
  <2>1. w[o] \in EdaOwners[w[n]]
    BY <1>1, EdaOwnersAre
  <2>2. \A k \in (o + 1)..(n - 1) : w[k] \notin EdaOwners[w[n]]
    BY <1>1, <1>2, EdaOwnersAre
  <2> QED
    BY <1>2, <2>1, <2>2, OwnerIs
<1>6. v = w[n] /\ w[n] \in {"PRP", "FID", "RC", "OS"}
  OBVIOUS
<1>w. w[n] = "OS"
  OBVIOUS
<1> HIDE DEF v
<1>7. EdaHeld(w, n, u, a, b, r, o) /\ u.status = p.status
  BY <1>1, <1>2, <1>5, <1>6, EdaPush
<1> QED
  BY <1>1, <1>2, <1>3, <1>4, <1>w, <1>7 DEF EdaInPolygon

\* A contour or a polygon ends, m being its line: it goes to its owner z.
EdaEnding(w, c, a, b, r, o, s, m, x, y, z, v) ==
    /\ r \in 0..c /\ o \in 0..c /\ a # 0 /\ r # o
    /\ \/ s = "contour" /\ m = r /\ x = 0 /\ y = o
       \/ s = "polygon" /\ m = o /\ x = r /\ y = 0
    /\ m > a /\ m > b /\ w[m] \in {"CT", "OB"} /\ v = Vector(w[m]) /\ z = Owner(w, m, EdaOwners)
    /\ \A k \in (m + 1)..c : Vector(w[k]) # v

LEMMA EdaShapeEnds ==
    ASSUME NEW w, NEW c \in Nat, NEW p, TreeOver(EdaSlots, p), NEW a, NEW b, NEW r, NEW o,
           EdaHeld(w, c, p, a, b, r, o), NEW n, n = c + 1, w[n] \in {"CE", "OE"},
           NEW s, NEW x, NEW y, NEW z, NEW v, NEW m, EdaEnding(w, c, a, b, r, o, s, m, x, y, z, v),
           NEW q, q = Drop(Push(p, z, m, v), s)
    PROVE  EdaHeld(w, n, q, a, b, x, y) /\ q.status = p.status
<1> DEFINE all == RecordsTo(w, EdaOwners, c)
           S == all \ {a, b, r, o}
           T == all \ {a, b, x, y}
           f == Flush(p, s, z, v)
<1>0. /\ r \in 0..c /\ o \in 0..c /\ a # 0 /\ r # o
      /\ \/ s = "contour" /\ m = r /\ x = 0 /\ y = o
         \/ s = "polygon" /\ m = o /\ x = r /\ y = 0
      /\ m > a /\ m > b /\ w[m] \in {"CT", "OB"} /\ v = Vector(w[m]) /\ z = Owner(w, m, EdaOwners)
      /\ \A k \in (m + 1)..c : Vector(w[k]) # v
  BY DEF EdaEnding
<1>1. /\ EdaLast(w, c, a, b) /\ EdaTopIs(w, p, a, b, r, o) /\ Tidy(w, EdaOwners, S, p.kept)
      /\ a \in 0..c /\ b \in 0..c
  BY <1>0 DEF EdaHeld, EdaLast, EdaTidy
<1>2. s \in EdaSlots /\ p.cur[s] = m /\ m \in 1..c
  BY <1>0, <1>1, EdaSlotsAre DEF EdaTopIs, EdaCur
<1>3. m # 0 => T = S \union {m}
  <2>1. m \in all
    BY <1>0, <1>2, EdaOwnersAre DEF RecordsTo
  <2>2. 0 \notin all
    BY DEF RecordsTo
  <2>3. m # a /\ m # b
    BY <1>0, <1>1, <1>2
  <2>4. {a, b, r, o} \ {0} = ({a, b, x, y} \ {0}) \union {m} /\ m \notin {a, b, x, y}
    BY <1>0, <1>2, <2>3
  <2> HIDE DEF all
  <2> QED
    BY <2>1, <2>2, <2>4
<1>4. m # 0 => LastOfVector(w, S, m, z, v)
  <2>1. m \notin S
    BY <1>0
  <2>2. \A k \in S : Vector(w[k]) = v => k < m
    <3> SUFFICES ASSUME NEW k \in S, Vector(w[k]) = v PROVE k < m
      OBVIOUS
    <3>1. k \in 1..c
      BY DEF RecordsTo
    <3>2. ~(k \in (m + 1)..c)
      BY <1>0
    <3>3. k # m
      BY <2>1
    <3> QED
      BY <1>2, <3>1, <3>2, <3>3
  <2> HIDE DEF S
  <2> QED
    BY <1>0, <2>1, <2>2 DEF LastOfVector
<1>5. q = f
  BY <1>2 DEF Flush, Holds
<1>t. T = all \ {a, b, x, y}
  OBVIOUS
<1>d. f = Flush(p, s, z, v)
  OBVIOUS
<1>e. m = p.cur[s] /\ (m = 0 => T = S)
  BY <1>2
<1> HIDE DEF S, T, f
<1>6. FlushInto(f, p, w, s, T)
  BY ONLY TreeOver(EdaSlots, p), <1>1, <1>2, <1>3, <1>4, <1>d, <1>e, EdaFlush
<1> HIDE DEF all
<1>7. /\ q.status = p.status /\ q.cur[s] = 0
      /\ \A k \in EdaSlots : k # s => q.cur[k] = p.cur[k]
      /\ Tidy(w, EdaOwners, T, q.kept)
  BY <1>5, <1>6, Zenon DEF FlushInto
<1>8. EdaTopIs(w, q, a, b, x, y)
  <2>0. \A k \in {"net", "subnet", "package", "pin", "group"} : q.cur[k] = p.cur[k]
    <3>1. s \in {"contour", "polygon"}
      BY <1>0
    <3> QED
      BY <1>7, <3>1 DEF EdaSlots
  <2>1. CASE s = "contour" /\ x = 0 /\ y = o
    <3>1. q.cur["polygon"] = p.cur["polygon"]
      BY <1>7, <2>1 DEF EdaSlots
    <3> QED
      BY <1>1, <1>7, <2>0, <2>1, <3>1 DEF EdaTopIs, EdaCur, Where
  <2>2. CASE s = "polygon" /\ x = r /\ y = 0
    <3>1. q.cur["contour"] = p.cur["contour"]
      BY <1>7, <2>2 DEF EdaSlots
    <3> QED
      BY <1>1, <1>7, <2>0, <2>2, <3>1 DEF EdaTopIs, EdaCur, Where
  <2> QED
    BY <1>0, <2>1, <2>2
<1>9. w[n] \notin DOMAIN EdaOwners /\ w[n] \notin EdaTops /\ w[n] \notin {"SNT", "PIN"}
  BY EdaOwnersAre DEF EdaTops
<1>10. RecordsTo(w, EdaOwners, n) = all
  BY <1>9, ShownSame DEF all
<1>11. EdaTidy(w, n, q, {a, b, x, y})
  BY <1>7, <1>10, <1>t DEF EdaTidy
<1>12. /\ \A k \in 1..n : k = n \/ k \in 1..c
       /\ \A k \in (a + 1)..n : k = n \/ k \in (a + 1)..c
       /\ \A k \in 0..c : k \in 0..n
  BY <1>1
<1>13. EdaLast(w, n, a, b)
  BY <1>0, <1>1, <1>9, <1>12 DEF EdaLast
<1> QED
  BY <1>0, <1>7, <1>8, <1>11, <1>13 DEF EdaHeld

LEMMA EdaPolygonEnds ==
    ASSUME NEW w, NEW c \in Nat, NEW p, TreeOver(EdaSlots, p), NEW a, NEW b, NEW r, NEW o,
           EdaInPolygon(w, c, p, a, b, r, o),
           NEW n, n = c + 1, w[n] = "OE", NEW q, q = EdaLine(p, w[n], n)
    PROVE  q.status = p.status /\ EdaInContour(w, n, q, a, b, r)
<1> DEFINE v == "OB"
           s == "polygon"
           z == 0
           u == Drop(Push(p, r, o, v), s)
<1>1. /\ EdaHeld(w, c, p, a, b, r, o) /\ a # 0 /\ w[a] = "PKG"
      /\ r \in 1..c /\ w[r] = "CT" /\ r > a /\ r > b
      /\ \A k \in (r + 1)..c : w[k] \in EdaInside
      /\ o \in (r + 1)..c /\ w[o] = "OB" /\ \A k \in (o + 1)..c : w[k] = "OS"
      /\ EdaLast(w, c, a, b) /\ a \in Nat /\ b \in Nat
  BY DEF EdaInPolygon, EdaHeld, EdaLast
<1>2. /\ r \in 0..c /\ r \in 1..n /\ o \in 0..c /\ r \in 1..(o - 1) /\ o > a /\ o > b /\ r # o /\ o \in Nat
      /\ \A k \in (r + 1)..n : k = n \/ k \in (r + 1)..c
      /\ \A k \in (r + 1)..(o - 1) : k \in (r + 1)..c
  BY <1>1
<1>3. \A k \in (r + 1)..n : w[k] \in EdaInside
  BY <1>1, <1>2 DEF EdaInside
<1>4. q = u
  <2>1. EdaTopIs(w, p, a, b, r, o)
    BY <1>1 DEF EdaHeld
  <2>2. p.cur["polygon"] = o /\ p.cur["contour"] = r /\ r # 0
    BY <1>1, <2>1 DEF EdaTopIs, EdaCur
  <2> QED
    BY <2>2 DEF EdaLine, PolygonEnd, Holds
<1>5. r = Owner(w, o, EdaOwners)
  <2>1. w[r] \in EdaOwners[w[o]]
    BY <1>1, EdaOwnersAre
  <2>2. \A k \in (r + 1)..(o - 1) : w[k] \notin EdaOwners[w[o]]
    BY <1>1, <1>2, EdaOwnersAre DEF EdaInside
  <2> QED
    BY <1>2, <2>1, <2>2, OwnerIs
<1>6. v = Vector(w[o]) /\ \A k \in (o + 1)..c : Vector(w[k]) # v
  <2>1. Vector("OB") = "OB" /\ Vector("OS") = "OS"
    BY VectorsAre
  <2> QED
    BY <1>1, <2>1
<1>7. s = "polygon" /\ z = 0 /\ w[n] \in {"CE", "OE"} /\ w[n] \in {"CT", "OE"} /\ w[o] \in {"CT", "OB"}
  BY <1>1
<1>d. u = Drop(Push(p, r, o, v), s)
  OBVIOUS
<1>e. \/ s = "contour" /\ o = r /\ r = 0 /\ z = o
      \/ s = "polygon" /\ o = o /\ r = r /\ z = 0
  OBVIOUS
<1>f. EdaEnding(w, c, a, b, r, o, s, o, r, z, r, v)
  BY <1>1, <1>2, <1>5, <1>6, <1>7, <1>e DEF EdaEnding
<1> HIDE DEF v, s, z, u
<1>8. EdaHeld(w, n, u, a, b, r, z) /\ u.status = p.status
  BY <1>1, <1>7, <1>d, <1>f, EdaShapeEnds
<1> QED
  BY <1>1, <1>2, <1>3, <1>4, <1>7, <1>8 DEF EdaInContour

LEMMA EdaContourEnds ==
    ASSUME NEW w, NEW c \in Nat, NEW p, TreeOver(EdaSlots, p), NEW a, NEW b, NEW r,
           EdaInContour(w, c, p, a, b, r),
           NEW n, n = c + 1, w[n] = "CE", NEW q, q = EdaLine(p, w[n], n)
    PROVE  q.status = p.status /\ EdaIdle(w, n, q, a, b)
<1> DEFINE v == "RC"
           s == "contour"
           z == 0
           x == EdaShapeOwner(a, b)
           u == Drop(Push(p, x, r, v), s)
<1>1. /\ EdaHeld(w, c, p, a, b, r, 0) /\ a # 0 /\ w[a] = "PKG"
      /\ r \in 1..c /\ w[r] = "CT" /\ r > a /\ r > b
      /\ \A k \in (r + 1)..c : w[k] \in EdaInside
      /\ EdaLast(w, c, a, b) /\ a \in Nat /\ b \in Nat
  BY DEF EdaInContour, EdaHeld, EdaLast
<1>2. r \in 0..c /\ r # 0 /\ r \in Nat /\ r <= c + 1
  BY <1>1
<1>4. q = u
  <2>1. EdaTopIs(w, p, a, b, r, 0)
    BY <1>1 DEF EdaHeld
  <2>2. p.cur["contour"] = r
    BY <1>1, <2>1 DEF EdaTopIs, EdaCur
  <2>3. AddOutline(p, r) = Push(p, x, r, v)
    BY <1>1, <2>1, EdaAddOutline
  <2> QED
    BY <2>2, <2>3 DEF EdaLine, ContourEnd
<1>5. x = Owner(w, r, EdaOwners)
  BY <1>1, <1>2, EdaOutlineOwner
<1>6. v = Vector(w[r]) /\ \A k \in (r + 1)..c : Vector(w[k]) # v
  <2>1. Vector("OB") = "OB" /\ Vector("OS") = "OS" /\ Vector("OE") = "OE" /\ Vector("CT") = "RC"
    BY VectorsAre
  <2> QED
    BY <1>1, <2>1 DEF EdaInside
<1>7. s = "contour" /\ z = 0 /\ w[n] \in {"CE", "OE"} /\ w[n] \notin EdaBrackets /\ w[r] \in {"CT", "OB"}
  BY <1>1 DEF EdaBrackets
<1>d. u = Drop(Push(p, x, r, v), s)
  OBVIOUS
<1>e. EdaHeld(w, c, p, a, b, r, z) /\ z \in 0..c
  BY <1>1
<1>f. \/ s = "contour" /\ r = r /\ z = 0 /\ z = z
      \/ s = "polygon" /\ r = z /\ z = r /\ z = 0
  OBVIOUS
<1>g. r # z /\ r > a /\ r > b
  BY <1>1, <1>2
<1>h. EdaEnding(w, c, a, b, r, z, s, r, z, z, x, v)
  BY <1>1, <1>2, <1>5, <1>6, <1>7, <1>e, <1>f, <1>g DEF EdaEnding
<1> HIDE DEF v, s, z, u, x
<1>8. EdaHeld(w, n, u, a, b, z, z) /\ u.status = p.status
  BY <1>7, <1>d, <1>e, <1>h, EdaShapeEnds
<1> QED
  BY <1>4, <1>7, <1>8 DEF EdaIdle

\* The line that may come next.
LEMMA EdaNextKinds ==
    ASSUME NEW w, EdaRule(w), Len(w) \in Nat, NEW c \in Nat, c < Len(w), NEW p, NEW a, NEW b, NEW n, n = c + 1
    PROVE  /\ w[n] # "BAD"
           /\ EdaIdle(w, c, p, a, b) => w[n] \notin {"OB", "OS", "OE", "CE"}
           /\ \A r : EdaInContour(w, c, p, a, b, r) => w[n] \in {"OB", "CE"}
           /\ \A r, o : EdaInPolygon(w, c, p, a, b, r, o) => w[n] \in {"OS", "OE"}
<1>1. n \in 1..Len(w) /\ (c > 0 => c \in 1..Len(w)) /\ (c = 0 => n = 1) /\ c + 1 = n
  OBVIOUS
<1>2. w[n] # "BAD" /\ (n = 1 => w[n] \notin {"OB", "OS", "OE", "CE"})
  BY <1>1 DEF EdaRule, EdaBracketed
<1>3. c > 0 =>
         /\ w[c] \in {"CT", "OE"} => w[n] \in {"OB", "CE"}
         /\ w[c] \in {"OB", "OS"} => w[n] \in {"OS", "OE"}
         /\ w[c] \notin EdaBrackets => w[n] \notin {"OB", "OS", "OE", "CE"}
  BY <1>1 DEF EdaRule, EdaBracketed
<1>4. EdaIdle(w, c, p, a, b) => w[n] \notin {"OB", "OS", "OE", "CE"}
  <2>1. EdaIdle(w, c, p, a, b) => (c > 0 => w[c] \notin EdaBrackets)
    BY DEF EdaIdle
  <2>2. c = 0 \/ c > 0
    OBVIOUS
  <2> QED
    BY <1>1, <1>2, <1>3, <2>1, <2>2
<1>5. ASSUME NEW r, EdaInContour(w, c, p, a, b, r) PROVE w[n] \in {"OB", "CE"}
  <2>1. c > 0 /\ w[c] \in {"CT", "OE"}
    BY <1>5 DEF EdaInContour
  <2> QED
    BY <1>3, <2>1
<1>6. ASSUME NEW r, NEW o, EdaInPolygon(w, c, p, a, b, r, o) PROVE w[n] \in {"OS", "OE"}
  <2>1. c > 0 /\ w[c] \in {"OB", "OS"}
    BY <1>6 DEF EdaInPolygon
  <2> QED
    BY <1>3, <2>1
<1> QED
  BY <1>2, <1>4, <1>5, <1>6

\* The files of connectivity: nothing but nets, subnets, packages and groups is held.
EdaNetShape(w, c, p) == \E a, b \in 0..c : EdaIdle(w, c, p, a, b)

LEMMA EdaNetReads ==
    ASSUME NEW w, EdaRule(w), Len(w) \in Nat, NEW c \in Nat, c < Len(w), NEW p, TreeOver(EdaSlots, p),
           EdaNetShape(w, c, p), NEW n, n = c + 1, w[n] \in EdaNetKinds, NEW q, q = EdaLine(p, w[n], n)
    PROVE  q.status = p.status /\ EdaNetShape(w, n, q)
<1>1. PICK a \in 0..c, b \in 0..c : EdaIdle(w, c, p, a, b)
  BY DEF EdaNetShape
<1>2. EdaHeld(w, c, p, a, b, 0, 0)
  BY <1>1 DEF EdaIdle
<1>3. w[n] # "BAD"
  BY EdaNextKinds
<1>4. a \in 0..n /\ b \in 0..n /\ n \in 0..n /\ 0 \in 0..n
  OBVIOUS
<1>5. CASE w[n] = "HEAD"
  <2>1. q.status = p.status /\ EdaIdle(w, n, q, a, b)
    BY <1>2, <1>5, EdaHeader
  <2> QED
    BY <1>4, <2>1 DEF EdaNetShape
<1>6. CASE w[n] = "PRP"
  <2>1. q.status = p.status /\ EdaIdle(w, n, q, a, b)
    BY <1>2, <1>6, EdaProperty
  <2> QED
    BY <1>4, <2>1 DEF EdaNetShape
<1>7. CASE w[n] = "FID"
  <2>1. q.status = p.status /\ EdaIdle(w, n, q, a, b)
    BY <1>2, <1>7, EdaFeatureId
  <2> QED
    BY <1>4, <2>1 DEF EdaNetShape
<1>8. CASE w[n] = "SNT"
  <2>1. q.status = p.status /\ EdaIdle(w, n, q, a, n)
    BY <1>2, <1>8, EdaChild
  <2> QED
    BY <1>4, <2>1 DEF EdaNetShape
<1>9. CASE w[n] \in {"NET", "PKG", "FGR"}
  <2>1. q.status = p.status /\ EdaIdle(w, n, q, n, 0)
    BY <1>2, <1>9, EdaTop
  <2> QED
    BY <1>4, <2>1 DEF EdaNetShape
<1> QED
  BY <1>3, <1>5, <1>6, <1>7, <1>8, <1>9 DEF EdaNetKinds

\* The files of shapes: an outline of a package or of a pin is held too.
EdaShapesShape(w, c, p) ==
    \E a, b \in 0..c :
       /\ EdaPackage(w, a)
       /\ \/ EdaIdle(w, c, p, a, b)
          \/ \E r \in 1..c : EdaInContour(w, c, p, a, b, r)
          \/ \E r, o \in 1..c : EdaInPolygon(w, c, p, a, b, r, o)

LEMMA EdaShapeReads ==
    ASSUME NEW w, EdaRule(w), Len(w) \in Nat, NEW c \in Nat, c < Len(w), NEW p, TreeOver(EdaSlots, p),
           EdaShapesShape(w, c, p), NEW n, n = c + 1, w[n] \in EdaShapeKinds, NEW q, q = EdaLine(p, w[n], n)
    PROVE  q.status = p.status /\ EdaShapesShape(w, n, q)
<1>1. PICK a \in 0..c, b \in 0..c :
         /\ EdaPackage(w, a)
         /\ \/ EdaIdle(w, c, p, a, b)
            \/ \E r \in 1..c : EdaInContour(w, c, p, a, b, r)
            \/ \E r, o \in 1..c : EdaInPolygon(w, c, p, a, b, r, o)
  BY DEF EdaShapesShape
<1>4. a \in 0..n /\ b \in 0..n /\ n \in 0..n /\ 0 \in 0..n /\ n \in 1..n /\ \A r \in 1..c : r \in 1..n
  OBVIOUS
<1>5. CASE EdaIdle(w, c, p, a, b)
  <2>1. EdaHeld(w, c, p, a, b, 0, 0)
    BY <1>5 DEF EdaIdle
  <2>2. w[n] \in {"PKG", "PIN", "RC", "CT"}
    <3>1. w[n] \notin {"OB", "OS", "OE", "CE"}
      BY <1>5, EdaNextKinds
    <3> QED
      BY <3>1 DEF EdaShapeKinds
  <2>3. CASE w[n] = "PKG"
    <3>1. q.status = p.status /\ EdaIdle(w, n, q, n, 0)
      BY <2>1, <2>3, EdaTop
    <3>2. EdaPackage(w, n)
      BY <2>3 DEF EdaPackage
    <3> QED
      BY <1>4, <3>1, <3>2 DEF EdaShapesShape
  <2>4. CASE w[n] = "PIN"
    <3>1. q.status = p.status /\ EdaIdle(w, n, q, a, n)
      BY <2>1, <2>4, EdaChild
    <3> QED
      BY <1>1, <1>4, <3>1 DEF EdaShapesShape
  <2>5. CASE w[n] = "RC"
    <3>1. q.status = p.status /\ EdaIdle(w, n, q, a, b)
      BY <1>1, <2>1, <2>5, EdaOutline
    <3> QED
      BY <1>1, <1>4, <3>1 DEF EdaShapesShape
  <2>6. CASE w[n] = "CT"
    <3>1. q.status = p.status /\ EdaInContour(w, n, q, a, b, n)
      BY <1>1, <2>1, <2>6, EdaContourBegins
    <3> QED
      BY <1>1, <1>4, <3>1 DEF EdaShapesShape
  <2> QED
    BY <2>2, <2>3, <2>4, <2>5, <2>6
<1>6. ASSUME NEW r \in 1..c, EdaInContour(w, c, p, a, b, r) PROVE q.status = p.status /\ EdaShapesShape(w, n, q)
  <2>1. w[n] \in {"OB", "CE"}
    BY <1>6, EdaNextKinds
  <2>2. CASE w[n] = "OB"
    <3>1. q.status = p.status /\ EdaInPolygon(w, n, q, a, b, r, n)
      BY <1>6, <2>2, EdaPolygonBegins
    <3> QED
      BY <1>1, <1>4, <3>1 DEF EdaShapesShape
  <2>3. CASE w[n] = "CE"
    <3>1. q.status = p.status /\ EdaIdle(w, n, q, a, b)
      BY <1>6, <2>3, EdaContourEnds
    <3> QED
      BY <1>1, <1>4, <3>1 DEF EdaShapesShape
  <2> QED
    BY <2>1, <2>2, <2>3
<1>7. ASSUME NEW r \in 1..c, NEW o \in 1..c, EdaInPolygon(w, c, p, a, b, r, o)
      PROVE  q.status = p.status /\ EdaShapesShape(w, n, q)
  <2>1. w[n] \in {"OS", "OE"}
    BY <1>7, EdaNextKinds
  <2>2. CASE w[n] = "OS"
    <3>1. q.status = p.status /\ EdaInPolygon(w, n, q, a, b, r, o)
      BY <1>7, <2>2, EdaPolygonParts
    <3> QED
      BY <1>1, <1>4, <3>1 DEF EdaShapesShape
  <2>3. CASE w[n] = "OE"
    <3>1. q.status = p.status /\ EdaInContour(w, n, q, a, b, r)
      BY ONLY c \in Nat, n = c + 1, TreeOver(EdaSlots, p), q = EdaLine(p, w[n], n), <1>7, <2>3,
              EdaPolygonEnds
    <3> QED
      BY <1>1, <1>4, <3>1 DEF EdaShapesShape
  <2> QED
    BY <2>1, <2>2, <2>3
<1> QED
  BY <1>1, <1>5, <1>6, <1>7

\* The end of the file.
LEMMA EdaIdleEnds ==
    ASSUME NEW w, NEW c \in Nat, NEW p, TreeOver(EdaSlots, p), NEW a, NEW b, EdaIdle(w, c, p, a, b),
           NEW q, q = EdaEnd(p)
    PROVE  q.status = "accepted" /\ Tidy(w, EdaOwners, RecordsTo(w, EdaOwners, c), q.kept)
<1> DEFINE f == FinishOpen(p)
<1>1. EdaHeld(w, c, p, a, b, 0, 0)
  BY DEF EdaIdle
<1>2. EdaSettled(w, c, f)
  BY <1>1, EdaSettles
<1>3. q = Accept(f)
  BY DEF EdaEnd
<1> HIDE DEF f
<1>4. IsTree(f) /\ Tidy(w, EdaOwners, RecordsTo(w, EdaOwners, c), f.kept)
  BY <1>2 DEF EdaSettled, TreeOver
<1>5. q.status = "accepted" /\ q.kept = f.kept
  BY <1>3, <1>4, AcceptIs
<1> QED
  BY <1>4, <1>5

LEMMA EdaNetEnds ==
    ASSUME NEW w, NEW c \in Nat, NEW p, TreeOver(EdaSlots, p), EdaNetShape(w, c, p), NEW q, q = EdaEnd(p)
    PROVE  q.status = "accepted" /\ Tidy(w, EdaOwners, RecordsTo(w, EdaOwners, c), q.kept)
<1>1. PICK a \in 0..c, b \in 0..c : EdaIdle(w, c, p, a, b)
  BY DEF EdaNetShape
<1> QED
  BY <1>1, EdaIdleEnds

LEMMA EdaShapesEnds ==
    ASSUME NEW w, EdaRule(w), NEW c \in Nat, c = Len(w), NEW p, TreeOver(EdaSlots, p), EdaShapesShape(w, c, p),
           NEW q, q = EdaEnd(p)
    PROVE  q.status = "accepted" /\ Tidy(w, EdaOwners, RecordsTo(w, EdaOwners, c), q.kept)
<1>1. PICK a \in 0..c, b \in 0..c :
         \/ EdaIdle(w, c, p, a, b)
         \/ \E r \in 1..c : EdaInContour(w, c, p, a, b, r)
         \/ \E r, o \in 1..c : EdaInPolygon(w, c, p, a, b, r, o)
  BY DEF EdaShapesShape
<1>2. \A n \in 1..Len(w) : n = Len(w) => w[n] \notin EdaBrackets
  BY DEF EdaRule, EdaBracketed
<1>3. c > 0 => w[c] \notin EdaBrackets
  <2>1. c > 0 => c \in 1..Len(w)
    OBVIOUS
  <2> QED
    BY <1>2, <2>1
<1>4. ASSUME NEW r \in 1..c, EdaInContour(w, c, p, a, b, r) PROVE FALSE
  BY <1>3, <1>4 DEF EdaInContour, EdaBrackets
<1>5. ASSUME NEW r \in 1..c, NEW o \in 1..c, EdaInPolygon(w, c, p, a, b, r, o) PROVE FALSE
  BY <1>3, <1>5 DEF EdaInPolygon, EdaBrackets
<1>6. EdaIdle(w, c, p, a, b)
  BY <1>1, <1>4, <1>5
<1> QED
  BY <1>6, EdaIdleEnds

-----------------------------------------------------------------------------
(* What any line, in order or not, makes of the records: a reader goes on, or *)
(* it stops at an error.                                                      *)

Going(S, t) == TreeOver(S, t) /\ t.status = "reading"
Read(S, t) == TreeOver(S, t) /\ t.status \in {"reading", "parse_error", "crashed"}

LEMMA GoingHold == \A S, t, s : \A v \in Nat : Going(S, t) => Going(S, Hold(t, s, v))
<1> SUFFICES ASSUME NEW S, NEW t, NEW s, NEW v \in Nat, Going(S, t) PROVE Going(S, Hold(t, s, v))
  OBVIOUS
<1>1. TreeOver(S, t)
  BY DEF Going
<1>2. TreeOver(S, Hold(t, s, v)) /\ Hold(t, s, v).status = t.status
  BY <1>1, HoldT
<1> QED
  BY <1>2 DEF Going

LEMMA GoingDrop == \A S, t, s : Going(S, t) => Going(S, Drop(t, s))
<1> SUFFICES ASSUME NEW S, NEW t, NEW s, Going(S, t) PROVE Going(S, Drop(t, s))
  OBVIOUS
<1>1. TreeOver(S, t)
  BY DEF Going
<1>2. TreeOver(S, Drop(t, s)) /\ Drop(t, s).status = t.status
  BY <1>1, DropT
<1> QED
  BY <1>2 DEF Going

LEMMA GoingPush == \A S, t, o, n, k : Going(S, t) => Going(S, Push(t, o, n, k))
<1> SUFFICES ASSUME NEW S, NEW t, NEW o, NEW n, NEW k, Going(S, t) PROVE Going(S, Push(t, o, n, k))
  OBVIOUS
<1>1. TreeOver(S, t)
  BY DEF Going
<1>2. TreeOver(S, Push(t, o, n, k)) /\ Push(t, o, n, k).status = t.status
  BY <1>1, PushT
<1> QED
  BY <1>2 DEF Going

LEMMA GoingFlush == \A S, t, s, o, k : Going(S, t) => Going(S, Flush(t, s, o, k))
<1> SUFFICES ASSUME NEW S, NEW t, NEW s, NEW o, NEW k, Going(S, t) PROVE Going(S, Flush(t, s, o, k))
  OBVIOUS
<1>1. TreeOver(S, t)
  BY DEF Going
<1>2. TreeOver(S, Flush(t, s, o, k)) /\ Flush(t, s, o, k).status = t.status
  BY <1>1, FlushT
<1> QED
  BY <1>2 DEF Going

LEMMA GoingKept == \A S, t, x : Going(S, t) => Going(S, [t EXCEPT !.kept = x])
<1> SUFFICES ASSUME NEW S, NEW t, NEW x, Going(S, t) PROVE Going(S, [t EXCEPT !.kept = x])
  OBVIOUS
<1> DEFINE a == t.status
           b == t.cur
           c == t.kept
           u == [t EXCEPT !.kept = x]
<1>1. t = [status |-> a, cur |-> b, kept |-> c] /\ b \in [S -> Nat] /\ a = "reading"
  BY DEF Going, TreeOver, IsTree
<1> HIDE DEF a, b, c
<1>2. u = [status |-> a, cur |-> b, kept |-> x]
  BY <1>1
<1> HIDE DEF u
<1>3. IsTree(u) /\ u.cur \in [S -> Nat] /\ u.status = "reading"
  BY <1>1, <1>2 DEF IsTree
<1>4. Going(S, u)
  BY <1>3 DEF Going, TreeOver
<1> QED
  BY <1>4 DEF u

LEMMA GoingReads == \A S, t : Going(S, t) => Read(S, t) /\ Read(S, Fail(t)) /\ Read(S, Crash(t))
<1> SUFFICES ASSUME NEW S, NEW t, Going(S, t) PROVE Read(S, t) /\ Read(S, Fail(t)) /\ Read(S, Crash(t))
  OBVIOUS
<1>1. TreeOver(S, t) /\ t.status = "reading"
  BY DEF Going
<1>2. TreeOver(S, Fail(t)) /\ Fail(t).status = "parse_error"
  BY <1>1, FailT
<1>3. TreeOver(S, Crash(t)) /\ Crash(t).status = "crashed"
  BY <1>1, CrashT
<1> QED
  BY <1>1, <1>2, <1>3 DEF Read

LEMMA EdaFinishGoes ==
    ASSUME NEW p, Going(EdaSlots, p)
    PROVE  Going(EdaSlots, FinishNet(p)) /\ Going(EdaSlots, FinishNetElsePackage(p)) /\ Going(EdaSlots, FinishOpen(p))
<1>1. Going(EdaSlots, FinishNet(p)) /\ Going(EdaSlots, FinishPackage(p)) /\ Going(EdaSlots, FinishGroup(p))
  BY GoingFlush DEF FinishNet, FinishPackage, FinishGroup
<1>2. Going(EdaSlots, FinishNetElsePackage(p))
  BY <1>1 DEF FinishNetElsePackage
<1> QED
  BY <1>1, <1>2 DEF FinishOpen

LEMMA EdaLineTypes ==
    ASSUME NEW p, Going(EdaSlots, p), NEW k \in EdaNetKinds \union EdaShapeKinds, NEW n \in Nat
    PROVE  Read(EdaSlots, EdaLine(p, k, n))
<1> DEFINE Good(t) == Read(EdaSlots, t)
           Goes(t) == Going(EdaSlots, t)
<1>1. Good(p) /\ Good(Fail(p)) /\ Good(Crash(p)) /\ Goes(p) /\ \A t : Goes(t) => Good(t)
  BY GoingReads
<1>2. /\ \A t, s : \A v \in Nat : Goes(t) => Goes(Hold(t, s, v))
      /\ \A t, s : Goes(t) => Goes(Drop(t, s))
      /\ \A t, o, x, v : Goes(t) => Goes(Push(t, o, x, v))
      /\ \A t, s, o, v : Goes(t) => Goes(Flush(t, s, o, v))
  BY GoingHold, GoingDrop, GoingPush, GoingFlush
<1>3. Goes(FinishNet(p)) /\ Goes(FinishNetElsePackage(p)) /\ Goes(FinishOpen(p))
  BY EdaFinishGoes
<1> HIDE DEF Good, Goes
<1>4. Good(HeaderLine(p, n))
  BY <1>1 DEF HeaderLine
<1>5. Good(PropertyLine(p, n))
  BY <1>1, <1>2 DEF PropertyLine
<1>6. Good(NetLine(p, n)) /\ Good(PackageLine(p, n)) /\ Good(GroupLine(p, n))
  BY <1>1, <1>2, <1>3 DEF NetLine, PackageLine, GroupLine
<1>7. Good(SubnetLine(p, n)) /\ Good(PinLine(p, n))
  BY <1>1, <1>2 DEF SubnetLine, PinLine
<1>8. Good(FeatureIdLine(p, n))
  BY <1>1, <1>2 DEF FeatureIdLine
<1>9. Good(OutlineLine(p, n))
  BY <1>1, <1>2 DEF OutlineLine, AddOutline
<1>10. Good(ContourBegin(p, n)) /\ Good(PolygonBegin(p, n))
  BY <1>1, <1>2 DEF ContourBegin, PolygonBegin
<1>11. Good(ContourEnd(p, n))
  <2> DEFINE c == p.cur["contour"]
             v == p.cur[IF Holds(p, "pin") THEN "pin" ELSE "package"]
             u == Push(p, v, c, "RC")
  <2>1. CASE Holds(p, "package")
    <3>1. ContourEnd(p, n) = Drop(u, "contour")
      BY <2>1 DEF ContourEnd, AddOutline
    <3>2. Goes(u)
      BY <1>1, <1>2
    <3> HIDE DEF u
    <3> QED
      BY <1>1, <1>2, <3>1, <3>2
  <2>2. CASE ~Holds(p, "package")
    <3> DEFINE f == Fail(p)
               d == Drop(f, "contour")
    <3>1. ContourEnd(p, n) = d
      BY <2>2 DEF ContourEnd, AddOutline
    <3>2. TreeOver(EdaSlots, f) /\ f.status = "parse_error"
      BY FailT DEF Going
    <3> HIDE DEF f
    <3>3. TreeOver(EdaSlots, d) /\ d.status = f.status
      BY <3>2, DropT
    <3> QED
      BY <3>1, <3>2, <3>3 DEF Good, Read
  <2> QED
    BY <2>1, <2>2
<1>12. Good(PolygonEnd(p, n)) /\ Good(PolygonPart(p, n))
  BY <1>1, <1>2 DEF PolygonEnd, PolygonPart
<1>13. Good(EdaLine(p, k, n))
  BY <1>1, <1>4, <1>5, <1>6, <1>7, <1>8, <1>9, <1>10, <1>11, <1>12 DEF EdaLine, EdaNetKinds, EdaShapeKinds
<1> QED
  BY <1>13 DEF Good

LEMMA ComponentsFinishGoes ==
    ASSUME NEW p, Going(ComponentSlots, p)
    PROVE  Going(ComponentSlots, FinishBom(p)) /\ Going(ComponentSlots, FinishComponent(FinishBom(p)))
<1>1. Going(ComponentSlots, FinishBom(p))
  BY GoingKept, GoingDrop DEF FinishBom
<1> QED
  BY <1>1, GoingFlush DEF FinishComponent

LEMMA ComponentsLineTypes ==
    ASSUME NEW p, Going(ComponentSlots, p), NEW k \in ComponentKinds, NEW n \in Nat
    PROVE  Read(ComponentSlots, ComponentsLine(p, k, n))
<1> DEFINE Good(t) == Read(ComponentSlots, t)
           Goes(t) == Going(ComponentSlots, t)
<1>1. Good(p) /\ Good(Fail(p)) /\ Good(Crash(p)) /\ Goes(p) /\ \A t : Goes(t) => Good(t)
  BY GoingReads
<1>2. /\ \A t, s : \A v \in Nat : Goes(t) => Goes(Hold(t, s, v))
      /\ \A t, o, x, v : Goes(t) => Goes(Push(t, o, x, v))
  BY GoingHold, GoingPush
<1>3. Goes(FinishBom(p)) /\ Goes(FinishComponent(FinishBom(p)))
  BY ComponentsFinishGoes
<1> HIDE DEF Good, Goes
<1>4. Good(ComponentHeadLine(p, n)) /\ Good(BomFieldLine(p, n))
  BY <1>1 DEF ComponentHeadLine, BomFieldLine
<1>5. Good(ComponentLine(p, n)) /\ Good(CpnLine(p, n))
  BY <1>1, <1>2, <1>3 DEF ComponentLine, CpnLine
<1>6. Good(ComponentPropertyLine(p, n)) /\ Good(ToeprintLine(p, n)) /\ Good(DscLine(p, n))
  BY <1>1, <1>2 DEF ComponentPropertyLine, ToeprintLine, DscLine, ComponentChild
<1>7. Good(ComponentsLine(p, k, n))
  BY <1>1, <1>4, <1>5, <1>6 DEF ComponentsLine, ComponentKinds
<1> QED
  BY <1>7 DEF Good

LEMMA FeaturesLineTypes ==
    ASSUME NEW p, Going(FeatureSlots, p), NEW k \in FeatureKinds, NEW n \in Nat
    PROVE  Read(FeatureSlots, FeatureTreeOf(p, k, n))
<1> DEFINE Good(t) == Read(FeatureSlots, t)
           Goes(t) == Going(FeatureSlots, t)
<1>1. Good(p) /\ Good(Fail(p)) /\ Goes(p) /\ \A t : Goes(t) => Good(t)
  BY GoingReads
<1>2. /\ \A t, s : \A v \in Nat : Goes(t) => Goes(Hold(t, s, v))
      /\ \A t, s : Goes(t) => Goes(Drop(t, s))
      /\ \A t, o, x, v : Goes(t) => Goes(Push(t, o, x, v))
      /\ \A t, s, o, v : Goes(t) => Goes(Flush(t, s, o, v))
  BY GoingHold, GoingDrop, GoingPush, GoingFlush
<1> HIDE DEF Good, Goes
<1>3. Good(FeatureHeadLine(p, n))
  BY <1>1 DEF FeatureHeadLine
<1>4. Good(LineFeature(p, n)) /\ Good(PadFeature(p, n)) /\ Good(TextFeature(p, n)) /\ Good(ArcFeature(p, n))
      /\ Good(BarcodeFeature(p, n))
  BY <1>1, <1>2 DEF LineFeature, PadFeature, TextFeature, ArcFeature, BarcodeFeature
<1>5. Good(SurfaceStart(p, n)) /\ Good(SurfaceEnd(p, n)) /\ Good(SurfacePolygonBegin(p, n))
  BY <1>1, <1>2 DEF SurfaceStart, SurfaceEnd, SurfacePolygonBegin
<1>6. Good(SurfacePolygonEnd(p, n)) /\ Good(SurfacePolygonPart(p, n))
  BY <1>1, <1>2 DEF SurfacePolygonEnd, SurfacePolygonPart
<1>7. CASE k \in UnitsKinds \/ k \in SymbolKinds
  BY <1>1, <1>2, <1>7 DEF FeatureTreeOf, Good
<1>8. CASE k \notin UnitsKinds /\ k \notin SymbolKinds
  <2>1. k \in {"HEAD", "L", "P", "T", "A", "B", "S", "SE", "OB", "OE", "OS", "BAD"}
    BY <1>8 DEF FeatureKinds, FeatureNoRecordKinds, FeatureAtOnceKinds, FeatureLineKinds
  <2>2. Good(FeatureTreeLine(p, k, n))
    BY <1>1, <1>3, <1>4, <1>5, <1>6, <2>1 DEF FeatureTreeLine
  <2>3. FeatureTreeOf(p, k, n) = FeatureTreeLine(p, k, n)
    BY <1>8 DEF FeatureTreeOf
  <2> QED
    BY <2>2, <2>3 DEF Good
<1> QED
  BY <1>7, <1>8

LEMMA NetlistLineTypes ==
    ASSUME NEW p, Going({}, p), NEW k \in NetlistKinds, NEW n \in Nat
    PROVE  Read({}, NetlistLine(p, k, n))
<1> DEFINE Good(t) == Read({}, t)
           Goes(t) == Going({}, t)
<1>1. Good(p) /\ Good(Fail(p)) /\ Goes(p) /\ \A t : Goes(t) => Good(t)
  BY GoingReads
<1>2. \A t, o, x, v : Goes(t) => Goes(Push(t, o, x, v))
  BY GoingPush
<1> HIDE DEF Good, Goes
<1>3. Good(NetlistLine(p, k, n))
  BY <1>1, <1>2 DEF NetlistLine, NetlistKinds, NetlistHeadLine, NetlistHeaderLine, NetlistNetLine, NetlistPointLine
<1> QED
  BY <1>3 DEF Good

-----------------------------------------------------------------------------
(* A file that was just opened has nothing.                                   *)

LEMMA Opened0 ==
    ASSUME NEW S, NEW p, p = Reading(S)
    PROVE  TreeOver(S, p) /\ p.status = "reading" /\ p.kept = <<>> /\ p.cur = [s \in S |-> 0]
<1> DEFINE a == "reading"
           b == [s \in S |-> 0]
           c == <<>>
<1>1. p = [status |-> a, cur |-> b, kept |-> c]
  BY DEF Reading
<1>2. b \in [S -> Nat]
  OBVIOUS
<1> HIDE DEF a, b, c
<1>3. p.status = a /\ p.cur = b /\ p.kept = c
  BY <1>1
<1>4. IsTree(p)
  BY <1>1, <1>3 DEF IsTree
<1>5. TreeOver(S, p)
  BY <1>2, <1>3, <1>4 DEF TreeOver
<1> QED
  BY <1>3, <1>5 DEF a, b, c

LEMMA NoneYet ==
    ASSUME NEW w, NEW owners, NEW p, p.kept = <<>>, NEW S, S \subseteq RecordsTo(w, owners, 0)
    PROVE  Tidy(w, owners, S, p.kept)
<1>1. RecordsTo(w, owners, 0) = {}
  BY DEF RecordsTo
<1>2. S = {}
  BY <1>1
<1>3. Tidy(w, owners, {}, <<>>)
  BY TidyEmpty
<1> QED
  BY <1>2, <1>3

LEMMA MatrixStarts ==
    ASSUME NEW w, NEW p, p = MatrixOpen
    PROVE  TreeOver(MatrixSlots, p) /\ MatrixShape(w, 0, p)
<1>1. TreeOver(MatrixSlots, p) /\ p.kept = <<>> /\ p.cur = [s \in MatrixSlots |-> 0]
  BY Opened0 DEF MatrixOpen
<1>2. p.cur["step"] = 0 /\ p.cur["layer"] = 0 /\ p.cur["brace"] = 0
  BY <1>1 DEF MatrixSlots
<1>3. Tidy(w, MatrixOwners, RecordsTo(w, MatrixOwners, 0), p.kept)
  BY <1>1, NoneYet
<1>4. MatrixIdle(w, 0, p)
  BY <1>2, <1>3 DEF MatrixIdle
<1> QED
  BY <1>1, <1>4 DEF MatrixShape

LEMMA NetlistStarts ==
    ASSUME NEW w, NEW p, p = NetlistOpen
    PROVE  TreeOver({}, p) /\ NetlistShape(w, 0, p)
<1>1. TreeOver({}, p) /\ p.kept = <<>>
  BY Opened0 DEF NetlistOpen
<1>2. Tidy(w, NetlistOwners, RecordsTo(w, NetlistOwners, 0), p.kept)
  BY <1>1, NoneYet
<1> QED
  BY <1>1, <1>2 DEF NetlistShape

LEMMA FeaturesStarts ==
    ASSUME NEW w, NEW p, p = Reading(FeatureSlots)
    PROVE  TreeOver(FeatureSlots, p) /\ FeaturesShape(w, 0, p)
<1>1. TreeOver(FeatureSlots, p) /\ p.kept = <<>> /\ p.cur = [s \in FeatureSlots |-> 0]
  BY Opened0
<1>2. p.cur["surface"] = 0 /\ p.cur["polygon"] = 0
  BY <1>1 DEF FeatureSlots
<1>3. Tidy(w, FeaturesOwners, RecordsTo(w, FeaturesOwners, 0), p.kept)
  BY <1>1, NoneYet
<1>4. FeaturesIdle(w, 0, p)
  BY <1>2, <1>3 DEF FeaturesIdle
<1> QED
  BY <1>1, <1>4 DEF FeaturesShape

ComponentsHeld(w, c, p) == \E a, b \in 0..c : ComponentsShape(w, c, p, a, b)

LEMMA ComponentsStarts ==
    ASSUME NEW w, NEW p, p = Reading(ComponentSlots)
    PROVE  TreeOver(ComponentSlots, p) /\ ComponentsHeld(w, 0, p)
<1>1. TreeOver(ComponentSlots, p) /\ p.kept = <<>> /\ p.cur = [s \in ComponentSlots |-> 0]
  BY Opened0
<1>2. p.cur["component"] = 0 /\ p.cur["bom"] = 0
  BY <1>1 DEF ComponentSlots
<1>3. Tidy(w, ComponentsOwners, RecordsTo(w, ComponentsOwners, 0) \ {0, 0}, p.kept)
  BY <1>1, NoneYet
<1>4. ComponentsShape(w, 0, p, 0, 0)
  BY <1>2, <1>3 DEF ComponentsShape
<1>5. 0 \in 0..0
  OBVIOUS
<1> QED
  BY <1>1, <1>4, <1>5 DEF ComponentsHeld

LEMMA EdaStarts ==
    ASSUME NEW w, NEW p, p = EdaOpen
    PROVE  TreeOver(EdaSlots, p) /\ EdaNetShape(w, 0, p) /\ EdaShapesShape(w, 0, p)
<1>1. TreeOver(EdaSlots, p) /\ p.kept = <<>> /\ p.cur = [s \in EdaSlots |-> 0]
  BY Opened0 DEF EdaOpen
<1>2. EdaCur(p, 0, 0, 0, 0, 0, 0, 0)
  BY <1>1 DEF EdaSlots, EdaCur
<1>3. Tidy(w, EdaOwners, RecordsTo(w, EdaOwners, 0) \ {0, 0, 0, 0}, p.kept)
  BY <1>1, NoneYet
<1>4. EdaTidy(w, 0, p, {0, 0, 0, 0})
  BY <1>3 DEF EdaTidy
<1>5. EdaLast(w, 0, 0, 0)
  BY DEF EdaLast
<1>6. EdaIdle(w, 0, p, 0, 0)
  BY <1>2, <1>4, <1>5 DEF EdaIdle, EdaHeld
<1>7. 0 \in 0..0 /\ EdaPackage(w, 0)
  BY DEF EdaPackage
<1> QED
  BY <1>1, <1>6, <1>7 DEF EdaNetShape, EdaShapesShape

-----------------------------------------------------------------------------
(* The formats side by side.                                                  *)

EdaFormats == {"eda nets", "eda shapes"}
FeatureFormats == {"features", "feature lines", "symbols"}
ReadFormats == Formats \ {"other layer"}

SlotsOf(f) == IF f \in EdaFormats THEN EdaSlots ELSE IF f \in FeatureFormats THEN FeatureSlots ELSE
              IF f = "netlist" THEN {} ELSE IF f = "matrix" THEN MatrixSlots ELSE ComponentSlots

OwnersIn(f) == IF f \in EdaFormats THEN EdaOwners ELSE IF f \in FeatureFormats THEN FeaturesOwners ELSE
               IF f = "netlist" THEN NetlistOwners ELSE IF f = "matrix" THEN MatrixOwners ELSE
               ComponentsOwners

OrderlyIn(f, w) == IF f \in EdaFormats THEN EdaOrderly(w) ELSE
                   IF f \in FeatureFormats THEN FeaturesOrderly(w) ELSE
                   IF f = "netlist" THEN NetlistOrderly(w) ELSE
                   IF f = "matrix" THEN MatrixOrderly(w) ELSE ComponentsOrderly(w)

\* What a line, and the end of the file, make of the records.
LineOf(f, t, k, n) == IF f \in EdaFormats THEN EdaLine(t, k, n) ELSE
                      IF f \in FeatureFormats THEN FeatureTreeOf(t, k, n) ELSE
                      IF f = "netlist" THEN NetlistLine(t, k, n) ELSE
                      IF f = "matrix" THEN MatrixLine(t, k, n) ELSE ComponentsLine(t, k, n)

EndOf(f, t) == IF f \in EdaFormats THEN EdaEnd(t) ELSE
               IF f \in FeatureFormats THEN Accept(Flush(t, "surface", 0, "S")) ELSE
               IF f = "netlist" THEN NetlistEnd(t) ELSE
               IF f = "matrix" THEN MatrixEnd(t) ELSE ComponentsEnd(t)

\* What is held after the first c lines of the orderly file w.
ShapeOf(f, w, c, t) == IF f = "eda nets" THEN EdaNetShape(w, c, t) ELSE
                       IF f = "eda shapes" THEN EdaShapesShape(w, c, t) ELSE
                       IF f \in FeatureFormats THEN FeaturesShape(w, c, t) ELSE
                       IF f = "netlist" THEN NetlistShape(w, c, t) ELSE
                       IF f = "matrix" THEN MatrixShape(w, c, t) ELSE ComponentsHeld(w, c, t)

LEMMA TheFormats ==
    /\ \A f \in ReadFormats : f \in {"eda nets", "eda shapes", "components", "features", "feature lines",
                                     "symbols", "netlist", "matrix"}
    /\ LineKinds["eda nets"] = EdaNetKinds /\ LineKinds["eda shapes"] = EdaShapeKinds
    /\ LineKinds["components"] = ComponentKinds /\ LineKinds["features"] = FeatureShapeKinds
    /\ LineKinds["feature lines"] = FeatureLineKinds /\ LineKinds["symbols"] = FeatureSymbolKinds
    /\ LineKinds["netlist"] = NetlistKinds /\ LineKinds["matrix"] = MatrixKinds
<1>1. \A f \in ReadFormats : f \in {"eda nets", "eda shapes", "components", "features", "feature lines",
                                    "symbols", "netlist", "matrix"}
  BY DEF ReadFormats, Formats
<1>2. /\ LineKinds["eda nets"] = EdaNetKinds /\ LineKinds["eda shapes"] = EdaShapeKinds
      /\ LineKinds["components"] = ComponentKinds /\ LineKinds["features"] = FeatureShapeKinds
  BY DEF LineKinds, Formats
<1>3. /\ LineKinds["feature lines"] = FeatureLineKinds /\ LineKinds["symbols"] = FeatureSymbolKinds
      /\ LineKinds["netlist"] = NetlistKinds /\ LineKinds["matrix"] = MatrixKinds
  BY DEF LineKinds, Formats
<1> QED
  BY <1>1, <1>2, <1>3

LEMMA FeatureKindsOf ==
    \A f \in FeatureFormats : LineKinds[f] \subseteq FeatureKinds
<1>1. FeatureShapeKinds \subseteq FeatureKinds
  BY DEF FeatureShapeKinds, FeatureKinds, FeatureAtOnceKinds, FeatureNoRecordKinds, FeatureLineKinds
<1>2. FeatureLineKinds \subseteq FeatureKinds
  BY DEF FeatureKinds, FeatureAtOnceKinds
<1>3. FeatureSymbolKinds \subseteq FeatureKinds
  BY DEF FeatureSymbolKinds, FeatureKinds, FeatureAtOnceKinds, FeatureNoRecordKinds, FeatureLineKinds
<1> QED
  BY <1>1, <1>2, <1>3, TheFormats DEF FeatureFormats

LEMMA FileStarts ==
    ASSUME NEW f \in ReadFormats, NEW t, t = Opened(f), NEW w
    PROVE  TreeOver(SlotsOf(f), t) /\ t.status = "reading" /\ ShapeOf(f, w, 0, t)
<1>1. t.status = "reading"
  <2>1. \E S : t = Reading(S)
    BY TheFormats DEF Opened, EdaOpen, ComponentsOpen, NetlistOpen, MatrixOpen
  <2> QED
    BY <2>1, Opened0
<1>2. CASE f \in EdaFormats
  <2>1. t = EdaOpen
    BY <1>2 DEF Opened, EdaFormats
  <2> QED
    BY <1>1, <1>2, <2>1, EdaStarts DEF SlotsOf, ShapeOf, EdaFormats
<1>3. CASE f \in FeatureFormats
  <2>1. t = Reading(FeatureSlots)
    BY <1>3 DEF Opened, FeatureFormats
  <2> QED
    BY <1>1, <1>3, <2>1, FeaturesStarts DEF SlotsOf, ShapeOf, EdaFormats, FeatureFormats
<1>4. CASE f = "netlist"
  <2>1. t = NetlistOpen
    BY <1>4 DEF Opened
  <2> QED
    BY <1>1, <1>4, <2>1, NetlistStarts DEF SlotsOf, ShapeOf, EdaFormats, FeatureFormats
<1>5. CASE f = "matrix"
  <2>1. t = MatrixOpen
    BY <1>5 DEF Opened
  <2> QED
    BY <1>1, <1>5, <2>1, MatrixStarts DEF SlotsOf, ShapeOf, EdaFormats, FeatureFormats
<1>6. CASE f = "components"
  <2>1. t = Reading(ComponentSlots)
    BY <1>6 DEF Opened, ComponentsOpen
  <2> QED
    BY <1>1, <1>6, <2>1, ComponentsStarts DEF SlotsOf, ShapeOf, EdaFormats, FeatureFormats
<1> QED
  BY <1>2, <1>3, <1>4, <1>5, <1>6, TheFormats DEF EdaFormats, FeatureFormats

LEMMA AnyLine ==
    ASSUME NEW f \in ReadFormats, NEW t, Going(SlotsOf(f), t), NEW k \in LineKinds[f], NEW n \in Nat
    PROVE  Read(SlotsOf(f), LineOf(f, t, k, n))
<1>2. CASE f \in EdaFormats
  <2>1. k \in EdaNetKinds \union EdaShapeKinds
    BY <1>2, TheFormats DEF EdaFormats
  <2>2. Going(EdaSlots, t)
    BY <1>2 DEF SlotsOf
  <2>3. Read(EdaSlots, EdaLine(t, k, n))
    BY <2>1, <2>2, EdaLineTypes
  <2> QED
    BY <1>2, <2>3 DEF SlotsOf, LineOf
<1>3. CASE f \in FeatureFormats
  <2>0. f \notin EdaFormats
    BY <1>3 DEF EdaFormats, FeatureFormats
  <2>1. k \in FeatureKinds
    BY <1>3, FeatureKindsOf
  <2>2. Going(FeatureSlots, t)
    BY <1>3, <2>0 DEF SlotsOf
  <2>3. Read(FeatureSlots, FeatureTreeOf(t, k, n))
    BY <2>1, <2>2, FeaturesLineTypes
  <2> QED
    BY <1>3, <2>0, <2>3 DEF SlotsOf, LineOf
<1>4. CASE f = "netlist"
  <2>0. f \notin EdaFormats /\ f \notin FeatureFormats
    BY <1>4 DEF EdaFormats, FeatureFormats
  <2>1. k \in NetlistKinds /\ Going({}, t)
    BY <1>4, <2>0, TheFormats DEF SlotsOf
  <2>3. Read({}, NetlistLine(t, k, n))
    BY <2>1, NetlistLineTypes
  <2> QED
    BY <1>4, <2>0, <2>3 DEF SlotsOf, LineOf
<1>5. CASE f = "matrix"
  <2>0. f \notin EdaFormats /\ f \notin FeatureFormats
    BY <1>5 DEF EdaFormats, FeatureFormats
  <2>1. k \in MatrixKinds /\ Going(MatrixSlots, t)
    BY <1>5, <2>0, TheFormats DEF SlotsOf
  <2>2. MatrixTree(t) /\ t.status = "reading"
    BY <2>1 DEF Going, MatrixTree
  <2>3. MatrixTree(MatrixLine(t, k, n)) /\ MatrixLine(t, k, n).status \in {"reading", "parse_error"}
    BY <2>1, <2>2, MatrixLineTypes
  <2>4. Read(MatrixSlots, MatrixLine(t, k, n))
    BY <2>3 DEF Read, MatrixTree
  <2> QED
    BY <1>5, <2>0, <2>4 DEF SlotsOf, LineOf
<1>6. CASE f = "components"
  <2>0. f \notin EdaFormats /\ f \notin FeatureFormats
    BY <1>6 DEF EdaFormats, FeatureFormats
  <2>1. k \in ComponentKinds /\ Going(ComponentSlots, t)
    BY <1>6, <2>0, TheFormats DEF SlotsOf
  <2>3. Read(ComponentSlots, ComponentsLine(t, k, n))
    BY <2>1, ComponentsLineTypes
  <2> QED
    BY <1>6, <2>0, <2>3 DEF SlotsOf, LineOf
<1> QED
  BY <1>2, <1>3, <1>4, <1>5, <1>6, TheFormats DEF EdaFormats, FeatureFormats

\* A line of an orderly file is read, and what is held follows the shape.
LEMMA OrderlyLine ==
    ASSUME NEW f \in ReadFormats, NEW w \in Seq(Token), OrderlyIn(f, w), NEW c \in Nat, c < Len(w),
           NEW t, Going(SlotsOf(f), t), ShapeOf(f, w, c, t), NEW n, n = c + 1, w[n] \in LineKinds[f],
           NEW q, q = LineOf(f, t, w[n], n)
    PROVE  q.status = "reading" /\ ShapeOf(f, w, n, q)
<1>1. TreeOver(SlotsOf(f), t) /\ t.status = "reading" /\ Len(w) \in Nat
  BY DEF Going
<1>2. CASE f \in EdaFormats
  <2>0. EdaOrderly(w) /\ TreeOver(EdaSlots, t) /\ q = EdaLine(t, w[n], n)
    BY <1>1, <1>2 DEF OrderlyIn, SlotsOf, LineOf
  <2>1. EdaRule(w)
    BY <2>0, EdaOrder
  <2>2. CASE f = "eda nets"
    <3>1. EdaNetShape(w, c, t) /\ w[n] \in EdaNetKinds
      BY <2>2, TheFormats DEF ShapeOf
    <3>2. q.status = t.status /\ EdaNetShape(w, n, q)
      BY <1>1, <2>0, <2>1, <3>1, EdaNetReads
    <3> QED
      BY <1>1, <2>2, <3>2 DEF ShapeOf
  <2>3. CASE f = "eda shapes"
    <3>1. EdaShapesShape(w, c, t) /\ w[n] \in EdaShapeKinds
      BY <2>3, TheFormats DEF ShapeOf
    <3>2. q.status = t.status /\ EdaShapesShape(w, n, q)
      BY <1>1, <2>0, <2>1, <3>1, EdaShapeReads
    <3> QED
      BY <1>1, <2>3, <3>2 DEF ShapeOf
  <2> QED
    BY <1>2, <2>2, <2>3 DEF EdaFormats
<1>3. CASE f \in FeatureFormats
  <2>0. f \notin EdaFormats /\ f # "eda nets" /\ f # "eda shapes"
    BY <1>3 DEF EdaFormats, FeatureFormats
  <2>1. FeaturesOrderly(w) /\ TreeOver(FeatureSlots, t) /\ q = FeatureTreeOf(t, w[n], n)
    BY <1>1, <1>3, <2>0 DEF OrderlyIn, SlotsOf, LineOf
  <2>2. FeaturesShape(w, c, t) /\ w[n] \in FeatureKinds
    BY <1>3, <2>0, FeatureKindsOf DEF ShapeOf
  <2>3. q.status = "reading" /\ FeaturesShape(w, n, q)
    BY <1>1, <2>1, <2>2, FeaturesReads
  <2> QED
    BY <1>3, <2>0, <2>3 DEF ShapeOf
<1>4. CASE f = "netlist"
  <2>0. f \notin EdaFormats /\ f \notin FeatureFormats
    BY <1>4 DEF EdaFormats, FeatureFormats
  <2>1. NetlistOrderly(w) /\ TreeOver({}, t) /\ q = NetlistLine(t, w[n], n)
    BY <1>1, <1>4, <2>0 DEF OrderlyIn, SlotsOf, LineOf
  <2>2. NetlistShape(w, c, t) /\ w[n] \in NetlistKinds
    BY <1>4, <2>0, TheFormats DEF ShapeOf, EdaFormats
  <2>3. n \in DOMAIN w
    BY <1>1
  <2>4. w[n] # "BAD"
    BY <2>1, <2>3 DEF NetlistOrderly
  <2>5. /\ NetlistLine(t, w[c + 1], c + 1).status = "reading"
        /\ NetlistShape(w, c + 1, NetlistLine(t, w[c + 1], c + 1))
    BY <1>1, <2>1, <2>2, <2>4, NetlistReads
  <2> QED
    BY <1>4, <2>0, <2>1, <2>5 DEF ShapeOf, EdaFormats
<1>5. CASE f = "matrix"
  <2>0. f \notin EdaFormats /\ f \notin FeatureFormats
    BY <1>5 DEF EdaFormats, FeatureFormats
  <2>1. MatrixOrderly(w) /\ MatrixTree(t) /\ q = MatrixLine(t, w[n], n)
    BY <1>1, <1>5, <2>0 DEF OrderlyIn, SlotsOf, LineOf, MatrixTree
  <2>2. MatrixShape(w, c, t) /\ w[n] \in MatrixKinds
    BY <1>5, <2>0, TheFormats DEF ShapeOf, EdaFormats
  <2>3. /\ MatrixLine(t, w[c + 1], c + 1).status = "reading"
        /\ MatrixShape(w, c + 1, MatrixLine(t, w[c + 1], c + 1))
    BY <1>1, <2>1, <2>2, MatrixReads
  <2> QED
    BY <1>5, <2>0, <2>1, <2>3 DEF ShapeOf, EdaFormats
<1>6. CASE f = "components"
  <2>0. f \notin EdaFormats /\ f \notin FeatureFormats
    BY <1>6 DEF EdaFormats, FeatureFormats
  <2>1. ComponentsOrderly(w) /\ TreeOver(ComponentSlots, t) /\ q = ComponentsLine(t, w[n], n)
    BY <1>1, <1>6, <2>0 DEF OrderlyIn, SlotsOf, LineOf
  <2>2. ComponentsHeld(w, c, t) /\ w[n] \in ComponentKinds
    BY <1>6, <2>0, TheFormats DEF ShapeOf, EdaFormats
  <2>3. \E a, b \in 0..c : ComponentsShape(w, c, t, a, b)
    BY <2>2 DEF ComponentsHeld
  <2>4. q.status = "reading" /\ \E a, b \in 0..n : ComponentsShape(w, n, q, a, b)
    BY <1>1, <2>1, <2>2, <2>3, ComponentsReads
  <2> QED
    BY <1>6, <2>0, <2>4 DEF ShapeOf, EdaFormats, ComponentsHeld
<1> QED
  BY <1>2, <1>3, <1>4, <1>5, <1>6, TheFormats DEF EdaFormats, FeatureFormats

\* At the end of an orderly file all of its records are kept.
LEMMA OrderlyEnd ==
    ASSUME NEW f \in ReadFormats, NEW w \in Seq(Token), OrderlyIn(f, w), NEW t, TreeOver(SlotsOf(f), t),
           ShapeOf(f, w, Len(w), t), NEW q, q = EndOf(f, t)
    PROVE  Tidy(w, OwnersIn(f), RecordLines(w, OwnersIn(f)), q.kept)
<1> DEFINE c == Len(w)
<1>1. c \in Nat /\ c <= Len(w)
  OBVIOUS
<1>2. \A owners : RecordLines(w, owners) = RecordsTo(w, owners, c)
  BY ShownAll
<1>s. ShapeOf(f, w, c, t) /\ c = Len(w)
  OBVIOUS
<1>3. CASE f \in EdaFormats
  <2>0. EdaOrderly(w) /\ TreeOver(EdaSlots, t) /\ q = EdaEnd(t) /\ OwnersIn(f) = EdaOwners
    BY <1>3 DEF OrderlyIn, SlotsOf, EndOf, OwnersIn
  <2>1. EdaRule(w)
    BY <2>0, EdaOrder
  <2>2. CASE f = "eda nets"
    <3>1. EdaNetShape(w, c, t)
      BY <2>2 DEF ShapeOf
    <3> HIDE DEF c
    <3>2. Tidy(w, EdaOwners, RecordsTo(w, EdaOwners, c), q.kept)
      BY <1>1, <2>0, <3>1, EdaNetEnds
    <3> QED
      BY <1>2, <2>0, <3>2
  <2>3. CASE f = "eda shapes"
    <3>1. EdaShapesShape(w, c, t)
      BY <2>3 DEF ShapeOf
    <3> HIDE DEF c
    <3>2. Tidy(w, EdaOwners, RecordsTo(w, EdaOwners, c), q.kept)
      BY <1>1, <1>s, <2>0, <2>1, <3>1, EdaShapesEnds
    <3> QED
      BY <1>2, <2>0, <3>2
  <2> QED
    BY <1>3, <2>2, <2>3 DEF EdaFormats
<1>4. CASE f \in FeatureFormats
  <2>0. f \notin EdaFormats /\ f # "eda nets" /\ f # "eda shapes"
    BY <1>4 DEF EdaFormats, FeatureFormats
  <2>1. /\ FeaturesOrderly(w) /\ TreeOver(FeatureSlots, t) /\ q = Accept(Flush(t, "surface", 0, "S"))
        /\ OwnersIn(f) = FeaturesOwners /\ FeaturesShape(w, c, t)
    BY <1>4, <2>0 DEF OrderlyIn, SlotsOf, EndOf, OwnersIn, ShapeOf
  <2> HIDE DEF c
  <2>2. Tidy(w, FeaturesOwners, RecordsTo(w, FeaturesOwners, c), q.kept)
    BY <1>s, <2>1, FeaturesEnds
  <2> QED
    BY <1>2, <2>1, <2>2
<1>5. CASE f = "netlist"
  <2>0. f \notin EdaFormats /\ f \notin FeatureFormats
    BY <1>5 DEF EdaFormats, FeatureFormats
  <2>1. TreeOver({}, t) /\ q = Accept(t) /\ OwnersIn(f) = NetlistOwners /\ NetlistShape(w, c, t)
    BY <1>5, <2>0 DEF SlotsOf, EndOf, OwnersIn, ShapeOf, EdaFormats, NetlistEnd
  <2> HIDE DEF c
  <2>2. q.kept = t.kept
    BY <2>1, AcceptIs DEF TreeOver
  <2> QED
    BY <1>2, <2>1, <2>2 DEF NetlistShape
<1>6. CASE f = "matrix"
  <2>0. f \notin EdaFormats /\ f \notin FeatureFormats
    BY <1>6 DEF EdaFormats, FeatureFormats
  <2>1. /\ TreeOver(MatrixSlots, t) /\ q = Accept(t) /\ OwnersIn(f) = MatrixOwners /\ MatrixOrderly(w)
        /\ MatrixShape(w, Len(w), t)
    BY <1>6, <2>0 DEF SlotsOf, EndOf, OwnersIn, ShapeOf, EdaFormats, MatrixEnd, OrderlyIn
  <2>2. q.kept = t.kept
    BY <2>1, AcceptIs DEF TreeOver
  <2>3. Tidy(w, MatrixOwners, RecordLines(w, MatrixOwners), t.kept)
    BY <2>1, MatrixEnds
  <2> QED
    BY <2>1, <2>2, <2>3
<1>7. CASE f = "components"
  <2>0. f \notin EdaFormats /\ f \notin FeatureFormats
    BY <1>7 DEF EdaFormats, FeatureFormats
  <2>1. /\ ComponentsOrderly(w) /\ TreeOver(ComponentSlots, t) /\ q = ComponentsEnd(t)
        /\ OwnersIn(f) = ComponentsOwners /\ ComponentsHeld(w, c, t)
    BY <1>7, <2>0 DEF OrderlyIn, SlotsOf, EndOf, OwnersIn, ShapeOf, EdaFormats
  <2>2. \E a, b \in 0..c : ComponentsShape(w, c, t, a, b)
    BY <2>1 DEF ComponentsHeld
  <2> HIDE DEF c
  <2>3. Tidy(w, ComponentsOwners, RecordsTo(w, ComponentsOwners, c), q.kept)
    BY <1>1, <2>1, <2>2, ComponentsEnds
  <2> QED
    BY <1>2, <2>1, <2>3
<1> QED
  BY <1>3, <1>4, <1>5, <1>6, <1>7, TheFormats DEF EdaFormats, FeatureFormats

\* Whatever was read, the end of the file is accepted.
LEMMA EndAccepts ==
    ASSUME NEW f \in ReadFormats, NEW t, Going(SlotsOf(f), t)
    PROVE  IsTree(EndOf(f, t)) /\ EndOf(f, t).status = "accepted"
<1>0. ASSUME NEW S, NEW u, Going(S, u) PROVE IsTree(Accept(u)) /\ Accept(u).status = "accepted"
  <2>1. IsTree(u)
    BY <1>0 DEF Going, TreeOver
  <2> QED
    BY <2>1, AcceptIs
<1>1. CASE f \in EdaFormats
  <2>1. Going(EdaSlots, t)
    BY <1>1 DEF SlotsOf
  <2>2. Going(EdaSlots, FinishOpen(t))
    BY <2>1, EdaFinishGoes
  <2>3. EndOf(f, t) = Accept(FinishOpen(t))
    BY <1>1 DEF EndOf, EdaEnd
  <2> QED
    BY <1>0, <2>2, <2>3
<1>2. CASE f \in FeatureFormats
  <2>1. Going(FeatureSlots, t)
    BY <1>2 DEF SlotsOf, EdaFormats, FeatureFormats
  <2>2. Going(FeatureSlots, Flush(t, "surface", 0, "S"))
    BY <2>1, GoingFlush
  <2>3. EndOf(f, t) = Accept(Flush(t, "surface", 0, "S"))
    BY <1>2 DEF EndOf, EdaFormats, FeatureFormats
  <2> QED
    BY <1>0, <2>2, <2>3
<1>3. CASE f \in {"netlist", "matrix"}
  <2>1. EndOf(f, t) = Accept(t)
    BY <1>3 DEF EndOf, EdaFormats, FeatureFormats, NetlistEnd, MatrixEnd
  <2> QED
    BY <1>0, <2>1
<1>4. CASE f = "components"
  <2>1. Going(ComponentSlots, t)
    BY <1>4 DEF SlotsOf, EdaFormats, FeatureFormats
  <2>2. Going(ComponentSlots, FinishComponent(FinishBom(t)))
    BY <2>1, ComponentsFinishGoes
  <2>3. EndOf(f, t) = Accept(FinishComponent(FinishBom(t)))
    BY <1>4 DEF EndOf, EdaFormats, FeatureFormats, ComponentsEnd
  <2> QED
    BY <1>0, <2>2, <2>3
<1> QED
  BY <1>1, <1>2, <1>3, <1>4, TheFormats DEF EdaFormats, FeatureFormats

-----------------------------------------------------------------------------
(* The invariant: whatever orderly file the lines turn out to begin, the      *)
(* reader has not stopped and holds what the shape of that file says.         *)

Begins(w, ls) == Len(ls) <= Len(w) /\ \A i \in 1..Len(ls) : w[i] = ls[i]

ReadSoFar(f, ls, t) ==
    \A w \in Seq(Token) : OrderlyIn(f, w) /\ Begins(w, ls) =>
       /\ t.status = "reading" => ShapeOf(f, w, Len(ls), t)
       /\ t.status \notin {"parse_error", "crashed"}

Statuses == {"reading", "parse_error", "crashed", "accepted", "round_trip", "unserialisable"}

Whole(f, ls, t) ==
    t.status = "accepted" /\ OrderlyIn(f, ls) =>
       Tidy(ls, OwnersIn(f), RecordLines(ls, OwnersIn(f)), t.kept)

FileSound(f, ls, t) ==
    /\ ls \in Seq(Token) /\ IsTree(t) /\ t.status \in Statuses
    /\ t.status = "reading" => TreeOver(SlotsOf(f), t) /\ f \in ReadFormats
    /\ ReadSoFar(f, ls, t) /\ Whole(f, ls, t)

ParserInv == part \in Formats => IsParse(parse) /\ FileSound(part, lines, parse.tree)

LEMMA KindsAreTokens == \A f \in ReadFormats : LineKinds[f] \subseteq Token
<1>1. /\ EdaNetKinds \subseteq Token /\ EdaShapeKinds \subseteq Token /\ ComponentKinds \subseteq Token
  BY DEF EdaNetKinds, EdaShapeKinds, ComponentKinds, Token
<1>2. FeatureShapeKinds \subseteq Token /\ FeatureLineKinds \subseteq Token
  BY DEF FeatureShapeKinds, FeatureLineKinds, Token
<1>3. FeatureSymbolKinds \subseteq Token
  BY DEF FeatureSymbolKinds, UnitsKinds, SymbolKinds, Token
<1>4. NetlistKinds \subseteq Token
  BY DEF NetlistKinds, Token
<1>5. MatrixKinds \subseteq Token
  BY Zenon DEF MatrixKinds, MatrixRecordKinds, Token
<1> HIDE DEF Token
<1> QED
  BY <1>1, <1>2, <1>3, <1>4, <1>5, TheFormats

LEMMA ClosingsAreTokens == \A closing \in Closings : closing \in Seq(Token)
<1> DEFINE a == "{"
           b == "}"
<1>1. a \in Token /\ b \in Token
  BY Zenon DEF Token
<1>2. "CE" \in Token /\ "OE" \in Token /\ "SE" \in Token
  BY DEF Token
<1>3. Closings = {<<>>, <<"CE">>, <<"OE", "CE">>, <<"SE">>, <<"OE", "SE">>, <<b>>, <<a, b>>}
  BY Zenon DEF Closings
<1> HIDE DEF a, b, Token
<1>4. /\ <<>> \in Seq(Token) /\ <<"CE">> \in Seq(Token) /\ <<"OE", "CE">> \in Seq(Token)
      /\ <<"SE">> \in Seq(Token) /\ <<"OE", "SE">> \in Seq(Token)
      /\ <<b>> \in Seq(Token) /\ <<a, b>> \in Seq(Token)
  BY <1>1, <1>2
<1> QED
  BY <1>3, <1>4, Zenon

LEMMA BeginsItself == \A ls \in Seq(Token) : Begins(ls, ls)
  BY DEF Begins

LEMMA BeginsClosed ==
    ASSUME NEW ls \in Seq(Token), NEW x \in Seq(Token)
    PROVE  ls \o x \in Seq(Token) /\ Begins(ls \o x, ls)
  BY DEF Begins

LEMMA BeginsOneMore ==
    ASSUME NEW ls \in Seq(Token), NEW k \in Token, NEW w \in Seq(Token), Begins(w, Append(ls, k))
    PROVE  /\ Begins(w, ls) /\ Len(ls) < Len(w) /\ w[Len(ls) + 1] = k /\ Len(ls) \in Nat
           /\ Len(Append(ls, k)) = Len(ls) + 1
<1> DEFINE l == Len(ls)
           m == Append(ls, k)
<1>1. /\ l \in Nat /\ Len(m) = l + 1 /\ m[l + 1] = k /\ \A i \in 1..l : m[i] = ls[i]
      /\ l + 1 \in 1..(l + 1) /\ \A i \in 1..l : i \in 1..(l + 1)
  OBVIOUS
<1>2. Len(m) <= Len(w) /\ \A i \in 1..Len(m) : w[i] = m[i]
  BY DEF Begins
<1> HIDE DEF m
<1>3. l < Len(w) /\ w[l + 1] = k /\ \A i \in 1..l : w[i] = ls[i] /\ l <= Len(w)
  BY <1>1, <1>2
<1>4. Len(m) = l + 1
  BY <1>1
<1>5. Begins(w, ls)
  BY <1>1, <1>3 DEF Begins
<1> QED
  BY <1>1, <1>3, <1>4, <1>5 DEF m

LEMMA SoundStart ==
    ASSUME NEW f \in Formats, NEW t, t = Opened(f)
    PROVE  FileSound(f, <<>>, t)
<1> DEFINE ls == <<>>
<1>1. ls \in Seq(Token) /\ Len(ls) = 0 /\ DOMAIN ls = {}
  OBVIOUS
<1> HIDE DEF ls
<1>2. CASE f \in ReadFormats
  <2>1. TreeOver(SlotsOf(f), t) /\ t.status = "reading" /\ \A w : ShapeOf(f, w, 0, t)
    BY <1>2, FileStarts
  <2>2. IsTree(t)
    BY <2>1 DEF TreeOver
  <2>3. ReadSoFar(f, ls, t)
    BY <1>1, <2>1 DEF ReadSoFar
  <2>4. Whole(f, ls, t)
    BY <2>1 DEF Whole
  <2> QED
    BY <1>1, <1>2, <2>1, <2>2, <2>3, <2>4 DEF FileSound, Statuses, ls
<1>3. CASE f = "other layer"
  <2> DEFINE u == Reading(ComponentSlots)
  <2>1. t = Accept(u)
    BY <1>3 DEF Opened, ComponentsOpen
  <2>2. IsTree(u) /\ u.kept = <<>>
    BY Opened0 DEF TreeOver
  <2> HIDE DEF u
  <2>3. IsTree(t) /\ t.status = "accepted" /\ t.kept = <<>>
    BY <2>1, <2>2, AcceptIs
  <2>4. ReadSoFar(f, ls, t)
    BY <2>3 DEF ReadSoFar
  <2>5. RecordLines(ls, OwnersIn(f)) = {}
    BY <1>1 DEF RecordLines
  <2>6. Tidy(ls, OwnersIn(f), {}, <<>>)
    BY TidyEmpty
  <2>7. Whole(f, ls, t)
    BY <2>3, <2>5, <2>6 DEF Whole
  <2> QED
    BY <1>1, <2>3, <2>4, <2>7 DEF FileSound, Statuses, ls
<1> QED
  BY <1>2, <1>3 DEF ReadFormats

LEMMA SoundLine ==
    ASSUME NEW f, NEW ls, NEW t, FileSound(f, ls, t), t.status = "reading", NEW k \in LineKinds[f],
           NEW q, q = LineOf(f, t, k, Len(ls) + 1), NEW ls2, ls2 = Append(ls, k)
    PROVE  FileSound(f, ls2, q)
<1> DEFINE c == Len(ls)
           n == c + 1
<1>1. /\ ls \in Seq(Token) /\ f \in ReadFormats /\ ReadSoFar(f, ls, t) /\ Going(SlotsOf(f), t)
  BY DEF FileSound, Going
<1>2. k \in Token
  BY <1>1, KindsAreTokens
<1>3. c \in Nat /\ n \in Nat
  BY <1>1
<1>4. Read(SlotsOf(f), q)
  BY <1>1, <1>3, AnyLine
<1>5. q.status \in {"reading", "parse_error", "crashed"} /\ TreeOver(SlotsOf(f), q) /\ IsTree(q)
  BY <1>4 DEF Read, TreeOver
<1>6. ASSUME NEW w \in Seq(Token), OrderlyIn(f, w), Begins(w, ls2)
      PROVE  q.status = "reading" /\ ShapeOf(f, w, Len(ls2), q)
  <2>1. /\ Begins(w, ls) /\ c < Len(w) /\ w[n] = k /\ Len(ls2) = n
    BY <1>1, <1>2, <1>6, BeginsOneMore
  <2>2. ShapeOf(f, w, c, t)
    BY <1>1, <1>6, <2>1 DEF ReadSoFar
  <2>3. n = c + 1 /\ w[n] \in LineKinds[f] /\ q = LineOf(f, t, w[n], n)
    BY <2>1
  <2> HIDE DEF c, n
  <2>4. q.status = "reading" /\ ShapeOf(f, w, n, q)
    BY <1>1, <1>3, <1>6, <2>1, <2>2, <2>3, OrderlyLine
  <2> QED
    BY <2>1, <2>4
<1>7. ReadSoFar(f, ls2, q)
  BY <1>6 DEF ReadSoFar
<1>8. Whole(f, ls2, q)
  BY <1>5 DEF Whole
<1>9. ls2 \in Seq(Token)
  BY <1>1, <1>2
<1> QED
  BY <1>1, <1>5, <1>7, <1>8, <1>9 DEF FileSound, Statuses

LEMMA SoundEnd ==
    ASSUME NEW f, NEW ls, NEW t, FileSound(f, ls, t), t.status = "reading", NEW q, q = EndOf(f, t)
    PROVE  FileSound(f, ls, q)
<1>1. ls \in Seq(Token) /\ f \in ReadFormats /\ ReadSoFar(f, ls, t) /\ Going(SlotsOf(f), t)
  BY DEF FileSound, Going
<1>2. IsTree(q) /\ q.status = "accepted"
  BY <1>1, EndAccepts
<1>3. ASSUME OrderlyIn(f, ls) PROVE Tidy(ls, OwnersIn(f), RecordLines(ls, OwnersIn(f)), q.kept)
  <2>1. ShapeOf(f, ls, Len(ls), t)
    BY <1>1, <1>3, BeginsItself DEF ReadSoFar
  <2>2. TreeOver(SlotsOf(f), t)
    BY <1>1 DEF Going
  <2> QED
    BY <1>1, <1>3, <2>1, <2>2, OrderlyEnd
<1>4. ReadSoFar(f, ls, q) /\ Whole(f, ls, q)
  BY <1>2, <1>3 DEF ReadSoFar, Whole
<1> QED
  BY <1>1, <1>2, <1>4 DEF FileSound, Statuses

LEMMA SoundConverted ==
    ASSUME NEW f, NEW ls, NEW t, FileSound(f, ls, t), NEW q, IsTree(q),
           q.status \in {"unserialisable", "round_trip"}
    PROVE  FileSound(f, ls, q)
<1>1. ls \in Seq(Token)
  BY DEF FileSound
<1>2. ReadSoFar(f, ls, q) /\ Whole(f, ls, q)
  BY DEF ReadSoFar, Whole
<1> QED
  BY <1>1, <1>2 DEF FileSound, Statuses

\* Each field of a parser that is replaced.
LEMMA ParseTree ==
    ASSUME NEW p, IsParse(p), NEW x, NEW q, q = [p EXCEPT !.tree = x]
    PROVE  IsParse(q) /\ q.tree = x
<1> DEFINE a == p.tree
           b == p.units
           c == p.unitOf
<1>1. p = [tree |-> a, units |-> b, unitOf |-> c]
  BY DEF IsParse
<1> HIDE DEF a, b, c
<1>2. q = [tree |-> x, units |-> b, unitOf |-> c]
  BY <1>1
<1> QED
  BY <1>2 DEF IsParse

LEMMA FeaturesLineTree ==
    ASSUME NEW p, IsParse(p), NEW k, NEW n, NEW q, q = FeaturesLine(p, k, n)
    PROVE  IsParse(q) /\ q.tree = FeatureTreeOf(p.tree, k, n)
<1> DEFINE a == p.tree
           b == p.units
           c == p.unitOf
<1>1. p = [tree |-> a, units |-> b, unitOf |-> c]
  BY DEF IsParse
<1>2. CASE k \in UnitsKinds
  <2> DEFINE r == [p EXCEPT !.units = k]
  <2>0. k \notin SymbolKinds
    BY <1>2, SymbolKindFacts
  <2>01. FeaturesLine(p, k, n) = UnitsLine(p, k)
    BY ONLY <1>2, <2>0 DEF FeaturesLine
  <2>1. q = ApplyDefaultUnits(r, InferredUnit(k))
    BY <2>01 DEF UnitsLine
  <2>2. \E x : ApplyDefaultUnits(r, InferredUnit(k)) = [r EXCEPT !.unitOf = x]
    BY DEF ApplyDefaultUnits
  <2>3. PICK x : q = [r EXCEPT !.unitOf = x]
    BY <2>1, <2>2
  <2> HIDE DEF a, b, c
  <2>4. r = [tree |-> a, units |-> k, unitOf |-> c]
    BY <1>1
  <2> HIDE DEF r
  <2>5. q = [tree |-> a, units |-> k, unitOf |-> x]
    BY <2>3, <2>4
  <2>6. IsParse(q) /\ q.tree = a
    BY <2>5 DEF IsParse
  <2>7. FeatureTreeOf(p.tree, k, n) = p.tree
    BY <1>2 DEF FeatureTreeOf
  <2> QED
    BY <2>6, <2>7 DEF a
<1>3. CASE k \notin UnitsKinds /\ k \in SymbolKinds
  <2> DEFINE x == Push(p.tree, 0, n, k)
             y == ApplyDefaultUnitTypeIfNone(SymbolUnit(k), InferredUnit(p.units))
  <2>1. q = [p EXCEPT !.tree = x, !.unitOf[n] = y]
    BY <1>3 DEF FeaturesLine, SymbolLine
  <2>2. FeatureTreeOf(p.tree, k, n) = x
    BY <1>3 DEF FeatureTreeOf
  <2> HIDE DEF a, b, c, x, y
  <2>3. q = [tree |-> x, units |-> b, unitOf |-> [c EXCEPT ![n] = y]]
    BY <1>1, <2>1
  <2> QED
    BY <2>2, <2>3 DEF IsParse
<1>4. CASE k \notin UnitsKinds /\ k \notin SymbolKinds
  <2>1. q = [p EXCEPT !.tree = FeatureTreeLine(p.tree, k, n)]
    BY <1>4 DEF FeaturesLine
  <2>2. IsParse(q) /\ q.tree = FeatureTreeLine(p.tree, k, n)
    BY <2>1, ParseTree
  <2> QED
    BY <1>4, <2>2 DEF FeatureTreeOf
<1> QED
  BY <1>2, <1>3, <1>4

LEMMA AfterLineTree ==
    ASSUME part \in ReadFormats, IsParse(parse), NEW k, NEW n
    PROVE  IsParse(AfterLine(k, n)) /\ AfterLine(k, n).tree = LineOf(part, parse.tree, k, n)
<1>1. CASE part \in FeatureFormats
  <2>1. AfterLine(k, n) = FeaturesLine(parse, k, n) /\ LineOf(part, parse.tree, k, n) = FeatureTreeOf(parse.tree, k, n)
    BY <1>1 DEF AfterLine, LineOf, FeatureFormats, EdaFormats
  <2> QED
    BY <2>1, FeaturesLineTree
<1>2. CASE part \notin FeatureFormats
  <2>1. AfterLine(k, n) = [parse EXCEPT !.tree = LineOf(part, parse.tree, k, n)]
    <3>1. part \in {"eda nets", "eda shapes", "components", "netlist", "matrix"}
      BY <1>2, TheFormats DEF FeatureFormats
    <3> QED
      BY <3>1 DEF AfterLine, LineOf, FeatureFormats, EdaFormats
  <2> QED
    BY <2>1, ParseTree
<1> QED
  BY <1>1, <1>2

LEMMA AtEndTree ==
    ASSUME part \in ReadFormats, IsParse(parse)
    PROVE  IsParse(AtEnd) /\ AtEnd.tree = EndOf(part, parse.tree)
<1>1. AtEnd = [parse EXCEPT !.tree = EndOf(part, parse.tree)]
  <2>1. CASE part \in FeatureFormats
    BY <2>1 DEF AtEnd, EndOf, FeatureFormats, EdaFormats, FeaturesEnd
  <2>2. CASE part \notin FeatureFormats
    <3>1. part \in {"eda nets", "eda shapes", "components", "netlist", "matrix"}
      BY <2>2, TheFormats DEF FeatureFormats
    <3> QED
      BY <3>1 DEF AtEnd, EndOf, FeatureFormats, EdaFormats
  <2> QED
    BY <2>1, <2>2
<1> QED
  BY <1>1, ParseTree

MessagesOf(f) == IF f \in EdaFormats THEN EdaMessages ELSE IF f \in FeatureFormats THEN FeaturesMessages ELSE
                 IF f = "netlist" THEN NetlistMessages ELSE IF f = "matrix" THEN MatrixMessages ELSE
                 ComponentsMessages

\* A conversion is a round trip, or it stops at the properties of a feature group.
LEMMA ConvertedTree ==
    ASSUME part \in Formats, IsParse(parse)
    PROVE  /\ IsParse(Converted)
           /\ \/ Converted.tree = RoundTrip(parse.tree, MessagesOf(part), lines)
              \/ /\ Converted.tree = Unserialisable(parse.tree) /\ part \in EdaFormats
                 /\ \E i \in DOMAIN parse.tree.kept :
                       /\ parse.tree.kept[i][1] # 0 /\ parse.tree.kept[i][3] = "PRP"
                       /\ lines[parse.tree.kept[i][1]] = "FGR"
<1> DEFINE r == RoundTrip(parse.tree, MessagesOf(part), lines)
           u == Unserialisable(parse.tree)
           Bad == \E i \in DOMAIN parse.tree.kept :
                     /\ parse.tree.kept[i][1] # 0 /\ parse.tree.kept[i][3] = "PRP"
                     /\ lines[parse.tree.kept[i][1]] = "FGR"
<1>1. CASE part \in EdaFormats
  <2>1. EdaRoundTrip(parse.tree, lines) = IF Bad THEN u ELSE r
    BY <1>1 DEF EdaRoundTrip, MessagesOf
  <2>2. Converted = [parse EXCEPT !.tree = EdaRoundTrip(parse.tree, lines)]
    BY <1>1 DEF Converted, EdaFormats
  <2>3. IsParse(Converted) /\ Converted.tree = EdaRoundTrip(parse.tree, lines)
    BY <2>2, ParseTree
  <2> HIDE DEF r, u, Bad
  <2>4. Converted.tree = r \/ (Converted.tree = u /\ Bad)
    BY <2>1, <2>3
  <2> QED
    BY <1>1, <2>3, <2>4 DEF r, u, Bad
<1>2. CASE part \notin EdaFormats
  <2>1. part \in {"components", "other layer", "features", "feature lines", "symbols", "netlist", "matrix"}
    BY <1>2 DEF EdaFormats, Formats
  <2>2. Converted = [parse EXCEPT !.tree = r]
    BY <2>1 DEF Converted, MessagesOf, EdaFormats, FeatureFormats
  <2> HIDE DEF r
  <2>3. IsParse(Converted) /\ Converted.tree = r
    BY <2>2, ParseTree
  <2> QED
    BY <2>3 DEF r
<1> QED
  BY <1>1, <1>2

LEMMA UnserialisableIs ==
    ASSUME NEW t, IsTree(t)
    PROVE  IsTree(Unserialisable(t)) /\ Unserialisable(t).status = "unserialisable"
<1>1. Unserialisable(t) = [status |-> "unserialisable", cur |-> t.cur, kept |-> t.kept]
  BY DEF Unserialisable, IsTree
<1> QED
  BY <1>1 DEF IsTree

LEMMA ParserInit == Init => ParserInv
<1> SUFFICES ASSUME Init, part \in Formats PROVE IsParse(parse) /\ FileSound(part, lines, parse.tree)
  BY DEF ParserInv
<1> DEFINE g == FeaturesOpen(MaxLines)
<1>1. lines = <<>> /\ parse = [g EXCEPT !.tree = Opened(part)]
  BY DEF Init
<1>2. IsParse(g)
  BY DEF FeaturesOpen, IsParse
<1> HIDE DEF g
<1>3. IsParse(parse) /\ parse.tree = Opened(part)
  BY <1>1, <1>2, ParseTree
<1>4. FileSound(part, <<>>, parse.tree)
  BY <1>3, SoundStart
<1> QED
  BY <1>1, <1>3, <1>4

LEMMA ParserNext == ParserInv /\ [Next]_fileVars => ParserInv'
<1> SUFFICES ASSUME ParserInv, [Next]_fileVars, part \in Formats
             PROVE  IsParse(parse') /\ FileSound(part, lines', parse'.tree)
  BY StepOfPart DEF ParserInv
<1>1. part' = part /\ (FileNext \/ UNCHANGED <<lines, parse>>)
  BY StepOfPart
<1>2. IsParse(parse) /\ FileSound(part, lines, parse.tree)
  BY DEF ParserInv
<1> DEFINE ls == lines
           t == parse.tree
           q == parse'.tree
<1>3. IsTree(t) /\ (t.status = "reading" => part \in ReadFormats)
  BY <1>2 DEF FileSound
<1>4. CASE ReadLine
  <2>1. t.status = "reading"
    BY <1>4 DEF ReadLine
  <2>2. PICK k \in LineKinds[part] : lines' = Append(ls, k) /\ parse' = AfterLine(k, Len(ls) + 1)
    BY <1>4 DEF ReadLine
  <2>3. IsParse(parse') /\ q = LineOf(part, t, k, Len(ls) + 1)
    BY <1>2, <1>3, <2>1, <2>2, AfterLineTree
  <2> HIDE DEF ls, t, q
  <2>4. FileSound(part, ls, t)
    BY <1>2 DEF ls, t
  <2>5. FileSound(part, lines', q)
    BY <2>1, <2>2, <2>3, <2>4, SoundLine
  <2> QED
    BY <2>3, <2>5 DEF q
<1>5. CASE EndOfFile
  <2>1. t.status = "reading" /\ parse' = AtEnd /\ lines' = lines
    BY <1>5 DEF EndOfFile
  <2>2. IsParse(parse') /\ q = EndOf(part, t)
    BY <1>2, <1>3, <2>1, AtEndTree
  <2> HIDE DEF ls, t, q
  <2>3. FileSound(part, ls, t)
    BY <1>2 DEF ls, t
  <2>4. FileSound(part, ls, q)
    BY <2>1, <2>2, <2>3, SoundEnd
  <2> QED
    BY <2>1, <2>2, <2>4 DEF q, ls
<1>6. CASE Convert
  <2>1. parse' = Converted /\ lines' = lines
    BY <1>6 DEF Convert
  <2>2. IsParse(parse') /\ (q = RoundTrip(t, MessagesOf(part), lines) \/ q = Unserialisable(t))
    BY <1>2, <2>1, ConvertedTree
  <2>3. IsTree(q) /\ q.status \in {"unserialisable", "round_trip"}
    <3> HIDE DEF t, q
    <3> QED
      BY <1>3, <2>2, RoundTripIs, UnserialisableIs
  <2> HIDE DEF ls, t, q
  <2>4. FileSound(part, ls, t)
    BY <1>2 DEF ls, t
  <2>5. FileSound(part, ls, q)
    BY <2>3, <2>4, SoundConverted
  <2> QED
    BY <2>1, <2>2, <2>5 DEF q, ls
<1>7. CASE UNCHANGED <<lines, parse>>
  BY <1>2, <1>7
<1> QED
  BY <1>1, <1>4, <1>5, <1>6, <1>7 DEF FileNext

LEMMA SoundIsKept ==
    ASSUME part \in Formats, FileSound(part, lines, parse.tree)
    PROVE  OrderlyKept
<1>1. \A w : Orderly(w) = OrderlyIn(part, w)
  BY DEF Orderly, OrderlyIn, EdaFormats, FeatureFormats
<1>2. Owners = OwnersIn(part)
  BY DEF Owners, OwnersIn, EdaFormats, FeatureFormats
<1>3. lines \in Seq(Token) /\ ReadSoFar(part, lines, parse.tree) /\ Whole(part, lines, parse.tree)
  BY DEF FileSound
<1>4. ASSUME parse.tree.status \in {"parse_error", "crashed"}, NEW closing \in Closings
      PROVE  ~Orderly(lines \o closing)
  <2>1. closing \in Seq(Token)
    BY ClosingsAreTokens
  <2>2. lines \o closing \in Seq(Token) /\ Begins(lines \o closing, lines)
    BY <1>3, <2>1, BeginsClosed
  <2>3. OrderlyIn(part, lines \o closing) => parse.tree.status \notin {"parse_error", "crashed"}
    BY <1>3, <2>2 DEF ReadSoFar
  <2> QED
    BY <1>1, <1>4, <2>3
<1>5. ASSUME parse.tree.status = "accepted", Orderly(lines)
      PROVE  KeptExactly(lines, Owners, RecordLines(lines, Owners), parse.tree.kept)
  <2>1. Tidy(lines, Owners, RecordLines(lines, Owners), parse.tree.kept)
    BY <1>1, <1>2, <1>3, <1>5 DEF Whole
  <2> QED
    BY <2>1, TidyIsExact
<1> QED
  BY <1>4, <1>5 DEF OrderlyKept

\* A matrix whose records are all opened and closed is accepted and gives every
\* step and layer once, each with its own attributes (MatrixFile::Parse), however
\* long it is.
THEOREM OrderlyMatricesAreWhole == Spec => []MatrixWhole
<1>1. ParserInv => MatrixWhole
  BY SoundIsKept DEF ParserInv, MatrixWhole, Ended
<1> QED
  BY <1>1, ParserInit, ParserNext, PTL DEF Spec

\* A file in the order its format prescribes is read without an error to its end,
\* where every record of it is in the model exactly once, under the record that
\* the text puts it under and in the text's order (EdaDataFile::Parse,
\* ComponentsFile::Parse, FeaturesFile::Parse and NetlistFile::Parse), however
\* long the file is.
THEOREM OrderlyFilesAreWhole == Spec => []RecordsWhole
<1>1. ParserInv => RecordsWhole
  BY SoundIsKept DEF ParserInv, RecordsWhole, Ended
<1> QED
  BY <1>1, ParserInit, ParserNext, PTL DEF Spec

-----------------------------------------------------------------------------
(* Serialisation.  Of a tidy file the message takes the lines of a set R that *)
(* agrees with what each vector's message takes and with R above.            *)

\* A line has an owner if a line above it is of a kind that may own it.
LEMMA OwnerSome ==
    ASSUME NEW w, NEW owners, NEW n \in Nat, NEW k \in 1..(n - 1), w[k] \in owners[w[n]]
    PROVE  Owner(w, n, owners) # 0
<1> DEFINE K == owners[w[n]]
           D == {d \in Nat : n - d \in 1..(n - 1) /\ w[n - d] \in K}
<1>1. D # {} /\ D \in SUBSET Nat
  <2>1. n - k \in Nat /\ n - (n - k) = k
    OBVIOUS
  <2>2. n - k \in D
    BY <2>1
  <2> QED
    BY <2>2
<1>2. PICK d \in D : \A e \in D : d <= e
  BY <1>1, LeastNat
<1> DEFINE x == n - d
<1>3. x \in 1..(n - 1) /\ w[x] \in K /\ d \in Nat
  BY <1>2
<1>4. \A j \in (x + 1)..(n - 1) : w[j] \notin K
  <2> SUFFICES ASSUME NEW j \in (x + 1)..(n - 1), w[j] \in K PROVE FALSE
    OBVIOUS
  <2>1. n - j \in Nat /\ n - (n - j) = j /\ j \in 1..(n - 1) /\ n - j < d
    BY <1>3
  <2>2. n - j \in D
    BY <2>1
  <2> QED
    BY <1>2, <1>3, <2>1, <2>2
<1> HIDE DEF x
<1>5. Owner(w, n, owners) = x
  BY <1>3, <1>4, OwnerIs
<1> QED
  BY <1>3, <1>5

\* The vectors that the message of the file, or of the record of a line, takes.
Takes(messages, w, o) == messages[IF o = 0 THEN "FILE" ELSE w[o]]

IsReached(p, messages, w, g) ==
    g = [n \in 0..Len(w) |->
            \/ n = 0
            \/ \E i \in DOMAIN p.kept :
                  /\ p.kept[i][2] = n /\ p.kept[i][1] < n
                  /\ p.kept[i][3] \in Takes(messages, w, p.kept[i][1])
                  /\ g[p.kept[i][1]]]

Reached(p, messages, w) == CHOOSE g : IsReached(p, messages, w, g)

LEMMA WrittenIs ==
    ASSUME NEW p, NEW messages, NEW w
    PROVE  Written(p, messages, w) = {n \in 0..Len(w) : Reached(p, messages, w)[n]}
  BY DEF Written, Reached, IsReached, Takes

\* The equation of Written has one solution.
Solves(kept, messages, w, R) ==
    /\ 0 \in R /\ R \subseteq 0..Len(w)
    /\ \A i \in DOMAIN kept : kept[i][1] \in Nat
    /\ \A n \in 1..Len(w) :
          n \in R <=> \E i \in DOMAIN kept : /\ kept[i][2] = n /\ kept[i][1] < n
                                             /\ kept[i][3] \in Takes(messages, w, kept[i][1])
                                             /\ kept[i][1] \in R

LEMMA WrittenSolves ==
    ASSUME NEW p, NEW messages, NEW w, Len(w) \in Nat, NEW R, Solves(p.kept, messages, w, R)
    PROVE  Written(p, messages, w) = R
<1> DEFINE kept == p.kept
           N == Len(w)
           By(i, n) == /\ kept[i][2] = n /\ kept[i][1] < n
                       /\ kept[i][3] \in Takes(messages, w, kept[i][1])
           g == [n \in 0..N |-> n \in R]
           f == Reached(p, messages, w)
<1>1. /\ 0 \in R /\ R \subseteq 0..N /\ N \in Nat
      /\ \A i \in DOMAIN kept : kept[i][1] \in Nat
      /\ \A n \in 1..N : n \in R <=> \E i \in DOMAIN kept : By(i, n) /\ kept[i][1] \in R
      /\ \A i \in DOMAIN kept : \A n : By(i, n) => kept[i][1] < n
  BY DEF Solves
<1>2. \A h : IsReached(p, messages, w, h) <=>
                h = [n \in 0..N |-> n = 0 \/ \E i \in DOMAIN kept : By(i, n) /\ h[kept[i][1]]]
  BY DEF IsReached
<1>3. f = CHOOSE h : IsReached(p, messages, w, h)
  BY DEF Reached
<1> HIDE DEF kept, N, By, f
<1>4. \A n \in 0..N : \A i \in DOMAIN kept : By(i, n) => kept[i][1] \in 0..N /\ kept[i][1] < n
  BY <1>1
<1>5. IsReached(p, messages, w, g)
  <2>1. \A n \in 0..N : \A i \in DOMAIN kept : By(i, n) => (g[kept[i][1]] <=> kept[i][1] \in R)
    BY <1>4
  <2>2. \A n \in 0..N : (n \in R) <=> (n = 0 \/ \E i \in DOMAIN kept : By(i, n) /\ g[kept[i][1]])
    <3> TAKE n \in 0..N
    <3>1. n = 0 \/ n \in 1..N
      BY <1>1
    <3> HIDE DEF g
    <3> QED
      BY <1>1, <2>1, <3>1
  <2>3. g = [n \in 0..N |-> n = 0 \/ \E i \in DOMAIN kept : By(i, n) /\ g[kept[i][1]]]
    <3> DEFINE e(n) == n = 0 \/ \E i \in DOMAIN kept : By(i, n) /\ g[kept[i][1]]
    <3>1. \A n \in 0..N : (n \in R) = e(n)
      BY <2>2
    <3> HIDE DEF e
    <3>2. [n \in 0..N |-> n \in R] = [n \in 0..N |-> e(n)]
      BY <3>1
    <3> QED
      BY <3>2 DEF e
  <2> QED
    BY <1>2, <2>3
<1>6. IsReached(p, messages, w, f)
  BY <1>3, <1>5
<1>7. \A n \in 0..N : f[n] = (n = 0 \/ \E i \in DOMAIN kept : By(i, n) /\ f[kept[i][1]])
  BY <1>2, <1>6
<1> DEFINE T == {n \in Nat : n <= N => (f[n] <=> n \in R)}
<1>8. ASSUME NEW n \in Nat, \A k \in Nat : k < n => k \in T PROVE n \in T
  <2> SUFFICES ASSUME n <= N PROVE f[n] <=> n \in R
    OBVIOUS
  <2>1. n \in 0..N
    BY <1>1
  <2>2. \A k \in 0..N : k < n => (f[k] <=> k \in R)
    BY <1>1, <1>8
  <2>3. \A i \in DOMAIN kept : By(i, n) => (f[kept[i][1]] <=> kept[i][1] \in R)
    BY <1>4, <2>1, <2>2
  <2>4. n = 0 \/ n \in 1..N
    BY <1>1, <2>1
  <2> HIDE DEF T
  <2>5. f[n] <=> (n = 0 \/ \E i \in DOMAIN kept : By(i, n) /\ kept[i][1] \in R)
    BY <1>7, <2>1, <2>3
  <2> QED
    BY <1>1, <2>4, <2>5
<1> HIDE DEF T
<1>9. \A n \in Nat : n \in T
  <2>1. T \in SUBSET Nat
    BY DEF T
  <2> QED
    BY <1>8, <2>1, NatStrongInd
<1>10. \A n \in 0..N : f[n] <=> n \in R
  BY <1>1, <1>9 DEF T
<1>11. Written(p, messages, w) = {n \in 0..N : f[n]}
  BY WrittenIs DEF f, N
<1> QED
  BY <1>1, <1>10, <1>11

\* What is selected of a tidy vector is tidy.
LEMMA TidySelect ==
    ASSUME NEW w, NEW owners, NEW shown, NEW kept, Tidy(w, owners, shown, kept), NEW R, R \subseteq shown
    PROVE  Tidy(w, owners, R, SelectAt(kept, {i \in DOMAIN kept : kept[i][2] \in R}))
<1> DEFINE at == {i \in DOMAIN kept : kept[i][2] \in R}
           r == SelectAt(kept, at)
           N == Len(kept)
           L == Len(r)
<1>1. PICK X : kept \in Seq(X)
  BY DEF Tidy
<1>2. /\ \A i \in DOMAIN kept : /\ kept[i][2] \in shown
                                /\ kept[i][1] = Owner(w, kept[i][2], owners)
                                /\ kept[i][3] = Vector(w[kept[i][2]])
      /\ \A n \in shown : \E i \in DOMAIN kept : kept[i][2] = n
      /\ \A i, j \in DOMAIN kept : kept[i][2] = kept[j][2] => i = j
      /\ \A i, j \in DOMAIN kept : i < j /\ kept[i][1] = kept[j][1] /\ kept[i][3] = kept[j][3]
                                      => kept[i][2] < kept[j][2]
  BY DEF Tidy
<1>3. r \in Seq(X) /\ \E h : Places(kept, at, N, r, h)
  BY <1>1, SelPlaces
<1>4. PICK h : Places(kept, at, N, r, h)
  BY <1>3
<1>5. DOMAIN kept = 1..N /\ N \in Nat /\ \A i : i \in at <=> i \in 1..N /\ kept[i][2] \in R
  BY <1>1
<1>6. DOMAIN r = 1..L /\ L \in Nat
  BY <1>3
<1> HIDE DEF at, r
<1>7. /\ \A j \in 1..L : h[j] \in 1..N /\ h[j] \in at /\ r[j] = kept[h[j]]
      /\ \A j, k \in 1..L : j < k => h[j] < h[k]
      /\ \A i \in 1..N : i \in at => \E j \in 1..L : h[j] = i
  BY <1>4 DEF Places
<1> HIDE DEF N, L
<1>8. \A i \in DOMAIN r : /\ r[i][2] \in R
                          /\ r[i][1] = Owner(w, r[i][2], owners)
                          /\ r[i][3] = Vector(w[r[i][2]])
  BY <1>2, <1>5, <1>6, <1>7
<1>9. ASSUME NEW n \in R PROVE \E i \in DOMAIN r : r[i][2] = n
  <2>1. PICK i \in 1..N : kept[i][2] = n
    BY <1>2, <1>5
  <2>2. PICK j \in 1..L : h[j] = i
    BY <1>5, <1>7, <2>1
  <2> QED
    BY <1>6, <1>7, <2>1, <2>2
<1>10. ASSUME NEW i \in DOMAIN r, NEW j \in DOMAIN r, r[i][2] = r[j][2] PROVE i = j
  <2>1. i \in 1..L /\ j \in 1..L /\ i \in Nat /\ j \in Nat
    BY <1>6
  <2>2. h[i] = h[j] /\ h[i] \in Nat /\ h[j] \in Nat
    BY <1>2, <1>5, <1>7, <1>10, <2>1
  <2>3. ~(i < j) /\ ~(j < i)
    BY <1>7, <2>1, <2>2
  <2> QED
    BY <2>1, <2>3
<1>11. ASSUME NEW i \in DOMAIN r, NEW j \in DOMAIN r, i < j, r[i][1] = r[j][1], r[i][3] = r[j][3]
       PROVE  r[i][2] < r[j][2]
  <2>1. h[i] < h[j] /\ h[i] \in 1..N /\ h[j] \in 1..N /\ r[i] = kept[h[i]] /\ r[j] = kept[h[j]]
    BY <1>6, <1>7, <1>11
  <2> QED
    BY <1>2, <1>5, <1>11, <2>1
<1>12. Tidy(w, owners, R, r)
  BY <1>3, <1>8, <1>9, <1>10, <1>11 DEF Tidy
<1> QED
  BY <1>12 DEF r, at

\* The lines that the message of a tidy file takes: R has a line if its vector
\* is written and its owner is in R or is the file.
Sent(w, owners, messages, R) ==
    /\ R \subseteq RecordLines(w, owners)
    /\ \A n \in RecordLines(w, owners) :
          n \in R <=> /\ Vector(w[n]) \in Takes(messages, w, Owner(w, n, owners))
                      /\ Owner(w, n, owners) # 0 => Owner(w, n, owners) \in R

LEMMA TidyWritten ==
    ASSUME NEW w \in Seq(Token), NEW owners, NEW messages, NEW p,
           Tidy(w, owners, RecordLines(w, owners), p.kept), NEW R, Sent(w, owners, messages, R)
    PROVE  Written(p, messages, w) = R \union {0}
<1> DEFINE kept == p.kept
           N == Len(w)
           all == RecordLines(w, owners)
           S == R \union {0}
<1>1. /\ \A i \in DOMAIN kept : /\ kept[i][2] \in all
                                /\ kept[i][1] = Owner(w, kept[i][2], owners)
                                /\ kept[i][3] = Vector(w[kept[i][2]])
      /\ \A n \in all : \E i \in DOMAIN kept : kept[i][2] = n
  BY DEF Tidy
<1>2. /\ R \subseteq all
      /\ \A n \in all : n \in R <=> /\ Vector(w[n]) \in Takes(messages, w, Owner(w, n, owners))
                                    /\ Owner(w, n, owners) # 0 => Owner(w, n, owners) \in R
  BY DEF Sent
<1>3. N \in Nat /\ all \subseteq 1..N
  BY DEF RecordLines
<1>4. \A n \in all : /\ Owner(w, n, owners) \in Nat /\ Owner(w, n, owners) < n
  <2> TAKE n \in all
  <2>1. n \in Nat /\ n > 0
    BY <1>3
  <2>2. Owner(w, n, owners) # 0 => Owner(w, n, owners) \in 1..(n - 1)
    BY <2>1, OwnerLast
  <2> QED
    BY <2>1, <2>2
<1> HIDE DEF kept, N, all, S
<1>5. \A n \in all : Owner(w, n, owners) \in S <=> (Owner(w, n, owners) # 0 => Owner(w, n, owners) \in R)
  BY DEF S
<1>6. ASSUME NEW n \in 1..N
      PROVE  n \in S <=> \E i \in DOMAIN kept : /\ kept[i][2] = n /\ kept[i][1] < n
                                                /\ kept[i][3] \in Takes(messages, w, kept[i][1])
                                                /\ kept[i][1] \in S
  <2>1. n \in S <=> n \in R
    BY <1>3 DEF S
  <2>2. ASSUME n \in R
        PROVE  \E i \in DOMAIN kept : /\ kept[i][2] = n /\ kept[i][1] < n
                                      /\ kept[i][3] \in Takes(messages, w, kept[i][1])
                                      /\ kept[i][1] \in S
    <3>1. n \in all
      BY <1>2, <2>2
    <3>2. PICK i \in DOMAIN kept : kept[i][2] = n
      BY <1>1, <3>1
    <3> QED
      BY <1>1, <1>2, <1>4, <1>5, <2>2, <3>1, <3>2
  <2>3. ASSUME NEW i \in DOMAIN kept, kept[i][2] = n,
               kept[i][3] \in Takes(messages, w, kept[i][1]), kept[i][1] \in S
        PROVE  n \in R
    BY <1>1, <1>2, <1>5, <2>3
  <2> QED
    BY <2>1, <2>2, <2>3
<1>7. \A i \in DOMAIN kept : kept[i][1] \in Nat
  BY <1>1, <1>4
<1>8. 0 \in S /\ S \subseteq 0..N
  BY <1>2, <1>3 DEF S
<1>9. Solves(p.kept, messages, w, S)
  BY <1>6, <1>7, <1>8 DEF Solves, kept, N
<1>10. Len(w) \in Nat
  OBVIOUS
<1>11. Written(p, messages, w) = S
  BY <1>9, <1>10, WrittenSolves
<1> QED
  BY <1>11 DEF S

\* The message of a tidy file gives the lines of R back, each in its vector.
LEMMA TidyRoundTrip ==
    ASSUME NEW w \in Seq(Token), NEW owners, NEW messages, NEW p, IsTree(p),
           Tidy(w, owners, RecordLines(w, owners), p.kept), NEW R, Sent(w, owners, messages, R),
           NEW q, q = RoundTrip(p, messages, w)
    PROVE  q.status = "round_trip" /\ Tidy(w, owners, R, q.kept)
<1> DEFINE kept == p.kept
           all == RecordLines(w, owners)
           S == Written(p, messages, w)
           in(i) == kept[i][1] \in S /\ kept[i][3] \in messages[IF kept[i][1] = 0 THEN "FILE" ELSE w[kept[i][1]]]
           at == {i \in DOMAIN kept : in(i)}
           k2 == SelectAt(kept, at)
           good == [p EXCEPT !.status = "round_trip", !.kept = k2]
<1>1. \A i \in DOMAIN kept : /\ kept[i][2] \in all
                             /\ kept[i][1] = Owner(w, kept[i][2], owners)
                             /\ kept[i][3] = Vector(w[kept[i][2]])
  BY DEF Tidy
<1>2. /\ R \subseteq all
      /\ \A n \in all : n \in R <=> /\ Vector(w[n]) \in Takes(messages, w, Owner(w, n, owners))
                                    /\ Owner(w, n, owners) # 0 => Owner(w, n, owners) \in R
  BY DEF Sent
<1>3. S = R \union {0}
  BY TidyWritten
<1>4. 0 \notin all
  BY DEF RecordLines
<1>5. q = IF \E i \in DOMAIN kept : in(i) /\ kept[i][2] = 0 THEN Unserialisable(p) ELSE good
  BY DEF RoundTrip
<1>6. \A i \in DOMAIN kept : in(i) <=> kept[i][1] \in S /\ kept[i][3] \in Takes(messages, w, kept[i][1])
  BY DEF Takes
<1> HIDE DEF kept, all, S, in, good
<1>7. q = good
  BY <1>1, <1>4, <1>5
<1>8. \A i \in DOMAIN kept : in(i) <=> kept[i][2] \in R
  BY <1>1, <1>2, <1>3, <1>6
<1>9. at = {i \in DOMAIN kept : kept[i][2] \in R}
  BY <1>8
<1>10. Tidy(w, owners, R, SelectAt(kept, {i \in DOMAIN kept : kept[i][2] \in R}))
  BY <1>2, TidySelect DEF kept, all
<1> HIDE DEF k2
<1>11. good = [p EXCEPT !.status = "round_trip", !.kept = k2]
  BY DEF good
<1>12. q.status = "round_trip" /\ q.kept = k2
  <2> DEFINE a == p.status
             b == p.cur
             c == p.kept
  <2>1. p = [status |-> a, cur |-> b, kept |-> c]
    BY DEF IsTree
  <2> HIDE DEF a, b, c
  <2>2. good = [status |-> "round_trip", cur |-> b, kept |-> k2]
    BY ONLY <2>1, <1>11
  <2> QED
    BY ONLY <2>2, <1>7
<1> QED
  BY <1>9, <1>10, <1>12 DEF k2

-----------------------------------------------------------------------------
(* What each format's messages take.                                          *)

\* The lines of a bracket stand below the line that opens it.
LEMMA BracketOpened ==
    ASSUME NEW w, NEW N \in Nat, NEW E, NEW K,
           \A n \in 1..N : w[n] \in E => n # 1 /\ (w[n - 1] \in K \/ w[n - 1] \in E)
    PROVE  \A n \in 1..N : w[n] \in E => \E m \in 1..(n - 1) : w[m] \in K
<1> DEFINE Opens(n) == \E m \in 1..(n - 1) : w[m] \in K
           T == {n \in Nat : n \in 1..N /\ w[n] \in E => Opens(n)}
<1>1. T \in SUBSET Nat /\ 0 \in T
  OBVIOUS
<1>2. ASSUME NEW n \in T PROVE n + 1 \in T
  <2> SUFFICES ASSUME n + 1 \in 1..N, w[n + 1] \in E PROVE Opens(n + 1)
    OBVIOUS
  <2>1. n \in Nat /\ n + 1 \in Nat /\ (n + 1) - 1 = n
    OBVIOUS
  <2>2. n \in 1..N /\ (w[n] \in K \/ w[n] \in E)
    BY <2>1
  <2>3. CASE w[n] \in K
    BY <2>1, <2>2, <2>3
  <2>4. CASE w[n] \in E
    <3>1. PICK m \in 1..(n - 1) : w[m] \in K
      BY <2>2, <2>4
    <3>2. m \in 1..n
      BY <3>1
    <3> QED
      BY <2>1, <3>1, <3>2
  <2> QED
    BY <2>2, <2>3, <2>4
<1> HIDE DEF T
<1>3. \A n \in Nat : n \in T
  BY <1>1, <1>2, NatInd
<1> QED
  BY <1>3 DEF T

LEMMA EdaTakes ==
    /\ \A w : Takes(EdaMessages, w, 0) = {"NET", "PKG", "PRP", "FGR"}
    /\ \A w, o : o # 0 /\ w[o] = "NET" => Takes(EdaMessages, w, o) = {"PRP", "SNT"}
    /\ \A w, o : o # 0 /\ w[o] = "SNT" => Takes(EdaMessages, w, o) = {"FID"}
    /\ \A w, o : o # 0 /\ w[o] = "FGR" => Takes(EdaMessages, w, o) = {"FID"}
    /\ \A w, o : o # 0 /\ w[o] = "PKG" => Takes(EdaMessages, w, o) = {"PIN", "PRP", "RC"}
    /\ \A w, o : o # 0 /\ w[o] = "PIN" => Takes(EdaMessages, w, o) = {}
    /\ \A w, o : o # 0 /\ w[o] = "CT" => Takes(EdaMessages, w, o) = {"OB"}
    /\ \A w, o : o # 0 /\ w[o] = "OB" => Takes(EdaMessages, w, o) = {"OS"}
<1>1. /\ EdaMessages["FILE"] = {"NET", "PKG", "PRP", "FGR"} /\ EdaMessages["NET"] = {"PRP", "SNT"}
      /\ EdaMessages["SNT"] = {"FID"} /\ EdaMessages["FGR"] = {"FID"}
      /\ EdaMessages["PKG"] = {"PIN", "PRP", "RC"} /\ EdaMessages["PIN"] = {}
      /\ EdaMessages["CT"] = {"OB"} /\ EdaMessages["OB"] = {"OS"}
  BY DEF EdaMessages, EdaFileMessage, NetMessage, SubnetMessage, GroupMessage, PackageMessage,
         PinMessage, OutlineMessage, PolygonMessage
<1> QED
  BY <1>1 DEF Takes

\* OfPinOutline of any file.
OfPin(w, n) ==
    LET owner(m) == Owner(w, m, EdaOwners)
        outline == CASE w[n] \in {"RC", "CT"} -> n
                     [] w[n] = "OB" -> owner(n)
                     [] w[n] = "OS" -> owner(owner(n))
                     [] OTHER -> 0
    IN  outline # 0 /\ w[owner(outline)] = "PIN"

LEMMA OfPinIs ==
    ASSUME NEW w, NEW n, n # 0
    PROVE  /\ w[n] \in {"RC", "CT"} => (OfPin(w, n) <=> w[Owner(w, n, EdaOwners)] = "PIN")
           /\ w[n] = "OB" => LET o == Owner(w, n, EdaOwners)
                             IN  OfPin(w, n) <=> o # 0 /\ w[Owner(w, o, EdaOwners)] = "PIN"
           /\ w[n] = "OS" => LET o == Owner(w, Owner(w, n, EdaOwners), EdaOwners)
                             IN  OfPin(w, n) <=> o # 0 /\ w[Owner(w, o, EdaOwners)] = "PIN"
           /\ w[n] \notin {"RC", "CT", "OB", "OS"} => ~OfPin(w, n)
<1> DEFINE o == Owner(w, n, EdaOwners)
           oo == Owner(w, o, EdaOwners)
           c == CASE w[n] \in {"RC", "CT"} -> n [] w[n] = "OB" -> o [] w[n] = "OS" -> oo [] OTHER -> 0
<1>1. OfPin(w, n) <=> c # 0 /\ w[Owner(w, c, EdaOwners)] = "PIN"
  BY DEF OfPin
<1> HIDE DEF o, oo
<1>2. /\ w[n] \in {"RC", "CT"} => c = n
      /\ w[n] = "OB" => c = o
      /\ w[n] = "OS" => c = oo
      /\ w[n] \notin {"RC", "CT", "OB", "OS"} => c = 0
  OBVIOUS
<1> HIDE DEF c
<1> QED
  BY <1>1, <1>2 DEF o, oo

LEMMA EdaPolygonsOwned ==
    ASSUME NEW w, EdaRule(w), Len(w) \in Nat, NEW n \in 1..Len(w), w[n] \in {"OB", "OS"}
    PROVE  Owner(w, n, EdaOwners) # 0
<1> DEFINE E == {"OB", "OS", "OE"}
           N == Len(w)
<1>1. \A m \in 1..N :
        /\ m < N =>
              /\ w[m] \in {"CT", "OE"} => w[m + 1] \in {"OB", "CE"}
              /\ w[m] \in {"OB", "OS"} => w[m + 1] \in {"OS", "OE"}
              /\ w[m] \notin EdaBrackets => w[m + 1] \notin {"OB", "OS", "OE", "CE"}
        /\ m = 1 => w[m] \notin {"OB", "OS", "OE", "CE"}
  BY DEF EdaRule, EdaBracketed
<1> HIDE DEF N
<1>2. N \in Nat /\ n \in 1..N /\ n \in Nat
  BY DEF N
<1>3. ASSUME NEW m \in 1..N, w[m] \in E
      PROVE  /\ m # 1 /\ (w[m - 1] \in {"CT"} \/ w[m - 1] \in E)
             /\ w[m] \in {"OS"} => w[m - 1] \in {"OB"} \/ w[m - 1] \in {"OS"}
  <2>1. m # 1
    BY <1>1, <1>3
  <2>2. m - 1 \in 1..N /\ m - 1 < N /\ (m - 1) + 1 = m
    BY <1>2, <2>1
  <2>3. /\ w[m - 1] \in {"CT", "OE"} => w[m] \in {"OB", "CE"}
        /\ w[m - 1] \notin EdaBrackets => w[m] \notin {"OB", "OS", "OE", "CE"}
    BY <1>1, <2>2
  <2> QED
    BY <1>3, <2>1, <2>3 DEF EdaBrackets
<1>4. CASE w[n] = "OB"
  <2> HIDE DEF E
  <2>1. \A m \in 1..N : w[m] \in E => \E k \in 1..(m - 1) : w[k] \in {"CT"}
    BY <1>2, <1>3, BracketOpened
  <2>2. PICK k \in 1..(n - 1) : w[k] \in {"CT"}
    BY <1>2, <1>4, <2>1 DEF E
  <2>3. w[k] \in EdaOwners[w[n]]
    BY <1>4, <2>2, EdaOwnersAre
  <2> QED
    BY <1>2, <2>2, <2>3, OwnerSome
<1>5. CASE w[n] = "OS"
  <2>0. \A m \in 1..N : w[m] \in {"OS"} => m # 1 /\ (w[m - 1] \in {"OB"} \/ w[m - 1] \in {"OS"})
    BY <1>3
  <2>1. \A m \in 1..N : w[m] \in {"OS"} => \E k \in 1..(m - 1) : w[k] \in {"OB"}
    <3> DEFINE F == {"OS"}
               K == {"OB"}
    <3>1. \A m \in 1..N : w[m] \in F => m # 1 /\ (w[m - 1] \in K \/ w[m - 1] \in F)
      BY <2>0
    <3> HIDE DEF F, K
    <3>2. \A m \in 1..N : w[m] \in F => \E k \in 1..(m - 1) : w[k] \in K
      BY <1>2, <3>1, BracketOpened
    <3> QED
      BY <3>2 DEF F, K
  <2>2. PICK k \in 1..(n - 1) : w[k] \in {"OB"}
    BY <1>2, <1>5, <2>1
  <2>3. w[k] \in EdaOwners[w[n]]
    BY <1>5, <2>2, EdaOwnersAre
  <2> QED
    BY <1>2, <2>2, <2>3, OwnerSome
<1> QED
  BY <1>4, <1>5

\* The owner of a record of an orderly eda file, by the record's kind.
LEMMA EdaOwnerOf ==
    ASSUME NEW w, EdaRule(w), Len(w) \in Nat, NEW n \in 1..Len(w), w[n] \in DOMAIN EdaOwners,
           NEW o, o = Owner(w, n, EdaOwners)
    PROVE  /\ w[n] \in {"NET", "PKG", "FGR"} => o = 0
           /\ o # 0 => o \in 1..Len(w) /\ w[o] \in EdaOwners[w[n]] /\ w[o] \in DOMAIN EdaOwners
           /\ w[n] \notin {"NET", "PKG", "FGR", "PRP"} => o # 0
<1>1. n \in Nat /\ 1..(n - 1) \subseteq 1..Len(w)
  OBVIOUS
<1>2. o # 0 => o \in 1..(n - 1) /\ w[o] \in EdaOwners[w[n]]
  BY <1>1, OwnerLast
<1>3. o # 0 => w[o] \in DOMAIN EdaOwners
  BY <1>2, EdaOwnersAre DEF EdaTops
<1>4. w[n] \in {"NET", "PKG", "FGR"} => o = 0
  BY <1>2, EdaOwnersAre
<1>5. w[n] \in {"SNT", "PIN", "RC", "CT", "FID"} => o # 0
  BY DEF EdaRule, EdaOwned
<1>6. w[n] \in {"OB", "OS"} => o # 0
  BY EdaPolygonsOwned
<1> QED
  BY <1>1, <1>2, <1>3, <1>4, <1>5, <1>6, EdaOwnersAre

\* The message of an orderly eda file without properties of feature groups takes
\* all but the outlines of pins and what is in them.
LEMMA EdaSent ==
    ASSUME NEW w \in Seq(Token), EdaRule(w),
           \A n \in 1..Len(w) : w[n] = "PRP" /\ Owner(w, n, EdaOwners) # 0
                                  => w[Owner(w, n, EdaOwners)] # "FGR"
    PROVE  Sent(w, EdaOwners, EdaMessages, {n \in RecordLines(w, EdaOwners) : ~OfPin(w, n)})
<1> DEFINE all == RecordLines(w, EdaOwners)
           R == {n \in all : ~OfPin(w, n)}
<1>1. /\ Len(w) \in Nat
      /\ \A n : n \in all <=> n \in 1..Len(w) /\ w[n] \in DOMAIN EdaOwners
  BY DEF RecordLines
<1>2. \A n : n \in R <=> n \in all /\ ~OfPin(w, n)
  OBVIOUS
<1> HIDE DEF all, R
<1>3. ASSUME NEW n \in all
      PROVE  n \in R <=> /\ Vector(w[n]) \in Takes(EdaMessages, w, Owner(w, n, EdaOwners))
                         /\ Owner(w, n, EdaOwners) # 0 => Owner(w, n, EdaOwners) \in R
  <2> DEFINE o == Owner(w, n, EdaOwners)
             oo == Owner(w, o, EdaOwners)
             v == Vector(w[n])
             M == Takes(EdaMessages, w, o)
             G == v \in M /\ (o # 0 => o \in R)
  <2>1. /\ n \in 1..Len(w) /\ n # 0 /\ w[n] \in DOMAIN EdaOwners
        /\ w[n] \in {"PRP", "NET", "SNT", "FID", "PKG", "PIN", "FGR", "RC", "CT", "OB", "OS"}
    BY <1>1, EdaOwnersAre
  <2>2. /\ w[n] \in {"NET", "PKG", "FGR"} => o = 0
        /\ o # 0 => o \in 1..Len(w) /\ w[o] \in EdaOwners[w[n]] /\ w[o] \in DOMAIN EdaOwners
        /\ w[n] \notin {"NET", "PKG", "FGR", "PRP"} => o # 0
    BY <1>1, <2>1, EdaOwnerOf
  <2>3. /\ w[n] \in {"RC", "CT"} => (OfPin(w, n) <=> w[o] = "PIN")
        /\ w[n] = "OB" => (OfPin(w, n) <=> o # 0 /\ w[oo] = "PIN")
        /\ w[n] = "OS" => (OfPin(w, n) <=> oo # 0 /\ w[Owner(w, oo, EdaOwners)] = "PIN")
        /\ w[n] \notin {"RC", "CT", "OB", "OS"} => ~OfPin(w, n)
    BY <2>1, OfPinIs
  <2>4. o # 0 => /\ w[o] \in {"RC", "CT"} => (OfPin(w, o) <=> w[oo] = "PIN")
                 /\ w[o] = "OB" => (OfPin(w, o) <=> oo # 0 /\ w[Owner(w, oo, EdaOwners)] = "PIN")
                 /\ w[o] \notin {"RC", "CT", "OB", "OS"} => ~OfPin(w, o)
    BY OfPinIs
  <2>5. o # 0 => o \in all
    BY <1>1, <2>2
  <2>6. w[n] = "PRP" /\ o # 0 => w[o] # "FGR"
    BY <2>1
  <2>7. n \in R <=> ~OfPin(w, n)
    BY <1>2
  <2>8. o # 0 => (o \in R <=> ~OfPin(w, o))
    BY <1>2, <2>5
  <2>9. /\ w[n] \notin {"RC", "CT"} => v = w[n]
        /\ w[n] \in {"RC", "CT"} => v = "RC"
    BY <2>1, VectorsAre
  <2> HIDE DEF o, oo, v, M
  <2>10. CASE o = 0
    <3>1. M = {"NET", "PKG", "PRP", "FGR"}
      BY <2>10, EdaTakes DEF M
    <3>2. w[n] \in {"NET", "PKG", "FGR", "PRP"}
      BY <2>2, <2>10
    <3> QED
      BY <2>3, <2>7, <2>9, <2>10, <3>1, <3>2 DEF o, v, M
  <2>11. CASE o # 0
    <3>1. w[o] \in EdaOwners[w[n]] /\ w[n] \notin {"NET", "PKG", "FGR"}
      BY <2>2, <2>11
    <3>2. /\ w[o] = "NET" => M = {"PRP", "SNT"}
          /\ w[o] = "SNT" => M = {"FID"}
          /\ w[o] = "FGR" => M = {"FID"}
          /\ w[o] = "PKG" => M = {"PIN", "PRP", "RC"}
          /\ w[o] = "PIN" => M = {}
          /\ w[o] = "CT" => M = {"OB"}
          /\ w[o] = "OB" => M = {"OS"}
      BY <2>11, EdaTakes DEF M
    <3>3. CASE w[n] \in {"PRP", "SNT", "FID", "PIN"}
      <4>1. w[o] \in {"NET", "PKG", "SNT", "FGR"}
        BY <3>1, <3>3, EdaOwnersAre DEF EdaTops
      <4>2. w[n] \in M
        BY <2>6, <2>11, <3>1, <3>2, <3>3, EdaOwnersAre DEF EdaTops
      <4>3. ~OfPin(w, o) /\ ~OfPin(w, n)
        BY <2>3, <2>4, <2>11, <3>3, <4>1
      <4>4. v = w[n]
        BY <2>9, <3>3
      <4> QED
        BY <2>7, <2>8, <2>11, <4>2, <4>3, <4>4 DEF o, v, M
    <3>4. CASE w[n] \in {"RC", "CT"}
      <4>1. w[o] \in {"PKG", "PIN"}
        BY <3>1, <3>4, EdaOwnersAre
      <4>2. ~OfPin(w, o)
        BY <2>4, <2>11, <4>1
      <4>3. v = "RC"
        BY <2>9, <3>4
      <4>4. v \in M <=> w[o] # "PIN"
        BY <3>2, <4>1, <4>3
      <4>5. OfPin(w, n) <=> w[o] = "PIN"
        BY <2>3, <3>4
      <4> QED
        BY <2>7, <2>8, <2>11, <4>2, <4>4, <4>5 DEF o, v, M
    <3>5. CASE w[n] = "OB"
      <4>1. w[o] = "CT"
        BY <3>1, <3>5, EdaOwnersAre
      <4>2. v \in M
        BY <2>9, <3>2, <3>5, <4>1
      <4>3. OfPin(w, n) <=> OfPin(w, o)
        BY <2>3, <2>4, <2>11, <3>5, <4>1
      <4> QED
        BY <2>7, <2>8, <2>11, <4>2, <4>3 DEF o, v, M
    <3>6. CASE w[n] = "OS"
      <4>1. w[o] = "OB"
        BY <3>1, <3>6, EdaOwnersAre
      <4>2. v \in M
        BY <2>9, <3>2, <3>6, <4>1
      <4>3. OfPin(w, n) <=> OfPin(w, o)
        BY <2>3, <2>4, <2>11, <3>6, <4>1
      <4> QED
        BY <2>7, <2>8, <2>11, <4>2, <4>3 DEF o, v, M
    <3> QED
      BY <2>1, <3>1, <3>3, <3>4, <3>5, <3>6
  <2> QED
    BY <2>10, <2>11
<1>4. Sent(w, EdaOwners, EdaMessages, R)
  BY <1>2, <1>3 DEF Sent, all
<1> QED
  BY <1>4 DEF R, all

LEMMA FeaturesPolygonsOwned ==
    ASSUME NEW w \in Seq(Token), FeaturesOrderly(w), NEW n \in 1..Len(w), w[n] \in {"OB", "OS"}
    PROVE  Owner(w, n, FeaturesOwners) # 0
<1> DEFINE E == {"OB", "OS", "OE"}
           N == Len(w)
<1>1. \A m \in 1..N : FeaturesRule(w, m)
  BY FeaturesOrder
<1>2. N \in Nat /\ n \in 1..N /\ n \in Nat
  OBVIOUS
<1>3. ASSUME NEW m \in 1..N, w[m] \in E
      PROVE  /\ m # 1 /\ (w[m - 1] \in {"S"} \/ w[m - 1] \in E)
             /\ w[m] \in {"OS"} => w[m - 1] \in {"OB"} \/ w[m - 1] \in {"OS"}
  <2>1. m # 1
    BY <1>1, <1>3 DEF FeaturesRule
  <2>2. m - 1 \in 1..N /\ m - 1 < N /\ (m - 1) + 1 = m
    BY <1>2, <2>1
  <2>3. FeaturesRule(w, m - 1)
    BY <1>1, <2>2
  <2>4. /\ w[m - 1] \in {"S", "OE"} => w[m] \in {"OB", "SE"}
        /\ w[m - 1] \notin {"S", "OE", "OB", "OS"} => w[m] \notin {"OB", "OS", "OE", "SE"}
    BY <2>2, <2>3 DEF FeaturesRule
  <2> QED
    BY <1>3, <2>1, <2>4
<1> HIDE DEF N
<1>4. CASE w[n] = "OB"
  <2> HIDE DEF E
  <2>1. \A m \in 1..N : w[m] \in E => \E k \in 1..(m - 1) : w[k] \in {"S"}
    BY <1>2, <1>3, BracketOpened
  <2>2. PICK k \in 1..(n - 1) : w[k] \in {"S"}
    BY <1>2, <1>4, <2>1 DEF E
  <2>3. w[k] \in FeaturesOwners[w[n]]
    BY <1>4, <2>2, FeaturesOwnersAre
  <2> QED
    BY <1>2, <2>2, <2>3, OwnerSome
<1>5. CASE w[n] = "OS"
  <2> DEFINE F == {"OS"}
             K == {"OB"}
  <2>1. \A m \in 1..N : w[m] \in F => m # 1 /\ (w[m - 1] \in K \/ w[m - 1] \in F)
    BY <1>3
  <2> HIDE DEF F, K
  <2>2. \A m \in 1..N : w[m] \in F => \E k \in 1..(m - 1) : w[k] \in K
    BY <1>2, <2>1, BracketOpened
  <2>3. PICK k \in 1..(n - 1) : w[k] \in {"OB"}
    BY <1>2, <1>5, <2>2 DEF F, K
  <2>4. w[k] \in FeaturesOwners[w[n]]
    BY <1>5, <2>3, FeaturesOwnersAre
  <2> QED
    BY <1>2, <2>3, <2>4, OwnerSome
<1> QED
  BY <1>4, <1>5

\* A message takes every line of a file if every vector of the file, and of each
\* record that owns another, is written.
AllTaken(w, owners, messages) ==
    \A n \in RecordLines(w, owners) :
       /\ Vector(w[n]) \in Takes(messages, w, Owner(w, n, owners))
       /\ Owner(w, n, owners) # 0 => w[Owner(w, n, owners)] \in DOMAIN owners

LEMMA AllSent ==
    ASSUME NEW w \in Seq(Token), NEW owners, NEW messages, AllTaken(w, owners, messages)
    PROVE  Sent(w, owners, messages, RecordLines(w, owners))
<1> DEFINE all == RecordLines(w, owners)
<1>1. \A n : n \in all <=> n \in 1..Len(w) /\ w[n] \in DOMAIN owners
  BY DEF RecordLines
<1>2. /\ \A n \in all : Vector(w[n]) \in Takes(messages, w, Owner(w, n, owners))
      /\ \A n \in all : Owner(w, n, owners) # 0 => w[Owner(w, n, owners)] \in DOMAIN owners
  BY DEF AllTaken
<1> HIDE DEF all
<1>3. ASSUME NEW n \in all, Owner(w, n, owners) # 0 PROVE Owner(w, n, owners) \in all
  <2>1. n \in 1..Len(w) /\ n \in Nat /\ Len(w) \in Nat
    BY <1>1
  <2>2. Owner(w, n, owners) \in 1..(n - 1)
    BY <1>3, <2>1, OwnerLast
  <2> HIDE DEF all
  <2>3. Owner(w, n, owners) \in 1..Len(w)
    BY <2>1, <2>2
  <2> QED
    BY <1>1, <1>2, <1>3, <2>3
<1>4. Sent(w, owners, messages, all)
  BY <1>2, <1>3 DEF Sent, all
<1> QED
  BY <1>4 DEF all

LEMMA FeaturesTaken ==
    ASSUME NEW w \in Seq(Token), FeaturesOrderly(w)
    PROVE  AllTaken(w, FeaturesOwners, FeaturesMessages)
<1>1. /\ \A u : Takes(FeaturesMessages, u, 0) = {"L", "S"} \union SymbolKinds
      /\ \A u, o : o # 0 /\ u[o] = "S" => Takes(FeaturesMessages, u, o) = {"OB"}
      /\ \A u, o : o # 0 /\ u[o] = "OB" => Takes(FeaturesMessages, u, o) = {"OS"}
  <2>1. /\ FeaturesMessages["FILE"] = {"L", "S"} \union SymbolKinds
        /\ FeaturesMessages["S"] = {"OB"} /\ FeaturesMessages["OB"] = {"OS"}
    BY DEF FeaturesMessages, FeaturesFileMessage, FeatureMessage, SurfacePolygonMessage
  <2> QED
    BY <2>1 DEF Takes
<1>2. /\ Vector("S") = "S" /\ Vector("OB") = "OB" /\ Vector("OS") = "OS"
      /\ \A k \in FeatureAtOnceKinds : Vector(k) \in {"L", "S"} \union SymbolKinds
  <2>1. \A k \in FeatureLineKinds : Vector(k) = "L"
    BY DEF Vector, FeatureLineKinds
  <2>2. \A k \in SymbolKinds : Vector(k) = k
    BY DEF Vector, SymbolKinds, FeatureLineKinds
  <2>3. Vector("S") = "S" /\ Vector("OB") = "OB" /\ Vector("OS") = "OS"
    BY VectorsAre DEF Vector, FeatureLineKinds
  <2> QED
    BY <2>1, <2>2, <2>3 DEF FeatureAtOnceKinds
<1>3. ASSUME NEW n \in RecordLines(w, FeaturesOwners)
      PROVE  /\ Vector(w[n]) \in Takes(FeaturesMessages, w, Owner(w, n, FeaturesOwners))
             /\ Owner(w, n, FeaturesOwners) # 0 => w[Owner(w, n, FeaturesOwners)] \in DOMAIN FeaturesOwners
  <2> DEFINE o == Owner(w, n, FeaturesOwners)
             M == Takes(FeaturesMessages, w, o)
             v == Vector(w[n])
  <2>1. n \in 1..Len(w) /\ n \in Nat /\ w[n] \in DOMAIN FeaturesOwners
    BY DEF RecordLines
  <2>2. o # 0 => w[o] \in FeaturesOwners[w[n]]
    BY <2>1, OwnerLast
  <2>3. w[n] \in {"OB", "OS"} => o # 0
    BY <2>1, FeaturesPolygonsOwned
  <2>4. /\ o = 0 => M = {"L", "S"} \union SymbolKinds
        /\ o # 0 /\ w[o] = "S" => M = {"OB"}
        /\ o # 0 /\ w[o] = "OB" => M = {"OS"}
    BY <1>1
  <2> HIDE DEF o, M
  <2>5. CASE w[n] \in FeatureAtOnceKinds \union {"S"}
    <3>1. o = 0
      BY <2>2, <2>5, FeaturesOwnersAre
    <3>2. v \in {"L", "S"} \union SymbolKinds
      BY <1>2, <2>5
    <3> QED
      BY <2>4, <3>1, <3>2 DEF o, M
  <2>6. CASE w[n] = "OB"
    <3>1. o # 0 /\ w[o] = "S"
      BY <2>2, <2>3, <2>6, FeaturesOwnersAre
    <3> QED
      BY <1>2, <2>4, <2>6, <3>1, FeaturesOwnersAre DEF o, M
  <2>7. CASE w[n] = "OS"
    <3>1. o # 0 /\ w[o] = "OB"
      BY <2>2, <2>3, <2>7, FeaturesOwnersAre
    <3> QED
      BY <1>2, <2>4, <2>7, <3>1, FeaturesOwnersAre DEF o, M
  <2> QED
    BY <2>1, <2>5, <2>6, <2>7, FeaturesOwnersAre
<1> QED
  BY <1>3 DEF AllTaken

LEMMA NetlistTaken ==
    ASSUME NEW w \in Seq(Token)
    PROVE  AllTaken(w, NetlistOwners, NetlistMessages)
<1>1. \A u : Takes(NetlistMessages, u, 0) = {"$", "point"}
  BY DEF Takes, NetlistMessages, NetlistFileMessage
<1>2. Vector("$") = "$" /\ Vector("point") = "point"
  BY DEF Vector, FeatureLineKinds
<1>3. ASSUME NEW n \in RecordLines(w, NetlistOwners)
      PROVE  /\ Vector(w[n]) \in Takes(NetlistMessages, w, Owner(w, n, NetlistOwners))
             /\ Owner(w, n, NetlistOwners) = 0
  <2>1. n \in Nat /\ w[n] \in {"$", "point"}
    BY NetlistOwnersAre DEF RecordLines
  <2>2. Owner(w, n, NetlistOwners) = 0
    BY <2>1, NetlistOwnersAre, OwnerNone
  <2> QED
    BY <1>1, <1>2, <2>1, <2>2
<1> QED
  BY <1>3 DEF AllTaken

LEMMA ComponentsTaken ==
    ASSUME NEW w \in Seq(Token), ComponentsOrderly(w)
    PROVE  AllTaken(w, ComponentsOwners, ComponentsMessages)
<1>1. /\ \A u : Takes(ComponentsMessages, u, 0) = {"CMP", "CPN"}
      /\ \A u, o : o # 0 /\ u[o] = "CMP" => Takes(ComponentsMessages, u, o) = {"PRP", "TOP"}
      /\ \A u, o : o # 0 /\ u[o] = "CPN" => Takes(ComponentsMessages, u, o) = {"DSC"}
  <2>1. /\ ComponentsMessages["FILE"] = {"CMP", "CPN"}
        /\ ComponentsMessages["CMP"] = {"PRP", "TOP"} /\ ComponentsMessages["CPN"] = {"DSC"}
    BY DEF ComponentsMessages, ComponentsFileMessage, ComponentMessage, BomMessage
  <2> QED
    BY <2>1 DEF Takes
<1>2. \A k \in {"CMP", "PRP", "TOP", "CPN", "DSC"} : Vector(k) = k
  BY DEF Vector, FeatureLineKinds
<1>3. ComponentsRule(w)
  BY ComponentsOrder
<1>4. ASSUME NEW n \in RecordLines(w, ComponentsOwners)
      PROVE  /\ Vector(w[n]) \in Takes(ComponentsMessages, w, Owner(w, n, ComponentsOwners))
             /\ Owner(w, n, ComponentsOwners) # 0
                  => w[Owner(w, n, ComponentsOwners)] \in DOMAIN ComponentsOwners
  <2> DEFINE o == Owner(w, n, ComponentsOwners)
             M == Takes(ComponentsMessages, w, o)
             v == Vector(w[n])
  <2>1. n \in 1..Len(w) /\ n \in Nat /\ w[n] \in {"CMP", "PRP", "TOP", "CPN", "DSC"}
    BY ComponentsOwnersAre DEF RecordLines
  <2>2. o # 0 => w[o] \in ComponentsOwners[w[n]]
    BY <2>1, OwnerLast
  <2>3. w[n] \in {"PRP", "TOP", "DSC"} => o # 0
    BY <1>3, <2>1 DEF ComponentsRule
  <2>4. /\ o = 0 => M = {"CMP", "CPN"}
        /\ o # 0 /\ w[o] = "CMP" => M = {"PRP", "TOP"}
        /\ o # 0 /\ w[o] = "CPN" => M = {"DSC"}
    BY <1>1
  <2>5. v = w[n]
    BY <1>2, <2>1
  <2> HIDE DEF o, M, v
  <2>6. v \in M /\ (o # 0 => w[o] \in DOMAIN ComponentsOwners)
    <3>1. CASE w[n] \in {"CMP", "CPN"}
      BY <2>2, <2>4, <2>5, <3>1, ComponentsOwnersAre
    <3>2. CASE w[n] \in {"PRP", "TOP", "DSC"}
      BY <2>2, <2>3, <2>4, <2>5, <3>2, ComponentsOwnersAre
    <3> QED
      BY <2>1, <3>1, <3>2
  <2> QED
    BY <2>6 DEF o, M, v
<1> QED
  BY <1>4 DEF AllTaken

\* The lines that the message of an orderly file takes.
SentOf(f, w) == {n \in RecordLines(w, OwnersIn(f)) : ~(f = "eda shapes" /\ OfPin(w, n))}

NoGroupProperties(w, owners) ==
    \A n \in DOMAIN w : w[n] = "PRP" /\ Owner(w, n, owners) # 0 => w[Owner(w, n, owners)] # "FGR"

LEMMA NoOutlines ==
    ASSUME NEW w \in Seq(EdaNetKinds), NEW n \in 1..Len(w)
    PROVE  ~OfPin(w, n)
<1>1. w[n] \notin {"RC", "CT", "OB", "OS"}
  BY DEF EdaNetKinds
<1> QED
  BY <1>1, OfPinIs

LEMMA OrderlySent ==
    ASSUME NEW f \in Formats, f # "matrix", NEW w \in Seq(Token), OrderlyIn(f, w),
           f = "eda nets" => w \in Seq(EdaNetKinds), NoGroupProperties(w, OwnersIn(f))
    PROVE  Sent(w, OwnersIn(f), MessagesOf(f), SentOf(f, w))
<1>1. CASE f \in EdaFormats
  <2>1. OwnersIn(f) = EdaOwners /\ MessagesOf(f) = EdaMessages /\ EdaOrderly(w)
    BY <1>1 DEF OwnersIn, MessagesOf, OrderlyIn
  <2>2. EdaRule(w)
    BY <2>1, EdaOrder
  <2>3. \A n \in 1..Len(w) : w[n] = "PRP" /\ Owner(w, n, EdaOwners) # 0
                               => w[Owner(w, n, EdaOwners)] # "FGR"
    <3>1. NoGroupProperties(w, EdaOwners)
      BY <2>1
    <3>2. DOMAIN w = 1..Len(w)
      BY ONLY w \in Seq(Token)
    <3> QED
      BY ONLY <3>1, <3>2 DEF NoGroupProperties
  <2>4. Sent(w, EdaOwners, EdaMessages, {n \in RecordLines(w, EdaOwners) : ~OfPin(w, n)})
    BY <2>2, <2>3, EdaSent
  <2>5. \A n \in RecordLines(w, EdaOwners) : (f = "eda shapes" /\ OfPin(w, n)) <=> OfPin(w, n)
    <3>1. CASE f = "eda nets"
      <4>1. w \in Seq(EdaNetKinds)
        BY <3>1
      <4>3. RecordLines(w, EdaOwners) \subseteq 1..Len(w)
        BY ONLY w \in Seq(Token) DEF RecordLines
      <4>2. \A n \in 1..Len(w) : ~OfPin(w, n)
        BY ONLY <4>1, NoOutlines
      <4> QED
        BY <4>2, <4>3
    <3>2. CASE f # "eda nets"
      BY <1>1, <3>2 DEF EdaFormats
    <3> QED
      BY <3>1, <3>2
  <2>6. SentOf(f, w) = {n \in RecordLines(w, EdaOwners) : ~OfPin(w, n)}
    BY <2>1, <2>5 DEF SentOf
  <2> QED
    BY <2>1, <2>4, <2>6
<1>2. CASE f \notin EdaFormats
  <2>1. SentOf(f, w) = RecordLines(w, OwnersIn(f))
    BY <1>2 DEF SentOf, EdaFormats
  <2>2. AllTaken(w, OwnersIn(f), MessagesOf(f))
    <3>1. CASE f \in FeatureFormats
      BY <1>2, <3>1, FeaturesTaken DEF OwnersIn, MessagesOf, OrderlyIn
    <3>2. CASE f \notin FeatureFormats /\ f = "netlist"
      BY <1>2, <3>2, NetlistTaken DEF OwnersIn, MessagesOf
    <3>3. CASE f \notin FeatureFormats /\ f # "netlist"
      BY <1>2, <3>3, ComponentsTaken DEF OwnersIn, MessagesOf, OrderlyIn
    <3> QED
      BY <3>1, <3>2, <3>3
  <2> QED
    BY <2>1, <2>2, AllSent
<1> QED
  BY <1>1, <1>2

\* SerialisationWhole of any file.
SerialOf(f, w, t) ==
    /\ t.status \in {"round_trip", "unserialisable"} /\ f # "matrix" /\ OrderlyIn(f, w)
    /\ NoGroupProperties(w, OwnersIn(f))
    => t.status = "round_trip" /\ Tidy(w, OwnersIn(f), SentOf(f, w), t.kept)

SerialInv ==
    /\ ParserInv
    /\ part \notin Formats => parse.tree.status = "reading"
    /\ part = "eda nets" => lines \in Seq(EdaNetKinds)
    /\ part \in Formats => SerialOf(part, lines, parse.tree)

LEMMA ConvertedWhole ==
    ASSUME SerialInv, part \in Formats, parse.tree.status = "accepted", NEW q, q = Converted.tree
    PROVE  SerialOf(part, lines, q)
<1> SUFFICES ASSUME part # "matrix", OrderlyIn(part, lines), NoGroupProperties(lines, OwnersIn(part))
             PROVE  q.status = "round_trip" /\ Tidy(lines, OwnersIn(part), SentOf(part, lines), q.kept)
  BY DEF SerialOf
<1> DEFINE t == parse.tree
           kept == t.kept
           owners == OwnersIn(part)
<1>1. /\ IsParse(parse) /\ FileSound(part, lines, t)
      /\ part = "eda nets" => lines \in Seq(EdaNetKinds)
  BY DEF SerialInv, ParserInv
<1>2. /\ lines \in Seq(Token) /\ IsTree(t)
      /\ Tidy(lines, owners, RecordLines(lines, owners), kept)
  BY <1>1 DEF FileSound, Whole
<1>3. Sent(lines, owners, MessagesOf(part), SentOf(part, lines))
  BY <1>1, <1>2, OrderlySent
<1>4. ~(/\ part \in EdaFormats
        /\ \E i \in DOMAIN kept : kept[i][1] # 0 /\ kept[i][3] = "PRP" /\ lines[kept[i][1]] = "FGR")
  <2> SUFFICES ASSUME NEW i \in DOMAIN kept, kept[i][1] # 0, kept[i][3] = "PRP",
                      lines[kept[i][1]] = "FGR"
               PROVE  FALSE
    OBVIOUS
  <2> DEFINE n == kept[i][2]
  <2>1. /\ n \in RecordLines(lines, owners) /\ kept[i][1] = Owner(lines, n, owners)
        /\ kept[i][3] = Vector(lines[n])
    BY <1>2 DEF Tidy
  <2>2. n \in DOMAIN lines
    BY <2>1 DEF RecordLines
  <2>3. lines[n] = "PRP"
    BY <2>1, VectorsAre
  <2> QED
    BY <2>1, <2>2, <2>3 DEF NoGroupProperties
<1>5. q = RoundTrip(t, MessagesOf(part), lines)
  BY <1>1, <1>4, ConvertedTree
<1> HIDE DEF t, owners
<1>6. q.status = "round_trip" /\ Tidy(lines, owners, SentOf(part, lines), q.kept)
  BY <1>2, <1>3, <1>5, TidyRoundTrip
<1> QED
  BY <1>6 DEF owners

LEMMA SerialInit == Init => SerialInv
<1> SUFFICES ASSUME Init PROVE SerialInv
  OBVIOUS
<1> DEFINE g == FeaturesOpen(MaxLines)
           f == IF part \in Formats THEN part ELSE "netlist"
<1>1. ParserInv /\ lines = <<>> /\ parse = [g EXCEPT !.tree = Opened(f)]
  BY ParserInit DEF Init
<1>2. IsParse(g)
  BY DEF FeaturesOpen, IsParse
<1> HIDE DEF g
<1>3. parse.tree = Opened(f)
  BY <1>1, <1>2, ParseTree
<1>4. part \notin Formats => parse.tree.status = "reading"
  <2>1. Opened("netlist").status = "reading"
    BY Opened0 DEF Opened, NetlistOpen, Reading
  <2> QED
    BY <1>3, <2>1
<1>5. part \in Formats => parse.tree.status \in {"reading", "accepted"}
  <2> SUFFICES ASSUME part \in Formats PROVE parse.tree.status \in {"reading", "accepted"}
    OBVIOUS
  <2>1. CASE part \in ReadFormats
    BY <1>3, <2>1, FileStarts
  <2>2. CASE part = "other layer"
    <3>1. parse.tree = Accept(Reading(ComponentSlots))
      BY <1>3, <2>2 DEF Opened, ComponentsOpen
    <3> QED
      BY <3>1 DEF Accept, Reading
  <2> QED
    BY <2>1, <2>2 DEF ReadFormats
<1>6. part \in Formats => SerialOf(part, lines, parse.tree)
  BY <1>5 DEF SerialOf
<1>7. lines \in Seq(EdaNetKinds)
  BY <1>1
<1> QED
  BY <1>1, <1>4, <1>6, <1>7 DEF SerialInv

LEMMA SerialNext == SerialInv /\ [Next]_fileVars => SerialInv'
<1> SUFFICES ASSUME SerialInv, [Next]_fileVars PROVE SerialInv'
  OBVIOUS
<1>0. ParserInv'
  BY ParserNext DEF SerialInv
<1>1. CASE part \notin Formats
  <2>1. part' = part /\ UNCHANGED <<lines, parse>>
    BY <1>1 DEF Next, fileVars
  <2> QED
    BY <1>0, <1>1, <2>1 DEF SerialInv, Formats
<1>2. CASE part \in Formats
  <2>1. part' = part /\ (FileNext \/ UNCHANGED <<lines, parse>>)
    BY <1>2, StepOfPart
  <2>2. IsParse(parse) /\ FileSound(part, lines, parse.tree)
    BY <1>2 DEF SerialInv, ParserInv
  <2>3. /\ part = "eda nets" => lines \in Seq(EdaNetKinds)
        /\ SerialOf(part, lines, parse.tree)
    BY <1>2 DEF SerialInv
  <2> SUFFICES /\ part = "eda nets" => lines' \in Seq(EdaNetKinds)
               /\ SerialOf(part, lines', parse'.tree)
    BY <1>0, <1>2, <2>1 DEF SerialInv
  <2>4. CASE ReadLine
    <3>1. part \in ReadFormats /\ parse.tree.status = "reading"
      BY <2>2, <2>4 DEF ReadLine, FileSound
    <3>2. PICK k \in LineKinds[part] : lines' = Append(lines, k) /\ parse' = AfterLine(k, Len(lines) + 1)
      BY <2>4 DEF ReadLine
    <3>3. part = "eda nets" => lines' \in Seq(EdaNetKinds)
      <4> SUFFICES ASSUME part = "eda nets" PROVE lines' \in Seq(EdaNetKinds)
        OBVIOUS
      <4>1. LineKinds[part] = EdaNetKinds
        BY TheFormats
      <4>2. k \in EdaNetKinds /\ lines \in Seq(EdaNetKinds)
        BY <2>3, <3>2, <4>1
      <4> QED
        BY ONLY <3>2, <4>2
    <3>4. parse'.tree = LineOf(part, parse.tree, k, Len(lines) + 1)
      BY <2>2, <3>1, <3>2, AfterLineTree
    <3>5. Read(SlotsOf(part), parse'.tree)
      <4>1. Going(SlotsOf(part), parse.tree) /\ lines \in Seq(Token)
        BY <2>2, <3>1 DEF FileSound, Going
      <4>2. Len(lines) + 1 \in Nat
        BY <4>1
      <4> QED
        BY <3>1, <3>2, <3>4, <4>1, <4>2, AnyLine
    <3>6. parse'.tree.status \notin {"round_trip", "unserialisable"}
      BY <3>5 DEF Read
    <3> QED
      BY <3>3, <3>6 DEF SerialOf
  <2>5. CASE EndOfFile
    <3>1. part \in ReadFormats /\ parse.tree.status = "reading" /\ parse' = AtEnd /\ lines' = lines
      BY <2>2, <2>5 DEF EndOfFile, FileSound
    <3>2. parse'.tree = EndOf(part, parse.tree)
      BY <2>2, <3>1, AtEndTree
    <3>3. Going(SlotsOf(part), parse.tree)
      BY <2>2, <3>1 DEF FileSound, Going
    <3>4. parse'.tree.status = "accepted"
      BY <3>1, <3>2, <3>3, EndAccepts
    <3> QED
      BY <2>3, <3>1, <3>4 DEF SerialOf
  <2>6. CASE Convert
    <3>1. parse.tree.status = "accepted" /\ parse' = Converted /\ lines' = lines
      BY <2>6 DEF Convert
    <3> DEFINE q == Converted.tree
    <3>2. parse'.tree = q
      BY <3>1
    <3> HIDE DEF q
    <3>3. SerialOf(part, lines, q)
      BY <1>2, <3>1, ConvertedWhole DEF q
    <3> QED
      BY <2>3, <3>1, <3>2, <3>3
  <2>7. CASE UNCHANGED <<lines, parse>>
    BY <2>3, <2>7
  <2> QED
    BY <2>1, <2>4, <2>5, <2>6, <2>7 DEF FileNext
<1> QED
  BY <1>1, <1>2

\* An orderly file without properties of feature groups can be serialised, and
\* reading the message back neither loses nor moves a record, the outlines of
\* pins excepted (the to_protobuf and from_protobuf of EdaDataFile, ComponentsFile,
\* FeaturesFile and NetlistFile), however long the file is.
THEOREM OrderlyFilesSurviveMessages == Spec => []SerialisationWhole
<1>1. SerialInv => SerialisationWhole
  <2> SUFFICES ASSUME SerialInv, Serialised, part # "matrix", Orderly(lines),
                      \A n \in DOMAIN lines : ~GroupProperty(n)
               PROVE  /\ parse.tree.status = "round_trip"
                      /\ KeptExactly(lines, Owners,
                                     {n \in RecordLines(lines, Owners) : ~OfPinOutline(n)}, parse.tree.kept)
    BY DEF SerialisationWhole
  <2>1. part \in Formats
    BY DEF SerialInv, Serialised
  <2>2. Owners = OwnersIn(part) /\ OrderlyIn(part, lines)
    BY DEF Owners, OwnersIn, Orderly, OrderlyIn, EdaFormats, FeatureFormats
  <2>3. NoGroupProperties(lines, OwnersIn(part))
    BY <2>2 DEF NoGroupProperties, GroupProperty
  <2>4. parse.tree.status = "round_trip" /\ Tidy(lines, OwnersIn(part), SentOf(part, lines), parse.tree.kept)
    BY <2>1, <2>2, <2>3 DEF SerialInv, SerialOf, Serialised
  <2>5. \A n : OfPinOutline(n) <=> part = "eda shapes" /\ OfPin(lines, n)
    <3>1. CASE part = "eda shapes"
      <4>1. Owners = EdaOwners
        BY <3>1, <2>2 DEF OwnersIn, EdaFormats
      <4> QED
        BY <3>1, <4>1 DEF OfPinOutline, OfPin
    <3>2. CASE part # "eda shapes"
      BY <3>2 DEF OfPinOutline
    <3> QED
      BY <3>1, <3>2
  <2>6. SentOf(part, lines) = {n \in RecordLines(lines, Owners) : ~OfPinOutline(n)}
    BY <2>2, <2>5 DEF SentOf
  <2> QED
    BY <2>2, <2>4, <2>6, TidyIsExact
<1> QED
  BY <1>1, SerialInit, SerialNext, PTL DEF Spec
===============================================================================
