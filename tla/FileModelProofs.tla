--------------------------- MODULE FileModelProofs ---------------------------
(***************************************************************************)
(* Theorems about FileModel, one for each part a behaviour can follow, for *)
(* files, archives, designs and texts of any size; ParserProofs has those  *)
(* about the order and the owners of records.                              *)
(*                                                                         *)
(* SymbolsInv: a symbol read so far has its own unit or the one that the   *)
(*   line of units, if there is one already, gives it.                     *)
(* ArchiveInv: a step shown has all its files parsed, the one that makes a *)
(*   step shown stands on the list of what is to parse behind the others,  *)
(*   and what is outside of the steps is parsed or on the list.            *)
(* TextInv: the result so far is UTF-8; a text that is repaired was not.   *)
(* DesignInv: what is done of the list of placements and what is left of   *)
(*   it are together those of the two files, in order, and each net has    *)
(*   the connections of those that are done.                               *)
(*                                                                         *)
(* The operators of the models that are recursive functions or folds       *)
(* (SelectAt, PartsOfAll, IsUtf8, the connections) are first shown to have *)
(* the solution that their recursion asks for, by induction over sets of   *)
(* numbers or of sequences (NatInd, NatStrongInd), and are then used by    *)
(* their equations.                                                        *)
(***************************************************************************)
EXTENDS FileModel, FiniteSetTheorems, WellFoundedInduction, SequenceTheorems, TLAPS

-----------------------------------------------------------------------------
(* Induction over the natural numbers, for sets of them.                   *)

\* A non-empty set of natural numbers has a least element.
LEMMA LeastNat ==
    ASSUME NEW T \in SUBSET Nat, T # {}
    PROVE  \E m \in T : \A k \in T : m <= k
<1>1. PICK m \in T : \A k \in T : <<k, m>> \notin OpToRel(<, Nat)
  BY NatLessThanWellFounded, WFMin, Zenon
<1>2. \A k \in T : ~(k < m)
  BY <1>1 DEF OpToRel
<1> QED
  BY <1>2

\* A set of natural numbers with 0 and the successor of each of its members.
LEMMA NatInd ==
    ASSUME NEW T \in SUBSET Nat, 0 \in T, \A n \in T : n + 1 \in T
    PROVE  \A n \in Nat : n \in T
<1> SUFFICES ASSUME NEW z \in Nat, z \notin T PROVE FALSE
  OBVIOUS
<1> DEFINE U == {n \in Nat : n \notin T}
<1>1. PICK m \in U : \A k \in U : m <= k
  BY LeastNat
<1>2. m # 0 /\ m - 1 \in Nat
  BY <1>1
<1>3. m - 1 \in T
  BY <1>1, <1>2
<1> QED
  BY <1>1, <1>2, <1>3

\* A set of natural numbers with every number below which it has all.
LEMMA NatStrongInd ==
    ASSUME NEW T \in SUBSET Nat,
           \A n \in Nat : (\A k \in Nat : k < n => k \in T) => n \in T
    PROVE  \A n \in Nat : n \in T
<1> SUFFICES ASSUME NEW z \in Nat, z \notin T PROVE FALSE
  OBVIOUS
<1> DEFINE U == {n \in Nat : n \notin T}
<1>1. PICK m \in U : \A k \in U : m <= k
  BY LeastNat
<1> QED
  BY <1>1

-----------------------------------------------------------------------------
(* Selection: SelectAt is a function defined by recursion on the length.   *)

\* g has what is selected of the first n elements, for every n up to N.
IsSel(s, at, N, g) ==
    g = [n \in 0..N |-> IF n = 0 THEN <<>>
                        ELSE IF n \in at THEN Append(g[n - 1], s[n]) ELSE g[n - 1]]

SelFun(s, at) == CHOOSE g : IsSel(s, at, Len(s), g)

\* The definition of SelectAt, unfolded.
LEMMA SelectIsFun ==
    ASSUME NEW s, NEW at
    PROVE  SelectAt(s, at) = SelFun(s, at)[Len(s)]
  BY DEF SelectAt, SelFun, IsSel

\* There is such a function for every N.
LEMMA SelExists ==
    ASSUME NEW s, NEW at
    PROVE  \A N \in Nat : \E g : IsSel(s, at, N, g)
<1> DEFINE T == {N \in Nat : \E g : IsSel(s, at, N, g)}
<1>1. 0 \in T
  <2> DEFINE g == [n \in 0..0 |-> <<>>]
  <2>1. IsSel(s, at, 0, g)
    BY DEF IsSel
  <2> QED
    BY <2>1
<1>2. ASSUME NEW N \in T PROVE N + 1 \in T
  <2>1. PICK h : IsSel(s, at, N, h)
    OBVIOUS
  <2> DEFINE g == [n \in 0..(N + 1) |->
                      IF n = N + 1
                      THEN IF N + 1 \in at THEN Append(h[N], s[N + 1]) ELSE h[N]
                      ELSE h[n]]
  <2>2. \A n \in 0..N : h[n] = IF n = 0 THEN <<>>
                               ELSE IF n \in at THEN Append(h[n - 1], s[n]) ELSE h[n - 1]
    BY <2>1 DEF IsSel
  <2>3. \A n \in 0..(N + 1) :
           g[n] = IF n = 0 THEN <<>>
                  ELSE IF n \in at THEN Append(g[n - 1], s[n]) ELSE g[n - 1]
    <3> TAKE n \in 0..(N + 1)
    <3>1. CASE n = N + 1
      BY <3>1
    <3>2. CASE n # N + 1
      <4>1. n \in 0..N /\ (n # 0 => n - 1 \in 0..N)
        BY <3>2
      <4> QED
        BY <4>1, <2>2, <3>2
    <3> QED
      BY <3>1, <3>2
  <2>4. IsSel(s, at, N + 1, g)
    <3> HIDE DEF g
    <3>1. g = [n \in 0..(N + 1) |-> g[n]]
      BY DEF g
    <3> QED
      BY <3>1, <2>3 DEF IsSel
  <2> QED
    BY <2>4
<1> HIDE DEF T
<1>3. T \in SUBSET Nat
  BY DEF T
<1>4. \A N \in Nat : N \in T
  BY <1>1, <1>2, <1>3, NatInd
<1> QED
  BY <1>4 DEF T

\* What is selected of the first n elements.
SelTo(s, at, n) == SelFun(s, at)[n]

LEMMA SelToRec ==
    ASSUME NEW X, NEW s \in Seq(X), NEW at
    PROVE  /\ SelTo(s, at, 0) = <<>>
           /\ \A n \in 1..Len(s) :
                 SelTo(s, at, n) = IF n \in at THEN Append(SelTo(s, at, n - 1), s[n])
                                   ELSE SelTo(s, at, n - 1)
           /\ SelectAt(s, at) = SelTo(s, at, Len(s))
<1>1. Len(s) \in Nat
  OBVIOUS
<1>2. \E g : IsSel(s, at, Len(s), g)
  BY <1>1, SelExists
<1>3. IsSel(s, at, Len(s), SelFun(s, at))
  BY <1>2 DEF SelFun
<1> DEFINE g == SelFun(s, at)
<1>4. \A n \in 0..Len(s) : g[n] = IF n = 0 THEN <<>>
                             ELSE IF n \in at THEN Append(g[n - 1], s[n]) ELSE g[n - 1]
  BY <1>3 DEF IsSel
<1> HIDE DEF g
<1>5. SelectAt(s, at) = g[Len(s)]
  BY SelectIsFun DEF g
<1>6. \A n : SelTo(s, at, n) = g[n]
  BY DEF SelTo, g
<1>7. g[0] = <<>>
  BY <1>1, <1>4
<1>8. \A n \in 1..Len(s) : g[n] = IF n \in at THEN Append(g[n - 1], s[n]) ELSE g[n - 1]
  BY <1>1, <1>4
<1> QED
  BY <1>5, <1>6, <1>7, <1>8

\* h says where the elements of r are in s.
Places(s, at, n, r, h) ==
    /\ h \in [1..Len(r) -> 1..n]
    /\ \A j \in 1..Len(r) : h[j] \in at /\ r[j] = s[h[j]]
    /\ \A j, k \in 1..Len(r) : j < k => h[j] < h[k]
    /\ \A i \in 1..n : i \in at => \E j \in 1..Len(r) : h[j] = i

\* A selection has the elements at the positions, each once and in order.
LEMMA SelPlaces ==
    ASSUME NEW X, NEW s \in Seq(X), NEW at
    PROVE  /\ SelectAt(s, at) \in Seq(X)
           /\ \E h : Places(s, at, Len(s), SelectAt(s, at), h)
<1> DEFINE r(n) == SelTo(s, at, n)
           P(n) == r(n) \in Seq(X) /\ \E h : Places(s, at, n, r(n), h)
           T == {n \in Nat : n <= Len(s) => P(n)}
<1>1. /\ r(0) = <<>>
      /\ \A n \in 1..Len(s) : r(n) = IF n \in at THEN Append(r(n - 1), s[n]) ELSE r(n - 1)
      /\ SelectAt(s, at) = r(Len(s))
  BY SelToRec
<1>2. Len(s) \in Nat /\ \A i \in 1..Len(s) : s[i] \in X
  OBVIOUS
<1> HIDE DEF r
<1>3. 0 \in T
  <2>1. Places(s, at, 0, r(0), <<>>)
    BY <1>1 DEF Places
  <2>2. r(0) \in Seq(X)
    BY <1>1, EmptySeq
  <2> QED
    BY <2>1, <2>2
<1>4. ASSUME NEW n \in T PROVE n + 1 \in T
  <2> SUFFICES ASSUME n + 1 <= Len(s) PROVE P(n + 1)
    OBVIOUS
  <2>1. n \in Nat /\ n + 1 \in 1..Len(s) /\ (n + 1) - 1 = n
    BY <1>2
  <2>2. r(n) \in Seq(X)
    BY <1>2
  <2>3. PICK h : Places(s, at, n, r(n), h)
    BY <1>2
  <2>4. r(n + 1) = IF n + 1 \in at THEN Append(r(n), s[n + 1]) ELSE r(n)
    BY <1>1, <2>1
  <2>5. CASE n + 1 \in at
    <3> DEFINE m == Len(r(n))
               q == Append(r(n), s[n + 1])
               h2 == [j \in 1..(m + 1) |-> IF j = m + 1 THEN n + 1 ELSE h[j]]
    <3>1. m \in Nat /\ r(n + 1) = q /\ s[n + 1] \in X
      BY <2>1, <2>2, <2>4, <2>5, <1>2
    <3>2. /\ q \in Seq(X) /\ Len(q) = m + 1 /\ q[m + 1] = s[n + 1]
          /\ \A j \in 1..m : q[j] = r(n)[j]
      BY <2>2, <3>1
    <3>3. /\ h \in [1..m -> 1..n]
          /\ \A j \in 1..m : h[j] \in at /\ r(n)[j] = s[h[j]]
          /\ \A j, k \in 1..m : j < k => h[j] < h[k]
          /\ \A i \in 1..n : i \in at => \E j \in 1..m : h[j] = i
      BY <2>3 DEF Places
    <3> HIDE DEF m, q
    <3>4. h2 \in [1..(m + 1) -> 1..(n + 1)]
      BY <3>1, <3>3, <2>1
    <3>5. \A j \in 1..(m + 1) : h2[j] \in at /\ q[j] = s[h2[j]]
      <4> TAKE j \in 1..(m + 1)
      <4>1. CASE j = m + 1
        BY <4>1, <3>1, <3>2, <2>5
      <4>2. CASE j # m + 1
        <5>1. j \in 1..m
          BY <4>2, <3>1
        <5> QED
          BY <5>1, <3>2, <3>3, <3>1
      <4> QED
        BY <4>1, <4>2
    <3>6. \A j, k \in 1..(m + 1) : j < k => h2[j] < h2[k]
      <4> TAKE j, k \in 1..(m + 1)
      <4> HAVE j < k
      <4>1. j \in 1..m /\ h2[j] = h[j] /\ h[j] \in 1..n
        BY <3>1, <3>3
      <4>2. CASE k = m + 1
        BY <4>1, <4>2, <2>1
      <4>3. CASE k # m + 1
        <5>1. k \in 1..m /\ h2[k] = h[k]
          BY <4>3, <3>1
        <5> QED
          BY <5>1, <4>1, <3>3
      <4> QED
        BY <4>2, <4>3
    <3>7. \A i \in 1..(n + 1) : i \in at => \E j \in 1..(m + 1) : h2[j] = i
      <4> TAKE i \in 1..(n + 1)
      <4> HAVE i \in at
      <4>1. CASE i = n + 1
        <5>1. m + 1 \in 1..(m + 1) /\ h2[m + 1] = i
          BY <4>1, <3>1
        <5> QED
          BY <5>1
      <4>2. CASE i # n + 1
        <5>1. i \in 1..n
          BY <4>2, <2>1
        <5>2. PICK j \in 1..m : h[j] = i
          BY <5>1, <3>3
        <5>3. j \in 1..(m + 1) /\ h2[j] = i
          BY <5>2, <3>1
        <5> QED
          BY <5>3
      <4> QED
        BY <4>1, <4>2
    <3> HIDE DEF h2
    <3>8. Places(s, at, n + 1, q, h2)
      BY <3>2, <3>4, <3>5, <3>6, <3>7 DEF Places
    <3> QED
      BY <3>1, <3>2, <3>8
  <2>6. CASE n + 1 \notin at
    <3>1. r(n + 1) = r(n)
      BY <2>4, <2>6
    <3>2. /\ h \in [1..Len(r(n)) -> 1..n]
          /\ \A j \in 1..Len(r(n)) : h[j] \in at /\ r(n)[j] = s[h[j]]
          /\ \A j, k \in 1..Len(r(n)) : j < k => h[j] < h[k]
          /\ \A i \in 1..n : i \in at => \E j \in 1..Len(r(n)) : h[j] = i
      BY <2>3 DEF Places
    <3>3. h \in [1..Len(r(n)) -> 1..(n + 1)]
      BY <3>2, <2>1
    <3>4. \A i \in 1..(n + 1) : i \in at => i \in 1..n
      BY <2>1, <2>6
    <3>5. Places(s, at, n + 1, r(n), h)
      BY <3>2, <3>3, <3>4 DEF Places
    <3> QED
      BY <3>1, <3>5, <2>2
  <2> QED
    BY <2>5, <2>6
<1>5. T \in SUBSET Nat
  OBVIOUS
<1> HIDE DEF T
<1>6. Len(s) \in T
  BY <1>2, <1>3, <1>4, <1>5, NatInd
<1>7. P(Len(s))
  BY <1>2, <1>6 DEF T
<1> QED
  BY <1>1, <1>7

\* Selecting every position changes nothing.
LEMMA SelAll ==
    ASSUME NEW X, NEW s \in Seq(X), NEW at, \A i \in 1..Len(s) : i \in at
    PROVE  SelectAt(s, at) = s
<1> DEFINE r(n) == SelTo(s, at, n)
           P(n) == r(n) \in Seq(X) /\ Len(r(n)) = n /\ \A i \in 1..n : r(n)[i] = s[i]
           T == {n \in Nat : n <= Len(s) => P(n)}
<1>1. /\ r(0) = <<>>
      /\ \A n \in 1..Len(s) : r(n) = IF n \in at THEN Append(r(n - 1), s[n]) ELSE r(n - 1)
      /\ SelectAt(s, at) = r(Len(s))
  BY SelToRec
<1>2. Len(s) \in Nat /\ \A i \in 1..Len(s) : s[i] \in X
  OBVIOUS
<1> HIDE DEF r
<1>3. 0 \in T
  <2>1. r(0) \in Seq(X) /\ Len(r(0)) = 0
    BY <1>1, EmptySeq
  <2> QED
    BY <2>1
<1>4. ASSUME NEW n \in T PROVE n + 1 \in T
  <2> SUFFICES ASSUME n + 1 <= Len(s) PROVE P(n + 1)
    OBVIOUS
  <2>1. n \in Nat /\ n + 1 \in 1..Len(s) /\ (n + 1) - 1 = n
    BY <1>2
  <2>2. P(n)
    BY <1>2, <2>1
  <2>3. r(n + 1) = Append(r(n), s[n + 1])
    BY <1>1, <2>1
  <2>4. s[n + 1] \in X
    BY <1>2, <2>1
  <2> DEFINE q == r(n)
             e == s[n + 1]
  <2>7. q \in Seq(X) /\ Len(q) = n /\ e \in X
    BY <2>1, <2>2, <2>4
  <2>8. r(n + 1) = Append(q, e)
    BY <2>3
  <2>9. \A i \in 1..n : q[i] = s[i]
    BY <2>1, <2>2
  <2>10. e = s[n + 1]
    OBVIOUS
  <2> HIDE DEF q, e
  <2>11. /\ Append(q, e) \in Seq(X) /\ Len(Append(q, e)) = n + 1
         /\ \A i \in 1..n : Append(q, e)[i] = q[i]
         /\ Append(q, e)[n + 1] = e
    BY ONLY <2>7, AppendProperties
  <2>5. r(n + 1) \in Seq(X) /\ Len(r(n + 1)) = n + 1
    BY <2>8, <2>11
  <2>12. ASSUME NEW i \in 1..(n + 1) PROVE i \in 1..n \/ i = n + 1
    BY <2>1
  <2>6. \A i \in 1..(n + 1) : r(n + 1)[i] = s[i]
    BY <2>8, <2>9, <2>10, <2>11, <2>12
  <2> QED
    BY <2>5, <2>6
<1>5. T \in SUBSET Nat
  OBVIOUS
<1> HIDE DEF T
<1>6. Len(s) \in T
  BY <1>2, <1>3, <1>4, <1>5, NatInd
<1>7. P(Len(s))
  BY <1>2, <1>6 DEF T
<1> QED
  BY <1>1, <1>2, <1>7, SeqEqual

-----------------------------------------------------------------------------
(* A step belongs to the part that the behaviour follows.                  *)

LEMMA StepOfPart ==
    ASSUME [Next]_fileVars
    PROVE  /\ part' = part
           /\ part \in Formats => FileNext \/ UNCHANGED <<lines, parse>>
           /\ part = "archive" => ArchiveNext \/ UNCHANGED job
           /\ part = "design" => DesignNext \/ UNCHANGED design
           /\ part = "text" => TextNext \/ UNCHANGED text
<1>1. CASE Next
  BY <1>1 DEF Next, Formats
<1>2. CASE UNCHANGED fileVars
  BY <1>2 DEF fileVars
<1> QED
  BY <1>1, <1>2

\* The fields of a parser and of its records.
IsParse(p) == p = [tree |-> p.tree, units |-> p.units, unitOf |-> p.unitOf]
IsTree(t) == t = [status |-> t.status, cur |-> t.cur, kept |-> t.kept]

-----------------------------------------------------------------------------
(* The units of symbols.                                                   *)

Units == {"None", "Metric", "Imperial"}

NoUnits(ls) == \A v \in DOMAIN ls : ls[v] \notin UnitsKinds

OnlyUnits(ls, u) == /\ u \in DOMAIN ls /\ ls[u] \in UnitsKinds
                    /\ \A v \in DOMAIN ls : ls[v] \in UnitsKinds => v = u

\* The unit type of each symbol of the lines.
UnitsKnown(ls, unitOf) ==
    \A s \in DOMAIN ls :
       ls[s] \in SymbolKinds =>
          /\ ls[s] # "$" => unitOf[s] = SymbolUnit(ls[s])
          /\ ls[s] = "$" /\ NoUnits(ls) => unitOf[s] = "None"
          /\ ls[s] = "$" => \A u : OnlyUnits(ls, u) => unitOf[s] = InferredUnit(ls[u])

\* The default for the next symbol.
DefaultKnown(ls, units) ==
    /\ NoUnits(ls) => units = "none"
    /\ \A u : OnlyUnits(ls, u) => units = ls[u]

SymbolsKept(ls, p) == \A n : n \in SymbolLines(p) <=> n \in DOMAIN ls /\ ls[n] \in SymbolKinds

SymbolsInv ==
    part = "symbols" =>
       /\ lines \in Seq(FeatureSymbolKinds) /\ Len(lines) <= MaxLines
       /\ IsParse(parse) /\ IsTree(parse.tree) /\ parse.unitOf \in [1..MaxLines -> Units]
       /\ UnitsKnown(lines, parse.unitOf)
       /\ parse.tree.status = "reading" =>
             /\ \E X : parse.tree.kept \in Seq(X)
             /\ DefaultKnown(lines, parse.units) /\ SymbolsKept(lines, parse)

LEMMA SymbolKindFacts ==
    /\ \A k \in SymbolKinds : k \notin UnitsKinds
    /\ "L" \notin UnitsKinds /\ "L" \notin SymbolKinds
    /\ \A k \in FeatureSymbolKinds : k \in UnitsKinds \/ k \in SymbolKinds \/ k = "L"
    /\ \A k \in SymbolKinds : SymbolUnit(k) \in Units
    /\ \A k \in SymbolKinds : k # "$" => SymbolUnit(k) # "None"
    /\ SymbolUnit("$") = "None"
    /\ \A k : InferredUnit(k) \in Units
    /\ InferredUnit("none") = "None"
<1>1. \A k : InferredUnit(k) \in Units
  BY DEF InferredUnit, Units
<1>2. \A k \in SymbolKinds : SymbolUnit(k) \in Units /\ (k # "$" => SymbolUnit(k) # "None")
  BY DEF SymbolKinds, SymbolUnit, Units
<1>3. InferredUnit("none") = "None" /\ SymbolUnit("$") = "None"
  BY DEF InferredUnit, SymbolUnit
<1>4. /\ \A k \in SymbolKinds : k \notin UnitsKinds
      /\ "L" \notin UnitsKinds /\ "L" \notin SymbolKinds
      /\ \A k \in FeatureSymbolKinds : k \in UnitsKinds \/ k \in SymbolKinds \/ k = "L"
  BY DEF SymbolKinds, UnitsKinds, FeatureSymbolKinds
<1> QED
  BY <1>1, <1>2, <1>3, <1>4

LEMMA SymbolsInit == Init => SymbolsInv
<1> SUFFICES ASSUME Init, part = "symbols" PROVE SymbolsInv
  BY DEF SymbolsInv
<1> DEFINE p == [tree |-> Reading(FeatureSlots), units |-> "none",
                 unitOf |-> [n \in 1..MaxLines |-> "None"]]
<1>1. lines = <<>> /\ parse = p
  BY DEF Init, Formats, Opened, FeaturesOpen
<1>2. p.tree = Reading(FeatureSlots) /\ p.units = "none" /\ p.unitOf = [n \in 1..MaxLines |-> "None"]
  OBVIOUS
<1>3. IsTree(p.tree) /\ p.tree.status = "reading" /\ p.tree.kept = <<>>
  BY <1>2 DEF Reading, IsTree
<1>4. IsParse(p) /\ p.unitOf \in [1..MaxLines -> Units]
  BY <1>2 DEF IsParse, Units
<1>5. p.tree.kept \in Seq({})
  BY <1>3, EmptySeq
<1>6. lines \in Seq(FeatureSymbolKinds) /\ Len(lines) <= MaxLines
  BY <1>1, MaxLinesAssumption
<1> HIDE DEF p
<1>7. UnitsKnown(lines, p.unitOf) /\ DefaultKnown(lines, p.units)
  BY <1>1, <1>2 DEF UnitsKnown, DefaultKnown, OnlyUnits
<1>8. SymbolsKept(lines, p)
  BY <1>1, <1>3 DEF SymbolsKept, SymbolLines
<1> QED
  BY <1>1, <1>3, <1>4, <1>5, <1>6, <1>7, <1>8 DEF SymbolsInv

\* One more line.
LEMMA OneMore ==
    ASSUME NEW X, NEW ls \in Seq(X), NEW k \in X, NEW ls2, ls2 = Append(ls, k)
    PROVE  /\ ls2 \in Seq(X) /\ Len(ls) \in Nat /\ Len(ls2) = Len(ls) + 1
           /\ DOMAIN ls = 1..Len(ls) /\ DOMAIN ls2 = 1..(Len(ls) + 1)
           /\ \A i \in 1..Len(ls) : i \in 1..(Len(ls) + 1) /\ ls2[i] = ls[i]
           /\ ls2[Len(ls) + 1] = k /\ Len(ls) + 1 \in 1..(Len(ls) + 1)
           /\ \A i \in 1..(Len(ls) + 1) : i # Len(ls) + 1 => i \in 1..Len(ls)
<1>1. ls2 \in Seq(X) /\ Len(ls) \in Nat /\ Len(ls2) = Len(ls) + 1
  OBVIOUS
<1>2. DOMAIN ls = 1..Len(ls) /\ DOMAIN ls2 = 1..(Len(ls) + 1)
  BY <1>1
<1>3. \A i \in 1..Len(ls) : i \in 1..(Len(ls) + 1) /\ ls2[i] = ls[i]
  BY <1>1
<1>4. ls2[Len(ls) + 1] = k /\ Len(ls) + 1 \in 1..(Len(ls) + 1)
  BY <1>1
<1> QED
  BY <1>1, <1>2, <1>3, <1>4

\* A line of units.
LEMMA UnitsLineKeeps ==
    ASSUME NEW ls \in Seq(FeatureSymbolKinds), Len(ls) < MaxLines, NEW p, IsParse(p),
           p.unitOf \in [1..MaxLines -> Units], UnitsKnown(ls, p.unitOf),
           SymbolsKept(ls, p), NEW k \in UnitsKinds,
           NEW ls2, ls2 = Append(ls, k), NEW q, q = UnitsLine(p, k)
    PROVE  /\ IsParse(q) /\ q.tree = p.tree /\ q.units = k
           /\ q.unitOf \in [1..MaxLines -> Units] /\ UnitsKnown(ls2, q.unitOf)
           /\ DefaultKnown(ls2, q.units) /\ SymbolsKept(ls2, q)
<1> DEFINE m == [p EXCEPT !.units = k]
<1>0. k \in FeatureSymbolKinds
  BY DEF FeatureSymbolKinds
<1>1. m = [tree |-> p.tree, units |-> k, unitOf |-> p.unitOf]
  BY DEF IsParse
<1>2. SymbolLines(m) = SymbolLines(p)
  BY <1>1 DEF SymbolLines
<1> DEFINE w == [n \in 1..MaxLines |-> IF n \in SymbolLines(p)
                                       THEN ApplyDefaultUnitTypeIfNone(p.unitOf[n], InferredUnit(k))
                                       ELSE p.unitOf[n]]
<1>3. q = [tree |-> p.tree, units |-> k, unitOf |-> w]
  BY <1>1, <1>2 DEF UnitsLine, ApplyDefaultUnits
<1>4. IsParse(q) /\ q.tree = p.tree /\ q.units = k /\ q.unitOf = w
  BY <1>3 DEF IsParse
<1>5. w \in [1..MaxLines -> Units]
  BY SymbolKindFacts DEF ApplyDefaultUnitTypeIfNone
<1>6. /\ Len(ls) \in Nat /\ DOMAIN ls = 1..Len(ls) /\ DOMAIN ls2 = 1..(Len(ls) + 1)
      /\ \A i \in 1..Len(ls) : i \in 1..(Len(ls) + 1) /\ ls2[i] = ls[i]
      /\ ls2[Len(ls) + 1] = k /\ Len(ls) + 1 \in 1..(Len(ls) + 1)
      /\ \A i \in 1..(Len(ls) + 1) : i # Len(ls) + 1 => i \in 1..Len(ls)
  BY <1>0, OneMore
<1>7. SymbolsKept(ls2, q)
  <2>1. SymbolLines(q) = SymbolLines(p)
    BY <1>4 DEF SymbolLines
  <2> QED
    BY <2>1, <1>6, SymbolKindFacts DEF SymbolsKept
<1>8. ~NoUnits(ls2) /\ \A u : OnlyUnits(ls2, u) => u = Len(ls) + 1 /\ NoUnits(ls)
  <2>1. ~NoUnits(ls2)
    BY <1>6 DEF NoUnits
  <2>2. ASSUME NEW u, OnlyUnits(ls2, u) PROVE u = Len(ls) + 1 /\ NoUnits(ls)
    <3>1. u = Len(ls) + 1
      BY <2>2, <1>6 DEF OnlyUnits
    <3>2. ASSUME NEW v \in DOMAIN ls, ls[v] \in UnitsKinds PROVE FALSE
      <4>1. v \in DOMAIN ls2 /\ ls2[v] \in UnitsKinds
        BY <3>2, <1>6
      <4>2. v = u
        BY <4>1, <2>2 DEF OnlyUnits
      <4> QED
        BY <4>2, <3>1, <1>6
    <3> QED
      BY <3>1, <3>2 DEF NoUnits
  <2> QED
    BY <2>1, <2>2
<1>9. DefaultKnown(ls2, k)
  BY <1>6, <1>8 DEF DefaultKnown
<1>10. UnitsKnown(ls2, w)
  <2> SUFFICES ASSUME NEW s \in DOMAIN ls2, ls2[s] \in SymbolKinds
               PROVE  /\ ls2[s] # "$" => w[s] = SymbolUnit(ls2[s])
                      /\ ls2[s] = "$" /\ NoUnits(ls2) => w[s] = "None"
                      /\ ls2[s] = "$" => \A u : OnlyUnits(ls2, u) => w[s] = InferredUnit(ls2[u])
    BY DEF UnitsKnown
  <2>1. s \in DOMAIN ls /\ ls2[s] = ls[s] /\ s \in 1..MaxLines
    <3>1. s \in DOMAIN ls /\ ls2[s] = ls[s]
      BY <1>6, SymbolKindFacts
    <3> QED
      BY <3>1, <1>6, MaxLinesAssumption
  <2>2. s \in SymbolLines(p)
    BY <2>1 DEF SymbolsKept
  <2>3. w[s] = ApplyDefaultUnitTypeIfNone(p.unitOf[s], InferredUnit(k))
    BY <2>1, <2>2
  <2>4. /\ ls[s] # "$" => p.unitOf[s] = SymbolUnit(ls[s])
        /\ ls[s] = "$" /\ NoUnits(ls) => p.unitOf[s] = "None"
    BY <2>1 DEF UnitsKnown
  <2>5. ls[s] # "$" => w[s] = SymbolUnit(ls[s])
    BY <2>1, <2>3, <2>4, SymbolKindFacts DEF ApplyDefaultUnitTypeIfNone
  <2>6. ls[s] = "$" => \A u : OnlyUnits(ls2, u) => w[s] = InferredUnit(k)
    BY <2>3, <2>4, <1>8 DEF ApplyDefaultUnitTypeIfNone
  <2> QED
    BY <2>1, <2>5, <2>6, <1>6, <1>8
<1> QED
  BY <1>4, <1>5, <1>7, <1>9, <1>10

\* A line that is not one of units leaves the only one alone.
LEMMA UnitsStay ==
    ASSUME NEW ls \in Seq(FeatureSymbolKinds), NEW k \in FeatureSymbolKinds, k \notin UnitsKinds,
           NEW ls2, ls2 = Append(ls, k)
    PROVE  /\ NoUnits(ls2) => NoUnits(ls)
           /\ \A u : OnlyUnits(ls2, u) => OnlyUnits(ls, u) /\ ls2[u] = ls[u]
<1>6. /\ Len(ls) \in Nat /\ DOMAIN ls = 1..Len(ls) /\ DOMAIN ls2 = 1..(Len(ls) + 1)
      /\ \A i \in 1..Len(ls) : i \in 1..(Len(ls) + 1) /\ ls2[i] = ls[i]
      /\ ls2[Len(ls) + 1] = k /\ Len(ls) + 1 \in 1..(Len(ls) + 1)
      /\ \A i \in 1..(Len(ls) + 1) : i # Len(ls) + 1 => i \in 1..Len(ls)
  BY OneMore
<1>1. NoUnits(ls2) => NoUnits(ls)
  BY <1>6 DEF NoUnits
<1>2. ASSUME NEW u, OnlyUnits(ls2, u) PROVE OnlyUnits(ls, u) /\ ls2[u] = ls[u]
  <2>1. u \in 1..Len(ls) /\ ls2[u] = ls[u]
    BY <1>2, <1>6 DEF OnlyUnits
  <2> QED
    BY <2>1, <1>2, <1>6 DEF OnlyUnits
<1> QED
  BY <1>1, <1>2

\* What a push adds.
LEMMA PushIs ==
    ASSUME NEW t, IsTree(t), NEW owner, NEW n, NEW k
    PROVE  Push(t, owner, n, k) = [status |-> t.status, cur |-> t.cur,
                                   kept |-> Append(t.kept, <<owner, n, k>>)]
<1> DEFINE e == <<owner, n, k>>
<1> HIDE DEF e
<1>1. Push(t, owner, n, k) = [t EXCEPT !.kept = Append(t.kept, e)]
  BY DEF Push, e
<1>2. [t EXCEPT !.kept = Append(t.kept, e)]
         = [status |-> t.status, cur |-> t.cur, kept |-> Append(t.kept, e)]
  BY DEF IsTree
<1> QED
  BY <1>1, <1>2 DEF e

LEMMA HoldIs ==
    ASSUME NEW t, IsTree(t), NEW slot, NEW n
    PROVE  Hold(t, slot, n) = [status |-> t.status, cur |-> [t.cur EXCEPT ![slot] = n],
                               kept |-> t.kept]
<1> DEFINE a == t.status
           b == t.cur
           c == t.kept
<1>1. t = [status |-> a, cur |-> b, kept |-> c]
  BY DEF IsTree
<1> HIDE DEF a, b, c
<1>2. Hold(t, slot, n) = [status |-> a, cur |-> [b EXCEPT ![slot] = n], kept |-> c]
  BY <1>1 DEF Hold
<1> QED
  BY <1>2 DEF a, b, c

\* What a flush, the end of the file and a conversion do to the records.
LEMMA FlushIs ==
    ASSUME NEW t, IsTree(t), NEW slot, NEW owner, NEW k
    PROVE  /\ IsTree(Flush(t, slot, owner, k))
           /\ Flush(t, slot, owner, k).status = t.status
           /\ Flush(t, slot, owner, k).cur
                 = IF t.cur[slot] # 0 THEN [t.cur EXCEPT ![slot] = 0] ELSE t.cur
           /\ Flush(t, slot, owner, k).kept
                 = IF t.cur[slot] # 0 THEN Append(t.kept, <<owner, t.cur[slot], k>>) ELSE t.kept
<1> DEFINE e == <<owner, t.cur[slot], k>>
           u == [status |-> t.status, cur |-> t.cur, kept |-> Append(t.kept, e)]
<1> HIDE DEF e
<1>1. Push(t, owner, t.cur[slot], k) = u
  BY PushIs DEF e
<1>2. Drop(u, slot) = [status |-> t.status, cur |-> [t.cur EXCEPT ![slot] = 0],
                       kept |-> Append(t.kept, e)]
  <2> DEFINE w == Append(t.kept, e)
  <2>1. u.status = t.status /\ u.cur = t.cur /\ u.kept = w
    OBVIOUS
  <2>2. IsTree(u)
    BY DEF IsTree
  <2> HIDE DEF u, w
  <2>3. Hold(u, slot, 0) = [status |-> u.status, cur |-> [u.cur EXCEPT ![slot] = 0], kept |-> u.kept]
    BY <2>2, HoldIs
  <2>4. Drop(u, slot) = [status |-> t.status, cur |-> [t.cur EXCEPT ![slot] = 0], kept |-> w]
    BY <2>1, <2>3 DEF Drop
  <2> QED
    BY <2>4 DEF w
<1>3. CASE t.cur[slot] # 0
  <2>1. Flush(t, slot, owner, k) = Drop(u, slot)
    BY <1>1, <1>3 DEF Flush, Holds
  <2> DEFINE f == Flush(t, slot, owner, k)
  <2>2. f = [status |-> t.status, cur |-> [t.cur EXCEPT ![slot] = 0], kept |-> Append(t.kept, e)]
    BY <2>1, <1>2
  <2> HIDE DEF f
  <2>3. IsTree(f)
    BY <2>2 DEF IsTree
  <2> QED
    BY <2>2, <2>3, <1>3 DEF e, f
<1>4. CASE t.cur[slot] = 0
  <2>1. Flush(t, slot, owner, k) = t
    BY <1>4 DEF Flush, Holds
  <2> QED
    BY <2>1, <1>4
<1> QED
  BY <1>3, <1>4

LEMMA AcceptIs ==
    ASSUME NEW t, IsTree(t)
    PROVE  /\ IsTree(Accept(t)) /\ Accept(t).status = "accepted"
           /\ Accept(t).cur = t.cur /\ Accept(t).kept = t.kept
<1>1. Accept(t) = [status |-> "accepted", cur |-> t.cur, kept |-> t.kept]
  BY DEF Accept, IsTree
<1> QED
  BY <1>1 DEF IsTree

LEMMA RoundTripIs ==
    ASSUME NEW t, IsTree(t), NEW messages, NEW ls
    PROVE  /\ IsTree(RoundTrip(t, messages, ls))
           /\ RoundTrip(t, messages, ls).status \in {"unserialisable", "round_trip"}
<1> DEFINE r == RoundTrip(t, messages, ls)
<1>1. r = Unserialisable(t) \/ \E kept : r = [t EXCEPT !.status = "round_trip", !.kept = kept]
  BY DEF RoundTrip
<1> HIDE DEF r
<1>2. CASE r = Unserialisable(t)
  <2>1. r = [status |-> "unserialisable", cur |-> t.cur, kept |-> t.kept]
    BY <1>2 DEF Unserialisable, IsTree
  <2> QED
    BY <2>1 DEF IsTree, r
<1>3. ASSUME NEW kept, r = [t EXCEPT !.status = "round_trip", !.kept = kept]
      PROVE  IsTree(r) /\ r.status = "round_trip"
  <2>1. r = [status |-> "round_trip", cur |-> t.cur, kept |-> kept]
    BY <1>3 DEF IsTree
  <2> QED
    BY <2>1 DEF IsTree
<1> QED
  BY <1>1, <1>2, <1>3 DEF r

SymbolsIn(kept) == {kept[i][2] : i \in {j \in DOMAIN kept : kept[j][3] \in SymbolKinds}}

LEMMA PushedSymbols ==
    ASSUME NEW X, NEW a \in Seq(X), NEW e
    PROVE  /\ \E Y : Append(a, e) \in Seq(Y)
           /\ \A m : m \in SymbolsIn(Append(a, e))
                     <=> m \in SymbolsIn(a) \/ (m = e[2] /\ e[3] \in SymbolKinds)
<1> DEFINE b == Append(a, e)
           Y == X \union {e}
<1>1. a \in Seq(Y) /\ e \in Y
  BY SeqMonotonic
<1> HIDE DEF Y, b
<1>2. b = Append(a, e)
  BY DEF b
<1>3. /\ b \in Seq(Y) /\ DOMAIN a = 1..Len(a) /\ DOMAIN b = 1..(Len(a) + 1)
      /\ \A i \in 1..Len(a) : i \in 1..(Len(a) + 1) /\ b[i] = a[i]
      /\ b[Len(a) + 1] = e /\ Len(a) + 1 \in 1..(Len(a) + 1)
      /\ \A i \in 1..(Len(a) + 1) : i # Len(a) + 1 => i \in 1..Len(a)
  BY <1>1, <1>2, OneMore
<1>4. \A m : m \in SymbolsIn(a) <=> \E i \in DOMAIN a : a[i][3] \in SymbolKinds /\ m = a[i][2]
  BY DEF SymbolsIn
<1>5. \A m : m \in SymbolsIn(b) <=> \E i \in DOMAIN b : b[i][3] \in SymbolKinds /\ m = b[i][2]
  BY DEF SymbolsIn
<1>7. \A m : m \in SymbolsIn(b) => m \in SymbolsIn(a) \/ (m = e[2] /\ e[3] \in SymbolKinds)
  BY <1>3, <1>4, <1>5
<1>8. \A m : m \in SymbolsIn(a) => m \in SymbolsIn(b)
  BY <1>3, <1>4, <1>5
<1>9. e[3] \in SymbolKinds => e[2] \in SymbolsIn(b)
  BY <1>3, <1>5
<1> QED
  BY <1>3, <1>7, <1>8, <1>9 DEF b

\* A line that is not one of units, a symbol or not.
LEMMA OtherLineKeeps ==
    ASSUME NEW ls \in Seq(FeatureSymbolKinds), Len(ls) < MaxLines, NEW p, IsParse(p), IsTree(p.tree),
           p.unitOf \in [1..MaxLines -> Units], UnitsKnown(ls, p.unitOf),
           DefaultKnown(ls, p.units), SymbolsKept(ls, p), NEW X, p.tree.kept \in Seq(X),
           NEW k \in FeatureSymbolKinds, k \notin UnitsKinds,
           NEW ls2, ls2 = Append(ls, k), NEW q, q = FeaturesLine(p, k, Len(ls) + 1)
    PROVE  /\ IsParse(q) /\ IsTree(q.tree) /\ \E Y : q.tree.kept \in Seq(Y)
           /\ q.unitOf \in [1..MaxLines -> Units] /\ UnitsKnown(ls2, q.unitOf)
           /\ DefaultKnown(ls2, q.units) /\ SymbolsKept(ls2, q)
<1> DEFINE n == Len(ls) + 1
           t == p.tree
           b == [status |-> t.status, cur |-> t.cur, kept |-> Append(t.kept, <<0, n, k>>)]
           w == IF k \in SymbolKinds
                THEN [p.unitOf EXCEPT ![n] = ApplyDefaultUnitTypeIfNone(SymbolUnit(k), InferredUnit(p.units))]
                ELSE p.unitOf
<1>1. Push(t, 0, n, k) = b
  BY PushIs
<1>2. q = [tree |-> b, units |-> p.units, unitOf |-> w]
  <2>1. p = [tree |-> t, units |-> p.units, unitOf |-> p.unitOf]
    BY DEF IsParse
  <2>2. CASE k \in SymbolKinds
    <3>1. q = SymbolLine(p, k, n)
      BY <2>2 DEF FeaturesLine
    <3>2. SymbolLine(p, k, n) = [p EXCEPT !.tree = Push(t, 0, n, k), !.unitOf = w]
      BY <2>1, <2>2 DEF SymbolLine
    <3>3. q = [p EXCEPT !.tree = b, !.unitOf = w]
      BY <3>1, <3>2, <1>1
    <3> HIDE DEF b, w
    <3> QED
      BY <3>3, <2>1
  <2>3. CASE k \notin SymbolKinds
    <3>1. k = "L"
      BY <2>3, SymbolKindFacts
    <3>2. q = [p EXCEPT !.tree = FeatureTreeLine(t, k, n)]
      BY <2>3 DEF FeaturesLine
    <3>3. FeatureTreeLine(t, k, n) = Push(t, 0, n, k)
      BY <3>1 DEF FeatureTreeLine, LineFeature
    <3>4. q = [p EXCEPT !.tree = b] /\ w = p.unitOf
      BY <3>2, <3>3, <1>1, <2>3
    <3> HIDE DEF b, w
    <3> QED
      BY <3>4, <2>1
  <2> QED
    BY <2>2, <2>3
<1>3. q.tree = b /\ q.units = p.units /\ q.unitOf = w
  <2> HIDE DEF b, w
  <2> QED
    BY <1>2
<1>4. IsParse(q) /\ IsTree(q.tree)
  BY <1>2 DEF IsParse, IsTree
<1>6. /\ Len(ls) \in Nat /\ DOMAIN ls = 1..Len(ls) /\ DOMAIN ls2 = 1..(Len(ls) + 1)
      /\ \A i \in 1..Len(ls) : i \in 1..(Len(ls) + 1) /\ ls2[i] = ls[i]
      /\ ls2[Len(ls) + 1] = k /\ Len(ls) + 1 \in 1..(Len(ls) + 1)
      /\ \A i \in 1..(Len(ls) + 1) : i # Len(ls) + 1 => i \in 1..Len(ls)
  BY OneMore
<1>7. n \in 1..MaxLines
  BY <1>6, MaxLinesAssumption
<1>8. /\ \E Y : q.tree.kept \in Seq(Y)
      /\ \A m : m \in SymbolLines(q) <=> m \in SymbolLines(p) \/ (m = n /\ k \in SymbolKinds)
  <2> DEFINE e == <<0, n, k>>
  <2>1. q.tree.kept = Append(p.tree.kept, e)
    BY <1>3
  <2>5. e[2] = n /\ e[3] = k
    OBVIOUS
  <2>2. SymbolLines(q) = SymbolsIn(q.tree.kept) /\ SymbolLines(p) = SymbolsIn(p.tree.kept)
    BY DEF SymbolLines, SymbolsIn
  <2> HIDE DEF n, b, w, e, t
  <2> DEFINE o == p.tree.kept
             c == q.tree.kept
  <2>8. o \in Seq(X) /\ c = Append(o, e)
    BY <2>1
  <2> HIDE DEF o, c
  <2>9. /\ \E Y : c \in Seq(Y)
        /\ \A m : m \in SymbolsIn(c) <=> m \in SymbolsIn(o) \/ (m = e[2] /\ e[3] \in SymbolKinds)
    BY ONLY <2>8, PushedSymbols
  <2>3. \E Y : q.tree.kept \in Seq(Y)
    BY <2>9 DEF c
  <2>6. \A m : m \in SymbolsIn(q.tree.kept)
                 <=> m \in SymbolsIn(p.tree.kept) \/ (m = e[2] /\ e[3] \in SymbolKinds)
    BY <2>9 DEF o, c
  <2>4. \A m : m \in SymbolLines(q) <=> m \in SymbolLines(p) \/ (m = n /\ k \in SymbolKinds)
    BY <2>6, <2>2, <2>5
  <2> QED
    BY <2>3, <2>4
<1>9. SymbolsKept(ls2, q)
  BY <1>6, <1>8 DEF SymbolsKept
<1> HIDE DEF b
<1>10. /\ NoUnits(ls2) => NoUnits(ls)
       /\ \A u : OnlyUnits(ls2, u) => OnlyUnits(ls, u) /\ ls2[u] = ls[u]
  BY UnitsStay
<1>11. DefaultKnown(ls2, q.units)
  BY <1>3, <1>10 DEF DefaultKnown
<1>12. w \in [1..MaxLines -> Units] /\ (k \in SymbolKinds =>
             w[n] = ApplyDefaultUnitTypeIfNone(SymbolUnit(k), InferredUnit(p.units)))
       /\ \A s \in 1..MaxLines : s # n => w[s] = p.unitOf[s]
  BY <1>7, SymbolKindFacts DEF ApplyDefaultUnitTypeIfNone
<1>13. UnitsKnown(ls2, w)
  <2> SUFFICES ASSUME NEW s \in DOMAIN ls2, ls2[s] \in SymbolKinds
               PROVE  /\ ls2[s] # "$" => w[s] = SymbolUnit(ls2[s])
                      /\ ls2[s] = "$" /\ NoUnits(ls2) => w[s] = "None"
                      /\ ls2[s] = "$" => \A u : OnlyUnits(ls2, u) => w[s] = InferredUnit(ls2[u])
    BY DEF UnitsKnown
  <2> HIDE DEF w
  <2>1. CASE s = n
    <3>1. ls2[s] = k /\ k \in SymbolKinds
      BY <2>1, <1>6
    <3>2. w[s] = ApplyDefaultUnitTypeIfNone(SymbolUnit(k), InferredUnit(p.units))
      BY <2>1, <3>1, <1>12
    <3>3. k # "$" => w[s] = SymbolUnit(k)
      BY <3>1, <3>2, SymbolKindFacts DEF ApplyDefaultUnitTypeIfNone
    <3>4. k = "$" => w[s] = InferredUnit(p.units)
      BY <3>2, SymbolKindFacts DEF ApplyDefaultUnitTypeIfNone
    <3>5. NoUnits(ls2) => InferredUnit(p.units) = "None"
      BY <1>10, SymbolKindFacts DEF DefaultKnown
    <3>6. \A u : OnlyUnits(ls2, u) => p.units = ls2[u]
      BY <1>10 DEF DefaultKnown
    <3> QED
      BY <3>1, <3>3, <3>4, <3>5, <3>6
  <2>2. CASE s # n
    <3>1. s \in DOMAIN ls /\ ls2[s] = ls[s]
      BY <2>2, <1>6
    <3>2. w[s] = p.unitOf[s]
      BY <3>1, <2>2, <1>6, <1>12, MaxLinesAssumption
    <3>3. /\ ls[s] # "$" => p.unitOf[s] = SymbolUnit(ls[s])
          /\ ls[s] = "$" /\ NoUnits(ls) => p.unitOf[s] = "None"
          /\ ls[s] = "$" => \A u : OnlyUnits(ls, u) => p.unitOf[s] = InferredUnit(ls[u])
      BY <3>1 DEF UnitsKnown
    <3> QED
      BY <3>1, <3>2, <3>3, <1>10
  <2> QED
    BY <2>1, <2>2
<1> QED
  BY <1>3, <1>4, <1>8, <1>9, <1>11, <1>12, <1>13

LEMMA SymbolsNext == SymbolsInv /\ [Next]_fileVars => SymbolsInv'
<1> SUFFICES ASSUME SymbolsInv, [Next]_fileVars, part = "symbols"
             PROVE  SymbolsInv'
  BY StepOfPart DEF SymbolsInv
<1>0. part' = "symbols" /\ (FileNext \/ UNCHANGED <<lines, parse>>)
  BY StepOfPart DEF Formats
<1>1. /\ lines \in Seq(FeatureSymbolKinds) /\ Len(lines) <= MaxLines
      /\ IsParse(parse) /\ IsTree(parse.tree) /\ parse.unitOf \in [1..MaxLines -> Units]
      /\ UnitsKnown(lines, parse.unitOf)
  BY DEF SymbolsInv
<1>2. CASE ReadLine
  <2>1. /\ Len(lines) < MaxLines /\ \E X : parse.tree.kept \in Seq(X)
        /\ DefaultKnown(lines, parse.units) /\ SymbolsKept(lines, parse)
    BY <1>2 DEF ReadLine, SymbolsInv
  <2>2. PICK kind \in LineKinds[part] :
           lines' = Append(lines, kind) /\ parse' = AfterLine(kind, Len(lines) + 1)
    BY <1>2 DEF ReadLine
  <2>3. kind \in FeatureSymbolKinds
    BY <2>2 DEF LineKinds, Formats
  <2>4. parse' = FeaturesLine(parse, kind, Len(lines) + 1)
    BY <2>2 DEF AfterLine
  <2>5. lines' \in Seq(FeatureSymbolKinds) /\ Len(lines') <= MaxLines
    BY <1>1, <2>1, <2>2, <2>3, MaxLinesAssumption
  <2>6. PICK X : parse.tree.kept \in Seq(X)
    BY <2>1
  <2>7. CASE kind \in UnitsKinds
    <3>1. parse' = UnitsLine(parse, kind)
      BY <2>4, <2>7, SymbolKindFacts DEF FeaturesLine
    <3>2. /\ IsParse(parse') /\ parse'.tree = parse.tree
          /\ parse'.unitOf \in [1..MaxLines -> Units] /\ UnitsKnown(lines', parse'.unitOf)
          /\ DefaultKnown(lines', parse'.units) /\ SymbolsKept(lines', parse')
      <4> DEFINE ls == lines
                 ls2 == lines'
                 p == parse
                 q == parse'
      <4>1. /\ ls \in Seq(FeatureSymbolKinds) /\ Len(ls) < MaxLines /\ IsParse(p)
            /\ p.unitOf \in [1..MaxLines -> Units] /\ UnitsKnown(ls, p.unitOf)
            /\ SymbolsKept(ls, p) /\ kind \in UnitsKinds
            /\ ls2 = Append(ls, kind) /\ q = UnitsLine(p, kind)
        BY <1>1, <2>1, <2>2, <2>7, <3>1
      <4> HIDE DEF ls, ls2, p, q
      <4>2. IsParse(q)
        BY <4>1, UnitsLineKeeps
      <4>3. q.tree = p.tree
        BY <4>1, UnitsLineKeeps
      <4>4. q.unitOf \in [1..MaxLines -> Units]
        BY <4>1, UnitsLineKeeps
      <4>5. UnitsKnown(ls2, q.unitOf)
        BY <4>1, UnitsLineKeeps
      <4>6. DefaultKnown(ls2, q.units)
        BY <4>1, UnitsLineKeeps
      <4>7. SymbolsKept(ls2, q)
        BY <4>1, UnitsLineKeeps
      <4> QED
        BY <4>2, <4>3, <4>4, <4>5, <4>6, <4>7 DEF ls2, p, q
    <3> QED
      BY <2>1, <2>5, <3>2 DEF SymbolsInv
  <2>8. CASE kind \notin UnitsKinds
    <3>1. /\ IsParse(parse') /\ IsTree(parse'.tree) /\ \E Y : parse'.tree.kept \in Seq(Y)
          /\ parse'.unitOf \in [1..MaxLines -> Units] /\ UnitsKnown(lines', parse'.unitOf)
          /\ DefaultKnown(lines', parse'.units) /\ SymbolsKept(lines', parse')
      BY <1>1, <2>1, <2>2, <2>3, <2>4, <2>6, <2>8, OtherLineKeeps
    <3> QED
      BY <2>5, <3>1 DEF SymbolsInv
  <2> QED
    BY <2>7, <2>8
<1>3. ASSUME NEW tree, parse' = [parse EXCEPT !.tree = tree], lines' = lines, IsTree(tree),
             parse'.tree.status # "reading"
      PROVE  SymbolsInv'
  <2>1. IsParse(parse') /\ parse'.unitOf = parse.unitOf /\ parse'.tree = tree
    BY <1>1, <1>3 DEF IsParse
  <2> QED
    BY <1>1, <1>3, <2>1 DEF SymbolsInv
<1>4. CASE EndOfFile
  <2> DEFINE tree == Accept(Flush(parse.tree, "surface", 0, "S"))
  <2>1. parse' = [parse EXCEPT !.tree = tree] /\ lines' = lines
    BY <1>4 DEF EndOfFile, AtEnd, FeaturesEnd
  <2>2. IsTree(tree) /\ tree.status = "accepted"
    BY <1>1, FlushIs, AcceptIs
  <2>3. parse'.tree = tree
    BY <1>1, <2>1 DEF IsParse
  <2> HIDE DEF tree
  <2> QED
    BY <2>1, <2>2, <2>3, <1>3
<1>5. CASE Convert
  <2> DEFINE tree == RoundTrip(parse.tree, FeaturesMessages, lines)
  <2>1. parse' = [parse EXCEPT !.tree = tree] /\ lines' = lines /\ parse.tree.status = "accepted"
    BY <1>5 DEF Convert, Converted
  <2>2. parse'.tree = tree
    BY <1>1, <2>1 DEF IsParse
  <2>3. IsTree(tree) /\ tree.status # "reading"
    BY <1>1, RoundTripIs
  <2> HIDE DEF tree
  <2> QED
    BY <2>1, <2>2, <2>3, <1>3
<1>6. CASE UNCHANGED <<lines, parse>>
  BY <1>0, <1>6 DEF SymbolsInv
<1> QED
  BY <1>0, <1>2, <1>4, <1>5, <1>6 DEF FileNext

\* In a file with one line of units, a symbol without a unit type of its own has
\* that line's wherever the line stands, and one with its own keeps it
\* (FeaturesFile::Parse and apply_default_units_to_symbols), for files of any length.
THEOREM SymbolUnitsAreResolved == Spec => []SymbolUnitsResolved
<1>1. SymbolsInv => SymbolUnitsResolved
  <2> SUFFICES ASSUME SymbolsInv, part = "symbols",
                      Cardinality({n \in DOMAIN lines : lines[n] \in UnitsKinds}) = 1,
                      NEW s \in {n \in DOMAIN lines : lines[n] \in SymbolKinds}
               PROVE  \E u \in {n \in DOMAIN lines : lines[n] \in UnitsKinds} :
                         parse.unitOf[s] = IF lines[s] = "$" THEN InferredUnit(lines[u])
                                           ELSE SymbolUnit(lines[s])
    BY DEF SymbolUnitsResolved
  <2> DEFINE unitsAt == {n \in DOMAIN lines : lines[n] \in UnitsKinds}
  <2>1. lines \in Seq(FeatureSymbolKinds) /\ UnitsKnown(lines, parse.unitOf)
    BY DEF SymbolsInv
  <2>2. DOMAIN lines = 1..Len(lines) /\ Len(lines) \in Nat
    BY <2>1
  <2>3. IsFiniteSet(DOMAIN lines)
    BY <2>2, FS_Interval
  <2>4. IsFiniteSet(unitsAt)
    BY <2>3, FS_Subset
  <2>5. PICK u : unitsAt = {u}
    BY <2>4, FS_Singleton
  <2>6. OnlyUnits(lines, u)
    BY <2>5 DEF OnlyUnits
  <2>7. parse.unitOf[s] = IF lines[s] = "$" THEN InferredUnit(lines[u]) ELSE SymbolUnit(lines[s])
    BY <2>1, <2>6 DEF UnitsKnown
  <2> QED
    BY <2>5, <2>7
<1> QED
  BY <1>1, SymbolsInit, SymbolsNext, PTL DEF Spec

-----------------------------------------------------------------------------
(* FileArchive: PartsOfAll is a fold, that is a function defined by        *)
(* recursion on the subsets of a finite set.                               *)

\* A non-empty set of finite sets has a member that no member is smaller than.
LEMMA SmallestSet ==
    ASSUME NEW F, F # {}, \A s \in F : IsFiniteSet(s)
    PROVE  \E s \in F : \A u \in F : Cardinality(s) <= Cardinality(u)
<1> DEFINE T == {Cardinality(s) : s \in F}
<1>1. T \in SUBSET Nat /\ T # {}
  BY FS_CardinalityType
<1>2. PICK m \in T : \A k \in T : m <= k
  BY <1>1, LeastNat
<1> QED
  BY <1>2

Pick(s) == CHOOSE x \in s : TRUE

\* Pick takes an element, which leaves a smaller set.
LEMMA PickSmaller ==
    ASSUME NEW s, IsFiniteSet(s), s # {}
    PROVE  /\ Pick(s) \in s /\ IsFiniteSet(s \ {Pick(s)})
           /\ Cardinality(s \ {Pick(s)}) < Cardinality(s)
<1>1. Pick(s) \in s
  BY DEF Pick
<1>2. Cardinality(s) \in Nat
  BY FS_CardinalityType
<1> QED
  BY <1>1, <1>2, FS_RemoveElement

Join(a, b) == a \o b

\* g concatenates what f has for the elements of the subsets of S.
IsCat(f, S, g) ==
    g = [s \in SUBSET S |-> IF s = {} THEN <<>> ELSE Join(f[Pick(s)], g[s \ {Pick(s)}])]

CatFun(f, S) == CHOOSE g : IsCat(f, S, g)

\* What a concatenation says of one subset.
LEMMA CatAt ==
    ASSUME NEW f, NEW S, NEW g, IsCat(f, S, g), NEW s \in SUBSET S
    PROVE  g[s] = IF s = {} THEN <<>> ELSE Join(f[Pick(s)], g[s \ {Pick(s)}])
  BY DEF IsCat

\* Two concatenations agree on the subsets they share.
LEMMA CatsAgree ==
    ASSUME NEW f, NEW S, NEW R, NEW g, NEW h, IsCat(f, S, g),
           IsCat(f, R, h), NEW s \in SUBSET S, s \subseteq R, IsFiniteSet(S)
    PROVE  g[s] = h[s]
<1> DEFINE F == {u \in SUBSET S : u \subseteq R /\ g[u] # h[u]}
<1>1. SUFFICES F = {}
  OBVIOUS
<1>2. SUFFICES ASSUME F # {} PROVE FALSE
  OBVIOUS
<1>3. \A u \in F : IsFiniteSet(u)
  BY FS_Subset
<1>4. PICK u \in F : \A v \in F : Cardinality(u) <= Cardinality(v)
  BY <1>2, <1>3, SmallestSet
<1>5. u # {}
  <2>1. g[{}] = <<>> /\ h[{}] = <<>>
    BY CatAt
  <2> QED
    BY <1>4, <2>1
<1> DEFINE v == u \ {Pick(u)}
<1>6. /\ v \in SUBSET S /\ v \subseteq R /\ Cardinality(v) < Cardinality(u)
      /\ Cardinality(v) \in Nat /\ Cardinality(u) \in Nat
  BY <1>3, <1>4, <1>5, PickSmaller, FS_CardinalityType
<1>7. g[v] = h[v]
  BY <1>4, <1>6
<1> HIDE DEF v
<1>8. /\ g[u] = Join(f[Pick(u)], g[v])
      /\ h[u] = Join(f[Pick(u)], h[v])
  BY <1>4, <1>5, CatAt DEF v
<1> QED
  BY <1>4, <1>7, <1>8

\* Every finite set has one.
LEMMA CatExists ==
    ASSUME NEW f, NEW S, IsFiniteSet(S)
    PROVE  IsCat(f, S, CatFun(f, S))
<1> DEFINE F == {s \in SUBSET S : ~ \E g : IsCat(f, s, g)}
<1>1. SUFFICES F = {}
  <2>1. \E g : IsCat(f, S, g)
    BY <1>1
  <2> QED
    BY <2>1 DEF CatFun
<1>2. SUFFICES ASSUME F # {} PROVE FALSE
  OBVIOUS
<1>3. \A u \in SUBSET S : IsFiniteSet(u) /\ Cardinality(u) \in Nat
  BY FS_Subset, FS_CardinalityType
<1>4. PICK R \in F : \A v \in F : Cardinality(R) <= Cardinality(v)
  BY <1>2, <1>3, SmallestSet
<1> DEFINE rest(s) == s \ {Pick(s)}
           below(s) == CatFun(f, rest(s))
           G == [s \in SUBSET R |-> IF s = {} THEN <<>>
                                    ELSE Join(f[Pick(s)], below(s)[rest(s)])]
<1>5. ASSUME NEW s \in SUBSET R, s # {}
      PROVE  rest(s) \in SUBSET R /\ IsCat(f, rest(s), below(s))
  <2>1. Cardinality(rest(s)) < Cardinality(s) /\ Cardinality(s) <= Cardinality(R)
    BY <1>3, <1>4, <1>5, PickSmaller, FS_Subset
  <2>2. rest(s) \in SUBSET S /\ rest(s) \notin F
    BY <1>3, <1>4, <2>1
  <2> QED
    BY <2>2 DEF CatFun
<1>6. ASSUME NEW s \in SUBSET R, s # {}
      PROVE  G[rest(s)] = below(s)[rest(s)]
  <2> DEFINE r == rest(s)
  <2>1. r \in SUBSET R /\ IsCat(f, r, below(s)) /\ IsFiniteSet(r)
    BY <1>3, <1>4, <1>5, <1>6
  <2>2. CASE r = {}
    BY <2>1, <2>2, CatAt
  <2>3. CASE r # {}
    <3>1. IsCat(f, rest(r), below(r)) /\ rest(r) \in SUBSET r
      BY <1>5, <2>1, <2>3
    <3>2. below(s)[rest(r)] = below(r)[rest(r)]
      BY <2>1, <3>1, CatsAgree
    <3>3. below(s)[r] = Join(f[Pick(r)], below(s)[rest(r)])
      <4> DEFINE b == below(s)
      <4>1. IsCat(f, r, b) /\ r \in SUBSET r
        BY <2>1
      <4> HIDE DEF b, r
      <4> QED
        BY <2>3, <4>1, CatAt DEF b
    <3>4. G[r] = Join(f[Pick(r)], below(r)[rest(r)])
      BY <2>1, <2>3
    <3> QED
      BY <3>2, <3>3, <3>4
  <2> QED
    BY <2>2, <2>3
<1>7. \A s \in SUBSET R :
         G[s] = IF s = {} THEN <<>> ELSE Join(f[Pick(s)], G[s \ {Pick(s)}])
  BY <1>6
<1>8. DOMAIN G = SUBSET R
  OBVIOUS
<1>9. G = [s \in SUBSET R |-> G[s]]
  OBVIOUS
<1> HIDE DEF G
<1>10. IsCat(f, R, G)
  BY <1>7, <1>8, <1>9 DEF IsCat
<1> QED
  BY <1>4, <1>10

\* Where an element of f[x] stands in r, what f[x] has before it stands before it.
InOrder(f, s, r) ==
    \A i \in 1..Len(r) :
       \E x \in s : \E k \in 1..Len(f[x]) :
          /\ r[i] = f[x][k]
          /\ \A j \in 1..Len(f[x]) : j < k =>
                \E h \in 1..Len(r) : h < i /\ r[h] = f[x][j]

HasAll(f, s, r) ==
    \A x \in s : \A k \in 1..Len(f[x]) : \E i \in 1..Len(r) : r[i] = f[x][k]

\* One more element of the set.
LEMMA JoinKeepsOrder ==
    ASSUME NEW X, NEW f, NEW s, NEW x \in s, f[x] \in Seq(X), NEW q \in Seq(X),
           InOrder(f, s \ {x}, q), HasAll(f, s \ {x}, q), NEW r, r = Join(f[x], q)
    PROVE  r \in Seq(X) /\ InOrder(f, s, r) /\ HasAll(f, s, r)
<1> DEFINE a == f[x]
           m == Len(a)
           n == Len(q)
<1>1. /\ r \in Seq(X) /\ m \in Nat /\ n \in Nat /\ Len(r) = m + n
      /\ \A i \in 1..m : r[i] = a[i]
      /\ \A i \in 1..n : r[m + i] = q[i]
  <2>1. a \in Seq(X) /\ q \in Seq(X) /\ r = a \o q
    BY DEF Join
  <2> HIDE DEF a
  <2> QED
    BY ONLY <2>1 DEF m, n
<1>2. \A i \in 1..(m + n) : i \in 1..m \/ (i - m \in 1..n /\ r[i] = q[i - m])
  <2> TAKE i \in 1..(m + n)
  <2>1. CASE i <= m
    BY <2>1, <1>1
  <2>2. CASE ~(i <= m)
    <3>1. i - m \in 1..n /\ m + (i - m) = i
      BY <2>2, <1>1
    <3> QED
      BY <3>1, <1>1
  <2> QED
    BY <2>1, <2>2
<1>3. \A i \in 1..m : i \in 1..(m + n)
  BY <1>1
<1>4. \A i \in 1..n : m + i \in 1..(m + n)
  BY <1>1
<1> HIDE DEF m, n
<1>5. HasAll(f, s, r)
  <2> SUFFICES ASSUME NEW y \in s, NEW k \in 1..Len(f[y])
               PROVE  \E i \in 1..(m + n) : r[i] = f[y][k]
    BY <1>1 DEF HasAll
  <2>1. CASE y = x
    <3>1. k \in 1..m /\ r[k] = f[y][k] /\ k \in 1..(m + n)
      BY <2>1, <1>1, <1>3 DEF m
    <3> QED
      BY <3>1
  <2>2. CASE y # x
    <3>1. PICK i \in 1..n : q[i] = f[y][k]
      BY <2>2 DEF HasAll, n
    <3>2. m + i \in 1..(m + n) /\ r[m + i] = f[y][k]
      BY <3>1, <1>1, <1>4
    <3> QED
      BY <3>2
  <2> QED
    BY <2>1, <2>2
<1>6. InOrder(f, s, r)
  <2> SUFFICES ASSUME NEW i \in 1..Len(r)
               PROVE  \E y \in s : \E k \in 1..Len(f[y]) :
                         /\ r[i] = f[y][k]
                         /\ \A j \in 1..Len(f[y]) : j < k =>
                               \E h \in 1..Len(r) : h < i /\ r[h] = f[y][j]
    BY DEF InOrder
  <2>3. Len(r) = m + n /\ i \in 1..(m + n)
    BY <1>1
  <2>1. CASE i \in 1..m
    <3>1. i \in 1..Len(f[x]) /\ r[i] = f[x][i]
      BY <2>1, <1>1 DEF m
    <3>2. \A j \in 1..Len(f[x]) : j \in 1..Len(r) /\ r[j] = f[x][j]
      BY <1>1, <1>3 DEF m
    <3> QED
      BY <3>1, <3>2
  <2>2. CASE i \notin 1..m
    <3>1. i - m \in 1..n /\ r[i] = q[i - m]
      BY <2>2, <2>3, <1>2
    <3>2. PICK y \in s \ {x} : \E k \in 1..Len(f[y]) :
             /\ q[i - m] = f[y][k]
             /\ \A j \in 1..Len(f[y]) : j < k => \E h \in 1..n : h < i - m /\ q[h] = f[y][j]
      BY <3>1 DEF InOrder, n
    <3>3. PICK k \in 1..Len(f[y]) :
             /\ q[i - m] = f[y][k]
             /\ \A j \in 1..Len(f[y]) : j < k => \E h \in 1..n : h < i - m /\ q[h] = f[y][j]
      BY <3>2
    <3>4. ASSUME NEW j \in 1..Len(f[y]), j < k
          PROVE  \E h \in 1..Len(r) : h < i /\ r[h] = f[y][j]
      <4>1. PICK h \in 1..n : h < i - m /\ q[h] = f[y][j]
        BY <3>3, <3>4
      <4>2. m + h \in 1..Len(r) /\ r[m + h] = f[y][j] /\ m + h < i
        BY <4>1, <2>3, <1>1, <1>4
      <4> QED
        BY <4>2
    <3> QED
      BY <3>1, <3>3, <3>4
  <2> QED
    BY <2>1, <2>2
<1> QED
  BY <1>1, <1>5, <1>6

\* What the concatenation over a finite set has, and in which order.
LEMMA CatInOrder ==
    ASSUME NEW X, NEW S, IsFiniteSet(S), NEW f, \A x \in S : f[x] \in Seq(X)
    PROVE  LET r == CatFun(f, S)[S]
           IN  r \in Seq(X) /\ InOrder(f, S, r) /\ HasAll(f, S, r)
<1> DEFINE g == CatFun(f, S)
           Good(s) == g[s] \in Seq(X) /\ InOrder(f, s, g[s]) /\ HasAll(f, s, g[s])
           F == {s \in SUBSET S : ~Good(s)}
<1>1. IsCat(f, S, g)
  BY CatExists
<1>2. SUFFICES ASSUME F # {} PROVE FALSE
  OBVIOUS
<1>3. \A s \in SUBSET S : IsFiniteSet(s)
  BY FS_Subset
<1>4. PICK s \in F : \A u \in F : Cardinality(s) <= Cardinality(u)
  <2> HIDE DEF Good, g
  <2>1. \A u \in F : IsFiniteSet(u)
    BY <1>3
  <2> HIDE DEF F
  <2> QED
    BY <1>2, <2>1, SmallestSet
<1>5. s \in SUBSET S /\ IsFiniteSet(s)
  BY <1>3
<1> HIDE DEF g
<1>6. CASE s = {}
  <2>1. g[s] = <<>>
    BY <1>1, <1>5, <1>6, CatAt
  <2>2. g[s] \in Seq(X) /\ Len(g[s]) = 0
    BY <2>1, EmptySeq
  <2>3. Good(s)
    BY <1>6, <2>2 DEF InOrder, HasAll
  <2> QED
    BY <2>3
<1>7. CASE s # {}
  <2> DEFINE u == s \ {Pick(s)}
  <2>1. Pick(s) \in s /\ IsFiniteSet(u) /\ Cardinality(u) < Cardinality(s)
    BY <1>5, <1>7, PickSmaller
  <2>2. Cardinality(u) \in Nat /\ Cardinality(s) \in Nat
    BY <1>5, <2>1, FS_CardinalityType
  <2>3. u \in SUBSET S /\ u \notin F
    BY <1>4, <1>5, <2>1, <2>2
  <2>4. Good(u)
    BY <2>3
  <2>5. g[s] = Join(f[Pick(s)], g[s \ {Pick(s)}])
    <3> HIDE DEF F, Good
    <3>1. s \in SUBSET S
      BY <1>5
    <3>2. g[s] = IF s = {} THEN <<>> ELSE Join(f[Pick(s)], g[s \ {Pick(s)}])
      BY <1>1, <3>1 DEF IsCat
    <3> QED
      BY <3>2, <1>7
  <2>6. f[Pick(s)] \in Seq(X)
    BY <1>5, <2>1
  <2>7. Good(s)
    BY <2>1, <2>4, <2>5, <2>6, JoinKeepsOrder
  <2> QED
    BY <2>7
<1> QED
  BY <1>6, <1>7

-----------------------------------------------------------------------------
(* The parts of an archive, in the order they are parsed.                  *)

Files == {"layers", "components", "features", "layer attrlist", "tools", "netlists", "eda",
          "attrlist", "profile", "stephdr", "misc info", "matrix", "fonts", "misc attrlist"}

Parts == {"step", "symbol", "root"} \X (Steps \union Symbols \union {""}) \X Files

Header(s) == <<"step", s, "stephdr">>
LastSymbolPart(s) == <<"symbol", s, "attrlist">>

LEMMA LayerPartsAre ==
    ASSUME NEW s \in Steps
    PROVE  /\ LayerParts(s) \in Seq(Parts) /\ Len(LayerParts(s)) = 5
           /\ \A k \in 1..5 : LayerParts(s)[k][1] = "step" /\ LayerParts(s)[k][2] = s
                              /\ LayerParts(s)[k][3] # "stephdr"
<1> DEFINE a == <<"step", s, "layers">>
           b == <<"step", s, "components">>
           c == <<"step", s, "features">>
           d == <<"step", s, "layer attrlist">>
           e == <<"step", s, "tools">>
<1>1. /\ a \in Parts /\ a[1] = "step" /\ a[2] = s /\ a[3] # "stephdr"
      /\ b \in Parts /\ b[1] = "step" /\ b[2] = s /\ b[3] # "stephdr"
      /\ c \in Parts /\ c[1] = "step" /\ c[2] = s /\ c[3] # "stephdr"
      /\ d \in Parts /\ d[1] = "step" /\ d[2] = s /\ d[3] # "stephdr"
      /\ e \in Parts /\ e[1] = "step" /\ e[2] = s /\ e[3] # "stephdr"
  <2>1. a \in Parts /\ a[1] = "step" /\ a[2] = s /\ a[3] # "stephdr"
    <3>1. a \in Parts
      BY DEF Parts, Files
    <3>2. a[1] = "step" /\ a[2] = s /\ a[3] # "stephdr"
      OBVIOUS
    <3> QED
      BY <3>1, <3>2
  <2>2. b \in Parts /\ b[1] = "step" /\ b[2] = s /\ b[3] # "stephdr"
    <3>1. b \in Parts
      BY DEF Parts, Files
    <3>2. b[1] = "step" /\ b[2] = s /\ b[3] # "stephdr"
      OBVIOUS
    <3> QED
      BY <3>1, <3>2
  <2>3. c \in Parts /\ c[1] = "step" /\ c[2] = s /\ c[3] # "stephdr"
    <3>1. c \in Parts
      BY DEF Parts, Files
    <3>2. c[1] = "step" /\ c[2] = s /\ c[3] # "stephdr"
      OBVIOUS
    <3> QED
      BY <3>1, <3>2
  <2>4. d \in Parts /\ d[1] = "step" /\ d[2] = s /\ d[3] # "stephdr"
    <3>1. d \in Parts
      BY DEF Parts, Files
    <3>2. d[1] = "step" /\ d[2] = s /\ d[3] # "stephdr"
      OBVIOUS
    <3> QED
      BY <3>1, <3>2
  <2>5. e \in Parts /\ e[1] = "step" /\ e[2] = s /\ e[3] # "stephdr"
    <3>1. e \in Parts
      BY DEF Parts, Files
    <3>2. e[1] = "step" /\ e[2] = s /\ e[3] # "stephdr"
      OBVIOUS
    <3> QED
      BY <3>1, <3>2
  <2> QED
    BY <2>1, <2>2, <2>3, <2>4, <2>5
<1>2. LayerParts(s) = <<a, b, c, d, e>>
  BY DEF LayerParts
<1> HIDE DEF a, b, c, d, e
<1>3. \A k \in 1..5 : k = 1 \/ k = 2 \/ k = 3 \/ k = 4 \/ k = 5
  OBVIOUS
<1> QED
  BY <1>1, <1>2, <1>3

LEMMA StepFilePartsAre ==
    ASSUME NEW s \in Steps
    PROVE  /\ StepFileParts(s) \in Seq(Parts) /\ Len(StepFileParts(s)) = 5
           /\ \A k \in 1..5 : StepFileParts(s)[k][1] = "step" /\ StepFileParts(s)[k][2] = s
           /\ \A k \in 1..4 : StepFileParts(s)[k][3] # "stephdr"
           /\ StepFileParts(s)[5] = Header(s)
<1> DEFINE a == <<"step", s, "netlists">>
           b == <<"step", s, "eda">>
           c == <<"step", s, "attrlist">>
           d == <<"step", s, "profile">>
           e == Header(s)
<1>1. /\ a \in Parts /\ a[1] = "step" /\ a[2] = s /\ a[3] # "stephdr"
      /\ b \in Parts /\ b[1] = "step" /\ b[2] = s /\ b[3] # "stephdr"
      /\ c \in Parts /\ c[1] = "step" /\ c[2] = s /\ c[3] # "stephdr"
      /\ d \in Parts /\ d[1] = "step" /\ d[2] = s /\ d[3] # "stephdr"
      /\ e \in Parts /\ e[1] = "step" /\ e[2] = s
  <2>1. a \in Parts /\ a[1] = "step" /\ a[2] = s /\ a[3] # "stephdr"
    <3>1. a \in Parts
      BY DEF Parts, Files
    <3>2. a[1] = "step" /\ a[2] = s /\ a[3] # "stephdr"
      OBVIOUS
    <3> QED
      BY <3>1, <3>2
  <2>2. b \in Parts /\ b[1] = "step" /\ b[2] = s /\ b[3] # "stephdr"
    <3>1. b \in Parts
      BY DEF Parts, Files
    <3>2. b[1] = "step" /\ b[2] = s /\ b[3] # "stephdr"
      OBVIOUS
    <3> QED
      BY <3>1, <3>2
  <2>3. c \in Parts /\ c[1] = "step" /\ c[2] = s /\ c[3] # "stephdr"
    <3>1. c \in Parts
      BY DEF Parts, Files
    <3>2. c[1] = "step" /\ c[2] = s /\ c[3] # "stephdr"
      OBVIOUS
    <3> QED
      BY <3>1, <3>2
  <2>4. d \in Parts /\ d[1] = "step" /\ d[2] = s /\ d[3] # "stephdr"
    <3>1. d \in Parts
      BY DEF Parts, Files
    <3>2. d[1] = "step" /\ d[2] = s /\ d[3] # "stephdr"
      OBVIOUS
    <3> QED
      BY <3>1, <3>2
  <2>5. e \in Parts /\ e[1] = "step" /\ e[2] = s
    <3>1. e \in Parts
      BY DEF Parts, Files, Header
    <3>2. e[1] = "step" /\ e[2] = s
      BY DEF Header
    <3> QED
      BY <3>1, <3>2
  <2> QED
    BY <2>1, <2>2, <2>3, <2>4, <2>5
<1>2. StepFileParts(s) = <<a, b, c, d, e>>
  BY DEF StepFileParts, Header
<1> HIDE DEF a, b, c, d, e
<1>3. /\ \A k \in 1..5 : k = 1 \/ k = 2 \/ k = 3 \/ k = 4 \/ k = 5
      /\ \A k \in 1..4 : k = 1 \/ k = 2 \/ k = 3 \/ k = 4
  OBVIOUS
<1>4. StepFileParts(s)[5] = e
  BY <1>2
<1> QED
  BY <1>1, <1>2, <1>3, <1>4 DEF e

HasLen(a, n) == Len(a) = n

\* The parts of a step end with its stephdr file.
LEMMA StepPartsAre ==
    ASSUME NEW s \in Steps
    PROVE  /\ StepParts(s) \in Seq(Parts) /\ HasLen(StepParts(s), 10)
           /\ \A k \in 1..10 : StepParts(s)[k][1] = "step" /\ StepParts(s)[k][2] = s
           /\ \A k \in 1..9 : StepParts(s)[k][3] # "stephdr"
           /\ StepParts(s)[10] = Header(s)
<1> DEFINE a == LayerParts(s)
           b == StepFileParts(s)
           c == StepParts(s)
<1>1. /\ a \in Seq(Parts) /\ HasLen(a, 5) /\ b \in Seq(Parts) /\ HasLen(b, 5)
      /\ c = a \o b
  BY LayerPartsAre, StepFilePartsAre DEF StepParts, HasLen
<1>2. /\ \A k \in 1..5 : a[k][1] = "step" /\ a[k][2] = s /\ a[k][3] # "stephdr"
      /\ \A k \in 1..5 : b[k][1] = "step" /\ b[k][2] = s
      /\ \A k \in 1..4 : b[k][3] # "stephdr"
      /\ b[5] = Header(s)
  BY LayerPartsAre, StepFilePartsAre
<1> HIDE DEF a, b, c
<1>3. /\ c \in Seq(Parts) /\ HasLen(c, 5 + 5)
      /\ \A k \in 1..5 : c[k] = a[k]
      /\ \A k \in 1..5 : c[5 + k] = b[k]
  <2>1. /\ a \o b \in Seq(Parts) /\ Len(a \o b) = Len(a) + Len(b)
        /\ \A k \in 1..Len(a) : (a \o b)[k] = a[k]
        /\ \A k \in 1..Len(b) : (a \o b)[Len(a) + k] = b[k]
    <3>1. a \in Seq(Parts) /\ b \in Seq(Parts)
      BY <1>1
    <3> QED
      BY <3>1
  <2> QED
    BY <1>1, <2>1 DEF HasLen
<1>4. \A k \in 1..10 : k \in 1..5 \/ (k - 5 \in 1..5 /\ c[k] = b[k - 5] /\ (k # 10 => k - 5 \in 1..4))
  <2> TAKE k \in 1..10
  <2>1. CASE k > 5
    <3>1. k - 5 \in 1..5 /\ 5 + (k - 5) = k /\ (k # 10 => k - 5 \in 1..4)
      BY <2>1
    <3>2. c[5 + (k - 5)] = b[k - 5]
      BY <1>3, <3>1
    <3> QED
      BY <3>1, <3>2
  <2> QED
    BY <2>1
<1>5. \A k \in 1..9 : k \in 1..10 /\ k # 10
  OBVIOUS
<1>7. ASSUME NEW k \in 1..10 PROVE c[k][1] = "step" /\ c[k][2] = s
  <2>1. CASE k \in 1..5
    BY <1>2, <1>3, <2>1
  <2>2. CASE k \notin 1..5
    BY <1>2, <1>4, <2>2
  <2> QED
    BY <2>1, <2>2
<1>8. ASSUME NEW k \in 1..9 PROVE c[k][3] # "stephdr"
  <2>1. k \in 1..10 /\ k # 10
    BY <1>5
  <2>2. CASE k \in 1..5
    BY <1>2, <1>3, <2>2
  <2>3. CASE k \notin 1..5
    <3>1. c[k] = b[k - 5] /\ k - 5 \in 1..4
      BY <1>4, <2>1, <2>3
    <3> QED
      BY <1>2, <3>1
  <2> QED
    BY <2>2, <2>3
<1>9. c[10] = Header(s)
  <2>1. 5 + 5 = 10 /\ 5 \in 1..5
    OBVIOUS
  <2> QED
    BY <1>2, <1>3, <2>1
<1>10. 5 + 5 = 10
  OBVIOUS
<1> QED
  BY <1>3, <1>7, <1>8, <1>9, <1>10 DEF c

LEMMA SymbolPartsAre ==
    ASSUME NEW s \in Symbols
    PROVE  /\ SymbolParts(s) \in Seq(Parts) /\ HasLen(SymbolParts(s), 2)
           /\ \A k \in 1..2 : SymbolParts(s)[k][1] = "symbol" /\ SymbolParts(s)[k][2] = s
           /\ SymbolParts(s)[2] = LastSymbolPart(s)
<1> DEFINE a == <<"symbol", s, "features">>
           b == LastSymbolPart(s)
<1>1. /\ a \in Parts /\ a[1] = "symbol" /\ a[2] = s
      /\ b \in Parts /\ b[1] = "symbol" /\ b[2] = s
  <2>1. a \in Parts /\ a[1] = "symbol" /\ a[2] = s
    <3>1. a \in Parts
      BY DEF Parts, Files
    <3>2. a[1] = "symbol" /\ a[2] = s
      OBVIOUS
    <3> QED
      BY <3>1, <3>2
  <2>2. b \in Parts /\ b[1] = "symbol" /\ b[2] = s
    <3>1. b \in Parts
      BY DEF Parts, Files, LastSymbolPart
    <3>2. b[1] = "symbol" /\ b[2] = s
      BY DEF LastSymbolPart
    <3> QED
      BY <3>1, <3>2
  <2> QED
    BY <2>1, <2>2
<1>2. SymbolParts(s) = <<a, b>>
  BY DEF SymbolParts, LastSymbolPart
<1> HIDE DEF a, b
<1>3. \A k \in 1..2 : k = 1 \/ k = 2
  OBVIOUS
<1>4. SymbolParts(s)[2] = b
  BY <1>2
<1> QED
  BY <1>1, <1>2, <1>3, <1>4 DEF b, HasLen

\* The definition of PartsOfAll, unfolded.
StepCat(S) == CHOOSE g : g = [s \in SUBSET S |->
                                 IF s = {} THEN <<>> ELSE StepParts(Pick(s)) \o g[s \ {Pick(s)}]]
SymbolCat(S) == CHOOSE g : g = [s \in SUBSET S |->
                                   IF s = {} THEN <<>> ELSE SymbolParts(Pick(s)) \o g[s \ {Pick(s)}]]

LEMMA PartsOfAllIs ==
    ASSUME NEW S
    PROVE  PartsOfAll(StepParts, S) = StepCat(S)[S] /\ PartsOfAll(SymbolParts, S) = SymbolCat(S)[S]
  BY DEF PartsOfAll, FoldSet, MapThenFoldSet, StepCat, SymbolCat, Pick

\* The parts of some steps, and of the symbols.
LEMMA AllStepParts ==
    ASSUME NEW S \in SUBSET Steps
    PROVE  LET f == [x \in S |-> StepParts(x)]
               r == PartsOfAll(StepParts, S)
           IN  r \in Seq(Parts) /\ InOrder(f, S, r) /\ HasAll(f, S, r)
<1> DEFINE f == [x \in S |-> StepParts(x)]
           G(g) == [s \in SUBSET S |->
                       IF s = {} THEN <<>> ELSE StepParts(Pick(s)) \o g[s \ {Pick(s)}]]
<1>1. IsFiniteSet(S)
  BY ArchiveAssumption, FS_Subset
<1>2. \A x \in S : f[x] \in Seq(Parts)
  BY StepPartsAre
<1>3. \A s \in SUBSET S : s # {} => f[Pick(s)] = StepParts(Pick(s))
  BY DEF Pick
<1>4. \A g : IsCat(f, S, g) <=> g = G(g)
  <2> TAKE g
  <2> DEFINE H == [s \in SUBSET S |->
                      IF s = {} THEN <<>> ELSE f[Pick(s)] \o g[s \ {Pick(s)}]]
  <2>1. \A s \in SUBSET S :
           (IF s = {} THEN <<>> ELSE StepParts(Pick(s)) \o g[s \ {Pick(s)}])
             = (IF s = {} THEN <<>> ELSE f[Pick(s)] \o g[s \ {Pick(s)}])
    <3> HIDE DEF f
    <3> QED
      BY <1>3
  <2> HIDE DEF f
  <2>2. H = G(g)
    BY <2>1
  <2>3. IsCat(f, S, g) <=> g = H
    BY DEF IsCat, Join
  <2> HIDE DEF G, H
  <2> QED
    BY <2>2, <2>3
<1> HIDE DEF f
<1>5. IsCat(f, S, CatFun(f, S))
  BY <1>1, CatExists
<1>6. StepCat(S) = CHOOSE g : g = G(g)
  BY DEF StepCat
<1> HIDE DEF G
<1>7. StepCat(S) = G(StepCat(S))
  BY <1>4, <1>5, <1>6
<1>8. IsCat(f, S, StepCat(S))
  BY <1>4, <1>7
<1>9. StepCat(S)[S] = CatFun(f, S)[S]
  BY <1>1, <1>5, <1>8, CatsAgree
<1>10. PartsOfAll(StepParts, S) = CatFun(f, S)[S]
  BY <1>9, PartsOfAllIs
<1> DEFINE r == CatFun(f, S)[S]
<1>11. r \in Seq(Parts) /\ InOrder(f, S, r) /\ HasAll(f, S, r)
  BY <1>1, <1>2, CatInOrder
<1> QED
  BY <1>10, <1>11 DEF f

LEMMA AllSymbolParts ==
    ASSUME NEW S \in SUBSET Symbols
    PROVE  LET f == [x \in S |-> SymbolParts(x)]
               r == PartsOfAll(SymbolParts, S)
           IN  r \in Seq(Parts) /\ InOrder(f, S, r) /\ HasAll(f, S, r)
<1> DEFINE f == [x \in S |-> SymbolParts(x)]
           G(g) == [s \in SUBSET S |->
                       IF s = {} THEN <<>> ELSE SymbolParts(Pick(s)) \o g[s \ {Pick(s)}]]
<1>1. IsFiniteSet(S)
  BY ArchiveAssumption, FS_Subset
<1>2. \A x \in S : f[x] \in Seq(Parts)
  BY SymbolPartsAre
<1>3. \A s \in SUBSET S : s # {} => f[Pick(s)] = SymbolParts(Pick(s))
  BY DEF Pick
<1>4. \A g : IsCat(f, S, g) <=> g = G(g)
  <2> TAKE g
  <2> DEFINE H == [s \in SUBSET S |->
                      IF s = {} THEN <<>> ELSE f[Pick(s)] \o g[s \ {Pick(s)}]]
  <2>1. \A s \in SUBSET S :
           (IF s = {} THEN <<>> ELSE SymbolParts(Pick(s)) \o g[s \ {Pick(s)}])
             = (IF s = {} THEN <<>> ELSE f[Pick(s)] \o g[s \ {Pick(s)}])
    <3> HIDE DEF f
    <3> QED
      BY <1>3
  <2> HIDE DEF f
  <2>2. H = G(g)
    BY <2>1
  <2>3. IsCat(f, S, g) <=> g = H
    BY DEF IsCat, Join
  <2> HIDE DEF G, H
  <2> QED
    BY <2>2, <2>3
<1> HIDE DEF f
<1>5. IsCat(f, S, CatFun(f, S))
  BY <1>1, CatExists
<1>6. SymbolCat(S) = CHOOSE g : g = G(g)
  BY DEF SymbolCat
<1> HIDE DEF G
<1>7. SymbolCat(S) = G(SymbolCat(S))
  BY <1>4, <1>5, <1>6
<1>8. IsCat(f, S, SymbolCat(S))
  BY <1>4, <1>7
<1>9. SymbolCat(S)[S] = CatFun(f, S)[S]
  BY <1>1, <1>5, <1>8, CatsAgree
<1>10. PartsOfAll(SymbolParts, S) = CatFun(f, S)[S]
  BY <1>9, PartsOfAllIs
<1> DEFINE r == CatFun(f, S)[S]
<1>11. r \in Seq(Parts) /\ InOrder(f, S, r) /\ HasAll(f, S, r)
  BY <1>1, <1>2, CatInOrder
<1> QED
  BY <1>10, <1>11 DEF f

\* The elements of a sequence.
Elems(q) == {q[i] : i \in DOMAIN q}

\* The last file of a step stands after its other files.
HeadersLast(q) ==
    \A i \in 1..Len(q) : \A s \in Steps :
       q[i] = Header(s) =>
          \A k \in 1..9 : \E h \in 1..Len(q) : h < i /\ q[h] = StepParts(s)[k]

IsHeader(p) == \E s \in Steps : p = Header(s)

\* A sequence without such files can follow.
LEMMA HeadersStayLast ==
    ASSUME NEW X, NEW a \in Seq(X), NEW b \in Seq(X), HeadersLast(a),
           \A p \in Elems(b) : ~IsHeader(p)
    PROVE  a \o b \in Seq(X) /\ HeadersLast(a \o b) /\ Elems(a \o b) = Elems(a) \union Elems(b)
<1> DEFINE m == Len(a)
           n == Len(b)
           r == a \o b
<1>1. /\ r \in Seq(X) /\ m \in Nat /\ n \in Nat /\ Len(r) = m + n
      /\ \A i \in 1..m : r[i] = a[i]
      /\ \A i \in 1..n : r[m + i] = b[i]
  OBVIOUS
<1>2. DOMAIN a = 1..m /\ DOMAIN b = 1..n /\ DOMAIN r = 1..Len(r)
  BY <1>1
<1> HIDE DEF m, n, r
<1>3. \A i \in 1..(m + n) : i \in 1..m \/ (i - m \in 1..n /\ r[i] = b[i - m])
  <2> TAKE i \in 1..(m + n)
  <2>1. CASE i <= m
    BY <2>1, <1>1
  <2>2. CASE ~(i <= m)
    <3>1. i - m \in 1..n /\ m + (i - m) = i
      BY <2>2, <1>1
    <3> QED
      BY <3>1, <1>1
  <2> QED
    BY <2>1, <2>2
<1>4. /\ \A i \in 1..m : i \in 1..(m + n)
      /\ \A i \in 1..n : m + i \in 1..(m + n)
  BY <1>1
<1>5. Elems(r) = Elems(a) \union Elems(b)
  <2>1. ASSUME NEW p \in Elems(r) PROVE p \in Elems(a) \union Elems(b)
    <3>1. PICK i \in 1..(m + n) : p = r[i]
      BY <1>1, <1>2 DEF Elems
    <3> QED
      BY <3>1, <1>1, <1>2, <1>3 DEF Elems
  <2>2. ASSUME NEW p \in Elems(a) PROVE p \in Elems(r)
    <3>1. PICK i \in 1..m : p = a[i]
      BY <1>2 DEF Elems
    <3>2. i \in DOMAIN r /\ p = r[i]
      BY <3>1, <1>1, <1>2, <1>4
    <3> QED
      BY <3>2 DEF Elems
  <2>3. ASSUME NEW p \in Elems(b) PROVE p \in Elems(r)
    <3>1. PICK i \in 1..n : p = b[i]
      BY <1>2 DEF Elems
    <3>2. m + i \in DOMAIN r /\ p = r[m + i]
      BY <3>1, <1>1, <1>2, <1>4
    <3> QED
      BY <3>2 DEF Elems
  <2> QED
    BY <2>1, <2>2, <2>3
<1>6. HeadersLast(r)
  <2> SUFFICES ASSUME NEW i \in 1..Len(r), NEW s \in Steps, r[i] = Header(s), NEW k \in 1..9
               PROVE  \E h \in 1..Len(r) : h < i /\ r[h] = StepParts(s)[k]
    BY DEF HeadersLast
  <2>1. i \in 1..m
    <3> SUFFICES ASSUME i \notin 1..m PROVE FALSE
      OBVIOUS
    <3>1. i - m \in DOMAIN b /\ r[i] = b[i - m]
      BY <1>1, <1>2, <1>3
    <3> QED
      BY <3>1 DEF Elems, IsHeader
  <2>2. a[i] = Header(s)
    BY <2>1, <1>1
  <2>3. PICK h \in 1..m : h < i /\ a[h] = StepParts(s)[k]
    BY <2>1, <2>2 DEF HeadersLast, m
  <2>4. h \in 1..Len(r) /\ r[h] = StepParts(s)[k]
    BY <2>3, <1>1, <1>4
  <2> QED
    BY <2>3, <2>4
<1> QED
  BY <1>1, <1>5, <1>6 DEF r

\* The parts outside of the steps.
RootParts == <<<<"root", "", "misc info">>, <<"root", "", "matrix">>, <<"root", "", "fonts">>>>
LastParts == <<<<"root", "", "misc attrlist">>>>
Outside == Elems(RootParts) \union {SymbolParts(s)[k] : s \in Symbols, k \in 1..2} \union Elems(LastParts)

LEMMA RootPartsAre ==
    /\ RootParts \in Seq(Parts) /\ LastParts \in Seq(Parts)
    /\ \A p \in Elems(RootParts) \union Elems(LastParts) : p[1] = "root" /\ p[3] # "stephdr"
<1> DEFINE a == <<"root", "", "misc info">>
           b == <<"root", "", "matrix">>
           c == <<"root", "", "fonts">>
           d == <<"root", "", "misc attrlist">>
<1>1. a \in Parts /\ a[1] = "root" /\ a[3] # "stephdr"
  <2>1. a \in Parts
    BY DEF Parts, Files
  <2>2. a[1] = "root" /\ a[3] # "stephdr"
    OBVIOUS
  <2> QED
    BY <2>1, <2>2
<1>2. b \in Parts /\ b[1] = "root" /\ b[3] # "stephdr"
  <2>1. b \in Parts
    BY DEF Parts, Files
  <2>2. b[1] = "root" /\ b[3] # "stephdr"
    OBVIOUS
  <2> QED
    BY <2>1, <2>2
<1>3. c \in Parts /\ c[1] = "root" /\ c[3] # "stephdr"
  <2>1. c \in Parts
    BY DEF Parts, Files
  <2>2. c[1] = "root" /\ c[3] # "stephdr"
    OBVIOUS
  <2> QED
    BY <2>1, <2>2
<1>4. d \in Parts /\ d[1] = "root" /\ d[3] # "stephdr"
  <2>1. d \in Parts
    BY DEF Parts, Files
  <2>2. d[1] = "root" /\ d[3] # "stephdr"
    OBVIOUS
  <2> QED
    BY <2>1, <2>2
<1>5. RootParts = <<a, b, c>> /\ LastParts = <<d>>
  BY DEF RootParts, LastParts
<1> HIDE DEF a, b, c, d
<1>6. Elems(RootParts) = {a, b, c} /\ Elems(LastParts) = {d}
  BY <1>5 DEF Elems
<1> QED
  BY <1>1, <1>2, <1>3, <1>4, <1>5, <1>6

\* The parts of a design: those of its steps, each step's last file last, and the others.
LEMMA DesignPartsAre ==
    ASSUME NEW S \in SUBSET Steps
    PROVE  /\ DesignParts(S) \in Seq(Parts) /\ HeadersLast(DesignParts(S))
           /\ Elems(DesignParts(S)) = {StepParts(s)[k] : s \in S, k \in 1..10} \union Outside
<1> DEFINE A == PartsOfAll(StepParts, S)
           C == PartsOfAll(SymbolParts, Symbols)
           f == [x \in S |-> StepParts(x)]
           g == [x \in Symbols |-> SymbolParts(x)]
           ofSteps == {StepParts(s)[k] : s \in S, k \in 1..10}
           ofSymbols == {SymbolParts(s)[k] : s \in Symbols, k \in 1..2}
<1>1. A \in Seq(Parts) /\ InOrder(f, S, A) /\ HasAll(f, S, A)
  BY AllStepParts
<1>2. C \in Seq(Parts) /\ InOrder(g, Symbols, C) /\ HasAll(g, Symbols, C)
  BY AllSymbolParts
<1>3. DesignParts(S) = ((A \o RootParts) \o C) \o LastParts
  BY DEF DesignParts, RootParts, LastParts
<1>4. \A s \in S : f[s] = StepParts(s) /\ Len(f[s]) = 10
  BY StepPartsAre DEF HasLen
<1>5. \A s \in Symbols : g[s] = SymbolParts(s) /\ Len(g[s]) = 2
  BY SymbolPartsAre DEF HasLen
<1>6. DOMAIN A = 1..Len(A) /\ DOMAIN C = 1..Len(C)
  BY <1>1, <1>2
<1> HIDE DEF A, C, f, g
<1>7. Elems(A) = ofSteps
  <2>1. ASSUME NEW p \in Elems(A) PROVE p \in ofSteps
    <3>1. PICK i \in 1..Len(A) : p = A[i]
      BY <1>6 DEF Elems
    <3>2. PICK s \in S : \E k \in 1..Len(f[s]) : A[i] = f[s][k]
      BY <1>1 DEF InOrder
    <3>3. PICK k \in 1..10 : A[i] = StepParts(s)[k]
      BY <3>2, <1>4
    <3> QED
      BY <3>1, <3>3
  <2>2. ASSUME NEW s \in S, NEW k \in 1..10 PROVE StepParts(s)[k] \in Elems(A)
    <3>1. k \in 1..Len(f[s])
      BY <1>4
    <3>2. \E i \in 1..Len(A) : A[i] = f[s][k]
      BY <1>1, <3>1 DEF HasAll
    <3> QED
      BY <3>2, <1>4, <1>6 DEF Elems
  <2> QED
    BY <2>1, <2>2
<1>8. Elems(C) = ofSymbols
  <2>1. ASSUME NEW p \in Elems(C) PROVE p \in ofSymbols
    <3>1. PICK i \in 1..Len(C) : p = C[i]
      BY <1>6 DEF Elems
    <3>2. PICK s \in Symbols : \E k \in 1..Len(g[s]) : C[i] = g[s][k]
      BY <1>2 DEF InOrder
    <3>3. PICK k \in 1..2 : C[i] = SymbolParts(s)[k]
      BY <3>2, <1>5
    <3> QED
      BY <3>1, <3>3
  <2>2. ASSUME NEW s \in Symbols, NEW k \in 1..2 PROVE SymbolParts(s)[k] \in Elems(C)
    <3>1. k \in 1..Len(g[s])
      BY <1>5
    <3>2. \E i \in 1..Len(C) : C[i] = g[s][k]
      BY <1>2, <3>1 DEF HasAll
    <3> QED
      BY <3>2, <1>5, <1>6 DEF Elems
  <2> QED
    BY <2>1, <2>2
<1>9. HeadersLast(A)
  <2> SUFFICES ASSUME NEW i \in 1..Len(A), NEW s \in Steps, A[i] = Header(s), NEW k \in 1..9
               PROVE  \E h \in 1..Len(A) : h < i /\ A[h] = StepParts(s)[k]
    BY DEF HeadersLast
  <2>1. PICK x \in S : \E n \in 1..Len(f[x]) :
           /\ A[i] = f[x][n]
           /\ \A j \in 1..Len(f[x]) : j < n => \E h \in 1..Len(A) : h < i /\ A[h] = f[x][j]
    BY <1>1 DEF InOrder
  <2>2. PICK n \in 1..10 :
           /\ A[i] = StepParts(x)[n]
           /\ \A j \in 1..10 : j < n => \E h \in 1..Len(A) : h < i /\ A[h] = StepParts(x)[j]
    <3>1. PICK n \in 1..Len(f[x]) :
             /\ A[i] = f[x][n]
             /\ \A j \in 1..Len(f[x]) : j < n => \E h \in 1..Len(A) : h < i /\ A[h] = f[x][j]
      BY <2>1
    <3>2. f[x] = StepParts(x) /\ 1..Len(f[x]) = 1..10
      BY <1>4
    <3> QED
      BY <3>1, <3>2, Zenon
  <2>3. x \in Steps
    OBVIOUS
  <2>4. Header(s)[2] = s /\ Header(s)[3] = "stephdr"
    BY DEF Header
  <2>5. StepParts(x)[n][2] = x
    BY <2>3, StepPartsAre
  <2>6. x = s
    BY <2>2, <2>4, <2>5
  <2>7. n \notin 1..9
    <3> SUFFICES ASSUME n \in 1..9 PROVE FALSE
      OBVIOUS
    <3>1. StepParts(x)[n][3] # "stephdr"
      BY <2>3, StepPartsAre
    <3> QED
      BY <2>2, <2>4, <3>1
  <2>8. k \in 1..10 /\ k < n
    BY <2>7
  <2> QED
    BY <2>2, <2>6, <2>8
<1>10. \A p \in ofSymbols : p[1] = "symbol"
  BY SymbolPartsAre
<1>11. \A p : IsHeader(p) => p[1] = "step"
  BY DEF IsHeader, Header
<1>12. \A p \in Elems(RootParts) \union Elems(C) \union Elems(LastParts) : ~IsHeader(p)
  BY <1>8, <1>10, <1>11, RootPartsAre
<1> HIDE DEF ofSteps, ofSymbols
<1> DEFINE q == A \o RootParts
           r == q \o C
<1>13. q \in Seq(Parts) /\ HeadersLast(q) /\ Elems(q) = Elems(A) \union Elems(RootParts)
  BY <1>1, <1>9, <1>12, RootPartsAre, HeadersStayLast
<1> HIDE DEF q
<1>14. r \in Seq(Parts) /\ HeadersLast(r) /\ Elems(r) = Elems(q) \union Elems(C)
  BY <1>2, <1>12, <1>13, HeadersStayLast
<1> HIDE DEF r
<1>15. /\ r \o LastParts \in Seq(Parts) /\ HeadersLast(r \o LastParts)
       /\ Elems(r \o LastParts) = Elems(r) \union Elems(LastParts)
  BY <1>12, <1>14, RootPartsAre, HeadersStayLast
<1>16. DesignParts(S) = r \o LastParts
  BY <1>3 DEF q, r
<1>17. Outside = Elems(RootParts) \union ofSymbols \union Elems(LastParts)
  BY DEF Outside, ofSymbols
<1> QED
  BY <1>7, <1>8, <1>13, <1>14, <1>15, <1>16, <1>17 DEF ofSteps

-----------------------------------------------------------------------------
(* The parsing of an archive.                                              *)

IsJob(j) == j = [todo |-> j.todo, done |-> j.done, steps |-> j.steps, symbols |-> j.symbols,
                 inArchive |-> j.inArchive, left |-> j.left, outcome |-> j.outcome]

\* Where the last file of a step is still to do, its other files are done or before it.
HeadersPend(todo, done) ==
    \A i \in 1..Len(todo) : \A s \in Steps :
       todo[i] = Header(s) =>
          \A k \in 1..9 : \/ StepParts(s)[k] \in done
                          \/ \E h \in 1..Len(todo) : h < i /\ todo[h] = StepParts(s)[k]

\* The parts outside of the steps are done or to do.
OutsidePends(todo, done) == \A p \in Outside : p \in done \/ p \in Elems(todo)

\* The last files to do are those of the steps of the directory and of the symbols.
NamesKnown(todo, steps) ==
    \A p \in Elems(todo) :
       /\ p[3] = "stephdr" => \E s \in steps : p = Header(s)
       /\ p[1] = "symbol" /\ p[3] = "attrlist" => \E s \in Symbols : p = LastSymbolPart(s)

Shown(j) ==
    /\ \A s \in j.steps : Elems(StepParts(s)) \subseteq j.done
    /\ j.steps \subseteq j.inArchive \union j.left
    /\ \A s \in Symbols : LastSymbolPart(s) \in j.done => s \in j.symbols
    /\ j.symbols \subseteq Symbols

ArchiveInv ==
    part = "archive" =>
       /\ IsJob(job) /\ job.inArchive \subseteq Steps /\ job.left \subseteq Steps
       /\ Shown(job)
       /\ job.outcome = "parsing" =>
             /\ job.todo \in Seq(Parts) /\ HeadersPend(job.todo, job.done)
             /\ NamesKnown(job.todo, job.inArchive \union job.left)
             /\ OutsidePends(job.todo, job.done)
       /\ job.outcome = "true" => Outside \subseteq job.done

LEMMA ArchiveInitInv == Init => ArchiveInv
<1> SUFFICES ASSUME Init, part = "archive" PROVE ArchiveInv
  BY DEF ArchiveInv
<1>1. ArchiveInit
  BY DEF Init
<1>2. PICK inA, old \in SUBSET Steps :
         job = [todo |-> <<>>, done |-> {}, steps |-> {}, symbols |-> {},
                inArchive |-> inA, left |-> old, outcome |-> "start"]
  BY <1>1 DEF ArchiveInit
<1>3. IsJob(job) /\ job.inArchive \subseteq Steps /\ job.left \subseteq Steps
  BY <1>2 DEF IsJob
<1>4. Shown(job)
  BY <1>2 DEF Shown
<1>5. job.outcome = "start"
  BY <1>2
<1> QED
  BY <1>3, <1>4, <1>5 DEF ArchiveInv

\* What the parts of a design say of an invariant that starts with them.
LEMMA StartParsing ==
    ASSUME NEW S \in SUBSET Steps
    PROVE  /\ DesignParts(S) \in Seq(Parts)
           /\ \A done : HeadersPend(DesignParts(S), done) /\ OutsidePends(DesignParts(S), done)
           /\ NamesKnown(DesignParts(S), S)
<1> DEFINE q == DesignParts(S)
<1>1. /\ q \in Seq(Parts) /\ HeadersLast(q)
      /\ Elems(q) = {StepParts(s)[k] : s \in S, k \in 1..10} \union Outside
  BY DesignPartsAre
<1> HIDE DEF q
<1>2. \A done : HeadersPend(q, done)
  BY <1>1 DEF HeadersLast, HeadersPend
<1>3. \A done : OutsidePends(q, done)
  BY <1>1 DEF OutsidePends
<1>4. NamesKnown(q, S)
  <2> SUFFICES ASSUME NEW p \in Elems(q)
               PROVE  /\ p[3] = "stephdr" => \E s \in S : p = Header(s)
                      /\ p[1] = "symbol" /\ p[3] = "attrlist" =>
                            \E s \in Symbols : p = LastSymbolPart(s)
    BY DEF NamesKnown
  <2>1. CASE p \in {StepParts(s)[k] : s \in S, k \in 1..10}
    <3>1. PICK s \in S, k \in 1..10 : p = StepParts(s)[k]
      BY <2>1
    <3>2. s \in Steps
      OBVIOUS
    <3>3. p[1] = "step"
      BY <3>1, <3>2, StepPartsAre
    <3>4. k \in 1..9 => p[3] # "stephdr"
      BY <3>1, <3>2, StepPartsAre
    <3>5. k \notin 1..9 => k = 10
      OBVIOUS
    <3>6. StepParts(s)[10] = Header(s)
      BY <3>2, StepPartsAre
    <3> QED
      BY <3>1, <3>3, <3>4, <3>5, <3>6
  <2>2. CASE p \in {SymbolParts(s)[k] : s \in Symbols, k \in 1..2}
    <3>1. PICK s \in Symbols, k \in 1..2 : p = SymbolParts(s)[k]
      BY <2>2
    <3>2. k = 1 \/ k = 2
      OBVIOUS
    <3>3. SymbolParts(s)[1][3] = "features" /\ SymbolParts(s)[2] = LastSymbolPart(s)
      BY SymbolPartsAre DEF SymbolParts
    <3>4. LastSymbolPart(s)[3] = "attrlist"
      BY DEF LastSymbolPart
    <3> QED
      BY <3>1, <3>2, <3>3, <3>4
  <2>3. CASE p \in Elems(RootParts) \union Elems(LastParts)
    BY <2>3, RootPartsAre
  <2> QED
    BY <1>1, <2>1, <2>2, <2>3 DEF Outside
<1> QED
  BY <1>1, <1>2, <1>3, <1>4 DEF q

\* The first part is parsed.
LEMMA TakeFirst ==
    ASSUME NEW todo \in Seq(Parts), NEW done, todo # <<>>, HeadersPend(todo, done),
           OutsidePends(todo, done), NEW S, NamesKnown(todo, S)
    PROVE  /\ Tail(todo) \in Seq(Parts) /\ HeadersPend(Tail(todo), done \union {Head(todo)})
           /\ OutsidePends(Tail(todo), done \union {Head(todo)})
           /\ NamesKnown(Tail(todo), S) /\ Head(todo) \in Elems(todo)
           /\ \A s \in Steps : Head(todo) = Header(s) => \A k \in 1..9 : StepParts(s)[k] \in done
<1> DEFINE n == Len(todo)
           r == Tail(todo)
           p == Head(todo)
<1>1. /\ n \in Nat /\ n > 0 /\ r \in Seq(Parts) /\ Len(r) = n - 1 /\ p = todo[1]
      /\ \A i \in 1..(n - 1) : r[i] = todo[i + 1]
  BY HeadTailProperties
<1>2. DOMAIN todo = 1..n /\ DOMAIN r = 1..(n - 1)
  BY <1>1
<1> HIDE DEF n, r, p
<1>3. \A i \in 1..n : i = 1 \/ (i - 1 \in 1..(n - 1) /\ todo[i] = r[i - 1])
  <2> SUFFICES ASSUME NEW i \in 1..n, i # 1 PROVE i - 1 \in 1..(n - 1) /\ todo[i] = r[i - 1]
    OBVIOUS
  <2>1. i - 1 \in 1..(n - 1) /\ (i - 1) + 1 = i
    BY <1>1
  <2> QED
    BY <1>1, <2>1
<1>4. \A i \in 1..(n - 1) : i + 1 \in 1..n
  BY <1>1
<1>5. ASSUME NEW q \in Elems(todo) PROVE q = p \/ q \in Elems(r)
  <2>1. PICK i \in 1..n : q = todo[i]
    BY <1>2 DEF Elems
  <2>2. CASE i = 1
    BY <1>1, <2>1, <2>2
  <2>3. CASE i # 1
    BY <1>2, <1>3, <2>1, <2>3 DEF Elems
  <2> QED
    BY <2>2, <2>3
<1>6. \A q \in Elems(r) : q \in Elems(todo)
  BY <1>1, <1>2, <1>4 DEF Elems
<1>7. p \in Elems(todo)
  BY <1>1, <1>2 DEF Elems
<1>8. HeadersPend(r, done \union {p})
  <2> SUFFICES ASSUME NEW i \in 1..Len(r), NEW s \in Steps, r[i] = Header(s), NEW k \in 1..9
               PROVE  \/ StepParts(s)[k] \in done \union {p}
                      \/ \E h \in 1..Len(r) : h < i /\ r[h] = StepParts(s)[k]
    BY DEF HeadersPend
  <2>1. i + 1 \in 1..n /\ todo[i + 1] = Header(s)
    BY <1>1, <1>4
  <2>2. CASE StepParts(s)[k] \in done
    BY <2>2
  <2>3. CASE \E h \in 1..n : h < i + 1 /\ todo[h] = StepParts(s)[k]
    <3>1. PICK h \in 1..n : h < i + 1 /\ todo[h] = StepParts(s)[k]
      BY <2>3
    <3>2. CASE h = 1
      BY <1>1, <3>1, <3>2
    <3>3. CASE h # 1
      <4>1. h - 1 \in 1..Len(r) /\ r[h - 1] = StepParts(s)[k]
        BY <1>1, <1>3, <3>1, <3>3
      <4>2. h - 1 < i
        BY <1>1, <3>1
      <4> QED
        BY <4>1, <4>2
    <3> QED
      BY <3>2, <3>3
  <2> QED
    BY <2>1, <2>2, <2>3 DEF HeadersPend, n
<1>9. OutsidePends(r, done \union {p})
  BY <1>5 DEF OutsidePends
<1>10. NamesKnown(r, S)
  BY <1>6 DEF NamesKnown
<1>11. ASSUME NEW s \in Steps, p = Header(s), NEW k \in 1..9 PROVE StepParts(s)[k] \in done
  <2>1. 1 \in 1..n /\ todo[1] = Header(s)
    BY <1>1, <1>11
  <2>2. StepParts(s)[k] \in done \/ \E h \in 1..n : h < 1 /\ todo[h] = StepParts(s)[k]
    BY <2>1 DEF HeadersPend, n
  <2> QED
    BY <2>2, <1>1
<1> QED
  BY <1>1, <1>7, <1>8, <1>9, <1>10, <1>11 DEF r, p

\* A step is left out.
LEMMA LeaveStepOut ==
    ASSUME NEW todo \in Seq(Parts), NEW done, HeadersPend(todo, done),
           OutsidePends(todo, done), NEW S, NamesKnown(todo, S), NEW name, NEW r,
           r = SelectAt(todo, {i \in DOMAIN todo : todo[i][1] # "step" \/ todo[i][2] # name})
    PROVE  /\ r \in Seq(Parts) /\ HeadersPend(r, done) /\ OutsidePends(r, done)
           /\ NamesKnown(r, S)
<1> DEFINE at == {i \in DOMAIN todo : todo[i][1] # "step" \/ todo[i][2] # name}
           n == Len(todo)
           m == Len(r)
<1>1. r \in Seq(Parts)
  BY SelPlaces
<1>2. PICK h : Places(todo, at, n, r, h)
  BY SelPlaces
<1>3. n \in Nat /\ DOMAIN todo = 1..n /\ m \in Nat /\ DOMAIN r = 1..m
  BY <1>1
<1>4. /\ h \in [1..m -> 1..n]
      /\ \A j \in 1..m : h[j] \in at /\ r[j] = todo[h[j]]
      /\ \A j, k \in 1..m : j < k => h[j] < h[k]
      /\ \A i \in 1..n : i \in at => \E j \in 1..m : h[j] = i
  BY <1>2 DEF Places
<1>5. \A i \in 1..n : i \in at <=> (todo[i][1] # "step" \/ todo[i][2] # name)
  BY <1>3
<1> HIDE DEF at, n, m
<1>6. \A q \in Elems(r) : q \in Elems(todo)
  BY <1>3, <1>4 DEF Elems
<1>7. NamesKnown(r, S)
  BY <1>6 DEF NamesKnown
<1>8. OutsidePends(r, done)
  <2> SUFFICES ASSUME NEW p \in Outside, p \in Elems(todo) PROVE p \in Elems(r)
    BY DEF OutsidePends
  <2>1. p[1] # "step"
    <3>1. CASE p \in {SymbolParts(s)[k] : s \in Symbols, k \in 1..2}
      BY <3>1, SymbolPartsAre
    <3>2. CASE p \in Elems(RootParts) \union Elems(LastParts)
      BY <3>2, RootPartsAre
    <3> QED
      BY <3>1, <3>2 DEF Outside
  <2>2. PICK i \in 1..n : p = todo[i]
    BY <1>3 DEF Elems
  <2>3. i \in at
    BY <1>5, <2>1, <2>2
  <2>4. PICK j \in 1..m : h[j] = i
    BY <1>4, <2>3
  <2>5. r[j] = p
    BY <1>4, <2>2, <2>4
  <2> QED
    BY <1>3, <2>5 DEF Elems
<1>9. HeadersPend(r, done)
  <2> SUFFICES ASSUME NEW i \in 1..Len(r), NEW s \in Steps, r[i] = Header(s), NEW k \in 1..9,
                      StepParts(s)[k] \notin done
               PROVE  \E g \in 1..Len(r) : g < i /\ r[g] = StepParts(s)[k]
    BY DEF HeadersPend
  <2>1. i \in 1..m /\ h[i] \in at /\ h[i] \in 1..n /\ todo[h[i]] = Header(s)
    BY <1>4 DEF m
  <2>2. s # name
    <3>1. Header(s)[1] = "step" /\ Header(s)[2] = s
      BY DEF Header
    <3> QED
      BY <1>5, <2>1, <3>1
  <2>3. PICK g \in 1..n : g < h[i] /\ todo[g] = StepParts(s)[k]
    BY <2>1 DEF HeadersPend, n
  <2>4. k \in 1..10
    OBVIOUS
  <2>5. StepParts(s)[k][2] = s
    BY <2>4, StepPartsAre
  <2>6. g \in at
    BY <1>5, <2>2, <2>3, <2>5
  <2>7. PICK j \in 1..m : h[j] = g
    BY <1>4, <2>6
  <2>8. r[j] = StepParts(s)[k]
    BY <1>4, <2>3, <2>7
  <2>9. j < i
    <3>1. h[j] < h[i] /\ h[j] \in Nat /\ h[i] \in Nat
      BY <2>1, <2>3, <2>7, <1>3
    <3>2. i < j => h[i] < h[j]
      BY <1>4, <2>1
    <3>3. ~(i < j)
      BY <3>1, <3>2
    <3>4. i # j
      BY <3>1
    <3> QED
      BY <2>1, <1>3, <3>3, <3>4
  <2> QED
    BY <2>8, <2>9 DEF m
<1> QED
  BY <1>1, <1>7, <1>8, <1>9

LEMMA ArchiveNextInv == ArchiveInv /\ [Next]_fileVars => ArchiveInv'
<1> SUFFICES ASSUME ArchiveInv, [Next]_fileVars, part = "archive" PROVE ArchiveInv'
  BY StepOfPart DEF ArchiveInv
<1>0. part' = part /\ (ArchiveNext \/ UNCHANGED job)
  BY StepOfPart
<1>1. /\ IsJob(job) /\ job.inArchive \subseteq Steps /\ job.left \subseteq Steps
      /\ Shown(job)
      /\ job.outcome = "parsing" =>
            /\ job.todo \in Seq(Parts) /\ HeadersPend(job.todo, job.done)
            /\ NamesKnown(job.todo, job.inArchive \union job.left)
            /\ OutsidePends(job.todo, job.done)
  BY DEF ArchiveInv
<1>2. ASSUME NEW outcome, outcome \notin {"parsing", "true"}, job' = [job EXCEPT !.outcome = outcome]
      PROVE  ArchiveInv'
  <2>1. job' = [todo |-> job.todo, done |-> job.done, steps |-> job.steps,
                symbols |-> job.symbols, inArchive |-> job.inArchive, left |-> job.left,
                outcome |-> outcome]
    BY <1>1, <1>2 DEF IsJob
  <2>2. IsJob(job') /\ job'.inArchive \subseteq Steps /\ job'.left \subseteq Steps
    BY <1>1, <2>1 DEF IsJob
  <2>3. Shown(job')
    BY <1>1, <2>1 DEF Shown
  <2>4. job'.outcome = outcome
    BY <2>1
  <2> QED
    BY <1>2, <2>2, <2>3, <2>4 DEF ArchiveInv
<1>3. CASE ExtractDesignArchive
  BY <1>2, <1>3 DEF ExtractDesignArchive, Extract
<1>4. CASE FindRootDir
  <2>1. CASE job' = [job EXCEPT !.outcome = "false"]
    BY <1>2, <2>1
  <2>2. CASE job' = [job EXCEPT !.outcome = "parsing",
                                !.todo = DesignParts(job.inArchive \union job.left)]
    <3> DEFINE S == job.inArchive \union job.left
               q == DesignParts(S)
    <3>1. job' = [todo |-> q, done |-> job.done, steps |-> job.steps,
                  symbols |-> job.symbols, inArchive |-> job.inArchive, left |-> job.left,
                  outcome |-> "parsing"]
      <4> HIDE DEF q
      <4> QED
        BY <1>1, <2>2 DEF IsJob, q
    <3>2. S \in SUBSET Steps
      BY <1>1
    <3> HIDE DEF q
    <3>3. /\ q \in Seq(Parts) /\ HeadersPend(q, job.done) /\ OutsidePends(q, job.done)
          /\ NamesKnown(q, S)
      BY <3>2, StartParsing DEF q
    <3>4. /\ job'.todo = q /\ job'.done = job.done /\ job'.inArchive = job.inArchive
          /\ job'.left = job.left /\ job'.outcome = "parsing" /\ job'.steps = job.steps
          /\ job'.symbols = job.symbols
      BY <3>1
    <3>5. IsJob(job') /\ job'.inArchive \subseteq Steps /\ job'.left \subseteq Steps
      BY <1>1, <3>1, <3>4 DEF IsJob
    <3>6. Shown(job')
      BY <1>1, <3>4 DEF Shown
    <3> QED
      BY <3>3, <3>4, <3>5, <3>6 DEF ArchiveInv
  <2> QED
    BY <1>4, <2>1, <2>2 DEF FindRootDir
<1>5. CASE PartParsed
  <2> DEFINE p == Head(job.todo)
             newSteps == job.steps \union (IF p[3] = "stephdr" THEN {p[2]} ELSE {})
             newSymbols == job.symbols \union (IF p[1] = "symbol" /\ p[3] = "attrlist"
                                               THEN {p[2]} ELSE {})
             S == job.inArchive \union job.left
  <2>1. job.outcome = "parsing" /\ job.todo # <<>>
    BY <1>5 DEF PartParsed
  <2>2. job' = [todo |-> Tail(job.todo), done |-> job.done \union {p}, steps |-> newSteps,
                symbols |-> newSymbols, inArchive |-> job.inArchive, left |-> job.left,
                outcome |-> "parsing"]
    BY <1>1, <1>5, <2>1 DEF IsJob, PartParsed
  <2>3. /\ job'.todo = Tail(job.todo) /\ job'.done = job.done \union {p}
        /\ job'.inArchive = job.inArchive /\ job'.left = job.left /\ job'.outcome = "parsing"
        /\ job'.steps = newSteps /\ job'.symbols = newSymbols
    BY <2>2
  <2>4. IsJob(job') /\ job'.inArchive \subseteq Steps /\ job'.left \subseteq Steps
    BY <1>1, <2>2, <2>3 DEF IsJob
  <2>5. /\ Tail(job.todo) \in Seq(Parts) /\ HeadersPend(Tail(job.todo), job.done \union {p})
        /\ OutsidePends(Tail(job.todo), job.done \union {p})
        /\ NamesKnown(Tail(job.todo), S) /\ p \in Elems(job.todo)
        /\ \A s \in Steps : p = Header(s) => \A k \in 1..9 : StepParts(s)[k] \in job.done
    <3> DEFINE todo == job.todo
               done == job.done
    <3>1. /\ todo \in Seq(Parts) /\ HeadersPend(todo, done) /\ OutsidePends(todo, done)
          /\ NamesKnown(todo, S) /\ todo # <<>>
      BY <1>1, <2>1
    <3> HIDE DEF todo, done
    <3>2. /\ Tail(todo) \in Seq(Parts) /\ HeadersPend(Tail(todo), done \union {Head(todo)})
          /\ OutsidePends(Tail(todo), done \union {Head(todo)})
          /\ NamesKnown(Tail(todo), S) /\ Head(todo) \in Elems(todo)
          /\ \A s \in Steps : Head(todo) = Header(s) => \A k \in 1..9 : StepParts(s)[k] \in done
      BY <3>1, TakeFirst
    <3> QED
      BY <3>2 DEF todo, done
  <2>6. /\ p[3] = "stephdr" => \E s \in S : p = Header(s)
        /\ p[1] = "symbol" /\ p[3] = "attrlist" => \E s \in Symbols : p = LastSymbolPart(s)
    BY <1>1, <2>1, <2>5 DEF NamesKnown
  <2> HIDE DEF p, newSteps, newSymbols
  <2>7. Shown(job')
    <3>1. ASSUME NEW s \in newSteps
          PROVE  Elems(StepParts(s)) \subseteq job.done \union {p} /\ s \in S
      <4>1. CASE s \in job.steps
        BY <1>1, <4>1 DEF Shown
      <4>2. CASE s \notin job.steps
        <5>1. p[3] = "stephdr" /\ s = p[2]
          BY <3>1, <4>2 DEF newSteps
        <5>2. PICK u \in S : p = Header(u)
          BY <2>6, <5>1
        <5>3. u = s
          BY <5>1, <5>2 DEF Header
        <5>4. s \in Steps /\ p = Header(s) /\ s \in S
          BY <1>1, <5>2, <5>3
        <5>5. \A k \in 1..9 : StepParts(s)[k] \in job.done
          BY <2>5, <5>4
        <5>6. /\ StepParts(s) \in Seq(Parts) /\ HasLen(StepParts(s), 10)
              /\ StepParts(s)[10] = p
          BY <5>4, StepPartsAre
        <5>7. DOMAIN StepParts(s) = 1..10
          <6> DEFINE a == StepParts(s)
          <6>1. a \in Seq(Parts) /\ HasLen(a, 10)
            BY <5>6
          <6>2. DOMAIN a = 1..Len(a)
            BY <6>1
          <6> HIDE DEF a
          <6> QED
            BY <6>1, <6>2 DEF HasLen, a
        <5>8. \A k \in 1..10 : k \in 1..9 \/ k = 10
          OBVIOUS
        <5> QED
          BY <5>4, <5>5, <5>6, <5>7, <5>8 DEF Elems
      <4> QED
        BY <4>1, <4>2
    <3>2. \A s \in Symbols : LastSymbolPart(s) \in job.done \union {p} => s \in newSymbols
      <4> SUFFICES ASSUME NEW s \in Symbols, LastSymbolPart(s) \in job.done \union {p}
                   PROVE  s \in newSymbols
        OBVIOUS
      <4>1. CASE LastSymbolPart(s) \in job.done
        BY <1>1, <4>1 DEF Shown, newSymbols
      <4>2. CASE LastSymbolPart(s) = p
        BY <4>2 DEF newSymbols, LastSymbolPart
      <4> QED
        BY <4>1, <4>2
    <3>3. newSymbols \subseteq Symbols
      <4> SUFFICES ASSUME NEW s \in newSymbols, s \notin job.symbols PROVE s \in Symbols
        BY <1>1 DEF Shown
      <4>1. p[1] = "symbol" /\ p[3] = "attrlist" /\ s = p[2]
        BY DEF newSymbols
      <4>2. PICK u \in Symbols : p = LastSymbolPart(u)
        BY <2>6, <4>1
      <4>3. u = s
        BY <4>1, <4>2 DEF LastSymbolPart
      <4> QED
        BY <4>3
    <3> QED
      BY <2>3, <3>1, <3>2, <3>3 DEF Shown
  <2> QED
    BY <2>3, <2>4, <2>5, <2>7 DEF ArchiveInv
<1>6. CASE PartFalse
  <2>1. CASE Head(job.todo)[1] # "step"
    <3>1. job' = [job EXCEPT !.outcome = "throws"]
      BY <1>6, <2>1 DEF PartFalse
    <3> QED
      BY <1>2, <3>1
  <2>2. CASE Head(job.todo)[1] = "step"
    <3> DEFINE S == job.inArchive \union job.left
               name == Head(job.todo)[2]
               r == WithoutStep(name)
    <3>1. job.outcome = "parsing" /\ job' = [job EXCEPT !.todo = r]
      BY <1>6, <2>2 DEF PartFalse, StepFailed, SkipStep
    <3>2. r \in Seq(Parts) /\ HeadersPend(r, job.done) /\ OutsidePends(r, job.done) /\ NamesKnown(r, S)
      <4> DEFINE todo == job.todo
                 done == job.done
      <4>1. /\ todo \in Seq(Parts) /\ HeadersPend(todo, done) /\ OutsidePends(todo, done)
            /\ NamesKnown(todo, S)
        BY <1>1, <3>1
      <4>2. r = SelectAt(todo, {i \in DOMAIN todo : todo[i][1] # "step" \/ todo[i][2] # name})
        BY DEF WithoutStep
      <4> HIDE DEF todo, done, r, name, S
      <4>3. /\ r \in Seq(Parts) /\ HeadersPend(r, done) /\ OutsidePends(r, done)
            /\ NamesKnown(r, S)
        BY <4>1, <4>2, LeaveStepOut
      <4> QED
        BY <4>3 DEF done
    <3> HIDE DEF r, name
    <3>3. job' = [todo |-> r, done |-> job.done, steps |-> job.steps,
                  symbols |-> job.symbols, inArchive |-> job.inArchive, left |-> job.left,
                  outcome |-> "parsing"]
      BY <1>1, <3>1 DEF IsJob
    <3>4. /\ job'.todo = r /\ job'.done = job.done /\ job'.inArchive = job.inArchive
          /\ job'.left = job.left /\ job'.outcome = "parsing" /\ job'.steps = job.steps
          /\ job'.symbols = job.symbols
      BY <3>3
    <3>5. IsJob(job') /\ job'.inArchive \subseteq Steps /\ job'.left \subseteq Steps
      BY <1>1, <3>3, <3>4 DEF IsJob
    <3>6. Shown(job')
      BY <1>1, <3>4 DEF Shown
    <3> QED
      BY <3>2, <3>4, <3>5, <3>6 DEF ArchiveInv
  <2> QED
    BY <2>1, <2>2
<1>7. CASE PartThrows
  <2>1. job' = [job EXCEPT !.outcome = "throws"]
    BY <1>7 DEF PartThrows
  <2> QED
    BY <1>2, <2>1
<1>8. CASE ParseReturns
  <2>1. job.outcome = "parsing" /\ job.todo = <<>> /\ job' = [job EXCEPT !.outcome = "true"]
    BY <1>8 DEF ParseReturns
  <2>2. job' = [todo |-> job.todo, done |-> job.done, steps |-> job.steps,
                symbols |-> job.symbols, inArchive |-> job.inArchive, left |-> job.left,
                outcome |-> "true"]
    BY <1>1, <2>1 DEF IsJob
  <2>3. IsJob(job') /\ job'.inArchive \subseteq Steps /\ job'.left \subseteq Steps
    BY <1>1, <2>2 DEF IsJob
  <2>4. Shown(job')
    BY <1>1, <2>2 DEF Shown
  <2>5. job'.outcome = "true" /\ job'.done = job.done
    BY <2>2
  <2>6. Elems(<<>>) = {}
    BY DEF Elems
  <2>7. Outside \subseteq job.done
    BY <1>1, <2>1, <2>6 DEF OutsidePends
  <2> QED
    BY <2>3, <2>4, <2>5, <2>7 DEF ArchiveInv
<1>9. CASE UNCHANGED job
  BY <1>0, <1>9 DEF ArchiveInv
<1> QED
  BY <1>0, <1>3, <1>4, <1>5, <1>6, <1>7, <1>8, <1>9 DEF ArchiveNext

\* Whatever steps and symbols an archive has and whatever steps were left in the
\* directory, what ParseFileModel shows of the design is complete: each step shown was
\* parsed to its last file, and when the answer is true so was everything outside of the
\* steps (FileArchive::ParseDesignDirectory, which goes on after a step that is false).
THEOREM LoadedArchivesAreWhole == Spec => []ArchiveWhole
<1>1. ArchiveInv => ArchiveWhole
  <2> SUFFICES ASSUME ArchiveInv, part = "archive" PROVE LoadedArchiveWhole
    BY DEF ArchiveWhole
  <2>1. Shown(job) /\ (job.outcome = "true" => Outside \subseteq job.done)
    BY DEF ArchiveInv
  <2>2. \A s \in job.steps : Elems(StepParts(s)) \subseteq job.done
    BY <2>1 DEF Shown
  <2>3. ASSUME job.outcome = "true" PROVE Elems(DesignParts({})) \subseteq job.done
    <3>1. Elems(DesignParts({})) = {StepParts(s)[k] : s \in {}, k \in 1..10} \union Outside
      BY DesignPartsAre
    <3> QED
      BY <2>1, <2>3, <3>1
  <2>4. ASSUME job.outcome = "true" PROVE job.symbols = Symbols
    <3>1. ASSUME NEW s \in Symbols PROVE LastSymbolPart(s) \in Outside
      <4>1. LastSymbolPart(s) = SymbolParts(s)[2] /\ 2 \in 1..2
        BY SymbolPartsAre
      <4> QED
        BY <4>1 DEF Outside
    <3> QED
      BY <2>1, <2>4, <3>1 DEF Shown
  <2>5. job.left = {} => job.steps \subseteq job.inArchive
    BY <2>1 DEF Shown
  <2> QED
    BY <2>2, <2>3, <2>4, <2>5 DEF LoadedArchiveWhole, Elems
<1> QED
  BY <1>1, ArchiveInitInv, ArchiveNextInv, PTL DEF Spec

-----------------------------------------------------------------------------
(* UTF-8: IsUtf8 and IsValidUtf8 are predicates defined by recursion on the *)
(* positions of a text, of which there are least ones.                      *)

\* A set that has the members of B and what they lead to, and nothing else.
IsFixpoint(D, B, R, T) ==
    /\ T \in SUBSET D
    /\ \A n \in D : n \in T <=> n \in B \/ \E m \in T : <<m, n>> \in R

LEMMA LeastFixpoint ==
    ASSUME NEW D, NEW B, NEW R
    PROVE  \E T : IsFixpoint(D, B, R, T)
<1> DEFINE Closed(X) == \A n \in D : (n \in B \/ \E m \in X : <<m, n>> \in R) => n \in X
           T == {n \in D : \A X \in SUBSET D : Closed(X) => n \in X}
<1>1. \A X \in SUBSET D : Closed(X) => T \subseteq X
  OBVIOUS
<1>2. Closed(T)
  <2> SUFFICES ASSUME NEW n \in D, n \in B \/ \E m \in T : <<m, n>> \in R,
                      NEW X \in SUBSET D, Closed(X)
               PROVE  n \in X
    OBVIOUS
  <2>1. T \subseteq X
    BY <1>1
  <2> HIDE DEF T
  <2> QED
    BY <2>1
<1>3. T \in SUBSET D
  OBVIOUS
<1>4. ASSUME NEW n \in T PROVE n \in B \/ \E m \in T : <<m, n>> \in R
  <2> SUFFICES ASSUME n \notin B, \A m \in T : <<m, n>> \notin R PROVE FALSE
    OBVIOUS
  <2> DEFINE X == T \ {n}
  <2>1. Closed(X)
    <3> HIDE DEF T
    <3> QED
      BY <1>2
  <2>2. X \in SUBSET D
    BY <1>3
  <2>3. T \subseteq X
    BY <1>1, <2>1, <2>2
  <2> HIDE DEF T
  <2> QED
    BY <2>3
<1> HIDE DEF T
<1>5. IsFixpoint(D, B, R, T)
  BY <1>2, <1>3, <1>4 DEF IsFixpoint
<1> QED
  BY <1>5

Byte == 0..255

IsText(s) == s \in Seq(Byte)

\* The well-formed sequences of one to four bytes.
Formed1(a) == a \in 0..127
Formed2(a, b) == a \in 194..223 /\ b \in Cont
Formed3(a, b, c) ==
    /\ b \in Cont /\ c \in Cont
    /\ \/ a = 224 /\ b \in 160..191
       \/ a \in 225..236
       \/ a = 237 /\ b \in 128..159
       \/ a \in 238..239
Formed4(a, b, c, d) ==
    /\ b \in Cont /\ c \in Cont /\ d \in Cont
    /\ \/ a = 240 /\ b \in 144..191
       \/ a \in 241..243
       \/ a = 244 /\ b \in 128..143

\* A well-formed sequence of n bytes starts at i.
FormedAt(s, i, n) ==
    \/ n = 1 /\ Formed1(s[i])
    \/ n = 2 /\ Formed2(s[i], s[i + 1])
    \/ n = 3 /\ Formed3(s[i], s[i + 1], s[i + 2])
    \/ n = 4 /\ Formed4(s[i], s[i + 1], s[i + 2], s[i + 3])

\* The bytes up to n end with the ranges of w.
EndsWith(s, n, w) == \A k \in 1..Len(w) : s[n - Len(w) + k] \in w[k]

LEMMA RangesAre ==
    ASSUME NEW w \in WellFormed
    PROVE  Len(w) \in 1..4
  BY DEF WellFormed

\* Ranges of one length, for bytes.
LEMMA Ranges1 ==
    ASSUME NEW s, NEW i \in Nat, NEW A
    PROVE  EndsWith(s, i, <<A>>) <=> s[i] \in A
<1>1. Len(<<A>>) = 1 /\ <<A>>[1] = A /\ i - 1 + 1 = i
  OBVIOUS
<1>2. \A k \in 1..1 : k = 1
  OBVIOUS
<1>3. 1 \in 1..1
  OBVIOUS
<1> DEFINE w == <<A>>
<1> HIDE DEF w
<1>4. Len(w) = 1 /\ w[1] = A
  BY <1>1 DEF w
<1>5. EndsWith(s, i, w) <=> \A k \in 1..1 : s[i - 1 + k] \in w[k]
  BY <1>4 DEF EndsWith
<1>6. EndsWith(s, i, w) <=> s[i - 1 + 1] \in A
  BY <1>2, <1>3, <1>4, <1>5
<1> QED
  BY <1>1, <1>6 DEF w

LEMMA Ranges2 ==
    ASSUME NEW s, NEW i \in Nat, NEW A, NEW B
    PROVE  EndsWith(s, i + 1, <<A, B>>) <=> s[i] \in A /\ s[i + 1] \in B
<1> DEFINE w == <<A, B>>
<1>1. Len(w) = 2 /\ w[1] = A /\ w[2] = B
  OBVIOUS
<1> HIDE DEF w
<1>2. EndsWith(s, i + 1, w) <=> \A k \in 1..2 : s[(i + 1) - 2 + k] \in w[k]
  BY <1>1 DEF EndsWith
<1>3. /\ \A k \in 1..2 : k = 1 \/ k = 2
      /\ 1 \in 1..2 /\ 2 \in 1..2 /\ (i + 1) - 2 + 1 = i /\ (i + 1) - 2 + 2 = i + 1
  OBVIOUS
<1>4. EndsWith(s, i + 1, w) <=> s[i] \in w[1] /\ s[i + 1] \in w[2]
  BY <1>2, <1>3
<1> QED
  BY <1>1, <1>4 DEF w

LEMMA Ranges3 ==
    ASSUME NEW s, NEW i \in Nat, NEW A, NEW B, NEW C
    PROVE  EndsWith(s, i + 2, <<A, B, C>>) <=> s[i] \in A /\ s[i + 1] \in B /\ s[i + 2] \in C
<1> DEFINE w == <<A, B, C>>
<1>1. Len(w) = 3 /\ w[1] = A /\ w[2] = B /\ w[3] = C
  OBVIOUS
<1> HIDE DEF w
<1>2. EndsWith(s, i + 2, w) <=> \A k \in 1..3 : s[(i + 2) - 3 + k] \in w[k]
  BY <1>1 DEF EndsWith
<1>3. /\ \A k \in 1..3 : k = 1 \/ k = 2 \/ k = 3
      /\ 1 \in 1..3 /\ 2 \in 1..3 /\ 3 \in 1..3 /\ (i + 2) - 3 + 1 = i
      /\ (i + 2) - 3 + 2 = i + 1 /\ (i + 2) - 3 + 3 = i + 2
  OBVIOUS
<1>4. EndsWith(s, i + 2, w) <=> s[i] \in w[1] /\ s[i + 1] \in w[2] /\ s[i + 2] \in w[3]
  BY <1>2, <1>3
<1> QED
  BY <1>1, <1>4 DEF w

LEMMA Ranges4 ==
    ASSUME NEW s, NEW i \in Nat, NEW A, NEW B, NEW C, NEW D
    PROVE  EndsWith(s, i + 3, <<A, B, C, D>>)
              <=> s[i] \in A /\ s[i + 1] \in B /\ s[i + 2] \in C /\ s[i + 3] \in D
<1> DEFINE w == <<A, B, C, D>>
<1>1. Len(w) = 4 /\ w[1] = A /\ w[2] = B /\ w[3] = C /\ w[4] = D
  OBVIOUS
<1> HIDE DEF w
<1>2. EndsWith(s, i + 3, w) <=> \A k \in 1..4 : s[(i + 3) - 4 + k] \in w[k]
  BY <1>1 DEF EndsWith
<1>3. /\ \A k \in 1..4 : k = 1 \/ k = 2 \/ k = 3 \/ k = 4
      /\ 1 \in 1..4 /\ 2 \in 1..4 /\ 3 \in 1..4 /\ 4 \in 1..4 /\ (i + 3) - 4 + 1 = i
      /\ (i + 3) - 4 + 2 = i + 1 /\ (i + 3) - 4 + 3 = i + 2 /\ (i + 3) - 4 + 4 = i + 3
  OBVIOUS
<1>4. EndsWith(s, i + 3, w)
         <=> s[i] \in w[1] /\ s[i + 1] \in w[2] /\ s[i + 2] \in w[3] /\ s[i + 3] \in w[4]
  BY <1>2, <1>3
<1> QED
  BY <1>1, <1>4 DEF w

\* The ranges of the standard, by their length.
LEMMA RangesForm ==
    ASSUME NEW s, NEW i \in Nat, NEW n \in 1..4
    PROVE  (\E w \in WellFormed : Len(w) = n /\ EndsWith(s, i + n - 1, w)) <=> FormedAt(s, i, n)
<1>1. i + 1 - 1 = i /\ i + 2 - 1 = i + 1 /\ i + 3 - 1 = i + 2 /\ i + 4 - 1 = i + 3
  OBVIOUS
<1> DEFINE P(w) == Len(w) = n /\ EndsWith(s, i + n - 1, w)
           W1 == <<0..127>>
           W2 == <<194..223, Cont>>
           W3 == <<{224}, 160..191, Cont>>
           W4 == <<225..236, Cont, Cont>>
           W5 == <<{237}, 128..159, Cont>>
           W6 == <<238..239, Cont, Cont>>
           W7 == <<{240}, 144..191, Cont, Cont>>
           W8 == <<241..243, Cont, Cont, Cont>>
           W9 == <<{244}, 128..143, Cont, Cont>>
<1>2. WellFormed = {W1, W2, W3, W4, W5, W6, W7, W8, W9}
  BY DEF WellFormed
<1>3. /\ Len(W1) = 1 /\ Len(W2) = 2 /\ Len(W3) = 3 /\ Len(W4) = 3 /\ Len(W5) = 3 /\ Len(W6) = 3
      /\ Len(W7) = 4 /\ Len(W8) = 4 /\ Len(W9) = 4
  OBVIOUS
<1>4. EndsWith(s, i, W1) <=> s[i] \in 0..127
  BY Ranges1
<1>5. EndsWith(s, i + 1, W2) <=> s[i] \in 194..223 /\ s[i + 1] \in Cont
  BY Ranges2
<1>6. /\ EndsWith(s, i + 2, W3) <=> s[i] \in {224} /\ s[i + 1] \in 160..191 /\ s[i + 2] \in Cont
      /\ EndsWith(s, i + 2, W4) <=> s[i] \in 225..236 /\ s[i + 1] \in Cont /\ s[i + 2] \in Cont
      /\ EndsWith(s, i + 2, W5) <=> s[i] \in {237} /\ s[i + 1] \in 128..159 /\ s[i + 2] \in Cont
      /\ EndsWith(s, i + 2, W6) <=> s[i] \in 238..239 /\ s[i + 1] \in Cont /\ s[i + 2] \in Cont
  <2>1. EndsWith(s, i + 2, W3) <=> s[i] \in {224} /\ s[i + 1] \in 160..191 /\ s[i + 2] \in Cont
    <3> DEFINE A == {224}
               B == 160..191
    <3> HIDE DEF A, B
    <3>1. EndsWith(s, i + 2, <<A, B, Cont>>)
             <=> s[i] \in A /\ s[i + 1] \in B /\ s[i + 2] \in Cont
      BY Ranges3
    <3> QED
      BY <3>1 DEF A, B
  <2>2. EndsWith(s, i + 2, W4) <=> s[i] \in 225..236 /\ s[i + 1] \in Cont /\ s[i + 2] \in Cont
    <3> DEFINE A == 225..236
    <3> HIDE DEF A
    <3>1. EndsWith(s, i + 2, <<A, Cont, Cont>>)
             <=> s[i] \in A /\ s[i + 1] \in Cont /\ s[i + 2] \in Cont
      BY Ranges3
    <3> QED
      BY <3>1 DEF A
  <2>3. EndsWith(s, i + 2, W5) <=> s[i] \in {237} /\ s[i + 1] \in 128..159 /\ s[i + 2] \in Cont
    <3> DEFINE A == {237}
               B == 128..159
    <3> HIDE DEF A, B
    <3>1. EndsWith(s, i + 2, <<A, B, Cont>>)
             <=> s[i] \in A /\ s[i + 1] \in B /\ s[i + 2] \in Cont
      BY Ranges3
    <3> QED
      BY <3>1 DEF A, B
  <2>4. EndsWith(s, i + 2, W6) <=> s[i] \in 238..239 /\ s[i + 1] \in Cont /\ s[i + 2] \in Cont
    <3> DEFINE A == 238..239
    <3> HIDE DEF A
    <3>1. EndsWith(s, i + 2, <<A, Cont, Cont>>)
             <=> s[i] \in A /\ s[i + 1] \in Cont /\ s[i + 2] \in Cont
      BY Ranges3
    <3> QED
      BY <3>1 DEF A
  <2> QED
    BY <2>1, <2>2, <2>3, <2>4
<1>7. /\ EndsWith(s, i + 3, W7) <=> s[i] \in {240} /\ s[i + 1] \in 144..191 /\ s[i + 2] \in Cont
                                    /\ s[i + 3] \in Cont
      /\ EndsWith(s, i + 3, W8) <=> s[i] \in 241..243 /\ s[i + 1] \in Cont /\ s[i + 2] \in Cont
                                    /\ s[i + 3] \in Cont
      /\ EndsWith(s, i + 3, W9) <=> s[i] \in {244} /\ s[i + 1] \in 128..143 /\ s[i + 2] \in Cont
                                    /\ s[i + 3] \in Cont
  <2>1. EndsWith(s, i + 3, W7) <=> s[i] \in {240} /\ s[i + 1] \in 144..191 /\ s[i + 2] \in Cont /\ s[i + 3] \in Cont
    <3> DEFINE A == {240}
               B == 144..191
    <3> HIDE DEF A, B
    <3>1. EndsWith(s, i + 3, <<A, B, Cont, Cont>>)
             <=> s[i] \in A /\ s[i + 1] \in B /\ s[i + 2] \in Cont /\ s[i + 3] \in Cont
      BY Ranges4
    <3> QED
      BY <3>1 DEF A, B
  <2>2. EndsWith(s, i + 3, W8) <=> s[i] \in 241..243 /\ s[i + 1] \in Cont /\ s[i + 2] \in Cont /\ s[i + 3] \in Cont
    <3> DEFINE A == 241..243
    <3> HIDE DEF A
    <3>1. EndsWith(s, i + 3, <<A, Cont, Cont, Cont>>)
             <=> s[i] \in A /\ s[i + 1] \in Cont /\ s[i + 2] \in Cont /\ s[i + 3] \in Cont
      BY Ranges4
    <3> QED
      BY <3>1 DEF A
  <2>3. EndsWith(s, i + 3, W9) <=> s[i] \in {244} /\ s[i + 1] \in 128..143 /\ s[i + 2] \in Cont /\ s[i + 3] \in Cont
    <3> DEFINE A == {244}
               B == 128..143
    <3> HIDE DEF A, B
    <3>1. EndsWith(s, i + 3, <<A, B, Cont, Cont>>)
             <=> s[i] \in A /\ s[i + 1] \in B /\ s[i + 2] \in Cont /\ s[i + 3] \in Cont
      BY Ranges4
    <3> QED
      BY <3>1 DEF A, B
  <2> QED
    BY <2>1, <2>2, <2>3
<1> HIDE DEF W1, W2, W3, W4, W5, W6, W7, W8, W9
<1>8. (\E w \in WellFormed : P(w)) <=> P(W1) \/ P(W2) \/ P(W3) \/ P(W4) \/ P(W5) \/ P(W6)
                                       \/ P(W7) \/ P(W8) \/ P(W9)
  <2> HIDE DEF P
  <2> QED
    BY <1>2
<1>9. CASE n = 1
  <2>1. (\E w \in WellFormed : P(w)) <=> EndsWith(s, i, W1)
    BY <1>1, <1>3, <1>8, <1>9
  <2> QED
    BY <1>4, <1>9, <2>1 DEF FormedAt, Formed1
<1>10. CASE n = 2
  <2>1. (\E w \in WellFormed : P(w)) <=> EndsWith(s, i + 1, W2)
    BY <1>1, <1>3, <1>8, <1>10
  <2> QED
    BY <1>5, <1>10, <2>1 DEF FormedAt, Formed2
<1>11. CASE n = 3
  <2>1. (\E w \in WellFormed : P(w))
           <=> EndsWith(s, i + 2, W3) \/ EndsWith(s, i + 2, W4) \/ EndsWith(s, i + 2, W5)
               \/ EndsWith(s, i + 2, W6)
    BY <1>1, <1>3, <1>8, <1>11
  <2>2. FormedAt(s, i, 3) <=> Formed3(s[i], s[i + 1], s[i + 2])
    BY DEF FormedAt
  <2> DEFINE a == s[i]
             b == s[i + 1]
             c == s[i + 2]
  <2>3. Formed3(a, b, c) <=> \/ a \in {224} /\ b \in 160..191 /\ c \in Cont
                             \/ a \in 225..236 /\ b \in Cont /\ c \in Cont
                             \/ a \in {237} /\ b \in 128..159 /\ c \in Cont
                             \/ a \in 238..239 /\ b \in Cont /\ c \in Cont
    <3> HIDE DEF a, b, c
    <3> QED
      BY DEF Formed3, Cont
  <2> QED
    BY <1>6, <1>11, <2>1, <2>2, <2>3
<1>12. CASE n = 4
  <2>1. (\E w \in WellFormed : P(w))
           <=> EndsWith(s, i + 3, W7) \/ EndsWith(s, i + 3, W8) \/ EndsWith(s, i + 3, W9)
    BY <1>1, <1>3, <1>8, <1>12
  <2>2. FormedAt(s, i, 4) <=> Formed4(s[i], s[i + 1], s[i + 2], s[i + 3])
    BY DEF FormedAt
  <2> DEFINE a == s[i]
             b == s[i + 1]
             c == s[i + 2]
             d == s[i + 3]
  <2>3. Formed4(a, b, c, d) <=> \/ a \in {240} /\ b \in 144..191 /\ c \in Cont /\ d \in Cont
                                \/ a \in 241..243 /\ b \in Cont /\ c \in Cont /\ d \in Cont
                                \/ a \in {244} /\ b \in 128..143 /\ c \in Cont /\ d \in Cont
    <3> HIDE DEF a, b, c, d
    <3> QED
      BY DEF Formed4, Cont
  <2> QED
    BY <1>7, <1>12, <2>1, <2>2, <2>3
<1> QED
  BY <1>9, <1>10, <1>11, <1>12

\* The class of a first byte.
Lead2(a) == a \div 32 = 6
Lead3(a) == a \div 16 = 14
Lead4(a) == a \div 8 = 30

LEMMA Leads ==
    ASSUME NEW a \in Byte
    PROVE  /\ Lead2(a) <=> a \in 192..223
           /\ Lead3(a) <=> a \in 224..239
           /\ Lead4(a) <=> a \in 240..247
  BY DEF Byte, Lead2, Lead3, Lead4

LEMMA ContinuationIs ==
    ASSUME NEW b \in Byte
    PROVE  (Continuation(b) <=> b \in Cont) /\ (b \in Cont => Low6(b) = b - 128)
  BY DEF Byte, Continuation, Cont, Low6

LEMMA Two ==
    ASSUME NEW a \in Byte, NEW b \in Byte, Lead2(a)
    PROVE  (b \in Cont /\ (a % 32) * 64 + (b - 128) >= 128) <=> Formed2(a, b)
<1>1. a \in 192..223 /\ a % 32 = a - 192
  BY Leads DEF Byte, Lead2
<1> QED
  BY <1>1 DEF Byte, Formed2, Cont

In3(point) == point >= 2048 /\ (point < 55296 \/ point > 57343)

LEMMA Three ==
    ASSUME NEW a \in Byte, NEW b \in Byte, NEW c \in Byte, Lead3(a)
    PROVE  (/\ b \in Cont /\ c \in Cont
            /\ In3((a % 16) * 4096 + (b - 128) * 64 + (c - 128)))
           <=> Formed3(a, b, c)
<1>1. a \in 224..239 /\ a % 16 = a - 224
  BY Leads DEF Byte, Lead3
<1> QED
  BY <1>1 DEF Byte, Formed3, Cont, In3

LEMMA Four ==
    ASSUME NEW a \in Byte, NEW b \in Byte, NEW c \in Byte, NEW d \in Byte, Lead4(a)
    PROVE  (/\ b \in Cont /\ c \in Cont /\ d \in Cont
            /\ (a % 8) * 262144 + (b - 128) * 4096 + (c - 128) * 64 + (d - 128) >= 65536
            /\ (a % 8) * 262144 + (b - 128) * 4096 + (c - 128) * 64 + (d - 128) <= 1114111)
           <=> Formed4(a, b, c, d)
<1>1. a \in 240..247 /\ a % 8 = a - 240
  BY Leads DEF Byte, Lead4
<1> QED
  BY <1>1 DEF Byte, Formed4, Cont

\* The tests of the source are the ranges of the standard.
LEMMA Sequence2Is ==
    ASSUME NEW s \in Seq(Byte), NEW i \in 1..Len(s), Lead2(s[i])
    PROVE  Sequence2(s, i) <=> i + 1 <= Len(s) /\ Formed2(s[i], s[i + 1])
<1>1. CASE ~(i + 1 <= Len(s))
  BY <1>1 DEF Sequence2
<1>2. CASE i + 1 <= Len(s)
  <2> DEFINE a == s[i]
             b == s[i + 1]
  <2>1. a \in Byte /\ b \in Byte /\ Lead2(a)
    BY <1>2
  <2>2. Sequence2(s, i) <=> Continuation(b) /\ (a % 32) * 64 + Low6(b) >= 128
    BY <1>2 DEF Sequence2
  <2> HIDE DEF a, b
  <2>3. Sequence2(s, i) <=> b \in Cont /\ (a % 32) * 64 + (b - 128) >= 128
    <3>1. CASE b \in Cont
      <4>1. Continuation(b) /\ Low6(b) = b - 128
        BY <2>1, <3>1, ContinuationIs
      <4> QED
        BY <2>2, <3>1, <4>1
    <3>2. CASE b \notin Cont
      BY <2>1, <2>2, <3>2, ContinuationIs
    <3> QED
      BY <3>1, <3>2
  <2>4. Sequence2(s, i) <=> Formed2(a, b)
    BY <2>1, <2>3, Two
  <2> QED
    BY <1>2, <2>4 DEF a, b
<1> QED
  BY <1>1, <1>2

Point3(a, b, c) == (a % 16) * 4096 + Low6(b) * 64 + Low6(c)

LEMMA Sequence3Form ==
    ASSUME NEW s, NEW i
    PROVE  Sequence3(s, i) <=> /\ i + 2 <= Len(s)
                               /\ Continuation(s[i + 1]) /\ Continuation(s[i + 2])
                               /\ In3(Point3(s[i], s[i + 1], s[i + 2]))
  BY SMT DEF Sequence3, In3, Point3

LEMMA Sequence3Is ==
    ASSUME NEW s \in Seq(Byte), NEW i \in 1..Len(s), Lead3(s[i])
    PROVE  Sequence3(s, i) <=> i + 2 <= Len(s) /\ Formed3(s[i], s[i + 1], s[i + 2])
<1>1. CASE ~(i + 2 <= Len(s))
  BY <1>1, Sequence3Form
<1>2. CASE i + 2 <= Len(s)
  <2> DEFINE a == s[i]
             b == s[i + 1]
             c == s[i + 2]
  <2>1. a \in Byte /\ b \in Byte /\ c \in Byte /\ Lead3(a)
    BY <1>2
  <2>2. Sequence3(s, i) <=> /\ Continuation(b) /\ Continuation(c)
                            /\ In3(Point3(a, b, c))
    BY <1>2, Sequence3Form
  <2> HIDE DEF a, b, c
  <2> DEFINE point == (a % 16) * 4096 + (b - 128) * 64 + (c - 128)
  <2>3. (b \in Cont /\ c \in Cont /\ In3(point)) <=> Formed3(a, b, c)
    BY <2>1, Three
  <2>4. b \in Cont /\ c \in Cont =>
           Continuation(b) /\ Continuation(c) /\ Point3(a, b, c) = point
    <3> SUFFICES ASSUME b \in Cont, c \in Cont
                 PROVE  Continuation(b) /\ Continuation(c) /\ Point3(a, b, c) = point
      OBVIOUS
    <3>1. Continuation(b) /\ Low6(b) = b - 128 /\ Continuation(c) /\ Low6(c) = c - 128
      BY <2>1, ContinuationIs
    <3> QED
      BY <3>1 DEF Point3
  <2>5. Continuation(b) /\ Continuation(c) => b \in Cont /\ c \in Cont
    BY <2>1, ContinuationIs
  <2> HIDE DEF point
  <2>6. Sequence3(s, i) <=> Formed3(a, b, c)
    BY <2>2, <2>3, <2>4, <2>5, Zenon
  <2> QED
    BY <1>2, <2>6 DEF a, b, c
<1> QED
  BY <1>1, <1>2

LEMMA Sequence4Is ==
    ASSUME NEW s \in Seq(Byte), NEW i \in 1..Len(s), Lead4(s[i])
    PROVE  Sequence4(s, i) <=> i + 3 <= Len(s) /\ Formed4(s[i], s[i + 1], s[i + 2], s[i + 3])
<1>1. CASE ~(i + 3 <= Len(s))
  BY <1>1 DEF Sequence4
<1>2. CASE i + 3 <= Len(s)
  <2> DEFINE a == s[i]
             b == s[i + 1]
             c == s[i + 2]
             d == s[i + 3]
             point == (a % 8) * 262144 + Low6(b) * 4096 + Low6(c) * 64 + Low6(d)
  <2>1. a \in Byte /\ b \in Byte /\ c \in Byte /\ d \in Byte /\ Lead4(a)
    BY <1>2
  <2>2. Sequence4(s, i) <=> /\ \A k \in 1..3 : Continuation(s[i + k])
                            /\ point >= 65536 /\ point <= 1114111
    BY <1>2 DEF Sequence4
  <2>3. (\A k \in 1..3 : Continuation(s[i + k]))
           <=> Continuation(b) /\ Continuation(c) /\ Continuation(d)
    <3>1. /\ \A k \in 1..3 : k = 1 \/ k = 2 \/ k = 3
          /\ 1 \in 1..3 /\ 2 \in 1..3 /\ 3 \in 1..3
      OBVIOUS
    <3> QED
      BY <3>1
  <2> HIDE DEF a, b, c, d
  <2>4. Sequence4(s, i) <=>
           /\ b \in Cont /\ c \in Cont /\ d \in Cont
           /\ (a % 8) * 262144 + (b - 128) * 4096 + (c - 128) * 64 + (d - 128) >= 65536
           /\ (a % 8) * 262144 + (b - 128) * 4096 + (c - 128) * 64 + (d - 128) <= 1114111
    <3>1. CASE b \in Cont /\ c \in Cont /\ d \in Cont
      <4>1. /\ Continuation(b) /\ Low6(b) = b - 128 /\ Continuation(c) /\ Low6(c) = c - 128
            /\ Continuation(d) /\ Low6(d) = d - 128
        BY <2>1, <3>1, ContinuationIs
      <4> QED
        BY <2>2, <2>3, <3>1, <4>1
    <3>2. CASE ~(b \in Cont /\ c \in Cont /\ d \in Cont)
      <4>1. ~(Continuation(b) /\ Continuation(c) /\ Continuation(d))
        BY <2>1, <3>2, ContinuationIs
      <4> QED
        BY <2>2, <2>3, <3>2, <4>1
    <3> QED
      BY <3>1, <3>2
  <2>5. Sequence4(s, i) <=> Formed4(a, b, c, d)
    BY <2>1, <2>4, Four
  <2> QED
    BY <1>2, <2>5 DEF a, b, c, d
<1> QED
  BY <1>1, <1>2

LEMMA FirstBytes ==
    ASSUME NEW a \in Byte, NEW b, NEW c, NEW d
    PROVE  /\ Formed1(a) <=> a <= 127
           /\ Formed2(a, b) => a \in 192..223
           /\ Formed3(a, b, c) => a \in 224..239
           /\ Formed4(a, b, c, d) => a \in 240..247
<1>1. Formed1(a) <=> a <= 127
  BY DEF Formed1, Byte
<1>2. Formed2(a, b) => a \in 192..223
  BY DEF Formed2, Byte
<1>3. Formed3(a, b, c) => a \in 224..239
  BY DEF Formed3, Byte
<1>4. Formed4(a, b, c, d) => a \in 240..247
  BY DEF Formed4, Byte
<1> QED
  BY <1>1, <1>2, <1>3, <1>4

\* Utf8SequenceLengthAt gives the length of the well-formed sequence there, or 0.
LEMMA LengthIs ==
    ASSUME NEW s \in Seq(Byte), NEW i \in 1..Len(s)
    PROVE  LET n == Utf8SequenceLengthAt(s, i)
           IN  /\ n \in 0..4
               /\ n # 0 => i + n - 1 <= Len(s) /\ FormedAt(s, i, n)
               /\ \A m \in 1..4 : i + m - 1 <= Len(s) /\ FormedAt(s, i, m) => n = m
<1> DEFINE n == Utf8SequenceLengthAt(s, i)
           a == s[i]
<1>1. a \in Byte /\ Len(s) \in Nat
  OBVIOUS
<1>2. n = CASE a <= 127 -> 1
            [] Lead2(a) -> IF Sequence2(s, i) THEN 2 ELSE 0
            [] Lead3(a) -> IF Sequence3(s, i) THEN 3 ELSE 0
            [] Lead4(a) -> IF Sequence4(s, i) THEN 4 ELSE 0
            [] OTHER -> 0
  BY DEF Utf8SequenceLengthAt, Lead2, Lead3, Lead4
<1>3. /\ Lead2(a) => Sequence2(s, i) <=> i + 1 <= Len(s) /\ Formed2(s[i], s[i + 1])
      /\ Lead3(a) => Sequence3(s, i) <=> i + 2 <= Len(s) /\ Formed3(s[i], s[i + 1], s[i + 2])
      /\ Lead4(a) => Sequence4(s, i) <=> i + 3 <= Len(s) /\ Formed4(s[i], s[i + 1], s[i + 2], s[i + 3])
  BY Sequence2Is, Sequence3Is, Sequence4Is
<1>4. /\ FormedAt(s, i, 1) <=> Formed1(a)
      /\ FormedAt(s, i, 2) <=> Formed2(s[i], s[i + 1])
      /\ FormedAt(s, i, 3) <=> Formed3(s[i], s[i + 1], s[i + 2])
      /\ FormedAt(s, i, 4) <=> Formed4(s[i], s[i + 1], s[i + 2], s[i + 3])
  BY DEF FormedAt
<1>5. /\ Lead2(a) <=> a \in 192..223
      /\ Lead3(a) <=> a \in 224..239
      /\ Lead4(a) <=> a \in 240..247
  BY <1>1, Leads
<1>6. /\ FormedAt(s, i, 1) <=> a <= 127
      /\ FormedAt(s, i, 2) => a \in 192..223
      /\ FormedAt(s, i, 3) => a \in 224..239
      /\ FormedAt(s, i, 4) => a \in 240..247
  BY <1>1, <1>4, FirstBytes
<1>7. /\ \A m \in 1..4 : m = 1 \/ m = 2 \/ m = 3 \/ m = 4
      /\ i + 1 - 1 = i /\ i + 2 - 1 = i + 1 /\ i + 3 - 1 = i + 2 /\ i + 4 - 1 = i + 3 /\ i <= Len(s)
  OBVIOUS
<1> DEFINE G(k) == /\ k \in 0..4
                   /\ k # 0 => i + k - 1 <= Len(s) /\ FormedAt(s, i, k)
                   /\ \A m \in 1..4 : i + m - 1 <= Len(s) /\ FormedAt(s, i, m) => k = m
<1> SUFFICES G(n)
  OBVIOUS
<1> HIDE DEF n, a
<1>8. a \in Int
  BY <1>1 DEF Byte
<1>14. a <= 127 \/ a \in 192..223 \/ a \in 224..239 \/ a \in 240..247
       \/ (a > 127 /\ a \notin 192..223 /\ a \notin 224..239 /\ a \notin 240..247)
  BY <1>8
<1>9. CASE a <= 127
  <2>1. (a <= 127) /\ ~Lead2(a) /\ ~Lead3(a) /\ ~Lead4(a)
    BY <1>5, <1>8, <1>9
  <2>2. FormedAt(s, i, 1) /\ ~FormedAt(s, i, 2) /\ ~FormedAt(s, i, 3) /\ ~FormedAt(s, i, 4)
    BY <1>6, <1>8, <1>9
  <2>3. n = 1
    BY <1>2, <2>1
  <2> QED
    BY <1>7, <2>2, <2>3
<1>10. CASE a \in 192..223
  <2>1. ~(a <= 127) /\ Lead2(a) /\ ~Lead3(a) /\ ~Lead4(a)
    BY <1>5, <1>8, <1>10
  <2>2. ~FormedAt(s, i, 1) /\ ~FormedAt(s, i, 3) /\ ~FormedAt(s, i, 4)
    BY <1>6, <1>8, <1>10
  <2>3. n = IF i + 1 <= Len(s) /\ FormedAt(s, i, 2) THEN 2 ELSE 0
    BY <1>2, <1>3, <1>4, <2>1
  <2> QED
    BY <1>7, <2>2, <2>3
<1>11. CASE a \in 224..239
  <2>1. ~(a <= 127) /\ ~Lead2(a) /\ Lead3(a) /\ ~Lead4(a)
    BY <1>5, <1>8, <1>11
  <2>2. ~FormedAt(s, i, 1) /\ ~FormedAt(s, i, 2) /\ ~FormedAt(s, i, 4)
    BY <1>6, <1>8, <1>11
  <2>3. n = IF i + 2 <= Len(s) /\ FormedAt(s, i, 3) THEN 3 ELSE 0
    BY <1>2, <1>3, <1>4, <2>1
  <2> QED
    BY <1>7, <2>2, <2>3
<1>12. CASE a \in 240..247
  <2>1. ~(a <= 127) /\ ~Lead2(a) /\ ~Lead3(a) /\ Lead4(a)
    BY <1>5, <1>8, <1>12
  <2>2. ~FormedAt(s, i, 1) /\ ~FormedAt(s, i, 2) /\ ~FormedAt(s, i, 3)
    BY <1>6, <1>8, <1>12
  <2>3. n = IF i + 3 <= Len(s) /\ FormedAt(s, i, 4) THEN 4 ELSE 0
    BY <1>2, <1>3, <1>4, <2>1
  <2> QED
    BY <1>7, <2>2, <2>3
<1>13. CASE a > 127 /\ a \notin 192..223 /\ a \notin 224..239 /\ a \notin 240..247
  <2>1. ~(a <= 127) /\ ~Lead2(a) /\ ~Lead3(a) /\ ~Lead4(a)
    BY <1>5, <1>8, <1>13
  <2>2. ~FormedAt(s, i, 1) /\ ~FormedAt(s, i, 2) /\ ~FormedAt(s, i, 3) /\ ~FormedAt(s, i, 4)
    BY <1>6, <1>8, <1>13
  <2>3. n = 0
    BY <1>2, <2>1
  <2> QED
    BY <1>7, <2>2, <2>3
<1> QED
  BY <1>9, <1>10, <1>11, <1>12, <1>13, <1>14

\* The definition of IsUtf8, unfolded: where a prefix of the text that is UTF-8 ends.
IsEnds(s, g) ==
    g = [n \in 0..Len(s) |->
            \/ n = 0
            \/ \E w \in WellFormed :
                  /\ Len(w) <= n /\ g[n - Len(w)]
                  /\ \A k \in 1..Len(w) : s[n - Len(w) + k] \in w[k]]
EndsFun(s) == CHOOSE g : IsEnds(s, g)
Ends(s) == {n \in 0..Len(s) : EndsFun(s)[n]}

LEMMA Utf8IsEnds == \A s : IsUtf8(s) = EndsFun(s)[Len(s)]
  BY DEF IsUtf8, EndsFun, IsEnds

LEMMA EndsRec ==
    ASSUME NEW s \in Seq(Byte)
    PROVE  /\ IsUtf8(s) <=> Len(s) \in Ends(s)
           /\ \A n \in 0..Len(s) :
                 n \in Ends(s) <=>
                    \/ n = 0
                    \/ \E l \in 1..4 : l <= n /\ n - l \in Ends(s) /\ FormedAt(s, n - l + 1, l)
<1> DEFINE D == 0..Len(s)
           B == {0}
           R == {x \in D \X D : \E l \in 1..4 : /\ x[1] = x[2] - l
                                                /\ FormedAt(s, x[1] + 1, l)}
           Body(g, n) == \/ n = 0
                         \/ \E w \in WellFormed :
                               /\ Len(w) <= n /\ g[n - Len(w)]
                               /\ \A k \in 1..Len(w) : s[n - Len(w) + k] \in w[k]
<1>1. Len(s) \in Nat
  OBVIOUS
<1>2. ASSUME NEW n \in D, NEW l \in 1..4, l <= n
      PROVE  (\E w \in WellFormed : Len(w) = l /\ EndsWith(s, n, w)) <=> FormedAt(s, n - l + 1, l)
  <2> DEFINE i == n - l + 1
  <2>1. i \in Nat /\ i + l - 1 = n
    BY <1>1, <1>2
  <2> HIDE DEF i
  <2>2. (\E w \in WellFormed : Len(w) = l /\ EndsWith(s, i + l - 1, w)) <=> FormedAt(s, i, l)
    BY <2>1, RangesForm
  <2> QED
    BY <2>1, <2>2 DEF i
<1>3. ASSUME NEW g, NEW n \in D
      PROVE  Body(g, n) <=> \/ n = 0
                            \/ \E l \in 1..4 : l <= n /\ g[n - l] /\ FormedAt(s, n - l + 1, l)
  <2>1. Body(g, n) <=> n = 0 \/ \E w \in WellFormed : Len(w) <= n /\ g[n - Len(w)] /\ EndsWith(s, n, w)
    BY Zenon DEF EndsWith
  <2> HIDE DEF Body, D
  <2>2. ASSUME NEW w \in WellFormed, Len(w) <= n, g[n - Len(w)], EndsWith(s, n, w)
        PROVE  \E l \in 1..4 : l <= n /\ g[n - l] /\ FormedAt(s, n - l + 1, l)
    <3> DEFINE l == Len(w)
    <3>1. l \in 1..4 /\ l <= n
      BY <2>2, RangesAre
    <3>2. FormedAt(s, n - l + 1, l)
      BY <1>2, <2>2, <3>1, Zenon
    <3> QED
      BY <2>2, <3>1, <3>2, Zenon
  <2>3. ASSUME NEW l \in 1..4, l <= n, g[n - l], FormedAt(s, n - l + 1, l)
        PROVE  \E w \in WellFormed : Len(w) <= n /\ g[n - Len(w)] /\ EndsWith(s, n, w)
    <3>1. PICK w \in WellFormed : Len(w) = l /\ EndsWith(s, n, w)
      BY <1>2, <2>3, Zenon
    <3> QED
      BY <2>3, <3>1, Zenon
  <2> QED
    BY <2>1, <2>2, <2>3, Zenon
<1>13. PICK T : IsFixpoint(D, B, R, T)
  <2> HIDE DEF D, R, B
  <2> QED
    BY LeastFixpoint
<1>4. T \in SUBSET D /\ \A n \in D : n \in T <=> n \in B \/ \E m \in T : <<m, n>> \in R
  BY <1>13, Zenon DEF IsFixpoint
<1>5. ASSUME NEW n \in D
      PROVE  n \in T <=> \/ n = 0
                         \/ \E l \in 1..4 : l <= n /\ n - l \in T /\ FormedAt(s, n - l + 1, l)
  <2>1. ASSUME NEW m \in T, <<m, n>> \in R
        PROVE  \E l \in 1..4 : l <= n /\ n - l \in T /\ FormedAt(s, n - l + 1, l)
    <3>1. PICK l \in 1..4 : m = n - l /\ FormedAt(s, m + 1, l)
      BY <2>1
    <3>2. m \in D
      BY <1>4
    <3>3. l <= n
      BY <1>1, <3>1, <3>2
    <3>4. FormedAt(s, n - l + 1, l)
      BY <3>1
    <3> QED
      BY <2>1, <3>1, <3>3, <3>4
  <2>2. ASSUME NEW l \in 1..4, l <= n, n - l \in T, FormedAt(s, n - l + 1, l)
        PROVE  \E m \in T : <<m, n>> \in R
    <3>1. n - l \in D
      BY <1>4, <2>2
    <3>2. <<n - l, n>> \in R
      BY <2>2, <3>1
    <3> QED
      BY <2>2, <3>2
  <2> QED
    BY <1>4, <2>1, <2>2
<1> DEFINE G == [n \in D |-> n \in T]
<1>6. ASSUME NEW n \in D PROVE G[n] <=> Body(G, n)
  <2>1. ASSUME NEW l \in 1..4, l <= n PROVE G[n - l] <=> n - l \in T
    <3>1. n - l \in D
      BY <1>1, <2>1
    <3> QED
      BY <3>1
  <2>2. G[n] <=> n \in T
    OBVIOUS
  <2> HIDE DEF G, Body
  <2> QED
    BY <1>3, <1>5, <2>1, <2>2, Zenon
<1>7. IsEnds(s, G)
  <2>1. \A n \in D : G[n] \in BOOLEAN
    OBVIOUS
  <2>2. \A n \in D : Body(G, n) \in BOOLEAN
    OBVIOUS
  <2>3. G = [n \in D |-> G[n]]
    OBVIOUS
  <2> HIDE DEF G
  <2>4. \A n \in D : G[n] = Body(G, n)
    <3> HIDE DEF Body
    <3> QED
      BY <1>6, <2>1, <2>2
  <2>5. [n \in D |-> G[n]] = [n \in D |-> Body(G, n)]
    <3> HIDE DEF Body
    <3> QED
      BY <2>4, Zenon
  <2> QED
    BY <2>3, <2>5, Zenon DEF IsEnds
<1> DEFINE f == EndsFun(s)
<1>8. IsEnds(s, f)
  BY <1>7 DEF EndsFun
<1>9. \A n \in D : f[n] = Body(f, n)
  <2>1. f = [n \in D |-> Body(f, n)]
    BY <1>8, Zenon DEF IsEnds
  <2> HIDE DEF f, Body, D
  <2> QED
    BY <2>1
<1>10. \A n \in D : n \in Ends(s) <=> f[n]
  BY DEF Ends
<1>11. IsUtf8(s) <=> Len(s) \in Ends(s)
  <2>1. Len(s) \in D
    BY <1>1
  <2>2. IsUtf8(s) = f[Len(s)]
    BY Utf8IsEnds
  <2> HIDE DEF f, D
  <2> QED
    BY <1>10, <2>1, <2>2, Zenon
<1>12. ASSUME NEW n \in D
       PROVE  n \in Ends(s) <=>
                 \/ n = 0
                 \/ \E l \in 1..4 : l <= n /\ n - l \in Ends(s) /\ FormedAt(s, n - l + 1, l)
  <2>1. f[n] <=> Body(f, n)
    BY <1>9, Zenon
  <2>2. ASSUME NEW l \in 1..4, l <= n PROVE f[n - l] <=> n - l \in Ends(s)
    <3>1. n - l \in D
      BY <1>1, <2>2
    <3> QED
      BY <1>10, <3>1, Zenon
  <2> HIDE DEF f, Body
  <2> QED
    BY <1>3, <1>10, <2>1, <2>2, Zenon
<1> QED
  BY <1>11, <1>12

\* The definition of IsValidUtf8, unfolded: where a valid rest of the text starts.
IsFrom(s, g) ==
    g = [i \in 1..(Len(s) + 4) |->
            IF i > Len(s) THEN TRUE
            ELSE Utf8SequenceLengthAt(s, i) # 0 /\ g[i + Utf8SequenceLengthAt(s, i)]]
FromFun(s) == CHOOSE g : IsFrom(s, g)
Starts(s) == {i \in 1..(Len(s) + 4) : FromFun(s)[i]}

LEMMA ValidIsFrom == \A s : IsValidUtf8(s) = FromFun(s)[1]
  BY DEF IsValidUtf8, FromFun, IsFrom

LEMMA StartsRec ==
    ASSUME NEW s \in Seq(Byte)
    PROVE  /\ IsValidUtf8(s) <=> 1 \in Starts(s)
           /\ \A i \in 1..(Len(s) + 4) :
                 i \in Starts(s) <=>
                    \/ i > Len(s)
                    \/ /\ Utf8SequenceLengthAt(s, i) # 0
                       /\ i + Utf8SequenceLengthAt(s, i) \in Starts(s)
<1> DEFINE D == 1..(Len(s) + 4)
           n(i) == Utf8SequenceLengthAt(s, i)
           R == {x \in D \X D : x[2] <= Len(s) /\ n(x[2]) # 0 /\ x[1] = x[2] + n(x[2])}
           B == {i \in D : i > Len(s)}
           Body(g, i) == IF i > Len(s) THEN TRUE ELSE n(i) # 0 /\ g[i + n(i)]
<1>1. Len(s) \in Nat
  OBVIOUS
<1>2. \A i \in 1..Len(s) : n(i) \in 0..4
  BY LengthIs
<1>3. ASSUME NEW i \in D, ~(i > Len(s)) PROVE i + n(i) \in D
  <2>1. i \in 1..Len(s)
    BY <1>1, <1>3
  <2>2. n(i) \in 0..4
    BY <1>2, <2>1
  <2> HIDE DEF n
  <2> QED
    BY <1>1, <2>1, <2>2
<1> HIDE DEF n
<1>13. PICK T : IsFixpoint(D, B, R, T)
  <2> HIDE DEF D, R, B
  <2> QED
    BY LeastFixpoint
<1>4. T \in SUBSET D /\ \A i \in D : i \in T <=> i \in B \/ \E m \in T : <<m, i>> \in R
  BY <1>13, Zenon DEF IsFixpoint
<1>5. ASSUME NEW i \in D
      PROVE  i \in T <=> i > Len(s) \/ (n(i) # 0 /\ i + n(i) \in T)
  <2>1. CASE i > Len(s)
    BY <1>4, <2>1
  <2>2. CASE ~(i > Len(s))
    <3>1. i <= Len(s)
      BY <1>1, <2>2
    <3>2. i + n(i) \in D
      BY <1>3, <2>2
    <3>3. \A m \in T : <<m, i>> \in R <=> n(i) # 0 /\ m = i + n(i)
      <4> TAKE m \in T
      <4>1. m \in D
        BY <1>4
      <4> QED
        BY <3>1, <4>1
    <3>4. i \notin B
      BY <2>2
    <3> HIDE DEF R, B, D
    <3> QED
      BY <1>4, <2>2, <3>3, <3>4
  <2> QED
    BY <2>1, <2>2
<1> DEFINE G == [i \in D |-> i \in T]
<1>6. ASSUME NEW i \in D PROVE G[i] = Body(G, i)
  <2>1. G[i] = (i \in T)
    OBVIOUS
  <2>2. CASE i > Len(s)
    BY <1>5, <2>1, <2>2
  <2>3. CASE ~(i > Len(s))
    <3>1. G[i + n(i)] = (i + n(i) \in T)
      BY <1>3, <2>3
    <3>2. Body(G, i) = (n(i) # 0 /\ G[i + n(i)])
      BY <2>3
    <3>3. (i \in T) = (n(i) # 0 /\ i + n(i) \in T)
      <4>1. (i \in T) <=> (n(i) # 0 /\ i + n(i) \in T)
        BY <1>5, <2>3
      <4> QED
        BY <4>1
    <3> HIDE DEF G, Body
    <3> QED
      BY <2>1, <3>1, <3>2, <3>3, Zenon
  <2> QED
    BY <2>2, <2>3
<1>7. IsFrom(s, G)
  <2>1. G = [i \in D |-> G[i]]
    OBVIOUS
  <2>2. [i \in D |-> G[i]] = [i \in D |-> Body(G, i)]
    <3> HIDE DEF Body, G
    <3> QED
      BY <1>6, Zenon
  <2> HIDE DEF G
  <2> QED
    BY <2>1, <2>2, Zenon DEF IsFrom, n
<1> DEFINE f == FromFun(s)
<1>8. IsFrom(s, f)
  BY <1>7 DEF FromFun
<1>9. \A i \in D : f[i] = Body(f, i)
  <2>1. f = [i \in D |-> Body(f, i)]
    BY <1>8, Zenon DEF IsFrom, n
  <2> HIDE DEF f, Body, D
  <2> QED
    BY <2>1
<1>10. \A i \in D : i \in Starts(s) <=> f[i]
  BY DEF Starts
<1>11. IsValidUtf8(s) <=> 1 \in Starts(s)
  <2>1. 1 \in D
    BY <1>1
  <2>2. IsValidUtf8(s) = f[1]
    BY ValidIsFrom
  <2> HIDE DEF f, D
  <2> QED
    BY <1>10, <2>1, <2>2, Zenon
<1>12. ASSUME NEW i \in D
       PROVE  i \in Starts(s) <=> i > Len(s) \/ (n(i) # 0 /\ i + n(i) \in Starts(s))
  <2>1. f[i] = Body(f, i)
    BY <1>9, Zenon
  <2>2. CASE i > Len(s)
    <3>1. f[i] = TRUE
      BY <2>1, <2>2
    <3> QED
      BY <1>10, <2>2, <3>1
  <2>3. CASE ~(i > Len(s))
    <3>1. f[i] = (n(i) # 0 /\ f[i + n(i)])
      BY <2>1, <2>3
    <3>2. i + n(i) \in D
      BY <1>3, <2>3
    <3> HIDE DEF f, D
    <3> QED
      BY <1>10, <2>3, <3>1, <3>2, Zenon
  <2> QED
    BY <2>2, <2>3
<1> QED
  BY <1>11, <1>12 DEF n

\* A sequence is well-formed wherever its bytes stand.
LEMMA FormedSame ==
    ASSUME NEW s, NEW i \in Nat, NEW r, NEW j \in Nat, NEW n \in 1..4,
           \A k \in 0..(n - 1) : r[j + k] = s[i + k], FormedAt(s, i, n)
    PROVE  FormedAt(r, j, n)
<1>1. i + 0 = i /\ j + 0 = j
  OBVIOUS
<1>2. CASE n = 1
  <2>1. 0 \in 0..(n - 1)
    BY <1>2
  <2>2. r[j] = s[i]
    BY <1>1, <2>1
  <2> QED
    BY <1>2, <2>2 DEF FormedAt
<1>3. CASE n = 2
  <2>1. 0 \in 0..(n - 1) /\ 1 \in 0..(n - 1)
    BY <1>3
  <2>2. r[j] = s[i] /\ r[j + 1] = s[i + 1]
    BY <1>1, <2>1
  <2> QED
    BY <1>3, <2>2 DEF FormedAt
<1>4. CASE n = 3
  <2>1. 0 \in 0..(n - 1) /\ 1 \in 0..(n - 1) /\ 2 \in 0..(n - 1)
    BY <1>4
  <2>2. r[j] = s[i] /\ r[j + 1] = s[i + 1] /\ r[j + 2] = s[i + 2]
    BY <1>1, <2>1
  <2> QED
    BY <1>4, <2>2 DEF FormedAt
<1>5. CASE n = 4
  <2>1. 0 \in 0..(n - 1) /\ 1 \in 0..(n - 1) /\ 2 \in 0..(n - 1) /\ 3 \in 0..(n - 1)
    BY <1>5
  <2>2. r[j] = s[i] /\ r[j + 1] = s[i + 1] /\ r[j + 2] = s[i + 2] /\ r[j + 3] = s[i + 3]
    BY <1>1, <2>1
  <2> QED
    BY <1>5, <2>2 DEF FormedAt
<1> QED
  BY <1>2, <1>3, <1>4, <1>5

\* The check of the source, from the front, and the reference, from the back, agree.
LEMMA ValidIsUtf8 ==
    ASSUME NEW s \in Seq(Byte)
    PROVE  IsValidUtf8(s) <=> IsUtf8(s)
<1> DEFINE L == Len(s)
           n(i) == Utf8SequenceLengthAt(s, i)
<1>1. L \in Nat
  OBVIOUS
<1>2. /\ IsUtf8(s) <=> L \in Ends(s)
      /\ \A m \in 0..L : m \in Ends(s) <=>
            m = 0 \/ \E l \in 1..4 : l <= m /\ m - l \in Ends(s) /\ FormedAt(s, m - l + 1, l)
  BY EndsRec
<1>3. /\ IsValidUtf8(s) <=> 1 \in Starts(s)
      /\ \A i \in 1..(L + 4) : i \in Starts(s) <=> i > L \/ (n(i) # 0 /\ i + n(i) \in Starts(s))
  BY StartsRec
<1>4. \A i \in 1..L : /\ n(i) \in 0..4
                      /\ n(i) # 0 => i + n(i) - 1 <= L /\ FormedAt(s, i, n(i))
                      /\ \A m \in 1..4 : i + m - 1 <= L /\ FormedAt(s, i, m) => n(i) = m
  BY LengthIs
<1> HIDE DEF n, L
<1>5. ASSUME 1 \in Starts(s) PROVE L \in Ends(s)
  <2> DEFINE T == {d \in Nat : d <= L /\ L - d \in Ends(s) /\ L - d + 1 \in Starts(s) => L \in Ends(s)}
  <2>1. ASSUME NEW d \in Nat, \A k \in Nat : k < d => k \in T PROVE d \in T
    <3> SUFFICES ASSUME d <= L, L - d \in Ends(s), L - d + 1 \in Starts(s) PROVE L \in Ends(s)
      OBVIOUS
    <3>1. CASE d = 0
      <4>1. L - d = L
        BY <1>1, <3>1
      <4> QED
        BY <4>1
    <3>2. CASE d # 0
      <4> DEFINE i == L - d + 1
      <4>1. i \in 1..L /\ i \in 1..(L + 4) /\ ~(i > L)
        BY <1>1, <3>2
      <4>2. n(i) # 0 /\ i + n(i) \in Starts(s)
        BY <1>3, <4>1
      <4>3. n(i) \in 1..4 /\ i + n(i) - 1 <= L /\ FormedAt(s, i, n(i))
        BY <1>4, <4>1, <4>2
      <4> DEFINE k == d - n(i)
                 m == i + n(i) - 1
      <4>4. k \in Nat /\ k < d /\ L - k = m /\ k <= L /\ L - k + 1 = i + n(i)
        <5> DEFINE z == n(i)
        <5>1. z \in 1..4 /\ i + z - 1 <= L
          BY <4>3
        <5>2. i = L - d + 1 /\ k = d - z /\ m = i + z - 1
          OBVIOUS
        <5> HIDE DEF z, k, m, i
        <5>3. k \in Nat /\ k < d /\ L - k = m /\ k <= L /\ L - k + 1 = i + z
          BY <1>1, <5>1, <5>2
        <5> QED
          BY <5>3 DEF z
      <4>5. m \in 0..L /\ n(i) <= m /\ m - n(i) = L - d /\ m - n(i) + 1 = i
        BY <1>1, <4>1, <4>3
      <4> HIDE DEF i, k, m
      <4>6. m \in Ends(s)
        BY <1>2, <4>3, <4>5
      <4>7. k \in T
        BY <2>1, <4>4
      <4> QED
        BY <4>2, <4>4, <4>6, <4>7
    <3> QED
      BY <3>1, <3>2
  <2>2. T \in SUBSET Nat
    OBVIOUS
  <2> HIDE DEF T
  <2>3. L \in T
    BY <1>1, <2>1, <2>2, NatStrongInd
  <2>4. L - L = 0 /\ L - L + 1 = 1 /\ 0 \in 0..L
    BY <1>1
  <2>5. 0 \in Ends(s)
    BY <1>2, <2>4
  <2> QED
    BY <1>1, <1>5, <2>3, <2>4, <2>5 DEF T
<1>6. ASSUME L \in Ends(s) PROVE 1 \in Starts(s)
  <2> DEFINE T == {m \in Nat : m <= L /\ m \in Ends(s) /\ m + 1 \in Starts(s) => 1 \in Starts(s)}
  <2>1. ASSUME NEW m \in Nat, \A k \in Nat : k < m => k \in T PROVE m \in T
    <3> SUFFICES ASSUME m <= L, m \in Ends(s), m + 1 \in Starts(s), m # 0 PROVE 1 \in Starts(s)
      OBVIOUS
    <3>1. m \in 0..L
      BY <1>1
    <3>2. PICK l \in 1..4 : l <= m /\ m - l \in Ends(s) /\ FormedAt(s, m - l + 1, l)
      BY <1>2, <3>1
    <3> DEFINE i == m - l + 1
               k == m - l
    <3>3. /\ i \in 1..L /\ i \in 1..(L + 4) /\ i + l - 1 <= L /\ i + l = m + 1
          /\ k \in Nat /\ k < m /\ k <= L /\ k + 1 = i
      BY <1>1, <3>1, <3>2
    <3> HIDE DEF i
    <3>4. n(i) = l
      BY <1>4, <3>2, <3>3 DEF i
    <3>5. i \in Starts(s)
      BY <1>3, <3>3, <3>4
    <3>6. k \in T
      BY <2>1, <3>3
    <3> QED
      BY <3>2, <3>3, <3>5, <3>6
  <2>2. T \in SUBSET Nat
    OBVIOUS
  <2> HIDE DEF T
  <2>3. L \in T
    BY <1>1, <2>1, <2>2, NatStrongInd
  <2>4. L + 1 \in 1..(L + 4) /\ L + 1 > L
    BY <1>1
  <2>5. L + 1 \in Starts(s)
    BY <1>3, <2>4
  <2> QED
    BY <1>1, <1>6, <2>3, <2>5 DEF T
<1> QED
  BY <1>2, <1>3, <1>5, <1>6

\* The empty text, and one more sequence.
LEMMA EmptyIsUtf8 == IsUtf8(<<>>)
<1> DEFINE s == <<>>
<1>1. s \in Seq(Byte) /\ Len(s) = 0
  BY EmptySeq
<1> HIDE DEF s
<1>2. /\ IsUtf8(s) <=> Len(s) \in Ends(s)
      /\ \A n \in 0..Len(s) : n = 0 => n \in Ends(s)
  BY <1>1, EndsRec
<1>3. 0 \in 0..Len(s)
  BY <1>1
<1> QED
  BY <1>1, <1>2, <1>3 DEF s

LEMMA OneSequenceMore ==
    ASSUME NEW s \in Seq(Byte), IsUtf8(s), NEW q \in Seq(Byte), Len(q) \in 1..4,
           FormedAt(q, 1, Len(q))
    PROVE  s \o q \in Seq(Byte) /\ IsUtf8(s \o q)
<1> DEFINE L == Len(s)
           m == Len(q)
           r == s \o q
<1>1. /\ r \in Seq(Byte) /\ L \in Nat /\ m \in 1..4 /\ Len(r) = L + m
      /\ \A i \in 1..L : r[i] = s[i]
      /\ \A i \in 1..m : r[L + i] = q[i]
  OBVIOUS
<1>2. /\ L \in Ends(s)
      /\ \A n \in 0..L : n \in Ends(s) <=>
            n = 0 \/ \E l \in 1..4 : l <= n /\ n - l \in Ends(s) /\ FormedAt(s, n - l + 1, l)
  BY EndsRec
<1>3. FormedAt(q, 1, m)
  OBVIOUS
<1> HIDE DEF r, L, m
<1>4. /\ IsUtf8(r) <=> L + m \in Ends(r)
      /\ \A n \in 0..(L + m) : n \in Ends(r) <=>
            n = 0 \/ \E l \in 1..4 : l <= n /\ n - l \in Ends(r) /\ FormedAt(r, n - l + 1, l)
  BY <1>1, EndsRec
<1> DEFINE T == {n \in Nat : n <= L /\ n \in Ends(s) => n \in Ends(r)}
<1>5. ASSUME NEW n \in Nat, \A k \in Nat : k < n => k \in T PROVE n \in T
  <2> SUFFICES ASSUME n <= L, n \in Ends(s) PROVE n \in Ends(r)
    OBVIOUS
  <2>1. n \in 0..L /\ n \in 0..(L + m)
    BY <1>1
  <2>2. CASE n = 0
    BY <1>4, <2>1, <2>2
  <2>3. CASE n # 0
    <3>1. PICK l \in 1..4 : l <= n /\ n - l \in Ends(s) /\ FormedAt(s, n - l + 1, l)
      BY <1>2, <2>1, <2>3
    <3> DEFINE i == n - l + 1
               k == n - l
    <3>2. i \in Nat /\ k \in Nat /\ k < n /\ k <= L
      BY <1>1, <2>1, <3>1
    <3>3. \A j \in 0..(l - 1) : i + j \in 1..L
      BY <1>1, <2>1, <3>1
    <3>4. k \in Ends(r)
      <4>1. k \in T
        BY <1>5, <3>2
      <4> HIDE DEF k
      <4> QED
        BY <3>1, <3>2, <4>1 DEF k
    <3> HIDE DEF i
    <3>5. \A j \in 0..(l - 1) : r[i + j] = s[i + j]
      BY <1>1, <3>3
    <3>6. FormedAt(s, i, l)
      BY <3>1 DEF i
    <3>7. FormedAt(r, i, l)
      BY <3>2, <3>5, <3>6, FormedSame
    <3> QED
      BY <1>4, <2>1, <3>1, <3>4, <3>7 DEF i
  <2> QED
    BY <2>2, <2>3
<1>6. T \in SUBSET Nat
  OBVIOUS
<1> HIDE DEF T
<1>7. L \in T
  BY <1>1, <1>5, <1>6, NatStrongInd
<1>8. L \in Ends(r)
  BY <1>1, <1>2, <1>7 DEF T
<1>9. FormedAt(r, L + 1, m)
  <2>1. \A k \in 0..(m - 1) : r[(L + 1) + k] = q[1 + k]
    <3> TAKE k \in 0..(m - 1)
    <3>1. 1 + k \in 1..m /\ L + (1 + k) = (L + 1) + k
      BY <1>1
    <3> QED
      BY <1>1, <3>1
  <2>2. L + 1 \in Nat /\ 1 \in Nat
    BY <1>1
  <2> QED
    BY <1>1, <1>3, <2>1, <2>2, FormedSame
<1>10. L + m \in 0..(L + m) /\ m <= L + m /\ (L + m) - m = L
  BY <1>1
<1>11. L + m \in Ends(r)
  BY <1>1, <1>4, <1>8, <1>9, <1>10
<1> QED
  BY <1>1, <1>4, <1>11 DEF r

\* A sequence of the text is one of its own.
LEMMA SequenceOf ==
    ASSUME NEW s \in Seq(Byte), NEW i \in 1..Len(s), NEW n \in 1..4, i + n - 1 <= Len(s),
           FormedAt(s, i, n)
    PROVE  LET q == SubSeq(s, i, i + n - 1)
           IN  q \in Seq(Byte) /\ Len(q) \in 1..4 /\ FormedAt(q, 1, Len(q))
<1> DEFINE q == SubSeq(s, i, i + n - 1)
<1>1. Len(s) \in Nat /\ i \in Nat /\ i + n - 1 \in i..Len(s)
  OBVIOUS
<1>2. \A k \in 1..Len(s) : s[k] \in Byte
  OBVIOUS
<1>3. q = [k \in 1..n |-> s[i + k - 1]]
  <2>1. (i + n - 1) - i + 1 = n
    BY <1>1
  <2> QED
    BY <1>1, <2>1
<1> HIDE DEF q
<1>4. \A k \in 1..n : i + k - 1 \in 1..Len(s)
  BY <1>1
<1>5. q \in [1..n -> Byte]
  BY <1>2, <1>3, <1>4
<1>6. q \in Seq(Byte) /\ Len(q) = n
  BY <1>5
<1>7. \A k \in 0..(n - 1) : q[1 + k] = s[i + k]
  <2> TAKE k \in 0..(n - 1)
  <2>1. 1 + k \in 1..n /\ i + (1 + k) - 1 = i + k
    BY <1>1
  <2> QED
    BY <1>3, <2>1
<1>8. FormedAt(q, 1, n)
  BY <1>1, <1>7, FormedSame
<1> QED
  BY <1>6, <1>8 DEF q

\* The code points of Windows-1252 are below 10000 (hexadecimal) and none is a surrogate.
IsPoint(c) == c \in Nat /\ c <= 65535 /\ (c < 55296 \/ c > 57343)

LEMMA Cp1252Points ==
    ASSUME NEW b \in Byte
    PROVE  IsPoint(Cp1252ToUnicode(b))
<1>1. CASE b \notin 128..159
  BY <1>1 DEF Cp1252ToUnicode, Byte, IsPoint
<1>2. CASE b \in 128..159
  <2>1. Cp1252ToUnicode(b) = Cp1252Special[b - 127]
    BY <1>2 DEF Cp1252ToUnicode
  <2>2. b - 127 \in 1..32
    BY <1>2
  <2>3. \A k \in 1..32 : IsPoint(Cp1252Special[k])
    BY DEF Cp1252Special, IsPoint
  <2> QED
    BY <2>1, <2>2, <2>3
<1> QED
  BY <1>1, <1>2

LEMMA EncodeForms ==
    ASSUME NEW c, IsPoint(c)
    PROVE  LET q == EncodeUtf8Codepoint(c)
           IN  q \in Seq(Byte) /\ Len(q) \in 1..4 /\ FormedAt(q, 1, Len(q))
<1> DEFINE q == EncodeUtf8Codepoint(c)
<1>0. c \in Nat /\ c <= 65535 /\ (c < 55296 \/ c > 57343)
  BY DEF IsPoint
<1>1. CASE c <= 127
  <2>1. q = <<c>>
    BY <1>0, <1>1 DEF EncodeUtf8Codepoint
  <2>2. c \in Byte /\ Formed1(c)
    BY <1>0, <1>1 DEF Byte, Formed1
  <2> HIDE DEF q
  <2>3. q \in Seq(Byte) /\ Len(q) = 1 /\ q[1] = c
    BY <2>1, <2>2
  <2>4. FormedAt(q, 1, 1)
    BY <2>2, <2>3 DEF FormedAt
  <2> QED
    BY <2>3, <2>4 DEF q
<1>2. CASE c > 127 /\ c <= 2047
  <2> DEFINE x == 192 + c \div 64
             y == 128 + Low6(c)
  <2>1. q = <<x, y>>
    BY <1>0, <1>2 DEF EncodeUtf8Codepoint
  <2>2. x \in Byte /\ y \in Byte /\ Formed2(x, y)
    BY <1>0, <1>2 DEF Byte, Formed2, Low6, Cont
  <2> HIDE DEF q, x, y
  <2>3. q \in Seq(Byte) /\ Len(q) = 2 /\ q[1] = x /\ q[2] = y
    BY <2>1, <2>2
  <2>4. FormedAt(q, 1, 2)
    <3>1. 1 + 1 = 2
      OBVIOUS
    <3> QED
      BY <2>2, <2>3, <3>1 DEF FormedAt
  <2> QED
    BY <2>3, <2>4 DEF q
<1>3. CASE c > 2047 /\ c <= 65535
  <2> DEFINE x == 224 + c \div 4096
             y == 128 + Low6(c \div 64)
             z == 128 + Low6(c)
             u == c \div 4096
             v == c \div 64
  <2>1. q = <<x, y, z>>
    BY <1>0, <1>3 DEF EncodeUtf8Codepoint
  <2>2. /\ v \in Nat /\ 32 <= v /\ v <= 1023 /\ 64 * v <= c /\ c < 64 * v + 64
        /\ u \in 0..15 /\ 4096 * u <= c /\ c < 4096 * u + 4096
    BY <1>0, <1>3
  <2>3. z \in 128..191
    BY <1>0, <1>3 DEF Low6
  <2> HIDE DEF u, v
  <2>4. y = 128 + (v - 64 * u)
    <3>1. 64 * u <= v /\ v < 64 * u + 64
      BY <1>0, <1>3, <2>2
    <3>2. v % 64 = v - 64 * u
      BY <2>2, <3>1
    <3> QED
      BY <3>2 DEF Low6, v
  <2>5. y \in 128..191 /\ x \in 224..239 /\ (x = 224 => y \in 160..191) /\ (x = 237 => y \in 128..159)
    <3>1. 64 * u <= v /\ v < 64 * u + 64
      BY <1>0, <1>3, <2>2
    <3>2. x = 224 + u
      BY DEF u
    <3> HIDE DEF x, y
    <3>3. u = 13 => v < 864
      BY <1>0, <1>3, <2>2
    <3> QED
      BY <2>2, <2>4, <3>1, <3>2, <3>3
  <2> HIDE DEF q, x, y, z
  <2>6. x \in Byte /\ y \in Byte /\ z \in Byte
    BY <2>3, <2>5 DEF Byte
  <2>7. Formed3(x, y, z)
    BY <2>3, <2>5 DEF Formed3, Cont
  <2>8. q \in Seq(Byte) /\ Len(q) = 3 /\ q[1] = x /\ q[2] = y /\ q[3] = z
    BY <2>1, <2>6
  <2>9. FormedAt(q, 1, 3)
    <3>1. 1 + 1 = 2 /\ 1 + 2 = 3
      OBVIOUS
    <3> QED
      BY <2>7, <2>8, <3>1 DEF FormedAt
  <2> QED
    BY <2>8, <2>9 DEF q
<1> QED
  BY <1>0, <1>1, <1>2, <1>3

-----------------------------------------------------------------------------
(* The repair of a text.                                                   *)

IsToUtf8(t) == t = [input |-> t.input, i |-> t.i, result |-> t.result, pc |-> t.pc]

LEMMA ToUtf8Fields ==
    ASSUME NEW t, IsToUtf8(t), NEW x, NEW y
    PROVE  /\ [t EXCEPT !.result = x, !.pc = y]
                = [input |-> t.input, i |-> t.i, result |-> x, pc |-> y]
           /\ [t EXCEPT !.result = x, !.i = y]
                = [input |-> t.input, i |-> y, result |-> x, pc |-> t.pc]
<1> DEFINE u == [t EXCEPT !.result = x]
<1>1. u = [input |-> t.input, i |-> t.i, result |-> x, pc |-> t.pc]
  BY DEF IsToUtf8
<1>2. /\ [t EXCEPT !.result = x, !.pc = y] = [u EXCEPT !.pc = y]
      /\ [t EXCEPT !.result = x, !.i = y] = [u EXCEPT !.i = y]
  OBVIOUS
<1> HIDE DEF u
<1>3. /\ [u EXCEPT !.pc = y] = [input |-> t.input, i |-> t.i, result |-> x, pc |-> y]
      /\ [u EXCEPT !.i = y] = [input |-> t.input, i |-> y, result |-> x, pc |-> t.pc]
  BY <1>1
<1> QED
  BY <1>2, <1>3

TextInv ==
    part = "text" =>
       /\ IsToUtf8(text) /\ text.input \in Seq(Byte) /\ text.i \in Nat \ {0}
       /\ text.result \in Seq(Byte) /\ IsUtf8(text.result)
       /\ text.pc = "repair" => ~IsUtf8(text.input)
       /\ text.pc = "done" => (IsUtf8(text.input) => text.result = text.input)

LEMMA TextInitInv == Init => TextInv
<1> SUFFICES ASSUME Init, part = "text" PROVE TextInv
  BY DEF TextInv
<1>1. TextInit
  BY DEF Init
<1>2. PICK n \in 0..MaxBytes : \E input \in [1..n -> Bytes] :
         text = [input |-> input, i |-> 1, result |-> <<>>, pc |-> "validate"]
  BY <1>1 DEF TextInit
<1>8. PICK input \in [1..n -> Bytes] :
         text = [input |-> input, i |-> 1, result |-> <<>>, pc |-> "validate"]
  BY <1>2
<1>3. n \in Nat /\ Bytes \subseteq Byte
  BY TextAssumption DEF Byte
<1>4. input \in [1..n -> Byte]
  BY <1>3
<1>5. input \in Seq(Byte)
  BY <1>3, <1>4
<1>6. <<>> \in Seq(Byte)
  BY EmptySeq
<1>7. /\ text.input = input /\ text.i = 1 /\ text.result = <<>> /\ text.pc = "validate"
      /\ IsToUtf8(text)
  BY <1>8 DEF IsToUtf8
<1> QED
  BY <1>5, <1>6, <1>7, EmptyIsUtf8 DEF TextInv

LEMMA TextNextInv == TextInv /\ [Next]_fileVars => TextInv'
<1> SUFFICES ASSUME TextInv, [Next]_fileVars, part = "text" PROVE TextInv'
  BY StepOfPart DEF TextInv
<1>0. part' = part /\ (TextNext \/ UNCHANGED text)
  BY StepOfPart
<1> DEFINE s == text.input
           r == text.result
           at == text.i
<1>1. /\ IsToUtf8(text) /\ s \in Seq(Byte) /\ at \in Nat \ {0} /\ r \in Seq(Byte) /\ IsUtf8(r)
      /\ text.pc = "repair" => ~IsUtf8(s)
      /\ text.pc = "done" => (IsUtf8(s) => r = s)
  BY DEF TextInv
<1> HIDE DEF s, r, at
<1>2. text = [input |-> s, i |-> at, result |-> r, pc |-> text.pc]
  BY <1>1 DEF IsToUtf8, s, at, r
<1>3. ASSUME NEW x \in Seq(Byte), NEW k \in Nat \ {0}, NEW pc, IsUtf8(x),
             pc = "repair" => ~IsUtf8(s), pc = "done" => (IsUtf8(s) => x = s),
             text' = [input |-> s, i |-> k, result |-> x, pc |-> pc]
      PROVE  TextInv'
  <2>1. /\ text'.input = s /\ text'.i = k /\ text'.result = x /\ text'.pc = pc
        /\ IsToUtf8(text')
    BY <1>3 DEF IsToUtf8
  <2> QED
    BY <1>1, <1>3, <2>1 DEF TextInv
<1>4. CASE Validate
  <2>1. CASE IsValidUtf8(s)
    <3>1. IsUtf8(s)
      BY <1>1, <2>1, ValidIsUtf8
    <3>2. text' = [input |-> s, i |-> at, result |-> s, pc |-> "done"]
      <4>1. text' = [text EXCEPT !.result = s, !.pc = "done"]
        BY <1>4, <2>1 DEF Validate, s
      <4> QED
        BY <1>1, <4>1, ToUtf8Fields DEF s, at
    <3> QED
      BY <1>1, <1>3, <3>1, <3>2
  <2>2. CASE ~IsValidUtf8(s)
    <3>1. ~IsUtf8(s)
      BY <1>1, <2>2, ValidIsUtf8
    <3>2. text' = [input |-> s, i |-> at, result |-> r, pc |-> "repair"]
      BY <1>2, <1>4, <2>2 DEF Validate, s
    <3> QED
      BY <1>1, <1>3, <3>1, <3>2
  <2> QED
    BY <2>1, <2>2
<1>5. CASE CopySequence
  <2> DEFINE n == Utf8SequenceLengthAt(s, at)
             q == SubSeq(s, at, at + n - 1)
  <2>1. text.pc = "repair" /\ at <= Len(s) /\ n > 0
    BY <1>5 DEF CopySequence, s, at
  <2>2. at \in 1..Len(s)
    BY <1>1, <2>1
  <2>3. n \in 1..4 /\ at + n - 1 <= Len(s) /\ FormedAt(s, at, n)
    <3>1. /\ n \in 0..4
          /\ n # 0 => at + n - 1 <= Len(s) /\ FormedAt(s, at, n)
      BY <1>1, <2>2, LengthIs
    <3> HIDE DEF n
    <3> QED
      BY <2>1, <3>1
  <2>4. text' = [input |-> s, i |-> at + n, result |-> r \o q, pc |-> "repair"]
    <3> DEFINE x == r \o q
               k == at + n
    <3>1. text' = [text EXCEPT !.result = x, !.i = k]
      BY <1>5 DEF CopySequence, s, at, r
    <3> HIDE DEF n, q, x, k
    <3>2. IsToUtf8(text)
      BY <1>1
    <3>3. [text EXCEPT !.result = x, !.i = k]
             = [input |-> text.input, i |-> k, result |-> x, pc |-> text.pc]
      BY ONLY <3>2, ToUtf8Fields
    <3>4. text' = [input |-> s, i |-> k, result |-> x, pc |-> "repair"]
      BY <2>1, <3>1, <3>3 DEF s
    <3> QED
      BY <3>4 DEF x, k
  <2> HIDE DEF n
  <2>5. q \in Seq(Byte) /\ Len(q) \in 1..4 /\ FormedAt(q, 1, Len(q))
    BY <1>1, <2>2, <2>3, SequenceOf
  <2> HIDE DEF q
  <2>6. r \o q \in Seq(Byte) /\ IsUtf8(r \o q)
    BY <1>1, <2>5, OneSequenceMore
  <2>7. at + n \in Nat \ {0}
    BY <1>1, <2>3
  <2> DEFINE x == r \o q
             k == at + n
  <2>8. x \in Seq(Byte) /\ IsUtf8(x) /\ k \in Nat \ {0}
    BY <2>6, <2>7
  <2>9. text' = [input |-> s, i |-> k, result |-> x, pc |-> "repair"]
    BY <2>4
  <2> HIDE DEF x, k
  <2> QED
    BY <1>1, <1>3, <2>1, <2>8, <2>9
<1>6. CASE ConvertByte
  <2> DEFINE c == Cp1252ToUnicode(s[at])
             q == EncodeUtf8Codepoint(c)
  <2>1. text.pc = "repair" /\ at <= Len(s)
    BY <1>6 DEF ConvertByte, s, at
  <2>2. at \in 1..Len(s)
    BY <1>1, <2>1
  <2>3. s[at] \in Byte
    BY <1>1, <2>2
  <2>4. text' = [input |-> s, i |-> at + 1, result |-> r \o q, pc |-> "repair"]
    <3> DEFINE x == r \o q
               k == at + 1
    <3>1. text' = [text EXCEPT !.result = x, !.i = k]
      BY <1>6 DEF ConvertByte, s, at, r
    <3> HIDE DEF q, x, k
    <3>2. IsToUtf8(text)
      BY <1>1
    <3>3. [text EXCEPT !.result = x, !.i = k]
             = [input |-> text.input, i |-> k, result |-> x, pc |-> text.pc]
      BY ONLY <3>2, ToUtf8Fields
    <3>4. text' = [input |-> s, i |-> k, result |-> x, pc |-> "repair"]
      BY <2>1, <3>1, <3>3 DEF s
    <3> QED
      BY <3>4 DEF x, k
  <2>5. IsPoint(c)
    BY <2>3, Cp1252Points
  <2> HIDE DEF c
  <2>7. q \in Seq(Byte) /\ Len(q) \in 1..4 /\ FormedAt(q, 1, Len(q))
    BY <2>5, EncodeForms
  <2> HIDE DEF q
  <2> DEFINE x == r \o q
             k == at + 1
  <2>8. x \in Seq(Byte) /\ IsUtf8(x)
    BY <1>1, <2>7, OneSequenceMore
  <2>9. k \in Nat \ {0}
    BY <1>1
  <2>10. text' = [input |-> s, i |-> k, result |-> x, pc |-> "repair"]
    BY <2>4
  <2> HIDE DEF x, k
  <2> QED
    BY <1>1, <1>3, <2>1, <2>8, <2>9, <2>10
<1>7. CASE ReturnText
  <2>1. text.pc = "repair" /\ text' = [input |-> s, i |-> at, result |-> r, pc |-> "done"]
    BY <1>2, <1>7 DEF ReturnText
  <2> QED
    BY <1>1, <1>3, <2>1
<1>8. CASE UNCHANGED text
  BY <1>0, <1>8 DEF TextInv
<1> QED
  BY <1>0, <1>4, <1>5, <1>6, <1>7, <1>8 DEF TextNext

\* Whatever bytes a text has, what ToUtf8 returns for it is UTF-8 by the ranges of the
\* standard, and a text that was UTF-8 is returned as it was (Text::ToUtf8 and the
\* tables and arithmetic of Utf8SequenceLengthAt and EncodeUtf8Codepoint).
THEOREM SanitizedTextIsUtf8 == Spec => []TextIsUtf8
<1>1. TextInv => TextIsUtf8
  BY DEF TextInv, TextIsUtf8, SanitizedIsUtf8
<1> QED
  BY <1>1, TextInitInv, TextNextInv, PTL DEF Spec

-----------------------------------------------------------------------------
(* Selection by element, one element at a time.                            *)

\* A set of sequences with the empty one and those that extend one of its members.
LEMMA SeqInd ==
    ASSUME NEW X, NEW T, <<>> \in T, \A s \in Seq(X) : s \in T => \A e \in X : Append(s, e) \in T
    PROVE  \A s \in Seq(X) : s \in T
<1> DEFINE U == {n \in Nat : \A s \in Seq(X) : Len(s) = n => s \in T}
<1>1. 0 \in U
  <2> SUFFICES ASSUME NEW s \in Seq(X), Len(s) = 0 PROVE s \in T
    OBVIOUS
  <2>1. s = <<>>
    OBVIOUS
  <2> QED
    BY <2>1
<1>2. ASSUME NEW n \in U PROVE n + 1 \in U
  <2> SUFFICES ASSUME NEW s \in Seq(X), Len(s) = n + 1 PROVE s \in T
    OBVIOUS
  <2> DEFINE q == SubSeq(s, 1, n)
  <2>1. n \in Nat
    OBVIOUS
  <2>2. s # <<>>
    BY <2>1
  <2>3. \E h \in Seq(X) : \E e \in X : s = Append(h, e) /\ Len(h) = n
    <3>1. q \in Seq(X) /\ Len(q) = n
      BY <2>1
    <3>2. s[n + 1] \in X
      BY <2>1
    <3>3. s = Append(q, s[n + 1])
      BY <2>1
    <3> QED
      BY <3>1, <3>2, <3>3
  <2>4. PICK h \in Seq(X), e \in X : s = Append(h, e) /\ Len(h) = n
    BY <2>3
  <2>5. h \in T
    BY <2>1, <2>4
  <2> QED
    BY <2>4, <2>5
<1>3. U \in SUBSET Nat
  OBVIOUS
<1> HIDE DEF U
<1>4. \A n \in Nat : n \in U
  BY <1>1, <1>2, <1>3, NatInd
<1> SUFFICES ASSUME NEW s \in Seq(X) PROVE s \in T
  OBVIOUS
<1>5. Len(s) \in Nat
  OBVIOUS
<1> QED
  BY <1>4, <1>5 DEF U

\* Selections agree where the sequences and the positions do.
LEMMA SelToSame ==
    ASSUME NEW X, NEW s \in Seq(X), NEW at, NEW r \in Seq(X), NEW to, NEW n \in Nat,
           n <= Len(s), n <= Len(r),
           \A i \in 1..n : s[i] = r[i] /\ (i \in at <=> i \in to)
    PROVE  SelTo(s, at, n) = SelTo(r, to, n)
<1> DEFINE f(k) == SelTo(s, at, k)
           g(k) == SelTo(r, to, k)
           T == {k \in Nat : k <= n => f(k) = g(k)}
<1>1. /\ f(0) = <<>>
      /\ \A k \in 1..Len(s) : f(k) = IF k \in at THEN Append(f(k - 1), s[k]) ELSE f(k - 1)
      /\ SelectAt(s, at) = f(Len(s))
  BY SelToRec
<1>2. /\ g(0) = <<>>
      /\ \A k \in 1..Len(r) : g(k) = IF k \in to THEN Append(g(k - 1), r[k]) ELSE g(k - 1)
      /\ SelectAt(r, to) = g(Len(r))
  BY SelToRec
<1>3. Len(s) \in Nat /\ Len(r) \in Nat
  OBVIOUS
<1> HIDE DEF f, g
<1>4. 0 \in T
  BY <1>1, <1>2
<1>5. ASSUME NEW k \in T PROVE k + 1 \in T
  <2> SUFFICES ASSUME k + 1 <= n PROVE f(k + 1) = g(k + 1)
    OBVIOUS
  <2>1. /\ k \in Nat /\ k + 1 \in 1..n /\ k + 1 \in 1..Len(s) /\ k + 1 \in 1..Len(r)
        /\ (k + 1) - 1 = k /\ k <= n
    BY <1>3
  <2>2. f(k) = g(k)
    BY <2>1
  <2>3. /\ f(k + 1) = IF k + 1 \in at THEN Append(f(k), s[k + 1]) ELSE f(k)
        /\ g(k + 1) = IF k + 1 \in to THEN Append(g(k), r[k + 1]) ELSE g(k)
    BY <1>1, <1>2, <2>1
  <2> QED
    BY <2>1, <2>2, <2>3
<1>6. T \in SUBSET Nat
  OBVIOUS
<1> HIDE DEF T
<1>7. n \in T
  BY <1>4, <1>5, <1>6, NatInd
<1> QED
  BY <1>7 DEF T, f, g

\* The elements of s that are in E.
Sel(s, E) == SelectAt(s, {i \in DOMAIN s : s[i] \in E})

LEMMA SelEmpty == \A E : Sel(<<>>, E) = <<>>
<1> SUFFICES ASSUME NEW E PROVE Sel(<<>>, E) = <<>>
  OBVIOUS
<1> DEFINE s == <<>>
           at == {i \in DOMAIN s : s[i] \in E}
<1>1. s \in Seq({}) /\ Len(s) = 0
  BY EmptySeq
<1> HIDE DEF s, at
<1>2. SelTo(s, at, 0) = <<>> /\ SelectAt(s, at) = SelTo(s, at, Len(s))
  BY <1>1, SelToRec
<1> QED
  BY <1>1, <1>2 DEF Sel, s, at

LEMMA SelAppend ==
    ASSUME NEW X, NEW s \in Seq(X), NEW e \in X, NEW E
    PROVE  /\ Sel(s, E) \in Seq(X)
           /\ Sel(Append(s, e), E) = IF e \in E THEN Append(Sel(s, E), e) ELSE Sel(s, E)
<1> DEFINE n == Len(s)
           r == Append(s, e)
           at == {i \in DOMAIN s : s[i] \in E}
           to == {i \in DOMAIN r : r[i] \in E}
<1>1. /\ r \in Seq(X) /\ n \in Nat /\ Len(r) = n + 1 /\ r[n + 1] = e
      /\ \A i \in 1..n : r[i] = s[i]
  BY AppendProperties
<1>2. DOMAIN s = 1..n /\ DOMAIN r = 1..(n + 1)
  BY <1>1
<1> HIDE DEF r
<1>3. /\ \A i \in 1..n : i \in at <=> i \in to
      /\ n + 1 \in to <=> e \in E
  BY <1>1, <1>2
<1> HIDE DEF at, to
<1>4. SelTo(s, at, n) = SelTo(r, to, n)
  BY <1>1, <1>3, SelToSame
<1>5. SelectAt(s, at) = SelTo(s, at, n)
  BY SelToRec
<1> HIDE DEF n
<1>6. /\ \A k \in 1..Len(r) : SelTo(r, to, k) = IF k \in to THEN Append(SelTo(r, to, k - 1), r[k])
                                                ELSE SelTo(r, to, k - 1)
      /\ SelectAt(r, to) = SelTo(r, to, Len(r))
  BY <1>1, SelToRec
<1>7. n + 1 \in 1..Len(r) /\ (n + 1) - 1 = n
  BY <1>1
<1>8. SelectAt(r, to) = IF n + 1 \in to THEN Append(SelTo(r, to, n), r[n + 1]) ELSE SelTo(r, to, n)
  BY <1>1, <1>6, <1>7
<1>9. SelectAt(s, at) \in Seq(X)
  BY SelPlaces
<1> QED
  BY <1>1, <1>3, <1>4, <1>5, <1>8, <1>9 DEF Sel, at, to, r

LEMMA ConcatAppend ==
    ASSUME NEW X, NEW a \in Seq(X), NEW b \in Seq(X), NEW e \in X
    PROVE  a \o Append(b, e) = Append(a \o b, e)
  OBVIOUS

\* A selection by element has elements of the kind selected.
LEMMA SelIn ==
    ASSUME NEW X, NEW s \in Seq(X), NEW E
    PROVE  Sel(s, E) \in Seq(E)
<1> DEFINE T == {q \in Seq(X) : Sel(q, E) \in Seq(E)}
<1>1. <<>> \in T
  BY SelEmpty, EmptySeq
<1>2. ASSUME NEW q \in Seq(X), q \in T, NEW e \in X PROVE Append(q, e) \in T
  <2>1. Append(q, e) \in Seq(X) /\ Sel(q, E) \in Seq(E)
    BY <1>2
  <2>2. /\ Sel(q, E) \in Seq(X)
        /\ Sel(Append(q, e), E) = IF e \in E THEN Append(Sel(q, E), e) ELSE Sel(q, E)
    BY SelAppend
  <2>3. ASSUME e \in E PROVE Append(Sel(q, E), e) \in Seq(E)
    BY <2>1, <2>3, AppendProperties
  <2>4. Sel(Append(q, e), E) \in Seq(E)
    BY <2>1, <2>2, <2>3, Zenon
  <2> QED
    BY <2>1, <2>4
<1> HIDE DEF T
<1>3. \A q \in Seq(X) : q \in T
  BY <1>1, <1>2, SeqInd
<1> QED
  BY <1>3 DEF T

\* The values of a function at the elements of a sequence, in order.
Over(f, s) == [k \in DOMAIN s |-> f[s[k]]]

LEMMA OverEmpty == \A f : Over(f, <<>>) = <<>>
  BY DEF Over

LEMMA OverType ==
    ASSUME NEW X, NEW Z, NEW f \in [X -> Z], NEW s \in Seq(X)
    PROVE  Over(f, s) \in Seq(Z)
<1> DEFINE n == Len(s)
           o == Over(f, s)
<1>1. n \in Nat /\ DOMAIN s = 1..n /\ \A i \in 1..n : s[i] \in X
  OBVIOUS
<1>2. o \in [1..n -> Z]
  BY <1>1 DEF Over
<1> HIDE DEF o, n
<1> QED
  BY <1>1, <1>2 DEF o

LEMMA OverAppend ==
    ASSUME NEW X, NEW Z, NEW f \in [X -> Z], NEW s \in Seq(X), NEW e \in X
    PROVE  Over(f, Append(s, e)) = Append(Over(f, s), f[e])
<1> DEFINE n == Len(s)
           r == Append(s, e)
           o == Over(f, s)
<1>1. n \in Nat /\ DOMAIN s = 1..n /\ \A i \in 1..n : s[i] \in X
  OBVIOUS
<1>2. r \in Seq(X) /\ DOMAIN r = 1..(n + 1) /\ r[n + 1] = e /\ \A i \in 1..n : r[i] = s[i]
  BY AppendProperties
<1>4. o \in Seq(Z) /\ Len(o) = n
  BY <1>1, OverType DEF Over
<1>5. \A i \in 1..n : o[i] = f[s[i]]
  BY <1>1 DEF Over
<1>6. f[e] \in Z
  OBVIOUS
<1> HIDE DEF r, o, n
<1>7. /\ Append(o, f[e]) \in [1..(n + 1) -> Z]
      /\ Append(o, f[e])[n + 1] = f[e]
      /\ \A i \in 1..n : Append(o, f[e])[i] = o[i]
  <2> DEFINE v == f[e]
  <2>1. v \in Z
    BY <1>6
  <2> HIDE DEF v
  <2> DEFINE w == Append(o, v)
  <2>2. w \in Seq(Z) /\ Len(w) = n + 1 /\ w[n + 1] = v /\ \A i \in 1..n : w[i] = o[i]
    BY <1>4, <2>1, AppendProperties
  <2>3. w \in [1..(n + 1) -> Z]
    <3> HIDE DEF w
    <3> QED
      BY <2>2
  <2> QED
    BY <2>2, <2>3 DEF v
<1>8. Over(f, r) = [k \in 1..(n + 1) |-> f[r[k]]]
  BY <1>2 DEF Over
<1>9. \A k \in 1..(n + 1) : f[r[k]] = Append(o, f[e])[k]
  BY <1>1, <1>2, <1>5, <1>7
<1>10. Over(f, r) = Append(o, f[e])
  BY <1>7, <1>8, <1>9
<1> QED
  BY <1>10 DEF r, o

-----------------------------------------------------------------------------
(* DesignExact.  While the connections are made, each net has those of the   *)
(* placements taken off the list so far: the list and what is done of it are *)
(* the placements of the two files.                                          *)

AnyPlaced == [ref : RefDes, net : {None} \union (0..NetCount), pin : 0..(MaxPins - 1)]
Netted == {t \in AnyPlaced : t.net # None}
OfNet(net) == {t \in Netted : t.net = net}
Record == [ref : RefDes, pkg : 0..1, toeprints : Seq(Toeprints)]

\* ByName of a component list, and the connections that a list of placements
\* makes on a net.
NameIn(cs, ref) == CHOOSE i \in DOMAIN cs :
                      /\ cs[i] = ref
                      /\ \A j \in DOMAIN cs : cs[j] = ref => j <= i
Linked(cs) == {<<NameIn(cs, t.ref), t.pin>> : t \in Netted}
Link(cs) == [t \in Netted |-> <<NameIn(cs, t.ref), t.pin>>]
Conn(cs, q, net) == Over(Link(cs), Sel(q, OfNet(net)))

\* One record's toeprints as placements, and as the connections they ask for.
PlacedBy(ref) == [e \in Toeprints |-> [ref |-> ref, net |-> e.net, pin |-> e.pin]]
PlacementsOf(r) == Sel(Over(PlacedBy(r.ref), r.toeprints), Netted)
AskedBy(i) == [e \in Toeprints |-> <<i, e.pin>>]
Asked(i, r, net) == Over(AskedBy(i), Sel(r.toeprints, {e \in Toeprints : e.net = net}))

LEMMA LinkType == \A cs : Link(cs) \in [Netted -> Linked(cs)]
  BY DEF Link, Linked

LEMMA ConnEmpty == \A cs, net : Conn(cs, <<>>, net) = <<>>
<1> SUFFICES ASSUME NEW cs, NEW net PROVE Conn(cs, <<>>, net) = <<>>
  OBVIOUS
<1>1. Sel(<<>>, OfNet(net)) = <<>>
  BY SelEmpty
<1>2. Over(Link(cs), <<>>) = <<>>
  BY DEF Over
<1> QED
  BY <1>1, <1>2 DEF Conn

LEMMA ConnAppend ==
    ASSUME NEW cs, NEW q \in Seq(Netted), NEW t \in Netted, NEW net
    PROVE  /\ Conn(cs, q, net) \in Seq(Linked(cs))
           /\ Conn(cs, Append(q, t), net) =
                 IF t.net = net THEN Append(Conn(cs, q, net), <<NameIn(cs, t.ref), t.pin>>)
                 ELSE Conn(cs, q, net)
<1> DEFINE s == Sel(q, OfNet(net))
           r == Append(q, t)
<1>1. s \in Seq(Netted) /\ Sel(r, OfNet(net)) = IF t \in OfNet(net) THEN Append(s, t) ELSE s
  BY SelAppend
<1>2. t \in OfNet(net) <=> t.net = net
  BY DEF OfNet
<1>3. Link(cs)[t] = <<NameIn(cs, t.ref), t.pin>>
  BY DEF Link
<1> HIDE DEF s, r
<1>4. /\ Over(Link(cs), s) \in Seq(Linked(cs))
      /\ Over(Link(cs), Append(s, t)) = Append(Over(Link(cs), s), Link(cs)[t])
  <2> DEFINE f == Link(cs)
             Z == Linked(cs)
  <2>0. s \in Seq(Netted)
    BY <1>1
  <2>1. f \in [Netted -> Z]
    BY LinkType
  <2> HIDE DEF f, Z
  <2>2. Over(f, s) \in Seq(Z)
    BY <2>0, <2>1, OverType
  <2>3. Over(f, Append(s, t)) = Append(Over(f, s), f[t])
    BY <2>0, <2>1, OverAppend
  <2> QED
    BY <2>2, <2>3 DEF f, Z
<1>5. Conn(cs, q, net) = Over(Link(cs), s)
  BY DEF Conn, s
<1>6. Conn(cs, r, net) = Over(Link(cs), Sel(r, OfNet(net)))
  BY DEF Conn
<1>7. Conn(cs, r, net) = IF t.net = net THEN Append(Conn(cs, q, net), <<NameIn(cs, t.ref), t.pin>>)
                         ELSE Conn(cs, q, net)
  BY <1>1, <1>2, <1>3, <1>4, <1>5, <1>6, Zenon
<1> QED
  BY <1>4, <1>5, <1>7 DEF r

LEMMA ConnType == \A cs, net : \A q \in Seq(Netted) : Conn(cs, q, net) \in Seq(Linked(cs))
<1> SUFFICES ASSUME NEW cs, NEW net, NEW q \in Seq(Netted) PROVE Conn(cs, q, net) \in Seq(Linked(cs))
  OBVIOUS
<1>1. CASE Netted = {}
  <2>1. q = <<>>
    BY <1>1
  <2> QED
    BY <2>1, ConnEmpty, EmptySeq
<1>2. CASE Netted # {}
  <2>1. PICK t \in Netted : TRUE
    BY <1>2
  <2> QED
    BY <2>1, ConnAppend
<1> QED
  BY <1>1, <1>2

ConnSplits(cs, a, b, net) == Conn(cs, a \o b, net) = Conn(cs, a, net) \o Conn(cs, b, net)

\* What two lists of placements make one after the other.
LEMMA ConnConcat ==
    ASSUME NEW cs, NEW a \in Seq(Netted), NEW b \in Seq(Netted), NEW net
    PROVE  ConnSplits(cs, a, b, net)
<1> DEFINE T == {q \in Seq(Netted) : Conn(cs, a \o q, net) = Conn(cs, a, net) \o Conn(cs, q, net)}
           ca == Conn(cs, a, net)
<1>0. \A q \in Seq(Netted) : \A t \in Netted :
         Conn(cs, Append(q, t), net) =
            IF t.net = net THEN Append(Conn(cs, q, net), <<NameIn(cs, t.ref), t.pin>>)
            ELSE Conn(cs, q, net)
  <2> SUFFICES ASSUME NEW q \in Seq(Netted), NEW t \in Netted
               PROVE  Conn(cs, Append(q, t), net) =
                         IF t.net = net THEN Append(Conn(cs, q, net), <<NameIn(cs, t.ref), t.pin>>)
                         ELSE Conn(cs, q, net)
    OBVIOUS
  <2>1. /\ Conn(cs, q, net) \in Seq(Linked(cs))
        /\ Conn(cs, Append(q, t), net) =
              IF t.net = net THEN Append(Conn(cs, q, net), <<NameIn(cs, t.ref), t.pin>>)
              ELSE Conn(cs, q, net)
    BY ConnAppend
  <2> QED
    BY <2>1
<1>1. ca \in Seq(Linked(cs))
  BY ConnType
<1>2. <<>> \in T
  <2>1. a \o <<>> = a /\ <<>> \in Seq(Netted)
    BY EmptySeq
  <2> HIDE DEF ca
  <2>2. ca \o <<>> = ca
    BY <1>1
  <2>3. Conn(cs, <<>>, net) = <<>>
    BY ConnEmpty
  <2> QED
    BY <2>1, <2>2, <2>3 DEF ca
<1>3. ASSUME NEW q \in Seq(Netted), q \in T, NEW t \in Netted PROVE Append(q, t) \in T
  <2> DEFINE r == a \o q
             cq == Conn(cs, q, net)
             cr == Conn(cs, r, net)
             l == <<NameIn(cs, t.ref), t.pin>>
  <2>1. a \o Append(q, t) = Append(r, t) /\ Append(q, t) \in Seq(Netted) /\ r \in Seq(Netted)
    BY ConcatAppend
  <2>2. cr = ca \o cq
    BY <1>3
  <2>3. Conn(cs, Append(q, t), net) = IF t.net = net THEN Append(cq, l) ELSE cq
    BY <1>0
  <2>4. l \in Linked(cs) /\ cq \in Seq(Linked(cs))
    BY ConnType DEF Linked
  <2> HIDE DEF r
  <2>5. Conn(cs, Append(r, t), net) = IF t.net = net THEN Append(cr, l) ELSE cr
    BY <2>1, <1>0
  <2> HIDE DEF cr, cq, ca, l
  <2>6. ca \o Append(cq, l) = Append(ca \o cq, l)
    BY <1>1, <2>4, ConcatAppend
  <2>7. Conn(cs, Append(r, t), net) = ca \o Conn(cs, Append(q, t), net)
    BY <2>2, <2>3, <2>5, <2>6, Zenon
  <2> QED
    BY <2>1, <2>7 DEF ca
<1> HIDE DEF T
<1>4. \A q \in Seq(Netted) : q \in T
  BY <1>2, <1>3, SeqInd
<1> QED
  BY <1>4 DEF T, ConnSplits

\* The toeprints of a record that name a net are what its placements connect
\* to it.
LEMMA RecordConns ==
    ASSUME NEW cs, NEW ref \in RefDes, NEW i, i = NameIn(cs, ref), NEW ts \in Seq(Toeprints),
           NEW net \in 0..(NetCount - 1)
    PROVE  Conn(cs, Sel(Over(PlacedBy(ref), ts), Netted), net) =
              Over(AskedBy(i), Sel(ts, {e \in Toeprints : e.net = net}))
<1> DEFINE p == PlacedBy(ref)
           a == AskedBy(i)
           N == {e \in Toeprints : e.net = net}
           A == {a[e] : e \in Toeprints}
           T == {q \in Seq(Toeprints) : Conn(cs, Sel(Over(p, q), Netted), net) = Over(a, Sel(q, N))}
<1>0. \A r \in Seq(AnyPlaced) : \A d \in AnyPlaced :
         /\ Sel(r, Netted) \in Seq(AnyPlaced)
         /\ Sel(Append(r, d), Netted) = IF d \in Netted THEN Append(Sel(r, Netted), d) ELSE Sel(r, Netted)
  BY SelAppend
<1>1. p \in [Toeprints -> AnyPlaced]
  BY DEF PlacedBy, AnyPlaced, Toeprints
<1>2. a \in [Toeprints -> A]
  BY DEF AskedBy
<1>3. \A e \in Toeprints : /\ p[e].ref = ref /\ p[e].net = e.net /\ p[e].pin = e.pin
                           /\ p[e] \in Netted <=> e.net # None
                           /\ a[e] = <<i, e.pin>>
                           /\ e \in N <=> e.net = net
  <2> SUFFICES ASSUME NEW e \in Toeprints
               PROVE  /\ p[e].ref = ref /\ p[e].net = e.net /\ p[e].pin = e.pin
                      /\ p[e] \in Netted <=> e.net # None
                      /\ a[e] = <<i, e.pin>>
                      /\ e \in N <=> e.net = net
    OBVIOUS
  <2>1. p[e] = [ref |-> ref, net |-> e.net, pin |-> e.pin]
    BY DEF PlacedBy
  <2>2. p[e] \in AnyPlaced
    BY <1>1
  <2>3. a[e] = <<i, e.pin>>
    BY DEF AskedBy
  <2> HIDE DEF p, a
  <2>4. p[e].ref = ref /\ p[e].net = e.net /\ p[e].pin = e.pin
    BY <2>1
  <2> QED
    BY <2>2, <2>3, <2>4 DEF Netted
<1>4. net # None
  BY ProductAssumption DEF None
<1>5. <<>> \in T
  <2>1. <<>> \in Seq(Toeprints) /\ Over(p, <<>>) = <<>> /\ Sel(<<>>, Netted) = <<>>
    BY EmptySeq, OverEmpty, SelEmpty
  <2>2. Sel(<<>>, N) = <<>> /\ Over(a, <<>>) = <<>>
    BY OverEmpty, SelEmpty
  <2>3. Conn(cs, <<>>, net) = <<>>
    BY ConnEmpty
  <2> QED
    BY <2>1, <2>2, <2>3
<1> HIDE DEF p, a, N, A
<1>6. ASSUME NEW q \in Seq(Toeprints), q \in T, NEW e \in Toeprints PROVE Append(q, e) \in T
  <2> DEFINE o == Over(p, q)
             s == Sel(o, Netted)
             b == Sel(q, N)
             t == p[e]
             c == Conn(cs, s, net)
  <2>1. Append(q, e) \in Seq(Toeprints)
    OBVIOUS
  <2>2. t \in AnyPlaced /\ o \in Seq(AnyPlaced)
    <3>1. o \in Seq(AnyPlaced)
      BY <1>1, OverType
    <3> QED
      BY <1>1, <3>1
  <2>3. Over(p, Append(q, e)) = Append(o, t)
    BY <1>1, OverAppend
  <2>4. c = Over(a, b)
    BY <1>6
  <2>5. /\ Sel(q, N) \in Seq(Toeprints)
        /\ Sel(Append(q, e), N) = IF e \in N THEN Append(Sel(q, N), e) ELSE Sel(q, N)
    BY SelAppend
  <2>6. Over(a, Append(b, e)) = Append(Over(a, b), a[e])
    <3>1. b \in Seq(Toeprints)
      BY <2>5
    <3> HIDE DEF b
    <3> QED
      BY <1>2, <3>1, OverAppend
  <2> HIDE DEF o, b, t
  <2>7. s \in Seq(Netted)
    BY <2>2, SelIn
  <2>8. /\ Sel(o, Netted) \in Seq(AnyPlaced)
        /\ Sel(Append(o, t), Netted) = IF t \in Netted THEN Append(Sel(o, Netted), t) ELSE Sel(o, Netted)
    BY <1>0, <2>2, Zenon
  <2> HIDE DEF s
  <2>9. ASSUME t \in Netted
        PROVE  Conn(cs, Append(s, t), net) = IF t.net = net THEN Append(c, <<NameIn(cs, t.ref), t.pin>>)
                                             ELSE c
    <3>1. /\ Conn(cs, s, net) \in Seq(Linked(cs))
          /\ Conn(cs, Append(s, t), net) =
                IF t.net = net THEN Append(Conn(cs, s, net), <<NameIn(cs, t.ref), t.pin>>)
                ELSE Conn(cs, s, net)
      BY <2>7, <2>9, ConnAppend
    <3> QED
      BY <3>1
  <2>10. t.ref = ref /\ t.net = e.net /\ t.pin = e.pin /\ (t \in Netted <=> e.net # None)
         /\ a[e] = <<i, e.pin>> /\ (e \in N <=> e.net = net)
    BY <1>3 DEF t
  <2> HIDE DEF c
  <2>11. Sel(Append(o, t), Netted) = IF t \in Netted THEN Append(s, t) ELSE s
    BY <2>8 DEF s
  <2>12. Sel(Append(q, e), N) = IF e \in N THEN Append(b, e) ELSE b
    BY <2>5 DEF b
  <2>13. CASE e.net = net
    <3>1. /\ Sel(Append(o, t), Netted) = Append(s, t)
          /\ Sel(Append(q, e), N) = Append(b, e)
      BY <1>4, <2>10, <2>11, <2>12, <2>13
    <3>2. Conn(cs, Append(s, t), net) = Append(c, <<i, e.pin>>)
      BY <1>4, <2>9, <2>10, <2>13
    <3>3. Conn(cs, Sel(Append(o, t), Netted), net) = Over(a, Sel(Append(q, e), N))
      BY <2>4, <2>6, <2>10, <3>1, <3>2, Zenon
    <3> QED
      BY <2>1, <2>3, <3>3
  <2>14. CASE e.net # net
    <3>1. Sel(Append(q, e), N) = b
      BY <2>10, <2>12, <2>14
    <3>2. Conn(cs, Sel(Append(o, t), Netted), net) = c
      <4>1. CASE t \in Netted
        BY <2>9, <2>10, <2>11, <2>14, <4>1, Zenon
      <4>2. CASE t \notin Netted
        BY <2>11, <4>2, Zenon DEF c
      <4> QED
        BY <4>1, <4>2
    <3>3. Conn(cs, Sel(Append(o, t), Netted), net) = Over(a, Sel(Append(q, e), N))
      BY <2>4, <3>1, <3>2, Zenon
    <3> QED
      BY <2>1, <2>3, <3>3
  <2> QED
    BY <2>13, <2>14
<1> HIDE DEF T
<1>7. \A q \in Seq(Toeprints) : q \in T
  BY <1>5, <1>6, SeqInd
<1> QED
  BY <1>7 DEF T, p, a, N

\* The placements of a file, and the connections asked for, in those terms.
LEMMA ConnectableIs ==
    ASSUME NEW c \in Record
    PROVE  /\ Connectable(<<c>>) = PlacementsOf(c)
           /\ PlacementsOf(c) \in Seq(Netted)
<1> DEFINE ts == c.toeprints
           p == PlacedBy(c.ref)
           o == Over(p, ts)
           all == [i \in DOMAIN ts |-> [ref |-> c.ref, net |-> ts[i].net, pin |-> ts[i].pin]]
<1>1. ts \in Seq(Toeprints) /\ c.ref \in RefDes
  BY DEF Record
<1>2. \A i \in DOMAIN ts : ts[i] \in Toeprints
  BY <1>1
<1>3. o = all
  BY <1>2 DEF Over, PlacedBy
<1>4. p \in [Toeprints -> AnyPlaced]
  BY <1>1 DEF PlacedBy, AnyPlaced, Toeprints
<1>5. Connectable(<<c>>) = SelectAt(all, {i \in DOMAIN all : all[i].net # None})
  <2>1. <<c>> # <<>> /\ <<c>>[1] = c
    OBVIOUS
  <2> QED
    BY <2>1 DEF Connectable
<1> HIDE DEF all, p
<1>6. o \in Seq(AnyPlaced)
  <2> HIDE DEF ts
  <2> QED
    BY <1>1, <1>4, OverType
<1> HIDE DEF o
<1>7. {i \in DOMAIN o : o[i].net # None} = {i \in DOMAIN o : o[i] \in Netted}
  BY <1>6 DEF Netted
<1>8. Sel(o, Netted) \in Seq(Netted)
  BY <1>6, SelIn
<1>9. Sel(o, Netted) = SelectAt(o, {i \in DOMAIN o : o[i] \in Netted})
  BY DEF Sel
<1>10. PlacementsOf(c) = Sel(o, Netted)
  BY DEF PlacementsOf, o, p
<1> QED
  BY <1>3, <1>5, <1>7, <1>8, <1>9, <1>10

LEMMA ConnectableEmpty == Connectable(<<>>) = <<>>
<1> DEFINE s == <<>>
<1>1. Connectable(<<>>) = SelectAt(s, {i \in DOMAIN s : s[i].net # None})
  BY DEF Connectable
<1>2. {i \in DOMAIN s : s[i].net # None} = {i \in DOMAIN s : s[i] \in {}}
  OBVIOUS
<1>3. SelectAt(s, {i \in DOMAIN s : s[i] \in {}}) = Sel(<<>>, {})
  BY DEF Sel
<1> QED
  BY <1>1, <1>2, <1>3, SelEmpty

LEMMA ConnOfRecord ==
    ASSUME NEW cs, NEW c \in Record, NEW i, i = NameIn(cs, c.ref), NEW net \in 0..(NetCount - 1)
    PROVE  Conn(cs, Connectable(<<c>>), net) = Asked(i, c, net)
<1> DEFINE ref == c.ref
           ts == c.toeprints
<1>1. ref \in RefDes /\ ts \in Seq(Toeprints)
  BY DEF Record
<1>2. i = NameIn(cs, ref)
  OBVIOUS
<1> HIDE DEF ref, ts
<1>3. Conn(cs, Sel(Over(PlacedBy(ref), ts), Netted), net) =
         Over(AskedBy(i), Sel(ts, {e \in Toeprints : e.net = net}))
  BY <1>1, <1>2, RecordConns
<1>4. Connectable(<<c>>) = PlacementsOf(c)
  BY ConnectableIs
<1>5. PlacementsOf(c) = Sel(Over(PlacedBy(ref), ts), Netted)
  BY DEF PlacementsOf, ref, ts
<1>6. Asked(i, c, net) = Over(AskedBy(i), Sel(ts, {e \in Toeprints : e.net = net}))
  BY DEF Asked, ts
<1> QED
  BY <1>3, <1>4, <1>5, <1>6

LEMMA AskedIs ==
    ASSUME NEW c \in Record, NEW i, NEW net
    PROVE  LET all == c.toeprints
               those == SelectAt(all, {k \in DOMAIN all : all[k].net = net})
           IN  /\ [k \in DOMAIN those |-> <<i, those[k].pin>>] = Asked(i, c, net)
               /\ \E Z : Asked(i, c, net) \in Seq(Z)
<1> DEFINE ts == c.toeprints
           N == {e \in Toeprints : e.net = net}
           those == SelectAt(ts, {k \in DOMAIN ts : ts[k].net = net})
           s == Sel(ts, N)
           Z == {<<i, e.pin>> : e \in Toeprints}
<1>1. ts \in Seq(Toeprints)
  BY DEF Record
<1> HIDE DEF ts
<1>2. {k \in DOMAIN ts : ts[k].net = net} = {k \in DOMAIN ts : ts[k] \in N}
  BY <1>1
<1>3. those = s
  BY <1>2 DEF Sel
<1>4. N \subseteq Toeprints
  OBVIOUS
<1> HIDE DEF N, those
<1>5. s \in Seq(N)
  BY <1>1, SelIn
<1> HIDE DEF s
<1>6. s \in Seq(Toeprints)
  BY <1>4, <1>5
<1>7. Asked(i, c, net) = Over(AskedBy(i), s)
  BY DEF Asked, s, ts, N
<1>8. \A k \in DOMAIN s : AskedBy(i)[s[k]] = <<i, s[k].pin>>
  BY <1>6 DEF AskedBy
<1>9. Over(AskedBy(i), s) = [k \in DOMAIN s |-> <<i, s[k].pin>>]
  BY <1>8 DEF Over
<1>10. AskedBy(i) \in [Toeprints -> Z]
  BY DEF AskedBy
<1>11. Over(AskedBy(i), s) \in Seq(Z)
  <2> DEFINE f == AskedBy(i)
  <2>1. f \in [Toeprints -> Z]
    BY <1>10
  <2> HIDE DEF f, Z
  <2>2. Over(f, s) \in Seq(Z)
    BY <1>6, <2>1, OverType
  <2> QED
    BY <2>2 DEF f
<1> QED
  BY <1>3, <1>7, <1>9, <1>11 DEF those, ts

-----------------------------------------------------------------------------
SideOk(side) == \/ side.records = <<>>
                \/ \E c \in Record : side.records = <<c>>

IsDesign(d) == d = [hasStep |-> d.hasStep, pins |-> d.pins, top |-> d.top, bottom |-> d.bottom,
                    packages |-> d.packages, components |-> d.components, todo |-> d.todo,
                    nets |-> d.nets, pc |-> d.pc]

RecordsIn(d) == d.top.records \o d.bottom.records
RefsIn(d) == [i \in DOMAIN RecordsIn(d) |-> RecordsIn(d)[i].ref]
PlacementsIn(d) == Connectable(d.top.records) \o Connectable(d.bottom.records)

\* Each net has the connections of the placements q.
Wired(d, q) == d.nets = [n \in 1..NetCount |-> Conn(d.components, q, n - 1)]

\* What is done and what is left to do.
Connecting(d) == \E done \in Seq(Netted) :
                    /\ d.todo \in Seq(Netted)
                    /\ PlacementsIn(d) = done \o d.todo
                    /\ Wired(d, done)

DesignOk(d) ==
    /\ IsDesign(d)
    /\ SideOk(d.top) /\ SideOk(d.bottom)
    /\ d.pc \in {"packages", "parts", "components", "placements"} =>
          d.nets = [n \in 1..NetCount |-> <<>>]
    /\ d.pc \in {"placements", "connect", "true"} => d.components = RefsIn(d)
    /\ d.pc = "connect" => Connecting(d)
    /\ d.pc = "true" => Wired(d, PlacementsIn(d))

DesignInv == part = "design" => DesignOk(design)

\* The build of one file model: the files stay as they are.
LEMMA SameFiles ==
    ASSUME NEW d, NEW e, e.top = d.top, e.bottom = d.bottom
    PROVE  /\ RecordsIn(e) = RecordsIn(d) /\ RefsIn(e) = RefsIn(d)
           /\ PlacementsIn(e) = PlacementsIn(d)
           /\ SideOk(e.top) <=> SideOk(d.top)
           /\ SideOk(e.bottom) <=> SideOk(d.bottom)
  BY DEF RecordsIn, RefsIn, PlacementsIn

LEMMA FailsOk == ASSUME DesignOk(design), Fails PROVE DesignOk(design')
<1> DEFINE d == design
           e == design'
<1>1. e = [d EXCEPT !.pc = "false"] /\ IsDesign(d)
  BY DEF Fails, DesignOk
<1>2. IsDesign(e) /\ e.top = d.top /\ e.bottom = d.bottom /\ e.pc = "false"
  BY <1>1 DEF IsDesign
<1> HIDE DEF d, e
<1>3. SideOk(e.top) /\ SideOk(e.bottom)
  BY <1>2 DEF DesignOk, d
<1> QED
  BY <1>2, <1>3 DEF DesignOk, e

LEMMA BuildNetsOk == ASSUME DesignOk(design), BuildNets PROVE DesignOk(design')
<1>1. CASE Fails
  BY <1>1, FailsOk
<1>2. CASE design' = [design EXCEPT !.pc = "packages", !.nets = [n \in 1..NetCount |-> <<>>]]
  <2> DEFINE d == design
             e == design'
             z == [n \in 1..NetCount |-> <<>>]
  <2>1. e = [d EXCEPT !.pc = "packages", !.nets = z] /\ IsDesign(d) /\ SideOk(d.top) /\ SideOk(d.bottom)
    BY <1>2 DEF DesignOk
  <2> HIDE DEF d, e, z
  <2>2. IsDesign(e) /\ e.top = d.top /\ e.bottom = d.bottom /\ e.pc = "packages" /\ e.nets = z
    BY <2>1 DEF IsDesign
  <2> QED
    BY <2>1, <2>2 DEF DesignOk, e, z
<1> QED
  BY <1>1, <1>2 DEF BuildNets

LEMMA BuildPackagesOk == ASSUME DesignOk(design), BuildPackages PROVE DesignOk(design')
<1> DEFINE d == design
           e == design'
           x == <<design.pins>>
<1>1. /\ e = [d EXCEPT !.pc = "parts", !.packages = x] /\ IsDesign(d)
      /\ d.nets = [n \in 1..NetCount |-> <<>>]
      /\ SideOk(d.top) /\ SideOk(d.bottom)
  BY DEF BuildPackages, DesignOk
<1> HIDE DEF d, e, x
<1>2. IsDesign(e) /\ e.top = d.top /\ e.bottom = d.bottom /\ e.pc = "parts" /\ e.nets = d.nets
  BY <1>1 DEF IsDesign
<1> QED
  BY <1>1, <1>2 DEF DesignOk, e

LEMMA BuildAllPartsOk == ASSUME DesignOk(design), BuildAllParts PROVE DesignOk(design')
<1>1. CASE Fails
  BY <1>1, FailsOk
<1>2. CASE design.pc = "parts" /\ design' = [design EXCEPT !.pc = "components"]
  <2> DEFINE d == design
             e == design'
  <2>1. /\ e = [d EXCEPT !.pc = "components"] /\ IsDesign(d)
        /\ d.nets = [n \in 1..NetCount |-> <<>>]
        /\ SideOk(d.top) /\ SideOk(d.bottom)
    BY <1>2 DEF DesignOk
  <2> HIDE DEF d, e
  <2>2. IsDesign(e) /\ e.top = d.top /\ e.bottom = d.bottom /\ e.pc = "components" /\ e.nets = d.nets
    BY <2>1 DEF IsDesign
  <2> QED
    BY <2>1, <2>2 DEF DesignOk, e
<1> QED
  BY <1>1, <1>2 DEF BuildAllParts

LEMMA BuildAllComponentsOk == ASSUME DesignOk(design), BuildAllComponents PROVE DesignOk(design')
<1>0. design.pc = "components"
  BY DEF BuildAllComponents
<1>1. CASE design' = [design EXCEPT !.pc = "crashed"]
  <2> DEFINE d == design
             e == design'
  <2>1. e = [d EXCEPT !.pc = "crashed"] /\ IsDesign(d) /\ SideOk(d.top) /\ SideOk(d.bottom)
    BY <1>1 DEF DesignOk
  <2> HIDE DEF d, e
  <2>2. IsDesign(e) /\ e.top = d.top /\ e.bottom = d.bottom /\ e.pc = "crashed"
    BY <2>1 DEF IsDesign
  <2> QED
    BY <2>1, <2>2 DEF DesignOk, e
<1>2. CASE design' = [design EXCEPT !.pc = "placements",
                         !.components = [i \in DOMAIN Records |-> Records[i].ref]]
  <2> DEFINE d == design
             e == design'
             x == RefsIn(design)
  <2>0. [i \in DOMAIN Records |-> Records[i].ref] = x
    BY DEF Records, RecordsIn, RefsIn
  <2>1. /\ e = [d EXCEPT !.pc = "placements", !.components = x] /\ IsDesign(d)
        /\ d.nets = [n \in 1..NetCount |-> <<>>]
        /\ SideOk(d.top) /\ SideOk(d.bottom)
    BY <1>0, <1>2, <2>0 DEF DesignOk
  <2>2. x = RefsIn(d)
    OBVIOUS
  <2> HIDE DEF d, e, x
  <2>3. /\ IsDesign(e) /\ e.top = d.top /\ e.bottom = d.bottom /\ e.pc = "placements"
        /\ e.nets = d.nets /\ e.components = x
    BY <2>1 DEF IsDesign
  <2>4. RefsIn(e) = RefsIn(d)
    BY <2>3, SameFiles
  <2> QED
    BY <2>1, <2>2, <2>3, <2>4 DEF DesignOk, e
<1> QED
  BY <1>1, <1>2 DEF BuildAllComponents

LEMMA PlacementsType ==
    ASSUME NEW d, SideOk(d.top), SideOk(d.bottom)
    PROVE  PlacementsIn(d) \in Seq(Netted)
<1> DEFINE a == d.top.records
           b == d.bottom.records
<1>1. Connectable(a) \in Seq(Netted)
  <2>1. CASE a = <<>>
    BY <2>1, ConnectableEmpty, EmptySeq
  <2>2. ASSUME NEW c \in Record, a = <<c>> PROVE Connectable(a) \in Seq(Netted)
    BY <2>2, ConnectableIs
  <2> QED
    BY <2>1, <2>2 DEF SideOk
<1>2. Connectable(b) \in Seq(Netted)
  <2>1. CASE b = <<>>
    BY <2>1, ConnectableEmpty, EmptySeq
  <2>2. ASSUME NEW c \in Record, b = <<c>> PROVE Connectable(b) \in Seq(Netted)
    BY <2>2, ConnectableIs
  <2> QED
    BY <2>1, <2>2 DEF SideOk
<1> QED
  BY <1>1, <1>2 DEF PlacementsIn

LEMMA BuildPlacementsOk ==
    ASSUME DesignOk(design), BuildPlacementsFromComponentsFiles
    PROVE  DesignOk(design')
<1> DEFINE d == design
           e == design'
           x == PlacementsIn(design)
<1>0. PlacementsToMake = x
  BY DEF PlacementsToMake, PlacementsIn
<1>1. /\ e = [d EXCEPT !.pc = "connect", !.todo = x] /\ IsDesign(d)
      /\ d.nets = [n \in 1..NetCount |-> <<>>]
      /\ d.components = RefsIn(d)
      /\ SideOk(d.top) /\ SideOk(d.bottom)
  BY <1>0 DEF DesignOk, BuildPlacementsFromComponentsFiles
<1>2. x = PlacementsIn(d) /\ x \in Seq(Netted)
  BY <1>1, PlacementsType
<1> HIDE DEF d, e, x
<1>3. /\ IsDesign(e) /\ e.top = d.top /\ e.bottom = d.bottom /\ e.pc = "connect"
      /\ e.nets = d.nets /\ e.components = d.components /\ e.todo = x
  BY <1>1 DEF IsDesign
<1>4. RefsIn(e) = RefsIn(d) /\ PlacementsIn(e) = PlacementsIn(d)
  BY <1>3, SameFiles
<1>5. <<>> \in Seq(Netted) /\ <<>> \o x = x
  BY <1>2, EmptySeq
<1>6. Wired(e, <<>>)
  <2> DEFINE cs == e.components
             more(n) == Conn(cs, <<>>, n - 1)
  <2>1. \A n \in 1..NetCount : more(n) = <<>>
    BY ConnEmpty
  <2>2. Wired(e, <<>>) <=> e.nets = [n \in 1..NetCount |-> more(n)]
    BY DEF Wired
  <2> HIDE DEF more
  <2>3. e.nets = [n \in 1..NetCount |-> more(n)]
    BY <1>1, <1>3, <2>1
  <2> QED
    BY <2>2, <2>3
<1>7. Connecting(e)
  BY <1>2, <1>3, <1>4, <1>5, <1>6 DEF Connecting
<1> QED
  BY <1>1, <1>3, <1>4, <1>7 DEF DesignOk, e

LEMMA FirstLeft ==
    ASSUME NEW X, NEW a \in Seq(X), NEW b \in Seq(X), b # <<>>
    PROVE  /\ Head(b) \in X /\ Tail(b) \in Seq(X)
           /\ Append(a, Head(b)) \in Seq(X)
           /\ a \o b = Append(a, Head(b)) \o Tail(b)
  OBVIOUS

\* The connection of the first placement left is the one its net lacks.
LEMMA WiredNext ==
    ASSUME NEW d, NEW e, NEW done \in Seq(Netted), NEW t \in Netted, Wired(d, done),
           t.net + 1 \in 1..NetCount, e.components = d.components,
           e.nets = [d.nets EXCEPT ![t.net + 1] = Append(@, <<NameIn(d.components, t.ref), t.pin>>)]
    PROVE  Wired(e, Append(done, t))
<1> DEFINE cs == d.components
           l == <<NameIn(d.components, t.ref), t.pin>>
           more(n) == Conn(cs, Append(done, t), n - 1)
           conn(n) == Conn(cs, done, n - 1)
<1>1. \A n \in 1..NetCount : more(n) = IF t.net = n - 1 THEN Append(conn(n), l) ELSE conn(n)
  <2> SUFFICES ASSUME NEW n \in 1..NetCount
               PROVE  more(n) = IF t.net = n - 1 THEN Append(conn(n), l) ELSE conn(n)
    OBVIOUS
  <2>1. \A x, m : Conn(x, Append(done, t), m) =
                    IF t.net = m THEN Append(Conn(x, done, m), <<NameIn(x, t.ref), t.pin>>)
                    ELSE Conn(x, done, m)
    <3> SUFFICES ASSUME NEW x, NEW m
                 PROVE  Conn(x, Append(done, t), m) =
                           IF t.net = m THEN Append(Conn(x, done, m), <<NameIn(x, t.ref), t.pin>>)
                           ELSE Conn(x, done, m)
      OBVIOUS
    <3>1. /\ Conn(x, done, m) \in Seq(Linked(x))
          /\ Conn(x, Append(done, t), m) =
                IF t.net = m THEN Append(Conn(x, done, m), <<NameIn(x, t.ref), t.pin>>)
                ELSE Conn(x, done, m)
      BY ConnAppend
    <3> QED
      BY <3>1
  <2> QED
    BY <2>1, Zenon
<1>2. d.nets = [n \in 1..NetCount |-> conn(n)]
  BY DEF Wired
<1>3. t.net \in 0..NetCount
  BY DEF Netted, AnyPlaced, None
<1>4. e.nets = [d.nets EXCEPT ![t.net + 1] = Append(@, l)]
  OBVIOUS
<1>5. Wired(e, Append(done, t)) <=> e.nets = [n \in 1..NetCount |-> more(n)]
  BY DEF Wired
<1> HIDE DEF more, conn, l, cs
<1>6. e.nets = [n \in 1..NetCount |-> IF n = t.net + 1 THEN Append(conn(n), l) ELSE conn(n)]
  <2> DEFINE k == t.net + 1
             o == d.nets
             v == Append(o[k], l)
  <2>1. o = [n \in 1..NetCount |-> conn(n)] /\ e.nets = [o EXCEPT ![k] = v] /\ k \in 1..NetCount
    BY <1>2, <1>4
  <2>2. v = Append(conn(k), l)
    BY <2>1
  <2> HIDE DEF v, k, o
  <2>3. e.nets = [n \in 1..NetCount |-> IF n = k THEN v ELSE conn(n)]
    BY <2>1
  <2>4. \A n \in 1..NetCount : (IF n = k THEN v ELSE conn(n)) = (IF n = k THEN Append(conn(n), l) ELSE conn(n))
    BY <2>2, Zenon
  <2>5. e.nets = [n \in 1..NetCount |-> IF n = k THEN Append(conn(n), l) ELSE conn(n)]
    BY <2>3, <2>4
  <2> QED
    BY <2>5 DEF k
<1>7. \A n \in 1..NetCount : more(n) = IF n = t.net + 1 THEN Append(conn(n), l) ELSE conn(n)
  <2> SUFFICES ASSUME NEW n \in 1..NetCount
               PROVE  more(n) = IF n = t.net + 1 THEN Append(conn(n), l) ELSE conn(n)
    OBVIOUS
  <2>1. t.net = n - 1 <=> n = t.net + 1
    BY <1>3
  <2> QED
    BY <1>1, <2>1
<1>8. e.nets = [n \in 1..NetCount |-> more(n)]
  BY <1>6, <1>7
<1> QED
  BY <1>5, <1>8

LEMMA CreatePinConnectionOk == ASSUME DesignOk(design), CreatePinConnection PROVE DesignOk(design')
<1> DEFINE d == design
           e == design'
           t == Head(design.todo)
           rest == Tail(design.todo)
           l == <<ByName(Head(design.todo).ref), Head(design.todo).pin>>
<1>1. CASE Fails
  BY <1>1, FailsOk
<1>2. CASE /\ design.pc = "connect" /\ design.todo # <<>>
           /\ t.net < Len(design.nets)
           /\ design' = [design EXCEPT !.todo = rest,
                                       !.nets[t.net + 1] = Append(@, <<ByName(t.ref), t.pin>>)]
  <2>1. /\ IsDesign(d) /\ d.pc = "connect" /\ d.todo # <<>> /\ t.net < Len(d.nets)
        /\ d.components = RefsIn(d) /\ Connecting(d)
        /\ SideOk(d.top) /\ SideOk(d.bottom)
    BY <1>2 DEF DesignOk
  <2>2. e = [d EXCEPT !.todo = rest, !.nets[t.net + 1] = Append(@, l)]
    BY <1>2
  <2>3. l = <<NameIn(d.components, t.ref), t.pin>>
    BY DEF ByName, NameIn
  <2>4. PICK done \in Seq(Netted) : /\ d.todo \in Seq(Netted)
                                    /\ PlacementsIn(d) = done \o d.todo
                                    /\ Wired(d, done)
    BY <2>1 DEF Connecting
  <2>5. t = Head(d.todo) /\ rest = Tail(d.todo)
    OBVIOUS
  <2> HIDE DEF d, e, t, rest, l
  <2>6. /\ t \in Netted /\ rest \in Seq(Netted)
        /\ Append(done, t) \in Seq(Netted)
        /\ PlacementsIn(d) = Append(done, t) \o rest
    <3> DEFINE q == d.todo
    <3>1. q \in Seq(Netted) /\ q # <<>>
      BY <2>1, <2>4
    <3> HIDE DEF q
    <3>2. /\ Head(q) \in Netted /\ Tail(q) \in Seq(Netted)
          /\ Append(done, Head(q)) \in Seq(Netted)
          /\ done \o q = Append(done, Head(q)) \o Tail(q)
      BY <3>1, FirstLeft
    <3> QED
      BY <2>4, <2>5, <3>2, Zenon DEF q
  <2>7. /\ IsDesign(e) /\ e.top = d.top /\ e.bottom = d.bottom /\ e.pc = "connect"
        /\ e.components = d.components /\ e.todo = rest
        /\ e.nets = [d.nets EXCEPT ![t.net + 1] = Append(@, l)]
    BY <2>1, <2>2 DEF IsDesign
  <2>8. t.net + 1 \in 1..NetCount
    <3>1. Len(d.nets) = NetCount
      <4>1. DOMAIN d.nets = 1..NetCount
        BY <2>4 DEF Wired
      <4>2. d.nets = [n \in 1..NetCount |-> d.nets[n]]
        BY <2>4 DEF Wired
      <4> QED
        BY <4>2, ProductAssumption
    <3>2. t.net \in Int /\ t.net >= 0
      BY <2>6, ProductAssumption DEF Netted, AnyPlaced, None
    <3> QED
      BY <2>1, <3>1, <3>2, ProductAssumption
  <2>9. Wired(e, Append(done, t))
    BY <2>3, <2>4, <2>6, <2>7, <2>8, WiredNext
  <2>10. RefsIn(e) = RefsIn(d) /\ PlacementsIn(e) = PlacementsIn(d)
    BY <2>7, SameFiles
  <2>11. Connecting(e)
    BY <2>6, <2>7, <2>9, <2>10 DEF Connecting
  <2> QED
    BY <2>1, <2>7, <2>10, <2>11 DEF DesignOk, e
<1> QED
  BY <1>1, <1>2 DEF CreatePinConnection

LEMMA BuildReturnsOk == ASSUME DesignOk(design), BuildReturns PROVE DesignOk(design')
<1> DEFINE d == design
           e == design'
<1>1. /\ e = [d EXCEPT !.pc = "true"] /\ IsDesign(d) /\ d.todo = <<>>
      /\ d.components = RefsIn(d) /\ Connecting(d)
      /\ SideOk(d.top) /\ SideOk(d.bottom)
  BY DEF BuildReturns, DesignOk
<1> HIDE DEF d, e
<1>2. /\ IsDesign(e) /\ e.top = d.top /\ e.bottom = d.bottom /\ e.pc = "true"
      /\ e.components = d.components /\ e.nets = d.nets
  BY <1>1 DEF IsDesign
<1>3. PICK done \in Seq(Netted) : /\ d.todo \in Seq(Netted)
                                  /\ PlacementsIn(d) = done \o d.todo
                                  /\ Wired(d, done)
  BY <1>1 DEF Connecting
<1>4. PlacementsIn(d) = done
  BY <1>1, <1>3
<1>5. RefsIn(e) = RefsIn(d) /\ PlacementsIn(e) = PlacementsIn(d)
  BY <1>2, SameFiles
<1>6. Wired(e, PlacementsIn(e))
  BY <1>2, <1>3, <1>4, <1>5 DEF Wired
<1> QED
  BY <1>1, <1>2, <1>5, <1>6 DEF DesignOk, e

LEMMA SidesOk == \A n \in Nat : \A side \in Sides(n) : SideOk(side)
<1> SUFFICES ASSUME NEW n \in Nat, NEW side \in Sides(n), side.records # <<>>
             PROVE  \E c \in Record : side.records = <<c>>
  BY DEF SideOk
<1>1. side.records \in {<<c>> : c \in ComponentRecords(n)}
  BY DEF Sides
<1>2. PICK c \in ComponentRecords(n) : side.records = <<c>>
  BY <1>1
<1>3. c \in Record
  <2>1. /\ c \in [ref : RefDes, pkg : 0..1, toeprints : UNION {[1..k -> Toeprints] : k \in 0..n}]
    BY DEF ComponentRecords
  <2>2. PICK k \in 0..n : c.toeprints \in [1..k -> Toeprints]
    BY <2>1
  <2>3. c.toeprints \in Seq(Toeprints)
    BY <2>2
  <2> QED
    BY <2>1, <2>3 DEF Record
<1> QED
  BY <1>2, <1>3

LEMMA DesignInitOk == DesignInit => DesignOk(design)
<1> SUFFICES ASSUME DesignInit PROVE DesignOk(design)
  OBVIOUS
<1>1. PICK hasStep \in BOOLEAN, pins \in 1..MaxPins, top \in Sides(2), bottom \in Sides(1) :
         design = [hasStep |-> hasStep, pins |-> pins, top |-> top, bottom |-> bottom,
                   packages |-> <<>>, components |-> <<>>, todo |-> <<>>,
                   nets |-> <<>>, pc |-> "nets"]
  BY DEF DesignInit
<1>2. SideOk(top) /\ SideOk(bottom)
  BY SidesOk
<1> DEFINE d == design
<1>3. /\ d = [hasStep |-> hasStep, pins |-> pins, top |-> top, bottom |-> bottom,
              packages |-> <<>>, components |-> <<>>, todo |-> <<>>, nets |-> <<>>, pc |-> "nets"]
  BY <1>1
<1> HIDE DEF d
<1>4. IsDesign(d) /\ d.top = top /\ d.bottom = bottom /\ d.pc = "nets"
  BY <1>3 DEF IsDesign
<1> QED
  BY <1>2, <1>4 DEF DesignOk, d

LEMMA DesignStep == ASSUME DesignOk(design), DesignNext PROVE DesignOk(design')
  BY BuildNetsOk, BuildPackagesOk, BuildAllPartsOk, BuildAllComponentsOk, BuildPlacementsOk,
     CreatePinConnectionOk, BuildReturnsOk DEF DesignNext

\* The component of a name that is there has that name.
LEMMA NameOf ==
    ASSUME NEW cs, NEW m \in 0..2, DOMAIN cs = 1..m, NEW i \in DOMAIN cs
    PROVE  NameIn(cs, cs[i]) \in DOMAIN cs /\ cs[NameIn(cs, cs[i])] = cs[i]
<1> DEFINE Last(k) == cs[k] = cs[i] /\ \A j \in DOMAIN cs : cs[j] = cs[i] => j <= k
<1>1. \E k \in DOMAIN cs : Last(k)
  <2>1. CASE \E k \in DOMAIN cs : cs[k] = cs[i] /\ k = 2
    BY <2>1
  <2>2. CASE ~\E k \in DOMAIN cs : cs[k] = cs[i] /\ k = 2
    <3>1. i = 1 /\ \A j \in DOMAIN cs : cs[j] = cs[i] => j = 1
      BY <2>2
    <3> QED
      BY <3>1
  <2> QED
    BY <2>1, <2>2
<1>2. NameIn(cs, cs[i]) = CHOOSE k \in DOMAIN cs : Last(k)
  BY DEF NameIn
<1>3. \A k : Last(k) => cs[k] = cs[i]
  OBVIOUS
<1> HIDE DEF Last
<1> QED
  BY <1>1, <1>2, <1>3

\* The connections a net should have from the i-th record.
Named(i, net) ==
    LET all == Records[i].toeprints
        those == SelectAt(all, {k \in DOMAIN all : all[k].net = net})
    IN  [k \in DOMAIN those |-> <<i, those[k].pin>>]

Wanted(net) == CASE Len(Records) = 0 -> <<>>
                 [] Len(Records) = 1 -> Named(1, net)
                 [] Len(Records) = 2 -> Named(1, net) \o Named(2, net)

\* A connection that was made, and the toeprint that asked for it.
Agrees(made, asked) == /\ made[1] \in DOMAIN Records
                       /\ Records[made[1]].ref = Records[asked[1]].ref
                       /\ made[2] = asked[2]

Agree(made, asked) == /\ Len(made) = Len(asked)
                      /\ \A k \in DOMAIN made : Agrees(made[k], asked[k])

LEMMA ConnectionsExactIs ==
    ConnectionsExact <=>
       (design.pc = "true" => \A n \in 1..NetCount : Agree(design.nets[n], Wanted(n - 1)))
  BY DEF ConnectionsExact, Agree, Agrees, Wanted, Named

LEMMA SameLength ==
    ASSUME NEW X, NEW f \in Seq(X), NEW Z, NEW g \in Seq(Z), DOMAIN f = DOMAIN g
    PROVE  Len(f) = Len(g)
<1> DEFINE m == Len(f)
           n == Len(g)
<1>1. m \in Nat /\ n \in Nat /\ DOMAIN f = 1..m /\ DOMAIN g = 1..n
  OBVIOUS
<1> HIDE DEF m, n
<1>2. 1..m = 1..n
  BY <1>1, Zenon
<1>3. m = n
  BY ONLY <1>1, <1>2
<1> QED
  BY <1>3 DEF m, n

LEMMA AgreeConcat ==
    ASSUME NEW X, NEW f \in Seq(X), NEW g \in Seq(X),
           NEW Z, NEW v \in Seq(Z), NEW w \in Seq(Z), Agree(f, v), Agree(g, w)
    PROVE  Agree(f \o g, v \o w)
<1>1. /\ Len(f) = Len(v) /\ \A k \in DOMAIN f : Agrees(f[k], v[k])
      /\ Len(g) = Len(w) /\ \A k \in DOMAIN g : Agrees(g[k], w[k])
  BY DEF Agree
<1>2. /\ Len(f) \in Nat /\ DOMAIN f = 1..Len(f) /\ Len(g) \in Nat /\ DOMAIN g = 1..Len(g)
      /\ DOMAIN (f \o g) = 1..(Len(f) + Len(g))
      /\ Len(f \o g) = Len(f) + Len(g) /\ Len(v \o w) = Len(v) + Len(w)
  BY ONLY f \in Seq(X), g \in Seq(X), v \in Seq(Z), w \in Seq(Z)
<1>3. \A k \in 1..(Len(f) + Len(g)) : Agrees((f \o g)[k], (v \o w)[k])
  <2> SUFFICES ASSUME NEW k \in 1..(Len(f) + Len(g)) PROVE Agrees((f \o g)[k], (v \o w)[k])
    OBVIOUS
  <2>1. CASE k \in 1..Len(f)
    <3>1. k \in DOMAIN f /\ (f \o g)[k] = f[k] /\ (v \o w)[k] = v[k]
      BY ONLY <1>1, <1>2, <2>1, f \in Seq(X), g \in Seq(X), v \in Seq(Z), w \in Seq(Z)
    <3> QED
      BY <1>1, <3>1
  <2>2. CASE k \in (Len(f) + 1)..(Len(f) + Len(g))
    <3> DEFINE l == k - Len(f)
    <3>1. l \in DOMAIN g
      BY ONLY <1>2, <2>2
    <3>2. (f \o g)[k] = g[l]
      BY ONLY <2>2, f \in Seq(X), g \in Seq(X)
    <3>3. (v \o w)[k] = w[l]
      <4>1. Len(v) \in Nat /\ Len(w) \in Nat /\ k \in (Len(v) + 1)..(Len(v) + Len(w))
        BY ONLY <1>1, <1>2, <2>2
      <4>2. (v \o w)[k] = w[k - Len(v)]
        BY ONLY <4>1, v \in Seq(Z), w \in Seq(Z)
      <4> QED
        BY <1>1, <4>2
    <3> QED
      BY <1>1, <3>1, <3>2, <3>3
  <2>3. k \in 1..Len(f) \/ k \in (Len(f) + 1)..(Len(f) + Len(g))
    BY ONLY <1>2, k \in 1..(Len(f) + Len(g))
  <2> QED
    BY ONLY <2>1, <2>2, <2>3
<1>4. Len(f \o g) = Len(v \o w)
  BY ONLY <1>1, <1>2
<1> QED
  BY ONLY <1>2, <1>3, <1>4 DEF Agree

LEMMA WantedIs ==
    ASSUME NEW net
    PROVE  /\ Len(Records) = 0 => Wanted(net) = <<>>
           /\ Len(Records) = 1 => Wanted(net) = Named(1, net)
           /\ Len(Records) = 2 => Wanted(net) = Named(1, net) \o Named(2, net)
  BY DEF Wanted

LEMMA NamedIs ==
    ASSUME NEW i, NEW net, Records[i] \in Record
    PROVE  Named(i, net) = Asked(i, Records[i], net) /\ \E Z : Named(i, net) \in Seq(Z)
<1> DEFINE c == Records[i]
           all == c.toeprints
           those == SelectAt(all, {k \in DOMAIN all : all[k].net = net})
<1>1. Named(i, net) = [k \in DOMAIN those |-> <<i, those[k].pin>>]
  BY DEF Named
<1>2. c \in Record
  OBVIOUS
<1> HIDE DEF c
<1>3. /\ [k \in DOMAIN those |-> <<i, those[k].pin>>] = Asked(i, c, net)
      /\ \E Z : Asked(i, c, net) \in Seq(Z)
  BY <1>2, AskedIs
<1> QED
  BY <1>1, <1>3, Zenon DEF c

\* What the placements of a file's only record connect.
LEMMA PlacedAgrees ==
    ASSUME NEW cs, NEW i \in DOMAIN Records, NEW net \in 0..(NetCount - 1), Records[i] \in Record,
           NameIn(cs, Records[i].ref) \in DOMAIN Records,
           Records[NameIn(cs, Records[i].ref)].ref = Records[i].ref
    PROVE  Agree(Conn(cs, Connectable(<<Records[i]>>), net), Named(i, net))
<1> DEFINE c == Records[i]
           j == NameIn(cs, c.ref)
           all == c.toeprints
           those == SelectAt(all, {k \in DOMAIN all : all[k].net = net})
           made == Asked(j, c, net)
           asked == Asked(i, c, net)
<1>1. Conn(cs, Connectable(<<c>>), net) = made
  <2>1. c \in Record
    OBVIOUS
  <2> HIDE DEF c
  <2> QED
    BY <2>1, ConnOfRecord
<1>2. /\ made = [k \in DOMAIN those |-> <<j, those[k].pin>>]
      /\ asked = [k \in DOMAIN those |-> <<i, those[k].pin>>]
      /\ (\E Z : made \in Seq(Z)) /\ \E Z : asked \in Seq(Z)
  <2>1. c \in Record
    OBVIOUS
  <2> HIDE DEF c, j
  <2> QED
    BY <2>1, AskedIs
<1>3. Named(i, net) = asked
  BY NamedIs
<1>4. j \in DOMAIN Records /\ Records[j].ref = Records[i].ref
  OBVIOUS
<1> HIDE DEF c, j, those, made, asked
<1>5. DOMAIN made = DOMAIN asked /\ Len(made) = Len(asked)
  <2>1. DOMAIN made = DOMAIN asked
    BY <1>2
  <2>2. PICK X, Z : made \in Seq(X) /\ asked \in Seq(Z)
    BY <1>2
  <2> QED
    BY ONLY <2>1, <2>2, SameLength
<1>6. \A k \in DOMAIN made : Agrees(made[k], asked[k])
  <2> SUFFICES ASSUME NEW k \in DOMAIN those PROVE Agrees(made[k], asked[k])
    BY <1>2
  <2>1. made[k] = <<j, those[k].pin>> /\ asked[k] = <<i, those[k].pin>>
    BY <1>2
  <2> QED
    BY <1>4, <2>1 DEF Agrees
<1> QED
  BY <1>1, <1>3, <1>5, <1>6 DEF Agree, c

LEMMA TwoConcat ==
    \A c, f : Len(<<c>> \o <<f>>) = 2 /\ (<<c>> \o <<f>>)[1] = c /\ (<<c>> \o <<f>>)[2] = f
<1> SUFFICES ASSUME NEW c, NEW f
             PROVE  Len(<<c>> \o <<f>>) = 2 /\ (<<c>> \o <<f>>)[1] = c /\ (<<c>> \o <<f>>)[2] = f
  OBVIOUS
<1> DEFINE X == {c, f}
<1>1. c \in X /\ f \in X
  OBVIOUS
<1> HIDE DEF X
<1> QED
  BY <1>1

LEMMA ExactWhenBuilt ==
    ASSUME DesignOk(design), design.pc = "true", NEW n \in 1..NetCount
    PROVE  Agree(design.nets[n], Wanted(n - 1))
<1> DEFINE d == design
           cs == RefsIn(design)
           a == design.top.records
           b == design.bottom.records
           net == n - 1
           ca == Conn(cs, Connectable(a), net)
           cb == Conn(cs, Connectable(b), net)
<1>1. net \in 0..(NetCount - 1)
  BY ProductAssumption
<1>2. /\ a = <<>> \/ \E c \in Record : a = <<c>>
      /\ b = <<>> \/ \E c \in Record : b = <<c>>
  BY DEF DesignOk, SideOk
<1>3. Connectable(a) \in Seq(Netted) /\ Connectable(b) \in Seq(Netted)
  BY <1>2, ConnectableEmpty, ConnectableIs, EmptySeq
<1>4. design.nets[n] = Conn(cs, Connectable(a) \o Connectable(b), net)
  BY DEF DesignOk, Wired, PlacementsIn
<1>5. design.nets[n] = ca \o cb
  <2> DEFINE x == Connectable(a)
             y == Connectable(b)
  <2>1. x \in Seq(Netted) /\ y \in Seq(Netted)
    BY <1>3
  <2>2. design.nets[n] = Conn(cs, x \o y, net)
    BY <1>4
  <2> HIDE DEF x, y, cs, net
  <2>3. Conn(cs, x \o y, net) = Conn(cs, x, net) \o Conn(cs, y, net)
    <3>1. ConnSplits(cs, x, y, net)
      BY <2>1, ConnConcat
    <3> QED
      BY <3>1 DEF ConnSplits
  <2> QED
    BY <2>2, <2>3 DEF x, y
<1>6. \E Z : ca \in Seq(Z) /\ cb \in Seq(Z)
  BY <1>3, ConnType
<1>7. Records = a \o b
  BY DEF Records
<1>8. \A i \in DOMAIN Records : i \in Nat /\ Records[i] \in Record
  <2>1. a \in Seq(Record) /\ b \in Seq(Record)
    <3>1. <<>> \in Seq(Record) /\ \A c \in Record : <<c>> \in Seq(Record)
      BY EmptySeq
    <3> HIDE DEF a, b
    <3> QED
      BY <1>2, <3>1, Zenon
  <2> HIDE DEF a, b
  <2> QED
    BY <1>7, <2>1
<1>9. ASSUME NEW i \in DOMAIN Records
      PROVE  /\ NameIn(cs, Records[i].ref) \in DOMAIN Records
             /\ Records[NameIn(cs, Records[i].ref)].ref = Records[i].ref
  <2>1. DOMAIN cs = DOMAIN Records /\ \A j \in DOMAIN Records : cs[j] = Records[j].ref
    BY DEF RefsIn, RecordsIn, Records
  <2>2. Len(Records) \in 0..2 /\ DOMAIN Records = 1..Len(Records)
    <3>1. /\ Len(a) = 0 \/ Len(a) = 1
          /\ Len(b) = 0 \/ Len(b) = 1
          /\ a \in Seq(Record) /\ b \in Seq(Record)
      <4>1. /\ <<>> \in Seq(Record) /\ Len(<<>>) = 0
            /\ \A c \in Record : <<c>> \in Seq(Record) /\ Len(<<c>>) = 1
        BY EmptySeq
      <4> HIDE DEF a, b
      <4> QED
        BY ONLY <1>2, <4>1, Zenon
    <3> HIDE DEF a, b
    <3> QED
      BY <1>7, <3>1
  <2> HIDE DEF cs
  <2>3. NameIn(cs, cs[i]) \in DOMAIN cs /\ cs[NameIn(cs, cs[i])] = cs[i]
    BY <2>1, <2>2, NameOf
  <2> QED
    BY <2>1, <2>3
<1>10. ASSUME NEW i \in DOMAIN Records
       PROVE  Agree(Conn(cs, Connectable(<<Records[i]>>), net), Named(i, net))
  <2>1. /\ Records[i] \in Record /\ NameIn(cs, Records[i].ref) \in DOMAIN Records
        /\ Records[NameIn(cs, Records[i].ref)].ref = Records[i].ref
    BY <1>8, <1>9
  <2> HIDE DEF cs, net
  <2> QED
    BY <1>1, <2>1, PlacedAgrees
<1>11. Conn(cs, Connectable(<<>>), net) = <<>>
  BY ConnectableEmpty, ConnEmpty
<1> HIDE DEF cs, net, ca, cb
<1>12. CASE a = <<>> /\ b = <<>>
  <2>1. Len(Records) = 0
    BY <1>7, <1>12
  <2>2. ca = <<>> /\ cb = <<>>
    BY <1>11, <1>12 DEF ca, cb
  <2>3. design.nets[n] = <<>> /\ Wanted(n - 1) = <<>>
    BY <1>5, <2>1, <2>2, WantedIs
  <2> QED
    BY <2>3 DEF Agree
<1>13. ASSUME NEW c \in Record, a = <<c>>, b = <<>> PROVE Agree(design.nets[n], Wanted(n - 1))
  <2>1. Records = <<c>>
    BY <1>7, <1>13
  <2>2. Len(Records) = 1 /\ Records[1] = c /\ 1 \in DOMAIN Records
    BY <2>1
  <2>3. Agree(ca, Named(1, net)) /\ cb = <<>>
    BY <1>10, <1>11, <1>13, <2>2 DEF ca, cb
  <2>4. ca \o cb = ca
    BY <1>6, <2>3
  <2> QED
    BY <1>5, <2>2, <2>3, <2>4, WantedIs DEF net
<1>14. ASSUME NEW c \in Record, a = <<>>, b = <<c>> PROVE Agree(design.nets[n], Wanted(n - 1))
  <2>1. Records = <<c>>
    BY <1>7, <1>14
  <2>2. Len(Records) = 1 /\ Records[1] = c /\ 1 \in DOMAIN Records
    BY <2>1
  <2>3. Agree(cb, Named(1, net)) /\ ca = <<>>
    BY <1>10, <1>11, <1>14, <2>2 DEF ca, cb
  <2>4. ca \o cb = cb
    BY <1>6, <2>3
  <2> QED
    BY <1>5, <2>2, <2>3, <2>4, WantedIs DEF net
<1>15. ASSUME NEW c \in Record, NEW f \in Record, a = <<c>>, b = <<f>>
       PROVE  Agree(design.nets[n], Wanted(n - 1))
  <2>1. Records = <<c>> \o <<f>>
    BY <1>7, <1>15
  <2>2. Len(Records) = 2 /\ Records[1] = c /\ Records[2] = f
    BY <2>1, TwoConcat
  <2>3. 1 \in DOMAIN Records /\ 2 \in DOMAIN Records
    BY <2>1
  <2>4. Agree(ca, Named(1, net)) /\ Agree(cb, Named(2, net))
    BY <1>10, <1>15, <2>2, <2>3 DEF ca, cb
  <2>5. PICK Z1, Z2 : Named(1, net) \in Seq(Z1) /\ Named(2, net) \in Seq(Z2)
    BY <1>8, <2>3, NamedIs
  <2> DEFINE v == Named(1, net)
             w == Named(2, net)
  <2>6. Agree(ca \o cb, v \o w)
    <3>1. PICK X : ca \in Seq(X) /\ cb \in Seq(X)
      BY <1>6
    <3>2. v \in Seq(Z1 \cup Z2) /\ w \in Seq(Z1 \cup Z2)
      BY <2>5
    <3> HIDE DEF v, w
    <3> QED
      BY <2>4, <3>1, <3>2, AgreeConcat DEF v, w
  <2> QED
    BY <1>5, <2>2, <2>6, WantedIs DEF net
<1> QED
  BY <1>2, <1>12, <1>13, <1>14, <1>15

\* A design that was built has every net complete: its connections are the toeprints that
\* name it, each once and in the order of the files, each with its own pin and a component
\* of its reference designator (its own one unless another has the same designator), for
\* every number of nets and of pins (ProductModel::Design::Build, whose connections are
\* made one toeprint at a time from a list that leaves out the toeprints without a net).
THEOREM BuiltDesignsAreExact == Spec => []DesignExact
<1>1. Init => DesignInv
  BY DesignInitOk DEF Init, DesignInv
<1>2. DesignInv /\ [Next]_fileVars => DesignInv'
  <2> SUFFICES ASSUME DesignInv, [Next]_fileVars, part' = "design" PROVE DesignOk(design')
    BY DEF DesignInv
  <2>1. CASE part = "design" /\ DesignNext
    BY <2>1, DesignStep DEF DesignInv
  <2>2. CASE UNCHANGED <<part, design>>
    BY <2>2 DEF DesignInv
  <2>3. part = "design" => part \notin Formats
    BY DEF Formats
  <2> QED
    BY <2>1, <2>2, <2>3 DEF Next, fileVars
<1>3. DesignInv => DesignExact
  <2> SUFFICES ASSUME DesignInv, part = "design" PROVE ConnectionsExact
    BY DEF DesignExact
  <2>1. DesignOk(design)
    BY DEF DesignInv
  <2> QED
    BY <2>1, ExactWhenBuilt, ConnectionsExactIs
<1> QED
  BY <1>1, <1>2, <1>3, PTL DEF Spec
=============================================================================
