--------------------------- MODULE RuleEditProofs ---------------------------
(***************************************************************************)
(* Proofs about RuleEdit: the file stays a sequence of lines (EditTypes),  *)
(* and a request never touches the rules of a package it does not name     *)
(* (EditOthersKept).                                                       *)
(*                                                                         *)
(* Every edit is a Replace: some lines of the old file are replaced, each  *)
(* by a few others.  The proof runs the loader over both files at once,    *)
(* line of the old file by line, and keeps a relation between the two      *)
(* (WatchReplace).  It is Near wherever no edit is under way: both readers *)
(* are in a block or both are not, in the same one or both in one of the   *)
(* packages named, and they have the same rules of all other packages.     *)
(* Watch adds to the reader what the edits depend on: stray, a brace that  *)
(* opens nothing, the first line of a package and its comment, sing and    *)
(* shut, the thread rules outside a block.                                 *)
(*                                                                         *)
(*   1  runs of the loader, the scan and Replace; types                    *)
(*   2  what the scan finds is what the loader reads (ScanAgrees, LocsAre, *)
(*      BlockFound, HeadFound, WatchesAll)                                 *)
(*   3  one line of the edit at a time (KeepLine, LocalEdit), and the      *)
(*      requests made of it: NormalizeSound, UpsertKept, DeleteKept,       *)
(*      CloneKept, RenameKept, DeletePkgKept                               *)
(***************************************************************************)
EXTENDS RuleEdit, WellFoundedInduction, TLAPS

-----------------------------------------------------------------------------
(* Numbers.                                                                *)

LEMMA NatMin ==
  ASSUME NEW S \in SUBSET Nat, S # {}
  PROVE  \E n \in S : \A m \in S : n <= m
<1> DEFINE R == {ss \in Nat \X Nat : ss[1] < ss[2]}
<1>1. IsWellFoundedOn(R, Nat)
  BY NatLessThanWellFounded DEF OpToRel
<1>2. ASSUME NEW m \in Nat, NEW n \in Nat, m < n PROVE <<m, n>> \in R
  <2>1. <<m, n>>[1] = m /\ <<m, n>>[2] = n /\ <<m, n>> \in Nat \X Nat
    OBVIOUS
  <2> QED BY <1>2, <2>1
<1> HIDE DEF R
<1>3. PICK n \in S : \A m \in S : ~(<<m, n>> \in R)
  BY <1>1, WFMin
<1>4. ASSUME NEW m \in S PROVE n <= m
  <2>1. n \in Nat /\ m \in Nat
    OBVIOUS
  <2>2. ~(<<m, n>> \in R)
    BY <1>3
  <2>3. ~(m < n)
    BY <2>1, <2>2, <1>2
  <2> QED BY <2>1, <2>3
<1> QED BY <1>4

(* Induction over a set of numbers.                                        *)
LEMMA NatSet ==
  ASSUME NEW P \in SUBSET Nat, 0 \in P, \A k \in P : k + 1 \in P
  PROVE  P = Nat
<1> SUFFICES ASSUME Nat \ P # {} PROVE FALSE
  OBVIOUS
<1> DEFINE S == Nat \ P
<1>1. PICK n \in S : \A m \in S : n <= m
  <2>1. S \in SUBSET Nat /\ S # {}
    OBVIOUS
  <2> HIDE DEF S
  <2> QED
    BY <2>1, NatMin
<1>2. n - 1 \in Nat /\ n - 1 \notin S
  BY <1>1
<1> QED
  BY <1>2

LEMMA MaxOf ==
  ASSUME NEW n \in Nat, NEW S \in SUBSET (0..n), S # {}
  PROVE  Max(S) \in S /\ \A m \in S : m <= Max(S)
<1> DEFINE T == {n - m : m \in S}
<1>1. T \in SUBSET Nat /\ T # {}
  <2>1. \A m \in S : n - m \in Nat
    OBVIOUS
  <2>2. T \in SUBSET Nat
    BY <2>1
  <2>3. T # {}
    BY Zenon
  <2> QED
    BY <2>2, <2>3
<1>2. PICK k \in T : \A m \in T : k <= m
  BY <1>1, NatMin
<1>3. PICK x \in S : k = n - x
  OBVIOUS
<1>4. \A y \in S : x >= y
  <2> SUFFICES ASSUME NEW y \in S PROVE x >= y
    OBVIOUS
  <2>1. n - y \in T /\ x \in Int /\ y \in Int
    OBVIOUS
  <2> HIDE DEF T
  <2> QED
    BY <1>2, <1>3, <2>1
<1>5. Max(S) \in S /\ \A y \in S : Max(S) >= y
  BY <1>4 DEF Max
<1> HIDE DEF T
<1>6. PICK z : z = Max(S)
  OBVIOUS
<1>7. z \in S /\ \A y \in S : z >= y
  BY <1>5, <1>6
<1>8. ASSUME NEW y \in S PROVE y <= z
  <2>1. y \in Int /\ z \in Int /\ z >= y
    BY <1>7
  <2> QED
    BY <2>1
<1> QED
  BY <1>6, <1>7, <1>8

-----------------------------------------------------------------------------
(* The recursive functions of the model have the values they are given.    *)

LEMMA ReadRun ==
  ASSUME NEW f, Len(f) \in Nat, NEW s
  PROVE  /\ ReadFrom(s, f)[0] = s
         /\ \A i \in 1..Len(f) : ReadFrom(s, f)[i] = ReadLine(ReadFrom(s, f)[i - 1], f[i])
<1> DEFINE F(n, h) == [i \in 0..n |-> IF i = 0 THEN s ELSE ReadLine(h[i - 1], f[i])]
           P == {n \in Nat : \E h : h = F(n, h)}
           r == CHOOSE h : h = F(Len(f), h)
<1>1. ReadFrom(s, f) = r
  BY DEF ReadFrom
<1>2. P = Nat
  <2>1. 0 \in P
    <3> DEFINE h == [i \in 0..0 |-> s]
    <3>1. h = F(0, h)
      OBVIOUS
    <3> QED
      BY <3>1
  <2>2. ASSUME NEW n \in Nat, NEW h, h = F(n, h)
        PROVE  \E g : g = F(n + 1, g)
    <3>1. \A i \in 0..n : h[i] = IF i = 0 THEN s ELSE ReadLine(h[i - 1], f[i])
      BY <2>2
    <3> DEFINE g == [i \in 0..n + 1 |-> IF i = n + 1 THEN ReadLine(h[n], f[n + 1]) ELSE h[i]]
               G == F(n + 1, g)
    <3>2. DOMAIN g = 0..n + 1 /\ g[n + 1] = ReadLine(h[n], f[n + 1])
          /\ \A i \in 0..n : g[i] = h[i]
      OBVIOUS
    <3>3. g = [i \in 0..n + 1 |-> g[i]]
      OBVIOUS
    <3>4. ASSUME NEW i \in 0..n + 1
          PROVE  g[i] = IF i = 0 THEN s ELSE ReadLine(g[i - 1], f[i])
      <4> HIDE DEF g, F
      <4>1. CASE i = n + 1
        BY <3>2, <4>1
      <4>2. CASE i \in 0..n /\ i # 0
        BY <3>1, <3>2, <4>2
      <4>3. CASE i = 0
        BY <3>1, <3>2, <4>3
      <4> QED
        BY <4>1, <4>2, <4>3
    <3>5. g = G
      <4> HIDE DEF g
      <4> QED
        BY <3>3, <3>4, Zenon
    <3> QED
      BY <3>5
  <2>3. ASSUME NEW n \in P PROVE n + 1 \in P
    <3>1. n \in Nat /\ \E h : h = F(n, h)
      OBVIOUS
    <3> HIDE DEF F
    <3> QED
      BY <2>2, <3>1
  <2> QED
    BY <2>1, <2>3, NatSet
<1>3. r = F(Len(f), r)
  BY <1>2
<1> HIDE DEF r
<1> QED
  BY <1>1, <1>3

LEMMA ScanRun ==
  ASSUME NEW f, Len(f) \in Nat, NEW pkg
  PROVE  /\ ScanTo(f, pkg)[0] = ScanStart
         /\ \A i \in 1..Len(f) : ScanTo(f, pkg)[i] = ScanLine(f, ScanTo(f, pkg)[i - 1], i, pkg)
<1> DEFINE F(n, h) == [i \in 0..n |-> IF i = 0 THEN ScanStart ELSE ScanLine(f, h[i - 1], i, pkg)]
           P == {n \in Nat : \E h : h = F(n, h)}
           r == CHOOSE h : h = F(Len(f), h)
<1>1. ScanTo(f, pkg) = r
  BY DEF ScanTo
<1>2. P = Nat
  <2>1. 0 \in P
    <3> DEFINE h == [i \in 0..0 |-> ScanStart]
    <3>1. h = F(0, h)
      OBVIOUS
    <3> QED
      BY <3>1
  <2>2. ASSUME NEW n \in Nat, NEW h, h = F(n, h)
        PROVE  \E g : g = F(n + 1, g)
    <3>1. \A i \in 0..n : h[i] = IF i = 0 THEN ScanStart ELSE ScanLine(f, h[i - 1], i, pkg)
      BY <2>2
    <3> DEFINE g == [i \in 0..n + 1 |-> IF i = n + 1 THEN ScanLine(f, h[n], n + 1, pkg) ELSE h[i]]
               G == F(n + 1, g)
    <3>2. DOMAIN g = 0..n + 1 /\ g[n + 1] = ScanLine(f, h[n], n + 1, pkg)
          /\ \A i \in 0..n : g[i] = h[i]
      OBVIOUS
    <3>3. g = [i \in 0..n + 1 |-> g[i]]
      OBVIOUS
    <3>4. ASSUME NEW i \in 0..n + 1
          PROVE  g[i] = IF i = 0 THEN ScanStart ELSE ScanLine(f, g[i - 1], i, pkg)
      <4> HIDE DEF g, F
      <4>1. CASE i = n + 1
        BY <3>2, <4>1
      <4>2. CASE i \in 0..n /\ i # 0
        BY <3>1, <3>2, <4>2
      <4>3. CASE i = 0
        BY <3>1, <3>2, <4>3
      <4> QED
        BY <4>1, <4>2, <4>3
    <3>5. g = G
      <4> HIDE DEF g
      <4> QED
        BY <3>3, <3>4, Zenon
    <3> QED
      BY <3>5
  <2>3. ASSUME NEW n \in P PROVE n + 1 \in P
    <3>1. n \in Nat /\ \E h : h = F(n, h)
      OBVIOUS
    <3> HIDE DEF F
    <3> QED
      BY <2>2, <3>1
  <2> QED
    BY <2>1, <2>3, NatSet
<1>3. r = F(Len(f), r)
  BY <1>2
<1> HIDE DEF r
<1> QED
  BY <1>1, <1>3

None == <<>>
Plus(made, f, by, i) == made \o Instead(f, by, i)

LEMMA ReplaceRun ==
  ASSUME NEW f, Len(f) \in Nat, NEW by
  PROVE  /\ ReplaceTo(f, by)[0] = None
         /\ \A i \in 1..Len(f) : ReplaceTo(f, by)[i] = Plus(ReplaceTo(f, by)[i - 1], f, by, i)
<1> DEFINE K(m, i) == Plus(m, f, by, i)
           none == None
           F(n, h) == [i \in 0..n |-> IF i = 0 THEN none ELSE K(h[i - 1], i)]
           P == {n \in Nat : \E h : h = F(n, h)}
           r == CHOOSE h : h = F(Len(f), h)
<1>1. ReplaceTo(f, by) = r
  BY DEF ReplaceTo, Plus, None
<1> HIDE DEF K, none
<1>2. P = Nat
  <2>1. 0 \in P
    <3> DEFINE h == [i \in 0..0 |-> none]
    <3>1. h = F(0, h)
      OBVIOUS
    <3> QED
      BY <3>1
  <2>2. ASSUME NEW n \in Nat, NEW h, h = F(n, h)
        PROVE  \E g : g = F(n + 1, g)
    <3>1. \A i \in 0..n : h[i] = IF i = 0 THEN none ELSE K(h[i - 1], i)
      BY <2>2
    <3> DEFINE g == [i \in 0..n + 1 |-> IF i = n + 1 THEN K(h[n], n + 1) ELSE h[i]]
               G == F(n + 1, g)
    <3>2. DOMAIN g = 0..n + 1 /\ g[n + 1] = K(h[n], n + 1)
          /\ \A i \in 0..n : g[i] = h[i]
      OBVIOUS
    <3>3. g = [i \in 0..n + 1 |-> g[i]]
      OBVIOUS
    <3>4. ASSUME NEW i \in 0..n + 1
          PROVE  g[i] = IF i = 0 THEN none ELSE K(g[i - 1], i)
      <4> HIDE DEF g, F
      <4>1. CASE i = n + 1
        BY <3>2, <4>1
      <4>2. CASE i \in 0..n /\ i # 0
        BY <3>1, <3>2, <4>2
      <4>3. CASE i = 0
        BY <3>1, <3>2, <4>3
      <4> QED
        BY <4>1, <4>2, <4>3
    <3>5. g = G
      <4> HIDE DEF g
      <4> QED
        BY <3>3, <3>4, Zenon
    <3> QED
      BY <3>5
  <2>3. ASSUME NEW n \in P PROVE n + 1 \in P
    <3>1. n \in Nat /\ \E h : h = F(n, h)
      OBVIOUS
    <3> HIDE DEF F
    <3> QED
      BY <2>2, <3>1
  <2> QED
    BY <2>1, <2>3, NatSet
<1>3. r = F(Len(f), r)
  BY <1>2
<1> HIDE DEF r
<1>4. /\ r[0] = none
      /\ \A i \in 1..Len(f) : r[i] = K(r[i - 1], i)
  BY <1>3
<1> QED
  BY <1>1, <1>4 DEF K, none

LEMMA DeleteRun ==
  ASSUME NEW f, Len(f) \in Nat, NEW pkg
  PROVE  /\ DeleteRounds(f, pkg)[0] = f
         /\ \A i \in 1..Len(f) : DeleteRounds(f, pkg)[i] = DeleteRound(DeleteRounds(f, pkg)[i - 1], pkg)
<1> DEFINE F(n, h) == [i \in 0..n |-> IF i = 0 THEN f ELSE DeleteRound(h[i - 1], pkg)]
           P == {n \in Nat : \E h : h = F(n, h)}
           r == CHOOSE h : h = F(Len(f), h)
<1>1. DeleteRounds(f, pkg) = r
  BY DEF DeleteRounds
<1>2. P = Nat
  <2>1. 0 \in P
    <3> DEFINE h == [i \in 0..0 |-> f]
    <3>1. h = F(0, h)
      OBVIOUS
    <3> QED
      BY <3>1
  <2>2. ASSUME NEW n \in Nat, NEW h, h = F(n, h)
        PROVE  \E g : g = F(n + 1, g)
    <3>1. \A i \in 0..n : h[i] = IF i = 0 THEN f ELSE DeleteRound(h[i - 1], pkg)
      BY <2>2
    <3> DEFINE g == [i \in 0..n + 1 |-> IF i = n + 1 THEN DeleteRound(h[n], pkg) ELSE h[i]]
               G == F(n + 1, g)
    <3>2. DOMAIN g = 0..n + 1 /\ g[n + 1] = DeleteRound(h[n], pkg)
          /\ \A i \in 0..n : g[i] = h[i]
      OBVIOUS
    <3>3. g = [i \in 0..n + 1 |-> g[i]]
      OBVIOUS
    <3>4. ASSUME NEW i \in 0..n + 1
          PROVE  g[i] = IF i = 0 THEN f ELSE DeleteRound(g[i - 1], pkg)
      <4> HIDE DEF g, F
      <4>1. CASE i = n + 1
        BY <3>2, <4>1
      <4>2. CASE i \in 0..n /\ i # 0
        BY <3>1, <3>2, <4>2
      <4>3. CASE i = 0
        BY <3>1, <3>2, <4>3
      <4> QED
        BY <4>1, <4>2, <4>3
    <3>5. g = G
      <4> HIDE DEF g
      <4> QED
        BY <3>3, <3>4, Zenon
    <3> QED
      BY <3>5
  <2>3. ASSUME NEW n \in P PROVE n + 1 \in P
    <3>1. n \in Nat /\ \E h : h = F(n, h)
      OBVIOUS
    <3> HIDE DEF F
    <3> QED
      BY <2>2, <3>1
  <2> QED
    BY <2>1, <2>3, NatSet
<1>3. r = F(Len(f), r)
  BY <1>2
<1> HIDE DEF r
<1> QED
  BY <1>1, <1>3

LEMMA RenameRun ==
  ASSUME NEW f, Len(f) \in Nat, NEW old, NEW new
  PROVE  /\ RenameRounds(f, old, new)[0] = f
         /\ \A i \in 1..Len(f) : RenameRounds(f, old, new)[i] = Renamed(RenameRounds(f, old, new)[i - 1], old, new)
<1> DEFINE F(n, h) == [i \in 0..n |-> IF i = 0 THEN f ELSE Renamed(h[i - 1], old, new)]
           P == {n \in Nat : \E h : h = F(n, h)}
           r == CHOOSE h : h = F(Len(f), h)
<1>1. RenameRounds(f, old, new) = r
  BY DEF RenameRounds
<1>2. P = Nat
  <2>1. 0 \in P
    <3> DEFINE h == [i \in 0..0 |-> f]
    <3>1. h = F(0, h)
      OBVIOUS
    <3> QED
      BY <3>1
  <2>2. ASSUME NEW n \in Nat, NEW h, h = F(n, h)
        PROVE  \E g : g = F(n + 1, g)
    <3>1. \A i \in 0..n : h[i] = IF i = 0 THEN f ELSE Renamed(h[i - 1], old, new)
      BY <2>2
    <3> DEFINE g == [i \in 0..n + 1 |-> IF i = n + 1 THEN Renamed(h[n], old, new) ELSE h[i]]
               G == F(n + 1, g)
    <3>2. DOMAIN g = 0..n + 1 /\ g[n + 1] = Renamed(h[n], old, new)
          /\ \A i \in 0..n : g[i] = h[i]
      OBVIOUS
    <3>3. g = [i \in 0..n + 1 |-> g[i]]
      OBVIOUS
    <3>4. ASSUME NEW i \in 0..n + 1
          PROVE  g[i] = IF i = 0 THEN f ELSE Renamed(g[i - 1], old, new)
      <4> HIDE DEF g, F
      <4>1. CASE i = n + 1
        BY <3>2, <4>1
      <4>2. CASE i \in 0..n /\ i # 0
        BY <3>1, <3>2, <4>2
      <4>3. CASE i = 0
        BY <3>1, <3>2, <4>3
      <4> QED
        BY <4>1, <4>2, <4>3
    <3>5. g = G
      <4> HIDE DEF g
      <4> QED
        BY <3>3, <3>4, Zenon
    <3> QED
      BY <3>5
  <2>3. ASSUME NEW n \in P PROVE n + 1 \in P
    <3>1. n \in Nat /\ \E h : h = F(n, h)
      OBVIOUS
    <3> HIDE DEF F
    <3> QED
      BY <2>2, <3>1
  <2> QED
    BY <2>1, <2>3, NatSet
<1>3. r = F(Len(f), r)
  BY <1>2
<1> HIDE DEF r
<1> QED
  BY <1>1, <1>3

-----------------------------------------------------------------------------
(* Types.                                                                  *)

Fields ==
  [kind : {"rule", "single", "bare", "pend", "close", "blank"},
   name : Names \cup {NoName}, thread : Threads \cup {NoName},
   cpus : Specs, open : BOOLEAN, closed : BOOLEAN, note : BOOLEAN]

LEMMA LineFields ==
  ASSUME NEW l \in Lines
  PROVE  /\ l \in Fields
         /\ l.kind \in {"rule", "single", "pend"} => l.name \in Names
         /\ l.kind = "single" => l.thread \in Threads
         /\ InnerName(l) \in Names \cup {NoName}
         /\ HasSpec(l) => InnerName(l) \in Names
         /\ InnerCpus(l) \in Specs /\ OuterCpus(l) \in Specs
         /\ Ends(l) \in BOOLEAN /\ HasSpec(l) \in BOOLEAN
BY DEF Lines, Fields, Names, Specs, InnerName, InnerCpus, OuterCpus, Ends, HasSpec

LEMMA FieldsLine ==
  ASSUME NEW l \in Fields,
         l.kind \in {"rule", "single", "pend"} => l.name # NoName,
         l.kind = "single" => l.thread # NoName
  PROVE  l \in Lines
BY DEF Lines, Fields

LEMMA LineTypes ==
  /\ \A n \in Names, c \in Specs : RuleLine(n, c) \in Lines
  /\ \A n \in Names : BareOpen(n) \in Lines
  /\ CloseLine \in Lines /\ BlankLine \in Lines
  /\ \A l \in Lines, old \in Lines : WithComment(l, old) \in Lines
  /\ \A l \in Lines : AppendBrace(l) \in Lines
  /\ \A l \in Lines, c \in Specs : [l EXCEPT !.cpus = c] \in Lines
  /\ \A l \in Lines, n \in Names : [l EXCEPT !.name = n] \in Lines
  /\ \A l \in Lines, b \in BOOLEAN : [l EXCEPT !.open = b] \in Lines
  /\ \A l \in Lines, b \in BOOLEAN : [l EXCEPT !.closed = b] \in Lines
  /\ \A l \in Lines, b \in BOOLEAN : [l EXCEPT !.note = b] \in Lines
<1>1. NoName \notin Names
  BY NamesAssumption DEF Names
<1>2. {} \in Specs
  BY DEF Specs
<1>3. ASSUME NEW n \in Names, NEW c \in Specs PROVE RuleLine(n, c) \in Lines
  <2>1. RuleLine(n, c) \in Fields
    BY <1>2 DEF RuleLine, Text, Fields
  <2> QED
    BY <1>1, <2>1, FieldsLine DEF RuleLine, Text
<1>4. ASSUME NEW n \in Names PROVE BareOpen(n) \in Lines
  <2>1. BareOpen(n) \in Fields
    BY <1>2 DEF BareOpen, Text, Fields
  <2> QED
    BY <2>1, FieldsLine DEF BareOpen, Text
<1>5. CloseLine \in Lines /\ BlankLine \in Lines
  <2>1. CloseLine \in Fields /\ BlankLine \in Fields
    BY <1>2 DEF CloseLine, BlankLine, Text, Fields
  <2> QED
    BY <2>1, FieldsLine DEF CloseLine, BlankLine, Text
<1>6. ASSUME NEW l \in Lines
      PROVE  /\ \A old \in Lines : WithComment(l, old) \in Lines
             /\ \A c \in Specs : [l EXCEPT !.cpus = c] \in Lines
             /\ \A b \in BOOLEAN : [l EXCEPT !.open = b] \in Lines
             /\ \A n \in Names : [l EXCEPT !.name = n] \in Lines
             /\ \A b \in BOOLEAN : [l EXCEPT !.closed = b] \in Lines
             /\ \A b \in BOOLEAN : [l EXCEPT !.note = b] \in Lines
  <2>1. l \in Fields
    BY LineFields
  <2>2. ASSUME NEW old \in Lines PROVE WithComment(l, old) \in Lines
    <3>1. old.note \in BOOLEAN
      BY LineFields DEF Fields
    <3>2. WithComment(l, old) \in Fields
      BY <2>1, <3>1 DEF WithComment, Fields
    <3> QED
      BY <1>1, <2>1, <3>2, FieldsLine, LineFields, NamesAssumption DEF WithComment, Fields
  <2>3. ASSUME NEW c \in Specs PROVE [l EXCEPT !.cpus = c] \in Lines
    <3>1. [l EXCEPT !.cpus = c] \in Fields
      BY <2>1 DEF Fields
    <3> QED
      BY <1>1, <2>1, <3>1, FieldsLine, LineFields, NamesAssumption DEF Fields
  <2>4. ASSUME NEW b \in BOOLEAN PROVE [l EXCEPT !.open = b] \in Lines
    <3>1. [l EXCEPT !.open = b] \in Fields
      BY <2>1 DEF Fields
    <3> QED
      BY <1>1, <2>1, <3>1, FieldsLine, LineFields, NamesAssumption DEF Fields
  <2>5. ASSUME NEW n \in Names PROVE [l EXCEPT !.name = n] \in Lines
    <3>1. [l EXCEPT !.name = n] \in Fields
      BY <2>1 DEF Fields
    <3> QED
      BY <1>1, <2>1, <3>1, FieldsLine, LineFields, NamesAssumption DEF Fields
  <2>6. ASSUME NEW b \in BOOLEAN PROVE [l EXCEPT !.closed = b] \in Lines
    <3>1. [l EXCEPT !.closed = b] \in Fields
      BY <2>1 DEF Fields
    <3> QED
      BY <1>1, <2>1, <3>1, FieldsLine, LineFields, NamesAssumption DEF Fields
  <2>7. ASSUME NEW b \in BOOLEAN PROVE [l EXCEPT !.note = b] \in Lines
    <3>1. [l EXCEPT !.note = b] \in Fields
      BY <2>1 DEF Fields
    <3> QED
      BY <1>1, <2>1, <3>1, FieldsLine, LineFields, NamesAssumption DEF Fields
  <2> QED
    BY <2>2, <2>3, <2>4, <2>5, <2>6, <2>7
<1>7. ASSUME NEW l \in Lines PROVE AppendBrace(l) \in Lines
  BY <1>6 DEF AppendBrace
<1> QED
  BY <1>3, <1>4, <1>5, <1>6, <1>7

(* What the scan knows after some lines of f.                              *)
Locs(f) == [name : Names, at : DOMAIN f, single : BOOLEAN,
            closed : BOOLEAN, open : BOOLEAN]
Heads(f) == {Nowhere} \cup
  [kind : {"Standalone", "OpenInline", "BareOpen", "BarePending"}, at : DOMAIN f]
Scans(f) ==
  [block : BOOLEAN, target : BOOLEAN, pending : {0} \cup DOMAIN f, first : Heads(f),
   open : {0} \cup DOMAIN f, close : {0} \cup DOMAIN f, locs : SUBSET Locs(f)]

LEMMA LocTypes ==
  ASSUME NEW f \in Seq(Lines), NEW i \in DOMAIN f, HasSpec(f[i])
  PROVE  /\ Inner(f[i], i) \in Locs(f)
         /\ f[i].kind = "single" => Single(f[i], i) \in Locs(f)
<1>1. f[i] \in Lines
  OBVIOUS
<1>2. f[i] \in Fields /\ InnerName(f[i]) \in Names
  BY <1>1, LineFields
<1>3. f[i].kind = "single" => f[i].thread \in Names
  BY <1>1, LineFields DEF Names
<1> QED
  BY <1>2, <1>3 DEF Inner, Single, Locs, Fields

LEMMA ScanLineTypes ==
  ASSUME NEW f \in Seq(Lines), NEW pkg, NEW s \in Scans(f), NEW i \in DOMAIN f
  PROVE  ScanLine(f, s, i, pkg) \in Scans(f)
<1>1. f[i] \in Lines /\ Ends(f[i]) \in BOOLEAN /\ f[i].open \in BOOLEAN
  BY LineFields DEF Fields
<1>2. CASE s.block
  <2>1. (IF s.target /\ HasSpec(f[i]) THEN s.locs \cup {Inner(f[i], i)} ELSE s.locs)
           \in SUBSET Locs(f)
    BY LocTypes DEF Scans
  <2>2. ScanInner(s, f[i], i) \in Scans(f)
    <3> PICK L : L = IF s.target /\ HasSpec(f[i]) THEN s.locs \cup {Inner(f[i], i)} ELSE s.locs
      OBVIOUS
    <3> PICK c : c = IF s.target /\ Ends(f[i]) /\ s.close = 0 THEN i ELSE s.close
      OBVIOUS
    <3> PICK b : b = (s.target /\ ~Ends(f[i]))
      OBVIOUS
    <3> PICK e : e = ~Ends(f[i])
      OBVIOUS
    <3>1. L \in SUBSET Locs(f) /\ c \in {0} \cup DOMAIN f /\ b \in BOOLEAN /\ e \in BOOLEAN
      BY <1>1, <2>1 DEF Scans
    <3>2. ScanInner(s, f[i], i)
            = [s EXCEPT !.locs = L, !.close = c, !.target = b, !.block = e]
      BY DEF ScanInner
    <3> QED
      BY <3>1, <3>2 DEF Scans
  <2> QED
    BY <1>2, <2>2 DEF ScanLine
<1>3. CASE ~s.block
  <2> DEFINE owner == Opens(f[i], IF s.pending = 0 THEN NoName ELSE f[s.pending].name)
  <2>1. (IF f[i].kind = "single" /\ f[i].name = pkg THEN s.locs \cup {Single(f[i], i)} ELSE s.locs)
           \in SUBSET Locs(f)
    BY LocTypes DEF Scans, HasSpec
  <2>2. PkgLine(f[i], i, s.pending) \in Heads(f)
    BY DEF PkgLine, Heads, Scans
  <2>3. (owner = pkg) \in BOOLEAN /\ (owner # NoName) \in BOOLEAN
    OBVIOUS
  <2> HIDE DEF owner
  <2>4. (IF pkg \in {f[i].name, owner} /\ s.first = Nowhere THEN PkgLine(f[i], i, s.pending) ELSE s.first)
           \in Heads(f)
    BY <2>2 DEF Scans
  <2>5. ScanOuter(f, s, f[i], i, pkg) =
          [s EXCEPT
             !.locs = IF f[i].kind = "single" /\ f[i].name = pkg THEN s.locs \cup {Single(f[i], i)} ELSE s.locs,
             !.first = IF pkg \in {f[i].name, owner} /\ s.first = Nowhere THEN PkgLine(f[i], i, s.pending) ELSE s.first,
             !.open = IF owner = pkg /\ s.close = 0 THEN i ELSE s.open,
             !.target = s.target \/ owner = pkg,
             !.block = owner # NoName,
             !.pending = IF f[i].kind = "pend" THEN i ELSE 0]
    BY DEF ScanOuter, owner
  <2>6. ScanOuter(f, s, f[i], i, pkg) \in Scans(f)
    BY <2>1, <2>3, <2>4, <2>5 DEF Scans
  <2> QED
    BY <1>3, <2>6 DEF ScanLine
<1> QED
  BY <1>2, <1>3

LEMMA ScanTypes ==
  ASSUME NEW f \in Seq(Lines), NEW pkg
  PROVE  /\ \A i \in 0..Len(f) : ScanTo(f, pkg)[i] \in Scans(f)
         /\ Scan(f, pkg) \in Scans(f)
<1> DEFINE P == {i \in Nat : i \in 0..Len(f) => ScanTo(f, pkg)[i] \in Scans(f)}
<1>0. Len(f) \in Nat /\ DOMAIN f = 1..Len(f)
  OBVIOUS
<1>1. 0 \in P
  <2>1. ScanStart \in Scans(f)
    BY DEF ScanStart, Scans, Heads
  <2> QED
    BY <2>1, <1>0, ScanRun
<1>2. ASSUME NEW i \in P PROVE i + 1 \in P
  <2>1. CASE i + 1 \in 1..Len(f)
    <3>1. ScanTo(f, pkg)[i] \in Scans(f) /\ i + 1 \in DOMAIN f
      BY <2>1, <1>0
    <3>2. ScanTo(f, pkg)[i + 1] = ScanLine(f, ScanTo(f, pkg)[i], i + 1, pkg)
      BY <2>1, <1>0, ScanRun
    <3> QED
      BY <3>1, <3>2, ScanLineTypes
  <2> QED
    BY <2>1, <1>0
<1>3. P = Nat
  BY <1>1, <1>2, NatSet
<1> QED
  BY <1>0, <1>3 DEF Scan

LEMMA ReplaceInto ==
  ASSUME NEW f, Len(f) \in Nat, NEW by, NEW L,
         \A i \in 1..Len(f) : Instead(f, by, i) \in Seq(L)
  PROVE  \A i \in 0..Len(f) : ReplaceTo(f, by)[i] \in Seq(L)
<1> DEFINE P == {i \in Nat : i \in 0..Len(f) => ReplaceTo(f, by)[i] \in Seq(L)}
<1>2. 0 \in P
  <2>1. ReplaceTo(f, by)[0] = None /\ None \in Seq(L)
    BY ReplaceRun DEF None
  <2> QED
    BY <2>1
<1>3. ASSUME NEW i \in P PROVE i + 1 \in P
  <2>1. CASE i + 1 \in 1..Len(f)
    <3>1. ReplaceTo(f, by)[i] \in Seq(L) /\ Instead(f, by, i + 1) \in Seq(L)
      BY <2>1
    <3>2. ReplaceTo(f, by)[i + 1] = Plus(ReplaceTo(f, by)[i], f, by, i + 1)
      BY <2>1, ReplaceRun
    <3>3. Plus(ReplaceTo(f, by)[i], f, by, i + 1) \in Seq(L)
      BY <3>1 DEF Plus
    <3> QED
      BY <3>2, <3>3
  <2> QED
    BY <2>1
<1>4. P = Nat
  BY <1>2, <1>3, NatSet
<1> QED
  BY <1>4

LEMMA ReplaceTypes ==
  ASSUME NEW f \in Seq(Lines), NEW by,
         \A i \in DOMAIN f \cap DOMAIN by : by[i] \in Seq(Lines)
  PROVE  /\ \A i \in 0..Len(f) : ReplaceTo(f, by)[i] \in Seq(Lines)
         /\ Replace(f, by) \in Seq(Lines)
         /\ \A i \in DOMAIN f : Instead(f, by, i) \in Seq(Lines)
<1>0. Len(f) \in Nat /\ DOMAIN f = 1..Len(f)
  OBVIOUS
<1>1. \A i \in DOMAIN f : Instead(f, by, i) \in Seq(Lines)
  BY DEF Instead
<1>2. \A i \in 0..Len(f) : ReplaceTo(f, by)[i] \in Seq(Lines)
  BY <1>0, <1>1, ReplaceInto
<1> QED
  BY <1>0, <1>1, <1>2 DEF Replace

LEMMA LocAtTypes ==
  ASSUME NEW f, NEW locs \in SUBSET Locs(f), NEW i \in Ats(locs)
  PROVE  LocAt(locs, i) \in locs /\ LocAt(locs, i).at = i /\ i \in DOMAIN f
BY DEF Ats, LocAt, Locs

LEMMA RemovedTypes ==
  ASSUME NEW f \in Seq(Lines), NEW pkg \in Names, NEW locs \in SUBSET Locs(f)
  PROVE  /\ \A i \in Ats(locs) : Removed(f, pkg, locs)[i] \in Seq(Lines)
         /\ DOMAIN Removed(f, pkg, locs) = Ats(locs)
         /\ RemoveLocs(f, pkg, locs) \in Seq(Lines)
<1>1. ASSUME NEW i \in Ats(locs) PROVE Removed(f, pkg, locs)[i] \in Seq(Lines)
  <2>1. LocAt(locs, i) \in Locs(f) /\ f[i] \in Lines
    BY LocAtTypes
  <2>2. LineRemove(pkg, f[i], LocAt(locs, i)) \in Seq(Lines)
    <3> DEFINE l == f[i]
               loc == LocAt(locs, i)
    <3>1. WithComment(BareOpen(pkg), l) \in Lines /\ WithComment(CloseLine, l) \in Lines
      BY <2>1, LineTypes
    <3>2. loc.open \in BOOLEAN /\ loc.closed \in BOOLEAN
      BY <2>1 DEF Locs
    <3> HIDE DEF l, loc
    <3>3. LineRemove(pkg, l, loc) \in Seq(Lines)
      BY <3>1, <3>2 DEF LineRemove
    <3> QED
      BY <3>3 DEF l, loc
  <2> QED
    BY <2>2 DEF Removed
<1>2. DOMAIN Removed(f, pkg, locs) = Ats(locs)
  BY DEF Removed
<1> QED
  BY <1>1, <1>2, ReplaceTypes DEF RemoveLocs

(* A list of lines made of those of a package, one for each.              *)
LEMMA ListIn ==
  ASSUME NEW f, Len(f) \in Nat, DOMAIN f = 1..Len(f), NEW at, NEW item, NEW L,
         \A i \in at : item[i] \in L
  PROVE  Replace(f, [i \in DOMAIN f |-> IF i \in at THEN <<item[i]>> ELSE <<>>]) \in Seq(L)
<1> DEFINE by == [i \in DOMAIN f |-> IF i \in at THEN <<item[i]>> ELSE <<>>]
<1>1. \A i \in DOMAIN f : by[i] \in Seq(L)
  <2> SUFFICES ASSUME NEW i \in DOMAIN f PROVE by[i] \in Seq(L)
    OBVIOUS
  <2>1. CASE i \in at
    <3>1. item[i] \in L /\ by[i] = <<item[i]>>
      BY <2>1
    <3> QED
      BY <3>1
  <2>2. CASE i \notin at
    BY <2>2
  <2> QED
    BY <2>1, <2>2
<1>2. Replace(f, by) = ReplaceTo(f, by)[Len(f)] /\ DOMAIN by = DOMAIN f
  BY DEF Replace
<1> HIDE DEF by
<1>3. \A i \in 1..Len(f) : Instead(f, by, i) \in Seq(L)
  BY <1>1, <1>2 DEF Instead
<1>4. \A i \in 0..Len(f) : ReplaceTo(f, by)[i] \in Seq(L)
  BY <1>3, ReplaceInto
<1>5. Replace(f, by) \in Seq(L)
  BY <1>2, <1>4
<1> QED
  BY <1>5 DEF by

LEMMA MovedIn ==
  ASSUME NEW f \in Seq(Lines), NEW locs, NEW L,
         \A i \in Ats(locs) : MovedItem(f[i], LocAt(locs, i)) \in L
  PROVE  MovedLines(f, locs) \in Seq(L)
<1> DEFINE item == [i \in Ats(locs) |-> MovedItem(f[i], LocAt(locs, i))]
<1>0. Len(f) \in Nat /\ DOMAIN f = 1..Len(f)
  OBVIOUS
<1>1. \A i \in Ats(locs) : item[i] \in L
  OBVIOUS
<1>2. MovedLines(f, locs) =
        Replace(f, [i \in DOMAIN f |-> IF i \in Ats(locs) THEN <<item[i]>> ELSE <<>>])
  <2>1. [i \in DOMAIN f |-> IF i \in Ats(locs) THEN <<item[i]>> ELSE <<>>] =
          [i \in DOMAIN f |->
             IF i \in Ats(locs) THEN <<MovedItem(f[i], LocAt(locs, i))>> ELSE <<>>]
    OBVIOUS
  <2> QED
    BY <2>1 DEF MovedLines
<1> HIDE DEF item
<1>3. Replace(f, [i \in DOMAIN f |-> IF i \in Ats(locs) THEN <<item[i]>> ELSE <<>>]) \in Seq(L)
  <2> DEFINE at == Ats(locs)
  <2>1. \A i \in at : item[i] \in L
    BY <1>1
  <2> HIDE DEF at
  <2>2. Replace(f, [i \in DOMAIN f |-> IF i \in at THEN <<item[i]>> ELSE <<>>]) \in Seq(L)
    BY <1>0, <2>1, ListIn
  <2> QED
    BY <2>2 DEF at
<1> QED
  BY <1>2, <1>3

LEMMA CopiedIn ==
  ASSUME NEW f \in Seq(Lines), NEW locs, NEW L,
         \A i \in Ats(locs) : CopiedItem(f[i], LocAt(locs, i)) \in L
  PROVE  CopiedLines(f, locs) \in Seq(L)
<1> DEFINE item == [i \in Ats(locs) |-> CopiedItem(f[i], LocAt(locs, i))]
<1>0. Len(f) \in Nat /\ DOMAIN f = 1..Len(f)
  OBVIOUS
<1>1. \A i \in Ats(locs) : item[i] \in L
  OBVIOUS
<1>2. CopiedLines(f, locs) =
        Replace(f, [i \in DOMAIN f |-> IF i \in Ats(locs) THEN <<item[i]>> ELSE <<>>])
  <2>1. [i \in DOMAIN f |-> IF i \in Ats(locs) THEN <<item[i]>> ELSE <<>>] =
          [i \in DOMAIN f |->
             IF i \in Ats(locs) THEN <<CopiedItem(f[i], LocAt(locs, i))>> ELSE <<>>]
    OBVIOUS
  <2> QED
    BY <2>1 DEF CopiedLines
<1> HIDE DEF item
<1>3. Replace(f, [i \in DOMAIN f |-> IF i \in Ats(locs) THEN <<item[i]>> ELSE <<>>]) \in Seq(L)
  <2> DEFINE at == Ats(locs)
  <2>1. \A i \in at : item[i] \in L
    BY <1>1
  <2> HIDE DEF at
  <2>2. Replace(f, [i \in DOMAIN f |-> IF i \in at THEN <<item[i]>> ELSE <<>>]) \in Seq(L)
    BY <1>0, <2>1, ListIn
  <2> QED
    BY <2>2 DEF at
<1> QED
  BY <1>2, <1>3

LEMMA ItemTypes ==
  ASSUME NEW l \in Lines, NEW loc, loc.name \in Names
  PROVE  MovedItem(l, loc) \in Lines /\ CopiedItem(l, loc) \in Lines
<1>1. l.cpus \in Specs /\ l.closed \in BOOLEAN /\ l.open \in BOOLEAN
  BY LineFields DEF Fields
<1>2. ThreadLine(l, loc) \in Lines
  BY <1>1, LineTypes DEF ThreadLine
<1>3. InnerItem(l) \in Lines
  <2> DEFINE b == l.open /\ ~l.closed
             l1 == [l EXCEPT !.open = b]
             l2 == [l1 EXCEPT !.closed = FALSE]
             l3 == [l2 EXCEPT !.note = FALSE]
  <2>1. b \in BOOLEAN
    BY <1>1
  <2>2. InnerItem(l) = l3
    BY DEF InnerItem
  <2> HIDE DEF b
  <2>3. l1 \in Lines
    BY <2>1, LineTypes
  <2> HIDE DEF l1
  <2>4. l2 \in Lines
    BY <2>3, LineTypes
  <2> HIDE DEF l2
  <2>5. l3 \in Lines
    BY <2>4, LineTypes
  <2> QED
    BY <2>2, <2>5
<1> QED
  BY <1>2, <1>3, LineTypes DEF MovedItem, CopiedItem

LEMMA ListTypes ==
  ASSUME NEW f \in Seq(Lines), NEW locs \in SUBSET Locs(f)
  PROVE  MovedLines(f, locs) \in Seq(Lines) /\ CopiedLines(f, locs) \in Seq(Lines)
<1>1. \A i \in Ats(locs) : f[i] \in Lines /\ LocAt(locs, i).name \in Names
  BY LocAtTypes DEF Locs
<1> QED
  BY <1>1, ItemTypes, MovedIn, CopiedIn

(* Lines that are rules and end no block, wherever they stand in one.      *)
Plain(l) == HasSpec(l) /\ ~l.closed
Rulings == {l \in Lines : Plain(l)}

LEMMA ReplaceOneTypes ==
  ASSUME NEW f \in Seq(Lines), NEW at, NEW lines \in Seq(Lines)
  PROVE  /\ ReplaceOne(f, at, lines) \in Seq(Lines)
         /\ at \in DOMAIN f => InsertAll(f, at, lines) \in Seq(Lines)
<1>1. ASSUME NEW by \in Seq(Lines) PROVE ReplaceOne(f, at, by) \in Seq(Lines)
  <2> DEFINE b == [i \in {at} |-> by]
  <2>1. \A i \in DOMAIN f \cap DOMAIN b : b[i] \in Seq(Lines)
    OBVIOUS
  <2>2. ReplaceOne(f, at, by) = Replace(f, b)
    BY DEF ReplaceOne
  <2> HIDE DEF b
  <2> QED
    BY <2>1, <2>2, ReplaceTypes
<1>2. at \in DOMAIN f => lines \o <<f[at]>> \in Seq(Lines)
  OBVIOUS
<1> QED
  BY <1>1, <1>2 DEF InsertAll

LEMMA WithoutTypes ==
  ASSUME NEW f \in Seq(Lines), NEW at
  PROVE  Without(f, at) \in Seq(Lines)
<1> DEFINE b == [i \in at |-> <<>>]
<1>1. \A i \in DOMAIN f \cap DOMAIN b : b[i] \in Seq(Lines)
  OBVIOUS
<1>2. Without(f, at) = Replace(f, b)
  BY DEF Without
<1> HIDE DEF b
<1> QED
  BY <1>1, <1>2, ReplaceTypes

LEMMA MoveIntoTypes ==
  ASSUME NEW f \in Seq(Lines), NEW pkg \in Names, NEW singles \in SUBSET Locs(f),
         NEW items \in Seq(Lines)
  PROVE  MoveInto(f, pkg, singles, items) \in Seq(Lines)
<1> DEFINE g == RemoveLocs(f, pkg, singles)
           t == Scan(g, pkg)
           left == Removed(f, pkg, singles)
           m == Min(Ats(singles))
           block == <<BareOpen(pkg)>> \o items \o <<CloseLine>>
           by == [left EXCEPT ![m] = block \o @]
<1>1. g \in Seq(Lines) /\ DOMAIN left = Ats(singles) /\ \A i \in DOMAIN left : left[i] \in Seq(Lines)
  BY RemovedTypes
<1> HIDE DEF left
<1>2. t \in Scans(g)
  BY <1>1, ScanTypes
<1> HIDE DEF g
<1>3. CloseLine \in Lines /\ BareOpen(pkg) \in Lines
  BY LineTypes
<1>4. t.close # 0 => InsertAll(g, t.close, items) \in Seq(Lines)
  BY <1>1, <1>2, ReplaceOneTypes DEF Scans
<1>5. t.first.kind = "Standalone" =>
        ReplaceOne(g, t.first.at, <<AppendBrace(g[t.first.at])>> \o items \o <<CloseLine>>) \in Seq(Lines)
  <2>1. t.first.kind = "Standalone" => t.first.at \in DOMAIN g
    BY <1>2 DEF Scans, Heads, Nowhere
  <2>2. t.first.kind = "Standalone" => AppendBrace(g[t.first.at]) \in Lines
    <3> HIDE DEF t
    <3> QED
      BY <2>1, <1>1, LineTypes
  <2>3. t.first.kind = "Standalone" =>
           <<AppendBrace(g[t.first.at])>> \o items \o <<CloseLine>> \in Seq(Lines)
    <3> HIDE DEF t
    <3> QED
      BY <2>2, <1>3
  <2> HIDE DEF t
  <2> QED
    BY <2>3, <1>1, ReplaceOneTypes
<1>6. block \in Seq(Lines)
  BY <1>3
<1> HIDE DEF block
<1>7. Replace(f, by) \in Seq(Lines)
  <2>1. ASSUME NEW i \in DOMAIN by PROVE by[i] \in Seq(Lines)
    <3>1. left[i] \in Seq(Lines) /\ by[i] \in {left[i], block \o left[i]}
      BY <1>1
    <3> QED
      BY <3>1, <1>6
  <2> HIDE DEF by
  <2> QED
    BY <2>1, ReplaceTypes
<1>8. MoveInto(f, pkg, singles, items) =
        CASE t.close # 0 -> InsertAll(g, t.close, items)
          [] t.close = 0 /\ t.first.kind = "Standalone" ->
               ReplaceOne(g, t.first.at, <<AppendBrace(g[t.first.at])>> \o items \o <<CloseLine>>)
          [] OTHER -> Replace(f, by)
  BY DEF MoveInto, g, left, block
<1> HIDE DEF t, by
<1>9. CASE t.close # 0
  BY <1>4, <1>8, <1>9
<1>10. CASE t.close = 0 /\ t.first.kind = "Standalone"
  BY <1>5, <1>8, <1>10
<1>11. CASE t.close = 0 /\ t.first.kind # "Standalone"
  BY <1>7, <1>8, <1>11
<1> QED
  BY <1>9, <1>10, <1>11

LEMMA SinglesTypes ==
  ASSUME NEW f \in Seq(Lines), NEW pkg
  PROVE  /\ Scan(f, pkg).locs \in SUBSET Locs(f)
         /\ Singles(Scan(f, pkg)) \in SUBSET Locs(f)
BY ScanTypes DEF Scans, Singles

LEMMA NormalizeTypes ==
  ASSUME NEW f \in Seq(Lines), NEW pkg \in Names
  PROVE  NormalizeSingles(f, pkg) \in Seq(Lines)
<1> DEFINE t == Scan(f, pkg)
           singles == Singles(t)
           items == MovedLines(f, singles)
<1>1. singles \in SUBSET Locs(f)
  BY SinglesTypes
<1>2. items \in Seq(Lines)
  <2> HIDE DEF singles
  <2> QED
    BY <1>1, ListTypes
<1>3. NormalizeSingles(f, pkg) \in {f, MoveInto(f, pkg, singles, items)}
  <2> HIDE DEF items
  <2> QED
    BY DEF NormalizeSingles, MoveSingles, items
<1> HIDE DEF singles, items
<1> QED
  BY <1>1, <1>2, <1>3, MoveIntoTypes

Fine(result) ==
  \/ result.answer = "ok" /\ result.file \in Seq(Lines)
  \/ result.answer # "ok"

LEMMA OkFine ==
  ASSUME NEW f \in Seq(Lines)
  PROVE  Fine(Ok(f))
BY DEF Fine, Ok

LEMMA RefusedFine ==
  \A answer \in {"malformed", "missing", "conflict"} : Fine(Refused(answer))
BY DEF Fine, Refused

(* Which of its outcomes a request has.                                    *)
SwapBy(g, i, cpus) == ReplaceOne(g, i, SpecSwap(g[i], cpus))
OpenBy(g, i, pkg, cpus) == ReplaceOne(g, i, Opened(g[i], pkg, cpus))
LoneBrace(g, i) == i # 0 /\ g[i].kind = "bare" /\ g[i].name = NoName
PairBy(g, t, pkg, cpus) ==
  [j \in {t.first.at} \cup (IF LoneBrace(g, t.open) THEN {t.open} ELSE {}) |->
     IF j = t.first.at THEN Opened(g[t.first.at], pkg, cpus) ELSE <<>>]
AddBy(g, pkg, cpus) == Append(g, RuleLine(pkg, cpus))

LEMMA UpsertPkgCases ==
  ASSUME NEW g, NEW t \in Scans(g), NEW pkg, NEW cpus
  PROVE  \/ /\ t.first.kind \in {"Standalone", "OpenInline"}
            /\ UpsertPkg(g, t, pkg, cpus) = Ok(SwapBy(g, t.first.at, cpus))
         \/ /\ t.first.kind = "BareOpen"
            /\ UpsertPkg(g, t, pkg, cpus) = Ok(OpenBy(g, t.first.at, pkg, cpus))
         \/ /\ t.first.kind = "BarePending"
            /\ UpsertPkg(g, t, pkg, cpus) = Ok(Replace(g, PairBy(g, t, pkg, cpus)))
         \/ /\ t.first = Nowhere /\ ~Unterminated(t)
            /\ UpsertPkg(g, t, pkg, cpus) = Ok(AddBy(g, pkg, cpus))
         \/ UpsertPkg(g, t, pkg, cpus) = Refused("malformed")
<1> DEFINE a == Ok(SwapBy(g, t.first.at, cpus))
           b == Ok(OpenBy(g, t.first.at, pkg, cpus))
           c == Ok(Replace(g, PairBy(g, t, pkg, cpus)))
           d == Ok(AddBy(g, pkg, cpus))
           e == Refused("malformed")
           k == t.first.kind
           unt == Unterminated(t)
<1>1. UpsertPkg(g, t, pkg, cpus) =
        CASE k \in {"Standalone", "OpenInline"} -> a
          [] k = "BareOpen" -> b
          [] k = "BarePending" -> c
          [] t.first = Nowhere /\ unt -> e
          [] OTHER -> d
  BY DEF UpsertPkg, SwapBy, OpenBy, LoneBrace, PairBy, AddBy
<1>2. k \in {"Standalone", "OpenInline", "BareOpen", "BarePending"} \/ t.first = Nowhere
  BY DEF Scans, Heads
<1>3. t.first = Nowhere => k = "none"
  BY DEF Nowhere
<1>4. unt \in BOOLEAN
  BY DEF Scans, Unterminated
<1> HIDE DEF a, b, c, d, e, k, unt
<1>5. \/ k \in {"Standalone", "OpenInline"} /\ UpsertPkg(g, t, pkg, cpus) = a
      \/ k = "BareOpen" /\ UpsertPkg(g, t, pkg, cpus) = b
      \/ k = "BarePending" /\ UpsertPkg(g, t, pkg, cpus) = c
      \/ t.first = Nowhere /\ ~unt /\ UpsertPkg(g, t, pkg, cpus) = d
      \/ UpsertPkg(g, t, pkg, cpus) = e
  BY <1>1, <1>2, <1>3, <1>4
<1> QED
  BY <1>5 DEF a, b, c, d, e, k, unt

(* The rules of a package for one of its threads.                          *)
LocsOf(t, thread) == {loc \in t.locs : loc.name = thread}
LastBy(g, pkg, locs, cpus) ==
  [Removed(g, pkg, locs) EXCEPT ![Max(Ats(locs))] = SpecSwap(g[Max(Ats(locs))], cpus)]
OpenThread(g, i, thread, cpus) ==
  ReplaceOne(g, i, <<AppendBrace(g[i]), RuleLine(thread, cpus), CloseLine>>)
AddThread(g, pkg, thread, cpus) ==
  g \o <<BareOpen(pkg), RuleLine(thread, cpus), CloseLine>>

LEMMA UpsertThreadCases ==
  ASSUME NEW g, NEW t \in Scans(g), NEW pkg, NEW thread, NEW cpus
  PROVE  \/ UpsertThread(g, t, pkg, thread, cpus) =
              Ok(Replace(g, LastBy(g, pkg, LocsOf(t, thread), cpus)))
         \/ /\ t.close # 0
            /\ UpsertThread(g, t, pkg, thread, cpus) =
                 Ok(InsertAll(g, t.close, <<RuleLine(thread, cpus)>>))
         \/ /\ t.close = 0 /\ t.first.kind = "Standalone"
            /\ UpsertThread(g, t, pkg, thread, cpus) = Ok(OpenThread(g, t.first.at, thread, cpus))
         \/ /\ ~Unterminated(t)
            /\ UpsertThread(g, t, pkg, thread, cpus) = Ok(AddThread(g, pkg, thread, cpus))
         \/ UpsertThread(g, t, pkg, thread, cpus) = Refused("malformed")
<1> DEFINE a == Ok(Replace(g, LastBy(g, pkg, LocsOf(t, thread), cpus)))
           b == Ok(InsertAll(g, t.close, <<RuleLine(thread, cpus)>>))
           c == Ok(OpenThread(g, t.first.at, thread, cpus))
           d == Ok(AddThread(g, pkg, thread, cpus))
           e == Refused("malformed")
           none == LocsOf(t, thread) = {}
           shut == t.close = 0
           alone == t.first.kind = "Standalone"
           unt == Unterminated(t)
<1>1. UpsertThread(g, t, pkg, thread, cpus) =
        CASE ~none -> a
          [] none /\ ~shut -> b
          [] none /\ shut /\ alone -> c
          [] none /\ shut /\ ~alone /\ unt -> e
          [] OTHER -> d
  BY DEF UpsertThread, LastBy, LocsOf, OpenThread, AddThread
<1>2. none \in BOOLEAN /\ shut \in BOOLEAN /\ alone \in BOOLEAN /\ unt \in BOOLEAN
  BY DEF Scans, Unterminated
<1> HIDE DEF a, b, c, d, e, none, shut, alone, unt
<1>3. \/ UpsertThread(g, t, pkg, thread, cpus) = a
      \/ ~shut /\ UpsertThread(g, t, pkg, thread, cpus) = b
      \/ shut /\ alone /\ UpsertThread(g, t, pkg, thread, cpus) = c
      \/ ~unt /\ UpsertThread(g, t, pkg, thread, cpus) = d
      \/ UpsertThread(g, t, pkg, thread, cpus) = e
  BY <1>1, <1>2
<1> QED
  BY <1>3 DEF a, b, c, d, e, shut, alone, unt

LEMMA UpsertTypes ==
  ASSUME NEW f \in Seq(Lines), NEW pkg \in Names, NEW thread \in Threads \cup {NoName},
         NEW cpus \in Specs
  PROVE  Fine(RuleUpsert(f, pkg, thread, cpus))
<1> DEFINE g == NormalizeSingles(f, pkg)
           t == Scan(g, pkg)
           i == t.first.at
<1>1. g \in Seq(Lines)
  BY NormalizeTypes
<1> HIDE DEF g
<1>2. t \in Scans(g)
  BY <1>1, ScanTypes
<1> HIDE DEF t
<1>3. t.first.kind # "none" => i \in DOMAIN g
  BY <1>2 DEF Scans, Heads, Nowhere
<1>4. t.close # 0 => t.close \in DOMAIN g
  BY <1>2 DEF Scans
<1>5. CloseLine \in Lines /\ BareOpen(pkg) \in Lines /\ RuleLine(pkg, cpus) \in Lines
      /\ [RuleLine(pkg, cpus) EXCEPT !.open = TRUE] \in Lines
  BY LineTypes
<1>6. ASSUME NEW j \in DOMAIN g
      PROVE  /\ SpecSwap(g[j], cpus) \in Seq(Lines)
             /\ Opened(g[j], pkg, cpus) \in Seq(Lines)
             /\ AppendBrace(g[j]) \in Lines
  <2>1. g[j] \in Lines
    BY <1>1
  <2>2. [g[j] EXCEPT !.cpus = cpus] \in Lines
    BY <2>1, LineTypes
  <2>3. WithComment([RuleLine(pkg, cpus) EXCEPT !.open = TRUE], g[j]) \in Lines
    BY <2>1, <1>5, LineTypes
  <2> QED
    BY <2>1, <2>2, <2>3, LineTypes DEF SpecSwap, Opened
<1>7. Fine(UpsertPkg(g, t, pkg, cpus))
  <2>1. i \in DOMAIN g => SwapBy(g, i, cpus) \in Seq(Lines)
    BY <1>1, <1>6, ReplaceOneTypes DEF SwapBy
  <2>2. i \in DOMAIN g => OpenBy(g, i, pkg, cpus) \in Seq(Lines)
    BY <1>1, <1>6, ReplaceOneTypes DEF OpenBy
  <2>3. i \in DOMAIN g => Replace(g, PairBy(g, t, pkg, cpus)) \in Seq(Lines)
    <3> DEFINE by == PairBy(g, t, pkg, cpus)
    <3>1. ASSUME i \in DOMAIN g, NEW j \in DOMAIN by PROVE by[j] \in Seq(Lines)
      <4>1. by[j] \in {Opened(g[i], pkg, cpus), <<>>}
        BY <3>1 DEF PairBy
      <4>2. Opened(g[i], pkg, cpus) \in Seq(Lines) /\ <<>> \in Seq(Lines)
        BY <3>1, <1>6
      <4> QED
        BY <4>1, <4>2
    <3> HIDE DEF by
    <3>2. i \in DOMAIN g => Replace(g, by) \in Seq(Lines)
      BY <3>1, <1>1, ReplaceTypes
    <3> QED
      BY <3>2 DEF by
  <2>4. AddBy(g, pkg, cpus) \in Seq(Lines)
    BY <1>1, <1>5 DEF AddBy
  <2>5. t.first.kind # "none" \/ UpsertPkg(g, t, pkg, cpus) \in {Ok(AddBy(g, pkg, cpus)), Refused("malformed")}
    BY <1>2, UpsertPkgCases
  <2> HIDE DEF i
  <2>6. CASE t.first.kind # "none"
    <3>1. UpsertPkg(g, t, pkg, cpus) \in
            {Ok(SwapBy(g, i, cpus)), Ok(OpenBy(g, i, pkg, cpus)),
             Ok(Replace(g, PairBy(g, t, pkg, cpus))), Ok(AddBy(g, pkg, cpus)), Refused("malformed")}
      BY <1>2, UpsertPkgCases DEF i
    <3> QED
      BY <3>1, <2>1, <2>2, <2>3, <2>4, <2>6, <1>3, OkFine, RefusedFine
  <2> QED
    BY <2>4, <2>5, <2>6, OkFine, RefusedFine
<1>8. thread # NoName => Fine(UpsertThread(g, t, pkg, thread, cpus))
  <2> SUFFICES ASSUME thread # NoName PROVE Fine(UpsertThread(g, t, pkg, thread, cpus))
    OBVIOUS
  <2> DEFINE locs == LocsOf(t, thread)
             final == Max(Ats(locs))
             by == LastBy(g, pkg, locs, cpus)
  <2>0. locs \in SUBSET Locs(g)
    BY <1>2 DEF Scans, LocsOf
  <2> HIDE DEF locs
  <2>1. Replace(g, by) \in Seq(Lines)
    <3>1. ASSUME NEW j \in DOMAIN by PROVE by[j] \in Seq(Lines)
      <4> DEFINE left == Removed(g, pkg, locs)
                 spec == SpecSwap(g[final], cpus)
      <4>0. DOMAIN left = Ats(locs) /\ \A k \in Ats(locs) : left[k] \in Seq(Lines)
        BY <1>1, <2>0, RemovedTypes
      <4>1. by = [left EXCEPT ![final] = spec]
        BY DEF LastBy
      <4> HIDE DEF left, spec, final, by
      <4>2. j \in Ats(locs)
        BY <4>0, <4>1, <3>1
      <4>3. j \in DOMAIN g
        BY <4>2, <2>0, LocAtTypes
      <4>4. CASE j = final
        <5>1. by[j] = spec
          BY <4>0, <4>1, <4>2, <4>4
        <5> QED
          BY <5>1, <4>3, <4>4, <1>6 DEF spec
      <4>5. CASE j # final
        <5>1. by[j] = left[j]
          BY <4>0, <4>1, <4>2, <4>5
        <5> QED
          BY <5>1, <4>0, <4>2
      <4> QED
        BY <4>4, <4>5
    <3> HIDE DEF by
    <3> QED
      BY <3>1, <1>1, ReplaceTypes
  <2>2. RuleLine(thread, cpus) \in Lines
    BY LineTypes DEF Names
  <2>3. t.close # 0 => InsertAll(g, t.close, <<RuleLine(thread, cpus)>>) \in Seq(Lines)
    <3>1. <<RuleLine(thread, cpus)>> \in Seq(Lines)
      BY <2>2
    <3> QED
      BY <3>1, <1>1, <1>4, ReplaceOneTypes
  <2>4. i \in DOMAIN g => OpenThread(g, i, thread, cpus) \in Seq(Lines)
    <3>1. i \in DOMAIN g =>
             <<AppendBrace(g[i]), RuleLine(thread, cpus), CloseLine>> \in Seq(Lines)
      BY <1>5, <1>6, <2>2
    <3> QED
      BY <3>1, <1>1, ReplaceOneTypes DEF OpenThread
  <2>5. AddThread(g, pkg, thread, cpus) \in Seq(Lines)
    BY <1>1, <1>5, <2>2 DEF AddThread
  <2>6. t.first.kind = "Standalone" => i \in DOMAIN g
    BY <1>3
  <2>7. \/ UpsertThread(g, t, pkg, thread, cpus) = Ok(Replace(g, by))
        \/ /\ t.close # 0
           /\ UpsertThread(g, t, pkg, thread, cpus) =
                 Ok(InsertAll(g, t.close, <<RuleLine(thread, cpus)>>))
        \/ /\ t.first.kind = "Standalone"
           /\ UpsertThread(g, t, pkg, thread, cpus) = Ok(OpenThread(g, i, thread, cpus))
        \/ UpsertThread(g, t, pkg, thread, cpus) = Ok(AddThread(g, pkg, thread, cpus))
        \/ UpsertThread(g, t, pkg, thread, cpus) = Refused("malformed")
    BY <1>2, UpsertThreadCases DEF locs
  <2> HIDE DEF by, i
  <2> QED
    BY <2>1, <2>3, <2>4, <2>5, <2>6, <2>7, OkFine, RefusedFine
<1> QED
  BY <1>7, <1>8 DEF RuleUpsert, g, t

LEMMA DeleteCases ==
  ASSUME NEW f, NEW pkg, NEW thread,
         NEW g, g = NormalizeSingles(f, pkg), NEW t, t = Scan(g, pkg)
  PROVE  \/ /\ t.first.kind = "Standalone"
            /\ RuleDelete(f, pkg, thread) = Ok(Without(g, {t.first.at}))
         \/ /\ t.first.kind = "OpenInline"
            /\ RuleDelete(f, pkg, thread) = Ok(ReplaceOne(g, t.first.at, <<BareOpen(pkg)>>))
         \/ RuleDelete(f, pkg, thread) = Ok(RemoveLocs(g, pkg, LocsOf(t, thread)))
         \/ RuleDelete(f, pkg, thread) = Refused("missing")
<1> DEFINE a == Ok(Without(g, {t.first.at}))
           b == Ok(ReplaceOne(g, t.first.at, <<BareOpen(pkg)>>))
           c == Ok(RemoveLocs(g, pkg, LocsOf(t, thread)))
           d == Refused("missing")
           k == t.first.kind
           own == thread = NoName
           none == LocsOf(t, thread) = {}
<1>1. RuleDelete(f, pkg, thread) =
        CASE own /\ k = "Standalone" -> a
          [] own /\ k = "OpenInline" -> b
          [] ~own /\ ~none -> c
          [] OTHER -> d
  BY DEF RuleDelete, LocsOf
<1>2. own \in BOOLEAN /\ none \in BOOLEAN
  OBVIOUS
<1> HIDE DEF a, b, c, d, k, own, none
<1>3. \/ k = "Standalone" /\ RuleDelete(f, pkg, thread) = a
      \/ k = "OpenInline" /\ RuleDelete(f, pkg, thread) = b
      \/ RuleDelete(f, pkg, thread) = c
      \/ RuleDelete(f, pkg, thread) = d
  BY <1>1, <1>2
<1> QED
  BY <1>3 DEF a, b, c, d, k

LEMMA DeleteTypes ==
  ASSUME NEW f \in Seq(Lines), NEW pkg \in Names, NEW thread
  PROVE  Fine(RuleDelete(f, pkg, thread))
<1> DEFINE g == NormalizeSingles(f, pkg)
           t == Scan(g, pkg)
<1>1. g \in Seq(Lines)
  BY NormalizeTypes
<1> HIDE DEF g
<1>2. t \in Scans(g)
  BY <1>1, ScanTypes
<1> HIDE DEF t
<1>3. LocsOf(t, thread) \in SUBSET Locs(g)
  BY <1>2 DEF Scans, LocsOf
<1>4. Without(g, {t.first.at}) \in Seq(Lines)
  BY <1>1, WithoutTypes
<1>5. ReplaceOne(g, t.first.at, <<BareOpen(pkg)>>) \in Seq(Lines)
  <2>1. <<BareOpen(pkg)>> \in Seq(Lines)
    BY LineTypes
  <2> QED
    BY <1>1, <2>1, ReplaceOneTypes
<1>6. RemoveLocs(g, pkg, LocsOf(t, thread)) \in Seq(Lines)
  BY <1>1, <1>3, RemovedTypes
<1>7. RuleDelete(f, pkg, thread) \in
        {Ok(Without(g, {t.first.at})), Ok(ReplaceOne(g, t.first.at, <<BareOpen(pkg)>>)),
         Ok(RemoveLocs(g, pkg, LocsOf(t, thread))), Refused("missing")}
  BY DeleteCases DEF g, t
<1> QED
  BY <1>4, <1>5, <1>6, <1>7, OkFine, RefusedFine

LEMMA RoundTypes ==
  ASSUME NEW f \in Seq(Lines), NEW pkg
  PROVE  /\ \A i \in 0..Len(f) : DeleteRounds(f, pkg)[i] \in Seq(Lines)
         /\ DeleteRounds(f, pkg)[Len(f)] \in Seq(Lines)
<1> DEFINE P == {i \in Nat : i \in 0..Len(f) => DeleteRounds(f, pkg)[i] \in Seq(Lines)}
<1>0. Len(f) \in Nat
  OBVIOUS
<1>1. 0 \in P
  <2>1. DeleteRounds(f, pkg)[0] = f
    BY <1>0, DeleteRun
  <2> QED
    BY <2>1
<1>2. ASSUME NEW i \in P PROVE i + 1 \in P
  <2>1. CASE i + 1 \in 1..Len(f)
    <3> DEFINE h == DeleteRounds(f, pkg)[i]
    <3>1. h \in Seq(Lines)
      BY <2>1, <1>0
    <3>2. DeleteRounds(f, pkg)[i + 1] = DeleteRound(h, pkg)
      BY <2>1, <1>0, DeleteRun
    <3> HIDE DEF h
    <3>3. DeleteRound(h, pkg) \in {h, Without(h, PkgLines(Scan(h, pkg)))}
      BY DEF DeleteRound
    <3> QED
      BY <3>1, <3>2, <3>3, WithoutTypes
  <2> QED
    BY <2>1, <1>0
<1>3. P = Nat
  BY <1>1, <1>2, NatSet
<1> QED
  BY <1>0, <1>3

LEMMA DeletePkgTypes ==
  ASSUME NEW f \in Seq(Lines), NEW pkg \in Names
  PROVE  Fine(RuleDeletePkg(f, pkg))
<1> DEFINE g == NormalizeSingles(f, pkg)
<1>1. g \in Seq(Lines)
  BY NormalizeTypes
<1>2. RuleDeletePkg(f, pkg) \in {Ok(DeleteRounds(g, pkg)[Len(g)]), Refused("missing")}
  BY DEF RuleDeletePkg
<1> HIDE DEF g
<1> QED
  BY <1>1, <1>2, RoundTypes, OkFine, RefusedFine

LEMMA RenamedTypes ==
  ASSUME NEW f \in Seq(Lines), NEW old, NEW new \in Names
  PROVE  Renamed(f, old, new) \in Seq(Lines)
<1> DEFINE by == [i \in NameLines(Scan(f, old)) |-> <<[f[i] EXCEPT !.name = new]>>]
<1>1. ASSUME NEW i \in DOMAIN f \cap DOMAIN by PROVE by[i] \in Seq(Lines)
  <2>1. f[i] \in Lines /\ by[i] = <<[f[i] EXCEPT !.name = new]>>
    OBVIOUS
  <2>2. [f[i] EXCEPT !.name = new] \in Lines
    BY <2>1, LineTypes
  <2> QED
    BY <2>1, <2>2
<1>2. Renamed(f, old, new) = Replace(f, by)
  BY DEF Renamed
<1> HIDE DEF by
<1> QED
  BY <1>1, <1>2, ReplaceTypes

LEMMA RenameTypes ==
  ASSUME NEW f \in Seq(Lines), NEW old \in Names, NEW new \in Names
  PROVE  Fine(RuleRename(f, old, new))
<1> DEFINE g == NormalizeSingles(f, old)
<1>1. g \in Seq(Lines)
  BY NormalizeTypes
<1>2. RuleRename(f, old, new) \in
        {Ok(RenameRounds(g, old, new)[Len(g)]), Refused("missing"), Refused("conflict")}
  BY DEF RuleRename
<1> HIDE DEF g
<1> DEFINE P == {i \in Nat : i \in 0..Len(g) => RenameRounds(g, old, new)[i] \in Seq(Lines)}
<1>3. Len(g) \in Nat
  BY <1>1
<1>4. 0 \in P
  <2>1. RenameRounds(g, old, new)[0] = g
    BY <1>3, RenameRun
  <2> QED
    BY <2>1, <1>1
<1>5. ASSUME NEW i \in P PROVE i + 1 \in P
  <2>1. CASE i + 1 \in 1..Len(g)
    <3> DEFINE h == RenameRounds(g, old, new)[i]
    <3>1. h \in Seq(Lines)
      BY <2>1, <1>3
    <3>2. RenameRounds(g, old, new)[i + 1] = Renamed(h, old, new)
      BY <2>1, <1>3, RenameRun
    <3> HIDE DEF h
    <3> QED
      BY <3>1, <3>2, RenamedTypes
  <2> QED
    BY <2>1, <1>3
<1>6. P = Nat
  BY <1>4, <1>5, NatSet
<1>7. RenameRounds(g, old, new)[Len(g)] \in Seq(Lines)
  BY <1>3, <1>6
<1> QED
  BY <1>2, <1>7, OkFine, RefusedFine

LEMMA AppendTypes ==
  ASSUME NEW f \in Seq(Lines), NEW head \in Lines, NEW threads \in Seq(Lines)
  PROVE  CloneAppend(f, head, threads) \in Seq(Lines)
<1> DEFINE g == IF f # <<>> /\ Last(f).kind # "blank" THEN Append(f, BlankLine) ELSE f
           opening == [head EXCEPT !.open = head.kind = "rule"]
           none == threads = <<>>
           bare == head.kind = "bare"
           rule == head.kind = "rule"
           a == Append(g, head)
           b == g \o <<opening>> \o threads \o <<CloseLine>>
<1>1. BlankLine \in Lines /\ CloseLine \in Lines
  BY LineTypes
<1>2. g \in Seq(Lines)
  <2>1. g \in {f, Append(f, BlankLine)}
    OBVIOUS
  <2> QED
    BY <1>1, <2>1
<1>3. (head.kind = "rule") \in BOOLEAN
  OBVIOUS
<1>4. opening \in Lines
  <2> DEFINE b0 == head.kind = "rule"
  <2>1. b0 \in BOOLEAN
    OBVIOUS
  <2> HIDE DEF b0
  <2>2. [head EXCEPT !.open = b0] \in Lines
    BY <2>1, LineTypes
  <2> QED
    BY <2>2 DEF b0
<1> HIDE DEF g, opening
<1>5. a \in Seq(Lines) /\ b \in Seq(Lines)
  BY <1>1, <1>2, <1>4
<1>6. CloneAppend(f, head, threads) =
        CASE none /\ bare -> g
          [] none /\ rule -> a
          [] OTHER -> b
  BY DEF CloneAppend, g, opening
<1> HIDE DEF a, b, none, bare, rule
<1>7. CloneAppend(f, head, threads) \in {g, a, b}
  BY <1>6
<1> QED
  BY <1>2, <1>5, <1>7

CloneHead(f, s, target, kinds) ==
  IF "pkg" \in kinds THEN CopiedHead(f[s.first.at], target) ELSE BareOpen(target)
CopiedThreads(f, s, kinds) ==
  IF "thr" \in kinds THEN CopiedLines(f, s.locs) ELSE <<>>

LEMMA CloneCases ==
  ASSUME NEW f, NEW s, NEW t, NEW target, NEW kinds
  PROVE  \/ /\ ~Unterminated(s)
            /\ "pkg" \in kinds => s.first.kind \in {"Standalone", "OpenInline"}
            /\ CloneInto(f, s, t, target, kinds) =
                 Ok(CloneAppend(f, CloneHead(f, s, target, kinds), CopiedThreads(f, s, kinds)))
         \/ CloneInto(f, s, t, target, kinds) \in
              {Refused("malformed"), Refused("conflict"), Refused("missing")}
<1> DEFINE a == Ok(CloneAppend(f, CloneHead(f, s, target, kinds), CopiedThreads(f, s, kinds)))
           b == Refused("malformed")
           c == Refused("conflict")
           d == Refused("missing")
           unt == Unterminated(s)
           any == AnyLine(t)
           nopkg == "pkg" \in kinds /\ ~(s.first.kind \in {"Standalone", "OpenInline"})
           nothr == "thr" \in kinds /\ CopiedLines(f, s.locs) = <<>>
<1>1. CloneInto(f, s, t, target, kinds) =
        CASE unt -> b
          [] ~unt /\ any -> c
          [] ~unt /\ ~any /\ (nopkg \/ nothr) -> d
          [] OTHER -> a
  BY DEF CloneInto, CloneHead, CopiedThreads
<1> HIDE DEF a, b, c, d, unt, any, nopkg, nothr
<1>2. \/ ~unt /\ ~nopkg /\ CloneInto(f, s, t, target, kinds) = a
      \/ CloneInto(f, s, t, target, kinds) = b
      \/ CloneInto(f, s, t, target, kinds) = c
      \/ CloneInto(f, s, t, target, kinds) = d
  BY <1>1
<1> QED
  BY <1>2 DEF a, b, c, d, unt, nopkg

LEMMA CopiedTypes ==
  ASSUME NEW f \in Seq(Lines), NEW s \in Scans(f), NEW target \in Names, NEW kinds,
         "pkg" \in kinds => s.first.kind \in {"Standalone", "OpenInline"}
  PROVE  /\ CloneHead(f, s, target, kinds) \in Lines
         /\ CopiedThreads(f, s, kinds) \in Seq(Lines)
<1>1. CloneHead(f, s, target, kinds) \in Lines
  <2>1. CASE "pkg" \in kinds
    <3>1. s.first.at \in DOMAIN f
      BY <2>1 DEF Scans, Heads, Nowhere
    <3>2. f[s.first.at] \in Lines
      BY <3>1
    <3>3. f[s.first.at].cpus \in Specs /\ f[s.first.at].closed \in BOOLEAN
      BY <3>2, LineFields DEF Fields
    <3>4. CopiedHead(f[s.first.at], target) \in Lines
      BY <3>3, LineTypes DEF CopiedHead
    <3> QED
      BY <2>1, <3>4 DEF CloneHead
  <2>2. CASE "pkg" \notin kinds
    BY <2>2, LineTypes DEF CloneHead
  <2> QED
    BY <2>1, <2>2
<1>2. CopiedThreads(f, s, kinds) \in Seq(Lines)
  <2>1. s.locs \in SUBSET Locs(f)
    BY DEF Scans
  <2>2. CopiedLines(f, s.locs) \in Seq(Lines)
    BY <2>1, ListTypes
  <2> QED
    BY <2>2 DEF CopiedThreads
<1> QED
  BY <1>1, <1>2

LEMMA CloneTypes ==
  ASSUME NEW f \in Seq(Lines), NEW source \in Names, NEW target \in Names, NEW kinds
  PROVE  Fine(RuleClone(f, source, target, kinds))
<1> DEFINE g == NormalizeSingles(NormalizeSingles(f, source), target)
           s == Scan(g, source)
           t == Scan(g, target)
<1>1. g \in Seq(Lines)
  BY NormalizeTypes
<1>2. RuleClone(f, source, target, kinds) = CloneInto(g, s, t, target, kinds)
  BY DEF RuleClone
<1> HIDE DEF g
<1>3. s \in Scans(g)
  BY <1>1, ScanTypes
<1> HIDE DEF s, t
<1>4. CASE /\ "pkg" \in kinds => s.first.kind \in {"Standalone", "OpenInline"}
           /\ CloneInto(g, s, t, target, kinds) =
                Ok(CloneAppend(g, CloneHead(g, s, target, kinds), CopiedThreads(g, s, kinds)))
  <2>1. CloneHead(g, s, target, kinds) \in Lines /\ CopiedThreads(g, s, kinds) \in Seq(Lines)
    BY <1>1, <1>3, <1>4, CopiedTypes
  <2>2. CloneAppend(g, CloneHead(g, s, target, kinds), CopiedThreads(g, s, kinds)) \in Seq(Lines)
    BY <1>1, <2>1, AppendTypes
  <2> QED
    BY <1>2, <1>4, <2>2, OkFine
<1>5. CASE CloneInto(g, s, t, target, kinds) \in
              {Refused("malformed"), Refused("conflict"), Refused("missing")}
  BY <1>2, <1>5, RefusedFine
<1> QED
  BY <1>4, <1>5, CloneCases

(* Whatever the file is and whatever is asked, the file stays a sequence   *)
(* of lines that the loader can be given.                                  *)
THEOREM EditTypes == Spec => []TypeOK
<1>1. Init => TypeOK
  BY FilesAssumption, EditsAssumption DEF Init, TypeOK
<1>2. TypeOK /\ [Next]_vars => TypeOK'
  <2> SUFFICES ASSUME TypeOK, [Next]_vars PROVE TypeOK'
    OBVIOUS
  <2>0. file \in Seq(Lines)
    BY DEF TypeOK
  <2>1. ASSUME NEW req, NEW result, Fine(result), Answer(req, result) PROVE TypeOK'
    BY <2>1, EditsAssumption DEF TypeOK, Answer, Fine
  <2>2. Pkgs \subseteq Names /\ NewSpecs \subseteq Specs
    BY SpecsAssumption DEF Names
  <2>3. CASE Next
    <3> PICK p \in Pkgs :
          \/ \E t \in Threads \cup {NoName}, c \in NewSpecs : Upsert(p, t, c)
          \/ \E t \in Threads \cup {NoName} : Delete(p, t)
          \/ DeletePkg(p)
          \/ \E q \in Pkgs \ {p} :
               Rename(p, q) \/ \E kinds \in (SUBSET {"pkg", "thr"}) \ {{}} : Clone(p, q, kinds)
      BY <2>3 DEF Next
    <3>0. p \in Names
      BY <2>2
    <3>1. ASSUME NEW t \in Threads \cup {NoName}, NEW c \in NewSpecs, Upsert(p, t, c)
          PROVE  TypeOK'
      <4>1. Fine(RuleUpsert(file, p, t, c))
        BY <2>0, <2>2, <3>0, UpsertTypes
      <4> QED
        BY <4>1, <3>1, <2>1 DEF Upsert
    <3>2. ASSUME NEW t \in Threads \cup {NoName}, Delete(p, t) PROVE TypeOK'
      <4>1. Fine(RuleDelete(file, p, t))
        BY <2>0, <3>0, DeleteTypes
      <4> QED
        BY <4>1, <3>2, <2>1 DEF Delete
    <3>3. ASSUME DeletePkg(p) PROVE TypeOK'
      <4>1. Fine(RuleDeletePkg(file, p))
        BY <2>0, <3>0, DeletePkgTypes
      <4> QED
        BY <4>1, <3>3, <2>1 DEF DeletePkg
    <3>4. ASSUME NEW q \in Pkgs \ {p}, Rename(p, q) PROVE TypeOK'
      <4>1. Fine(RuleRename(file, p, q))
        BY <2>0, <2>2, <3>0, RenameTypes
      <4> QED
        BY <4>1, <3>4, <2>1 DEF Rename
    <3>5. ASSUME NEW q \in Pkgs \ {p}, NEW kinds, Clone(p, q, kinds) PROVE TypeOK'
      <4>1. Fine(RuleClone(file, p, q, kinds))
        BY <2>0, <2>2, <3>0, CloneTypes
      <4> QED
        BY <4>1, <3>5, <2>1 DEF Clone
    <3> QED
      BY <3>1, <3>2, <3>3, <3>4, <3>5
  <2>4. CASE UNCHANGED vars
    BY <2>4 DEF vars, TypeOK
  <2> QED
    BY <2>3, <2>4
<1> QED
  BY <1>1, <1>2, PTL DEF Spec

-----------------------------------------------------------------------------
(* What of a file the argument looks at, for a package x: where its reader *)
(* stands, whether a stray brace has been read (stray) and a spec behind   *)
(* one (wild), whether there has been a package line of x (known), the     *)
(* first of them such that a brace behind it would be lost (trap), whether *)
(* x has had a thread rule outside a block (sing), and whether one with a  *)
(* closing brace behind it (shut).                                         *)
IsHead(s, l, x) ==
  /\ ~s.block
  /\ \/ l.kind = "rule" /\ l.name = x
     \/ l.kind = "bare" /\ Opens(l, s.pending) = x

Watch(m, l, x) ==
  [read  |-> ReadLine(m.read, l),
   stray |-> m.stray \/ StrayLine(m.read, l),
   wild  |-> m.wild \/ (m.stray /\ HasSpec(l)),
   known |-> m.known \/ IsHead(m.read, l, x),
   trap  |-> m.trap \/ (/\ ~m.known /\ IsHead(m.read, l, x)
                        /\ l.kind = "rule" /\ ~l.open /\ l.note),
   sing  |-> m.sing \/ (~m.read.block /\ l.kind = "single" /\ l.name = x),
   shut  |-> m.shut \/ (~m.read.block /\ l.kind = "single" /\ l.name = x /\ l.closed)]

WatchFrom(m, f, x) ==
  LET seen[i \in 0..Len(f)] == IF i = 0 THEN m ELSE Watch(seen[i - 1], f[i], x) IN
  seen

Watched(m, f, x) == WatchFrom(m, f, x)[Len(f)]

Begin == [read |-> Start, stray |-> FALSE, wild |-> FALSE,
          known |-> FALSE, trap |-> FALSE, sing |-> FALSE, shut |-> FALSE]

LEMMA WatchRun ==
  ASSUME NEW f, Len(f) \in Nat, NEW m, NEW x
  PROVE  /\ WatchFrom(m, f, x)[0] = m
         /\ \A i \in 1..Len(f) : WatchFrom(m, f, x)[i] = Watch(WatchFrom(m, f, x)[i - 1], f[i], x)
<1> DEFINE F(n, h) == [i \in 0..n |-> IF i = 0 THEN m ELSE Watch(h[i - 1], f[i], x)]
           P == {n \in Nat : \E h : h = F(n, h)}
           r == CHOOSE h : h = F(Len(f), h)
<1>1. WatchFrom(m, f, x) = r
  BY DEF WatchFrom
<1>2. P = Nat
  <2>1. 0 \in P
    <3> DEFINE h == [i \in 0..0 |-> m]
    <3>1. h = F(0, h)
      OBVIOUS
    <3> QED
      BY <3>1
  <2>2. ASSUME NEW n \in Nat, NEW h, h = F(n, h)
        PROVE  \E g : g = F(n + 1, g)
    <3>1. \A i \in 0..n : h[i] = IF i = 0 THEN m ELSE Watch(h[i - 1], f[i], x)
      BY <2>2
    <3> DEFINE g == [i \in 0..n + 1 |-> IF i = n + 1 THEN Watch(h[n], f[n + 1], x) ELSE h[i]]
               G == F(n + 1, g)
    <3>2. DOMAIN g = 0..n + 1 /\ g[n + 1] = Watch(h[n], f[n + 1], x)
          /\ \A i \in 0..n : g[i] = h[i]
      OBVIOUS
    <3>3. g = [i \in 0..n + 1 |-> g[i]]
      OBVIOUS
    <3>4. ASSUME NEW i \in 0..n + 1
          PROVE  g[i] = IF i = 0 THEN m ELSE Watch(g[i - 1], f[i], x)
      <4> HIDE DEF g, F
      <4>1. CASE i = n + 1
        BY <3>2, <4>1
      <4>2. CASE i \in 0..n /\ i # 0
        BY <3>1, <3>2, <4>2
      <4>3. CASE i = 0
        BY <3>1, <3>2, <4>3
      <4> QED
        BY <4>1, <4>2, <4>3
    <3>5. g = G
      <4> HIDE DEF g
      <4> QED
        BY <3>3, <3>4, Zenon
    <3> QED
      BY <3>5
  <2>3. ASSUME NEW n \in P PROVE n + 1 \in P
    <3>1. n \in Nat /\ \E h : h = F(n, h)
      OBVIOUS
    <3> HIDE DEF F
    <3> QED
      BY <2>2, <3>1
  <2> QED
    BY <2>1, <2>3, NatSet
<1>3. r = F(Len(f), r)
  BY <1>2
<1> HIDE DEF r
<1> QED
  BY <1>1, <1>3


LEMMA WatchNone ==
  ASSUME NEW m, NEW x
  PROVE  Watched(m, <<>>, x) = m
<1>1. Len(<<>>) = 0
  OBVIOUS
<1>2. WatchFrom(m, <<>>, x)[0] = m
  BY <1>1, WatchRun
<1> QED
  BY <1>1, <1>2 DEF Watched

LEMMA WatchSole ==
  ASSUME NEW f, Len(f) = 1, NEW m, NEW x
  PROVE  Watched(m, f, x) = Watch(m, f[1], x)
<1>1. WatchFrom(m, f, x)[0] = m
  BY WatchRun
<1>2. WatchFrom(m, f, x)[1] = Watch(WatchFrom(m, f, x)[1 - 1], f[1], x)
  BY WatchRun
<1> QED
  BY <1>1, <1>2 DEF Watched

LEMMA WatchOne ==
  ASSUME NEW m, NEW l, NEW x
  PROVE  Watched(m, <<l>>, x) = Watch(m, l, x)
<1>1. Len(<<l>>) = 1 /\ <<l>>[1] = l
  OBVIOUS
<1> QED
  BY <1>1, WatchSole

(* To read two sequences in a row is to read the one, then the other.      *)
LEMMA WatchConcat ==
  ASSUME NEW a \in Seq(Lines), NEW b \in Seq(Lines), NEW m, NEW x
  PROVE  Watched(m, a \o b, x) = Watched(Watched(m, a, x), b, x)
<1> DEFINE c == a \o b
           n == Watched(m, a, x)
<1>0. /\ Len(a) \in Nat /\ Len(b) \in Nat /\ Len(c) = Len(a) + Len(b)
      /\ \A i \in 1..Len(a) : c[i] = a[i]
      /\ \A i \in 1..Len(b) : c[Len(a) + i] = b[i]
  OBVIOUS
<1> HIDE DEF c
<1>1. \A i \in 0..Len(a) : WatchFrom(m, c, x)[i] = WatchFrom(m, a, x)[i]
  <2> DEFINE P == {i \in Nat : i \in 0..Len(a) => WatchFrom(m, c, x)[i] = WatchFrom(m, a, x)[i]}
  <2>1. 0 \in P
    BY <1>0, WatchRun
  <2>2. ASSUME NEW i \in P PROVE i + 1 \in P
    <3>1. CASE i + 1 \in 1..Len(a)
      <4>1. WatchFrom(m, c, x)[i] = WatchFrom(m, a, x)[i] /\ c[i + 1] = a[i + 1]
        BY <3>1, <1>0
      <4>2. WatchFrom(m, c, x)[i + 1] = Watch(WatchFrom(m, c, x)[i], c[i + 1], x)
        <5>1. Len(c) \in Nat /\ i + 1 \in 1..Len(c) /\ (i + 1) - 1 = i
          BY <3>1, <1>0
        <5> QED
          BY <5>1, WatchRun
      <4>3. WatchFrom(m, a, x)[i + 1] = Watch(WatchFrom(m, a, x)[i], a[i + 1], x)
        <5>1. (i + 1) - 1 = i
          OBVIOUS
        <5> QED
          BY <5>1, <3>1, <1>0, WatchRun
      <4> QED
        BY <4>1, <4>2, <4>3
    <3> QED
      BY <3>1, <1>0
  <2>3. P = Nat
    <3> HIDE DEF P
    <3>1. P \in SUBSET Nat
      BY DEF P
    <3> QED
      BY <2>1, <2>2, <3>1, NatSet
  <2> QED
    BY <2>3, <1>0
<1>2. \A i \in 0..Len(b) : WatchFrom(m, c, x)[Len(a) + i] = WatchFrom(n, b, x)[i]
  <2> DEFINE P == {i \in Nat : i \in 0..Len(b) =>
                     WatchFrom(m, c, x)[Len(a) + i] = WatchFrom(n, b, x)[i]}
  <2>1. 0 \in P
    <3>1. WatchFrom(n, b, x)[0] = n
      BY <1>0, WatchRun
    <3>2. WatchFrom(m, c, x)[Len(a)] = n
      BY <1>0, <1>1 DEF Watched
    <3>3. Len(a) + 0 = Len(a)
      BY <1>0
    <3> QED
      BY <3>1, <3>2, <3>3
  <2> HIDE DEF n
  <2>2. ASSUME NEW i \in P PROVE i + 1 \in P
    <3>1. CASE i + 1 \in 1..Len(b)
      <4>1. WatchFrom(m, c, x)[Len(a) + i] = WatchFrom(n, b, x)[i] /\ c[Len(a) + (i + 1)] = b[i + 1]
        BY <3>1, <1>0
      <4>2. WatchFrom(m, c, x)[Len(a) + (i + 1)] = Watch(WatchFrom(m, c, x)[Len(a) + i], c[Len(a) + (i + 1)], x)
        <5>1. Len(c) \in Nat /\ Len(a) + (i + 1) \in 1..Len(c) /\ (Len(a) + (i + 1)) - 1 = Len(a) + i
          BY <3>1, <1>0
        <5> QED
          BY <5>1, WatchRun
      <4>3. WatchFrom(n, b, x)[i + 1] = Watch(WatchFrom(n, b, x)[i], b[i + 1], x)
        <5>1. (i + 1) - 1 = i
          OBVIOUS
        <5> QED
          BY <5>1, <3>1, <1>0, WatchRun
      <4> QED
        BY <4>1, <4>2, <4>3
    <3> QED
      BY <3>1, <1>0
  <2>3. P = Nat
    <3> HIDE DEF P
    <3>1. P \in SUBSET Nat
      BY DEF P
    <3> QED
      BY <2>1, <2>2, <3>1, NatSet
  <2>4. \A i \in 0..Len(b) : i \in P
    <3> HIDE DEF P
    <3> QED
      BY <2>3, <1>0
  <2> QED
    BY <2>4
<1> QED
  BY <1>0, <1>2 DEF Watched, c, n

(* What holds of the file that is made, as it is made: rel says for each   *)
(* line of f which states its reader may be in when f has been read so far.*)
LEMMA WatchReplace ==
  ASSUME NEW f \in Seq(Lines), NEW by, NEW x, NEW m, NEW rel,
         \A i \in DOMAIN f \cap DOMAIN by : by[i] \in Seq(Lines),
         m \in rel[0],
         \A i \in 1..Len(f) : \A v \in rel[i - 1] : Watched(v, Instead(f, by, i), x) \in rel[i]
  PROVE  Watched(m, Replace(f, by), x) \in rel[Len(f)]
<1>0. Len(f) \in Nat /\ DOMAIN f = 1..Len(f)
  OBVIOUS
<1> DEFINE made(i) == ReplaceTo(f, by)[i]
           P == {i \in Nat : i \in 0..Len(f) => Watched(m, made(i), x) \in rel[i]}
<1>1. 0 \in P
  <2>1. made(0) = None
    BY <1>0, ReplaceRun
  <2>2. Watched(m, None, x) = m
    BY WatchNone DEF None
  <2>3. Watched(m, made(0), x) = m
    BY <2>1, <2>2, Zenon
  <2> HIDE DEF made
  <2> QED
    BY <2>3
<1>2. ASSUME NEW i \in P PROVE i + 1 \in P
  <2>1. CASE i + 1 \in 1..Len(f)
    <3>0. i \in 0..Len(f) /\ i + 1 \in DOMAIN f /\ (i + 1) - 1 = i
      BY <2>1, <1>0
    <3>1. Watched(m, made(i), x) \in rel[i]
      BY <2>1, <1>0
    <3>2. made(i + 1) = Plus(made(i), f, by, i + 1)
      BY <2>1, <1>0, <3>0, ReplaceRun
    <3>3. made(i) \in Seq(Lines) /\ Instead(f, by, i + 1) \in Seq(Lines)
      BY <3>0, ReplaceTypes
    <3> HIDE DEF made
    <3>4. Watched(m, Plus(made(i), f, by, i + 1), x)
            = Watched(Watched(m, made(i), x), Instead(f, by, i + 1), x)
      BY <3>3, WatchConcat DEF Plus
    <3>5. Watched(Watched(m, made(i), x), Instead(f, by, i + 1), x) \in rel[i + 1]
      BY <2>1, <3>0, <3>1
    <3>6. Watched(m, made(i + 1), x) \in rel[i + 1]
      BY <3>2, <3>4, <3>5, Zenon
    <3> QED
      BY <3>6
  <2> QED
    BY <2>1, <1>0
<1>3. P = Nat
  <2> HIDE DEF P
  <2>1. P \in SUBSET Nat
    BY DEF P
  <2> QED
    BY <1>1, <1>2, <2>1, NatSet
<1>4. Replace(f, by) = made(Len(f))
  BY DEF Replace
<1> HIDE DEF made
<1> QED
  BY <1>0, <1>3, <1>4

-----------------------------------------------------------------------------
(* One line, read from two states.                                         *)
Entry == [pkg : Names \cup {NoName}, thread : Names \cup {NoName}, cpus : Specs]
ReadStates == [block : BOOLEAN, owner : Names \cup {NoName}, pending : Names \cup {NoName},
               rules : SUBSET Entry, clean : BOOLEAN]

InnerSpec(l) == IF HasSpec(l) THEN InnerCpus(l) ELSE {}
OuterSpec(l) == IF HasSpec(l) THEN OuterCpus(l) ELSE {}

LEMMA AddRuleTypes ==
  ASSUME NEW s \in ReadStates, NEW pkg \in Names \cup {NoName},
         NEW thread \in Names \cup {NoName}, NEW cpus \in Specs
  PROVE  /\ AddRule(s, pkg, thread, cpus) \in ReadStates
         /\ AddRule(s, pkg, thread, cpus).pending = s.pending
         /\ AddRule(s, pkg, thread, cpus).owner = s.owner
BY DEF AddRule, ReadStates, Entry

LEMMA AddRuleRules ==
  ASSUME NEW s \in ReadStates, NEW pkg, NEW thread, NEW cpus, NEW r,
         r = [pkg |-> pkg, thread |-> thread, cpus |-> cpus]
  PROVE  AddRule(s, pkg, thread, cpus).rules = IF cpus = {} THEN s.rules ELSE s.rules \cup {r}
BY DEF AddRule, ReadStates

LEMMA BlankRead ==
  ASSUME NEW s, NEW l, l.kind = "blank"
  PROVE  ReadLine(s, l) = s
BY DEF ReadLine

LEMMA InnerRead ==
  ASSUME NEW s \in ReadStates, NEW l \in Lines, s.block, l.kind # "blank"
  PROVE  /\ ReadLine(s, l) \in ReadStates
         /\ ReadLine(s, l).block = ~Ends(l)
         /\ ReadLine(s, l).owner = (IF Ends(l) THEN NoName ELSE s.owner)
         /\ ReadLine(s, l).pending = s.pending
         /\ ReadLine(s, l).rules = AddRule(s, s.owner, InnerName(l), InnerSpec(l)).rules
<1> DEFINE a == AddRule(s, s.owner, InnerName(l), InnerSpec(l))
           c == l.kind = "close" \/ InnerSpec(l) # {}
<1>1. InnerName(l) \in Names \cup {NoName} /\ InnerSpec(l) \in Specs /\ Ends(l) \in BOOLEAN
  BY LineFields DEF InnerSpec, Specs
<1>2. s.owner \in Names \cup {NoName}
  BY DEF ReadStates
<1>3. a \in ReadStates /\ a.pending = s.pending /\ a.owner = s.owner
  <2> DEFINE o == s.owner
             n == InnerName(l)
             c0 == InnerSpec(l)
  <2>1. o \in Names \cup {NoName} /\ n \in Names \cup {NoName} /\ c0 \in Specs
    BY <1>1, <1>2
  <2> HIDE DEF o, n, c0
  <2>2. /\ AddRule(s, o, n, c0) \in ReadStates
        /\ AddRule(s, o, n, c0).pending = s.pending
        /\ AddRule(s, o, n, c0).owner = s.owner
    BY <2>1, AddRuleTypes
  <2> QED
    BY <2>2 DEF o, n, c0
<1>4. c \in BOOLEAN
  OBVIOUS
<1>5. ReadLine(s, l) = [a EXCEPT !.clean = @ /\ c, !.block = ~Ends(l),
                                 !.owner = IF Ends(l) THEN NoName ELSE @]
  BY DEF ReadLine, ReadInner, InnerSpec
<1> HIDE DEF a, c
<1>6. /\ ReadLine(s, l) \in ReadStates
      /\ ReadLine(s, l).block = ~Ends(l)
      /\ ReadLine(s, l).owner = (IF Ends(l) THEN NoName ELSE s.owner)
      /\ ReadLine(s, l).pending = s.pending
      /\ ReadLine(s, l).rules = a.rules
  BY <1>1, <1>2, <1>3, <1>4, <1>5 DEF ReadStates
<1> QED
  BY <1>6 DEF a

LEMMA OpensTypes ==
  ASSUME NEW l \in Lines, NEW pending \in Names \cup {NoName}
  PROVE  /\ Opens(l, pending) \in Names \cup {NoName}
         /\ l.kind = "bare" => Opens(l, pending) = IF l.name = NoName THEN pending ELSE l.name
         /\ HasSpec(l) => Opens(l, pending) = IF l.open THEN l.name ELSE NoName
         /\ l.kind # "bare" /\ ~HasSpec(l) => Opens(l, pending) = NoName
<1>1. l.open \in BOOLEAN /\ l.name \in Names \cup {NoName}
  BY LineFields DEF Fields
<1>2. CASE l.kind = "bare"
  BY <1>1, <1>2 DEF Opens, HasSpec
<1>3. CASE HasSpec(l)
  BY <1>1, <1>3 DEF Opens, HasSpec
<1>4. CASE l.kind # "bare" /\ ~HasSpec(l)
  BY <1>1, <1>4 DEF Opens
<1> QED
  BY <1>1, <1>2, <1>3, <1>4 DEF HasSpec

LEMMA OuterRead ==
  ASSUME NEW s \in ReadStates, NEW l \in Lines, ~s.block, l.kind # "blank"
  PROVE  /\ ReadLine(s, l) \in ReadStates
         /\ ReadLine(s, l).block = (Opens(l, s.pending) # NoName)
         /\ ReadLine(s, l).owner = Opens(l, s.pending)
         /\ ReadLine(s, l).pending = (IF l.kind = "pend" THEN l.name ELSE NoName)
         /\ ReadLine(s, l).rules = AddRule(s, l.name, l.thread, OuterSpec(l)).rules
<1> DEFINE a == AddRule(s, l.name, l.thread, OuterSpec(l))
           owner == Opens(l, s.pending)
           lost == s.pending # NoName /\ ~(l.kind = "bare" /\ l.name = NoName)
           c == /\ a.clean /\ ~lost /\ l.kind # "close"
                /\ HasSpec(l) => OuterSpec(l) # {}
                /\ l.kind = "bare" => owner # NoName
<1>1. l.name \in Names \cup {NoName} /\ l.thread \in Names \cup {NoName} /\ OuterSpec(l) \in Specs
  BY LineFields DEF OuterSpec, Specs, Fields, Names
<1>2. owner \in Names \cup {NoName}
  BY OpensTypes DEF ReadStates
<1>3. a \in ReadStates
  BY <1>1, AddRuleTypes
<1>4. c \in BOOLEAN
  OBVIOUS
<1>5. ReadLine(s, l) = [a EXCEPT !.clean = c, !.block = owner # NoName, !.owner = owner,
                                 !.pending = IF l.kind = "pend" THEN l.name ELSE NoName]
  BY DEF ReadLine, ReadOuter, OuterSpec
<1> HIDE DEF a, c, owner
<1>6. /\ ReadLine(s, l) \in ReadStates
      /\ ReadLine(s, l).block = (owner # NoName)
      /\ ReadLine(s, l).owner = owner
      /\ ReadLine(s, l).pending = (IF l.kind = "pend" THEN l.name ELSE NoName)
      /\ ReadLine(s, l).rules = a.rules
  BY <1>1, <1>2, <1>3, <1>4, <1>5 DEF ReadStates
<1> QED
  BY <1>6 DEF a, owner

LEMMA ReadTypes ==
  ASSUME NEW s \in ReadStates, NEW l \in Lines
  PROVE  ReadLine(s, l) \in ReadStates
<1>1. s.block \in BOOLEAN
  BY DEF ReadStates
<1> QED
  BY <1>1, BlankRead, InnerRead, OuterRead

LEMMA StartTypes == Start \in ReadStates
BY DEF Start, ReadStates

(* The rules of packages outside N.                                        *)
Other(s, N) == {r \in s.rules : r.pkg \notin N}

LEMMA AddNone ==
  ASSUME NEW s \in ReadStates, NEW N,
         NEW pkg \in Names \cup {NoName}, NEW thread \in Names \cup {NoName},
         NEW cpus \in Specs, pkg \in N \/ cpus = {}
  PROVE  Other(AddRule(s, pkg, thread, cpus), N) = Other(s, N)
<1>1. PICK r : r = [pkg |-> pkg, thread |-> thread, cpus |-> cpus]
  OBVIOUS
<1>2. r.pkg = pkg
  BY <1>1
<1>3. AddRule(s, pkg, thread, cpus).rules = IF cpus = {} THEN s.rules ELSE s.rules \cup {r}
  BY <1>1, AddRuleRules
<1> QED
  BY <1>2, <1>3 DEF Other

LEMMA AddOther ==
  ASSUME NEW s \in ReadStates, NEW u \in ReadStates, NEW N,
         NEW pkg \in Names \cup {NoName}, NEW thread \in Names \cup {NoName}, NEW cpus \in Specs
  PROVE  Other(s, N) = Other(u, N) =>
           Other(AddRule(s, pkg, thread, cpus), N) = Other(AddRule(u, pkg, thread, cpus), N)
<1>1. PICK r : r = [pkg |-> pkg, thread |-> thread, cpus |-> cpus]
  OBVIOUS
<1>3. r.pkg = pkg
  BY <1>1
<1>2. ASSUME NEW w \in ReadStates
      PROVE  Other(AddRule(w, pkg, thread, cpus), N) =
               IF cpus = {} \/ pkg \in N THEN Other(w, N) ELSE Other(w, N) \cup {r}
  <2>1. AddRule(w, pkg, thread, cpus).rules = IF cpus = {} THEN w.rules ELSE w.rules \cup {r}
    BY <1>1, AddRuleRules
  <2> QED
    BY <2>1, <1>3 DEF Other
<1> QED
  BY <1>2

LEMMA OtherOf ==
  ASSUME NEW s, NEW a, NEW N, s.rules = a.rules
  PROVE  Other(s, N) = Other(a, N)
BY DEF Other

(* u reads what s reads, but for the packages in N.                        *)
Near(s, u, N) ==
  /\ s.block = u.block
  /\ s.block => s.owner = u.owner \/ (s.owner \in N /\ u.owner \in N)
  /\ \/ s.pending = u.pending
     \/ s.pending = NoName
     \/ s.pending \in N /\ u.pending \in N
  /\ Other(s, N) = Other(u, N)

LEMMA NearLine ==
  ASSUME NEW s \in ReadStates, NEW u \in ReadStates, NEW l \in Lines, NEW N \in SUBSET Names,
         Near(s, u, N), ~StrayLine(s, l)
  PROVE  /\ Near(ReadLine(s, l), ReadLine(u, l), N)
         /\ ~StrayLine(u, l)
<1>0. NoName \notin N
  BY NamesAssumption DEF Names
<1>1. ~StrayLine(u, l)
  BY <1>0 DEF StrayLine, Near
<1>2. CASE l.kind = "blank"
  BY <1>2, <1>1, BlankRead
<1> DEFINE s1 == ReadLine(s, l)
           u1 == ReadLine(u, l)
<1>3. CASE s.block /\ l.kind # "blank"
  <2> DEFINE a == AddRule(s, s.owner, InnerName(l), InnerSpec(l))
             b == AddRule(u, u.owner, InnerName(l), InnerSpec(l))
  <2>0. u.block
    BY <1>3 DEF Near
  <2>1. /\ s1.block = ~Ends(l) /\ s1.owner = (IF Ends(l) THEN NoName ELSE s.owner)
        /\ s1.pending = s.pending /\ s1.rules = a.rules
    BY <1>3, InnerRead
  <2>2. /\ u1.block = ~Ends(l) /\ u1.owner = (IF Ends(l) THEN NoName ELSE u.owner)
        /\ u1.pending = u.pending /\ u1.rules = b.rules
    BY <1>3, <2>0, InnerRead
  <2>3. InnerName(l) \in Names \cup {NoName} /\ InnerSpec(l) \in Specs /\ Ends(l) \in BOOLEAN
        /\ s.owner \in Names \cup {NoName} /\ u.owner \in Names \cup {NoName}
    BY LineFields DEF InnerSpec, Specs, ReadStates
  <2>4. Other(a, N) = Other(b, N)
    <3>1. CASE s.owner = u.owner
      <4>1. Other(s, N) = Other(u, N)
        BY DEF Near
      <4>2. Other(a, N) = Other(AddRule(u, s.owner, InnerName(l), InnerSpec(l)), N)
        BY <2>3, <4>1, AddOther
      <4> QED
        BY <3>1, <4>2
    <3>2. CASE s.owner \in N /\ u.owner \in N
      <4>1. Other(a, N) = Other(s, N)
        BY <2>3, <3>2, AddNone
      <4>2. Other(b, N) = Other(u, N)
        BY <2>3, <3>2, AddNone
      <4> QED
        BY <4>1, <4>2 DEF Near
    <3> QED
      BY <1>3, <3>1, <3>2 DEF Near
  <2> HIDE DEF a, b, s1, u1
  <2>5. Other(s1, N) = Other(u1, N)
    BY <2>1, <2>2, <2>4, OtherOf
  <2>6. Near(s1, u1, N)
    BY <1>3, <2>0, <2>1, <2>2, <2>3, <2>5 DEF Near
  <2> QED
    BY <1>1, <2>6 DEF s1, u1
<1>4. CASE ~s.block /\ l.kind # "blank"
  <2> DEFINE a == AddRule(s, l.name, l.thread, OuterSpec(l))
             b == AddRule(u, l.name, l.thread, OuterSpec(l))
             o == Opens(l, s.pending)
             q == Opens(l, u.pending)
  <2>0. ~u.block
    BY <1>4 DEF Near
  <2>1. /\ s1.block = (o # NoName) /\ s1.owner = o
        /\ s1.pending = (IF l.kind = "pend" THEN l.name ELSE NoName) /\ s1.rules = a.rules
    BY <1>4, OuterRead
  <2>2. /\ u1.block = (q # NoName) /\ u1.owner = q
        /\ u1.pending = (IF l.kind = "pend" THEN l.name ELSE NoName) /\ u1.rules = b.rules
    BY <1>4, <2>0, OuterRead
  <2>3. l.name \in Names \cup {NoName} /\ l.thread \in Names \cup {NoName} /\ OuterSpec(l) \in Specs
    BY LineFields DEF OuterSpec, Specs, Fields, Names
  <2>4. Other(a, N) = Other(b, N)
    <3>1. Other(s, N) = Other(u, N)
      BY DEF Near
    <3> QED
      BY <2>3, <3>1, AddOther
  <2>5. o = q \/ (o \in N /\ q \in N)
    <3>1. s.pending \in Names \cup {NoName} /\ u.pending \in Names \cup {NoName}
      BY DEF ReadStates
    <3>2. CASE l.kind = "bare" /\ l.name = NoName
      <4>1. o = s.pending /\ q = u.pending /\ s.pending # NoName
        BY <1>4, <3>1, <3>2, OpensTypes DEF StrayLine
      <4> QED
        BY <4>1 DEF Near
    <3>3. CASE ~(l.kind = "bare" /\ l.name = NoName)
      BY <3>1, <3>3, OpensTypes
    <3> QED
      BY <3>2, <3>3
  <2> HIDE DEF a, b, s1, u1, o, q
  <2>6. Other(s1, N) = Other(u1, N)
    BY <2>1, <2>2, <2>4, OtherOf
  <2>7. Near(s1, u1, N)
    BY <1>0, <2>1, <2>2, <2>5, <2>6 DEF Near
  <2> QED
    BY <1>1, <2>7 DEF s1, u1
<1> QED
  BY <1>2, <1>3, <1>4 DEF ReadStates

-----------------------------------------------------------------------------
(* What has been watched of a file.                                        *)
WatchStates == [read : ReadStates, stray : BOOLEAN, wild : BOOLEAN,
                known : BOOLEAN, trap : BOOLEAN, sing : BOOLEAN, shut : BOOLEAN]

At(f, i) == ReadFrom(Start, f)[i]
Seen(f, x, i) == WatchFrom(Begin, f, x)[i]
All(f, x) == Watched(Begin, f, x)

LEMMA WatchFields ==
  ASSUME NEW m, NEW l, NEW x
  PROVE  /\ Watch(m, l, x).read = ReadLine(m.read, l)
         /\ Watch(m, l, x).stray <=> (m.stray \/ StrayLine(m.read, l))
         /\ Watch(m, l, x).wild <=> (m.wild \/ (m.stray /\ HasSpec(l)))
         /\ Watch(m, l, x).known <=> (m.known \/ IsHead(m.read, l, x))
         /\ Watch(m, l, x).trap <=> (m.trap \/ (/\ ~m.known /\ IsHead(m.read, l, x)
                                              /\ l.kind = "rule" /\ ~l.open /\ l.note))
         /\ Watch(m, l, x).sing <=>
              (m.sing \/ (~m.read.block /\ l.kind = "single" /\ l.name = x))
         /\ Watch(m, l, x).shut <=>
              (m.shut \/ (~m.read.block /\ l.kind = "single" /\ l.name = x /\ l.closed))
BY Zenon DEF Watch

LEMMA WatchLineTypes ==
  ASSUME NEW m \in WatchStates, NEW l \in Lines, NEW x
  PROVE  Watch(m, l, x) \in WatchStates
<1>1. ReadLine(m.read, l) \in ReadStates
  BY ReadTypes DEF WatchStates
<1>2. l.open \in BOOLEAN /\ l.closed \in BOOLEAN /\ l.note \in BOOLEAN
  BY LineFields DEF Fields
<1> QED
  BY <1>1, <1>2 DEF Watch, WatchStates, StrayLine, HasSpec, IsHead

LEMMA WatchTypes ==
  ASSUME NEW m \in WatchStates, NEW f \in Seq(Lines), NEW x
  PROVE  /\ \A i \in 0..Len(f) : WatchFrom(m, f, x)[i] \in WatchStates
         /\ Watched(m, f, x) \in WatchStates
<1> DEFINE P == {i \in Nat : i \in 0..Len(f) => WatchFrom(m, f, x)[i] \in WatchStates}
<1>0. Len(f) \in Nat /\ DOMAIN f = 1..Len(f)
  OBVIOUS
<1>1. 0 \in P
  <2>1. WatchFrom(m, f, x)[0] = m
    BY <1>0, WatchRun
  <2> QED
    BY <2>1
<1>2. ASSUME NEW i \in P PROVE i + 1 \in P
  <2>1. CASE i + 1 \in 1..Len(f)
    <3>1. WatchFrom(m, f, x)[i] \in WatchStates /\ f[i + 1] \in Lines
      BY <2>1, <1>0
    <3>2. WatchFrom(m, f, x)[i + 1] = Watch(WatchFrom(m, f, x)[i], f[i + 1], x)
      <4>1. (i + 1) - 1 = i
        OBVIOUS
      <4> QED
        BY <2>1, <4>1, <1>0, WatchRun
    <3> QED
      BY <3>1, <3>2, WatchLineTypes
  <2> QED
    BY <2>1, <1>0
<1>3. P = Nat
  <2> HIDE DEF P
  <2>1. P \in SUBSET Nat
    BY DEF P
  <2> QED
    BY <1>1, <1>2, <2>1, NatSet
<1> QED
  BY <1>0, <1>3 DEF Watched

LEMMA BeginTypes == Begin \in WatchStates
BY StartTypes DEF Begin, WatchStates

(* The first line, and one line after the other.                           *)
LEMMA SeenRun ==
  ASSUME NEW f \in Seq(Lines), NEW x
  PROVE  /\ Seen(f, x, 0) = Begin
         /\ \A i \in 1..Len(f) : Seen(f, x, i) = Watch(Seen(f, x, i - 1), f[i], x)
         /\ \A i \in 0..Len(f) : Seen(f, x, i) \in WatchStates
         /\ All(f, x) = Seen(f, x, Len(f))
         /\ All(f, x) \in WatchStates
BY WatchRun, WatchTypes, BeginTypes DEF Seen, All, Watched

LEMMA AtRun ==
  ASSUME NEW f \in Seq(Lines)
  PROVE  /\ At(f, 0) = Start
         /\ \A i \in 1..Len(f) : At(f, i) = ReadLine(At(f, i - 1), f[i])
         /\ Read(f) = At(f, Len(f))
BY ReadRun DEF At, Read

LEMMA SeenReads ==
  ASSUME NEW f \in Seq(Lines), NEW x
  PROVE  \A i \in 0..Len(f) : Seen(f, x, i).read = At(f, i) /\ At(f, i) \in ReadStates
<1> DEFINE P == {i \in Nat : i \in 0..Len(f) => Seen(f, x, i).read = At(f, i)}
<1>0. Len(f) \in Nat /\ DOMAIN f = 1..Len(f)
  OBVIOUS
<1>1. 0 \in P
  <2>1. Seen(f, x, 0) = Begin /\ At(f, 0) = Start
    BY SeenRun, AtRun
  <2> QED
    BY <2>1 DEF Begin
<1>2. ASSUME NEW i \in P PROVE i + 1 \in P
  <2>1. CASE i + 1 \in 1..Len(f)
    <3>0. (i + 1) - 1 = i
      OBVIOUS
    <3>1. Seen(f, x, i).read = At(f, i)
      BY <2>1, <1>0
    <3>2. Seen(f, x, i + 1) = Watch(Seen(f, x, i), f[i + 1], x)
      BY <2>1, <3>0, SeenRun
    <3>3. At(f, i + 1) = ReadLine(At(f, i), f[i + 1])
      BY <2>1, <3>0, AtRun
    <3>4. Seen(f, x, i + 1).read = ReadLine(Seen(f, x, i).read, f[i + 1])
      BY <3>2 DEF Watch
    <3> QED
      BY <3>1, <3>3, <3>4
  <2> QED
    BY <2>1, <1>0
<1>3. P = Nat
  <2> HIDE DEF P
  <2>1. P \in SUBSET Nat
    BY DEF P
  <2> QED
    BY <1>1, <1>2, <2>1, NatSet
<1>4. \A i \in 0..Len(f) : Seen(f, x, i).read = At(f, i)
  BY <1>0, <1>3
<1> QED
  BY <1>4, SeenRun DEF WatchStates

(* What has been seen stays seen.                                          *)
LEMMA SeenStays ==
  ASSUME NEW f \in Seq(Lines), NEW x
  PROVE  \A i \in 0..Len(f) :
           /\ Seen(f, x, i).stray => All(f, x).stray
           /\ Seen(f, x, i).wild => All(f, x).wild
           /\ Seen(f, x, i).sing => All(f, x).sing
           /\ Seen(f, x, i).trap => All(f, x).trap
<1> SUFFICES ASSUME NEW i \in 0..Len(f)
             PROVE  /\ Seen(f, x, i).stray => All(f, x).stray
                    /\ Seen(f, x, i).wild => All(f, x).wild
                    /\ Seen(f, x, i).sing => All(f, x).sing
                    /\ Seen(f, x, i).trap => All(f, x).trap
  OBVIOUS
<1> DEFINE Stays(m, n) == /\ m.stray => n.stray
                          /\ m.wild => n.wild
                          /\ m.sing => n.sing
                          /\ m.trap => n.trap
           P == {k \in Nat : k \in i..Len(f) => Stays(Seen(f, x, i), Seen(f, x, k))}
<1>0. Len(f) \in Nat /\ i \in Nat
  OBVIOUS
<1>1. 0 \in P
  <2>1. Stays(Seen(f, x, i), Seen(f, x, i))
    OBVIOUS
  <2>2. 0 \in i..Len(f) => i = 0
    BY <1>0
  <2> HIDE DEF Stays
  <2> QED
    BY <2>1, <2>2
<1>2. ASSUME NEW k \in P PROVE k + 1 \in P
  <2>1. CASE k + 1 = i
    BY <2>1
  <2>2. CASE k + 1 \in i + 1..Len(f)
    <3>0. (k + 1) - 1 = k /\ k \in i..Len(f) /\ k + 1 \in 1..Len(f)
      BY <2>2, <1>0
    <3>1. Stays(Seen(f, x, i), Seen(f, x, k))
      BY <3>0
    <3>2. Seen(f, x, k + 1) = Watch(Seen(f, x, k), f[k + 1], x)
      BY <3>0, SeenRun
    <3>3. Stays(Seen(f, x, k), Watch(Seen(f, x, k), f[k + 1], x))
      BY Zenon DEF Watch
    <3>4. Stays(Seen(f, x, k), Seen(f, x, k + 1))
      BY <3>2, <3>3, Zenon
    <3>5. Stays(Seen(f, x, i), Seen(f, x, k + 1))
      BY <3>1, <3>4, Zenon
    <3> HIDE DEF Stays
    <3> QED
      BY <3>5
  <2>3. k + 1 \in i..Len(f) => k + 1 = i \/ k + 1 \in i + 1..Len(f)
    BY <1>0
  <2> QED
    BY <2>1, <2>2, <2>3
<1>3. P = Nat
  <2> HIDE DEF P
  <2>1. P \in SUBSET Nat
    BY DEF P
  <2> QED
    BY <1>1, <1>2, <2>1, NatSet
<1>4. Stays(Seen(f, x, i), Seen(f, x, Len(f)))
  BY <1>0, <1>3
<1> QED
  BY <1>4, SeenRun

Strayed(f, i) == \E j \in 1..i : StrayLine(At(f, j - 1), f[j])

LEMMA SeenStray ==
  ASSUME NEW f \in Seq(Lines), NEW x
  PROVE  All(f, x).stray <=> Stray(f)
<1> DEFINE P == {i \in Nat : i \in 0..Len(f) =>
                   (Seen(f, x, i).stray <=> Strayed(f, i))}
<1>0. Len(f) \in Nat /\ DOMAIN f = 1..Len(f)
  OBVIOUS
<1>1. 0 \in P
  <2>1. Seen(f, x, 0) = Begin
    BY SeenRun
  <2> QED
    BY <2>1 DEF Begin, Strayed
<1>2. ASSUME NEW i \in P PROVE i + 1 \in P
  <2>1. CASE i + 1 \in 1..Len(f)
    <3>0. (i + 1) - 1 = i /\ i \in 0..Len(f) /\ 1..i + 1 = 1..i \cup {i + 1}
      BY <2>1, <1>0
    <3>1. Seen(f, x, i).stray <=> Strayed(f, i)
      BY <3>0
    <3>2. Seen(f, x, i + 1) = Watch(Seen(f, x, i), f[i + 1], x)
      BY <2>1, <3>0, SeenRun
    <3>3. Seen(f, x, i).read = At(f, i)
      BY <3>0, SeenReads
    <3>4. Seen(f, x, i + 1).stray <=> (Seen(f, x, i).stray \/ StrayLine(At(f, i), f[i + 1]))
      <4>1. Watch(Seen(f, x, i), f[i + 1], x).stray
              <=> (Seen(f, x, i).stray \/ StrayLine(Seen(f, x, i).read, f[i + 1]))
        BY WatchFields
      <4> QED
        BY <3>2, <3>3, <4>1, Zenon
    <3>5. Strayed(f, i + 1) <=> (Strayed(f, i) \/ StrayLine(At(f, i), f[i + 1]))
      BY <3>0 DEF Strayed
    <3> QED
      BY <3>1, <3>4, <3>5
  <2> QED
    BY <2>1, <1>0
<1>3. P = Nat
  <2> HIDE DEF P
  <2>1. P \in SUBSET Nat
    BY DEF P
  <2> QED
    BY <1>1, <1>2, <2>1, NatSet
<1>4. Seen(f, x, Len(f)).stray <=> Strayed(f, Len(f))
  BY <1>0, <1>3
<1>5. Stray(f) <=> Strayed(f, Len(f))
  BY <1>0 DEF Stray, At, Strayed
<1> QED
  BY <1>4, <1>5, SeenRun

LEMMA NoStray ==
  ASSUME NEW f \in Seq(Lines), ~Stray(f)
  PROVE  \A i \in 1..Len(f) : ~StrayLine(At(f, i - 1), f[i])
BY DEF Stray, At

-----------------------------------------------------------------------------
(* What the scan for a package finds is what the loader sees.              *)
LEMMA ScanRuns ==
  ASSUME NEW f \in Seq(Lines), NEW p
  PROVE  /\ ScanTo(f, p)[0] = ScanStart
         /\ \A i \in 1..Len(f) : ScanTo(f, p)[i] = ScanLine(f, ScanTo(f, p)[i - 1], i, p)
         /\ \A i \in 0..Len(f) : ScanTo(f, p)[i] \in Scans(f)
         /\ Scan(f, p) = ScanTo(f, p)[Len(f)]
         /\ Scan(f, p) \in Scans(f)
BY ScanRun, ScanTypes DEF Scan

InnerStep(s, l, i, n) ==
  /\ n.block <=> ~Ends(l)
  /\ n.target <=> (s.target /\ ~Ends(l))
  /\ n.pending = s.pending /\ n.first = s.first /\ n.open = s.open
  /\ n.close = (IF s.target /\ Ends(l) /\ s.close = 0 THEN i ELSE s.close)
  /\ n.locs = (IF s.target /\ HasSpec(l) THEN s.locs \cup {Inner(l, i)} ELSE s.locs)

LEMMA InnerScan ==
  ASSUME NEW f \in Seq(Lines), NEW p, NEW s \in Scans(f), NEW i \in DOMAIN f,
         s.block, f[i].kind # "blank"
  PROVE  InnerStep(s, f[i], i, ScanLine(f, s, i, p))
<1> PICK l : l = f[i]
  OBVIOUS
<1> PICK n : n = ScanLine(f, s, i, p)
  OBVIOUS
<1> DEFINE e == Ends(l)
           h == HasSpec(l)
           inner == Inner(l, i)
<1>1. n = [s EXCEPT
             !.locs = IF s.target /\ h THEN @ \cup {inner} ELSE @,
             !.close = IF s.target /\ e /\ @ = 0 THEN i ELSE @,
             !.target = @ /\ ~e,
             !.block = ~e]
  BY DEF ScanLine, ScanInner
<1> HIDE DEF e, h, inner
<1>2. /\ n.block <=> ~e
      /\ n.target <=> (s.target /\ ~e)
      /\ n.pending = s.pending /\ n.first = s.first /\ n.open = s.open
      /\ n.close = (IF s.target /\ e /\ s.close = 0 THEN i ELSE s.close)
      /\ n.locs = (IF s.target /\ h THEN s.locs \cup {inner} ELSE s.locs)
  BY <1>1 DEF Scans
<1> QED
  BY <1>2 DEF e, h, inner, InnerStep

OuterStep(s, p, l, i, owner, n) ==
  /\ n.block <=> (owner # NoName)
  /\ n.target <=> (s.target \/ owner = p)
  /\ n.pending = (IF l.kind = "pend" THEN i ELSE 0)
  /\ n.first = (IF p \in {l.name, owner} /\ s.first = Nowhere
                THEN PkgLine(l, i, s.pending) ELSE s.first)
  /\ n.open = (IF owner = p /\ s.close = 0 THEN i ELSE s.open)
  /\ n.close = s.close
  /\ n.locs = (IF l.kind = "single" /\ l.name = p
               THEN s.locs \cup {Single(l, i)} ELSE s.locs)

Pended(f, at) == IF at = 0 THEN NoName ELSE f[at].name

LEMMA OuterScan ==
  ASSUME NEW f \in Seq(Lines), NEW p, NEW s \in Scans(f), NEW i \in DOMAIN f,
         ~s.block, f[i].kind # "blank"
  PROVE  OuterStep(s, p, f[i], i, Opens(f[i], Pended(f, s.pending)), ScanLine(f, s, i, p))
<1> PICK l : l = f[i]
  OBVIOUS
<1> PICK n : n = ScanLine(f, s, i, p)
  OBVIOUS
<1> PICK owner : owner = Opens(l, Pended(f, s.pending))
  OBVIOUS
<1> DEFINE single == Single(l, i)
           mine == p \in {l.name, owner}
           one == l.kind = "single" /\ l.name = p
           head == PkgLine(l, i, s.pending)
           own == owner = p
           next == IF l.kind = "pend" THEN i ELSE 0
           in == owner # NoName
<1>1. n = [s EXCEPT
             !.locs = IF one THEN @ \cup {single} ELSE @,
             !.first = IF mine /\ @ = Nowhere THEN head ELSE @,
             !.open = IF own /\ s.close = 0 THEN i ELSE @,
             !.target = @ \/ own,
             !.block = in,
             !.pending = next]
  BY DEF ScanLine, ScanOuter, Pended
<1> HIDE DEF single, mine, one, head, own, next, in
<1>2. /\ n.block = in
      /\ n.target <=> (s.target \/ own)
      /\ n.pending = next
      /\ n.first = (IF mine /\ s.first = Nowhere THEN head ELSE s.first)
      /\ n.open = (IF own /\ s.close = 0 THEN i ELSE s.open)
      /\ n.close = s.close
      /\ n.locs = (IF one THEN s.locs \cup {single} ELSE s.locs)
  BY <1>1 DEF Scans
<1> QED
  BY <1>2 DEF single, mine, one, head, own, next, in, OuterStep

LEMMA AtTypes ==
  ASSUME NEW f \in Seq(Lines)
  PROVE  \A i \in 0..Len(f) : At(f, i) \in ReadStates
<1>1. \A i \in 0..Len(f) : Seen(f, NoName, i).read = At(f, i) /\ At(f, i) \in ReadStates
  BY SeenReads
<1> QED
  BY <1>1

(* In a block of p after i lines.                                          *)
In(f, p, i) == At(f, i).block /\ At(f, i).owner = p

Waiting(f, i, at) ==
  /\ at \in 1..i /\ f[at].kind = "pend" /\ f[at].name = At(f, i).pending
  /\ ~At(f, at - 1).block
  /\ \A k \in at + 1..i : f[k].kind = "blank"

Agrees(f, p, i) ==
  LET t == ScanTo(f, p)[i] IN
  /\ t.block <=> At(f, i).block
  /\ t.target <=> In(f, p, i)
  /\ At(f, i).block => t.pending = 0
  /\ t.pending = 0 => At(f, i).pending = NoName
  /\ t.pending # 0 => Waiting(f, i, t.pending)

LEMMA ScanAgreesStep ==
  ASSUME NEW f \in Seq(Lines), NEW p \in Names, NEW i \in Nat, i + 1 \in DOMAIN f,
         Agrees(f, p, i)
  PROVE  /\ Agrees(f, p, i + 1)
         /\ LET t == ScanTo(f, p)[i] IN
            At(f, i).pending = Pended(f, t.pending)
<1> PICK l : l = f[i + 1]
  OBVIOUS
<1>0. /\ i \in 0..Len(f) /\ i + 1 \in 1..Len(f) /\ (i + 1) - 1 = i /\ l \in Lines
      /\ p # NoName
  BY NamesAssumption DEF Names
<1> PICK t : t = ScanTo(f, p)[i]
  OBVIOUS
<1> PICK n : n = ScanTo(f, p)[i + 1]
  OBVIOUS
<1> PICK r : r = At(f, i)
  OBVIOUS
<1> PICK u : u = At(f, i + 1)
  OBVIOUS
<1>1. /\ t \in Scans(f) /\ n \in Scans(f) /\ n = ScanLine(f, t, i + 1, p)
      /\ r \in ReadStates /\ u \in ReadStates /\ u = ReadLine(r, l)
  <2>1. t \in Scans(f) /\ n \in Scans(f)
    BY <1>0, ScanRuns
  <2>2. n = ScanLine(f, t, i + 1, p)
    <3>1. ScanTo(f, p)[i + 1] = ScanLine(f, ScanTo(f, p)[(i + 1) - 1], i + 1, p)
      BY <1>0, ScanRuns
    <3> QED
      BY <3>1, <1>0
  <2>3. r \in ReadStates /\ u \in ReadStates
    BY <1>0, AtTypes
  <2>4. u = ReadLine(r, l)
    <3>1. At(f, i + 1) = ReadLine(At(f, (i + 1) - 1), f[i + 1])
      BY <1>0, AtRun
    <3> QED
      BY <3>1, <1>0
  <2> QED
    BY <2>1, <2>2, <2>3, <2>4
<1>2. /\ t.block <=> r.block
      /\ t.target <=> (r.block /\ r.owner = p)
      /\ r.block => t.pending = 0
      /\ t.pending = 0 => r.pending = NoName
      /\ t.pending # 0 => Waiting(f, i, t.pending)
  BY DEF Agrees, In
<1>3. r.pending = Pended(f, t.pending)
  BY <1>2 DEF Waiting, Pended
<1>4. SUFFICES /\ n.block <=> u.block
               /\ n.target <=> (u.block /\ u.owner = p)
               /\ u.block => n.pending = 0
               /\ n.pending = 0 => u.pending = NoName
               /\ n.pending # 0 => Waiting(f, i + 1, n.pending)
  BY <1>3 DEF Agrees, In
<1>5. CASE l.kind = "blank"
  <2>1. n = t /\ u = r
    BY <1>1, <1>5, BlankRead DEF ScanLine
  <2>2. t.pending # 0 => Waiting(f, i + 1, t.pending)
    <3>1. ASSUME t.pending # 0 PROVE Waiting(f, i + 1, t.pending)
      <4>1. Waiting(f, i, t.pending)
        BY <1>2, <3>1
      <4>2. t.pending \in 1..i + 1
        BY <4>1 DEF Waiting
      <4>3. \A k \in t.pending + 1..i + 1 : f[k].kind = "blank"
        <5>1. \A k \in t.pending + 1..i + 1 : k \in t.pending + 1..i \/ k = i + 1
          BY <4>2
        <5> QED
          BY <4>1, <5>1, <1>5 DEF Waiting
      <4>4. At(f, i + 1).pending = At(f, i).pending
        BY <2>1
      <4> QED
        BY <4>1, <4>2, <4>3, <4>4 DEF Waiting
    <3> QED
      BY <3>1
  <2> QED
    BY <1>2, <2>1, <2>2
<1>6. CASE l.kind # "blank" /\ r.block
  <2>0. i + 1 \in DOMAIN f /\ l = f[i + 1] /\ t.block /\ r.block /\ l.kind # "blank" /\ l \in Lines
    BY <1>0, <1>2, <1>6
  <2>1. /\ n.block <=> ~Ends(l)
        /\ n.target <=> (t.target /\ ~Ends(l))
        /\ n.pending = t.pending
    <3>1. InnerStep(t, f[i + 1], i + 1, ScanLine(f, t, i + 1, p))
      BY <1>1, <2>0, InnerScan
    <3> QED
      BY <3>1, <2>0, <1>1 DEF InnerStep
  <2>2. /\ u.block <=> ~Ends(l)
        /\ u.owner = (IF Ends(l) THEN NoName ELSE r.owner)
        /\ u.pending = r.pending
    <3>1. /\ ReadLine(r, l).block = ~Ends(l)
          /\ ReadLine(r, l).owner = (IF Ends(l) THEN NoName ELSE r.owner)
          /\ ReadLine(r, l).pending = r.pending
      BY <1>1, <2>0, InnerRead
    <3> QED
      BY <3>1, <1>1
  <2> QED
    BY <1>0, <1>2, <1>6, <2>1, <2>2
<1>7. CASE l.kind # "blank" /\ ~r.block
  <2> PICK owner : owner = Opens(l, r.pending)
    OBVIOUS
  <2>0. owner = Opens(l, Pended(f, t.pending))
    BY <1>3
  <2>9. i + 1 \in DOMAIN f /\ l = f[i + 1] /\ ~t.block /\ ~r.block /\ l.kind # "blank" /\ l \in Lines
    BY <1>0, <1>2, <1>7
  <2>1. /\ n.block <=> (owner # NoName)
        /\ n.target <=> (t.target \/ owner = p)
        /\ n.pending = (IF l.kind = "pend" THEN i + 1 ELSE 0)
    <3>1. OuterStep(t, p, f[i + 1], i + 1, Opens(f[i + 1], Pended(f, t.pending)),
                    ScanLine(f, t, i + 1, p))
      BY <1>1, <2>9, OuterScan
    <3> QED
      BY <3>1, <2>0, <2>9, <1>1 DEF OuterStep
  <2>2. /\ u.block <=> (owner # NoName)
        /\ u.owner = owner
        /\ u.pending = (IF l.kind = "pend" THEN l.name ELSE NoName)
    <3>1. /\ ReadLine(r, l).block = (Opens(l, r.pending) # NoName)
          /\ ReadLine(r, l).owner = Opens(l, r.pending)
          /\ ReadLine(r, l).pending = (IF l.kind = "pend" THEN l.name ELSE NoName)
      BY <1>1, <2>9, OuterRead
    <3> QED
      BY <3>1, <1>1
  <2>3. l.kind = "pend" => owner = NoName
    BY <1>0, <1>1, OpensTypes DEF HasSpec, ReadStates
  <2>4. l.kind = "pend" => Waiting(f, i + 1, i + 1)
    <3>1. \A k \in (i + 1) + 1..i + 1 : f[k].kind = "blank"
      OBVIOUS
    <3>2. i + 1 \in 1..i + 1
      OBVIOUS
    <3> QED
      BY <1>0, <1>7, <2>2, <3>1, <3>2 DEF Waiting
  <2> QED
    BY <1>0, <1>2, <1>7, <2>1, <2>2, <2>3, <2>4
<1> QED
  BY <1>1, <1>5, <1>6, <1>7 DEF ReadStates

LEMMA ScanAgrees ==
  ASSUME NEW f \in Seq(Lines), NEW p \in Names
  PROVE  \A i \in 0..Len(f) : Agrees(f, p, i)
<1> DEFINE P == {i \in Nat : i \in 0..Len(f) => Agrees(f, p, i)}
<1>0. Len(f) \in Nat /\ DOMAIN f = 1..Len(f)
  OBVIOUS
<1>1. 0 \in P
  <2>1. ScanTo(f, p)[0] = ScanStart /\ At(f, 0) = Start
    BY ScanRuns, AtRun
  <2>2. Agrees(f, p, 0)
    BY <2>1 DEF Agrees, In, ScanStart, Start
  <2> QED
    BY <2>2
<1>2. ASSUME NEW i \in P PROVE i + 1 \in P
  <2>1. CASE i + 1 \in 1..Len(f)
    BY <2>1, <1>0, ScanAgreesStep
  <2> QED
    BY <2>1, <1>0
<1>3. P = Nat
  <2> HIDE DEF P
  <2>1. P \in SUBSET Nat
    BY DEF P
  <2> QED
    BY <1>1, <1>2, <2>1, NatSet
<1> QED
  BY <1>0, <1>3

-----------------------------------------------------------------------------
(* What the scan has found, line by line.                                  *)

(* A set of numbers that 0 is in, and with each number below n the next.   *)
LEMMA UpTo ==
  ASSUME NEW n \in Nat, NEW P \in SUBSET (0..n), 0 \in P,
         \A i \in 0..n - 1 : i \in P => i + 1 \in P
  PROVE  \A i \in 0..n : i \in P
<1> DEFINE Q == {i \in Nat : i \in 0..n => i \in P}
<1>1. 0 \in Q
  OBVIOUS
<1>2. ASSUME NEW i \in Q PROVE i + 1 \in Q
  <2>1. i + 1 \in 0..n => i \in 0..n - 1 /\ i \in 0..n
    OBVIOUS
  <2> QED
    BY <2>1
<1>3. Q = Nat
  <2> HIDE DEF Q
  <2>1. Q \in SUBSET Nat
    BY DEF Q
  <2> QED
    BY <1>1, <1>2, <2>1, NatSet
<1> QED
  BY <1>3

LEMMA ScanCases ==
  ASSUME NEW f \in Seq(Lines), NEW p \in Names, NEW i \in 0..Len(f) - 1
  PROVE  /\ f[i + 1] \in Lines /\ At(f, i) \in ReadStates /\ At(f, i + 1) \in ReadStates
         /\ ScanTo(f, p)[i] \in Scans(f) /\ ScanTo(f, p)[i + 1] \in Scans(f)
         /\ \/ /\ f[i + 1].kind = "blank"
               /\ ScanTo(f, p)[i + 1] = ScanTo(f, p)[i]
               /\ At(f, i + 1) = At(f, i)
            \/ /\ f[i + 1].kind # "blank" /\ At(f, i).block
               /\ InnerStep(ScanTo(f, p)[i], f[i + 1], i + 1, ScanTo(f, p)[i + 1])
            \/ /\ f[i + 1].kind # "blank" /\ ~At(f, i).block
               /\ OuterStep(ScanTo(f, p)[i], p, f[i + 1], i + 1,
                            Opens(f[i + 1], At(f, i).pending), ScanTo(f, p)[i + 1])
<1> PICK l : l = f[i + 1]
  OBVIOUS
<1> PICK t : t = ScanTo(f, p)[i]
  OBVIOUS
<1> PICK n : n = ScanTo(f, p)[i + 1]
  OBVIOUS
<1>0. /\ i \in Nat /\ i \in 0..Len(f) /\ i + 1 \in 1..Len(f) /\ i + 1 \in DOMAIN f
      /\ i + 1 \in 0..Len(f) /\ (i + 1) - 1 = i /\ l \in Lines
  OBVIOUS
<1>1. At(f, i) \in ReadStates /\ At(f, i + 1) \in ReadStates
  BY <1>0, AtTypes
<1>2. t \in Scans(f) /\ n \in Scans(f)
  BY <1>0, ScanRuns
<1>3. n = ScanLine(f, t, i + 1, p)
  <2>1. ScanTo(f, p)[i + 1] = ScanLine(f, ScanTo(f, p)[(i + 1) - 1], i + 1, p)
    BY <1>0, ScanRuns
  <2> QED
    BY <2>1, <1>0
<1>4. At(f, i + 1) = ReadLine(At(f, i), l)
  <2>1. At(f, i + 1) = ReadLine(At(f, (i + 1) - 1), f[i + 1])
    BY <1>0, AtRun
  <2> QED
    BY <2>1, <1>0
<1>5. Agrees(f, p, i)
  BY <1>0, ScanAgrees
<1>6. /\ t.block <=> At(f, i).block
      /\ At(f, i).pending = Pended(f, t.pending)
  BY <1>5 DEF Agrees, Waiting, Pended
<1>7. CASE l.kind = "blank"
  <2>1. n = t
    BY <1>3, <1>7 DEF ScanLine
  <2>2. At(f, i + 1) = At(f, i)
    BY <1>4, <1>7, BlankRead
  <2> QED
    BY <1>0, <1>1, <1>2, <1>7, <2>1, <2>2
<1>8. CASE l.kind # "blank" /\ At(f, i).block
  <2>1. f[i + 1].kind # "blank" /\ t.block
    BY <1>6, <1>8
  <2>2. InnerStep(t, f[i + 1], i + 1, ScanLine(f, t, i + 1, p))
    BY <1>0, <1>2, <2>1, InnerScan
  <2> QED
    BY <1>0, <1>1, <1>2, <1>3, <1>8, <2>2
<1>9. CASE l.kind # "blank" /\ ~At(f, i).block
  <2>1. f[i + 1].kind # "blank" /\ ~t.block
    BY <1>6, <1>9
  <2>2. OuterStep(t, p, f[i + 1], i + 1, Opens(f[i + 1], Pended(f, t.pending)),
                  ScanLine(f, t, i + 1, p))
    BY <1>0, <1>2, <2>1, OuterScan
  <2> QED
    BY <1>0, <1>1, <1>2, <1>3, <1>6, <1>9, <2>2
<1> QED
  BY <1>7, <1>8, <1>9

LEMMA AtCases ==
  ASSUME NEW f \in Seq(Lines), NEW i \in 0..Len(f) - 1
  PROVE  \/ /\ f[i + 1].kind = "blank"
            /\ At(f, i + 1) = At(f, i)
         \/ /\ f[i + 1].kind # "blank" /\ At(f, i).block
            /\ At(f, i + 1).block = ~Ends(f[i + 1])
            /\ At(f, i + 1).owner = (IF Ends(f[i + 1]) THEN NoName ELSE At(f, i).owner)
            /\ At(f, i + 1).pending = At(f, i).pending
         \/ /\ f[i + 1].kind # "blank" /\ ~At(f, i).block
            /\ At(f, i + 1).block = (Opens(f[i + 1], At(f, i).pending) # NoName)
            /\ At(f, i + 1).owner = Opens(f[i + 1], At(f, i).pending)
            /\ At(f, i + 1).pending = (IF f[i + 1].kind = "pend" THEN f[i + 1].name ELSE NoName)
<1> PICK l : l = f[i + 1]
  OBVIOUS
<1> PICK r : r = At(f, i)
  OBVIOUS
<1>0. /\ i \in 0..Len(f) /\ i + 1 \in 1..Len(f) /\ (i + 1) - 1 = i /\ l \in Lines
  OBVIOUS
<1>1. r \in ReadStates
  BY <1>0, AtTypes
<1>2. At(f, i + 1) = ReadLine(r, l)
  <2>1. At(f, i + 1) = ReadLine(At(f, (i + 1) - 1), f[i + 1])
    BY <1>0, AtRun
  <2> QED
    BY <2>1, <1>0
<1>3. CASE l.kind = "blank"
  <2>1. ReadLine(r, l) = r
    BY <1>3, BlankRead
  <2> QED
    BY <1>2, <1>3, <2>1
<1>4. CASE l.kind # "blank" /\ r.block
  <2>1. /\ ReadLine(r, l).block = ~Ends(l)
        /\ ReadLine(r, l).owner = (IF Ends(l) THEN NoName ELSE r.owner)
        /\ ReadLine(r, l).pending = r.pending
    BY <1>0, <1>1, <1>4, InnerRead
  <2> QED
    BY <1>2, <1>4, <2>1
<1>5. CASE l.kind # "blank" /\ ~r.block
  <2>1. /\ ReadLine(r, l).block = (Opens(l, r.pending) # NoName)
        /\ ReadLine(r, l).owner = Opens(l, r.pending)
        /\ ReadLine(r, l).pending = (IF l.kind = "pend" THEN l.name ELSE NoName)
    BY <1>0, <1>1, <1>5, OuterRead
  <2> QED
    BY <1>2, <1>5, <2>1
<1> QED
  BY <1>3, <1>4, <1>5

(* The lines of p outside a block and inside its own.                      *)
SingleLine(f, p, k) == ~At(f, k - 1).block /\ f[k].kind = "single" /\ f[k].name = p
BlockLine(f, p, k) == In(f, p, k - 1) /\ HasSpec(f[k])
IsLoc(f, p, k, loc) ==
  \/ SingleLine(f, p, k) /\ loc = Single(f[k], k)
  \/ BlockLine(f, p, k) /\ loc = Inner(f[k], k)

LocsTo(f, p, i) ==
  /\ \A loc \in ScanTo(f, p)[i].locs : loc.at \in 1..i /\ IsLoc(f, p, loc.at, loc)
  /\ \A k \in 1..i : /\ SingleLine(f, p, k) => Single(f[k], k) \in ScanTo(f, p)[i].locs
                     /\ BlockLine(f, p, k) => Inner(f[k], k) \in ScanTo(f, p)[i].locs

LEMMA LocFields ==
  ASSUME NEW l, NEW i
  PROVE  /\ Single(l, i).at = i /\ Single(l, i).single /\ Single(l, i).name = l.thread
         /\ Single(l, i).open = l.open /\ ~Single(l, i).closed
         /\ Inner(l, i).at = i /\ ~Inner(l, i).single /\ Inner(l, i).name = InnerName(l)
         /\ ~Inner(l, i).open /\ Inner(l, i).closed = l.closed
BY Zenon DEF Single, Inner

LEMMA LocsStep ==
  ASSUME NEW f \in Seq(Lines), NEW p \in Names, NEW i \in 0..Len(f) - 1, LocsTo(f, p, i)
  PROVE  LocsTo(f, p, i + 1)
<1> PICK t : t = ScanTo(f, p)[i].locs
  OBVIOUS
<1> PICK n : n = ScanTo(f, p)[i + 1].locs
  OBVIOUS
<1> PICK l : l = f[i + 1]
  OBVIOUS
<1>0. (i + 1) - 1 = i /\ 1..i + 1 = 1..i \cup {i + 1} /\ i + 1 \in 1..i + 1
  OBVIOUS
<1>1. /\ n = t \cup (IF SingleLine(f, p, i + 1) THEN {Single(l, i + 1)} ELSE {})
               \cup (IF BlockLine(f, p, i + 1) THEN {Inner(l, i + 1)} ELSE {})
  <2>1. CASE l.kind = "blank" /\ ScanTo(f, p)[i + 1] = ScanTo(f, p)[i]
    BY <2>1, <1>0 DEF SingleLine, BlockLine, HasSpec
  <2>2. CASE /\ l.kind # "blank" /\ At(f, i).block
             /\ InnerStep(ScanTo(f, p)[i], l, i + 1, ScanTo(f, p)[i + 1])
    <3>1. ScanTo(f, p)[i].target <=> In(f, p, i)
      <4>1. Agrees(f, p, i)
        BY ScanAgrees
      <4> QED
        BY <4>1 DEF Agrees
    <3> QED
      BY <2>2, <3>1, <1>0 DEF InnerStep, SingleLine, BlockLine
  <2>3. CASE /\ l.kind # "blank" /\ ~At(f, i).block
             /\ OuterStep(ScanTo(f, p)[i], p, l, i + 1,
                          Opens(l, At(f, i).pending), ScanTo(f, p)[i + 1])
    BY <2>3, <1>0 DEF OuterStep, SingleLine, BlockLine, In
  <2> QED
    BY <2>1, <2>2, <2>3, ScanCases
<1>2. ASSUME NEW loc \in n PROVE loc.at \in 1..i + 1 /\ IsLoc(f, p, loc.at, loc)
  <2>1. CASE loc \in t
    BY <2>1, <1>0 DEF LocsTo
  <2>2. CASE SingleLine(f, p, i + 1) /\ loc = Single(l, i + 1)
    <3>1. loc.at = i + 1
      BY <2>2, LocFields
    <3> QED
      BY <2>2, <3>1, <1>0 DEF IsLoc
  <2>3. CASE BlockLine(f, p, i + 1) /\ loc = Inner(l, i + 1)
    <3>1. loc.at = i + 1
      BY <2>3, LocFields
    <3> QED
      BY <2>3, <3>1, <1>0 DEF IsLoc
  <2> QED
    BY <1>1, <2>1, <2>2, <2>3
<1>3. ASSUME NEW k \in 1..i + 1
      PROVE  /\ SingleLine(f, p, k) => Single(f[k], k) \in n
             /\ BlockLine(f, p, k) => Inner(f[k], k) \in n
  <2>1. CASE k \in 1..i
    BY <2>1, <1>1 DEF LocsTo
  <2>2. CASE k = i + 1
    BY <2>2, <1>1
  <2> QED
    BY <1>0, <2>1, <2>2
<1> QED
  BY <1>2, <1>3 DEF LocsTo

LEMMA LocsFound ==
  ASSUME NEW f \in Seq(Lines), NEW p \in Names
  PROVE  LocsTo(f, p, Len(f))
<1> DEFINE P == {i \in 0..Len(f) : LocsTo(f, p, i)}
<1>0. Len(f) \in Nat
  OBVIOUS
<1>1. 0 \in P
  <2>1. ScanTo(f, p)[0].locs = {}
    BY ScanRuns DEF ScanStart
  <2> QED
    BY <2>1, <1>0 DEF LocsTo
<1>2. ASSUME NEW i \in 0..Len(f) - 1, i \in P PROVE i + 1 \in P
  BY <1>2, <1>0, LocsStep
<1>3. P \in SUBSET (0..Len(f))
  OBVIOUS
<1> HIDE DEF P
<1>4. \A i \in 0..Len(f) : i \in P
  BY <1>0, <1>1, <1>2, <1>3, UpTo
<1>5. Len(f) \in P
  BY <1>0, <1>4
<1> QED
  BY <1>5 DEF P

(* The lines a scan finds, by their numbers.                               *)
LEMMA LocsAre ==
  ASSUME NEW f \in Seq(Lines), NEW p \in Names
  PROVE  /\ \A loc \in Scan(f, p).locs : loc.at \in DOMAIN f /\ IsLoc(f, p, loc.at, loc)
         /\ \A k \in DOMAIN f : SingleLine(f, p, k) => Single(f[k], k) \in Scan(f, p).locs
         /\ \A k \in DOMAIN f : BlockLine(f, p, k) => Inner(f[k], k) \in Scan(f, p).locs
<1>1. Scan(f, p) = ScanTo(f, p)[Len(f)] /\ DOMAIN f = 1..Len(f)
  BY DEF Scan
<1> QED
  BY <1>1, LocsFound DEF LocsTo

LEMMA LocAtIs ==
  ASSUME NEW f \in Seq(Lines), NEW p \in Names, NEW locs \in SUBSET Scan(f, p).locs,
         NEW k \in Ats(locs)
  PROVE  /\ k \in DOMAIN f /\ LocAt(locs, k) \in locs /\ LocAt(locs, k).at = k
         /\ IsLoc(f, p, k, LocAt(locs, k))
<1>1. PICK loc \in locs : loc.at = k
  BY DEF Ats
<1>2. LocAt(locs, k) \in locs /\ LocAt(locs, k).at = k
  BY <1>1 DEF LocAt
<1> QED
  BY <1>2, LocsAre

-----------------------------------------------------------------------------
(* The first block of p, as the scan bounds it.                            *)
Opener(f, p, k) ==
  /\ f[k].kind # "blank" /\ ~At(f, k - 1).block
  /\ Opens(f[k], At(f, k - 1).pending) = p

BlockIs(f, p, i) ==
  LET t == ScanTo(f, p)[i] IN
  /\ t.open = 0 => t.close = 0 /\ \A k \in 0..i : ~In(f, p, k)
  /\ t.open # 0 => /\ t.open \in 1..i /\ Opener(f, p, t.open)
                   /\ \A k \in 0..t.open - 1 : ~In(f, p, k)
                   /\ \A k \in t.open..i : t.close = 0 \/ k < t.close => In(f, p, k)
  /\ t.close # 0 => /\ t.open # 0 /\ t.close \in t.open + 1..i
                    /\ f[t.close].kind # "blank" /\ Ends(f[t.close])

LEMMA BlockStep ==
  ASSUME NEW f \in Seq(Lines), NEW p \in Names, NEW i \in 0..Len(f) - 1, BlockIs(f, p, i)
  PROVE  BlockIs(f, p, i + 1)
<1> PICK t : t = ScanTo(f, p)[i]
  OBVIOUS
<1> PICK n : n = ScanTo(f, p)[i + 1]
  OBVIOUS
<1> PICK l : l = f[i + 1]
  OBVIOUS
<1> PICK a : a = t.open
  OBVIOUS
<1> PICK z : z = t.close
  OBVIOUS
<1> DEFINE I(k) == In(f, p, k)
<1>0. /\ (i + 1) - 1 = i /\ i \in 0..Len(f) /\ i \in Nat
      /\ 0..i + 1 = 0..i \cup {i + 1} /\ p # NoName
  BY NamesAssumption DEF Names
<1>1. /\ a = 0 => z = 0 /\ \A k \in 0..i : ~I(k)
      /\ a # 0 => /\ a \in 1..i /\ Opener(f, p, a)
                  /\ \A k \in 0..a - 1 : ~I(k)
                  /\ \A k \in a..i : z = 0 \/ k < z => I(k)
      /\ z # 0 => /\ a # 0 /\ z \in a + 1..i /\ f[z].kind # "blank" /\ Ends(f[z])
  BY DEF BlockIs
<1>2. t.target <=> I(i)
  <2>1. Agrees(f, p, i)
    BY <1>0, ScanAgrees
  <2> QED
    BY <2>1 DEF Agrees
<1>3. a # 0 /\ z = 0 => I(i) /\ At(f, i).block
  <2>1. ASSUME a # 0, z = 0 PROVE I(i)
    <3>1. i \in a..i
      BY <1>0, <1>1, <2>1
    <3> QED
      BY <1>1, <2>1, <3>1
  <2> QED
    BY <2>1 DEF In
<1> SUFFICES
      /\ n.open = 0 => n.close = 0 /\ \A k \in 0..i + 1 : ~I(k)
      /\ n.open # 0 => /\ n.open \in 1..i + 1 /\ Opener(f, p, n.open)
                       /\ \A k \in 0..n.open - 1 : ~I(k)
                       /\ \A k \in n.open..i + 1 : n.close = 0 \/ k < n.close => I(k)
      /\ n.close # 0 => /\ n.open # 0 /\ n.close \in n.open + 1..i + 1
                        /\ f[n.close].kind # "blank" /\ Ends(f[n.close])
  BY DEF BlockIs
<1>4. ASSUME n.open = a, n.close = z, a # 0 /\ z = 0 => I(i + 1), a = 0 => ~I(i + 1)
      PROVE  /\ n.open = 0 => n.close = 0 /\ \A k \in 0..i + 1 : ~I(k)
             /\ n.open # 0 => /\ n.open \in 1..i + 1 /\ Opener(f, p, n.open)
                              /\ \A k \in 0..n.open - 1 : ~I(k)
                              /\ \A k \in n.open..i + 1 : n.close = 0 \/ k < n.close => I(k)
             /\ n.close # 0 => /\ n.open # 0 /\ n.close \in n.open + 1..i + 1
                               /\ f[n.close].kind # "blank" /\ Ends(f[n.close])
  <2> HIDE DEF I
  <2>1. CASE a = 0
    BY <1>0, <1>1, <1>4, <2>1
  <2>2. CASE a # 0
    <3>1. a \in 1..i + 1 /\ z # 0 => z \in a + 1..i + 1
      BY <1>0, <1>1, <2>2
    <3>2. ASSUME NEW k \in a..i + 1, z = 0 \/ k < z PROVE I(k)
      <4>1. k \in a..i \/ k = i + 1
        BY <1>0, <1>1, <2>2
      <4>2. k = i + 1 => z = 0
        BY <1>0, <1>1, <3>2, <2>2
      <4> QED
        BY <1>1, <1>4, <2>2, <3>2, <4>1, <4>2
    <3> QED
      BY <1>0, <1>1, <1>4, <2>2, <3>1, <3>2
  <2> QED
    BY <2>1, <2>2
<1>5. CASE l.kind = "blank" /\ n = t /\ At(f, i + 1) = At(f, i)
  <2>1. I(i + 1) <=> I(i)
    BY <1>5 DEF In
  <2>2. a = 0 => ~I(i)
    BY <1>0, <1>1
  <2> HIDE DEF I
  <2> QED
    BY <1>3, <1>4, <1>5, <2>1, <2>2
<1>6. CASE l.kind # "blank" /\ At(f, i).block /\ InnerStep(t, l, i + 1, n)
  <2>1. I(i + 1) <=> (I(i) /\ ~Ends(l))
    BY <1>6, <1>0, AtCases DEF In
  <2>2. a = 0 => ~I(i)
    BY <1>0, <1>1
  <2>3. /\ n.open = a
        /\ n.close = IF I(i) /\ Ends(l) /\ z = 0 THEN i + 1 ELSE z
    BY <1>2, <1>6 DEF InnerStep
  <2> HIDE DEF I
  <2>4. CASE I(i) /\ Ends(l) /\ z = 0
    <3>1. a # 0 /\ n.close = i + 1 /\ a \in 1..i
      BY <1>1, <2>2, <2>3, <2>4
    <3>2. \A k \in a..i + 1 : k < i + 1 => k \in a..i
      BY <1>0, <3>1
    <3>3. \A k \in a..i : I(k)
      BY <1>1, <2>4, <3>1
    <3> QED
      BY <1>0, <1>1, <1>6, <2>3, <2>4, <3>1, <3>2, <3>3
  <2>5. CASE ~(I(i) /\ Ends(l) /\ z = 0)
    BY <1>3, <1>4, <2>1, <2>2, <2>3, <2>5
  <2> QED
    BY <2>4, <2>5
<1>7. CASE /\ l.kind # "blank" /\ ~At(f, i).block
           /\ OuterStep(t, p, l, i + 1, Opens(l, At(f, i).pending), n)
  <2>1. I(i + 1) <=> Opens(l, At(f, i).pending) = p
    BY <1>7, <1>0, AtCases DEF In
  <2>2. /\ n.close = z
        /\ n.open = IF Opens(l, At(f, i).pending) = p /\ z = 0 THEN i + 1 ELSE a
    BY <1>7 DEF OuterStep
  <2>3. a # 0 => z # 0
    BY <1>3, <1>7
  <2> HIDE DEF I
  <2>4. CASE Opens(l, At(f, i).pending) = p /\ z = 0
    <3>1. n.open = i + 1 /\ n.close = 0 /\ a = 0
      BY <2>2, <2>3, <2>4
    <3>2. Opener(f, p, i + 1)
      BY <1>0, <1>7, <2>4 DEF Opener
    <3>3. \A k \in 0..(i + 1) - 1 : ~I(k)
      BY <1>0, <1>1, <3>1
    <3>4. \A k \in i + 1..i + 1 : I(k)
      BY <2>1, <2>4
    <3> QED
      BY <1>0, <3>1, <3>2, <3>3, <3>4
  <2>5. CASE ~(Opens(l, At(f, i).pending) = p /\ z = 0)
    BY <1>1, <1>4, <2>1, <2>2, <2>3, <2>5
  <2> QED
    BY <2>4, <2>5
<1> QED
  <2> HIDE DEF I
  <2> QED
    BY <1>5, <1>6, <1>7, ScanCases

LEMMA BlockFound ==
  ASSUME NEW f \in Seq(Lines), NEW p \in Names
  PROVE  \A i \in 0..Len(f) : BlockIs(f, p, i)
<1> DEFINE P == {i \in 0..Len(f) : BlockIs(f, p, i)}
<1>0. Len(f) \in Nat
  OBVIOUS
<1>1. 0 \in P
  <2>1. ScanTo(f, p)[0] = ScanStart /\ At(f, 0) = Start
    BY ScanRuns, AtRun
  <2>2. BlockIs(f, p, 0)
    BY <2>1 DEF BlockIs, ScanStart, Start, In
  <2> QED
    BY <2>2, <1>0
<1>2. ASSUME NEW i \in 0..Len(f) - 1, i \in P PROVE i + 1 \in P
  BY <1>2, <1>0, BlockStep
<1>3. P \in SUBSET (0..Len(f))
  OBVIOUS
<1> HIDE DEF P
<1>4. \A i \in 0..Len(f) : i \in P
  BY <1>0, <1>1, <1>2, <1>3, UpTo
<1> QED
  BY <1>4 DEF P

-----------------------------------------------------------------------------
(* The first package line of p: what stands there, and that it opens the   *)
(* first block of p unless a thread line has opened one before.            *)
Brace(f, p, at, j) ==
  /\ f[at].kind = "pend" /\ f[at].name = p /\ ~At(f, at - 1).block
  /\ f[j].kind = "bare" /\ f[j].name = NoName
  /\ \A k \in at + 1..j - 1 : f[k].kind = "blank"

Own(f, t, j) ==
  \/ t.open = j
  \/ t.open \in 1..j - 1 /\ t.close # 0 /\ f[t.open].kind = "single"

HeadIs(f, p, t, i) ==
  LET at == t.first.at IN
  \/ t.first = Nowhere /\ (t.open # 0 => f[t.open].kind = "single")
  \/ /\ t.first.kind = "Standalone" /\ at \in 1..i
     /\ f[at].kind = "rule" /\ f[at].name = p /\ ~f[at].open /\ ~At(f, at - 1).block
  \/ /\ t.first.kind = "OpenInline" /\ at \in 1..i /\ Own(f, t, at)
     /\ f[at].kind = "rule" /\ f[at].name = p /\ f[at].open /\ ~At(f, at - 1).block
  \/ /\ t.first.kind = "BareOpen" /\ at \in 1..i /\ Own(f, t, at)
     /\ f[at].kind = "bare" /\ f[at].name = p /\ ~At(f, at - 1).block
  \/ /\ t.first.kind = "BarePending" /\ at \in 1..i
     /\ \E j \in at + 1..i : Own(f, t, j) /\ Brace(f, p, at, j)

LEMMA PkgLineIs ==
  ASSUME NEW l \in Lines, NEW i \in Nat, NEW pending \in Nat
  PROVE  /\ l.kind = "rule" =>
              /\ PkgLine(l, i, pending).kind = IF l.open THEN "OpenInline" ELSE "Standalone"
              /\ PkgLine(l, i, pending).at = i
         /\ l.kind = "bare" /\ l.name # NoName =>
              PkgLine(l, i, pending).kind = "BareOpen" /\ PkgLine(l, i, pending).at = i
         /\ l.kind = "bare" /\ l.name = NoName /\ pending # 0 =>
              PkgLine(l, i, pending).kind = "BarePending" /\ PkgLine(l, i, pending).at = pending
         /\ l.kind \notin {"rule", "bare"} => PkgLine(l, i, pending) = Nowhere
<1>1. l.open \in BOOLEAN
  BY LineFields DEF Fields
<1> QED
  BY <1>1 DEF PkgLine

LEMMA NowhereIs == Nowhere.kind = "none" /\ Nowhere.at = 0
BY DEF Nowhere

(* The first package line, once found, stays.                              *)
LEMMA HeadKept ==
  ASSUME NEW f, NEW p, NEW t, NEW n, NEW i \in Nat, HeadIs(f, p, t, i),
         n.first = t.first, n.open = t.open, t.close # 0 => n.close # 0
  PROVE  HeadIs(f, p, n, i + 1)
<1>1. \A j : Own(f, t, j) => Own(f, n, j)
  BY DEF Own
<1>2. \A k : k \in 1..i => k \in 1..i + 1
  OBVIOUS
<1>3. \A k \in 1..i : \A j : j \in k + 1..i => j \in k + 1..i + 1
  OBVIOUS
<1>4. CASE t.first = Nowhere
  BY <1>4, NowhereIs DEF HeadIs
<1>5. CASE t.first.kind = "BarePending"
  <2>1. t.first.at \in 1..i
    BY <1>5, NowhereIs DEF HeadIs
  <2>2. PICK j \in t.first.at + 1..i : Own(f, t, j) /\ Brace(f, p, t.first.at, j)
    BY <1>5, NowhereIs DEF HeadIs
  <2>3. j \in t.first.at + 1..i + 1 /\ t.first.at \in 1..i + 1
    BY <2>1, <1>2, <1>3
  <2> QED
    BY <1>1, <1>5, <2>2, <2>3 DEF HeadIs
<1>6. CASE t.first # Nowhere /\ t.first.kind # "BarePending"
  <2>1. t.first.at \in 1..i + 1
    BY <1>2, <1>6 DEF HeadIs
  <2> QED
    BY <1>1, <1>6, <2>1 DEF HeadIs
<1> QED
  BY <1>4, <1>5, <1>6

LEMMA HeadStep ==
  ASSUME NEW f \in Seq(Lines), NEW p \in Names, NEW i \in 0..Len(f) - 1,
         HeadIs(f, p, ScanTo(f, p)[i], i)
  PROVE  HeadIs(f, p, ScanTo(f, p)[i + 1], i + 1)
<1> PICK t : t = ScanTo(f, p)[i]
  OBVIOUS
<1> PICK n : n = ScanTo(f, p)[i + 1]
  OBVIOUS
<1> PICK l : l = f[i + 1]
  OBVIOUS
<1>0. /\ (i + 1) - 1 = i /\ i \in 0..Len(f) /\ i \in Nat /\ i + 1 \in Nat
      /\ p # NoName /\ l \in Lines /\ DOMAIN f = 1..Len(f)
      /\ i + 1 \in 1..i + 1
  BY NamesAssumption DEF Names
<1>1. HeadIs(f, p, t, i)
  OBVIOUS
<1>2. BlockIs(f, p, i) /\ t \in Scans(f)
  BY <1>0, BlockFound, ScanRuns
<1>3. CASE l.kind = "blank" /\ n = t
  BY <1>0, <1>1, <1>3, HeadKept
<1>4. CASE InnerStep(t, l, i + 1, n)
  <2>1. n.first = t.first /\ n.open = t.open /\ (t.close # 0 => n.close # 0)
    BY <1>4, <1>0 DEF InnerStep
  <2> QED
    BY <1>0, <1>1, <2>1, HeadKept
<1>5. CASE /\ l.kind # "blank" /\ ~At(f, i).block
           /\ OuterStep(t, p, l, i + 1, Opens(l, At(f, i).pending), n)
  <2> PICK owner : owner = Opens(l, At(f, i).pending)
    OBVIOUS
  <2>1. /\ n.first = (IF p \in {l.name, owner} /\ t.first = Nowhere
                      THEN PkgLine(l, i + 1, t.pending) ELSE t.first)
        /\ n.open = (IF owner = p /\ t.close = 0 THEN i + 1 ELSE t.open)
        /\ n.close = t.close
    BY <1>5 DEF OuterStep
  <2>2. t.open # 0 => t.open \in 1..i /\ t.close # 0
    <3>1. ASSUME t.open # 0, t.close = 0 PROVE FALSE
      <4>1. i \in t.open..i
        BY <1>0, <1>2, <3>1 DEF BlockIs
      <4>2. In(f, p, i)
        BY <1>2, <3>1, <4>1 DEF BlockIs
      <4> QED
        BY <4>2, <1>5 DEF In
    <3> QED
      BY <3>1, <1>2 DEF BlockIs
  <2>9. t.open = 0 => t.close = 0
    BY <1>2 DEF BlockIs
  <2>3. At(f, i) \in ReadStates
    BY <1>0, AtTypes
  <2>4. /\ l.kind = "bare" => owner = IF l.name = NoName THEN At(f, i).pending ELSE l.name
        /\ HasSpec(l) => owner = IF l.open THEN l.name ELSE NoName
        /\ l.kind # "bare" /\ ~HasSpec(l) => owner = NoName
    BY <1>0, <2>3, OpensTypes DEF ReadStates
  <2>5. CASE t.first # Nowhere
    <3>1. CASE owner = p /\ t.close = 0
      (* the first one is a line without a block *)
      <4>1. t.open = 0 /\ n.first = t.first
        BY <2>1, <2>2, <2>5, <3>1
      <4>2. t.first.kind = "Standalone"
        <5>1. \A j \in 1..i : ~Own(f, t, j)
          BY <4>1, <1>0 DEF Own
        <5>2. \A at \in 1..i : \A j \in at + 1..i : j \in 1..i
          BY <1>0
        <5> QED
          BY <1>1, <2>5, <5>1, <5>2 DEF HeadIs
      <4>3. /\ t.first.at \in 1..i
            /\ f[t.first.at].kind = "rule" /\ f[t.first.at].name = p /\ ~f[t.first.at].open
            /\ ~At(f, t.first.at - 1).block
        BY <1>1, <4>2, NowhereIs DEF HeadIs
      <4>4. t.first.at \in 1..i + 1
        BY <4>3, <1>0
      <4> QED
        BY <4>1, <4>2, <4>3, <4>4 DEF HeadIs
    <3>2. CASE ~(owner = p /\ t.close = 0)
      <4>1. n.first = t.first /\ n.open = t.open /\ (t.close # 0 => n.close # 0)
        BY <2>1, <2>5, <3>2
      <4> QED
        BY <1>0, <1>1, <4>1, HeadKept
    <3> QED
      BY <3>1, <3>2
  <2>6. CASE t.first = Nowhere /\ p \notin {l.name, owner}
    <3>1. n.first = t.first /\ n.open = t.open /\ (t.close # 0 => n.close # 0)
      BY <2>1, <2>6
    <3> QED
      BY <1>0, <1>1, <3>1, HeadKept
  <2>7. CASE t.first = Nowhere /\ p \in {l.name, owner}
    <3>0. n.first = PkgLine(l, i + 1, t.pending) /\ t.pending \in Nat
      BY <2>1, <2>7, <1>0, <1>2 DEF Scans
    <3>1. t.open # 0 => f[t.open].kind = "single"
      BY <1>1, <2>7, NowhereIs DEF HeadIs
    <3>2. owner = p => Own(f, n, i + 1)
      BY <1>0, <2>1, <2>2, <2>9, <3>1 DEF Own
    <3>3. CASE l.kind = "rule"
      <4>1. l.name = p /\ (l.open => owner = p) /\ l.open \in BOOLEAN
        BY <1>0, <2>4, <2>7, <3>3, LineFields DEF HasSpec, Fields
      <4>2. n.first.kind = (IF l.open THEN "OpenInline" ELSE "Standalone") /\ n.first.at = i + 1
        BY <1>0, <3>0, <3>3, PkgLineIs
      <4> QED
        BY <1>0, <1>5, <3>2, <3>3, <4>1, <4>2 DEF HeadIs
    <3>4. CASE l.kind = "bare" /\ l.name # NoName
      <4>1. l.name = p /\ owner = p
        BY <2>4, <2>7, <3>4
      <4>2. n.first.kind = "BareOpen" /\ n.first.at = i + 1
        BY <1>0, <3>0, <3>4, PkgLineIs
      <4> QED
        BY <1>0, <1>5, <3>2, <3>4, <4>1, <4>2 DEF HeadIs
    <3>5. CASE l.kind = "bare" /\ l.name = NoName
      <4>1. At(f, i).pending = p /\ owner = p
        BY <1>0, <2>4, <2>7, <3>5
      <4>2. Agrees(f, p, i)
        BY <1>0, ScanAgrees
      <4>3. t.pending # 0 /\ Waiting(f, i, t.pending)
        BY <1>0, <4>1, <4>2 DEF Agrees
      <4>4. n.first.kind = "BarePending" /\ n.first.at = t.pending
        <5> PICK k : k = t.pending
          OBVIOUS
        <5>1. k \in Nat /\ k # 0 /\ i + 1 \in Nat /\ n.first = PkgLine(l, i + 1, k)
          BY <1>0, <3>0, <4>3
        <5>2. PkgLine(l, i + 1, k).kind = "BarePending" /\ PkgLine(l, i + 1, k).at = k
          BY <1>0, <3>5, <5>1, PkgLineIs
        <5> QED
          BY <5>1, <5>2
      <4>5. Brace(f, p, t.pending, i + 1)
        BY <1>0, <3>5, <4>1, <4>3 DEF Waiting, Brace
      <4>6. i + 1 \in t.pending + 1..i + 1 /\ t.pending \in 1..i + 1
        BY <1>0, <4>3 DEF Waiting
      <4> QED
        BY <3>2, <4>1, <4>4, <4>5, <4>6 DEF HeadIs
    <3>6. CASE l.kind \notin {"rule", "bare"}
      <4>1. n.first = Nowhere
        BY <1>0, <3>0, <3>6, PkgLineIs
      <4>2. n.open # 0 => f[n.open].kind = "single"
        <5>1. owner = p => l.kind = "single"
          BY <1>0, <2>4, <3>6 DEF HasSpec
        <5> QED
          BY <5>1, <3>1, <2>1
      <4> QED
        BY <4>1, <4>2 DEF HeadIs
    <3> QED
      BY <3>3, <3>4, <3>5, <3>6
  <2> QED
    BY <2>5, <2>6, <2>7
<1> QED
  BY <1>3, <1>4, <1>5, ScanCases

LEMMA HeadFound ==
  ASSUME NEW f \in Seq(Lines), NEW p \in Names
  PROVE  \A i \in 0..Len(f) : HeadIs(f, p, ScanTo(f, p)[i], i)
<1> DEFINE P == {i \in 0..Len(f) : HeadIs(f, p, ScanTo(f, p)[i], i)}
<1>0. Len(f) \in Nat
  OBVIOUS
<1>1. 0 \in P
  <2>1. ScanTo(f, p)[0] = ScanStart
    BY ScanRuns
  <2>2. HeadIs(f, p, ScanStart, 0)
    BY DEF HeadIs, ScanStart
  <2> QED
    BY <2>1, <2>2, <1>0
<1>2. ASSUME NEW i \in 0..Len(f) - 1, i \in P PROVE i + 1 \in P
  BY <1>2, <1>0, HeadStep
<1>3. P \in SUBSET (0..Len(f))
  OBVIOUS
<1> HIDE DEF P
<1>4. \A i \in 0..Len(f) : i \in P
  BY <1>0, <1>1, <1>2, <1>3, UpTo
<1> QED
  BY <1>4 DEF P

-----------------------------------------------------------------------------
(* What has been watched for p is what the scan for p finds.               *)
Watches(f, p, i) ==
  LET t == ScanTo(f, p)[i]
      m == Seen(f, p, i) IN
  /\ m.known <=> t.first # Nowhere
  /\ m.trap <=> t.first.kind = "Standalone" /\ f[t.first.at].note

LEMMA HeadLine ==
  ASSUME NEW s \in ReadStates, NEW l \in Lines, NEW p \in Names, NEW i \in Nat,
         NEW pending \in Nat, ~s.block, s.pending = p => pending # 0,
         NEW h, h = IF p \in {l.name, Opens(l, s.pending)} THEN PkgLine(l, i, pending) ELSE Nowhere
  PROVE  /\ h # Nowhere <=> IsHead(s, l, p)
         /\ h.kind = "Standalone" <=> (IsHead(s, l, p) /\ l.kind = "rule" /\ ~l.open)
         /\ h.kind = "Standalone" => h.at = i
<1> PICK owner : owner = Opens(l, s.pending)
  OBVIOUS
<1>0. p # NoName /\ l.open \in BOOLEAN
  BY NamesAssumption, LineFields DEF Names, Fields
<1>1. /\ l.kind = "bare" => owner = IF l.name = NoName THEN s.pending ELSE l.name
      /\ HasSpec(l) => owner = IF l.open THEN l.name ELSE NoName
      /\ l.kind # "bare" /\ ~HasSpec(l) => owner = NoName
  BY OpensTypes DEF ReadStates
<1>2. CASE l.kind = "rule"
  <2>1. IsHead(s, l, p) <=> l.name = p
    BY <1>2 DEF IsHead
  <2>2. p \in {l.name, owner} <=> l.name = p
    BY <1>0, <1>1, <1>2 DEF HasSpec
  <2>3. /\ PkgLine(l, i, pending).kind = (IF l.open THEN "OpenInline" ELSE "Standalone")
        /\ PkgLine(l, i, pending).at = i
    BY <1>2, PkgLineIs
  <2> QED
    BY <1>0, <1>2, <2>1, <2>2, <2>3, NowhereIs
<1>3. CASE l.kind = "bare" /\ l.name # NoName
  <2>1. IsHead(s, l, p) <=> l.name = p
    BY <1>1, <1>3 DEF IsHead
  <2>2. PkgLine(l, i, pending).kind = "BareOpen"
    BY <1>3, PkgLineIs
  <2> QED
    BY <1>1, <1>3, <2>1, <2>2, NowhereIs
<1>4. CASE l.kind = "bare" /\ l.name = NoName
  <2>1. IsHead(s, l, p) <=> s.pending = p
    BY <1>1, <1>4 DEF IsHead
  <2>2. pending # 0 => PkgLine(l, i, pending).kind = "BarePending"
    BY <1>4, PkgLineIs
  <2> QED
    BY <1>0, <1>1, <1>4, <2>1, <2>2, NowhereIs
<1>5. CASE l.kind \notin {"rule", "bare"}
  <2>1. ~IsHead(s, l, p)
    BY <1>5 DEF IsHead
  <2>2. PkgLine(l, i, pending) = Nowhere
    BY <1>5, PkgLineIs
  <2> QED
    BY <1>5, <2>1, <2>2, NowhereIs
<1> QED
  BY <1>2, <1>3, <1>4, <1>5

LEMMA WatchesStep ==
  ASSUME NEW f \in Seq(Lines), NEW p \in Names, NEW i \in 0..Len(f) - 1, Watches(f, p, i)
  PROVE  Watches(f, p, i + 1)
<1> PICK t : t = ScanTo(f, p)[i]
  OBVIOUS
<1> PICK n : n = ScanTo(f, p)[i + 1]
  OBVIOUS
<1> PICK l : l = f[i + 1]
  OBVIOUS
<1> PICK m : m = Seen(f, p, i)
  OBVIOUS
<1> PICK w : w = Seen(f, p, i + 1)
  OBVIOUS
<1> PICK s : s = At(f, i)
  OBVIOUS
<1>0. /\ (i + 1) - 1 = i /\ i \in 0..Len(f) /\ i \in Nat /\ i + 1 \in Nat /\ i + 1 \in 1..Len(f)
      /\ l \in Lines /\ DOMAIN f = 1..Len(f)
  OBVIOUS
<1>1. /\ m.known <=> t.first # Nowhere
      /\ m.trap <=> (t.first.kind = "Standalone" /\ f[t.first.at].note)
  BY DEF Watches
<1>2. /\ w.known <=> (m.known \/ IsHead(s, l, p))
      /\ w.trap <=> (m.trap \/ (/\ ~m.known /\ IsHead(s, l, p)
                               /\ l.kind = "rule" /\ ~l.open /\ l.note))
  <2>1. Seen(f, p, i + 1) = Watch(Seen(f, p, (i + 1) - 1), f[i + 1], p)
    BY <1>0, SeenRun
  <2>2. w = Watch(m, l, p)
    BY <1>0, <2>1
  <2>3. m.read = s
    BY <1>0, SeenReads
  <2>4. /\ Watch(m, l, p).known <=> (m.known \/ IsHead(m.read, l, p))
        /\ Watch(m, l, p).trap <=> (m.trap \/ (/\ ~m.known /\ IsHead(m.read, l, p)
                                              /\ l.kind = "rule" /\ ~l.open /\ l.note))
    BY WatchFields
  <2> QED
    BY <2>2, <2>3, <2>4, Zenon
<1> SUFFICES /\ w.known <=> n.first # Nowhere
             /\ w.trap <=> (n.first.kind = "Standalone" /\ f[n.first.at].note)
  BY DEF Watches
<1>3. CASE l.kind = "blank" /\ n = t
  <2>1. ~IsHead(s, l, p)
    BY <1>3 DEF IsHead
  <2> QED
    BY <1>1, <1>2, <1>3, <2>1
<1>4. CASE s.block /\ InnerStep(t, l, i + 1, n)
  <2>1. ~IsHead(s, l, p)
    BY <1>4 DEF IsHead
  <2>2. n.first = t.first
    BY <1>4 DEF InnerStep
  <2> QED
    BY <1>1, <1>2, <2>1, <2>2
<1>5. CASE ~s.block /\ OuterStep(t, p, l, i + 1, Opens(l, s.pending), n)
  <2>1. n.first = (IF p \in {l.name, Opens(l, s.pending)} /\ t.first = Nowhere
                   THEN PkgLine(l, i + 1, t.pending) ELSE t.first)
    BY <1>5 DEF OuterStep
  <2>2. CASE t.first # Nowhere
    BY <1>1, <1>2, <2>1, <2>2
  <2>3. CASE t.first = Nowhere
    <3>1. t.pending \in Nat /\ s \in ReadStates
      <4>1. t \in Scans(f)
        BY <1>0, ScanRuns
      <4> QED
        BY <1>0, <4>1, AtTypes DEF Scans
    <3>2. s.pending = p => t.pending # 0
      <4>1. Agrees(f, p, i)
        BY <1>0, ScanAgrees
      <4> QED
        BY <4>1, NamesAssumption DEF Agrees, Names
    <3>3. n.first = IF p \in {l.name, Opens(l, s.pending)}
                    THEN PkgLine(l, i + 1, t.pending) ELSE Nowhere
      BY <2>1, <2>3
    <3> PICK h : h = n.first
      OBVIOUS
    <3>4. /\ h # Nowhere <=> IsHead(s, l, p)
          /\ h.kind = "Standalone" <=> (IsHead(s, l, p) /\ l.kind = "rule" /\ ~l.open)
          /\ h.kind = "Standalone" => h.at = i + 1
      BY <1>0, <1>5, <3>1, <3>2, <3>3, HeadLine
    <3>5. ~m.known /\ ~m.trap
      BY <1>1, <2>3, NowhereIs
    <3>6. w.known <=> h # Nowhere
      BY <1>2, <3>4, <3>5, Zenon
    <3>7. w.trap <=> (h.kind = "Standalone" /\ l.note)
      BY <1>2, <3>4, <3>5, Zenon
    <3> QED
      BY <3>4, <3>6, <3>7
  <2> QED
    BY <2>2, <2>3
<1> QED
  BY <1>3, <1>4, <1>5, ScanCases

LEMMA WatchesAll ==
  ASSUME NEW f \in Seq(Lines), NEW p \in Names
  PROVE  /\ All(f, p).known <=> Scan(f, p).first # Nowhere
         /\ All(f, p).trap <=>
              (Scan(f, p).first.kind = "Standalone" /\ f[Scan(f, p).first.at].note)
<1> DEFINE P == {i \in 0..Len(f) : Watches(f, p, i)}
<1>0. Len(f) \in Nat
  OBVIOUS
<1>1. 0 \in P
  <2>1. ScanTo(f, p)[0] = ScanStart /\ Seen(f, p, 0) = Begin
    BY ScanRuns, SeenRun
  <2>2. Watches(f, p, 0)
    BY <2>1 DEF Watches, ScanStart, Begin, Nowhere
  <2> QED
    BY <2>2, <1>0
<1>2. ASSUME NEW i \in 0..Len(f) - 1, i \in P PROVE i + 1 \in P
  BY <1>2, <1>0, WatchesStep
<1>3. P \in SUBSET (0..Len(f))
  OBVIOUS
<1> HIDE DEF P
<1>4. \A i \in 0..Len(f) : i \in P
  BY <1>0, <1>1, <1>2, <1>3, UpTo
<1>5. Len(f) \in P
  BY <1>0, <1>4
<1>6. Watches(f, p, Len(f))
  BY <1>5 DEF P
<1> QED
  BY <1>6, SeenRun DEF Watches, Scan

(* No trap has been watched in a file without one.                         *)
LEMMA NoTrap ==
  ASSUME NEW f \in Seq(Lines)
  PROVE  Trap(f) <=> \E p \in Names : All(f, p).trap
<1>1. \A p \in Names : All(f, p).trap <=>
              (Scan(f, p).first.kind = "Standalone" /\ f[Scan(f, p).first.at].note)
  BY WatchesAll
<1> QED
  BY <1>1 DEF Trap

(* The thread rules of p outside a block, counted by the watch.            *)
LEMMA SeenSing ==
  ASSUME NEW f \in Seq(Lines), NEW p \in Names
  PROVE  All(f, p).sing <=> \E k \in 1..Len(f) : SingleLine(f, p, k)
<1> DEFINE Sung(i) == \E k \in 1..i : SingleLine(f, p, k)
           P == {i \in 0..Len(f) : Seen(f, p, i).sing <=> Sung(i)}
<1>0. Len(f) \in Nat
  OBVIOUS
<1>1. 0 \in P
  <2>1. ~Seen(f, p, 0).sing
    BY SeenRun DEF Begin
  <2>2. ~Sung(0)
    OBVIOUS
  <2> QED
    BY <2>1, <2>2, <1>0
<1>2. ASSUME NEW i \in 0..Len(f) - 1, i \in P PROVE i + 1 \in P
  <2>0. (i + 1) - 1 = i /\ i \in 0..Len(f) /\ i + 1 \in 1..Len(f) /\ i + 1 \in 0..Len(f)
        /\ 1..i + 1 = 1..i \cup {i + 1}
    OBVIOUS
  <2>1. Seen(f, p, i).sing <=> Sung(i)
    BY <1>2
  <2>2. Seen(f, p, i + 1).sing <=> (Seen(f, p, i).sing \/ SingleLine(f, p, i + 1))
    <3>1. Seen(f, p, i + 1) = Watch(Seen(f, p, (i + 1) - 1), f[i + 1], p)
      BY <2>0, SeenRun
    <3>2. Seen(f, p, i + 1) = Watch(Seen(f, p, i), f[i + 1], p)
      BY <2>0, <3>1
    <3>3. Seen(f, p, i).read = At(f, i)
      BY <2>0, SeenReads
    <3>4. Watch(Seen(f, p, i), f[i + 1], p).sing <=>
            (Seen(f, p, i).sing \/ (~Seen(f, p, i).read.block /\ f[i + 1].kind = "single"
                                    /\ f[i + 1].name = p))
      BY WatchFields
    <3> QED
      BY <2>0, <3>2, <3>3, <3>4, Zenon DEF SingleLine
  <2>3. Sung(i + 1) <=> (Sung(i) \/ SingleLine(f, p, i + 1))
    BY <2>0
  <2> HIDE DEF Sung
  <2> QED
    BY <2>0, <2>1, <2>2, <2>3
<1>3. P \in SUBSET (0..Len(f))
  OBVIOUS
<1>4. \A i \in 0..Len(f) : i \in P
  <2> HIDE DEF P
  <2> QED
    BY <1>0, <1>1, <1>2, <1>3, UpTo
<1>5. Seen(f, p, Len(f)).sing <=> Sung(Len(f))
  BY <1>0, <1>4
<1> QED
  BY <1>5, SeenRun

LEMMA SinglesAre ==
  ASSUME NEW f \in Seq(Lines), NEW p \in Names
  PROVE  /\ \A k \in DOMAIN f : SingleLine(f, p, k) <=> k \in Ats(Singles(Scan(f, p)))
         /\ All(f, p).sing <=> Singles(Scan(f, p)) # {}
<1>0. DOMAIN f = 1..Len(f)
  OBVIOUS
<1>1. ASSUME NEW k \in DOMAIN f, SingleLine(f, p, k) PROVE k \in Ats(Singles(Scan(f, p)))
  <2>1. Single(f[k], k) \in Scan(f, p).locs
    BY <1>1, LocsAre
  <2>2. Single(f[k], k).single /\ Single(f[k], k).at = k
    BY LocFields
  <2>3. Single(f[k], k) \in Singles(Scan(f, p))
    BY <2>1, <2>2 DEF Singles
  <2> QED
    BY <2>2, <2>3, Zenon DEF Ats
<1>2. ASSUME NEW loc \in Singles(Scan(f, p))
      PROVE  loc.at \in DOMAIN f /\ SingleLine(f, p, loc.at)
  <2>1. loc \in Scan(f, p).locs /\ loc.single
    BY <1>2 DEF Singles
  <2>2. loc.at \in DOMAIN f /\ IsLoc(f, p, loc.at, loc)
    BY <2>1, LocsAre
  <2>3. loc # Inner(f[loc.at], loc.at)
    BY <2>1, LocFields
  <2> QED
    BY <2>2, <2>3 DEF IsLoc
<1>3. \A k \in DOMAIN f : k \in Ats(Singles(Scan(f, p))) => SingleLine(f, p, k)
  BY <1>2 DEF Ats
<1>4. Singles(Scan(f, p)) # {} <=> \E k \in DOMAIN f : SingleLine(f, p, k)
  <2>1. ASSUME NEW k \in DOMAIN f, SingleLine(f, p, k) PROVE Singles(Scan(f, p)) # {}
    BY <1>1, <2>1 DEF Ats
  <2> QED
    BY <1>2, <2>1
<1> QED
  BY <1>0, <1>1, <1>3, <1>4, SeenSing

ShutLine(f, p, k) == SingleLine(f, p, k) /\ f[k].closed

(* And those of them with a closing brace behind.                         *)
LEMMA SeenShut ==
  ASSUME NEW f \in Seq(Lines), NEW p \in Names
  PROVE  All(f, p).shut <=> \E k \in 1..Len(f) : ShutLine(f, p, k)
<1> DEFINE Shot(i) == \E k \in 1..i : ShutLine(f, p, k)
           P == {i \in 0..Len(f) : Seen(f, p, i).shut <=> Shot(i)}
<1>0. Len(f) \in Nat
  OBVIOUS
<1>1. 0 \in P
  <2>1. ~Seen(f, p, 0).shut
    BY SeenRun DEF Begin
  <2>2. ~Shot(0)
    OBVIOUS
  <2> QED
    BY <2>1, <2>2, <1>0
<1>2. ASSUME NEW i \in 0..Len(f) - 1, i \in P PROVE i + 1 \in P
  <2>0. (i + 1) - 1 = i /\ i \in 0..Len(f) /\ i + 1 \in 1..Len(f) /\ i + 1 \in 0..Len(f)
        /\ 1..i + 1 = 1..i \cup {i + 1}
    OBVIOUS
  <2>1. Seen(f, p, i).shut <=> Shot(i)
    BY <1>2
  <2>2. Seen(f, p, i + 1).shut <=> (Seen(f, p, i).shut \/ ShutLine(f, p, i + 1))
    <3>1. Seen(f, p, i + 1) = Watch(Seen(f, p, (i + 1) - 1), f[i + 1], p)
      BY <2>0, SeenRun
    <3>2. Seen(f, p, i + 1) = Watch(Seen(f, p, i), f[i + 1], p)
      BY <2>0, <3>1
    <3>3. Seen(f, p, i).read = At(f, i)
      BY <2>0, SeenReads
    <3>4. Watch(Seen(f, p, i), f[i + 1], p).shut <=>
            (Seen(f, p, i).shut \/ (~Seen(f, p, i).read.block /\ f[i + 1].kind = "single"
                                    /\ f[i + 1].name = p /\ f[i + 1].closed))
      BY WatchFields
    <3> QED
      BY <2>0, <3>2, <3>3, <3>4, Zenon DEF ShutLine, SingleLine
  <2>3. Shot(i + 1) <=> (Shot(i) \/ ShutLine(f, p, i + 1))
    BY <2>0
  <2> HIDE DEF Shot
  <2> QED
    BY <2>0, <2>1, <2>2, <2>3
<1>3. P \in SUBSET (0..Len(f))
  OBVIOUS
<1>4. \A i \in 0..Len(f) : i \in P
  <2> HIDE DEF P
  <2> QED
    BY <1>0, <1>1, <1>2, <1>3, UpTo
<1>5. Seen(f, p, Len(f)).shut <=> Shot(Len(f))
  BY <1>0, <1>4
<1> QED
  BY <1>5, SeenRun

LEMMA ShutAre ==
  ASSUME NEW f \in Seq(Lines), NEW p \in Names
  PROVE  /\ All(f, p).shut <=> Shut(f, p)
         /\ All(f, p).shut => All(f, p).sing
<1>1. All(f, p).shut <=> \E k \in 1..Len(f) : ShutLine(f, p, k)
  BY SeenShut
<1>2. All(f, p).sing <=> \E k \in 1..Len(f) : SingleLine(f, p, k)
  BY SeenSing
<1>3. Shut(f, p) <=> \E k \in 1..Len(f) : ShutLine(f, p, k)
  <2>1. DOMAIN f = 1..Len(f)
    OBVIOUS
  <2> QED
    BY <2>1 DEF Shut, ShutLine, SingleLine, At
<1> QED
  BY <1>1, <1>2, <1>3 DEF ShutLine

(* When there is none of them, the thread rules of p that are moved or     *)
(* copied are rules that end no block.                                     *)
LEMMA ListPlain ==
  ASSUME NEW f \in Seq(Lines), NEW p \in Names, ~Shut(f, p),
         NEW locs \in SUBSET Scan(f, p).locs
  PROVE  /\ CopiedLines(f, locs) \in Seq(Rulings)
         /\ (\A loc \in locs : loc.single) => MovedLines(f, locs) \in Seq(Rulings)
<1>0. locs \in SUBSET Locs(f)
  BY SinglesTypes
<1>1. \A n, c : RuleLine(n, c).kind = "rule" /\ ~RuleLine(n, c).closed
  BY DEF RuleLine, Text
<1>2. ASSUME NEW i \in Ats(locs)
      PROVE  /\ CopiedItem(f[i], LocAt(locs, i)) \in Rulings
             /\ LocAt(locs, i).single => MovedItem(f[i], LocAt(locs, i)) \in Rulings
  <2> PICK l : l = f[i]
    OBVIOUS
  <2> PICK loc : loc = LocAt(locs, i)
    OBVIOUS
  <2>1. /\ i \in DOMAIN f /\ loc \in locs /\ IsLoc(f, p, i, loc)
        /\ l \in Lines /\ loc.name \in Names
    BY <1>0, LocAtIs DEF Locs
  <2>2. CopiedItem(l, loc) \in Lines /\ MovedItem(l, loc) \in Lines
    BY <2>1, ItemTypes
  <2>3. CASE loc.single
    <3>1. loc # Inner(l, i)
      BY <2>3, LocFields
    <3>2. SingleLine(f, p, i)
      BY <2>1, <3>1 DEF IsLoc
    <3>3. ~l.closed
      BY <2>1, <3>2 DEF Shut, SingleLine, At
    <3>4. Plain(ThreadLine(l, loc)) /\ Plain(MovedItem(l, loc))
      BY <1>1, <3>3 DEF Plain, HasSpec, ThreadLine, MovedItem, WithComment
    <3>5. CopiedItem(l, loc) = ThreadLine(l, loc)
      BY <2>3 DEF CopiedItem
    <3> QED
      BY <2>2, <3>4, <3>5 DEF Rulings
  <2>4. CASE ~loc.single
    <3>1. loc # Single(l, i)
      BY <2>4, LocFields
    <3>2. HasSpec(l)
      BY <2>1, <3>1 DEF IsLoc, BlockLine
    <3>3. Plain(InnerItem(l))
      BY <2>1, <3>2 DEF Plain, HasSpec, InnerItem, Lines
    <3>4. CopiedItem(l, loc) = InnerItem(l)
      BY <2>4 DEF CopiedItem
    <3> QED
      BY <2>2, <2>4, <3>3, <3>4 DEF Rulings
  <2> QED
    BY <2>3, <2>4
<1>3. CopiedLines(f, locs) \in Seq(Rulings)
  BY <1>0, <1>2, CopiedIn
<1>4. ASSUME \A loc \in locs : loc.single PROVE MovedLines(f, locs) \in Seq(Rulings)
  <2>1. \A i \in Ats(locs) : MovedItem(f[i], LocAt(locs, i)) \in Rulings
    BY <1>2, <1>4, LocAtIs
  <2> QED
    BY <1>0, <2>1, MovedIn
<1> QED
  BY <1>3, <1>4

-----------------------------------------------------------------------------
(* Lines written for p, and lines of p rewritten.  m has watched the old   *)
(* file and v the new one, both for a package x; how much of what has been *)
(* watched has to agree is the mode: "rules" only what has been read,      *)
(* "heads" the package lines too, "alone" that no thread rule of x has     *)
(* been seen outside a block.                                              *)
Modes == {"rules", "heads", "alone"}

Flags(m, v, mode) ==
  /\ ~v.stray
  /\ mode # "rules" => (m.known => v.known) /\ (v.trap => m.trap)
  /\ mode = "heads" => (v.sing => m.sing) /\ (v.shut => m.shut)
  /\ mode = "alone" => ~v.sing

Close(m, v, p, mode) == Near(m.read, v.read, {p}) /\ Flags(m, v, mode)

(* Both outside a block, and both in a block of p.                         *)
Beside(m, v, p, mode) ==
  /\ ~m.read.block /\ ~v.read.block
  /\ Other(m.read, {p}) = Other(v.read, {p}) /\ Flags(m, v, mode)

Within(m, v, p, mode) ==
  /\ m.read.block /\ m.read.owner = p /\ m.read.pending = NoName
  /\ v.read.block /\ v.read.owner = p
  /\ Other(m.read, {p}) = Other(v.read, {p}) /\ Flags(m, v, mode)

LEMMA CloseBeside ==
  ASSUME NEW m, NEW v, NEW p, NEW mode, Close(m, v, p, mode), ~m.read.block
  PROVE  Beside(m, v, p, mode)
BY DEF Close, Near, Beside

LEMMA CloseWithin ==
  ASSUME NEW m, NEW v, NEW p, NEW mode, Close(m, v, p, mode),
         m.read.block, m.read.owner = p, m.read.pending = NoName
  PROVE  Within(m, v, p, mode)
BY DEF Close, Near, Within

LEMMA WithinClose ==
  ASSUME NEW m \in WatchStates, NEW v \in WatchStates, NEW p, NEW mode, Within(m, v, p, mode)
  PROVE  Close(m, v, p, mode)
BY DEF Close, Near, Within, WatchStates, ReadStates

LEMMA BesideClose ==
  ASSUME NEW m \in WatchStates, NEW v \in WatchStates, NEW p, NEW mode, Beside(m, v, p, mode),
         m.read.pending = NoName
  PROVE  Close(m, v, p, mode)
BY DEF Close, Near, Beside, WatchStates, ReadStates

LEMMA HeadNear ==
  ASSUME NEW s \in ReadStates, NEW u \in ReadStates, NEW l \in Lines, NEW p \in Names,
         NEW x \in Names, Near(s, u, {p})
  PROVE  /\ IsHead(s, l, x) => IsHead(u, l, x)
         /\ l.kind = "rule" /\ IsHead(u, l, x) => IsHead(s, l, x)
<1>1. x # NoName
  BY NamesAssumption DEF Names
<1>2. /\ l.kind = "bare" => Opens(l, s.pending) = IF l.name = NoName THEN s.pending ELSE l.name
      /\ l.kind = "bare" => Opens(l, u.pending) = IF l.name = NoName THEN u.pending ELSE l.name
  BY OpensTypes DEF ReadStates
<1> QED
  BY <1>1, <1>2 DEF IsHead, Near

LEMMA WatchLine ==
  ASSUME NEW m, NEW l, NEW x, NEW s, s = m.read, NEW a, a = Watch(m, l, x)
  PROVE  /\ a.read = ReadLine(s, l)
         /\ a.stray <=> (m.stray \/ StrayLine(s, l))
         /\ a.known <=> (m.known \/ IsHead(s, l, x))
         /\ a.trap <=> (m.trap \/ (/\ ~m.known /\ IsHead(s, l, x)
                                  /\ l.kind = "rule" /\ ~l.open /\ l.note))
         /\ a.sing <=> (m.sing \/ (~s.block /\ l.kind = "single" /\ l.name = x))
         /\ a.shut <=> (m.shut \/ (~s.block /\ l.kind = "single" /\ l.name = x /\ l.closed))
<1>1. a.read = ReadLine(s, l)
  BY WatchFields
<1>2. a.stray <=> (m.stray \/ StrayLine(s, l))
  BY WatchFields
<1>3. a.known <=> (m.known \/ IsHead(s, l, x))
  BY WatchFields
<1>4. a.trap <=> (m.trap \/ (/\ ~m.known /\ IsHead(s, l, x)
                            /\ l.kind = "rule" /\ ~l.open /\ l.note))
  BY WatchFields
<1>5. a.sing <=> (m.sing \/ (~s.block /\ l.kind = "single" /\ l.name = x))
  BY WatchFields
<1>6. a.shut <=> (m.shut \/ (~s.block /\ l.kind = "single" /\ l.name = x /\ l.closed))
  BY WatchFields
<1> QED
  BY <1>1, <1>2, <1>3, <1>4, <1>5, <1>6

(* A line that stays.                                                      *)
LEMMA KeepLine ==
  ASSUME NEW m \in WatchStates, NEW v \in WatchStates, NEW l \in Lines, NEW p \in Names,
         NEW x \in Names, NEW mode \in Modes, Close(m, v, p, mode), ~StrayLine(m.read, l),
         mode = "alone" => ~(~m.read.block /\ l.kind = "single" /\ l.name = x)
  PROVE  Close(Watch(m, l, x), Watch(v, l, x), p, mode)
<1> PICK s : s = m.read
  OBVIOUS
<1> PICK u : u = v.read
  OBVIOUS
<1> PICK a : a = Watch(m, l, x)
  OBVIOUS
<1> PICK b : b = Watch(v, l, x)
  OBVIOUS
<1>1. s \in ReadStates /\ u \in ReadStates /\ {p} \in SUBSET Names
  BY DEF WatchStates
<1>2. Near(s, u, {p}) /\ Flags(m, v, mode) /\ (s.block <=> u.block)
  BY DEF Close, Near
<1>3. /\ a.read = ReadLine(s, l)
      /\ a.known <=> (m.known \/ IsHead(s, l, x))
      /\ a.trap <=> (m.trap \/ (/\ ~m.known /\ IsHead(s, l, x)
                               /\ l.kind = "rule" /\ ~l.open /\ l.note))
      /\ a.sing <=> (m.sing \/ (~s.block /\ l.kind = "single" /\ l.name = x))
      /\ a.shut <=> (m.shut \/ (~s.block /\ l.kind = "single" /\ l.name = x /\ l.closed))
  BY WatchLine
<1>4. /\ b.read = ReadLine(u, l)
      /\ b.stray <=> (v.stray \/ StrayLine(u, l))
      /\ b.known <=> (v.known \/ IsHead(u, l, x))
      /\ b.trap <=> (v.trap \/ (/\ ~v.known /\ IsHead(u, l, x)
                               /\ l.kind = "rule" /\ ~l.open /\ l.note))
      /\ b.sing <=> (v.sing \/ (~u.block /\ l.kind = "single" /\ l.name = x))
      /\ b.shut <=> (v.shut \/ (~u.block /\ l.kind = "single" /\ l.name = x /\ l.closed))
  BY WatchLine
<1>5. Near(a.read, b.read, {p}) /\ ~StrayLine(u, l)
  <2>1. Near(ReadLine(s, l), ReadLine(u, l), {p}) /\ ~StrayLine(u, l)
    BY <1>1, <1>2, NearLine
  <2> QED
    BY <1>3, <1>4, <2>1
<1>6. /\ IsHead(s, l, x) => IsHead(u, l, x)
      /\ l.kind = "rule" /\ IsHead(u, l, x) => IsHead(s, l, x)
  BY <1>1, <1>2, HeadNear
<1>7. Flags(a, b, mode)
  <2>1. ~b.stray
    BY <1>2, <1>4, <1>5, Zenon DEF Flags
  <2>2. ASSUME mode # "rules" PROVE (a.known => b.known) /\ (b.trap => a.trap)
    <3>1. (m.known => v.known) /\ (v.trap => m.trap)
      BY <1>2, <2>2, Zenon DEF Flags
    <3> QED
      BY <1>3, <1>4, <1>6, <3>1, Zenon
  <2>3. ASSUME mode = "heads" PROVE (b.sing => a.sing) /\ (b.shut => a.shut)
    <3>1. (v.sing => m.sing) /\ (v.shut => m.shut)
      BY <1>2, <2>3, Zenon DEF Flags
    <3> QED
      BY <1>2, <1>3, <1>4, <3>1, Zenon
  <2>4. ASSUME mode = "alone" PROVE ~b.sing
    <3>1. ~v.sing
      BY <1>2, <2>4, Zenon DEF Flags
    <3> QED
      BY <1>2, <1>4, <2>4, <3>1, Zenon
  <2> QED
    BY <2>1, <2>2, <2>3, <2>4, Zenon DEF Flags
<1> QED
  BY <1>5, <1>7 DEF Close

-----------------------------------------------------------------------------
(* What lines written for p may do to what is watched.                     *)
InBlock(v, p) == v \in WatchStates /\ v.read.block /\ v.read.owner = p
OutBlock(v) == v \in WatchStates /\ ~v.read.block

Adds(v, w, p) ==
  /\ Other(w.read, {p}) = Other(v.read, {p})
  /\ w.stray => v.stray
  /\ v.known => w.known
  /\ w.trap => v.trap
  /\ w.sing => v.sing
  /\ w.shut => v.shut

LEMMA AddsAfter ==
  ASSUME NEW v, NEW w, NEW y, NEW p, Adds(v, w, p), Adds(w, y, p)
  PROVE  Adds(v, y, p)
<1>1. Other(y.read, {p}) = Other(v.read, {p})
  BY DEF Adds
<1> QED
  BY <1>1, Zenon DEF Adds

LEMMA AddsFlags ==
  ASSUME NEW m, NEW v, NEW w, NEW p, NEW mode, Flags(m, v, mode), Adds(v, w, p)
  PROVE  Flags(m, w, mode)
BY Zenon DEF Flags, Adds

(* A line that opens a block of p, and one that is read outside a block.   *)
OpenLine(l, p) == l.name = p /\ (l.kind = "bare" \/ (l.kind = "rule" /\ l.open))

AfterOuter(v, l, p, x, w) ==
  /\ w \in WatchStates
  /\ Other(w.read, {p}) = Other(v.read, {p})
  /\ w.read.pending = NoName
  /\ w.read.block <=> (l.kind = "bare" \/ l.open)
  /\ l.kind = "bare" \/ l.open => w.read.owner = p
  /\ w.stray <=> v.stray
  /\ w.known <=> (v.known \/ (x = p /\ l.kind # "single"))
  /\ w.trap <=> (v.trap \/ (/\ ~v.known /\ x = p
                            /\ l.kind = "rule" /\ ~l.open /\ l.note))
  /\ w.sing <=> (v.sing \/ (l.kind = "single" /\ x = p))
  /\ w.shut <=> (v.shut \/ (l.kind = "single" /\ x = p /\ l.closed))

LEMMA OutLine ==
  ASSUME NEW v, OutBlock(v), NEW l \in Lines, NEW p \in Names, NEW x \in Names, l.name = p,
         HasSpec(l) \/ l.kind = "bare"
  PROVE  AfterOuter(v, l, p, x, Watch(v, l, x))
<1> PICK u : u = v.read
  OBVIOUS
<1> PICK o : o = Opens(l, u.pending)
  OBVIOUS
<1>0. /\ u \in ReadStates /\ ~u.block /\ v \in WatchStates /\ p # NoName
      /\ l.kind # "blank" /\ l.kind # "pend" /\ l.open \in BOOLEAN
  BY LineFields, NamesAssumption DEF OutBlock, WatchStates, HasSpec, Fields, Names
<1>1. Watch(v, l, x) \in WatchStates
  BY <1>0, WatchLineTypes
<1> PICK w : w = Watch(v, l, x)
  OBVIOUS
<1>2. /\ w.read = ReadLine(u, l)
      /\ w.stray <=> (v.stray \/ StrayLine(u, l))
      /\ w.known <=> (v.known \/ IsHead(u, l, x))
      /\ w.trap <=> (v.trap \/ (/\ ~v.known /\ IsHead(u, l, x)
                                             /\ l.kind = "rule" /\ ~l.open /\ l.note))
      /\ w.sing <=> (v.sing \/ (~u.block /\ l.kind = "single" /\ l.name = x))
      /\ w.shut <=> (v.shut \/ (~u.block /\ l.kind = "single" /\ l.name = x /\ l.closed))
  BY WatchLine
<1>3. /\ ReadLine(u, l).block = (o # NoName) /\ ReadLine(u, l).owner = o
      /\ ReadLine(u, l).pending = NoName
      /\ ReadLine(u, l).rules = AddRule(u, l.name, l.thread, OuterSpec(l)).rules
  BY <1>0, OuterRead
<1>4. /\ l.kind = "bare" => o = p
      /\ HasSpec(l) => o = IF l.open THEN p ELSE NoName
  BY <1>0, OpensTypes DEF ReadStates
<1>5. ~StrayLine(u, l)
  BY <1>0 DEF StrayLine
<1>6. IsHead(u, l, x) <=> (x = p /\ l.kind # "single")
  BY <1>0, <1>4 DEF IsHead, HasSpec
<1>7. Other(ReadLine(u, l), {p}) = Other(u, {p})
  <2>1. l.name \in Names \cup {NoName} /\ l.thread \in Names \cup {NoName} /\ OuterSpec(l) \in Specs
    BY LineFields DEF OuterSpec, Specs, Fields, Names
  <2>2. Other(AddRule(u, l.name, l.thread, OuterSpec(l)), {p}) = Other(u, {p})
    BY <1>0, <2>1, AddNone
  <2> QED
    BY <1>3, <2>2, OtherOf
<1>8. /\ Other(w.read, {p}) = Other(v.read, {p})
      /\ w.read.pending = NoName
  BY <1>2, <1>3, <1>7
<1>9. /\ w.read.block <=> (l.kind = "bare" \/ l.open)
      /\ l.kind = "bare" \/ l.open => w.read.owner = p
  <2>1. (o # NoName) <=> (l.kind = "bare" \/ l.open)
    BY <1>0, <1>4
  <2> QED
    BY <1>0, <1>2, <1>3, <1>4, <2>1
<1>10. /\ w.stray <=> v.stray
       /\ w.known <=> (v.known \/ (x = p /\ l.kind # "single"))
       /\ w.sing <=> (v.sing \/ (l.kind = "single" /\ x = p))
       /\ w.shut <=> (v.shut \/ (l.kind = "single" /\ x = p /\ l.closed))
  BY <1>0, <1>2, <1>5, <1>6, Zenon
<1>11. w.trap <=> (v.trap \/ (/\ ~v.known /\ x = p
                                           /\ l.kind = "rule" /\ ~l.open /\ l.note))
  <2>1. l.kind = "rule" => l.kind # "single"
    OBVIOUS
  <2> QED
    BY <1>2, <1>6, <2>1, Zenon
<1> QED
  BY <1>1, <1>8, <1>9, <1>10, <1>11 DEF AfterOuter

(* A line read in a block of p.                                            *)
AfterInner(v, l, p, w) ==
  /\ w \in WatchStates
  /\ Other(w.read, {p}) = Other(v.read, {p})
  /\ w.read.pending = v.read.pending
  /\ w.read.block <=> ~Ends(l)
  /\ ~Ends(l) => w.read.owner = p
  /\ w.stray <=> v.stray
  /\ w.known <=> v.known
  /\ w.trap <=> v.trap
  /\ w.sing <=> v.sing
  /\ w.shut <=> v.shut

LEMMA InLine ==
  ASSUME NEW v, NEW p \in Names, InBlock(v, p), NEW l \in Lines, NEW x \in Names,
         l.kind # "blank"
  PROVE  AfterInner(v, l, p, Watch(v, l, x))
<1> PICK u : u = v.read
  OBVIOUS
<1>0. u \in ReadStates /\ u.block /\ u.owner = p /\ v \in WatchStates /\ Ends(l) \in BOOLEAN
  BY LineFields DEF InBlock, WatchStates
<1>1. Watch(v, l, x) \in WatchStates
  BY <1>0, WatchLineTypes
<1> PICK w : w = Watch(v, l, x)
  OBVIOUS
<1>2. /\ w.read = ReadLine(u, l)
      /\ w.stray <=> (v.stray \/ StrayLine(u, l))
      /\ w.known <=> (v.known \/ IsHead(u, l, x))
      /\ w.trap <=> (v.trap \/ (/\ ~v.known /\ IsHead(u, l, x)
                                             /\ l.kind = "rule" /\ ~l.open /\ l.note))
      /\ w.sing <=> (v.sing \/ (~u.block /\ l.kind = "single" /\ l.name = x))
      /\ w.shut <=> (v.shut \/ (~u.block /\ l.kind = "single" /\ l.name = x /\ l.closed))
  BY WatchLine
<1>3. /\ ReadLine(u, l).block = ~Ends(l)
      /\ ReadLine(u, l).owner = (IF Ends(l) THEN NoName ELSE u.owner)
      /\ ReadLine(u, l).pending = u.pending
      /\ ReadLine(u, l).rules = AddRule(u, u.owner, InnerName(l), InnerSpec(l)).rules
  BY <1>0, InnerRead
<1>5. ~StrayLine(u, l) /\ ~IsHead(u, l, x)
  BY <1>0 DEF StrayLine, IsHead
<1>7. Other(ReadLine(u, l), {p}) = Other(u, {p})
  <2>1. InnerName(l) \in Names \cup {NoName} /\ InnerSpec(l) \in Specs
    BY LineFields DEF InnerSpec, Specs
  <2>2. Other(AddRule(u, u.owner, InnerName(l), InnerSpec(l)), {p}) = Other(u, {p})
    BY <1>0, <2>1, AddNone
  <2> QED
    BY <1>3, <2>2, OtherOf
<1>8. /\ Other(w.read, {p}) = Other(v.read, {p})
      /\ w.read.pending = v.read.pending
      /\ w.read.block <=> ~Ends(l)
      /\ ~Ends(l) => w.read.owner = p
  BY <1>0, <1>2, <1>3, <1>7
<1>10. /\ w.stray <=> v.stray
       /\ w.known <=> v.known
       /\ w.trap <=> v.trap
       /\ w.sing <=> v.sing
       /\ w.shut <=> v.shut
  BY <1>0, <1>2, <1>5, Zenon
<1> QED
  BY <1>1, <1>8, <1>10 DEF AfterInner

-----------------------------------------------------------------------------
(* A block of p, line by line.                                             *)
LEMMA OpenerAdds ==
  ASSUME NEW v, OutBlock(v), NEW l \in Lines, NEW p \in Names, NEW x \in Names, OpenLine(l, p)
  PROVE  /\ InBlock(Watch(v, l, x), p) /\ Adds(v, Watch(v, l, x), p)
         /\ Watch(v, l, x).read.pending = NoName
         /\ x = p => Watch(v, l, x).known
<1> PICK w : w = Watch(v, l, x)
  OBVIOUS
<1>1. /\ l.name = p /\ (HasSpec(l) \/ l.kind = "bare") /\ l.kind # "single"
      /\ l.kind = "bare" \/ l.open
      /\ l.open \in BOOLEAN
      /\ ~(l.kind = "rule" /\ ~l.open)
  BY LineFields DEF OpenLine, HasSpec, Fields
<1>2. /\ w \in WatchStates
      /\ Other(w.read, {p}) = Other(v.read, {p})
      /\ w.read.pending = NoName
      /\ w.read.block <=> (l.kind = "bare" \/ l.open)
      /\ l.kind = "bare" \/ l.open => w.read.owner = p
      /\ w.stray <=> v.stray
      /\ w.known <=> (v.known \/ (x = p /\ l.kind # "single"))
      /\ w.trap <=> (v.trap \/ (/\ ~v.known /\ x = p
                               /\ l.kind = "rule" /\ ~l.open /\ l.note))
      /\ w.sing <=> (v.sing \/ (l.kind = "single" /\ x = p))
      /\ w.shut <=> (v.shut \/ (l.kind = "single" /\ x = p /\ l.closed))
  <2>1. AfterOuter(v, l, p, x, w)
    BY <1>1, OutLine
  <2> QED
    BY <2>1 DEF AfterOuter
<1>3. InBlock(w, p)
  BY <1>1, <1>2 DEF InBlock
<1>4. Adds(v, w, p) /\ (x = p => w.known)
  BY <1>1, <1>2, Zenon DEF Adds
<1> QED
  BY <1>2, <1>3, <1>4

LEMMA InnerAdds ==
  ASSUME NEW v, NEW p \in Names, InBlock(v, p), NEW l \in Lines, NEW x \in Names,
         l.kind # "blank"
  PROVE  /\ Adds(v, Watch(v, l, x), p)
         /\ ~Ends(l) => InBlock(Watch(v, l, x), p)
         /\ Ends(l) => OutBlock(Watch(v, l, x))
<1> PICK w : w = Watch(v, l, x)
  OBVIOUS
<1>1. /\ w \in WatchStates
      /\ Other(w.read, {p}) = Other(v.read, {p})
      /\ w.read.block <=> ~Ends(l)
      /\ ~Ends(l) => w.read.owner = p
      /\ w.stray <=> v.stray
      /\ w.known <=> v.known
      /\ w.trap <=> v.trap
      /\ w.sing <=> v.sing
      /\ w.shut <=> v.shut
  <2>1. AfterInner(v, l, p, w)
    BY InLine
  <2> QED
    BY <2>1 DEF AfterInner
<1>2. Adds(v, w, p)
  BY <1>1, Zenon DEF Adds
<1> QED
  BY <1>1, <1>2 DEF InBlock, OutBlock

LEMMA ItemsAdd ==
  ASSUME NEW v, NEW p \in Names, InBlock(v, p), NEW items \in Seq(Lines), NEW x \in Names,
         \A k \in DOMAIN items : Plain(items[k])
  PROVE  InBlock(Watched(v, items, x), p) /\ Adds(v, Watched(v, items, x), p)
<1> DEFINE w(i) == WatchFrom(v, items, x)[i]
           P == {i \in 0..Len(items) : InBlock(w(i), p) /\ Adds(v, w(i), p)}
<1>0. Len(items) \in Nat
  OBVIOUS
<1>1. 0 \in P
  <2>1. w(0) = v
    BY <1>0, WatchRun
  <2>2. Adds(v, v, p)
    BY DEF Adds
  <2> QED
    BY <2>1, <2>2, <1>0
<1>2. ASSUME NEW i \in 0..Len(items) - 1, i \in P PROVE i + 1 \in P
  <2>0. (i + 1) - 1 = i /\ i + 1 \in 1..Len(items) /\ i + 1 \in 0..Len(items)
    OBVIOUS
  <2>1. w(i + 1) = Watch(w((i + 1) - 1), items[i + 1], x)
    BY <2>0, <1>0, WatchRun
  <2>2. InBlock(w(i), p) /\ Adds(v, w(i), p)
    BY <1>2
  <2>3. /\ items[i + 1] \in Lines /\ items[i + 1].kind # "blank" /\ ~Ends(items[i + 1])
    <3>1. Plain(items[i + 1])
      BY <2>0
    <3> QED
      BY <2>0, <3>1 DEF Plain, Ends, HasSpec
  <2> HIDE DEF w
  <2>4. InBlock(w(i + 1), p) /\ Adds(w(i), w(i + 1), p)
    BY <2>0, <2>1, <2>2, <2>3, InnerAdds
  <2> QED
    BY <2>0, <2>2, <2>4, AddsAfter
<1>3. P \in SUBSET (0..Len(items))
  OBVIOUS
<1>4. \A i \in 0..Len(items) : i \in P
  <2> HIDE DEF P
  <2> QED
    BY <1>0, <1>1, <1>2, <1>3, UpTo
<1>5. Len(items) \in P
  BY <1>0, <1>4
<1> QED
  BY <1>5 DEF Watched

(* A whole block of p.                                                     *)
LEMMA BlockAdds ==
  ASSUME NEW v, OutBlock(v), NEW l \in Lines, NEW p \in Names, NEW x \in Names, OpenLine(l, p),
         NEW items \in Seq(Lines), \A k \in DOMAIN items : Plain(items[k]),
         NEW w, w = Watched(v, <<l>> \o items \o <<CloseLine>>, x)
  PROVE  OutBlock(w) /\ Adds(v, w, p) /\ (x = p => w.known)
<1> DEFINE a == Watch(v, l, x)
           b == Watched(a, items, x)
           c == Watch(b, CloseLine, x)
<1>1. w = c
  <2> DEFINE e == <<l>>
             r == e \o items
             z == <<CloseLine>>
  <2>1. e \in Seq(Lines) /\ z \in Seq(Lines)
    BY LineTypes
  <2>4. Watched(v, e, x) = a /\ Watched(b, z, x) = c
    BY WatchOne
  <2> HIDE DEF a, b, c, e, z
  <2>5. r \in Seq(Lines)
    BY <2>1
  <2>3. Watched(v, e \o items, x) = Watched(Watched(v, e, x), items, x)
    BY <2>1, WatchConcat
  <2>6. Watched(v, r, x) = b
    BY <2>3, <2>4 DEF b
  <2> HIDE DEF r
  <2>2. Watched(v, r \o z, x) = Watched(Watched(v, r, x), z, x)
    BY <2>1, <2>5, WatchConcat
  <2>7. w = Watched(v, r \o z, x)
    BY DEF r, e, z
  <2> QED
    BY <2>2, <2>4, <2>6, <2>7
<1>2. InBlock(a, p) /\ Adds(v, a, p) /\ (x = p => a.known)
  BY OpenerAdds
<1> HIDE DEF a
<1>3. InBlock(b, p) /\ Adds(a, b, p)
  BY <1>2, ItemsAdd
<1> HIDE DEF b
<1>4. CloseLine \in Lines /\ CloseLine.kind # "blank" /\ Ends(CloseLine)
  BY LineTypes DEF CloseLine, Text, Ends
<1>5. OutBlock(c) /\ Adds(b, c, p)
  BY <1>3, <1>4, InnerAdds
<1> HIDE DEF c
<1>6. Adds(a, c, p)
  BY <1>3, <1>5, AddsAfter
<1>7. Adds(v, c, p)
  BY <1>2, <1>6, AddsAfter
<1>8. x = p => c.known
  BY <1>2, <1>6, Zenon DEF Adds
<1> QED
  BY <1>1, <1>5, <1>7, <1>8

LEMMA BesideAdds ==
  ASSUME NEW m, NEW v, NEW w, NEW p, NEW mode, Beside(m, v, p, mode), OutBlock(w), Adds(v, w, p)
  PROVE  Beside(m, w, p, mode)
<1>1. Flags(m, w, mode)
  BY AddsFlags DEF Beside
<1> QED
  BY <1>1 DEF Beside, OutBlock, Adds

LEMMA WithinAdds ==
  ASSUME NEW m, NEW v, NEW w, NEW p, NEW mode, Within(m, v, p, mode), InBlock(w, p), Adds(v, w, p)
  PROVE  Within(m, w, p, mode)
<1>1. Flags(m, w, mode)
  BY AddsFlags DEF Within
<1> QED
  BY <1>1 DEF Within, InBlock, Adds

-----------------------------------------------------------------------------
(* How a line of p may be rewritten.                                       *)

(* Outside a block: a line that opens none goes, and its brace stays when  *)
(* it does.                                                                *)
LEMMA GoneOuter ==
  ASSUME NEW m \in WatchStates, NEW v \in WatchStates, NEW p \in Names, NEW x \in Names,
         NEW mode \in Modes, Beside(m, v, p, mode), NEW l \in Lines, l.name = p,
         HasSpec(l), ~l.open, l.kind = "single" \/ mode = "rules"
  PROVE  Close(Watch(m, l, x), v, p, mode)
<1> PICK a : a = Watch(m, l, x)
  OBVIOUS
<1>0. OutBlock(m) /\ l.kind # "bare" /\ ~v.read.block
  BY DEF OutBlock, Beside, HasSpec
<1>1. /\ a \in WatchStates
      /\ Other(a.read, {p}) = Other(m.read, {p})
      /\ a.read.pending = NoName
      /\ a.read.block <=> (l.kind = "bare" \/ l.open)
      /\ a.known <=> (m.known \/ (x = p /\ l.kind # "single"))
      /\ a.trap <=> (m.trap \/ (/\ ~m.known /\ x = p
                               /\ l.kind = "rule" /\ ~l.open /\ l.note))
      /\ a.sing <=> (m.sing \/ (l.kind = "single" /\ x = p))
      /\ a.shut <=> (m.shut \/ (l.kind = "single" /\ x = p /\ l.closed))
  <2>1. AfterOuter(m, l, p, x, a)
    BY <1>0, OutLine
  <2> QED
    BY <2>1 DEF AfterOuter
<1>2. Flags(m, v, mode)
  BY DEF Beside
<1>3. Flags(a, v, mode)
  BY <1>1, <1>2, Zenon DEF Flags
<1>4. ~a.read.block
  BY <1>0, <1>1
<1>5. Other(a.read, {p}) = Other(v.read, {p})
  BY <1>1 DEF Beside
<1>6. Beside(a, v, p, mode)
  BY <1>0, <1>3, <1>4, <1>5 DEF Beside
<1> QED
  BY <1>1, <1>6, BesideClose

LEMMA OpenOuter ==
  ASSUME NEW m \in WatchStates, NEW v \in WatchStates, NEW p \in Names, NEW x \in Names,
         NEW mode \in Modes, Beside(m, v, p, mode), NEW l \in Lines, l.name = p,
         (HasSpec(l) /\ l.open) \/ l.kind = "bare", NEW g \in Lines, OpenLine(g, p)
  PROVE  Close(Watch(m, l, x), Watch(v, g, x), p, mode)
<1> PICK a : a = Watch(m, l, x)
  OBVIOUS
<1> PICK b : b = Watch(v, g, x)
  OBVIOUS
<1>0. OutBlock(m) /\ OutBlock(v) /\ (HasSpec(l) \/ l.kind = "bare") /\ (l.kind = "bare" \/ l.open)
  BY DEF OutBlock, Beside
<1>1. /\ a \in WatchStates
      /\ Other(a.read, {p}) = Other(m.read, {p})
      /\ a.read.pending = NoName
      /\ a.read.block <=> (l.kind = "bare" \/ l.open)
      /\ l.kind = "bare" \/ l.open => a.read.owner = p
      /\ a.known <=> (m.known \/ (x = p /\ l.kind # "single"))
      /\ a.trap <=> (m.trap \/ (/\ ~m.known /\ x = p
                               /\ l.kind = "rule" /\ ~l.open /\ l.note))
      /\ a.sing <=> (m.sing \/ (l.kind = "single" /\ x = p))
      /\ a.shut <=> (m.shut \/ (l.kind = "single" /\ x = p /\ l.closed))
  <2>1. AfterOuter(m, l, p, x, a)
    BY <1>0, OutLine
  <2> QED
    BY <2>1 DEF AfterOuter
<1>2. InBlock(b, p) /\ Adds(v, b, p) /\ (x = p => b.known)
  BY <1>0, OpenerAdds
<1>3. Flags(m, b, mode)
  BY <1>2, AddsFlags DEF Beside
<1>4. Flags(a, b, mode)
  BY <1>1, <1>2, <1>3, Zenon DEF Flags
<1>5. Other(a.read, {p}) = Other(b.read, {p})
  BY <1>1, <1>2 DEF Beside, Adds
<1>6. a.read.block /\ a.read.owner = p
  BY <1>0, <1>1
<1>7. Within(a, b, p, mode)
  BY <1>1, <1>2, <1>4, <1>5, <1>6 DEF Within, InBlock
<1> QED
  BY <1>1, <1>2, <1>7, WithinClose DEF InBlock

(* In a block of p: a rule goes, the brace behind it stays.                *)
LEMMA GoneInner ==
  ASSUME NEW m \in WatchStates, NEW v \in WatchStates, NEW p \in Names, NEW x \in Names,
         NEW mode \in Modes, Within(m, v, p, mode), NEW l \in Lines, HasSpec(l)
  PROVE  /\ ~l.closed => Close(Watch(m, l, x), v, p, mode)
         /\ l.closed => \A g \in Lines : g.kind = "close" =>
                          Close(Watch(m, l, x), Watch(v, g, x), p, mode)
<1> PICK a : a = Watch(m, l, x)
  OBVIOUS
<1>0. /\ InBlock(m, p) /\ InBlock(v, p) /\ l.kind # "blank"
      /\ l.closed \in BOOLEAN /\ (Ends(l) <=> l.closed)
  BY LineFields DEF InBlock, Within, HasSpec, Fields, Ends
<1>1. /\ a \in WatchStates
      /\ Other(a.read, {p}) = Other(m.read, {p})
      /\ a.read.pending = m.read.pending
      /\ a.read.block <=> ~Ends(l)
      /\ ~Ends(l) => a.read.owner = p
      /\ a.known <=> m.known
      /\ a.trap <=> m.trap
      /\ a.sing <=> m.sing
      /\ a.shut <=> m.shut
  <2>1. AfterInner(m, l, p, a)
    BY <1>0, InLine
  <2> QED
    BY <2>1 DEF AfterInner
<1>2. Flags(m, v, mode)
  BY DEF Within
<1>3. \A w : Flags(m, w, mode) => Flags(a, w, mode)
  BY <1>1, Zenon DEF Flags
<1>4. ASSUME ~l.closed PROVE Close(a, v, p, mode)
  <2>1. a.read.block /\ a.read.owner = p /\ a.read.pending = NoName
    BY <1>0, <1>1, <1>4 DEF Within
  <2>2. Within(a, v, p, mode)
    BY <1>1, <1>2, <1>3, <2>1 DEF Within
  <2> QED
    BY <1>1, <2>2, WithinClose
<1>5. ASSUME l.closed, NEW g \in Lines, g.kind = "close"
      PROVE  Close(a, Watch(v, g, x), p, mode)
  <2> PICK b : b = Watch(v, g, x)
    OBVIOUS
  <2>1. Ends(g) /\ g.kind # "blank"
    BY <1>5 DEF Ends
  <2>2. OutBlock(b) /\ Adds(v, b, p)
    BY <1>0, <2>1, InnerAdds
  <2>3. Flags(a, b, mode)
    BY <1>2, <1>3, <2>2, AddsFlags
  <2>4. ~a.read.block /\ a.read.pending = NoName
    BY <1>0, <1>1, <1>5 DEF Within
  <2>5. Other(a.read, {p}) = Other(b.read, {p})
    BY <1>1, <2>2 DEF Within, Adds
  <2>6. Beside(a, b, p, mode)
    BY <2>2, <2>3, <2>4, <2>5 DEF Beside, OutBlock
  <2> QED
    BY <1>1, <2>2, <2>4, <2>6, BesideClose DEF OutBlock
<1> QED
  BY <1>4, <1>5

-----------------------------------------------------------------------------
(* An edit that rewrites lines of p, each by itself.                       *)
LEMMA LineStates ==
  ASSUME NEW f \in Seq(Lines), NEW x, NEW i \in DOMAIN f
  PROVE  /\ Seen(f, x, i - 1) \in WatchStates /\ Seen(f, x, i) \in WatchStates
         /\ Seen(f, x, i) = Watch(Seen(f, x, i - 1), f[i], x)
         /\ Seen(f, x, i - 1).read = At(f, i - 1)
         /\ f[i] \in Lines /\ i \in 1..Len(f) /\ i - 1 \in 0..Len(f) /\ i \in 0..Len(f)
<1>1. i \in 1..Len(f) /\ i - 1 \in 0..Len(f) /\ i \in 0..Len(f) /\ f[i] \in Lines
  OBVIOUS
<1>2. Seen(f, x, i - 1).read = At(f, i - 1)
  BY <1>1, SeenReads
<1> QED
  BY <1>1, <1>2, SeenRun

LEMMA BlockPending ==
  ASSUME NEW f \in Seq(Lines), NEW p \in Names, NEW i \in 0..Len(f), At(f, i).block
  PROVE  At(f, i).pending = NoName
<1>1. Agrees(f, p, i)
  BY ScanAgrees
<1> QED
  BY <1>1 DEF Agrees

Local(f, by, x, p, mode) ==
  \A i \in DOMAIN f \cap DOMAIN by : \A v \in WatchStates :
    Close(Seen(f, x, i - 1), v, p, mode) =>
      Close(Seen(f, x, i), Watched(v, by[i], x), p, mode)

LEMMA LocalEdit ==
  ASSUME NEW f \in Seq(Lines), NEW by, NEW x \in Names, NEW p \in Names, NEW mode \in Modes,
         \A i \in DOMAIN f \cap DOMAIN by : by[i] \in Seq(Lines),
         ~Stray(f), Local(f, by, x, p, mode),
         mode = "alone" => \A i \in DOMAIN f \ DOMAIN by : ~SingleLine(f, x, i)
  PROVE  Close(All(f, x), All(Replace(f, by), x), p, mode)
<1> DEFINE rel == [i \in 0..Len(f) |-> {v \in WatchStates : Close(Seen(f, x, i), v, p, mode)}]
<1>0. Len(f) \in Nat /\ DOMAIN f = 1..Len(f)
  OBVIOUS
<1>1. \A i \in 0..Len(f) : \A v : v \in rel[i] <=>
         v \in WatchStates /\ Close(Seen(f, x, i), v, p, mode)
  OBVIOUS
<1> HIDE DEF rel
<1>2. Begin \in rel[0]
  <2>1. Close(Begin, Begin, p, mode)
    BY DEF Close, Near, Flags, Begin
  <2>2. Seen(f, x, 0) = Begin
    BY SeenRun
  <2> QED
    BY <1>0, <1>1, <2>1, <2>2, BeginTypes
<1>3. ASSUME NEW i \in 1..Len(f), NEW v \in rel[i - 1]
      PROVE  Watched(v, Instead(f, by, i), x) \in rel[i]
  <2>0. i \in DOMAIN f /\ i - 1 \in 0..Len(f) /\ i \in 0..Len(f)
    BY <1>0
  <2>1. v \in WatchStates /\ Close(Seen(f, x, i - 1), v, p, mode)
    BY <1>1, <1>3, <2>0
  <2>2. Instead(f, by, i) \in Seq(Lines)
    BY <2>0 DEF Instead
  <2>3. Watched(v, Instead(f, by, i), x) \in WatchStates
    BY <2>1, <2>2, WatchTypes
  <2>4. CASE i \in DOMAIN by
    <3>1. Instead(f, by, i) = by[i]
      BY <2>4 DEF Instead
    <3>2. Close(Seen(f, x, i), Watched(v, by[i], x), p, mode)
      BY <2>0, <2>1, <2>4 DEF Local
    <3> QED
      BY <1>1, <2>0, <2>3, <3>1, <3>2
  <2>5. CASE i \notin DOMAIN by
    <3>1. Instead(f, by, i) = <<f[i]>>
      BY <2>5 DEF Instead
    <3>2. Watched(v, <<f[i]>>, x) = Watch(v, f[i], x)
      BY WatchOne
    <3>3. /\ Seen(f, x, i - 1) \in WatchStates /\ f[i] \in Lines
          /\ Seen(f, x, i) = Watch(Seen(f, x, i - 1), f[i], x)
          /\ Seen(f, x, i - 1).read = At(f, i - 1)
      BY <2>0, LineStates
    <3>4. ~StrayLine(Seen(f, x, i - 1).read, f[i])
      BY <3>3, NoStray
    <3>5. mode = "alone" => ~(/\ ~Seen(f, x, i - 1).read.block
                              /\ f[i].kind = "single" /\ f[i].name = x)
      <4>1. mode = "alone" => ~SingleLine(f, x, i)
        BY <2>0, <2>5
      <4> QED
        BY <3>3, <4>1 DEF SingleLine
    <3>6. Close(Watch(Seen(f, x, i - 1), f[i], x), Watch(v, f[i], x), p, mode)
      BY <2>1, <3>3, <3>4, <3>5, KeepLine
    <3> QED
      BY <1>1, <2>0, <2>3, <3>1, <3>2, <3>3, <3>6
  <2> QED
    BY <2>4, <2>5
<1>4. Watched(Begin, Replace(f, by), x) \in rel[Len(f)]
  <2>1. \A i \in 1..Len(f) : \A v \in rel[i - 1] : Watched(v, Instead(f, by, i), x) \in rel[i]
    BY <1>3
  <2> QED
    BY <1>2, <2>1, WatchReplace
<1>5. Len(f) \in 0..Len(f)
  BY <1>0
<1>6. Close(Seen(f, x, Len(f)), Watched(Begin, Replace(f, by), x), p, mode)
  BY <1>1, <1>4, <1>5
<1> QED
  BY <1>6, SeenRun DEF All

(* What is kept of a file that a request for p has changed.                *)
Kept(f, g, N) == Other(Read(g), N) = Other(Read(f), N)

LEMMA AllRead ==
  ASSUME NEW f \in Seq(Lines), NEW x
  PROVE  All(f, x).read = Read(f) /\ All(f, x) \in WatchStates
<1>1. Len(f) \in 0..Len(f)
  OBVIOUS
<1>2. Seen(f, x, Len(f)).read = At(f, Len(f))
  BY <1>1, SeenReads
<1> QED
  BY <1>2, SeenRun, AtRun

LEMMA CloseKept ==
  ASSUME NEW f \in Seq(Lines), NEW g \in Seq(Lines), NEW x, NEW p, NEW mode,
         Close(All(f, x), All(g, x), p, mode)
  PROVE  Kept(f, g, {p}) /\ ~Stray(g)
<1>1. Near(All(f, x).read, All(g, x).read, {p}) /\ ~All(g, x).stray
  BY DEF Close, Flags
<1>2. ~Stray(g)
  BY <1>1, SeenStray
<1> QED
  BY <1>1, <1>2, AllRead DEF Near, Kept

(* The file after a part of normalize_singles.                             *)
Sound(f, g, p) ==
  /\ g \in Seq(Lines) /\ Kept(f, g, {p}) /\ ~Stray(g)
  /\ \A x \in Names : All(g, x).trap => All(f, x).trap
  /\ \A x \in Names : All(g, x).shut => All(f, x).shut

LEMMA SoundHeads ==
  ASSUME NEW f \in Seq(Lines), NEW g \in Seq(Lines), NEW p \in Names,
         \A x \in Names : Close(All(f, x), All(g, x), p, "heads")
  PROVE  Sound(f, g, p) /\ (All(g, p).sing => All(f, p).sing)
<1>1. Kept(f, g, {p}) /\ ~Stray(g)
  BY CloseKept
<1>2. \A x \in Names : Flags(All(f, x), All(g, x), "heads")
  BY DEF Close
<1>3. \A x \in Names : All(g, x).trap => All(f, x).trap
  BY <1>2 DEF Flags
<1>4. All(g, p).sing => All(f, p).sing
  BY <1>2 DEF Flags
<1>5. \A x \in Names : All(g, x).shut => All(f, x).shut
  BY <1>2 DEF Flags
<1> QED
  BY <1>1, <1>3, <1>4, <1>5 DEF Sound

LEMMA SoundAfter ==
  ASSUME NEW f, NEW g, NEW h, NEW p, Sound(f, g, p), Sound(g, h, p)
  PROVE  Sound(f, h, p)
BY DEF Sound, Kept

LEMMA SoundTrap ==
  ASSUME NEW f \in Seq(Lines), NEW g, NEW p, Sound(f, g, p), ~Trap(f)
  PROVE  ~Trap(g)
<1>1. g \in Seq(Lines) /\ \A x \in Names : All(g, x).trap => All(f, x).trap
  BY DEF Sound
<1> QED
  BY <1>1, NoTrap

LEMMA SoundShut ==
  ASSUME NEW f \in Seq(Lines), NEW g, NEW p, Sound(f, g, p), NEW x \in Names, ~Shut(f, x)
  PROVE  ~Shut(g, x)
<1>1. g \in Seq(Lines) /\ (All(g, x).shut => All(f, x).shut)
  BY DEF Sound
<1> QED
  BY <1>1, ShutAre

-----------------------------------------------------------------------------
(* Taking out thread lines of p.                                           *)
LEMMA RemoveCases ==
  ASSUME NEW p, NEW l \in Lines, NEW i
  PROVE  /\ l.open => LineRemove(p, l, Single(l, i)) = <<WithComment(BareOpen(p), l)>>
         /\ ~l.open => LineRemove(p, l, Single(l, i)) = <<>>
         /\ l.closed => LineRemove(p, l, Inner(l, i)) = <<WithComment(CloseLine, l)>>
         /\ ~l.closed => LineRemove(p, l, Inner(l, i)) = <<>>
<1>1. /\ Single(l, i).open = l.open /\ ~Single(l, i).closed
      /\ ~Inner(l, i).open /\ Inner(l, i).closed = l.closed
  BY LocFields
<1>2. l.open \in BOOLEAN /\ l.closed \in BOOLEAN
  BY LineFields DEF Fields
<1> DEFINE a == <<WithComment(BareOpen(p), l)>>
           b == <<WithComment(CloseLine, l)>>
<1>3. \A loc : LineRemove(p, l, loc) = CASE loc.open -> a
                                         [] ~loc.open /\ loc.closed -> b
                                         [] OTHER -> <<>>
  BY DEF LineRemove
<1> HIDE DEF a, b
<1>4. /\ l.open => LineRemove(p, l, Single(l, i)) = a
      /\ ~l.open => LineRemove(p, l, Single(l, i)) = <<>>
      /\ l.closed => LineRemove(p, l, Inner(l, i)) = b
      /\ ~l.closed => LineRemove(p, l, Inner(l, i)) = <<>>
  BY <1>1, <1>2, <1>3
<1> QED
  BY <1>4 DEF a, b

LEMMA SingleGone ==
  ASSUME NEW f \in Seq(Lines), NEW p \in Names, NEW x \in Names, NEW mode \in Modes,
         NEW i \in DOMAIN f, SingleLine(f, p, i),
         NEW v \in WatchStates, Beside(Seen(f, x, i - 1), v, p, mode)
  PROVE  Close(Seen(f, x, i), Watched(v, LineRemove(p, f[i], Single(f[i], i)), x), p, mode)
<1> PICK l : l = f[i]
  OBVIOUS
<1> PICK m : m = Seen(f, x, i - 1)
  OBVIOUS
<1>1. m \in WatchStates /\ Seen(f, x, i) = Watch(m, l, x) /\ l \in Lines
  BY LineStates
<1>2. l.kind = "single" /\ l.name = p /\ HasSpec(l) /\ l.open \in BOOLEAN
  BY <1>1, LineFields DEF SingleLine, HasSpec, Fields
<1>3. CASE l.open
  <2> DEFINE g == WithComment(BareOpen(p), l)
  <2>1. g \in Lines /\ OpenLine(g, p)
    BY <1>1, LineTypes DEF OpenLine, WithComment, BareOpen, Text
  <2> HIDE DEF g
  <2>2. Close(Watch(m, l, x), Watch(v, g, x), p, mode)
    BY <1>1, <1>2, <1>3, <2>1, OpenOuter
  <2>3. Watched(v, <<g>>, x) = Watch(v, g, x)
    BY WatchOne
  <2>4. LineRemove(p, l, Single(l, i)) = <<g>>
    BY <1>1, <1>3, RemoveCases DEF g
  <2> QED
    BY <1>1, <2>2, <2>3, <2>4
<1>4. CASE ~l.open
  <2>1. Close(Watch(m, l, x), v, p, mode)
    BY <1>1, <1>2, <1>4, GoneOuter
  <2>2. Watched(v, <<>>, x) = v
    BY WatchNone
  <2>3. LineRemove(p, l, Single(l, i)) = <<>>
    BY <1>1, <1>4, RemoveCases
  <2> QED
    BY <1>1, <2>1, <2>2, <2>3
<1> QED
  BY <1>2, <1>3, <1>4

LEMMA InnerGone ==
  ASSUME NEW f \in Seq(Lines), NEW p \in Names, NEW x \in Names, NEW mode \in Modes,
         NEW i \in DOMAIN f, BlockLine(f, p, i),
         NEW v \in WatchStates, Within(Seen(f, x, i - 1), v, p, mode)
  PROVE  Close(Seen(f, x, i), Watched(v, LineRemove(p, f[i], Inner(f[i], i)), x), p, mode)
<1> PICK l : l = f[i]
  OBVIOUS
<1> PICK m : m = Seen(f, x, i - 1)
  OBVIOUS
<1>1. m \in WatchStates /\ Seen(f, x, i) = Watch(m, l, x) /\ l \in Lines
  BY LineStates
<1>2. HasSpec(l) /\ l.closed \in BOOLEAN
  BY <1>1, LineFields DEF BlockLine, Fields
<1>3. CASE l.closed
  <2> DEFINE g == WithComment(CloseLine, l)
  <2>1. g \in Lines /\ g.kind = "close"
    BY <1>1, LineTypes DEF WithComment, CloseLine, Text
  <2> HIDE DEF g
  <2>2. Close(Watch(m, l, x), Watch(v, g, x), p, mode)
    BY <1>1, <1>2, <1>3, <2>1, GoneInner
  <2>3. Watched(v, <<g>>, x) = Watch(v, g, x)
    BY WatchOne
  <2>4. LineRemove(p, l, Inner(l, i)) = <<g>>
    BY <1>1, <1>3, RemoveCases DEF g
  <2> QED
    BY <1>1, <2>2, <2>3, <2>4
<1>4. CASE ~l.closed
  <2>1. Close(Watch(m, l, x), v, p, mode)
    BY <1>1, <1>2, <1>4, GoneInner
  <2>2. Watched(v, <<>>, x) = v
    BY WatchNone
  <2>3. LineRemove(p, l, Inner(l, i)) = <<>>
    BY <1>1, <1>4, RemoveCases
  <2> QED
    BY <1>1, <2>1, <2>2, <2>3
<1> QED
  BY <1>2, <1>3, <1>4

(* Where the two readers stand before a line of p.                         *)
LEMMA StandBeside ==
  ASSUME NEW f \in Seq(Lines), NEW p, NEW x, NEW mode, NEW i \in DOMAIN f, ~At(f, i - 1).block,
         NEW v, Close(Seen(f, x, i - 1), v, p, mode)
  PROVE  Beside(Seen(f, x, i - 1), v, p, mode)
<1>1. Seen(f, x, i - 1).read = At(f, i - 1)
  BY LineStates
<1> QED
  BY <1>1, CloseBeside

LEMMA StandWithin ==
  ASSUME NEW f \in Seq(Lines), NEW p \in Names, NEW x, NEW mode, NEW i \in DOMAIN f,
         In(f, p, i - 1), NEW v, Close(Seen(f, x, i - 1), v, p, mode)
  PROVE  Within(Seen(f, x, i - 1), v, p, mode)
<1>1. Seen(f, x, i - 1).read = At(f, i - 1) /\ i - 1 \in 0..Len(f)
  BY LineStates
<1>2. At(f, i - 1).block /\ At(f, i - 1).owner = p
  BY DEF In
<1>3. At(f, i - 1).pending = NoName
  BY <1>1, <1>2, BlockPending
<1> QED
  BY <1>1, <1>2, <1>3, CloseWithin

LEMMA LocGone ==
  ASSUME NEW f \in Seq(Lines), NEW p \in Names, NEW x \in Names, NEW mode \in Modes,
         NEW i \in DOMAIN f, NEW loc, IsLoc(f, p, i, loc),
         NEW v \in WatchStates, Close(Seen(f, x, i - 1), v, p, mode)
  PROVE  Close(Seen(f, x, i), Watched(v, LineRemove(p, f[i], loc), x), p, mode)
<1>1. CASE SingleLine(f, p, i) /\ loc = Single(f[i], i)
  <2>1. ~At(f, i - 1).block
    BY <1>1 DEF SingleLine
  <2>2. Beside(Seen(f, x, i - 1), v, p, mode)
    BY <2>1, StandBeside
  <2> QED
    BY <1>1, <2>2, SingleGone
<1>2. CASE BlockLine(f, p, i) /\ loc = Inner(f[i], i)
  <2>1. In(f, p, i - 1)
    BY <1>2 DEF BlockLine
  <2>2. Within(Seen(f, x, i - 1), v, p, mode)
    BY <2>1, StandWithin
  <2> QED
    BY <1>2, <2>2, InnerGone
<1> QED
  BY <1>1, <1>2 DEF IsLoc

LEMMA RemovedLocal ==
  ASSUME NEW f \in Seq(Lines), NEW p \in Names, NEW x \in Names, NEW mode \in Modes,
         NEW locs \in SUBSET Scan(f, p).locs
  PROVE  /\ Local(f, Removed(f, p, locs), x, p, mode)
         /\ DOMAIN Removed(f, p, locs) = Ats(locs)
         /\ \A i \in Ats(locs) : Removed(f, p, locs)[i] \in Seq(Lines)
<1>1. locs \in SUBSET Locs(f)
  BY SinglesTypes
<1>2. /\ DOMAIN Removed(f, p, locs) = Ats(locs)
      /\ \A i \in Ats(locs) : Removed(f, p, locs)[i] \in Seq(Lines)
  BY <1>1, RemovedTypes
<1>3. ASSUME NEW i \in Ats(locs), NEW v \in WatchStates, Close(Seen(f, x, i - 1), v, p, mode)
      PROVE  Close(Seen(f, x, i), Watched(v, Removed(f, p, locs)[i], x), p, mode)
  <2>1. i \in DOMAIN f /\ IsLoc(f, p, i, LocAt(locs, i))
    BY LocAtIs
  <2>2. Removed(f, p, locs)[i] = LineRemove(p, f[i], LocAt(locs, i))
    BY DEF Removed
  <2>3. Close(Seen(f, x, i), Watched(v, LineRemove(p, f[i], LocAt(locs, i)), x), p, mode)
    BY <1>3, <2>1, LocGone
  <2> QED
    BY <2>2, <2>3
<1> QED
  BY <1>2, <1>3 DEF Local

LEMMA RemoveKept ==
  ASSUME NEW f \in Seq(Lines), NEW p \in Names, NEW x \in Names, NEW mode \in Modes,
         NEW locs \in SUBSET Scan(f, p).locs, ~Stray(f),
         mode = "alone" => x = p /\ locs = Singles(Scan(f, p))
  PROVE  Close(All(f, x), All(RemoveLocs(f, p, locs), x), p, mode)
<1> DEFINE by == Removed(f, p, locs)
<1>1. /\ Local(f, by, x, p, mode) /\ DOMAIN by = Ats(locs)
      /\ \A i \in DOMAIN by : by[i] \in Seq(Lines)
  BY RemovedLocal
<1>2. mode = "alone" => \A i \in DOMAIN f \ Ats(locs) : ~SingleLine(f, x, i)
  BY SinglesAre
<1>3. RemoveLocs(f, p, locs) = Replace(f, by)
  BY DEF RemoveLocs
<1> HIDE DEF by
<1> QED
  BY <1>1, <1>2, <1>3, LocalEdit

-----------------------------------------------------------------------------
(* Putting lines of p in the place of one.                                 *)
LEMMA OneEdit ==
  ASSUME NEW f \in Seq(Lines), NEW p \in Names, NEW x \in Names, NEW mode \in Modes \ {"alone"},
         ~Stray(f), NEW at \in DOMAIN f, NEW lines \in Seq(Lines),
         \A v \in WatchStates : Close(Seen(f, x, at - 1), v, p, mode) =>
           Close(Seen(f, x, at), Watched(v, lines, x), p, mode)
  PROVE  Close(All(f, x), All(ReplaceOne(f, at, lines), x), p, mode)
<1> DEFINE by == [i \in {at} |-> lines]
<1>1. DOMAIN by = {at} /\ by[at] = lines
  OBVIOUS
<1>2. ReplaceOne(f, at, lines) = Replace(f, by)
  BY DEF ReplaceOne
<1> HIDE DEF by
<1>3. Local(f, by, x, p, mode)
  BY <1>1 DEF Local
<1>4. \A i \in DOMAIN f \cap DOMAIN by : by[i] \in Seq(Lines)
  BY <1>1
<1> QED
  BY <1>2, <1>3, <1>4, LocalEdit

(* Rules before the end of the first block.                                *)
LEMMA InsertKept ==
  ASSUME NEW g \in Seq(Lines), NEW p \in Names, NEW x \in Names, NEW mode \in Modes \ {"alone"},
         ~Stray(g), Scan(g, p).close # 0, NEW items \in Seq(Rulings)
  PROVE  Close(All(g, x), All(InsertAll(g, Scan(g, p).close, items), x), p, mode)
<1> PICK z : z = Scan(g, p).close
  OBVIOUS
<1> PICK a : a = Scan(g, p).open
  OBVIOUS
<1>0. Len(g) \in Nat /\ DOMAIN g = 1..Len(g) /\ items \in Seq(Lines)
      /\ \A k \in DOMAIN items : Plain(items[k])
  BY DEF Rulings
<1>1. BlockIs(g, p, Len(g)) /\ Scan(g, p) = ScanTo(g, p)[Len(g)]
  BY <1>0, BlockFound DEF Scan
<1>2. /\ a \in 1..Len(g) /\ z \in a + 1..Len(g)
      /\ \A k \in a..Len(g) : k < z => In(g, p, k)
  BY <1>1 DEF BlockIs
<1>3. z \in DOMAIN g /\ z - 1 \in a..Len(g) /\ z - 1 < z /\ a # 0
  BY <1>0, <1>2
<1>4. In(g, p, z - 1)
  BY <1>2, <1>3
<1> PICK l : l = g[z]
  OBVIOUS
<1> PICK m : m = Seen(g, x, z - 1)
  OBVIOUS
<1>5. m \in WatchStates /\ Seen(g, x, z) = Watch(m, l, x) /\ l \in Lines /\ m.read = At(g, z - 1)
  BY <1>3, LineStates
<1>6. ASSUME NEW v \in WatchStates, Close(m, v, p, mode)
      PROVE  Close(Seen(g, x, z), Watched(v, items \o <<l>>, x), p, mode)
  <2>1. Within(m, v, p, mode)
    BY <1>3, <1>4, <1>6, StandWithin
  <2>2. InBlock(v, p)
    BY <2>1 DEF InBlock, Within
  <2> PICK w : w = Watched(v, items, x)
    OBVIOUS
  <2>3. InBlock(w, p) /\ Adds(v, w, p)
    BY <1>0, <2>2, ItemsAdd
  <2>4. Within(m, w, p, mode)
    BY <2>1, <2>3, WithinAdds
  <2>5. Close(m, w, p, mode) /\ w \in WatchStates
    BY <1>5, <2>3, <2>4, WithinClose DEF InBlock
  <2>6. ~StrayLine(m.read, l) /\ mode # "alone" /\ mode \in Modes
    BY <1>0, <1>3, <1>5, NoStray
  <2>7. Close(Watch(m, l, x), Watch(w, l, x), p, mode)
    BY <1>5, <2>5, <2>6, KeepLine
  <2> DEFINE y == <<l>>
  <2>8. y \in Seq(Lines) /\ Watched(w, y, x) = Watch(w, l, x)
    BY <1>5, WatchOne
  <2> HIDE DEF y
  <2>9. Watched(v, items \o y, x) = Watched(Watched(v, items, x), y, x)
    BY <1>0, <2>8, WatchConcat
  <2>10. Close(Seen(g, x, z), Watched(v, items \o y, x), p, mode)
    BY <1>5, <2>7, <2>8, <2>9
  <2> QED
    BY <2>10 DEF y
<1>7. items \o <<l>> \in Seq(Lines)
  BY <1>0, <1>5
<1>8. InsertAll(g, z, items) = ReplaceOne(g, z, items \o <<l>>)
  BY DEF InsertAll
<1> DEFINE lines == items \o <<l>>
<1>9. \A v \in WatchStates : Close(Seen(g, x, z - 1), v, p, mode) =>
        Close(Seen(g, x, z), Watched(v, lines, x), p, mode)
  BY <1>6
<1>10. lines \in Seq(Lines) /\ InsertAll(g, z, items) = ReplaceOne(g, z, lines)
  BY <1>7, <1>8
<1> HIDE DEF lines
<1>11. Close(All(g, x), All(ReplaceOne(g, z, lines), x), p, mode)
  BY <1>3, <1>9, <1>10, OneEdit
<1> QED
  BY <1>10, <1>11

(* A block behind the rule of p, when the brace does not get lost.         *)
LEMMA BraceKept ==
  ASSUME NEW g \in Seq(Lines), NEW p \in Names, NEW x \in Names, NEW mode \in Modes \ {"alone"},
         ~Stray(g), Scan(g, p).first.kind = "Standalone",
         NEW at, at = Scan(g, p).first.at, ~g[at].note, NEW items \in Seq(Rulings),
         NEW lines, lines = <<AppendBrace(g[at])>> \o items \o <<CloseLine>>
  PROVE  Close(All(g, x), All(ReplaceOne(g, at, lines), x), p, mode)
<1>0. Len(g) \in Nat /\ DOMAIN g = 1..Len(g) /\ items \in Seq(Lines) /\ mode \in Modes
      /\ \A k \in DOMAIN items : Plain(items[k])
  BY DEF Rulings
<1>1. HeadIs(g, p, Scan(g, p), Len(g))
  BY <1>0, HeadFound DEF Scan
<1> PICK l : l = g[at]
  OBVIOUS
<1>2. /\ at \in DOMAIN g /\ l.kind = "rule" /\ l.name = p /\ ~l.open /\ ~At(g, at - 1).block
  BY <1>0, <1>1, NowhereIs DEF HeadIs
<1> PICK m : m = Seen(g, x, at - 1)
  OBVIOUS
<1>3. m \in WatchStates /\ Seen(g, x, at) = Watch(m, l, x) /\ l \in Lines /\ m.read = At(g, at - 1)
  BY <1>2, LineStates
<1> DEFINE o == [l EXCEPT !.open = TRUE]
<1>4. AppendBrace(g[at]) = o /\ o \in Lines /\ OpenLine(o, p)
  <2>1. o \in Lines
    BY <1>3, LineTypes
  <2>2. o.open /\ o.kind = "rule" /\ o.name = p
    BY <1>2, <1>3 DEF Lines
  <2> QED
    BY <2>1, <2>2 DEF AppendBrace, OpenLine
<1> HIDE DEF o
<1>5. lines = <<o>> \o items \o <<CloseLine>>
  BY <1>4
<1>6. ASSUME NEW v \in WatchStates, Close(m, v, p, mode)
      PROVE  Close(Seen(g, x, at), Watched(v, lines, x), p, mode)
  <2> PICK a : a = Watch(m, l, x)
    OBVIOUS
  <2> PICK w : w = Watched(v, lines, x)
    OBVIOUS
  <2>1. Beside(m, v, p, mode)
    BY <1>2, <1>6, StandBeside
  <2>2. OutBlock(v) /\ OutBlock(m)
    BY <1>3, <2>1 DEF OutBlock, Beside
  <2>3. w = Watched(v, <<o>> \o items \o <<CloseLine>>, x)
    BY <1>5
  <2>4. OutBlock(w) /\ Adds(v, w, p) /\ (x = p => w.known)
    BY <1>0, <1>4, <2>2, <2>3, BlockAdds
  <2>5. HasSpec(l)
    BY <1>2 DEF HasSpec
  <2>6. /\ a \in WatchStates
        /\ Other(a.read, {p}) = Other(m.read, {p})
        /\ a.read.pending = NoName
        /\ a.read.block <=> (l.kind = "bare" \/ l.open)
        /\ a.known <=> (m.known \/ (x = p /\ l.kind # "single"))
        /\ a.trap <=> (m.trap \/ (/\ ~m.known /\ x = p
                                 /\ l.kind = "rule" /\ ~l.open /\ l.note))
        /\ a.sing <=> (m.sing \/ (l.kind = "single" /\ x = p))
        /\ a.shut <=> (m.shut \/ (l.kind = "single" /\ x = p /\ l.closed))
    <3>1. AfterOuter(m, l, p, x, a)
      BY <1>2, <1>3, <2>2, <2>5, OutLine
    <3> QED
      BY <3>1 DEF AfterOuter
  <2>7. Flags(m, w, mode)
    BY <2>1, <2>4, AddsFlags DEF Beside
  <2>8. Flags(a, w, mode)
    BY <2>4, <2>6, <2>7, Zenon DEF Flags
  <2>9. ~a.read.block /\ Other(a.read, {p}) = Other(w.read, {p})
    BY <1>2, <2>1, <2>4, <2>6 DEF Beside, Adds
  <2>10. Beside(a, w, p, mode)
    BY <2>4, <2>8, <2>9 DEF Beside, OutBlock
  <2>11. Close(a, w, p, mode)
    BY <2>4, <2>6, <2>10, BesideClose DEF OutBlock
  <2> QED
    BY <1>3, <2>11
<1>7. lines \in Seq(Lines)
  <2>1. CloseLine \in Lines
    BY LineTypes
  <2> QED
    BY <1>0, <1>4, <1>5, <2>1
<1>8. \A v \in WatchStates : Close(Seen(g, x, at - 1), v, p, mode) =>
        Close(Seen(g, x, at), Watched(v, lines, x), p, mode)
  BY <1>6
<1> QED
  BY <1>2, <1>7, <1>8, OneEdit

LEMMA MovedLine ==
  ASSUME NEW f \in Seq(Lines), NEW p \in Names, NEW x \in Names, NEW mode \in Modes,
         NEW i \in DOMAIN f, SingleLine(f, p, i), NEW v \in WatchStates,
         Beside(Seen(f, x, i - 1), v, p, mode),
         NEW block \in Seq(Lines), NEW r \in Seq(Lines),
         r = LineRemove(p, f[i], Single(f[i], i)), NEW c, c = block \o r,
         NEW w, w = Watched(v, block, x), OutBlock(w), Adds(v, w, p)
  PROVE  Close(Seen(f, x, i), Watched(v, c, x), p, mode)
<1>1. Watched(v, c, x) = Watched(w, r, x)
  <2>1. Watched(v, block \o r, x) = Watched(Watched(v, block, x), r, x)
    <3>1. block \in Seq(Lines) /\ r \in Seq(Lines)
      OBVIOUS
    <3> QED
      BY <3>1, WatchConcat
  <2>2. c = block \o r /\ w = Watched(v, block, x)
    OBVIOUS
  <2> QED
    BY <2>1, <2>2, Zenon
<1>2. Beside(Seen(f, x, i - 1), w, p, mode) /\ w \in WatchStates
  BY BesideAdds DEF OutBlock
<1>3. Close(Seen(f, x, i), Watched(w, r, x), p, mode)
  BY <1>2, SingleGone
<1> QED
  BY <1>1, <1>3

(* A block in the place of the first thread line, the others gone.         *)
LEMMA MovedKept ==
  ASSUME NEW f \in Seq(Lines), NEW p \in Names, NEW x \in Names, NEW mode \in Modes,
         ~Stray(f), mode = "alone" => x = p, NEW items \in Seq(Rulings), NEW at,
         NEW block, block = <<BareOpen(p)>> \o items \o <<CloseLine>>,
         NEW by, by = [Removed(f, p, Singles(Scan(f, p))) EXCEPT ![at] = block \o @]
  PROVE  Close(All(f, x), All(Replace(f, by), x), p, mode)
<1> DEFINE singles == Singles(Scan(f, p))
           left == Removed(f, p, singles)
<1>0. /\ items \in Seq(Lines) /\ (\A k \in DOMAIN items : Plain(items[k]))
      /\ singles \in SUBSET Scan(f, p).locs
  BY DEF Rulings, Singles
<1>1. /\ DOMAIN left = Ats(singles)
      /\ \A i \in Ats(singles) : left[i] \in Seq(Lines)
  BY <1>0, RemovedLocal
<1>2. /\ DOMAIN by = Ats(singles)
      /\ \A i \in Ats(singles) : by[i] = IF i = at THEN block \o left[i] ELSE left[i]
  <2> HIDE DEF singles
  <2>1. DOMAIN left = Ats(singles)
    BY <1>1
  <2>2. by = [left EXCEPT ![at] = block \o @]
    BY DEF singles
  <2> HIDE DEF left
  <2> QED
    BY <2>1, <2>2
<1>3. BareOpen(p) \in Lines /\ OpenLine(BareOpen(p), p) /\ CloseLine \in Lines
  BY LineTypes DEF OpenLine, BareOpen, Text
<1>4. block \in Seq(Lines)
  BY <1>0, <1>3
<1>5. ASSUME NEW i \in Ats(singles), NEW v \in WatchStates, Close(Seen(f, x, i - 1), v, p, mode)
      PROVE  Close(Seen(f, x, i), Watched(v, by[i], x), p, mode)
  <2>1. /\ i \in DOMAIN f /\ LocAt(singles, i) \in singles /\ IsLoc(f, p, i, LocAt(singles, i))
    BY <1>0, LocAtIs
  <2>2. SingleLine(f, p, i) /\ left[i] = LineRemove(p, f[i], Single(f[i], i))
    <3>1. LocAt(singles, i).single
      BY <2>1 DEF Singles
    <3>2. LocAt(singles, i) # Inner(f[i], i)
      BY <3>1, LocFields
    <3>3. SingleLine(f, p, i) /\ LocAt(singles, i) = Single(f[i], i)
      BY <2>1, <3>2 DEF IsLoc
    <3>4. left[i] = LineRemove(p, f[i], LocAt(singles, i))
      BY DEF Removed
    <3> QED
      BY <3>3, <3>4
  <2>3. Beside(Seen(f, x, i - 1), v, p, mode)
    BY <1>5, <2>1, <2>2, StandBeside DEF SingleLine
  <2> HIDE DEF left
  <2>4. CASE i # at
    <3>1. by[i] = LineRemove(p, f[i], Single(f[i], i))
      BY <1>2, <2>2, <2>4
    <3> QED
      BY <2>1, <2>2, <2>3, <3>1, SingleGone
  <2>5. CASE i = at
    <3>1. by[i] = block \o left[i]
      BY <1>2, <2>5
    <3>2. left[i] \in Seq(Lines)
      BY <1>1 DEF left
    <3> PICK w : w = Watched(v, block, x)
      OBVIOUS
    <3> PICK r : r = left[i]
      OBVIOUS
    <3>8. r \in Seq(Lines)
      BY <3>2
    <3> PICK c : c = block \o r
      OBVIOUS
    <3>9. by[i] = c
      BY <3>1
    <3>4. OutBlock(v)
      BY <2>3 DEF OutBlock, Beside
    <3>5. OutBlock(w) /\ Adds(v, w, p)
      BY <1>0, <1>3, <3>4, BlockAdds
    <3>6. r = LineRemove(p, f[i], Single(f[i], i))
      BY <2>2
    <3>7. Close(Seen(f, x, i), Watched(v, c, x), p, mode)
      BY <1>4, <2>1, <2>2, <2>3, <3>5, <3>6, <3>8, MovedLine
    <3> QED
      BY <3>7, <3>9
  <2> QED
    BY <2>4, <2>5
<1>6. Local(f, by, x, p, mode)
  BY <1>2, <1>5 DEF Local
<1>7. \A i \in DOMAIN f \cap DOMAIN by : by[i] \in Seq(Lines)
  <2> HIDE DEF left, singles
  <2>1. ASSUME NEW i \in Ats(singles) PROVE by[i] \in Seq(Lines)
    <3>1. left[i] \in Seq(Lines)
      BY <1>1
    <3>2. block \o left[i] \in Seq(Lines)
      BY <1>4, <3>1
    <3> QED
      BY <1>2, <3>1, <3>2
  <2> QED
    BY <1>2, <2>1
<1>8. mode = "alone" => \A i \in DOMAIN f \ DOMAIN by : ~SingleLine(f, x, i)
  BY <1>2, SinglesAre
<1> QED
  BY <1>6, <1>7, <1>8, LocalEdit

-----------------------------------------------------------------------------
(* normalize_singles.                                                      *)
BraceBlock(g, i, items) == ReplaceOne(g, i, <<AppendBrace(g[i])>> \o items \o <<CloseLine>>)
MovedBy(f, pkg, singles, items) ==
  [Removed(f, pkg, singles) EXCEPT
     ![Min(Ats(singles))] = (<<BareOpen(pkg)>> \o items \o <<CloseLine>>) \o @]

LEMMA MoveCases ==
  ASSUME NEW f, NEW pkg, NEW singles, NEW items,
         NEW g, g = RemoveLocs(f, pkg, singles), NEW t, t = Scan(g, pkg)
  PROVE  \/ /\ t.close # 0
            /\ MoveInto(f, pkg, singles, items) = InsertAll(g, t.close, items)
         \/ /\ t.first.kind = "Standalone"
            /\ MoveInto(f, pkg, singles, items) = BraceBlock(g, t.first.at, items)
         \/ MoveInto(f, pkg, singles, items) = Replace(f, MovedBy(f, pkg, singles, items))
<1> DEFINE a == InsertAll(g, t.close, items)
           b == BraceBlock(g, t.first.at, items)
           c == Replace(f, MovedBy(f, pkg, singles, items))
           shut == t.close # 0
           alone == t.first.kind = "Standalone"
<1>1. MoveInto(f, pkg, singles, items) =
        CASE shut -> a [] t.close = 0 /\ alone -> b [] OTHER -> c
  BY DEF MoveInto, BraceBlock, MovedBy
<1>2. (t.close = 0) <=> ~shut
  OBVIOUS
<1>3. shut \in BOOLEAN /\ alone \in BOOLEAN
  OBVIOUS
<1> HIDE DEF a, b, c, shut, alone
<1>4. \/ shut /\ MoveInto(f, pkg, singles, items) = a
      \/ alone /\ MoveInto(f, pkg, singles, items) = b
      \/ MoveInto(f, pkg, singles, items) = c
  BY <1>1, <1>2, <1>3
<1> QED
  BY <1>4 DEF a, b, c, shut, alone

LEMMA MoveSound ==
  ASSUME NEW f \in Seq(Lines), NEW p \in Names, ~Stray(f), ~Trap(f),
         NEW items \in Seq(Rulings),
         NEW singles, singles = Singles(Scan(f, p)),
         NEW h, h = MoveInto(f, p, singles, items)
  PROVE  Sound(f, h, p) /\ ~All(h, p).sing
<1> PICK g : g = RemoveLocs(f, p, singles)
  OBVIOUS
<1> PICK t : t = Scan(g, p)
  OBVIOUS
<1>0. /\ singles \in SUBSET Scan(f, p).locs /\ singles \in SUBSET Locs(f)
      /\ items \in Seq(Lines)
  BY SinglesTypes DEF Singles, Rulings
<1>1. g \in Seq(Lines) /\ h \in Seq(Lines)
  BY <1>0, RemovedTypes, MoveIntoTypes
<1>2. ASSUME NEW x \in Names, NEW mode \in Modes, mode = "alone" => x = p
      PROVE  Close(All(f, x), All(g, x), p, mode)
  BY <1>0, <1>2, RemoveKept
<1>3. Sound(f, g, p) /\ ~All(g, p).sing
  <2>1. \A x \in Names : Close(All(f, x), All(g, x), p, "heads")
    BY <1>2 DEF Modes
  <2>2. Close(All(f, p), All(g, p), p, "alone")
    BY <1>2 DEF Modes
  <2> QED
    BY <1>1, <2>1, <2>2, SoundHeads DEF Close, Flags
<1>4. ~Stray(g) /\ ~Trap(g)
  BY <1>3, SoundTrap DEF Sound
<1>5. ASSUME \A x \in Names : Close(All(g, x), All(h, x), p, "heads")
      PROVE  Sound(f, h, p) /\ ~All(h, p).sing
  <2>1. Sound(g, h, p) /\ (All(h, p).sing => All(g, p).sing)
    BY <1>1, <1>5, SoundHeads
  <2> QED
    BY <1>3, <2>1, SoundAfter
<1>6. "heads" \in Modes \ {"alone"}
  BY DEF Modes
<1>7. CASE t.close # 0 /\ h = InsertAll(g, t.close, items)
  <2>1. ASSUME NEW x \in Names PROVE Close(All(g, x), All(h, x), p, "heads")
    BY <1>1, <1>4, <1>6, <1>7, InsertKept
  <2> QED
    BY <1>5, <2>1
<1>8. CASE t.first.kind = "Standalone" /\ h = BraceBlock(g, t.first.at, items)
  <2> DEFINE at == t.first.at
             lines == <<AppendBrace(g[at])>> \o items \o <<CloseLine>>
  <2>1. ~g[at].note
    BY <1>4, <1>8 DEF Trap
  <2>2. h = ReplaceOne(g, at, lines)
    BY <1>8 DEF BraceBlock
  <2> HIDE DEF lines
  <2>3. ASSUME NEW x \in Names PROVE Close(All(g, x), All(h, x), p, "heads")
    <3>1. lines = <<AppendBrace(g[at])>> \o items \o <<CloseLine>>
      BY DEF lines
    <3> HIDE DEF at
    <3>2. at = Scan(g, p).first.at /\ Scan(g, p).first.kind = "Standalone"
      BY <1>8 DEF at
    <3>3. Close(All(g, x), All(ReplaceOne(g, at, lines), x), p, "heads")
      BY <1>1, <1>4, <1>6, <2>1, <3>1, <3>2, BraceKept
    <3> QED
      BY <2>2, <3>3
  <2> QED
    BY <1>5, <2>3
<1>9. CASE h = Replace(f, MovedBy(f, p, singles, items))
  <2> DEFINE block == <<BareOpen(p)>> \o items \o <<CloseLine>>
             at == Min(Ats(singles))
             by == [Removed(f, p, Singles(Scan(f, p))) EXCEPT ![at] = block \o @]
  <2>1. h = Replace(f, by)
    BY <1>9 DEF MovedBy
  <2>2. ASSUME NEW x \in Names, NEW mode \in Modes, mode = "alone" => x = p
        PROVE  Close(All(f, x), All(h, x), p, mode)
    <3> HIDE DEF at
    <3>1. block = <<BareOpen(p)>> \o items \o <<CloseLine>>
      OBVIOUS
    <3> HIDE DEF block
    <3>2. by = [Removed(f, p, Singles(Scan(f, p))) EXCEPT ![at] = block \o @]
      OBVIOUS
    <3> HIDE DEF by
    <3>3. Close(All(f, x), All(Replace(f, by), x), p, mode)
      BY <2>2, <3>1, <3>2, MovedKept
    <3> QED
      BY <2>1, <3>3
  <2>3. \A x \in Names : Close(All(f, x), All(h, x), p, "heads")
    BY <2>2 DEF Modes
  <2>4. Close(All(f, p), All(h, p), p, "alone")
    BY <2>2 DEF Modes
  <2> QED
    BY <1>1, <2>3, <2>4, SoundHeads DEF Close, Flags
<1> QED
  BY <1>7, <1>8, <1>9, MoveCases

LEMMA NormalizeSound ==
  ASSUME NEW f \in Seq(Lines), NEW p \in Names, ~Stray(f), ~Trap(f), ~Shut(f, p),
         NEW g, g = NormalizeSingles(f, p)
  PROVE  /\ Sound(f, g, p) /\ ~Stray(g) /\ ~Trap(g) /\ g \in Seq(Lines)
         /\ Singles(Scan(g, p)) = {} \/ Scan(g, p).close = 0
<1> DEFINE t == Scan(f, p)
           singles == Singles(t)
           items == MovedLines(f, singles)
           unsafe == /\ t.close = 0
                     /\ \/ \E loc \in singles : loc.open
                        \/ t.first.kind \notin {"none", "Standalone"}
<1>1. g = IF singles = {} \/ unsafe THEN f ELSE MoveInto(f, p, singles, items)
  BY DEF NormalizeSingles, MoveSingles
<1>2. singles \in SUBSET Locs(f)
  BY SinglesTypes
<1>3. items \in Seq(Rulings)
  <2>1. singles \in SUBSET Scan(f, p).locs /\ \A loc \in singles : loc.single
    BY DEF Singles
  <2> HIDE DEF singles
  <2> QED
    BY <2>1, ListPlain
<1>4. CASE singles = {} \/ unsafe
  <2>1. g = f
    <3> HIDE DEF items, singles, unsafe
    <3> QED
      BY <1>1, <1>4
  <2>2. Sound(f, f, p)
    BY DEF Sound, Kept
  <2> QED
    BY <1>4, <2>1, <2>2
<1>5. CASE ~(singles = {} \/ unsafe)
  <2>1. g = MoveInto(f, p, singles, items)
    <3> HIDE DEF items, singles, unsafe
    <3> QED
      BY <1>1, <1>5
  <2> HIDE DEF items
  <2>2. Sound(f, g, p) /\ ~All(g, p).sing
    BY <1>3, <2>1, MoveSound
  <2>3. g \in Seq(Lines) /\ ~Stray(g) /\ ~Trap(g)
    BY <2>2, SoundTrap DEF Sound
  <2>4. Singles(Scan(g, p)) = {}
    BY <2>2, <2>3, SinglesAre
  <2> QED
    BY <2>2, <2>3, <2>4
<1> QED
  BY <1>4, <1>5

-----------------------------------------------------------------------------
(* Edits that need not be undone: only what is read of other packages is   *)
(* kept, whatever becomes of the package lines.                            *)
LEMMA KeptAfter ==
  ASSUME NEW f, NEW g, NEW h, NEW N, Kept(f, g, N), Kept(g, h, N)
  PROVE  Kept(f, h, N)
BY DEF Kept

LEMMA KeptWider ==
  ASSUME NEW f, NEW g, NEW M, NEW N, Kept(f, g, M), M \subseteq N
  PROVE  Kept(f, g, N)
<1>1. \A s : Other(s, N) = {r \in Other(s, M) : r.pkg \notin N}
  BY DEF Other
<1> QED
  BY <1>1 DEF Kept

(* A line of p in the place of another that opens a block when it does.    *)
LEMMA SwapOuter ==
  ASSUME NEW m \in WatchStates, NEW v \in WatchStates, NEW p \in Names, NEW x \in Names,
         Beside(m, v, p, "rules"), NEW l \in Lines, NEW o \in Lines,
         l.name = p, HasSpec(l) \/ l.kind = "bare",
         o.name = p, HasSpec(o) \/ o.kind = "bare",
         (l.kind = "bare" \/ l.open) <=> (o.kind = "bare" \/ o.open)
  PROVE  Close(Watch(m, l, x), Watch(v, o, x), p, "rules")
<1> PICK a : a = Watch(m, l, x)
  OBVIOUS
<1> PICK b : b = Watch(v, o, x)
  OBVIOUS
<1>0. OutBlock(m) /\ OutBlock(v)
  BY DEF OutBlock, Beside
<1>1. /\ a \in WatchStates
      /\ Other(a.read, {p}) = Other(m.read, {p})
      /\ a.read.pending = NoName
      /\ a.read.block <=> (l.kind = "bare" \/ l.open)
      /\ l.kind = "bare" \/ l.open => a.read.owner = p
  <2>1. AfterOuter(m, l, p, x, a)
    BY <1>0, OutLine
  <2> QED
    BY <2>1 DEF AfterOuter
<1>2. /\ b \in WatchStates
      /\ Other(b.read, {p}) = Other(v.read, {p})
      /\ b.read.block <=> (o.kind = "bare" \/ o.open)
      /\ o.kind = "bare" \/ o.open => b.read.owner = p
      /\ b.stray <=> v.stray
  <2>1. AfterOuter(v, o, p, x, b)
    BY <1>0, OutLine
  <2> QED
    BY <2>1 DEF AfterOuter
<1>3. Flags(a, b, "rules")
  BY <1>2 DEF Beside, Flags
<1>4. Other(a.read, {p}) = Other(b.read, {p})
  BY <1>1, <1>2 DEF Beside
<1>5. CASE l.kind = "bare" \/ l.open
  <2>1. Within(a, b, p, "rules")
    BY <1>1, <1>2, <1>3, <1>4, <1>5 DEF Within
  <2> QED
    BY <1>1, <1>2, <2>1, WithinClose
<1>6. CASE ~(l.kind = "bare" \/ l.open)
  <2>1. Beside(a, b, p, "rules")
    BY <1>1, <1>2, <1>3, <1>4, <1>6 DEF Beside
  <2> QED
    BY <1>1, <1>2, <2>1, BesideClose
<1> QED
  BY <1>5, <1>6

LEMMA SwapInner ==
  ASSUME NEW m \in WatchStates, NEW v \in WatchStates, NEW p \in Names, NEW x \in Names,
         Within(m, v, p, "rules"), NEW l \in Lines, NEW o \in Lines,
         l.kind # "blank", o.kind # "blank", Ends(l) <=> Ends(o)
  PROVE  Close(Watch(m, l, x), Watch(v, o, x), p, "rules")
<1> PICK a : a = Watch(m, l, x)
  OBVIOUS
<1> PICK b : b = Watch(v, o, x)
  OBVIOUS
<1>0. InBlock(m, p) /\ InBlock(v, p)
  BY DEF InBlock, Within
<1>1. /\ a \in WatchStates
      /\ Other(a.read, {p}) = Other(m.read, {p})
      /\ a.read.pending = m.read.pending
      /\ a.read.block <=> ~Ends(l)
      /\ ~Ends(l) => a.read.owner = p
  <2>1. AfterInner(m, l, p, a)
    BY <1>0, InLine
  <2> QED
    BY <2>1 DEF AfterInner
<1>2. /\ b \in WatchStates
      /\ Other(b.read, {p}) = Other(v.read, {p})
      /\ b.read.block <=> ~Ends(o)
      /\ ~Ends(o) => b.read.owner = p
      /\ b.stray <=> v.stray
  <2>1. AfterInner(v, o, p, b)
    BY <1>0, InLine
  <2> QED
    BY <2>1 DEF AfterInner
<1>3. Flags(a, b, "rules")
  BY <1>2 DEF Within, Flags
<1>4. Other(a.read, {p}) = Other(b.read, {p}) /\ a.read.pending = NoName
  BY <1>1, <1>2 DEF Within
<1>5. CASE ~Ends(l)
  <2>1. Within(a, b, p, "rules")
    BY <1>1, <1>2, <1>3, <1>4, <1>5 DEF Within
  <2> QED
    BY <1>1, <1>2, <2>1, WithinClose
<1>6. CASE Ends(l)
  <2>1. Beside(a, b, p, "rules")
    BY <1>1, <1>2, <1>3, <1>4, <1>6 DEF Beside
  <2> QED
    BY <1>1, <1>2, <1>4, <2>1, BesideClose
<1> QED
  BY <1>5, <1>6

(* Lines behind the end of a file that ends outside a block.               *)
LEMMA EndOutside ==
  ASSUME NEW g \in Seq(Lines), NEW p \in Names, ~Unterminated(Scan(g, p)), NEW x
  PROVE  OutBlock(All(g, x))
<1>1. Len(g) \in 0..Len(g) /\ Scan(g, p) = ScanTo(g, p)[Len(g)]
  BY DEF Scan
<1>2. Agrees(g, p, Len(g))
  BY <1>1, ScanAgrees
<1>3. ~At(g, Len(g)).block
  BY <1>1, <1>2 DEF Agrees, Unterminated
<1>4. All(g, x).read = Read(g) /\ All(g, x) \in WatchStates /\ Read(g) = At(g, Len(g))
  BY AllRead, AtRun
<1> QED
  BY <1>3, <1>4 DEF OutBlock

LEMMA BehindKept ==
  ASSUME NEW g \in Seq(Lines), NEW h \in Seq(Lines), NEW p \in Names,
         Other(Watched(All(g, p), h, p).read, {p}) = Other(All(g, p).read, {p})
  PROVE  Kept(g, g \o h, {p})
<1>1. All(g \o h, p) = Watched(All(g, p), h, p)
  BY WatchConcat DEF All
<1> PICK e : e = g \o h
  OBVIOUS
<1>2. e \in Seq(Lines)
  OBVIOUS
<1>3. All(e, p).read = Read(e) /\ All(g, p).read = Read(g)
  BY <1>2, AllRead
<1>4. Other(All(e, p).read, {p}) = Other(All(g, p).read, {p})
  BY <1>1
<1> QED
  BY <1>3, <1>4 DEF Kept

LEMMA BlockBehind ==
  ASSUME NEW g \in Seq(Lines), NEW p \in Names, ~Unterminated(Scan(g, p)),
         NEW l \in Lines, OpenLine(l, p), NEW items \in Seq(Rulings)
  PROVE  Kept(g, g \o (<<l>> \o items \o <<CloseLine>>), {p})
<1> PICK h : h = <<l>> \o items \o <<CloseLine>>
  OBVIOUS
<1>0. items \in Seq(Lines) /\ (\A k \in DOMAIN items : Plain(items[k])) /\ CloseLine \in Lines
  BY LineTypes DEF Rulings
<1>1. h \in Seq(Lines)
  BY <1>0
<1>2. OutBlock(All(g, p))
  BY EndOutside
<1> PICK v : v = All(g, p)
  OBVIOUS
<1> PICK w : w = Watched(v, h, p)
  OBVIOUS
<1>4. w = Watched(v, <<l>> \o items \o <<CloseLine>>, p)
  OBVIOUS
<1>3. Adds(v, w, p)
  BY <1>0, <1>2, <1>4, BlockAdds
<1>6. Other(w.read, {p}) = Other(v.read, {p})
  BY <1>3 DEF Adds
<1>5. Kept(g, g \o h, {p})
  BY <1>1, <1>6, BehindKept
<1> QED
  BY <1>5

LEMMA RuleBehind ==
  ASSUME NEW g \in Seq(Lines), NEW p \in Names, ~Unterminated(Scan(g, p)),
         NEW l \in Lines, l.name = p, l.kind = "rule"
  PROVE  Kept(g, Append(g, l), {p})
<1> PICK v : v = All(g, p)
  OBVIOUS
<1>1. OutBlock(v)
  BY EndOutside
<1>2. HasSpec(l)
  BY DEF HasSpec
<1>3. AfterOuter(v, l, p, p, Watch(v, l, p))
  BY <1>1, <1>2, OutLine
<1>4. Other(Watch(v, l, p).read, {p}) = Other(v.read, {p})
  BY <1>3 DEF AfterOuter
<1> PICK h : h = <<l>>
  OBVIOUS
<1>5. h \in Seq(Lines) /\ Append(g, l) = g \o h
  OBVIOUS
<1>6. Watched(v, h, p) = Watch(v, l, p)
  BY WatchOne
<1>7. Kept(g, g \o h, {p})
  BY <1>4, <1>5, <1>6, BehindKept
<1> QED
  BY <1>5, <1>7

-----------------------------------------------------------------------------
(* rule_upsert.                                                            *)
LEMMA HeadRule ==
  ASSUME NEW g \in Seq(Lines), NEW p \in Names, NEW t, t = Scan(g, p)
  PROVE  /\ t.first.kind \in {"Standalone", "OpenInline", "BareOpen"} =>
              /\ t.first.at \in DOMAIN g /\ g[t.first.at] \in Lines
              /\ g[t.first.at].name = p /\ ~At(g, t.first.at - 1).block
         /\ t.first.kind \in {"Standalone", "OpenInline"} =>
              g[t.first.at].kind = "rule" /\ HasSpec(g[t.first.at])
         /\ t.first.kind = "Standalone" => ~g[t.first.at].open
         /\ t.first.kind = "OpenInline" => g[t.first.at].open
         /\ t.first.kind = "BareOpen" => g[t.first.at].kind = "bare"
<1>0. Len(g) \in Nat /\ DOMAIN g = 1..Len(g) /\ Len(g) \in 0..Len(g)
  OBVIOUS
<1>1. HeadIs(g, p, t, Len(g))
  BY <1>0, HeadFound DEF Scan
<1>2. Nowhere.kind = "none"
  BY NowhereIs
<1> QED
  BY <1>0, <1>1, <1>2 DEF HeadIs, HasSpec

(* One line of p for another, and none for one.                            *)
LEMMA SwapKept ==
  ASSUME NEW g \in Seq(Lines), NEW p \in Names, ~Stray(g), NEW at \in DOMAIN g,
         g[at].name = p, ~At(g, at - 1).block, HasSpec(g[at]) \/ g[at].kind = "bare",
         NEW o \in Lines, o.name = p, HasSpec(o) \/ o.kind = "bare",
         (g[at].kind = "bare" \/ g[at].open) <=> (o.kind = "bare" \/ o.open)
  PROVE  Kept(g, ReplaceOne(g, at, <<o>>), {p})
<1> PICK m : m = Seen(g, p, at - 1)
  OBVIOUS
<1> PICK l : l = g[at]
  OBVIOUS
<1>1. m \in WatchStates /\ Seen(g, p, at) = Watch(m, l, p) /\ l \in Lines
  BY LineStates
<1> PICK e : e = <<o>>
  OBVIOUS
<1>2. e \in Seq(Lines)
  OBVIOUS
<1>3. ASSUME NEW v \in WatchStates, Close(m, v, p, "rules")
      PROVE  Close(Seen(g, p, at), Watched(v, e, p), p, "rules")
  <2>1. Beside(m, v, p, "rules")
    BY <1>3, StandBeside
  <2>2. Close(Watch(m, l, p), Watch(v, o, p), p, "rules")
    BY <1>1, <2>1, SwapOuter
  <2>3. Watched(v, e, p) = Watch(v, o, p)
    BY WatchOne
  <2> QED
    BY <1>1, <2>2, <2>3
<1>4. \A v \in WatchStates : Close(Seen(g, p, at - 1), v, p, "rules") =>
         Close(Seen(g, p, at), Watched(v, e, p), p, "rules")
  BY <1>3
<1>5. "rules" \in Modes \ {"alone"}
  BY DEF Modes
<1>6. Close(All(g, p), All(ReplaceOne(g, at, e), p), p, "rules")
  BY <1>2, <1>4, <1>5, OneEdit
<1>7. ReplaceOne(g, at, e) \in Seq(Lines)
  BY <1>2, ReplaceOneTypes
<1>8. Kept(g, ReplaceOne(g, at, e), {p})
  BY <1>6, <1>7, CloseKept
<1> QED
  BY <1>8

LEMMA GoneKept ==
  ASSUME NEW g \in Seq(Lines), NEW p \in Names, ~Stray(g), NEW at \in DOMAIN g,
         g[at].name = p, ~At(g, at - 1).block, HasSpec(g[at]), ~g[at].open
  PROVE  Kept(g, Without(g, {at}), {p})
<1> PICK m : m = Seen(g, p, at - 1)
  OBVIOUS
<1> PICK l : l = g[at]
  OBVIOUS
<1>1. m \in WatchStates /\ Seen(g, p, at) = Watch(m, l, p) /\ l \in Lines
  BY LineStates
<1> PICK e : e = <<>>
  OBVIOUS
<1>2. e \in Seq(Lines)
  OBVIOUS
<1>5. "rules" \in Modes \ {"alone"} /\ "rules" \in Modes
  BY DEF Modes
<1>3. ASSUME NEW v \in WatchStates, Close(m, v, p, "rules")
      PROVE  Close(Seen(g, p, at), Watched(v, e, p), p, "rules")
  <2>1. Beside(m, v, p, "rules")
    BY <1>3, StandBeside
  <2>2. Close(Watch(m, l, p), v, p, "rules")
    BY <1>1, <1>5, <2>1, GoneOuter
  <2>3. Watched(v, e, p) = v
    BY WatchNone
  <2> QED
    BY <1>1, <2>2, <2>3
<1>4. \A v \in WatchStates : Close(Seen(g, p, at - 1), v, p, "rules") =>
         Close(Seen(g, p, at), Watched(v, e, p), p, "rules")
  BY <1>3
<1>6. Close(All(g, p), All(ReplaceOne(g, at, e), p), p, "rules")
  BY <1>2, <1>4, <1>5, OneEdit
<1>7. ReplaceOne(g, at, e) \in Seq(Lines)
  BY <1>2, ReplaceOneTypes
<1>8. Kept(g, ReplaceOne(g, at, e), {p})
  BY <1>6, <1>7, CloseKept
<1>9. ReplaceOne(g, at, e) = Without(g, {at})
  BY DEF ReplaceOne, Without
<1> QED
  BY <1>8, <1>9

(* A name whose brace stands further down: the brace goes with the rest of *)
(* the opening, and the new line opens the block.                          *)
Bridge(m, v, p) ==
  /\ ~m.read.block /\ m.read.pending = p
  /\ v.read.block /\ v.read.owner = p
  /\ Other(m.read, {p}) = Other(v.read, {p}) /\ ~v.stray

LEMMA BridgeStart ==
  ASSUME NEW m \in WatchStates, NEW v \in WatchStates, NEW p \in Names, NEW x \in Names,
         Beside(m, v, p, "rules"), NEW l \in Lines, l.kind = "pend", l.name = p,
         NEW o \in Lines, OpenLine(o, p)
  PROVE  Bridge(Watch(m, l, x), Watch(v, o, x), p) /\ Watch(v, o, x) \in WatchStates
<1> PICK a : a = Watch(m, l, x)
  OBVIOUS
<1> PICK b : b = Watch(v, o, x)
  OBVIOUS
<1> PICK s : s = m.read
  OBVIOUS
<1>0. s \in ReadStates /\ ~s.block /\ OutBlock(v) /\ l.kind # "blank" /\ ~HasSpec(l)
      /\ l.kind # "bare" /\ s.pending \in Names \cup {NoName}
  BY DEF WatchStates, ReadStates, OutBlock, Beside, HasSpec
<1>1. InBlock(b, p) /\ Adds(v, b, p)
  BY <1>0, OpenerAdds
<1>2. a.read = ReadLine(s, l)
  BY WatchLine
<1>3. Opens(l, s.pending) = NoName
  BY <1>0, OpensTypes
<1>4. /\ ReadLine(s, l).block = (Opens(l, s.pending) # NoName)
      /\ ReadLine(s, l).pending = (IF l.kind = "pend" THEN l.name ELSE NoName)
      /\ ReadLine(s, l).rules = AddRule(s, l.name, l.thread, OuterSpec(l)).rules
  BY <1>0, OuterRead
<1>5. ~a.read.block /\ a.read.pending = p
  BY <1>2, <1>3, <1>4
<1>6. Other(a.read, {p}) = Other(s, {p})
  <2>1. l.name \in Names \cup {NoName} /\ l.thread \in Names \cup {NoName} /\ OuterSpec(l) \in Specs
    BY LineFields DEF OuterSpec, Specs, Fields, Names
  <2>2. Other(AddRule(s, l.name, l.thread, OuterSpec(l)), {p}) = Other(s, {p})
    BY <1>0, <2>1, AddNone
  <2> QED
    BY <1>2, <1>4, <2>2, OtherOf
<1>7. Other(a.read, {p}) = Other(b.read, {p})
  BY <1>1, <1>6 DEF Adds, Beside
<1>8. ~b.stray
  BY <1>1, Zenon DEF Adds, Beside, Flags
<1> QED
  BY <1>1, <1>5, <1>7, <1>8 DEF Bridge, InBlock

LEMMA BlankWatch ==
  ASSUME NEW m \in WatchStates, NEW l, l.kind = "blank", NEW x
  PROVE  /\ Watch(m, l, x).read = m.read
         /\ Watch(m, l, x).stray <=> m.stray
<1>1. /\ Watch(m, l, x).read = ReadLine(m.read, l)
      /\ Watch(m, l, x).stray <=> (m.stray \/ StrayLine(m.read, l))
  BY WatchFields
<1>2. ReadLine(m.read, l) = m.read /\ ~StrayLine(m.read, l)
  BY BlankRead DEF StrayLine
<1> QED
  BY <1>1, <1>2

LEMMA BridgeBlank ==
  ASSUME NEW m \in WatchStates, NEW v \in WatchStates, NEW p, NEW x, Bridge(m, v, p),
         NEW l, l.kind = "blank"
  PROVE  Bridge(Watch(m, l, x), Watch(v, l, x), p)
<1>1. /\ Watch(m, l, x).read = m.read /\ Watch(v, l, x).read = v.read
      /\ Watch(v, l, x).stray <=> v.stray
  BY BlankWatch
<1> QED
  BY <1>1 DEF Bridge

LEMMA BridgeEnd ==
  ASSUME NEW m \in WatchStates, NEW v \in WatchStates, NEW p \in Names, NEW x, Bridge(m, v, p),
         NEW l \in Lines, l.kind = "bare", l.name = NoName
  PROVE  Close(Watch(m, l, x), v, p, "rules")
<1> PICK a : a = Watch(m, l, x)
  OBVIOUS
<1> PICK s : s = m.read
  OBVIOUS
<1>0. s \in ReadStates /\ ~s.block /\ l.kind # "blank" /\ s.pending = p /\ p # NoName
  BY NamesAssumption DEF WatchStates, Bridge, Names
<1>1. a.read = ReadLine(s, l)
  BY WatchLine
<1>2. Opens(l, s.pending) = p
  BY <1>0, OpensTypes
<1>3. /\ ReadLine(s, l).block = (Opens(l, s.pending) # NoName)
      /\ ReadLine(s, l).owner = Opens(l, s.pending)
      /\ ReadLine(s, l).pending = (IF l.kind = "pend" THEN l.name ELSE NoName)
      /\ ReadLine(s, l).rules = AddRule(s, l.name, l.thread, OuterSpec(l)).rules
  BY <1>0, OuterRead
<1>4. Other(a.read, {p}) = Other(s, {p})
  <2>1. l.name \in Names \cup {NoName} /\ l.thread \in Names \cup {NoName} /\ OuterSpec(l) \in Specs
    BY LineFields DEF OuterSpec, Specs, Fields, Names
  <2>3. OuterSpec(l) = {}
    BY DEF OuterSpec, HasSpec
  <2>2. Other(AddRule(s, l.name, l.thread, OuterSpec(l)), {p}) = Other(s, {p})
    BY <1>0, <2>1, <2>3, AddNone
  <2> QED
    BY <1>1, <1>3, <2>2, OtherOf
<1>5. a.read.block /\ a.read.owner = p /\ a.read.pending = NoName
  BY <1>0, <1>1, <1>2, <1>3
<1>6. Flags(a, v, "rules")
  BY DEF Bridge, Flags
<1>7. Within(a, v, p, "rules")
  BY <1>4, <1>5, <1>6 DEF Within, Bridge
<1>8. a \in WatchStates
  BY WatchLineTypes
<1> QED
  BY <1>7, <1>8, WithinClose

LEMMA PairKept ==
  ASSUME NEW g \in Seq(Lines), NEW p \in Names, ~Stray(g),
         NEW at \in DOMAIN g, NEW j \in DOMAIN g, at < j, Brace(g, p, at, j),
         NEW o \in Lines, OpenLine(o, p),
         NEW by, DOMAIN by = {at, j}, by[at] = <<o>>, by[j] = <<>>
  PROVE  Kept(g, Replace(g, by), {p})
<1> DEFINE Rel(i, v) == IF i \in at..j - 1 THEN Bridge(Seen(g, p, i), v, p)
                        ELSE Close(Seen(g, p, i), v, p, "rules")
           rel == [i \in 0..Len(g) |-> {v \in WatchStates : Rel(i, v)}]
<1>0. Len(g) \in Nat /\ DOMAIN g = 1..Len(g) /\ at \in Nat /\ j \in Nat
  OBVIOUS
<1>1. \A i \in 0..Len(g) : \A v : v \in rel[i] <=> v \in WatchStates /\ Rel(i, v)
  OBVIOUS
<1>2. ASSUME NEW i, i \in at..j - 1 PROVE \A v : Rel(i, v) <=> Bridge(Seen(g, p, i), v, p)
  BY <1>2
<1>3. ASSUME NEW i, i \notin at..j - 1
      PROVE  \A v : Rel(i, v) <=> Close(Seen(g, p, i), v, p, "rules")
  BY <1>3
<1> HIDE DEF rel, Rel
<1>4. /\ g[at].kind = "pend" /\ g[at].name = p /\ ~At(g, at - 1).block
      /\ g[j].kind = "bare" /\ g[j].name = NoName
      /\ \A k \in at + 1..j - 1 : g[k].kind = "blank"
  BY DEF Brace
<1>5. Begin \in rel[0]
  <2>1. Close(Begin, Begin, p, "rules")
    BY DEF Close, Near, Flags, Begin
  <2>2. Seen(g, p, 0) = Begin
    BY SeenRun
  <2>3. 0 \notin at..j - 1 /\ 0 \in 0..Len(g)
    BY <1>0
  <2>4. Rel(0, Begin)
    BY <1>3, <2>1, <2>2, <2>3
  <2> QED
    BY <1>1, <2>3, <2>4, BeginTypes
<1>6. ASSUME NEW i \in 1..Len(g), NEW v \in rel[i - 1]
      PROVE  Watched(v, Instead(g, by, i), p) \in rel[i]
  <2>0. i \in DOMAIN g /\ i - 1 \in 0..Len(g) /\ i \in 0..Len(g) /\ i \in Nat
    BY <1>0
  <2>1. v \in WatchStates /\ Rel(i - 1, v)
    BY <1>1, <1>6, <2>0
  <2> PICK w : w = Watched(v, Instead(g, by, i), p)
    OBVIOUS
  <2> PICK m : m = Seen(g, p, i - 1)
    OBVIOUS
  <2> PICK l : l = g[i]
    OBVIOUS
  <2>2. /\ m \in WatchStates /\ l \in Lines
        /\ Seen(g, p, i) = Watch(m, l, p)
        /\ m.read = At(g, i - 1)
    BY <2>0, LineStates
  <2>3. SUFFICES w \in WatchStates /\ Rel(i, w)
    BY <1>1, <2>0
  <2>4. i \notin {at, j} => w = Watch(v, l, p)
    <3>1. i \notin {at, j} => Instead(g, by, i) = <<l>>
      BY DEF Instead
    <3> QED
      BY <3>1, WatchOne
  <2>5. i \notin {at, j} => w \in WatchStates
    BY <2>1, <2>2, <2>4, WatchLineTypes
  <2>6. CASE i = at
    <3>1. i - 1 \notin at..j - 1 /\ i \in at..j - 1
      BY <1>0, <2>6
    <3>2. Close(m, v, p, "rules")
      BY <1>3, <2>1, <3>1
    <3>3. Beside(m, v, p, "rules")
      BY <1>4, <2>0, <2>6, <3>2, StandBeside
    <3>4. Bridge(Watch(m, l, p), Watch(v, o, p), p) /\ Watch(v, o, p) \in WatchStates
      BY <1>4, <2>1, <2>2, <2>6, <3>3, BridgeStart
    <3>5. Instead(g, by, i) = <<o>>
      BY <2>6 DEF Instead
    <3>6. w = Watch(v, o, p)
      BY <3>5, WatchOne
    <3> QED
      BY <1>2, <2>2, <3>1, <3>4, <3>6
  <2>7. CASE i = j
    <3>1. i - 1 \in at..j - 1 /\ i \notin at..j - 1
      BY <1>0, <2>7
    <3>2. Bridge(m, v, p)
      BY <1>2, <2>1, <3>1
    <3>3. Close(Watch(m, l, p), v, p, "rules")
      BY <1>4, <2>1, <2>2, <2>7, <3>2, BridgeEnd
    <3>5. Instead(g, by, i) = <<>>
      BY <2>7 DEF Instead
    <3>6. w = v
      BY <3>5, WatchNone
    <3> QED
      BY <1>3, <2>1, <2>2, <3>1, <3>3, <3>6
  <2>8. CASE i \in at + 1..j - 1
    <3>1. i - 1 \in at..j - 1 /\ i \in at..j - 1 /\ i \notin {at, j}
      BY <1>0, <2>8
    <3>2. Bridge(m, v, p)
      BY <1>2, <2>1, <3>1
    <3>3. l.kind = "blank"
      BY <1>4, <2>8
    <3>4. Bridge(Watch(m, l, p), Watch(v, l, p), p)
      BY <2>1, <2>2, <3>2, <3>3, BridgeBlank
    <3> QED
      BY <1>2, <2>2, <2>4, <2>5, <3>1, <3>4
  <2>9. CASE i < at \/ i > j
    <3>1. i - 1 \notin at..j - 1 /\ i \notin at..j - 1 /\ i \notin {at, j}
      BY <1>0, <2>0, <2>9
    <3>2. Close(m, v, p, "rules")
      BY <1>3, <2>1, <3>1
    <3>3. ~StrayLine(m.read, l) /\ "rules" \in Modes /\ "rules" # "alone"
      BY <2>2, NoStray DEF Modes
    <3>4. Close(Watch(m, l, p), Watch(v, l, p), p, "rules")
      BY <2>1, <2>2, <3>2, <3>3, KeepLine
    <3> QED
      BY <1>3, <2>2, <2>4, <2>5, <3>1, <3>4
  <2> QED
    BY <1>0, <2>0, <2>6, <2>7, <2>8, <2>9
<1>7. \A i \in DOMAIN g \cap DOMAIN by : by[i] \in Seq(Lines)
  <2>1. by[at] \in Seq(Lines)
    OBVIOUS
  <2>2. by[j] \in Seq(Lines)
    OBVIOUS
  <2> QED
    BY <2>1, <2>2
<1>8. Watched(Begin, Replace(g, by), p) \in rel[Len(g)]
  <2>1. \A i \in 1..Len(g) : \A v \in rel[i - 1] : Watched(v, Instead(g, by, i), p) \in rel[i]
    BY <1>6
  <2> QED
    BY <1>5, <1>7, <2>1, WatchReplace
<1>9. Len(g) \in 0..Len(g) /\ Len(g) \notin at..j - 1
  BY <1>0
<1>10. Close(Seen(g, p, Len(g)), Watched(Begin, Replace(g, by), p), p, "rules")
  <2>1. Rel(Len(g), Watched(Begin, Replace(g, by), p))
    BY <1>1, <1>8, <1>9
  <2> QED
    BY <1>3, <1>9, <2>1
<1>11. Replace(g, by) \in Seq(Lines)
  BY <1>7, ReplaceTypes
<1>12. Close(All(g, p), All(Replace(g, by), p), p, "rules")
  BY <1>10, SeenRun DEF All
<1> QED
  BY <1>11, <1>12, CloseKept

(* After normalize_singles the brace behind a pending name is the opening  *)
(* that the scan has found.                                                *)
Settled(f, p) == Singles(Scan(f, p)) = {} \/ Scan(f, p).close = 0

LEMMA OwnOpen ==
  ASSUME NEW g \in Seq(Lines), NEW p \in Names, Settled(g, p),
         NEW t, t = Scan(g, p), NEW j \in DOMAIN g, Own(g, t, j)
  PROVE  t.open = j
<1>0. Len(g) \in Nat /\ DOMAIN g = 1..Len(g) /\ Len(g) \in 0..Len(g)
  OBVIOUS
<1>1. BlockIs(g, p, Len(g)) /\ t = ScanTo(g, p)[Len(g)]
  BY <1>0, BlockFound DEF Scan
<1> SUFFICES ASSUME t.open # j PROVE FALSE
  OBVIOUS
<1>2. t.open \in 1..j - 1 /\ t.close # 0 /\ g[t.open].kind = "single"
  BY DEF Own
<1> PICK k : k = t.open
  OBVIOUS
<1>3. k # 0 /\ k \in DOMAIN g
  BY <1>0, <1>2
<1>4. Opener(g, p, k)
  BY <1>1, <1>3 DEF BlockIs
<1>5. p # NoName /\ g[k] \in Lines /\ At(g, k - 1).pending \in Names \cup {NoName}
  <2>1. k - 1 \in 0..Len(g)
    BY <1>0, <1>3
  <2>2. At(g, k - 1) \in ReadStates
    BY <2>1, AtTypes
  <2> QED
    BY <1>3, <2>2, NamesAssumption DEF ReadStates, Names
<1>6. HasSpec(g[k]) /\ g[k].kind # "bare"
  BY <1>2 DEF HasSpec
<1>7. g[k].name = p
  <2>1. Opens(g[k], At(g, k - 1).pending) = IF g[k].open THEN g[k].name ELSE NoName
    BY <1>5, <1>6, OpensTypes
  <2> QED
    BY <1>4, <1>5, <2>1 DEF Opener
<1>8. SingleLine(g, p, k)
  BY <1>2, <1>4, <1>7 DEF SingleLine, Opener
<1>9. Singles(Scan(g, p)) # {}
  BY <1>3, <1>8, SinglesAre DEF Ats
<1> QED
  BY <1>2, <1>9 DEF Settled

LEMMA PendingBrace ==
  ASSUME NEW g \in Seq(Lines), NEW p \in Names, Settled(g, p),
         NEW t, t = Scan(g, p), t.first.kind = "BarePending"
  PROVE  /\ t.first.at \in DOMAIN g /\ t.open \in DOMAIN g /\ t.first.at < t.open
         /\ Brace(g, p, t.first.at, t.open)
<1>0. Len(g) \in Nat /\ DOMAIN g = 1..Len(g) /\ Len(g) \in 0..Len(g)
  OBVIOUS
<1>1. HeadIs(g, p, t, Len(g))
  BY <1>0, HeadFound DEF Scan
<1> PICK at : at = t.first.at
  OBVIOUS
<1>2. at \in 1..Len(g) /\ \E j \in at + 1..Len(g) : Own(g, t, j) /\ Brace(g, p, at, j)
  BY <1>1, NowhereIs DEF HeadIs
<1> PICK j \in at + 1..Len(g) : Own(g, t, j) /\ Brace(g, p, at, j)
  BY <1>2
<1>3. t.open = j
  BY <1>0, <1>2, OwnOpen
<1> QED
  BY <1>0, <1>2, <1>3

LEMMA OpenRule ==
  ASSUME NEW p \in Names, NEW cpus \in Specs, NEW l \in Lines,
         NEW o, o = WithComment([RuleLine(p, cpus) EXCEPT !.open = TRUE], l)
  PROVE  o \in Lines /\ o.name = p /\ HasSpec(o) /\ o.open /\ OpenLine(o, p)
<1> PICK r : r = [RuleLine(p, cpus) EXCEPT !.open = TRUE]
  OBVIOUS
<1>1. r \in Lines
  BY LineTypes
<1>2. r.name = p /\ r.kind = "rule" /\ r.open
  BY DEF RuleLine, Text
<1>3. o \in Lines
  BY <1>1, LineTypes
<1>4. o.name = p /\ o.kind = "rule" /\ o.open
  BY <1>1, <1>2 DEF WithComment, Lines
<1> QED
  BY <1>3, <1>4 DEF HasSpec, OpenLine

LEMMA PairByKept ==
  ASSUME NEW g \in Seq(Lines), NEW p \in Names, ~Stray(g), Settled(g, p),
         NEW t, t = Scan(g, p), t.first.kind = "BarePending", NEW cpus \in Specs
  PROVE  Kept(g, Replace(g, PairBy(g, t, p, cpus)), {p})
<1> PICK at : at = t.first.at
  OBVIOUS
<1> PICK j : j = t.open
  OBVIOUS
<1>1. at \in DOMAIN g /\ j \in DOMAIN g /\ at < j /\ Brace(g, p, at, j)
  BY PendingBrace
<1>2. LoneBrace(g, j)
  BY <1>1 DEF LoneBrace, Brace
<1> DEFINE o == WithComment([RuleLine(p, cpus) EXCEPT !.open = TRUE], g[at])
           by == PairBy(g, t, p, cpus)
<1>3. o \in Lines /\ OpenLine(o, p)
  <2>1. g[at] \in Lines
    BY <1>1
  <2> HIDE DEF by
  <2> QED
    BY <2>1, OpenRule
<1>4. DOMAIN by = {at, j} /\ by[at] = <<o>> /\ by[j] = <<>>
  <2>1. by = [i \in {at} \cup {j} |-> IF i = at THEN <<o>> ELSE <<>>]
    BY <1>2 DEF PairBy, Opened
  <2>2. at # j
    BY <1>1
  <2> HIDE DEF by, o
  <2> QED
    BY <2>1, <2>2
<1> HIDE DEF by, o
<1>5. Kept(g, Replace(g, by), {p})
  BY <1>1, <1>3, <1>4, PairKept
<1> QED
  BY <1>5 DEF by

OpKept(f, result, N) == result.answer = "ok" => Kept(f, result.file, N)

LEMMA OkKept ==
  ASSUME NEW f, NEW g, NEW N, Kept(f, g, N)
  PROVE  OpKept(f, Ok(g), N)
BY DEF OpKept, Ok

LEMMA RefusedKept ==
  ASSUME NEW f, NEW N
  PROVE  \A answer \in {"malformed", "missing", "conflict"} : OpKept(f, Refused(answer), N)
BY DEF OpKept, Refused

LEMMA UpsertPkgKept ==
  ASSUME NEW g \in Seq(Lines), NEW p \in Names, ~Stray(g), Settled(g, p), NEW cpus \in Specs,
         NEW t, t = Scan(g, p)
  PROVE  OpKept(g, UpsertPkg(g, t, p, cpus), {p})
<1>1. t \in Scans(g)
  BY ScanTypes
<1> PICK at : at = t.first.at
  OBVIOUS
<1>2. ASSUME t.first.kind \in {"Standalone", "OpenInline"}
      PROVE  Kept(g, SwapBy(g, at, cpus), {p})
  <2> PICK l : l = g[at]
    OBVIOUS
  <2> PICK o : o = [l EXCEPT !.cpus = cpus]
    OBVIOUS
  <2>1. at \in DOMAIN g /\ l \in Lines /\ l.name = p /\ ~At(g, at - 1).block /\ HasSpec(l)
    BY <1>2, HeadRule
  <2>2. o \in Lines
    BY <2>1, LineTypes
  <2>3. o.name = l.name /\ o.kind = l.kind /\ o.open = l.open
    BY <2>1 DEF Lines
  <2>4. HasSpec(o)
    BY <2>1, <2>3 DEF HasSpec
  <2>5. Kept(g, ReplaceOne(g, at, <<o>>), {p})
    BY <2>1, <2>2, <2>3, <2>4, SwapKept
  <2>6. SwapBy(g, at, cpus) = ReplaceOne(g, at, <<o>>)
    BY DEF SwapBy, SpecSwap
  <2> QED
    BY <2>5, <2>6
<1>3. ASSUME t.first.kind = "BareOpen" PROVE Kept(g, OpenBy(g, at, p, cpus), {p})
  <2> PICK l : l = g[at]
    OBVIOUS
  <2>1. at \in DOMAIN g /\ l \in Lines /\ l.name = p /\ ~At(g, at - 1).block /\ l.kind = "bare"
    BY <1>3, HeadRule
  <2> PICK o : o = WithComment([RuleLine(p, cpus) EXCEPT !.open = TRUE], l)
    OBVIOUS
  <2>4. o \in Lines /\ o.name = p /\ HasSpec(o) /\ o.open
    BY <2>1, OpenRule
  <2>6. Kept(g, ReplaceOne(g, at, <<o>>), {p})
    BY <2>1, <2>4, SwapKept
  <2>7. OpenBy(g, at, p, cpus) = ReplaceOne(g, at, <<o>>)
    BY DEF OpenBy, Opened
  <2> QED
    BY <2>6, <2>7
<1>4. ASSUME t.first.kind = "BarePending"
      PROVE  Kept(g, Replace(g, PairBy(g, t, p, cpus)), {p})
  BY <1>4, PairByKept
<1>5. ASSUME ~Unterminated(t) PROVE Kept(g, AddBy(g, p, cpus), {p})
  <2> PICK l : l = RuleLine(p, cpus)
    OBVIOUS
  <2>1. l \in Lines /\ l.name = p /\ l.kind = "rule"
    BY LineTypes DEF RuleLine, Text
  <2>2. Kept(g, Append(g, l), {p})
    BY <1>5, <2>1, RuleBehind
  <2> QED
    BY <2>2 DEF AddBy
<1>6. \/ /\ t.first.kind \in {"Standalone", "OpenInline"}
         /\ UpsertPkg(g, t, p, cpus) = Ok(SwapBy(g, at, cpus))
      \/ /\ t.first.kind = "BareOpen"
         /\ UpsertPkg(g, t, p, cpus) = Ok(OpenBy(g, at, p, cpus))
      \/ /\ t.first.kind = "BarePending"
         /\ UpsertPkg(g, t, p, cpus) = Ok(Replace(g, PairBy(g, t, p, cpus)))
      \/ /\ ~Unterminated(t)
         /\ UpsertPkg(g, t, p, cpus) = Ok(AddBy(g, p, cpus))
      \/ UpsertPkg(g, t, p, cpus) = Refused("malformed")
  BY <1>1, UpsertPkgCases
<1> QED
  BY <1>2, <1>3, <1>4, <1>5, <1>6, OkKept, RefusedKept

(* The last rule of a thread takes the new spec, the others of it go.      *)
LEMMA LastKept ==
  ASSUME NEW g \in Seq(Lines), NEW p \in Names, ~Stray(g), NEW cpus \in Specs,
         NEW locs \in SUBSET Scan(g, p).locs
  PROVE  Kept(g, Replace(g, LastBy(g, p, locs, cpus)), {p})
<1> DEFINE left == Removed(g, p, locs)
           by == LastBy(g, p, locs, cpus)
<1> PICK z : z = Max(Ats(locs))
  OBVIOUS
<1>0. "rules" \in Modes /\ "rules" # "alone"
  BY DEF Modes
<1>1. /\ Local(g, left, p, p, "rules") /\ DOMAIN left = Ats(locs)
      /\ \A i \in Ats(locs) : left[i] \in Seq(Lines)
  BY <1>0, RemovedLocal
<1>2. by = [left EXCEPT ![z] = SpecSwap(g[z], cpus)]
  BY DEF LastBy
<1> HIDE DEF left, by
<1>3. /\ DOMAIN by = Ats(locs)
      /\ \A i \in Ats(locs) : i # z => by[i] = left[i]
      /\ z \in Ats(locs) => by[z] = SpecSwap(g[z], cpus)
  BY <1>1, <1>2
<1>4. ASSUME z \in Ats(locs), NEW v \in WatchStates, Close(Seen(g, p, z - 1), v, p, "rules")
      PROVE  by[z] \in Seq(Lines) /\ Close(Seen(g, p, z), Watched(v, by[z], p), p, "rules")
  <2>1. z \in DOMAIN g /\ IsLoc(g, p, z, LocAt(locs, z))
    BY <1>4, LocAtIs
  <2> PICK m : m = Seen(g, p, z - 1)
    OBVIOUS
  <2> PICK l : l = g[z]
    OBVIOUS
  <2> PICK o : o = [l EXCEPT !.cpus = cpus]
    OBVIOUS
  <2>2. m \in WatchStates /\ Seen(g, p, z) = Watch(m, l, p) /\ l \in Lines
    BY <2>1, LineStates
  <2>3. o \in Lines
    BY <2>2, LineTypes
  <2>4. o.name = l.name /\ o.kind = l.kind /\ o.open = l.open /\ o.closed = l.closed
    BY <2>2 DEF Lines
  <2>5. by[z] = <<o>>
    BY <1>3, <1>4 DEF SpecSwap
  <2>6. Watched(v, by[z], p) = Watch(v, o, p)
    BY <2>5, WatchOne
  <2>7. CASE SingleLine(g, p, z)
    <3>1. Beside(m, v, p, "rules")
      BY <1>4, <2>1, <2>7, StandBeside DEF SingleLine
    <3>2. l.name = p /\ o.name = p /\ HasSpec(l) /\ HasSpec(o)
      BY <2>4, <2>7 DEF SingleLine, HasSpec
    <3>4. (l.kind = "bare" \/ l.open) <=> (o.kind = "bare" \/ o.open)
      BY <2>4
    <3>3. Close(Watch(m, l, p), Watch(v, o, p), p, "rules")
      BY <2>2, <2>3, <3>1, <3>2, <3>4, SwapOuter
    <3> QED
      BY <2>2, <2>3, <2>5, <2>6, <3>3
  <2>8. CASE BlockLine(g, p, z)
    <3>1. Within(m, v, p, "rules")
      BY <1>4, <2>1, <2>8, StandWithin DEF BlockLine
    <3>2. l.kind # "blank" /\ o.kind # "blank" /\ (Ends(l) <=> Ends(o))
      BY <2>4, <2>8 DEF BlockLine, HasSpec, Ends
    <3>3. Close(Watch(m, l, p), Watch(v, o, p), p, "rules")
      BY <2>2, <2>3, <3>1, <3>2, SwapInner
    <3> QED
      BY <2>2, <2>3, <2>5, <2>6, <3>3
  <2> QED
    BY <2>1, <2>7, <2>8 DEF IsLoc
<1>5. Local(g, by, p, p, "rules")
  <2>1. ASSUME NEW i \in DOMAIN g \cap DOMAIN by, NEW v \in WatchStates,
               Close(Seen(g, p, i - 1), v, p, "rules")
        PROVE  Close(Seen(g, p, i), Watched(v, by[i], p), p, "rules")
    <3>1. CASE i = z
      BY <1>3, <1>4, <2>1, <3>1
    <3>2. CASE i # z
      BY <1>1, <1>3, <2>1, <3>2 DEF Local
    <3> QED
      BY <3>1, <3>2
  <2> QED
    BY <2>1 DEF Local
<1>6. \A i \in DOMAIN g \cap DOMAIN by : by[i] \in Seq(Lines)
  <2>1. ASSUME z \in Ats(locs) PROVE by[z] \in Seq(Lines)
    <3>1. z \in DOMAIN g
      BY <2>1, LocAtIs
    <3> PICK r : r = [g[z] EXCEPT !.cpus = cpus]
      OBVIOUS
    <3>2. r \in Lines
      BY <3>1, LineTypes
    <3>3. by[z] = <<r>>
      BY <1>3, <2>1 DEF SpecSwap
    <3> QED
      BY <3>2, <3>3
  <2> QED
    BY <1>1, <1>3, <2>1
<1>7. Close(All(g, p), All(Replace(g, by), p), p, "rules")
  BY <1>0, <1>5, <1>6, LocalEdit
<1>8. Replace(g, by) \in Seq(Lines)
  BY <1>6, ReplaceTypes
<1>9. Kept(g, Replace(g, by), {p})
  BY <1>7, <1>8, CloseKept
<1> QED
  BY <1>9 DEF by

(* Three lines in a row.                                                   *)
IsConcat(s, u, c) ==
  /\ c \in Seq(Lines) /\ Len(c) = Len(s) + Len(u)
  /\ \A i \in 1..Len(s) : c[i] = s[i]
  /\ \A i \in 1..Len(u) : c[Len(s) + i] = u[i]

LEMMA Concat ==
  ASSUME NEW s \in Seq(Lines), NEW u \in Seq(Lines)
  PROVE  IsConcat(s, u, s \o u)
BY DEF IsConcat

LEMMA SameSeq ==
  ASSUME NEW s \in Seq(Lines), NEW u \in Seq(Lines), Len(s) = Len(u),
         \A i \in 1..Len(s) : s[i] = u[i]
  PROVE  s = u
<1>1. DOMAIN s = 1..Len(s) /\ DOMAIN u = 1..Len(u)
  OBVIOUS
<1>2. s = [i \in 1..Len(s) |-> s[i]] /\ u = [i \in 1..Len(u) |-> u[i]]
  OBVIOUS
<1> QED
  BY <1>1, <1>2

IsThree(t, a, b, c) == t \in Seq(Lines) /\ Len(t) = 3 /\ t[1] = a /\ t[2] = b /\ t[3] = c
IsOne(t, a) == t \in Seq(Lines) /\ Len(t) = 1 /\ t[1] = a

LEMMA ThreeSame ==
  ASSUME NEW t, NEW e, NEW a, NEW b, NEW c, IsThree(t, a, b, c), IsThree(e, a, b, c)
  PROVE  e = t
<1>1. ASSUME NEW i \in 1..3 PROVE e[i] = t[i]
  <2>1. i = 1 \/ i = 2 \/ i = 3
    OBVIOUS
  <2> QED
    BY <2>1 DEF IsThree
<1>2. e \in Seq(Lines) /\ t \in Seq(Lines) /\ Len(e) = 3 /\ Len(t) = 3
  BY DEF IsThree
<1>3. Len(e) = Len(t) /\ \A i \in 1..Len(e) : e[i] = t[i]
  BY <1>1, <1>2
<1> QED
  BY <1>2, <1>3, SameSeq

LEMMA ThreeConcat ==
  ASSUME NEW a, NEW b, NEW c, NEW x, NEW y, NEW z, NEW d, NEW e,
         IsOne(x, a), IsOne(y, b), IsOne(z, c), IsConcat(x, y, d), IsConcat(d, z, e)
  PROVE  IsThree(e, a, b, c)
<1>1. d \in Seq(Lines) /\ Len(d) = 2 /\ d[1] = a /\ d[2] = b
  <2>1. d[1] = x[1] /\ d[1 + 1] = y[1]
    BY DEF IsConcat, IsOne
  <2> QED
    BY <2>1 DEF IsConcat, IsOne
<1>2. e[1] = d[1] /\ e[2] = d[2] /\ e[2 + 1] = z[1]
  BY <1>1 DEF IsConcat, IsOne
<1> QED
  BY <1>1, <1>2 DEF IsConcat, IsOne, IsThree

LEMMA ThreeInRow ==
  ASSUME NEW a \in Lines, NEW b \in Lines, NEW c \in Lines
  PROVE  <<a>> \o <<b>> \o <<c>> = <<a, b, c>>
<1> DEFINE x == <<a>>
           y == <<b>>
           z == <<c>>
           t == <<a, b, c>>
           d == x \o y
           e == d \o z
<1>1. IsOne(x, a) /\ IsOne(y, b) /\ IsOne(z, c) /\ IsThree(t, a, b, c)
  BY DEF IsOne, IsThree
<1>2. IsThree(e, a, b, c)
  <2> HIDE DEF x, y, z
  <2>1. x \in Seq(Lines) /\ y \in Seq(Lines) /\ z \in Seq(Lines)
    BY <1>1 DEF IsOne
  <2>2. IsConcat(x, y, d)
    BY <2>1, Concat
  <2> HIDE DEF d
  <2>3. d \in Seq(Lines)
    BY <2>2 DEF IsConcat
  <2>4. IsConcat(d, z, e)
    BY <2>1, <2>3, Concat
  <2> HIDE DEF e
  <2> QED
    BY <1>1, <2>2, <2>4, ThreeConcat
<1>3. e = t
  <2> HIDE DEF e, t
  <2> QED
    BY <1>1, <1>2, ThreeSame
<1> QED
  BY <1>3
LEMMA UpsertThreadKept ==
  ASSUME NEW g \in Seq(Lines), NEW p \in Names, ~Stray(g), ~Trap(g), NEW cpus \in Specs,
         NEW thread \in Names, NEW t, t = Scan(g, p)
  PROVE  OpKept(g, UpsertThread(g, t, p, thread, cpus), {p})
<1>0. "rules" \in Modes \ {"alone"}
  BY DEF Modes
<1>1. t \in Scans(g)
  BY ScanTypes
<1> PICK l : l = RuleLine(thread, cpus)
  OBVIOUS
<1> PICK items : items = <<l>>
  OBVIOUS
<1>2. items \in Seq(Rulings)
  <2>1. l \in Lines /\ Plain(l)
    BY LineTypes DEF RuleLine, Text, Plain, HasSpec
  <2>2. l \in Rulings
    BY <2>1 DEF Rulings
  <2> QED
    BY <2>2
<1>3. Kept(g, Replace(g, LastBy(g, p, LocsOf(t, thread), cpus)), {p})
  <2>1. LocsOf(t, thread) \in SUBSET Scan(g, p).locs
    BY DEF LocsOf
  <2> QED
    BY <2>1, LastKept
<1>4. ASSUME t.close # 0 PROVE Kept(g, InsertAll(g, t.close, <<RuleLine(thread, cpus)>>), {p})
  <2>1. Close(All(g, p), All(InsertAll(g, t.close, items), p), p, "rules")
    BY <1>0, <1>2, <1>4, InsertKept
  <2>2. t.close \in DOMAIN g /\ items \in Seq(Lines)
    BY <1>1, <1>2, <1>4 DEF Scans, Rulings
  <2>3. InsertAll(g, t.close, items) \in Seq(Lines)
    BY <2>2, ReplaceOneTypes
  <2>4. Kept(g, InsertAll(g, t.close, items), {p})
    BY <2>1, <2>3, CloseKept
  <2> QED
    BY <2>4
<1>5. ASSUME t.first.kind = "Standalone" PROVE Kept(g, OpenThread(g, t.first.at, thread, cpus), {p})
  <2> PICK at : at = t.first.at
    OBVIOUS
  <2>1. ~g[at].note
    BY <1>5 DEF Trap
  <2>2. at \in DOMAIN g
    BY <1>5, HeadRule
  <2> PICK o : o = AppendBrace(g[at])
    OBVIOUS
  <2> PICK lines : lines = <<AppendBrace(g[at])>> \o items \o <<CloseLine>>
    OBVIOUS
  <2>8. o \in Lines /\ l \in Lines /\ CloseLine \in Lines
    BY <2>2, LineTypes
  <2>3. lines = <<o, l, CloseLine>>
    BY <2>8, ThreeInRow
  <2>4. Close(All(g, p), All(ReplaceOne(g, at, lines), p), p, "rules")
    BY <1>0, <1>2, <1>5, <2>1, BraceKept
  <2>5. lines \in Seq(Lines)
    BY <2>3, <2>8
  <2>6. ReplaceOne(g, at, lines) \in Seq(Lines)
    BY <2>5, ReplaceOneTypes
  <2>7. Kept(g, ReplaceOne(g, at, lines), {p})
    BY <2>4, <2>6, CloseKept
  <2> QED
    BY <2>3, <2>7 DEF OpenThread
<1>6. ASSUME ~Unterminated(t) PROVE Kept(g, AddThread(g, p, thread, cpus), {p})
  <2>1. BareOpen(p) \in Lines /\ OpenLine(BareOpen(p), p)
    BY LineTypes DEF OpenLine, BareOpen, Text
  <2> PICK h : h = BareOpen(p)
    OBVIOUS
  <2> PICK lines : lines = <<h>> \o items \o <<CloseLine>>
    OBVIOUS
  <2>5. l \in Lines /\ CloseLine \in Lines
    BY LineTypes
  <2>2. lines = <<h, l, CloseLine>>
    BY <2>1, <2>5, ThreeInRow
  <2>3. Kept(g, g \o (<<h>> \o items \o <<CloseLine>>), {p})
    BY <1>2, <1>6, <2>1, BlockBehind
  <2>4. Kept(g, g \o lines, {p})
    BY <2>3
  <2> QED
    BY <2>2, <2>4 DEF AddThread
<1>7. \/ UpsertThread(g, t, p, thread, cpus) =
              Ok(Replace(g, LastBy(g, p, LocsOf(t, thread), cpus)))
      \/ /\ t.close # 0
         /\ UpsertThread(g, t, p, thread, cpus) =
              Ok(InsertAll(g, t.close, <<RuleLine(thread, cpus)>>))
      \/ /\ t.first.kind = "Standalone"
         /\ UpsertThread(g, t, p, thread, cpus) = Ok(OpenThread(g, t.first.at, thread, cpus))
      \/ /\ ~Unterminated(t)
         /\ UpsertThread(g, t, p, thread, cpus) = Ok(AddThread(g, p, thread, cpus))
      \/ UpsertThread(g, t, p, thread, cpus) = Refused("malformed")
  BY <1>1, UpsertThreadCases
<1> QED
  BY <1>3, <1>4, <1>5, <1>6, <1>7, OkKept, RefusedKept

LEMMA OpKeptAfter ==
  ASSUME NEW f, NEW g, NEW result, NEW M, NEW N, Kept(f, g, M), M \subseteq N,
         OpKept(g, result, N)
  PROVE  OpKept(f, result, N)
<1>1. Kept(f, g, N)
  BY KeptWider
<1> QED
  BY <1>1, KeptAfter DEF OpKept

LEMMA UpsertKept ==
  ASSUME NEW f \in Seq(Lines), NEW p \in Names, ~Stray(f), ~Trap(f), ~Shut(f, p), NEW cpus \in Specs,
         NEW thread \in Threads \cup {NoName}
  PROVE  OpKept(f, RuleUpsert(f, p, thread, cpus), {p})
<1> PICK g : g = NormalizeSingles(f, p)
  OBVIOUS
<1> PICK t : t = Scan(g, p)
  OBVIOUS
<1>1. g \in Seq(Lines) /\ Kept(f, g, {p}) /\ ~Stray(g) /\ ~Trap(g) /\ Settled(g, p)
  BY NormalizeSound DEF Sound, Settled
<1>2. RuleUpsert(f, p, thread, cpus) =
        IF thread = NoName THEN UpsertPkg(g, t, p, cpus) ELSE UpsertThread(g, t, p, thread, cpus)
  BY DEF RuleUpsert
<1>3. CASE thread = NoName
  <2>1. OpKept(g, UpsertPkg(g, t, p, cpus), {p})
    BY <1>1, UpsertPkgKept
  <2> QED
    BY <1>1, <1>2, <1>3, <2>1, OpKeptAfter
<1>4. CASE thread # NoName
  <2>1. thread \in Names
    BY <1>4 DEF Names
  <2>2. OpKept(g, UpsertThread(g, t, p, thread, cpus), {p})
    BY <1>1, <2>1, UpsertThreadKept
  <2> QED
    BY <1>1, <1>2, <1>4, <2>2, OpKeptAfter
<1> QED
  BY <1>3, <1>4

-----------------------------------------------------------------------------
(* rule_delete.                                                            *)
LEMMA DeleteKept ==
  ASSUME NEW f \in Seq(Lines), NEW p \in Names, ~Stray(f), ~Trap(f), ~Shut(f, p), NEW thread
  PROVE  OpKept(f, RuleDelete(f, p, thread), {p})
<1> PICK g : g = NormalizeSingles(f, p)
  OBVIOUS
<1> PICK t : t = Scan(g, p)
  OBVIOUS
<1>1. g \in Seq(Lines) /\ Kept(f, g, {p}) /\ ~Stray(g)
  BY NormalizeSound DEF Sound
<1> PICK at : at = t.first.at
  OBVIOUS
<1>2. ASSUME t.first.kind = "Standalone" PROVE Kept(g, Without(g, {at}), {p})
  <2>1. at \in DOMAIN g /\ g[at].name = p /\ ~At(g, at - 1).block /\ HasSpec(g[at]) /\ ~g[at].open
    BY <1>1, <1>2, HeadRule
  <2> QED
    BY <1>1, <2>1, GoneKept
<1>3. ASSUME t.first.kind = "OpenInline" PROVE Kept(g, ReplaceOne(g, at, <<BareOpen(p)>>), {p})
  <2>1. at \in DOMAIN g /\ g[at].name = p /\ ~At(g, at - 1).block /\ HasSpec(g[at]) /\ g[at].open
    BY <1>1, <1>3, HeadRule
  <2> PICK o : o = BareOpen(p)
    OBVIOUS
  <2>2. o \in Lines /\ o.name = p /\ o.kind = "bare"
    BY LineTypes DEF BareOpen, Text
  <2>3. Kept(g, ReplaceOne(g, at, <<o>>), {p})
    BY <1>1, <2>1, <2>2, SwapKept
  <2> QED
    BY <2>3
<1>4. Kept(g, RemoveLocs(g, p, LocsOf(t, thread)), {p})
  <2>0. "rules" \in Modes /\ "rules" # "alone"
    BY DEF Modes
  <2> PICK locs : locs = LocsOf(t, thread)
    OBVIOUS
  <2>1. locs \in SUBSET Scan(g, p).locs
    BY DEF LocsOf
  <2>2. Close(All(g, p), All(RemoveLocs(g, p, locs), p), p, "rules")
    BY <1>1, <2>0, <2>1, RemoveKept
  <2>3. locs \in SUBSET Locs(g)
    BY <1>1, <2>1, SinglesTypes
  <2>4. RemoveLocs(g, p, locs) \in Seq(Lines)
    BY <1>1, <2>3, RemovedTypes
  <2>5. Kept(g, RemoveLocs(g, p, locs), {p})
    BY <1>1, <2>2, <2>4, CloseKept
  <2> QED
    BY <2>5
<1>5. \/ /\ t.first.kind = "Standalone"
         /\ RuleDelete(f, p, thread) = Ok(Without(g, {at}))
      \/ /\ t.first.kind = "OpenInline"
         /\ RuleDelete(f, p, thread) = Ok(ReplaceOne(g, at, <<BareOpen(p)>>))
      \/ RuleDelete(f, p, thread) = Ok(RemoveLocs(g, p, LocsOf(t, thread)))
      \/ RuleDelete(f, p, thread) = Refused("missing")
  BY DeleteCases
<1>6. OpKept(g, RuleDelete(f, p, thread), {p})
  BY <1>2, <1>3, <1>4, <1>5, OkKept, RefusedKept
<1> QED
  BY <1>1, <1>6, OpKeptAfter

-----------------------------------------------------------------------------
(* rule_clone.                                                             *)
LEMMA WatchThree ==
  ASSUME NEW a \in Seq(Lines), NEW b \in Seq(Lines), NEW c \in Seq(Lines), NEW m, NEW x
  PROVE  /\ Watched(m, a \o b \o c, x) = Watched(Watched(Watched(m, a, x), b, x), c, x)
         /\ a \o b \o c \in Seq(Lines)
<1> DEFINE d == a \o b
<1>1. d \in Seq(Lines) /\ Watched(m, d, x) = Watched(Watched(m, a, x), b, x)
  BY WatchConcat
<1> HIDE DEF d
<1>2. d \o c \in Seq(Lines) /\ Watched(m, d \o c, x) = Watched(Watched(m, d, x), c, x)
  BY <1>1, WatchConcat
<1>3. /\ Watched(m, d \o c, x) = Watched(Watched(Watched(m, a, x), b, x), c, x)
      /\ d \o c \in Seq(Lines)
  BY <1>1, <1>2
<1> QED
  BY <1>3 DEF d

LEMMA BlockLast ==
  ASSUME NEW e \in Seq(Lines), NEW p \in Names, OutBlock(All(e, p)),
         NEW l \in Lines, OpenLine(l, p), NEW items \in Seq(Rulings)
  PROVE  Kept(e, e \o <<l>> \o items \o <<CloseLine>>, {p})
<1> DEFINE v == All(e, p)
           a == <<l>>
           z == <<CloseLine>>
           d == e \o a
           h == d \o items \o z
           w == Watched(v, a \o items \o z, p)
<1>0. items \in Seq(Lines) /\ (\A k \in DOMAIN items : Plain(items[k])) /\ CloseLine \in Lines
  BY LineTypes DEF Rulings
<1>1. a \in Seq(Lines) /\ z \in Seq(Lines)
  BY <1>0
<1>2. Adds(v, w, p)
  <2> HIDE DEF v
  <2>1. OutBlock(v)
    BY DEF v
  <2>2. w = Watched(v, <<l>> \o items \o <<CloseLine>>, p)
    OBVIOUS
  <2> HIDE DEF w, a, z
  <2> QED
    BY <1>0, <2>1, <2>2, BlockAdds
<1> HIDE DEF a, z
<1>3. w = Watched(Watched(Watched(v, a, p), items, p), z, p)
  <2> HIDE DEF v
  <2> QED
    BY <1>0, <1>1, WatchThree
<1>4. d \in Seq(Lines) /\ Watched(Begin, d, p) = Watched(v, a, p)
  <2>1. d \in Seq(Lines)
    BY <1>1
  <2>2. Watched(Begin, d, p) = Watched(Watched(Begin, e, p), a, p)
    BY <1>1, WatchConcat
  <2> QED
    BY <2>1, <2>2 DEF All
<1> HIDE DEF d, w, v
<1>5. /\ h \in Seq(Lines)
      /\ Watched(Begin, h, p) = Watched(Watched(Watched(Begin, d, p), items, p), z, p)
  BY <1>0, <1>1, <1>4, WatchThree
<1> HIDE DEF h
<1>6. All(h, p) = w
  BY <1>3, <1>4, <1>5 DEF All
<1>7. All(h, p).read = Read(h) /\ All(e, p).read = Read(e)
  BY <1>5, AllRead
<1>8. Kept(e, h, {p})
  BY <1>2, <1>6, <1>7 DEF Kept, Adds, v
<1> QED
  BY <1>8 DEF h, d, a, z

LEMMA RuleLast ==
  ASSUME NEW e \in Seq(Lines), NEW p \in Names, OutBlock(All(e, p)),
         NEW l \in Lines, l.name = p, l.kind = "rule"
  PROVE  Kept(e, Append(e, l), {p})
<1> DEFINE v == All(e, p)
           w == Watch(v, l, p)
           h == <<l>>
<1>1. OutBlock(v)
  OBVIOUS
<1>2. HasSpec(l)
  BY DEF HasSpec
<1> HIDE DEF v
<1>3. AfterOuter(v, l, p, p, w)
  BY <1>1, <1>2, OutLine
<1>4. Other(w.read, {p}) = Other(v.read, {p})
  BY <1>3 DEF AfterOuter
<1>5. h \in Seq(Lines) /\ Append(e, l) = e \o h
  OBVIOUS
<1>6. Watched(v, h, p) = w
  BY WatchOne
<1> HIDE DEF h, w
<1>7. Kept(e, e \o h, {p})
  BY <1>4, <1>5, <1>6, BehindKept DEF v
<1> QED
  BY <1>5, <1>7

LEMMA BlankLast ==
  ASSUME NEW g \in Seq(Lines), NEW p \in Names, OutBlock(All(g, p)),
         NEW e, e = Append(g, BlankLine)
  PROVE  e \in Seq(Lines) /\ OutBlock(All(e, p)) /\ Kept(g, e, {p})
<1> DEFINE v == All(g, p)
           w == Watch(v, BlankLine, p)
           h == <<BlankLine>>
<1>0. BlankLine \in Lines /\ BlankLine.kind = "blank" /\ v \in WatchStates
  BY LineTypes DEF BlankLine, Text, OutBlock
<1>1. w.read = v.read /\ w \in WatchStates
  BY <1>0, BlankWatch, WatchLineTypes
<1>2. h \in Seq(Lines) /\ e = g \o h /\ e \in Seq(Lines)
  BY <1>0
<1>3. Watched(v, h, p) = w
  BY WatchOne
<1> HIDE DEF h
<1>4. Watched(Begin, g \o h, p) = Watched(v, h, p)
  <2>1. Watched(Begin, g \o h, p) = Watched(Watched(Begin, g, p), h, p)
    BY <1>2, WatchConcat
  <2> QED
    BY <2>1 DEF All
<1>5. All(e, p) = w
  BY <1>2, <1>3, <1>4 DEF All
<1>6. All(e, p).read = Read(e) /\ All(g, p).read = Read(g)
  BY <1>2, AllRead
<1>7. Kept(g, e, {p})
  BY <1>1, <1>5, <1>6 DEF Kept
<1> QED
  BY <1>1, <1>2, <1>5, <1>7 DEF OutBlock

LEMMA AppendKept ==
  ASSUME NEW g \in Seq(Lines), NEW p \in Names, OutBlock(All(g, p)),
         NEW head \in Lines, head.name = p, head.kind \in {"rule", "bare"},
         NEW threads \in Seq(Rulings)
  PROVE  Kept(g, CloneAppend(g, head, threads), {p})
<1> DEFINE e == IF g # <<>> /\ Last(g).kind # "blank" THEN Append(g, BlankLine) ELSE g
           opening == [head EXCEPT !.open = head.kind = "rule"]
           none == threads = <<>>
           bare == head.kind = "bare"
           rule == head.kind = "rule"
           a == Append(e, head)
           b == e \o <<opening>> \o threads \o <<CloseLine>>
<1>1. e \in Seq(Lines) /\ OutBlock(All(e, p)) /\ Kept(g, e, {p})
  <2>1. e = g \/ e = Append(g, BlankLine)
    OBVIOUS
  <2> HIDE DEF e
  <2>2. Kept(g, g, {p})
    BY DEF Kept
  <2> QED
    BY <2>1, <2>2, BlankLast
<1>2. opening \in Lines /\ OpenLine(opening, p)
  <2> DEFINE b0 == head.kind = "rule"
             o == [head EXCEPT !.open = b0]
  <2>1. b0 \in BOOLEAN
    OBVIOUS
  <2>2. b0 <=> head.kind = "rule"
    OBVIOUS
  <2> HIDE DEF b0
  <2>3. o \in Lines
    BY <2>1, LineTypes
  <2>4. o.name = p /\ o.kind = head.kind /\ o.open = b0
    BY DEF Lines
  <2> HIDE DEF o
  <2>5. OpenLine(o, p)
    BY <2>2, <2>4 DEF OpenLine
  <2> QED
    BY <2>3, <2>5 DEF o, b0
<1>6. CloneAppend(g, head, threads) =
        CASE none /\ bare -> e
          [] none /\ rule -> a
          [] OTHER -> b
  BY DEF CloneAppend
<1> HIDE DEF e, opening
<1>3. rule => Kept(e, a, {p})
  BY <1>1, RuleLast
<1>4. Kept(e, b, {p})
  BY <1>1, <1>2, BlockLast
<1> HIDE DEF a, b, none, bare, rule
<1>7. \/ CloneAppend(g, head, threads) = e
      \/ rule /\ CloneAppend(g, head, threads) = a
      \/ CloneAppend(g, head, threads) = b
  BY <1>6
<1> QED
  BY <1>1, <1>3, <1>4, <1>7, KeptAfter

LEMMA CloneKept ==
  ASSUME NEW f \in Seq(Lines), NEW source \in Names, NEW target \in Names,
         ~Stray(f), ~Trap(f), ~Shut(f, source), ~Shut(f, target), NEW kinds
  PROVE  OpKept(f, RuleClone(f, source, target, kinds), {source, target})
<1> PICK e : e = NormalizeSingles(f, source)
  OBVIOUS
<1> PICK g : g = NormalizeSingles(e, target)
  OBVIOUS
<1> PICK s : s = Scan(g, source)
  OBVIOUS
<1> PICK t : t = Scan(g, target)
  OBVIOUS
<1>1. /\ e \in Seq(Lines) /\ Kept(f, e, {source}) /\ ~Stray(e) /\ ~Trap(e)
      /\ ~Shut(e, source) /\ ~Shut(e, target)
  <2>1. Sound(f, e, source) /\ ~Stray(e) /\ ~Trap(e)
    BY NormalizeSound
  <2>2. ~Shut(e, source) /\ ~Shut(e, target)
    BY <2>1, SoundShut
  <2> QED
    BY <2>1, <2>2 DEF Sound
<1>2. g \in Seq(Lines) /\ Kept(e, g, {target}) /\ ~Shut(g, source)
  <2>1. Sound(e, g, target)
    BY <1>1, NormalizeSound
  <2>2. ~Shut(g, source)
    BY <1>1, <2>1, SoundShut
  <2> QED
    BY <2>1, <2>2 DEF Sound
<1>3. Kept(f, g, {source, target})
  <2>1. Kept(f, e, {source, target}) /\ Kept(e, g, {source, target})
    BY <1>1, <1>2, KeptWider
  <2> QED
    BY <2>1, KeptAfter
<1>4. RuleClone(f, source, target, kinds) = CloneInto(g, s, t, target, kinds)
  BY DEF RuleClone
<1>5. s \in Scans(g)
  BY <1>2, ScanTypes
<1> PICK head : head = CloneHead(g, s, target, kinds)
  OBVIOUS
<1> PICK threads : threads = CopiedThreads(g, s, kinds)
  OBVIOUS
<1>6. ASSUME ~Unterminated(s), "pkg" \in kinds => s.first.kind \in {"Standalone", "OpenInline"}
      PROVE  Kept(g, CloneAppend(g, head, threads), {target})
  <2>1. OutBlock(All(g, target))
    BY <1>2, <1>6, EndOutside
  <2>2. head \in Lines
    BY <1>2, <1>5, <1>6, CopiedTypes
  <2>3. head.name = target /\ head.kind \in {"rule", "bare"}
    BY DEF CloneHead, CopiedHead, RuleLine, BareOpen, Text
  <2>4. threads \in Seq(Rulings)
    <3>1. CopiedLines(g, s.locs) \in Seq(Rulings)
      BY <1>2, ListPlain
    <3> QED
      BY <3>1 DEF CopiedThreads
  <2> QED
    BY <1>2, <2>1, <2>2, <2>3, <2>4, AppendKept
<1>7. \/ /\ ~Unterminated(s)
         /\ "pkg" \in kinds => s.first.kind \in {"Standalone", "OpenInline"}
         /\ CloneInto(g, s, t, target, kinds) = Ok(CloneAppend(g, head, threads))
      \/ CloneInto(g, s, t, target, kinds) \in
           {Refused("malformed"), Refused("conflict"), Refused("missing")}
  BY CloneCases
<1>8. OpKept(g, CloneInto(g, s, t, target, kinds), {target})
  BY <1>6, <1>7, OkKept, RefusedKept
<1>9. OpKept(g, CloneInto(g, s, t, target, kinds), {source, target})
  BY <1>8, KeptWider DEF OpKept
<1> QED
  BY <1>3, <1>4, <1>9, OpKeptAfter

-----------------------------------------------------------------------------
(* rule_rename: every line that names the old package names the new one.   *)
LEMMA WiderOther ==
  ASSUME NEW s, NEW u, NEW p, NEW N, p \in N, Other(s, {p}) = Other(u, {p})
  PROVE  Other(s, N) = Other(u, N)
<1>1. \A w : Other(w, N) = {r \in Other(w, {p}) : r.pkg \notin N}
  BY DEF Other
<1> QED
  BY <1>1

Alike(m, v, N) == Near(m.read, v.read, N) /\ ~v.stray

LEMMA AlikeLine ==
  ASSUME NEW m \in WatchStates, NEW v \in WatchStates, NEW l \in Lines,
         NEW N \in SUBSET Names, NEW x, Alike(m, v, N), ~StrayLine(m.read, l)
  PROVE  Alike(Watch(m, l, x), Watch(v, l, x), N)
<1> PICK a : a = Watch(m, l, x)
  OBVIOUS
<1> PICK b : b = Watch(v, l, x)
  OBVIOUS
<1> PICK s : s = m.read
  OBVIOUS
<1> PICK u : u = v.read
  OBVIOUS
<1>1. a.read = ReadLine(s, l)
  BY WatchLine
<1>2. b.read = ReadLine(u, l) /\ (b.stray <=> (v.stray \/ StrayLine(u, l)))
  BY WatchLine
<1>3. s \in ReadStates /\ u \in ReadStates
  BY DEF WatchStates
<1>4. Near(s, u, N) /\ ~v.stray
  BY DEF Alike
<1>5. Near(ReadLine(s, l), ReadLine(u, l), N) /\ ~StrayLine(u, l)
  BY <1>3, <1>4, NearLine
<1> QED
  BY <1>1, <1>2, <1>4, <1>5 DEF Alike

AfterPend(v, l, p, w) ==
  /\ w \in WatchStates /\ ~w.read.block /\ w.read.pending = l.name
  /\ Other(w.read, {p}) = Other(v.read, {p})
  /\ w.stray <=> v.stray

LEMMA PendLine ==
  ASSUME NEW v, OutBlock(v), NEW l \in Lines, l.kind = "pend", NEW p, NEW x
  PROVE  AfterPend(v, l, p, Watch(v, l, x))
<1> PICK a : a = Watch(v, l, x)
  OBVIOUS
<1> PICK s : s = v.read
  OBVIOUS
<1>0. s \in ReadStates /\ ~s.block /\ v \in WatchStates /\ l.kind # "blank" /\ ~HasSpec(l)
      /\ l.kind # "bare" /\ s.pending \in Names \cup {NoName}
  BY DEF WatchStates, ReadStates, OutBlock, HasSpec
<1>1. a \in WatchStates
  BY <1>0, WatchLineTypes
<1>2. a.read = ReadLine(s, l) /\ (a.stray <=> (v.stray \/ StrayLine(s, l)))
  BY WatchLine
<1>3. Opens(l, s.pending) = NoName
  BY <1>0, OpensTypes
<1>4. /\ ReadLine(s, l).block = (Opens(l, s.pending) # NoName)
      /\ ReadLine(s, l).pending = (IF l.kind = "pend" THEN l.name ELSE NoName)
      /\ ReadLine(s, l).rules = AddRule(s, l.name, l.thread, OuterSpec(l)).rules
  BY <1>0, OuterRead
<1>5. ~a.read.block /\ a.read.pending = l.name
  BY <1>2, <1>3, <1>4
<1>6. Other(a.read, {p}) = Other(s, {p})
  <2>1. l.name \in Names \cup {NoName} /\ l.thread \in Names \cup {NoName} /\ OuterSpec(l) \in Specs
    BY LineFields DEF OuterSpec, Specs, Fields, Names
  <2>2. Other(AddRule(s, l.name, l.thread, OuterSpec(l)), {p}) = Other(s, {p})
    BY <1>0, <2>1, AddNone DEF OuterSpec
  <2> QED
    BY <1>2, <1>4, <2>2, OtherOf
<1>7. ~StrayLine(s, l)
  BY <1>0 DEF StrayLine
<1>8. a.stray <=> v.stray
  BY <1>2, <1>7
<1> QED
  BY <1>1, <1>5, <1>6, <1>8 DEF AfterPend

(* A line of the old package outside a block, and the same of the new one. *)
LEMMA RenamedLine ==
  ASSUME NEW m \in WatchStates, NEW v \in WatchStates, NEW p \in Names, NEW q \in Names,
         NEW x \in Names, NEW N, p \in N, q \in N, Alike(m, v, N), ~m.read.block,
         NEW l \in Lines, l.name = p, HasSpec(l) \/ l.kind \in {"bare", "pend"},
         NEW o \in Lines, o.name = q, o.kind = l.kind, o.open = l.open
  PROVE  Alike(Watch(m, l, x), Watch(v, o, x), N)
<1> PICK a : a = Watch(m, l, x)
  OBVIOUS
<1> PICK b : b = Watch(v, o, x)
  OBVIOUS
<1>0. OutBlock(m) /\ OutBlock(v) /\ ~v.stray /\ Other(m.read, N) = Other(v.read, N)
  BY DEF OutBlock, Alike, Near
<1>1. CASE l.kind = "pend"
  <2>1. AfterPend(m, l, p, a)
    BY <1>0, <1>1, PendLine
  <2>2. AfterPend(v, o, q, b)
    BY <1>0, <1>1, PendLine
  <2>3. Other(a.read, N) = Other(m.read, N)
    BY <2>1, WiderOther DEF AfterPend
  <2>4. Other(b.read, N) = Other(v.read, N)
    BY <2>2, WiderOther DEF AfterPend
  <2>5. ~a.read.block /\ ~b.read.block /\ a.read.pending = p /\ b.read.pending = q /\ ~b.stray
    BY <1>0, <2>1, <2>2 DEF AfterPend
  <2>6. a.read.block \in BOOLEAN /\ b.read.block \in BOOLEAN
    BY <2>1, <2>2 DEF AfterPend, WatchStates, ReadStates
  <2> QED
    BY <1>0, <2>3, <2>4, <2>5, <2>6 DEF Alike, Near
<1>2. CASE HasSpec(l) \/ l.kind = "bare"
  <2>0. HasSpec(o) \/ o.kind = "bare"
    BY <1>2 DEF HasSpec
  <2>1. AfterOuter(m, l, p, x, a)
    BY <1>0, <1>2, OutLine
  <2>2. AfterOuter(v, o, q, x, b)
    BY <1>0, <2>0, OutLine
  <2>3. Other(a.read, N) = Other(m.read, N)
    BY <2>1, WiderOther DEF AfterOuter
  <2>4. Other(b.read, N) = Other(v.read, N)
    BY <2>2, WiderOther DEF AfterOuter
  <2>5. /\ a.read.block <=> (l.kind = "bare" \/ l.open)
        /\ b.read.block <=> (l.kind = "bare" \/ l.open)
        /\ l.kind = "bare" \/ l.open => a.read.owner = p /\ b.read.owner = q
        /\ a.read.pending = NoName
        /\ ~b.stray
    BY <1>0, <2>1, <2>2 DEF AfterOuter
  <2>6. a.read.block \in BOOLEAN /\ b.read.block \in BOOLEAN
    BY <2>1, <2>2 DEF AfterOuter, WatchStates, ReadStates
  <2> QED
    BY <1>0, <2>3, <2>4, <2>5, <2>6 DEF Alike, Near
<1> QED
  BY <1>1, <1>2

LEMMA NameLine ==
  ASSUME NEW h \in Seq(Lines), NEW p \in Names, NEW i \in NameLines(Scan(h, p))
  PROVE  /\ i \in DOMAIN h /\ h[i] \in Lines /\ h[i].name = p /\ ~At(h, i - 1).block
         /\ HasSpec(h[i]) \/ h[i].kind \in {"bare", "pend"}
<1> PICK t : t = Scan(h, p)
  OBVIOUS
<1>0. Len(h) \in Nat /\ DOMAIN h = 1..Len(h) /\ Len(h) \in 0..Len(h)
  OBVIOUS
<1>1. CASE i \in Ats(Singles(t))
  <2>1. Singles(t) \in SUBSET Locs(h)
    BY SinglesTypes
  <2>2. i \in DOMAIN h
    BY <1>1, <2>1, LocAtTypes
  <2>3. SingleLine(h, p, i)
    BY <1>1, <2>2, SinglesAre
  <2> QED
    BY <2>2, <2>3 DEF SingleLine, HasSpec
<1>2. CASE i = t.first.at /\ i # 0
  <2>1. HeadIs(h, p, t, Len(h))
    BY <1>0, HeadFound DEF Scan
  <2>2. i \in DOMAIN h
    BY <1>0, <1>2, <2>1, NowhereIs DEF HeadIs
  <2>3. h[i] \in Lines
    BY <2>2
  <2> QED
    BY <1>2, <2>1, <2>2, <2>3, NowhereIs DEF HeadIs, Brace, HasSpec
<1> QED
  BY <1>1, <1>2 DEF NameLines

LEMMA RenamedKept ==
  ASSUME NEW h \in Seq(Lines), NEW p \in Names, NEW q \in Names, ~Stray(h),
         NEW N, N = {p, q}, NEW k, k = Renamed(h, p, q)
  PROVE  k \in Seq(Lines) /\ ~Stray(k) /\ Kept(h, k, N)
<1> DEFINE by == [i \in NameLines(Scan(h, p)) |-> <<[h[i] EXCEPT !.name = q]>>]
           rel == [i \in 0..Len(h) |-> {v \in WatchStates : Alike(Seen(h, p, i), v, N)}]
<1>0. Len(h) \in Nat /\ DOMAIN h = 1..Len(h) /\ N \in SUBSET Names /\ p \in N /\ q \in N
  OBVIOUS
<1>1. \A i \in 0..Len(h) : \A v : v \in rel[i] <=>
         v \in WatchStates /\ Alike(Seen(h, p, i), v, N)
  OBVIOUS
<1>2. k = Replace(h, by)
  BY DEF Renamed
<1>3. DOMAIN by = NameLines(Scan(h, p))
  OBVIOUS
<1>4. ASSUME NEW i \in DOMAIN by
      PROVE  \E o \in Lines : /\ by[i] = <<o>> /\ o.name = q
                              /\ o.kind = h[i].kind /\ o.open = h[i].open
  <2>1. h[i] \in Lines
    BY <1>3, NameLine
  <2> PICK l : l = h[i]
    OBVIOUS
  <2> PICK o : o = [l EXCEPT !.name = q]
    OBVIOUS
  <2>2. o \in Lines
    BY <2>1, LineTypes
  <2>3. o.name = q /\ o.kind = l.kind /\ o.open = l.open
    <3>1. l \in Fields
      BY <2>1, LineFields
    <3> QED
      BY <3>1 DEF Fields
  <2>4. by[i] = <<o>>
    OBVIOUS
  <2> QED
    BY <2>2, <2>3, <2>4
<1> HIDE DEF rel, by
<1>5. Begin \in rel[0]
  <2>1. Alike(Begin, Begin, N)
    BY DEF Alike, Near, Begin
  <2>2. Seen(h, p, 0) = Begin
    BY SeenRun
  <2> QED
    BY <1>0, <1>1, <2>1, <2>2, BeginTypes
<1>6. ASSUME NEW i \in 1..Len(h), NEW v \in rel[i - 1]
      PROVE  Watched(v, Instead(h, by, i), p) \in rel[i]
  <2>0. i \in DOMAIN h /\ i - 1 \in 0..Len(h) /\ i \in 0..Len(h)
    BY <1>0
  <2>1. v \in WatchStates /\ Alike(Seen(h, p, i - 1), v, N)
    BY <1>1, <1>6, <2>0
  <2> PICK w : w = Watched(v, Instead(h, by, i), p)
    OBVIOUS
  <2> PICK m : m = Seen(h, p, i - 1)
    OBVIOUS
  <2> PICK l : l = h[i]
    OBVIOUS
  <2>2. /\ m \in WatchStates /\ l \in Lines
        /\ Seen(h, p, i) = Watch(m, l, p)
        /\ m.read = At(h, i - 1)
    BY <2>0, LineStates
  <2>3. SUFFICES w \in WatchStates /\ Alike(Watch(m, l, p), w, N)
    BY <1>1, <2>0, <2>2
  <2>4. CASE i \in DOMAIN by
    <3> PICK o \in Lines : by[i] = <<o>> /\ o.name = q /\ o.kind = l.kind /\ o.open = l.open
      BY <1>4, <2>4
    <3>1. Instead(h, by, i) = <<o>>
      BY <2>4 DEF Instead
    <3>2. w = Watch(v, o, p)
      BY <3>1, WatchOne
    <3>3. l.name = p /\ ~m.read.block /\ (HasSpec(l) \/ l.kind \in {"bare", "pend"})
      BY <1>3, <2>2, <2>4, NameLine
    <3>4. Alike(Watch(m, l, p), Watch(v, o, p), N)
      BY <1>0, <2>1, <2>2, <3>3, RenamedLine
    <3> QED
      BY <2>1, <3>2, <3>4, WatchLineTypes
  <2>5. CASE i \notin DOMAIN by
    <3>1. Instead(h, by, i) = <<l>>
      BY <2>5 DEF Instead
    <3>2. w = Watch(v, l, p)
      BY <3>1, WatchOne
    <3>3. ~StrayLine(m.read, l)
      BY <2>0, <2>2, NoStray
    <3>4. Alike(Watch(m, l, p), Watch(v, l, p), N)
      BY <1>0, <2>1, <2>2, <3>3, AlikeLine
    <3> QED
      BY <2>1, <2>2, <3>2, <3>4, WatchLineTypes
  <2> QED
    BY <2>4, <2>5
<1>7. \A i \in DOMAIN h \cap DOMAIN by : by[i] \in Seq(Lines)
  <2> TAKE i \in DOMAIN h \cap DOMAIN by
  <2> PICK o \in Lines : by[i] = <<o>>
    BY <1>4
  <2> QED
    OBVIOUS
<1>8. Watched(Begin, Replace(h, by), p) \in rel[Len(h)]
  <2>1. \A i \in 1..Len(h) : \A v \in rel[i - 1] : Watched(v, Instead(h, by, i), p) \in rel[i]
    BY <1>6
  <2> QED
    BY <1>5, <1>7, <2>1, WatchReplace
<1>9. Alike(All(h, p), All(k, p), N)
  <2>1. Len(h) \in 0..Len(h)
    BY <1>0
  <2> QED
    BY <1>1, <1>2, <1>8, <2>1, SeenRun DEF All
<1>10. k \in Seq(Lines)
  BY <1>2, <1>7, ReplaceTypes
<1>11. Near(All(h, p).read, All(k, p).read, N) /\ ~All(k, p).stray
  BY <1>9 DEF Alike
<1>12. ~Stray(k)
  BY <1>10, <1>11, SeenStray
<1> QED
  BY <1>10, <1>11, <1>12, AllRead DEF Near, Kept

LEMMA RenameKept ==
  ASSUME NEW f \in Seq(Lines), NEW p \in Names, NEW q \in Names, ~Stray(f), ~Trap(f), ~Shut(f, p)
  PROVE  OpKept(f, RuleRename(f, p, q), {p, q})
<1> PICK N : N = {p, q}
  OBVIOUS
<1> DEFINE g == NormalizeSingles(f, p)
<1>1. g \in Seq(Lines) /\ ~Stray(g) /\ Kept(f, g, {p})
  <2>1. Sound(f, g, p) /\ ~Stray(g) /\ g \in Seq(Lines)
    BY NormalizeSound
  <2> QED
    BY <2>1 DEF Sound
<1>2. RuleRename(f, p, q) \in
        {Ok(RenameRounds(g, p, q)[Len(g)]), Refused("missing"), Refused("conflict")}
  BY DEF RuleRename
<1> HIDE DEF g
<1>3. Len(g) \in Nat
  BY <1>1
<1> DEFINE Fit(k) == k \in Seq(Lines) /\ ~Stray(k) /\ Kept(f, k, N)
           P == {i \in 0..Len(g) : Fit(RenameRounds(g, p, q)[i])}
<1>4. Fit(g)
  <2>1. Kept(f, g, N)
    BY <1>1, KeptWider
  <2> QED
    BY <1>1, <2>1
<1>5. \A h : Fit(h) => Fit(Renamed(h, p, q))
  <2> SUFFICES ASSUME NEW h, Fit(h) PROVE Fit(Renamed(h, p, q))
    OBVIOUS
  <2> PICK k : k = Renamed(h, p, q)
    OBVIOUS
  <2>1. k \in Seq(Lines) /\ ~Stray(k) /\ Kept(h, k, N)
    BY RenamedKept
  <2> QED
    BY <2>1, KeptAfter
<1> HIDE DEF Fit
<1>6. \A i : i \in P <=> i \in 0..Len(g) /\ Fit(RenameRounds(g, p, q)[i])
  OBVIOUS
<1> HIDE DEF P
<1>7. 0 \in P
  BY <1>3, <1>4, <1>6, RenameRun
<1>8. ASSUME NEW i \in 0..Len(g) - 1, i \in P PROVE i + 1 \in P
  <2>0. i + 1 \in 1..Len(g) /\ i + 1 \in 0..Len(g) /\ (i + 1) - 1 = i
    BY <1>3
  <2>1. RenameRounds(g, p, q)[i + 1] = Renamed(RenameRounds(g, p, q)[(i + 1) - 1], p, q)
    BY <1>3, <2>0, RenameRun
  <2>2. RenameRounds(g, p, q)[i + 1] = Renamed(RenameRounds(g, p, q)[i], p, q)
    BY <2>0, <2>1
  <2> QED
    BY <1>5, <1>6, <1>8, <2>0, <2>2
<1>9. Fit(RenameRounds(g, p, q)[Len(g)])
  <2>1. P \in SUBSET (0..Len(g))
    BY <1>6
  <2>2. \A i \in 0..Len(g) : i \in P
    BY <1>3, <1>7, <1>8, <2>1, UpTo
  <2> QED
    BY <1>3, <1>6, <2>2
<1>10. Kept(f, RenameRounds(g, p, q)[Len(g)], N)
  BY <1>9 DEF Fit
<1>11. OpKept(f, Ok(RenameRounds(g, p, q)[Len(g)]), N)
  BY <1>10, OkKept
<1> QED
  BY <1>2, <1>11, RefusedKept

-----------------------------------------------------------------------------
(* rule_delete_pkg.  A block that does not end is taken out up to its last *)
(* rule, and a brace behind it may stray then; but no rule stands behind   *)
(* that brace, which is what wild says.                                    *)
SpecFree(f, i) == \A k \in i + 1..Len(f) : ~HasSpec(f[k])

LEMMA NoWild ==
  ASSUME NEW f \in Seq(Lines), NEW x, ~All(f, x).wild,
         NEW i \in 1..Len(f), StrayLine(At(f, i - 1), f[i])
  PROVE  SpecFree(f, i)
<1>0. Len(f) \in Nat /\ i \in Nat /\ i - 1 \in 0..Len(f) /\ i \in 0..Len(f)
  OBVIOUS
<1> DEFINE P == {k \in 0..Len(f) : k < i \/ Seen(f, x, k).stray}
<1>1. 0 \in P
  BY <1>0
<1>2. Seen(f, x, i).stray
  <2> PICK m : m = Seen(f, x, i - 1)
    OBVIOUS
  <2> PICK s : s = m.read
    OBVIOUS
  <2>1. Seen(f, x, i) = Watch(m, f[i], x)
    BY SeenRun
  <2>2. s = At(f, i - 1)
    BY <1>0, SeenReads
  <2>3. Watch(m, f[i], x).stray <=> (m.stray \/ StrayLine(s, f[i]))
    BY WatchLine
  <2> QED
    BY <2>1, <2>2, <2>3
<1>3. ASSUME NEW k \in 0..Len(f) - 1, k \in P PROVE k + 1 \in P
  <2>0. k + 1 \in 0..Len(f) /\ k + 1 \in 1..Len(f) /\ (k + 1) - 1 = k
    BY <1>0
  <2>1. CASE k + 1 < i
    BY <2>0, <2>1
  <2>2. CASE k + 1 = i
    BY <2>0, <2>2, <1>2
  <2>3. CASE k + 1 > i
    <3>1. Seen(f, x, k).stray
      BY <1>0, <1>3, <2>3
    <3>2. Seen(f, x, k + 1) = Watch(Seen(f, x, k), f[k + 1], x)
      BY <2>0, SeenRun
    <3>3. Watch(Seen(f, x, k), f[k + 1], x).stray
      BY <3>1, WatchFields
    <3> QED
      BY <2>0, <3>2, <3>3
  <2> QED
    BY <1>0, <2>0, <2>1, <2>2, <2>3
<1>4. \A k \in i..Len(f) : Seen(f, x, k).stray
  <2> HIDE DEF P
  <2>1. P \in SUBSET (0..Len(f))
    BY DEF P
  <2>2. \A k \in 0..Len(f) : k \in P
    BY <1>0, <1>1, <1>3, <2>1, UpTo
  <2> QED
    BY <1>0, <2>2 DEF P
<1> SUFFICES ASSUME NEW k \in i + 1..Len(f), HasSpec(f[k]) PROVE FALSE
  BY DEF SpecFree
<1>5. k - 1 \in i..Len(f) /\ k \in 1..Len(f) /\ k \in 0..Len(f)
  BY <1>0
<1>6. Seen(f, x, k) = Watch(Seen(f, x, k - 1), f[k], x)
  BY <1>5, SeenRun
<1>7. Watch(Seen(f, x, k - 1), f[k], x).wild
  BY <1>4, <1>5, WatchFields
<1> QED
  BY <1>5, <1>6, <1>7, SeenStays

LEMMA WildStrays ==
  ASSUME NEW f \in Seq(Lines), NEW x, ~Stray(f)
  PROVE  ~All(f, x).wild
<1>0. Len(f) \in Nat
  OBVIOUS
<1> DEFINE P == {k \in 0..Len(f) : Seen(f, x, k).wild => Seen(f, x, k).stray}
<1>1. 0 \in P
  <2>1. ~Begin.wild
    BY DEF Begin
  <2> QED
    BY <1>0, <2>1, SeenRun
<1>2. ASSUME NEW k \in 0..Len(f) - 1, k \in P PROVE k + 1 \in P
  <2>0. k + 1 \in 0..Len(f) /\ k + 1 \in 1..Len(f) /\ (k + 1) - 1 = k
    BY <1>0
  <2>1. Seen(f, x, k + 1) = Watch(Seen(f, x, k), f[k + 1], x)
    BY <2>0, SeenRun
  <2>2. Seen(f, x, k).wild => Seen(f, x, k).stray
    BY <1>2
  <2>3. Watch(Seen(f, x, k), f[k + 1], x).wild => Watch(Seen(f, x, k), f[k + 1], x).stray
    BY <2>2, WatchFields
  <2> QED
    BY <2>0, <2>1, <2>3
<1>3. Len(f) \in P
  <2> HIDE DEF P
  <2>1. P \in SUBSET (0..Len(f))
    BY DEF P
  <2>2. \A k \in 0..Len(f) : k \in P
    BY <1>0, <1>1, <1>2, <2>1, UpTo
  <2> QED
    BY <1>0, <2>2
<1> QED
  BY <1>3, SeenRun, SeenStray

(* The last line of the block that goes.                                   *)
InBlocks(t) == Ats(t.locs \ Singles(t))
BlockEnd(t) ==
  IF t.close # 0 THEN t.close ELSE IF InBlocks(t) # {} THEN Max(InBlocks(t)) ELSE t.open

LEMMA PkgLinesAre ==
  ASSUME NEW t, NEW i
  PROVE  i \in PkgLines(t) <=>
           \/ i = t.first.at /\ i # 0
           \/ t.open # 0 /\ i \in t.open..BlockEnd(t)
           \/ i \in Ats(Singles(t))
<1> DEFINE inner == Ats(t.locs \ Singles(t))
           end == CASE t.close # 0 -> t.close
                    [] t.close = 0 /\ inner # {} -> Max(inner)
                    [] OTHER -> t.open
<1>1. end = BlockEnd(t)
  <2>1. inner = InBlocks(t)
    BY DEF InBlocks
  <2> HIDE DEF inner
  <2>2. CASE t.close # 0
    BY <2>2 DEF BlockEnd
  <2>3. CASE t.close = 0 /\ inner # {}
    BY <2>1, <2>3 DEF BlockEnd
  <2>4. CASE t.close = 0 /\ inner = {}
    BY <2>1, <2>4 DEF BlockEnd
  <2> QED
    BY <2>2, <2>3, <2>4
<1>2. PkgLines(t) = ({t.first.at} \ {0})
                      \cup (IF t.open = 0 THEN {} ELSE t.open..end)
                      \cup Ats(Singles(t))
  BY DEF PkgLines
<1> HIDE DEF end
<1> QED
  BY <1>1, <1>2

LEMMA EndIs ==
  ASSUME NEW h \in Seq(Lines), NEW p \in Names, NEW t, t = Scan(h, p), t.open # 0,
         t.close = 0, NEW e, e = BlockEnd(t)
  PROVE  e \in t.open..Len(h) /\ SpecFree(h, e)
<1>0. Len(h) \in Nat /\ DOMAIN h = 1..Len(h) /\ Len(h) \in 0..Len(h)
  OBVIOUS
<1>1. BlockIs(h, p, Len(h)) /\ t = ScanTo(h, p)[Len(h)]
  BY <1>0, BlockFound DEF Scan
<1>2. t.open \in 1..Len(h) /\ \A k \in t.open..Len(h) : In(h, p, k)
  BY <1>1 DEF BlockIs
<1>3. \A k \in 0..t.open - 1 : ~In(h, p, k)
  BY <1>1 DEF BlockIs
<1> PICK o : o = t.open
  OBVIOUS
<1> PICK B : B = InBlocks(t)
  OBVIOUS
<1>4. \A k \in o + 1..Len(h) : HasSpec(h[k]) => k \in B
  <2> SUFFICES ASSUME NEW k \in o + 1..Len(h), HasSpec(h[k]) PROVE k \in B
    OBVIOUS
  <2>1. k \in DOMAIN h /\ k - 1 \in o..Len(h)
    BY <1>0, <1>2
  <2>2. BlockLine(h, p, k)
    BY <1>2, <2>1 DEF BlockLine
  <2> PICK loc : loc = Inner(h[k], k)
    OBVIOUS
  <2>3. loc \in t.locs
    BY <2>1, <2>2, LocsAre
  <2>4. loc.at = k /\ ~loc.single
    BY LocFields
  <2>5. loc \in t.locs \ Singles(t)
    BY <2>3, <2>4 DEF Singles
  <2> QED
    BY <2>4, <2>5 DEF InBlocks, Ats
<1>5. \A k \in B : k \in o + 1..Len(h)
  <2> SUFFICES ASSUME NEW k \in B PROVE k \in o + 1..Len(h)
    OBVIOUS
  <2> PICK loc \in t.locs \ Singles(t) : loc.at = k
    BY DEF InBlocks, Ats
  <2>1. loc \in t.locs /\ ~loc.single
    BY DEF Singles
  <2>2. k \in DOMAIN h /\ IsLoc(h, p, k, loc)
    BY <2>1, LocsAre
  <2>3. BlockLine(h, p, k)
    BY <2>1, <2>2, LocFields DEF IsLoc
  <2>4. In(h, p, k - 1) /\ k - 1 \in 0..Len(h)
    BY <1>0, <2>2, <2>3 DEF BlockLine
  <2> QED
    BY <1>0, <1>2, <1>3, <2>2, <2>4
<1>6. CASE B = {}
  <2>1. e = o
    BY <1>6 DEF BlockEnd
  <2> QED
    BY <1>0, <1>2, <1>4, <1>6, <2>1 DEF SpecFree
<1>7. CASE B # {}
  <2>1. B \in SUBSET (0..Len(h))
    BY <1>0, <1>2, <1>5
  <2>2. e = Max(B)
    BY <1>7 DEF BlockEnd
  <2>3. e \in B /\ \A k \in B : k <= e
    BY <1>0, <1>7, <2>1, <2>2, MaxOf
  <2>4. e \in o + 1..Len(h)
    BY <1>5, <2>3
  <2>5. e \in o..Len(h)
    BY <1>0, <1>2, <2>4
  <2>6. \A k \in e + 1..Len(h) : ~HasSpec(h[k])
    <3> SUFFICES ASSUME NEW k \in e + 1..Len(h), HasSpec(h[k]) PROVE FALSE
      OBVIOUS
    <3>1. k \in o + 1..Len(h)
      BY <1>0, <1>2, <2>4
    <3>2. k \in B
      BY <1>4, <3>1
    <3>3. k <= e
      BY <2>3, <3>2
    <3> QED
      BY <1>0, <2>4, <3>3
  <2> QED
    BY <2>5, <2>6 DEF SpecFree
<1> QED
  BY <1>6, <1>7

LEMMA HeadOpens ==
  ASSUME NEW h \in Seq(Lines), NEW p \in Names, Settled(h, p), NEW t, t = Scan(h, p),
         t.first.kind \in {"OpenInline", "BareOpen"}
  PROVE  t.open = t.first.at
<1>0. Len(h) \in Nat /\ DOMAIN h = 1..Len(h) /\ Len(h) \in 0..Len(h)
  OBVIOUS
<1>1. HeadIs(h, p, t, Len(h))
  BY <1>0, HeadFound DEF Scan
<1>2. t.first.at \in DOMAIN h /\ Own(h, t, t.first.at)
  BY <1>0, <1>1, NowhereIs DEF HeadIs
<1> QED
  BY <1>2, OwnOpen

LEMMA SingleOpens ==
  ASSUME NEW h \in Seq(Lines), NEW p \in Names, Settled(h, p), NEW t, t = Scan(h, p),
         NEW i \in DOMAIN h, SingleLine(h, p, i), h[i].open
  PROVE  t.open = i /\ t.close = 0
<1>0. Len(h) \in Nat /\ DOMAIN h = 1..Len(h) /\ Len(h) \in 0..Len(h)
      /\ i - 1 \in 0..Len(h) - 1 /\ (i - 1) + 1 = i /\ i \in Nat
  OBVIOUS
<1>1. BlockIs(h, p, Len(h)) /\ t = ScanTo(h, p)[Len(h)]
  BY <1>0, BlockFound DEF Scan
<1>2. t.close = 0
  <2>1. Singles(t) # {}
    BY SinglesAre DEF Ats
  <2> QED
    BY <2>1 DEF Settled
<1>3. In(h, p, i)
  <2> PICK l : l = h[i]
    OBVIOUS
  <2>1. l \in Lines /\ l.kind = "single" /\ l.name = p /\ l.open /\ HasSpec(l) /\ l.kind # "blank"
    BY DEF SingleLine, HasSpec
  <2>2. ~At(h, i - 1).block
    BY DEF SingleLine
  <2> PICK s : s = At(h, i - 1)
    OBVIOUS
  <2>3. s \in ReadStates
    BY <1>0, AtTypes
  <2>4. s.pending \in Names \cup {NoName} /\ p # NoName
    BY <2>3, NamesAssumption DEF ReadStates, Names
  <2>5. Opens(l, s.pending) = p
    BY <2>1, <2>4, OpensTypes
  <2>6. At(h, i) = ReadLine(s, l)
    BY <1>0, AtRun
  <2>7. /\ ReadLine(s, l).block = (Opens(l, s.pending) # NoName)
        /\ ReadLine(s, l).owner = Opens(l, s.pending)
    BY <2>1, <2>2, <2>3, OuterRead
  <2> QED
    BY <2>4, <2>5, <2>6, <2>7 DEF In
<1>4. t.open # 0 /\ t.open \in 1..Len(h) /\ i >= t.open
  <2>1. t.open # 0
    BY <1>0, <1>1, <1>3 DEF BlockIs
  <2>2. t.open \in 1..Len(h) /\ \A k \in 0..t.open - 1 : ~In(h, p, k)
    BY <1>1, <2>1 DEF BlockIs
  <2> QED
    BY <1>0, <1>3, <2>1, <2>2
<1>5. i <= t.open
  <2> SUFFICES ASSUME i > t.open PROVE FALSE
    BY <1>0, <1>4
  <2>1. i - 1 \in t.open..Len(h)
    BY <1>0, <1>4
  <2>2. In(h, p, i - 1)
    BY <1>1, <1>2, <1>4, <2>1 DEF BlockIs
  <2> QED
    BY <2>2 DEF SingleLine, In
<1> QED
  BY <1>0, <1>2, <1>4, <1>5

(* Where a round of rule_delete_pkg has taken out the lines before: within *)
(* the first block of the package, or between its name and its brace.      *)
Hidden(t, i) == t.open # 0 /\ t.open <= i /\ (t.close = 0 \/ i < t.close)
Bridged(t, i) == t.first.kind = "BarePending" /\ t.first.at <= i /\ i < t.open
Apart(t, i) == ~Hidden(t, i) /\ ~Bridged(t, i)

GoneLine(h, p, t, i) ==
  \/ Hidden(t, i - 1) /\ In(h, p, i - 1) /\ Hidden(t, i)
  \/ Hidden(t, i - 1) /\ In(h, p, i - 1) /\ Apart(t, i) /\ h[i].kind # "blank" /\ Ends(h[i])
  \/ ~Hidden(t, i - 1) /\ Hidden(t, i) /\ Opener(h, p, i)
  \/ /\ Apart(t, i - 1) /\ Bridged(t, i)
     /\ ~At(h, i - 1).block /\ h[i].kind = "pend"
  \/ /\ Apart(t, i - 1) /\ Apart(t, i)
     /\ ~At(h, i - 1).block /\ HasSpec(h[i]) /\ ~h[i].open /\ h[i].name = p
StayLine(h, p, t, i) ==
  \/ SpecFree(h, i - 1)
  \/ ~Hidden(t, i - 1) /\ Bridged(t, i - 1) /\ Bridged(t, i) /\ h[i].kind = "blank"
  \/ Apart(t, i - 1) /\ Apart(t, i) /\ ~SingleLine(h, p, i)

PkgBlock(h, p, t) ==
  /\ t.open # 0 => /\ t.open \in 1..Len(h) /\ Opener(h, p, t.open)
                   /\ t.open \in t.open..BlockEnd(t)
                   /\ \A k \in t.open..Len(h) : t.close = 0 \/ k < t.close => In(h, p, k)
  /\ t.close # 0 => /\ t.open # 0 /\ t.close \in t.open + 1..Len(h) /\ BlockEnd(t) = t.close
                    /\ h[t.close].kind # "blank" /\ Ends(h[t.close])
  /\ t.open # 0 /\ t.close = 0 => BlockEnd(t) \in t.open..Len(h) /\ SpecFree(h, BlockEnd(t))
  /\ t.open \in Nat /\ t.close \in Nat
  /\ t.first.kind = "BarePending" =>
       /\ t.first.at \in 1..Len(h) /\ t.open \in 1..Len(h) /\ t.first.at < t.open
       /\ Brace(h, p, t.first.at, t.open)

LEMMA PkgBlockFound ==
  ASSUME NEW h \in Seq(Lines), NEW p \in Names, Settled(h, p), NEW t, t = Scan(h, p)
  PROVE  PkgBlock(h, p, t)
<1>0. Len(h) \in Nat /\ DOMAIN h = 1..Len(h) /\ Len(h) \in 0..Len(h)
  OBVIOUS
<1>1. BlockIs(h, p, Len(h)) /\ t = ScanTo(h, p)[Len(h)]
  BY <1>0, BlockFound DEF Scan
<1>2. t.open # 0 => /\ t.open \in 1..Len(h) /\ Opener(h, p, t.open)
                    /\ \A k \in t.open..Len(h) : t.close = 0 \/ k < t.close => In(h, p, k)
  BY <1>1 DEF BlockIs
<1>3. t.close # 0 => /\ t.open # 0 /\ t.close \in t.open + 1..Len(h) /\ BlockEnd(t) = t.close
                     /\ h[t.close].kind # "blank" /\ Ends(h[t.close])
  BY <1>1 DEF BlockIs, BlockEnd
<1>4. t.open # 0 /\ t.close = 0 => BlockEnd(t) \in t.open..Len(h) /\ SpecFree(h, BlockEnd(t))
  BY EndIs
<1>5. t.open \in Nat /\ t.close \in Nat
  <2>1. t \in Scans(h)
    BY ScanTypes
  <2> QED
    BY <1>0, <2>1 DEF Scans
<1>6. t.open # 0 => t.open \in t.open..BlockEnd(t)
  BY <1>0, <1>2, <1>3, <1>4, <1>5
<1>7. t.first.kind = "BarePending" =>
        /\ t.first.at \in 1..Len(h) /\ t.open \in 1..Len(h) /\ t.first.at < t.open
        /\ Brace(h, p, t.first.at, t.open)
  BY <1>0, PendingBrace
<1> QED
  BY <1>2, <1>3, <1>4, <1>5, <1>6, <1>7 DEF PkgBlock

LEMMA HiddenNext ==
  ASSUME NEW h \in Seq(Lines), NEW p, NEW t, PkgBlock(h, p, t), NEW i \in 1..Len(h),
         ~Hidden(t, i - 1), ~(t.open # 0 /\ i \in t.open..BlockEnd(t))
  PROVE  ~Hidden(t, i)
<1> PICK o : o = t.open
  OBVIOUS
<1> PICK c : c = t.close
  OBVIOUS
<1>1. o \in Nat /\ c \in Nat /\ (o # 0 => o \in o..BlockEnd(t))
  BY DEF PkgBlock
<1> SUFFICES ASSUME Hidden(t, i) PROVE FALSE
  OBVIOUS
<1>2. o # 0 /\ o <= i /\ (c = 0 \/ i < c)
  BY DEF Hidden
<1>3. i # o
  BY <1>1, <1>2
<1>4. o <= i - 1 /\ (c = 0 \/ i - 1 < c)
  BY <1>1, <1>2, <1>3
<1> QED
  BY <1>2, <1>4 DEF Hidden

LEMMA GoneLineIs ==
  ASSUME NEW h \in Seq(Lines), NEW p \in Names, Settled(h, p), NEW t, t = Scan(h, p),
         NEW i \in 1..Len(h), i \in PkgLines(t)
  PROVE  GoneLine(h, p, t, i)
<1> PICK o : o = t.open
  OBVIOUS
<1> PICK c : c = t.close
  OBVIOUS
<1> PICK e : e = BlockEnd(t)
  OBVIOUS
<1> PICK at : at = t.first.at
  OBVIOUS
<1>0. Len(h) \in Nat /\ DOMAIN h = 1..Len(h) /\ i \in Nat /\ PkgBlock(h, p, t) /\ i \in DOMAIN h
  BY PkgBlockFound
<1>1. /\ o \in Nat /\ c \in Nat
      /\ o # 0 => o \in 1..Len(h) /\ Opener(h, p, o) /\ o \in o..e
      /\ o # 0 => \A k \in o..Len(h) : c = 0 \/ k < c => In(h, p, k)
      /\ c # 0 => o # 0 /\ c \in o + 1..Len(h) /\ e = c /\ h[c].kind # "blank" /\ Ends(h[c])
      /\ o # 0 /\ c = 0 => e \in o..Len(h)
  BY <1>0 DEF PkgBlock
<1>2. t.first.kind = "BarePending" =>
        at \in 1..Len(h) /\ o \in 1..Len(h) /\ at < o /\ Brace(h, p, at, o)
  BY <1>0 DEF PkgBlock
<1>3. CASE Hidden(t, i - 1)
  <2>1. o # 0 /\ o <= i - 1 /\ (c = 0 \/ i - 1 < c)
    BY <1>3 DEF Hidden
  <2>2. i - 1 \in o..Len(h)
    BY <1>0, <1>1, <2>1
  <2>3. In(h, p, i - 1)
    BY <1>1, <2>1, <2>2
  <2>4. CASE c = 0 \/ i < c
    <3>1. Hidden(t, i)
      BY <1>0, <1>1, <2>1, <2>4 DEF Hidden
    <3> QED
      BY <1>3, <2>3, <3>1 DEF GoneLine
  <2>5. CASE ~(c = 0 \/ i < c)
    <3>1. i = c
      BY <1>0, <1>1, <2>1, <2>5
    <3>2. ~Hidden(t, i)
      BY <2>5 DEF Hidden
    <3>3. ~Bridged(t, i)
      BY <1>0, <1>1, <2>1 DEF Bridged
    <3> QED
      BY <1>1, <1>3, <2>3, <2>5, <3>1, <3>2, <3>3 DEF GoneLine, Apart
  <2> QED
    BY <2>4, <2>5
<1>4. CASE ~Hidden(t, i - 1) /\ o # 0 /\ i \in o..e
  <2>1. i = o
    <3> SUFFICES ASSUME i # o PROVE FALSE
      OBVIOUS
    <3>1. o <= i - 1
      BY <1>0, <1>1, <1>4
    <3>2. c # 0 /\ i - 1 >= c
      BY <1>0, <1>1, <1>4, <3>1 DEF Hidden
    <3> QED
      BY <1>0, <1>1, <1>4, <3>2
  <2>2. Hidden(t, i)
    BY <1>0, <1>1, <1>4, <2>1 DEF Hidden
  <2> QED
    BY <1>1, <1>4, <2>1, <2>2 DEF GoneLine
<1>5. CASE ~Hidden(t, i - 1) /\ ~(o # 0 /\ i \in o..e)
  <2>1. ~Hidden(t, i)
    BY <1>0, <1>5, HiddenNext
  <2>2. CASE i = at
    <3>0. t.first \in Heads(h)
      <4>1. t \in Scans(h)
        BY ScanTypes
      <4> QED
        BY <4>1 DEF Scans
    <3>1. t.first.kind \in {"Standalone", "OpenInline", "BareOpen", "BarePending"}
      BY <1>0, <2>2, <3>0, NowhereIs DEF Heads
    <3>2. CASE t.first.kind = "Standalone"
      <4>1. h[i].name = p /\ ~At(h, i - 1).block /\ HasSpec(h[i]) /\ ~h[i].open
        BY <2>2, <3>2, HeadRule
      <4>2. ~Bridged(t, i) /\ ~Bridged(t, i - 1)
        BY <3>2 DEF Bridged
      <4> QED
        BY <1>5, <2>1, <4>1, <4>2 DEF GoneLine, Apart
    <3>3. CASE t.first.kind \in {"OpenInline", "BareOpen"}
      <4>1. o = at
        BY <3>3, HeadOpens
      <4> QED
        BY <1>0, <1>1, <1>5, <2>2, <4>1
    <3>4. CASE t.first.kind = "BarePending"
      <4>1. Bridged(t, i) /\ ~Bridged(t, i - 1)
        BY <1>0, <1>2, <2>2, <3>4 DEF Bridged
      <4>2. ~At(h, i - 1).block /\ h[i].kind = "pend"
        BY <1>2, <2>2, <3>4 DEF Brace
      <4> QED
        BY <1>5, <2>1, <4>1, <4>2 DEF GoneLine, Apart
    <3> QED
      BY <3>1, <3>2, <3>3, <3>4
  <2>3. CASE i # at
    <3>1. i \in Ats(Singles(t))
      BY <1>5, <2>3, PkgLinesAre
    <3>2. SingleLine(h, p, i)
      BY <1>0, <3>1, SinglesAre
    <3>3. ~h[i].open
      <4> SUFFICES ASSUME h[i].open PROVE FALSE
        OBVIOUS
      <4>1. t.open = i
        BY <1>0, <3>2, SingleOpens
      <4> QED
        BY <1>0, <1>1, <1>5, <4>1
    <3>4. h[i].kind = "single" /\ h[i].name = p /\ ~At(h, i - 1).block
      BY <3>2 DEF SingleLine
    <3>5. ~(t.first.kind = "BarePending" /\ at < i /\ i < o)
      <4> SUFFICES ASSUME t.first.kind = "BarePending" /\ at < i /\ i < o PROVE FALSE
        OBVIOUS
      <4>1. i \in at + 1..o - 1
        BY <1>0, <1>1, <1>2
      <4>2. h[i].kind = "blank"
        BY <1>2, <4>1 DEF Brace
      <4> QED
        BY <3>4, <4>2
    <3>6. i # o \/ t.first.kind # "BarePending"
      BY <1>0, <1>1, <1>2, <1>5
    <3>7. ~Bridged(t, i)
      BY <1>0, <1>1, <1>2, <2>3, <3>5 DEF Bridged
    <3>8. ~Bridged(t, i - 1)
      BY <1>0, <1>1, <1>2, <2>3, <3>5, <3>6 DEF Bridged
    <3> QED
      BY <1>5, <2>1, <3>3, <3>4, <3>7, <3>8 DEF GoneLine, Apart, HasSpec
  <2> QED
    BY <2>2, <2>3
<1> QED
  BY <1>3, <1>4, <1>5

LEMMA StayLineIs ==
  ASSUME NEW h \in Seq(Lines), NEW p \in Names, Settled(h, p), NEW t, t = Scan(h, p),
         NEW i \in 1..Len(h), i \notin PkgLines(t)
  PROVE  StayLine(h, p, t, i)
<1> PICK o : o = t.open
  OBVIOUS
<1> PICK c : c = t.close
  OBVIOUS
<1> PICK e : e = BlockEnd(t)
  OBVIOUS
<1> PICK at : at = t.first.at
  OBVIOUS
<1>0. Len(h) \in Nat /\ DOMAIN h = 1..Len(h) /\ i \in Nat /\ PkgBlock(h, p, t) /\ i \in DOMAIN h
  BY PkgBlockFound
<1>1. /\ o \in Nat /\ c \in Nat
      /\ o # 0 => o \in 1..Len(h) /\ o \in o..e
      /\ c # 0 => o # 0 /\ c \in o + 1..Len(h) /\ e = c
      /\ o # 0 /\ c = 0 => e \in o..Len(h) /\ SpecFree(h, e)
  BY <1>0 DEF PkgBlock
<1>2. t.first.kind = "BarePending" =>
        at \in 1..Len(h) /\ o \in 1..Len(h) /\ at < o /\ Brace(h, p, at, o)
  BY <1>0 DEF PkgBlock
<1>3. /\ i # at /\ ~(o # 0 /\ i \in o..e) /\ i \notin Ats(Singles(t))
  BY <1>0, PkgLinesAre
<1>4. CASE Hidden(t, i - 1)
  <2>1. o # 0 /\ o <= i - 1 /\ (c = 0 \/ i - 1 < c)
    BY <1>4 DEF Hidden
  <2>2. c = 0
    BY <1>0, <1>1, <1>3, <2>1
  <2>3. e \in o..Len(h) /\ SpecFree(h, e)
    BY <1>1, <2>1, <2>2
  <2>4. e <= i - 1
    BY <1>0, <1>1, <1>3, <2>1, <2>3
  <2>5. \A k \in (i - 1) + 1..Len(h) : k \in e + 1..Len(h)
    BY <1>0, <1>1, <2>3, <2>4
  <2>6. SpecFree(h, i - 1)
    BY <2>3, <2>5 DEF SpecFree
  <2> QED
    BY <2>6 DEF StayLine
<1>5. CASE ~Hidden(t, i - 1) /\ Bridged(t, i - 1)
  <2>1. t.first.kind = "BarePending" /\ at <= i - 1 /\ i - 1 < o
    BY <1>5 DEF Bridged
  <2>2. i # o
    BY <1>1, <1>2, <1>3, <2>1
  <2>3. i \in at + 1..o - 1
    BY <1>0, <1>1, <1>2, <2>1, <2>2
  <2>4. h[i].kind = "blank"
    BY <1>2, <2>1, <2>3 DEF Brace
  <2>5. Bridged(t, i)
    BY <1>0, <1>1, <1>2, <2>1, <2>3 DEF Bridged
  <2> QED
    BY <1>5, <2>4, <2>5 DEF StayLine
<1>6. CASE ~Hidden(t, i - 1) /\ ~Bridged(t, i - 1)
  <2>1. ~Hidden(t, i)
    BY <1>0, <1>3, <1>6, HiddenNext
  <2>2. ~Bridged(t, i)
    <3> SUFFICES ASSUME Bridged(t, i) PROVE FALSE
      OBVIOUS
    <3>1. t.first.kind = "BarePending" /\ at <= i /\ i < o
      BY DEF Bridged
    <3>2. at <= i - 1 /\ i - 1 < o
      BY <1>0, <1>1, <1>2, <1>3, <3>1
    <3> QED
      BY <1>6, <3>1, <3>2 DEF Bridged
  <2>3. ~SingleLine(h, p, i)
    BY <1>0, <1>3, SinglesAre
  <2> QED
    BY <1>6, <2>1, <2>2, <2>3 DEF StayLine, Apart
<1> QED
  BY <1>4, <1>5, <1>6

AfterPlain(v, p, w) ==
  /\ w \in WatchStates
  /\ Other(w.read, {p}) = Other(v.read, {p})
  /\ w.wild <=> v.wild
  /\ w.sing <=> v.sing

LEMMA PlainLine ==
  ASSUME NEW v \in WatchStates, NEW l \in Lines, ~HasSpec(l), NEW p, NEW x
  PROVE  AfterPlain(v, p, Watch(v, l, x))
<1> PICK w : w = Watch(v, l, x)
  OBVIOUS
<1> PICK s : s = v.read
  OBVIOUS
<1>1. w \in WatchStates
  BY WatchLineTypes
<1>2. w.read = ReadLine(s, l)
  BY WatchLine
<1>3. s \in ReadStates
  BY DEF WatchStates
<1>4. l.name \in Names \cup {NoName} /\ l.thread \in Names \cup {NoName}
      /\ InnerName(l) \in Names \cup {NoName}
      /\ s.owner \in Names \cup {NoName} /\ {} \in Specs
  BY <1>3, LineFields DEF Specs, Fields, Names, ReadStates
<1>5. InnerSpec(l) = {} /\ OuterSpec(l) = {}
  BY DEF InnerSpec, OuterSpec
<1>6. Other(ReadLine(s, l), {p}) = Other(s, {p})
  <2>1. CASE l.kind = "blank"
    BY <2>1, BlankRead
  <2>2. CASE l.kind # "blank" /\ s.block
    <3>1. ReadLine(s, l).rules = AddRule(s, s.owner, InnerName(l), InnerSpec(l)).rules
      BY <1>3, <2>2, InnerRead
    <3>2. Other(AddRule(s, s.owner, InnerName(l), InnerSpec(l)), {p}) = Other(s, {p})
      BY <1>3, <1>4, <1>5, AddNone
    <3> QED
      BY <3>1, <3>2, OtherOf
  <2>3. CASE l.kind # "blank" /\ ~s.block
    <3>1. ReadLine(s, l).rules = AddRule(s, l.name, l.thread, OuterSpec(l)).rules
      BY <1>3, <2>3, OuterRead
    <3>2. Other(AddRule(s, l.name, l.thread, OuterSpec(l)), {p}) = Other(s, {p})
      BY <1>3, <1>4, <1>5, AddNone
    <3> QED
      BY <3>1, <3>2, OtherOf
  <2> QED
    BY <2>1, <2>2, <2>3
<1>7. w.wild <=> v.wild
  BY WatchFields
<1>8. l.kind # "single"
  BY DEF HasSpec
<1>9. w.sing <=> v.sing
  BY <1>8, WatchLine
<1> QED
  BY <1>1, <1>2, <1>6, <1>7, <1>9 DEF AfterPlain

(* What a line of the block of p, or the one that opens it, adds is of p.  *)
LEMMA InOther ==
  ASSUME NEW m, NEW p \in Names, InBlock(m, p), NEW l \in Lines, NEW x \in Names
  PROVE  Other(Watch(m, l, x).read, {p}) = Other(m.read, {p})
<1>1. CASE l.kind = "blank"
  BY <1>1, BlankWatch DEF InBlock
<1>2. CASE l.kind # "blank"
  <2>1. AfterInner(m, l, p, Watch(m, l, x))
    BY <1>2, InLine
  <2> QED
    BY <2>1 DEF AfterInner
<1> QED
  BY <1>1, <1>2

LEMMA OpenOther ==
  ASSUME NEW m, OutBlock(m), NEW p \in Names, NEW l \in Lines, l.kind # "blank",
         Opens(l, m.read.pending) = p, NEW x \in Names
  PROVE  Other(Watch(m, l, x).read, {p}) = Other(m.read, {p})
<1>1. m \in WatchStates
  BY DEF OutBlock
<1>2. CASE ~HasSpec(l)
  <2>1. AfterPlain(m, p, Watch(m, l, x))
    BY <1>1, <1>2, PlainLine
  <2> QED
    BY <2>1 DEF AfterPlain
<1>3. CASE HasSpec(l)
  <2>1. l.name = p
    <3>1. p # NoName
      BY NamesAssumption DEF Names
    <3>2. m.read.pending \in Names \cup {NoName}
      BY <1>1 DEF WatchStates, ReadStates
    <3>3. Opens(l, m.read.pending) = IF l.open THEN l.name ELSE NoName
      BY <1>3, <3>2, OpensTypes
    <3> QED
      BY <3>1, <3>3
  <2>2. AfterOuter(m, l, p, x, Watch(m, l, x))
    BY <1>3, <2>1, OutLine
  <2> QED
    BY <2>2 DEF AfterOuter
<1> QED
  BY <1>2, <1>3

(* How the reader of the file stands to the one of the lines that are left.*)
Gone(m, v, p) ==
  v \in WatchStates /\ Other(m.read, {p}) = Other(v.read, {p}) /\ ~v.wild /\ ~v.sing
Zone(t, i, m, v, p) ==
  /\ ~v.stray
  /\ ~Apart(t, i) => ~v.read.block
  /\ Apart(t, i) => Near(m.read, v.read, {p})
Left(h, p, t, i, v) ==
  /\ Gone(Seen(h, p, i), v, p)
  /\ SpecFree(h, i) \/ Zone(t, i, Seen(h, p, i), v, p)

LEMMA LeftFree ==
  ASSUME NEW h \in Seq(Lines), NEW p, NEW t, NEW i \in 1..Len(h), NEW v,
         Left(h, p, t, i - 1, v), SpecFree(h, i - 1)
  PROVE  Left(h, p, t, i, v) /\ Left(h, p, t, i, Watch(v, h[i], p))
<1> PICK m : m = Seen(h, p, i - 1)
  OBVIOUS
<1> PICK l : l = h[i]
  OBVIOUS
<1>0. i \in DOMAIN h /\ Len(h) \in Nat /\ i \in Nat
  OBVIOUS
<1>1. m \in WatchStates /\ l \in Lines /\ Seen(h, p, i) = Watch(m, l, p)
  BY <1>0, LineStates
<1>2. i \in (i - 1) + 1..Len(h) /\ \A k \in i + 1..Len(h) : k \in (i - 1) + 1..Len(h)
  BY <1>0
<1>3. ~HasSpec(l) /\ SpecFree(h, i)
  BY <1>2 DEF SpecFree
<1>4. Gone(m, v, p)
  BY DEF Left
<1>5. AfterPlain(m, p, Watch(m, l, p))
  BY <1>1, <1>3, PlainLine
<1>6. AfterPlain(v, p, Watch(v, l, p))
  BY <1>1, <1>3, <1>4, PlainLine DEF Gone
<1>7. Gone(Watch(m, l, p), v, p)
  BY <1>4, <1>5 DEF Gone, AfterPlain
<1>8. Gone(Watch(m, l, p), Watch(v, l, p), p)
  BY <1>4, <1>5, <1>6 DEF Gone, AfterPlain
<1> QED
  BY <1>1, <1>3, <1>7, <1>8 DEF Left

LEMMA LeftGone ==
  ASSUME NEW h \in Seq(Lines), NEW p \in Names, Settled(h, p), NEW t, t = Scan(h, p),
         NEW i \in 1..Len(h), NEW v, Left(h, p, t, i - 1, v), i \in PkgLines(t)
  PROVE  Left(h, p, t, i, v)
<1> PICK m : m = Seen(h, p, i - 1)
  OBVIOUS
<1> PICK l : l = h[i]
  OBVIOUS
<1> PICK a : a = Watch(m, l, p)
  OBVIOUS
<1>0. i \in DOMAIN h /\ Len(h) \in Nat /\ i \in Nat
  OBVIOUS
<1>1. /\ m \in WatchStates /\ l \in Lines /\ Seen(h, p, i) = a /\ m.read = At(h, i - 1)
      /\ i - 1 \in 0..Len(h) /\ i \in 0..Len(h)
  BY <1>0, LineStates
<1>2. CASE SpecFree(h, i - 1)
  BY <1>2, LeftFree
<1>3. CASE ~SpecFree(h, i - 1)
  <2>1. Gone(m, v, p) /\ Zone(t, i - 1, m, v, p)
    BY <1>3 DEF Left
  <2>2. v \in WatchStates /\ ~v.stray /\ Other(m.read, {p}) = Other(v.read, {p})
    BY <2>1 DEF Gone, Zone
  <2>3. ~v.wild /\ ~v.sing
    BY <2>1 DEF Gone
  <2>4. ~m.read.block \/ Hidden(t, i - 1) => ~v.read.block
    BY <2>1 DEF Zone, Apart, Near
  <2>5. SUFFICES Other(a.read, {p}) = Other(m.read, {p}) /\ Zone(t, i, a, v, p)
    BY <1>1, <2>2, <2>3 DEF Left, Gone
  <2>6. GoneLine(h, p, t, i)
    BY GoneLineIs
  <2>7. CASE Hidden(t, i - 1) /\ In(h, p, i - 1)
    <3>1. InBlock(m, p) /\ m.read.pending = NoName
      BY <1>1, <2>7, BlockPending DEF InBlock, In
    <3>2. Other(a.read, {p}) = Other(m.read, {p})
      <4>1. Other(Watch(m, l, p).read, {p}) = Other(m.read, {p})
        BY <1>1, <3>1, InOther
      <4> QED
        BY <4>1
    <3>3. CASE Hidden(t, i)
      BY <2>2, <2>4, <2>7, <3>2, <3>3 DEF Zone, Apart
    <3>4. CASE Apart(t, i) /\ l.kind # "blank" /\ Ends(l)
      <4>1. AfterInner(m, l, p, a)
        BY <1>1, <3>1, <3>4, InLine
      <4>2. ~a.read.block /\ a.read.pending = NoName
        BY <3>1, <3>4, <4>1 DEF AfterInner
      <4>3. a.read.block \in BOOLEAN /\ v.read.block \in BOOLEAN
        BY <2>2, <4>1 DEF AfterInner, WatchStates, ReadStates
      <4>4. Near(a.read, v.read, {p})
        BY <2>2, <2>4, <2>7, <3>2, <4>2, <4>3 DEF Near
      <4> QED
        BY <2>2, <3>2, <3>4, <4>4 DEF Zone
    <3> QED
      BY <2>6, <2>7, <3>3, <3>4 DEF GoneLine, Apart
  <2>8. CASE Hidden(t, i) /\ Opener(h, p, i)
    <3>1. OutBlock(m) /\ l.kind # "blank" /\ Opens(l, m.read.pending) = p
      BY <1>1, <2>8 DEF OutBlock, Opener
    <3>2. Other(a.read, {p}) = Other(m.read, {p})
      <4>1. Other(Watch(m, l, p).read, {p}) = Other(m.read, {p})
        BY <1>1, <3>1, OpenOther
      <4> QED
        BY <4>1
    <3> QED
      BY <2>2, <2>4, <2>8, <3>1, <3>2 DEF Zone, Apart, OutBlock
  <2>9. CASE Bridged(t, i) /\ ~At(h, i - 1).block /\ l.kind = "pend"
    <3>1. OutBlock(m)
      BY <1>1, <2>9 DEF OutBlock
    <3>2. AfterPend(m, l, p, a)
      BY <1>1, <2>9, <3>1, PendLine
    <3> QED
      BY <1>1, <2>2, <2>4, <2>9, <3>2 DEF Zone, Apart, AfterPend
  <2>10. CASE /\ Apart(t, i)
              /\ ~At(h, i - 1).block /\ HasSpec(l) /\ ~l.open /\ l.name = p
    <3>1. OutBlock(m) /\ l.kind # "bare"
      BY <1>1, <2>10 DEF OutBlock, HasSpec
    <3>2. AfterOuter(m, l, p, p, a)
      BY <1>1, <2>10, <3>1, OutLine
    <3>3. /\ Other(a.read, {p}) = Other(m.read, {p})
          /\ ~a.read.block /\ a.read.pending = NoName /\ a \in WatchStates
      BY <2>10, <3>1, <3>2 DEF AfterOuter
    <3>4. a.read.block \in BOOLEAN /\ v.read.block \in BOOLEAN
      BY <2>2, <3>3 DEF WatchStates, ReadStates
    <3>5. Near(a.read, v.read, {p})
      BY <1>1, <2>2, <2>4, <2>10, <3>3, <3>4 DEF Near
    <3> QED
      BY <2>2, <2>10, <3>3, <3>5 DEF Zone
  <2> QED
    BY <2>6, <2>7, <2>8, <2>9, <2>10 DEF GoneLine
<1> QED
  BY <1>2, <1>3

LEMMA LeftStays ==
  ASSUME NEW h \in Seq(Lines), NEW p \in Names, Settled(h, p), ~All(h, p).wild,
         NEW t, t = Scan(h, p),
         NEW i \in 1..Len(h), NEW v, Left(h, p, t, i - 1, v), i \notin PkgLines(t)
  PROVE  Left(h, p, t, i, Watch(v, h[i], p))
<1> PICK m : m = Seen(h, p, i - 1)
  OBVIOUS
<1> PICK l : l = h[i]
  OBVIOUS
<1> PICK a : a = Watch(m, l, p)
  OBVIOUS
<1> PICK w : w = Watch(v, l, p)
  OBVIOUS
<1>0. i \in DOMAIN h /\ Len(h) \in Nat /\ i \in Nat
  OBVIOUS
<1>1. /\ m \in WatchStates /\ l \in Lines /\ Seen(h, p, i) = a /\ m.read = At(h, i - 1)
  BY <1>0, LineStates
<1>2. CASE SpecFree(h, i - 1)
  BY <1>2, LeftFree
<1>3. CASE ~SpecFree(h, i - 1)
  <2>1. Gone(m, v, p) /\ Zone(t, i - 1, m, v, p)
    BY <1>3 DEF Left
  <2>2. v \in WatchStates /\ ~v.stray /\ Other(m.read, {p}) = Other(v.read, {p})
    BY <2>1 DEF Gone, Zone
  <2>3. ~v.wild /\ ~v.sing
    BY <2>1 DEF Gone
  <2>4. StayLine(h, p, t, i)
    BY StayLineIs
  <2>5. CASE Bridged(t, i - 1) /\ Bridged(t, i) /\ l.kind = "blank"
    <3>1. ~HasSpec(l)
      BY <2>5 DEF HasSpec
    <3>2. AfterPlain(m, p, a) /\ AfterPlain(v, p, w)
      BY <1>1, <2>2, <3>1, PlainLine
    <3>3. Gone(a, w, p)
      BY <2>2, <2>3, <3>2 DEF Gone, AfterPlain
    <3>4. w.read = v.read /\ (w.stray <=> v.stray)
      BY <2>2, <2>5, BlankWatch
    <3>5. ~v.read.block
      BY <2>1, <2>5 DEF Zone, Apart
    <3>6. Zone(t, i, a, w, p)
      BY <2>2, <2>5, <3>4, <3>5 DEF Zone, Apart
    <3> QED
      BY <1>1, <3>3, <3>6 DEF Left
  <2>6. CASE Apart(t, i - 1) /\ Apart(t, i) /\ ~SingleLine(h, p, i)
    <3>1. Near(m.read, v.read, {p})
      BY <2>1, <2>6 DEF Zone
    <3>2. CASE StrayLine(m.read, l)
      <4>1. SpecFree(h, i)
        BY <1>1, <3>2, NoWild
      <4>2. ~HasSpec(l)
        BY <3>2 DEF StrayLine, HasSpec
      <4>3. AfterPlain(m, p, a) /\ AfterPlain(v, p, w)
        BY <1>1, <2>2, <4>2, PlainLine
      <4>4. Gone(a, w, p)
        BY <2>2, <2>3, <4>3 DEF Gone, AfterPlain
      <4> QED
        BY <1>1, <4>1, <4>4 DEF Left
    <3>3. CASE ~StrayLine(m.read, l)
      <4>1. Alike(m, v, {p})
        BY <2>2, <3>1 DEF Alike
      <4> PICK N : N = {p}
        OBVIOUS
      <4>2. Alike(a, w, N)
        <5>1. N \in SUBSET Names
          OBVIOUS
        <5> QED
          BY <1>1, <2>2, <3>3, <4>1, <5>1, AlikeLine
      <4>3. Near(a.read, w.read, {p}) /\ ~w.stray
        BY <4>2 DEF Alike
      <4>4. w \in WatchStates
        BY <1>1, <2>2, WatchLineTypes
      <4>5. ~w.wild
        BY <2>2, <2>3, WatchFields
      <4>6. ~w.sing
        <5>1. ~(~m.read.block /\ l.kind = "single" /\ l.name = p)
          BY <1>1, <2>6 DEF SingleLine
        <5>2. m.read.block = v.read.block
          BY <3>1 DEF Near
        <5> PICK u : u = v.read
          OBVIOUS
        <5>3. ~(~u.block /\ l.kind = "single" /\ l.name = p)
          BY <5>1, <5>2
        <5> QED
          BY <2>3, <5>3, WatchLine
      <4>7. Other(a.read, {p}) = Other(w.read, {p})
        BY <4>3 DEF Near
      <4> QED
        BY <1>1, <2>6, <4>3, <4>4, <4>5, <4>6, <4>7 DEF Left, Gone, Zone
    <3> QED
      BY <3>2, <3>3
  <2> QED
    BY <1>3, <2>4, <2>5, <2>6 DEF StayLine
<1> QED
  BY <1>2, <1>3

(* One round, and all of them.                                             *)
Rounded(f, k, p) ==
  k \in Seq(Lines) /\ ~All(k, p).wild /\ Settled(k, p) /\ Kept(f, k, {p})

LEMMA WithoutKept ==
  ASSUME NEW h \in Seq(Lines), NEW p \in Names, Settled(h, p), ~All(h, p).wild,
         NEW k, k = Without(h, PkgLines(Scan(h, p)))
  PROVE  Rounded(h, k, p)
<1> PICK t : t = Scan(h, p)
  OBVIOUS
<1> DEFINE by == [i \in PkgLines(t) |-> <<>>]
           rel == [i \in 0..Len(h) |-> {v \in WatchStates : Left(h, p, t, i, v)}]
<1>0. Len(h) \in Nat /\ DOMAIN h = 1..Len(h)
  OBVIOUS
<1>1. \A i \in 0..Len(h) : \A v : v \in rel[i] <=> v \in WatchStates /\ Left(h, p, t, i, v)
  OBVIOUS
<1>2. k = Replace(h, by)
  BY DEF Without
<1>3. \A i \in 1..Len(h) : Instead(h, by, i) = IF i \in PkgLines(t) THEN <<>> ELSE <<h[i]>>
  BY DEF Instead
<1>4. \A i \in DOMAIN h \cap DOMAIN by : by[i] \in Seq(Lines)
  OBVIOUS
<1> HIDE DEF rel, by
<1>5. Begin \in rel[0]
  <2>1. Near(Begin.read, Begin.read, {p}) /\ ~Begin.stray /\ ~Begin.wild /\ ~Begin.sing
    BY DEF Near, Begin
  <2>2. Apart(t, 0)
    <3>1. PkgBlock(h, p, t)
      BY PkgBlockFound
    <3> QED
      BY <1>0, <3>1 DEF PkgBlock, Apart, Hidden, Bridged
  <2>3. Seen(h, p, 0) = Begin
    BY SeenRun
  <2>4. Left(h, p, t, 0, Begin)
    BY <2>1, <2>2, <2>3, BeginTypes DEF Left, Gone, Zone
  <2> QED
    BY <1>0, <1>1, <2>4, BeginTypes
<1>6. ASSUME NEW i \in 1..Len(h), NEW v \in rel[i - 1]
      PROVE  Watched(v, Instead(h, by, i), p) \in rel[i]
  <2>0. i \in DOMAIN h /\ i - 1 \in 0..Len(h) /\ i \in 0..Len(h) /\ h[i] \in Lines
    BY <1>0
  <2>1. v \in WatchStates /\ Left(h, p, t, i - 1, v)
    BY <1>1, <1>6, <2>0
  <2>2. CASE i \in PkgLines(t)
    <3>1. Watched(v, Instead(h, by, i), p) = v
      BY <1>3, <2>2, WatchNone
    <3>2. Left(h, p, t, i, v)
      BY <2>1, <2>2, LeftGone
    <3> QED
      BY <1>1, <2>0, <2>1, <3>1, <3>2
  <2>3. CASE i \notin PkgLines(t)
    <3>1. Watched(v, Instead(h, by, i), p) = Watch(v, h[i], p)
      BY <1>3, <2>3, WatchOne
    <3>2. Left(h, p, t, i, Watch(v, h[i], p))
      BY <2>1, <2>3, LeftStays
    <3>3. Watch(v, h[i], p) \in WatchStates
      BY <2>0, <2>1, WatchLineTypes
    <3> QED
      BY <1>1, <2>0, <3>1, <3>2, <3>3
  <2> QED
    BY <2>2, <2>3
<1>7. Watched(Begin, Replace(h, by), p) \in rel[Len(h)]
  <2>1. \A i \in 1..Len(h) : \A v \in rel[i - 1] : Watched(v, Instead(h, by, i), p) \in rel[i]
    BY <1>6
  <2> QED
    BY <1>4, <1>5, <2>1, WatchReplace
<1>8. Gone(All(h, p), All(k, p), p)
  <2>1. Len(h) \in 0..Len(h)
    BY <1>0
  <2>2. Left(h, p, t, Len(h), Watched(Begin, Replace(h, by), p))
    BY <1>1, <1>7, <2>1
  <2> QED
    BY <1>2, <2>2, SeenRun DEF All, Left
<1>9. k \in Seq(Lines)
  BY <1>2, <1>4, ReplaceTypes
<1>10. ~All(k, p).wild /\ ~All(k, p).sing
       /\ Other(All(h, p).read, {p}) = Other(All(k, p).read, {p})
  BY <1>8 DEF Gone
<1>11. Settled(k, p)
  BY <1>9, <1>10, SinglesAre DEF Settled
<1> QED
  BY <1>9, <1>10, <1>11, AllRead DEF Rounded, Kept

LEMMA RoundKept ==
  ASSUME NEW f, NEW h, NEW p \in Names, Rounded(f, h, p)
  PROVE  Rounded(f, DeleteRound(h, p), p)
<1>0. h \in Seq(Lines) /\ ~All(h, p).wild /\ Settled(h, p) /\ Kept(f, h, {p})
  BY DEF Rounded
<1> PICK k : k = Without(h, PkgLines(Scan(h, p)))
  OBVIOUS
<1>1. DeleteRound(h, p) = IF AnyLine(Scan(h, p)) THEN k ELSE h
  BY DEF DeleteRound
<1>2. Rounded(h, k, p)
  BY <1>0, WithoutKept
<1>3. Rounded(f, k, p)
  BY <1>0, <1>2, KeptAfter DEF Rounded
<1> QED
  BY <1>1, <1>3

LEMMA DeletePkgKept ==
  ASSUME NEW f \in Seq(Lines), NEW p \in Names, ~Stray(f), ~Trap(f), ~Shut(f, p)
  PROVE  OpKept(f, RuleDeletePkg(f, p), {p})
<1> DEFINE g == NormalizeSingles(f, p)
<1>1. g \in Seq(Lines) /\ Rounded(f, g, p)
  <2>1. Sound(f, g, p) /\ ~Stray(g) /\ g \in Seq(Lines)
        /\ (Singles(Scan(g, p)) = {} \/ Scan(g, p).close = 0)
    BY NormalizeSound
  <2>2. ~All(g, p).wild
    BY <2>1, WildStrays
  <2> QED
    BY <2>1, <2>2 DEF Sound, Rounded, Settled
<1>2. RuleDeletePkg(f, p) \in {Ok(DeleteRounds(g, p)[Len(g)]), Refused("missing")}
  BY DEF RuleDeletePkg
<1> HIDE DEF g
<1>3. Len(g) \in Nat
  BY <1>1
<1> DEFINE P == {i \in 0..Len(g) : Rounded(f, DeleteRounds(g, p)[i], p)}
<1>6. \A i : i \in P <=> i \in 0..Len(g) /\ Rounded(f, DeleteRounds(g, p)[i], p)
  OBVIOUS
<1> HIDE DEF P
<1>7. 0 \in P
  BY <1>1, <1>3, <1>6, DeleteRun
<1>8. ASSUME NEW i \in 0..Len(g) - 1, i \in P PROVE i + 1 \in P
  <2>0. i + 1 \in 1..Len(g) /\ i + 1 \in 0..Len(g) /\ (i + 1) - 1 = i
    BY <1>3
  <2>1. DeleteRounds(g, p)[i + 1] = DeleteRound(DeleteRounds(g, p)[(i + 1) - 1], p)
    BY <1>3, <2>0, DeleteRun
  <2>2. DeleteRounds(g, p)[i + 1] = DeleteRound(DeleteRounds(g, p)[i], p)
    BY <2>0, <2>1
  <2>3. Rounded(f, DeleteRounds(g, p)[i], p)
    BY <1>6, <1>8
  <2>4. Rounded(f, DeleteRound(DeleteRounds(g, p)[i], p), p)
    BY <2>3, RoundKept
  <2> QED
    BY <1>6, <2>0, <2>2, <2>4
<1>9. Rounded(f, DeleteRounds(g, p)[Len(g)], p)
  <2>1. P \in SUBSET (0..Len(g))
    BY <1>6
  <2>2. \A i \in 0..Len(g) : i \in P
    BY <1>3, <1>7, <1>8, <2>1, UpTo
  <2> QED
    BY <1>3, <1>6, <2>2
<1>10. Kept(f, DeleteRounds(g, p)[Len(g)], {p})
  BY <1>9 DEF Rounded
<1>11. OpKept(f, Ok(DeleteRounds(g, p)[Len(g)]), {p})
  BY <1>10, OkKept
<1> QED
  BY <1>2, <1>11, RefusedKept

-----------------------------------------------------------------------------
(* What is in force of a package are its own rules.                        *)
LEMMA AffinityKept ==
  ASSUME NEW f, NEW g, NEW N, Kept(f, g, N), NEW p \in Names \ N
  PROVE  Affinity(g)[p] = Affinity(f)[p]
<1> DEFINE Cpus_(S, t) == UNION {r.cpus : r \in {r \in S : r.pkg = p /\ r.thread = t}}
<1>1. ASSUME NEW h
      PROVE  Affinity(h)[p] = [t \in Names \cup {NoName} |-> Cpus_(Other(Read(h), N), t)]
  <2>1. Affinity(h)[p] = [t \in Names \cup {NoName} |-> Cpus_(Rules(h), t)]
    BY DEF Affinity
  <2>2. \A t : {r \in Rules(h) : r.pkg = p /\ r.thread = t}
                = {r \in Other(Read(h), N) : r.pkg = p /\ r.thread = t}
    BY DEF Other, Rules
  <2>3. \A t : Cpus_(Rules(h), t) = Cpus_(Other(Read(h), N), t)
    BY <2>2
  <2> HIDE DEF Cpus_
  <2> QED
    BY <2>1, <2>3
<1> HIDE DEF Cpus_
<1> QED
  BY <1>1 DEF Kept

LEMMA AnswerKept ==
  ASSUME NEW req, NEW result, Answer(req, result), loaded = Affinity(file),
         OpKept(file, result, Named(req))
  PROVE  NothingElse /\ loaded' = Affinity(file')
<1>1. CASE result.answer = "ok" /\ file' = result.file /\ loaded' = Affinity(file')
           /\ last' = [req |-> req, answer |-> "ok"]
  <2>1. Kept(file, file', Named(req)) /\ last'.req = req
    BY <1>1 DEF OpKept
  <2>2. \A p \in Names \ Named(req) : Affinity(file')[p] = Affinity(file)[p]
    BY <2>1, AffinityKept
  <2> QED
    BY <1>1, <2>1, <2>2 DEF NothingElse
<1>2. CASE UNCHANGED <<file, loaded>> /\ last'.req = req
  BY <1>2 DEF NothingElse
<1> QED
  BY <1>1, <1>2 DEF Answer

LEMMA AnswersReq ==
  ASSUME NEW req, NEW result, Answer(req, result)
  PROVE  last'.req = req
BY DEF Answer

(* Every request keeps the rules of the packages that it does not name.    *)
LEMMA RequestKept ==
  ASSUME file \in Seq(Lines), loaded = Affinity(file), ~Trap(file), ~Stray(file), Next,
         \A x \in Named(last'.req) : ~Shut(file, x)
  PROVE  NothingElse
<1>0. Pkgs \subseteq Names /\ NewSpecs \subseteq Specs
  BY SpecsAssumption DEF Names
<1> PICK p \in Pkgs :
      \/ \E t \in Threads \cup {NoName}, c \in NewSpecs : Upsert(p, t, c)
      \/ \E t \in Threads \cup {NoName} : Delete(p, t)
      \/ DeletePkg(p)
      \/ \E q \in Pkgs \ {p} :
           Rename(p, q) \/ \E kinds \in (SUBSET {"pkg", "thr"}) \ {{}} : Clone(p, q, kinds)
  BY DEF Next
<1>1. p \in Names
  BY <1>0
<1>2. ASSUME NEW t \in Threads \cup {NoName}, NEW c \in NewSpecs, Upsert(p, t, c)
      PROVE  NothingElse
  <2> PICK req : req = [op |-> "upsert", pkg |-> p, thread |-> t, cpus |-> c]
    OBVIOUS
  <2>1. Named(req) = {p}
    BY DEF Named
  <2>2. Answer(req, RuleUpsert(file, p, t, c))
    BY <1>2 DEF Upsert
  <2>3. ~Shut(file, p)
    BY <2>1, <2>2, AnswersReq
  <2>4. OpKept(file, RuleUpsert(file, p, t, c), {p})
    BY <1>0, <1>1, <2>3, UpsertKept
  <2> QED
    BY <2>1, <2>2, <2>4, AnswerKept
<1>3. ASSUME NEW t \in Threads \cup {NoName}, Delete(p, t) PROVE NothingElse
  <2> PICK req : req = [op |-> "delete", pkg |-> p, thread |-> t]
    OBVIOUS
  <2>1. Named(req) = {p}
    BY DEF Named
  <2>2. Answer(req, RuleDelete(file, p, t))
    BY <1>3 DEF Delete
  <2>3. ~Shut(file, p)
    BY <2>1, <2>2, AnswersReq
  <2>4. OpKept(file, RuleDelete(file, p, t), {p})
    BY <1>1, <2>3, DeleteKept
  <2> QED
    BY <2>1, <2>2, <2>4, AnswerKept
<1>4. ASSUME DeletePkg(p) PROVE NothingElse
  <2> PICK req : req = [op |-> "deleteAll", pkg |-> p]
    OBVIOUS
  <2>1. Named(req) = {p}
    BY DEF Named
  <2>2. Answer(req, RuleDeletePkg(file, p))
    BY <1>4 DEF DeletePkg
  <2>3. ~Shut(file, p)
    BY <2>1, <2>2, AnswersReq
  <2>4. OpKept(file, RuleDeletePkg(file, p), {p})
    BY <1>1, <2>3, DeletePkgKept
  <2> QED
    BY <2>1, <2>2, <2>4, AnswerKept
<1>5. ASSUME NEW q \in Pkgs \ {p}, Rename(p, q) PROVE NothingElse
  <2> PICK req : req = [op |-> "rename", pkg |-> p, to |-> q]
    OBVIOUS
  <2>1. Named(req) = {p, q}
    BY DEF Named
  <2>2. Answer(req, RuleRename(file, p, q))
    BY <1>5 DEF Rename
  <2>3. ~Shut(file, p) /\ ~Shut(file, q)
    BY <2>1, <2>2, AnswersReq
  <2>4. OpKept(file, RuleRename(file, p, q), {p, q})
    BY <1>0, <1>1, <2>3, RenameKept
  <2> QED
    BY <2>1, <2>2, <2>4, AnswerKept
<1>6. ASSUME NEW q \in Pkgs \ {p}, NEW kinds, Clone(p, q, kinds) PROVE NothingElse
  <2> PICK req : req = [op |-> "clone", pkg |-> p, to |-> q, kinds |-> kinds]
    OBVIOUS
  <2>1. Named(req) = {p, q}
    BY DEF Named
  <2>2. Answer(req, RuleClone(file, p, q, kinds))
    BY <1>6 DEF Clone
  <2>3. ~Shut(file, p) /\ ~Shut(file, q)
    BY <2>1, <2>2, AnswersReq
  <2>4. OpKept(file, RuleClone(file, p, q, kinds), {p, q})
    BY <1>0, <1>1, <2>3, CloneKept
  <2> QED
    BY <2>1, <2>2, <2>4, AnswerKept
<1> QED
  BY <1>2, <1>3, <1>4, <1>5, <1>6

(* The rules in force are those of the file.                               *)
InForce == loaded = Affinity(file)

LEMMA NextAnswers ==
  ASSUME Next
  PROVE  \E req, result : Answer(req, result)
BY DEF Next, Upsert, Delete, DeletePkg, Rename, Clone

(* A request never touches the rules of a package it does not name, on     *)
(* whatever file, broken ones included, as long as no brace stands alone   *)
(* without a name, no package line hides a brace behind its comment, and   *)
(* no single line of a package it names has a closing brace behind.        *)
THEOREM EditOthersKept == Spec => OthersKept
<1>1. Init => InForce
  BY DEF Init, InForce
<1>2. InForce /\ [Next]_vars => InForce'
  <2> SUFFICES ASSUME loaded = Affinity(file), [Next]_vars PROVE loaded' = Affinity(file')
    BY DEF InForce
  <2>1. CASE Next
    <3> PICK req, result : Answer(req, result)
      BY <2>1, NextAnswers
    <3> QED
      BY DEF Answer
  <2>2. CASE UNCHANGED vars
    BY <2>2 DEF vars
  <2> QED
    BY <2>1, <2>2
<1>3. TypeOK /\ InForce /\ [Next]_vars
        => [~Trap(file) /\ ~Stray(file) /\ (\A p \in Named(last'.req) : ~Shut(file, p))
              => NothingElse]_vars
  BY RequestKept DEF TypeOK, InForce, vars
<1> QED
  BY <1>1, <1>2, <1>3, EditTypes, PTL DEF Spec, OthersKept
=============================================================================
