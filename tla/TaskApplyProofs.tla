-------------------------- MODULE TaskApplyProofs ---------------------------
(***************************************************************************)
(* What holds of the texts of sets of CPUs for every width and number of   *)
(* words, and of the tasks of the app for any rules, tuning documents,     *)
(* names and CPUs: the memory group they are in, the CPUs and cpusets they *)
(* have, the names worker 2's CPUs are for, and the nice value and clamps  *)
(* they are given.                                                         *)
(*                                                                         *)
(* Texts and merged rules are made by folds.  What a fold has come to is   *)
(* followed number by number: a set of numbers with 0 and every successor  *)
(* in it is all of Nat.                                                    *)
(***************************************************************************)
EXTENDS TaskApply, WellFoundedInduction, FiniteSetTheorems, TLAPS

-----------------------------------------------------------------------------
(* Numbers.                                                                *)

(* Every set of numbers has a least one.                                   *)
LEMMA NatMin ==
  ASSUME NEW S \in SUBSET Nat, S # {}
  PROVE  \E n \in S : \A m \in S : n <= m
<1> DEFINE R == {ss \in Nat \X Nat : ss[1] < ss[2]}
<1>1. IsWellFoundedOn(R, Nat)
  BY NatLessThanWellFounded DEF OpToRel
<1>2. ASSUME NEW m \in Nat, NEW n \in Nat, m < n PROVE <<m, n>> \in R
  <2>1. <<m, n>>[1] = m /\ <<m, n>>[2] = n /\ <<m, n>> \in Nat \X Nat
    OBVIOUS
  <2> QED BY <1>2, <2>1
<1> HIDE DEF R
<1>3. PICK n \in S : \A m \in S : ~(<<m, n>> \in R)
  BY <1>1, WFMin
<1>4. ASSUME NEW m \in S PROVE n <= m
  <2>1. n \in Nat /\ m \in Nat
    OBVIOUS
  <2>2. ~(<<m, n>> \in R)
    BY <1>3
  <2>3. ~(m < n)
    BY <2>1, <2>2, <1>2
  <2> QED BY <2>1, <2>3
<1> QED BY <1>4

(* Induction over a set of numbers.                                        *)
LEMMA NatSet ==
  ASSUME NEW P \in SUBSET Nat, 0 \in P, \A k \in P : k + 1 \in P
  PROVE  P = Nat
<1> SUFFICES ASSUME Nat \ P # {} PROVE FALSE
  OBVIOUS
<1> DEFINE S == Nat \ P
<1>1. PICK n \in S : \A m \in S : n <= m
  <2>1. S \in SUBSET Nat /\ S # {}
    OBVIOUS
  <2> HIDE DEF S
  <2> QED
    BY <2>1, NatMin
<1>2. n - 1 \in Nat /\ n - 1 \notin S
  BY <1>1
<1> QED
  BY <1>2

LEMMA MaxOf ==
  ASSUME NEW n \in Nat, NEW S \in SUBSET (0..n), S # {}
  PROVE  Max(S) \in S /\ \A m \in S : m <= Max(S)
<1> DEFINE T == {n - m : m \in S}
<1>1. T \in SUBSET Nat /\ T # {}
  <2>1. \A m \in S : n - m \in Nat
    OBVIOUS
  <2>2. T \in SUBSET Nat
    BY <2>1
  <2>3. T # {}
    BY Zenon
  <2> QED
    BY <2>2, <2>3
<1>2. PICK k \in T : \A m \in T : k <= m
  BY <1>1, NatMin
<1>3. PICK x \in S : k = n - x
  OBVIOUS
<1>4. \A y \in S : x >= y
  <2> SUFFICES ASSUME NEW y \in S PROVE x >= y
    OBVIOUS
  <2>1. n - y \in T /\ x \in Int /\ y \in Int
    OBVIOUS
  <2> HIDE DEF T
  <2> QED
    BY <1>2, <1>3, <2>1
<1>5. Max(S) \in S /\ \A y \in S : Max(S) >= y
  BY <1>4 DEF Max
<1> HIDE DEF T
<1>6. PICK z : z = Max(S)
  OBVIOUS
<1>7. z \in S /\ \A y \in S : z >= y
  BY <1>5, <1>6
<1>8. ASSUME NEW y \in S PROVE y <= z
  <2>1. y \in Int /\ z \in Int /\ z >= y
    BY <1>7
  <2> QED
    BY <2>1
<1> QED
  BY <1>6, <1>7, <1>8

(* What is computed by taking one number of a set after the other, the     *)
(* lowest first, is a function of the subset taken.                        *)
Steps(X, S) == [X -> [S -> X]]

IsFold(g, start, op, S) ==
  \A s \in SUBSET S : g[s] = IF s = {} THEN start ELSE op[g[s \ {Max(s)}]][Max(s)]

LEMMA InOrder ==
  ASSUME NEW n \in Nat, NEW S \in SUBSET (0..n), NEW X, NEW start \in X,
         NEW op, op \in Steps(X, S)
  PROVE  \E g \in [SUBSET S -> X] : IsFold(g, start, op, S)
<1> USE DEF Steps
<1> DEFINE Below(m) == {k \in S : k < m}
           Step(g, s) == g[s] = IF s = {} THEN start ELSE op[g[s \ {Max(s)}]][Max(s)]
           Good(D) == \E g \in [SUBSET D -> X] : \A s \in SUBSET D : Step(g, s)
           P == {m \in Nat : Good(Below(m))}
<1>0. \A k \in S : k \in Int /\ k >= 0 /\ k < n + 1
  OBVIOUS
<1>1. 0 \in P
  <2> DEFINE g == [s \in SUBSET {} |-> start]
  <2>1. g \in [SUBSET {} -> X] /\ \A s \in SUBSET {} : Step(g, s)
    OBVIOUS
  <2>2. Good({})
    BY <2>1
  <2>3. Below(0) = {}
    <3>1. \A k \in S : ~(k < 0)
      BY <1>0
    <3> QED
      BY <3>1, Zenon
  <2> HIDE DEF Good, Below
  <2> QED
    BY <2>2, <2>3
<1>2. ASSUME NEW m \in P PROVE m + 1 \in P
  <2>1. PICK g \in [SUBSET Below(m) -> X] : \A s \in SUBSET Below(m) : Step(g, s)
    OBVIOUS
  <2>m. m \in Nat
    OBVIOUS
  <2>2. Below(m) = Below(m + 1) \ {m} /\ m \in Nat
    <3>1. \A k \in S : k < m + 1 <=> k < m \/ k = m
      BY <1>0, <2>m
    <3>2. m \in S => m < m + 1
      BY <2>m
    <3>3. \A k \in S : k < m => k # m
      BY <1>0, <2>m
    <3> QED
      BY <2>m, <3>1, <3>2, <3>3, Zenon
  <2> DEFINE D == Below(m + 1)
             h == [s \in SUBSET D |-> IF m \in s THEN op[g[s \ {m}]][m] ELSE g[s]]
  <2>3. ASSUME NEW s \in SUBSET D PROVE h[s] \in X /\ Step(h, s)
    <3>1. CASE m \in s
      <4>1. s \in SUBSET (0..m) /\ m \in S
        <5>1. \A k \in s : k \in Int /\ k >= 0 /\ k < m + 1
          OBVIOUS
        <5> QED
          BY <2>m, <3>1, <5>1
      <4>2. PICK z : z = Max(s)
        OBVIOUS
      <4>3. z \in s /\ m <= z
        BY <2>2, <3>1, <4>1, <4>2, MaxOf
      <4>4. z \in 0..m
        BY <4>1, <4>3
      <4>5. Max(s) = m
        BY <2>m, <4>2, <4>3, <4>4
      <4>6. s \ {m} \in SUBSET Below(m) /\ s \ {m} \in SUBSET D /\ m \notin s \ {m}
        BY <2>2
      <4> HIDE DEF D, Below
      <4>7. h[s] = op[g[s \ {m}]][m] /\ h[s \ {m}] = g[s \ {m}]
        BY <3>1, <4>6
      <4>8. g[s \ {m}] \in X
        BY <2>1, <4>6
      <4>9. h[s] \in X
        BY <4>1, <4>7, <4>8
      <4> HIDE DEF h
      <4> QED
        BY <3>1, <4>5, <4>7, <4>9
    <3>2. CASE m \notin s
      <4>1. s \in SUBSET Below(m)
        BY <2>2, <3>2
      <4>2. s \ {Max(s)} \in SUBSET Below(m) /\ s \ {Max(s)} \in SUBSET D /\ m \notin s \ {Max(s)}
        BY <4>1, <3>2
      <4> HIDE DEF D, Below
      <4>3. h[s] = g[s] /\ h[s \ {Max(s)}] = g[s \ {Max(s)}]
        BY <3>2, <4>2
      <4>4. Step(g, s) /\ g[s] \in X
        BY <2>1, <4>1
      <4> HIDE DEF h
      <4> QED
        BY <4>3, <4>4
    <3> QED BY <3>1, <3>2
  <2> HIDE DEF Step
  <2>4. h \in [SUBSET D -> X] /\ \A s \in SUBSET D : Step(h, s)
    BY <2>3
  <2> HIDE DEF h
  <2>5. Good(D)
    BY <2>4
  <2> HIDE DEF Good
  <2> QED
    BY <2>2, <2>5
<1> HIDE DEF Good, Below
<1>3. P \in SUBSET Nat
  OBVIOUS
<1>4. P = Nat
  <2> HIDE DEF P
  <2> QED
    BY <1>1, <1>2, <1>3, NatSet
<1>5. Good(Below(n + 1))
  BY <1>4
<1>6. Below(n + 1) = S
  BY <1>0 DEF Below
<1> QED
  BY <1>5, <1>6 DEF Good, IsFold

(* The subsets that are taken one after the other.                         *)
LEMMA TakeNext ==
  ASSUME NEW n \in Nat, NEW S \in SUBSET (0..n), NEW m \in Nat
  PROVE  LET Below(k) == {i \in S : i < k} IN
         /\ m \notin S => Below(m + 1) = Below(m)
         /\ m \in S => /\ Below(m + 1) # {} /\ Max(Below(m + 1)) = m
                       /\ Below(m + 1) \ {m} = Below(m)
<1> DEFINE Below(k) == {i \in S : i < k}
<1>1. \A i \in S : i \in Int /\ i >= 0
  OBVIOUS
<1>2. \A i \in S : i < m + 1 <=> i < m \/ i = m
  BY <1>1
<1>3. \A i \in S : i < m => i # m
  BY <1>1
<1>4. m \in S => m < m + 1
  OBVIOUS
<1>5. m \notin S => Below(m + 1) = Below(m)
  BY <1>2, Zenon
<1>6. ASSUME m \in S PROVE Max(Below(m + 1)) = m
  <2>1. PICK z : z = Max(Below(m + 1))
    OBVIOUS
  <2>2. Below(m + 1) \in SUBSET (0..m) /\ m \in Below(m + 1)
    <3>1. \A i \in S : i < m + 1 => i \in 0..m
      BY <1>1
    <3> QED
      BY <1>4, <1>6, <3>1, Zenon
  <2>3. z \in Below(m + 1) /\ m <= z
    BY <2>1, <2>2, MaxOf
  <2>4. z \in 0..m
    BY <2>2, <2>3
  <2> QED
    BY <2>1, <2>3, <2>4
<1>7. m \in S => Below(m + 1) # {} /\ Below(m + 1) \ {m} = Below(m)
  BY <1>2, <1>3, <1>4, Zenon
<1> QED
  BY <1>5, <1>6, <1>7

-----------------------------------------------------------------------------
(* What to_range_string has written, and the range that it extends.        *)
Parts == {<<a>> : a \in Nat} \cup (Nat \X Nat)
Texts == [out : Seq(Parts), open : {<<>>} \cup (Nat \X Nat)]

LEMMA PushText == ASSUME NEW r \in Texts PROVE Push(r) \in Texts
<1>1. CASE r.open = <<>>
  <2>1. Push(r) = r
    BY <1>1 DEF Push
  <2> QED
    BY <2>1
<1>2. CASE r.open # <<>> /\ r.open[1] = r.open[2]
  <2>1. Push(r) = [out |-> Append(r.out, <<r.open[1]>>), open |-> <<>>]
    BY <1>2 DEF Push
  <2>2. r.open \in Nat \X Nat
    BY <1>2 DEF Texts
  <2>3. <<r.open[1]>> \in Parts
    BY <2>2 DEF Parts
  <2>4. Append(r.out, <<r.open[1]>>) \in Seq(Parts)
    BY <2>3 DEF Texts
  <2> QED
    BY <2>1, <2>4 DEF Texts
<1>3. CASE r.open # <<>> /\ r.open[1] # r.open[2]
  <2>1. Push(r) = [out |-> Append(r.out, r.open), open |-> <<>>]
    BY <1>3 DEF Push
  <2>2. r.open \in Parts
    BY <1>3 DEF Texts, Parts
  <2> QED
    BY <2>1, <2>2 DEF Texts
<1> QED
  BY <1>1, <1>2, <1>3

(* What AddCpu does, with the range taken apart.                           *)
LEMMA AddCpuText ==
  ASSUME NEW r \in Texts, NEW cpu \in Nat
  PROVE  /\ AddCpu(r, cpu) \in Texts
         /\ Extends(r, cpu) => AddCpu(r, cpu) = [out |-> r.out, open |-> <<r.open[1], cpu>>]
         /\ ~Extends(r, cpu) => AddCpu(r, cpu) = [out |-> Push(r).out, open |-> <<cpu, cpu>>]
<1>1. ASSUME Extends(r, cpu)
      PROVE  /\ AddCpu(r, cpu) \in Texts
             /\ AddCpu(r, cpu) = [out |-> r.out, open |-> <<r.open[1], cpu>>]
  <2>1. r.open \in Nat \X Nat
    BY <1>1 DEF Extends, Texts
  <2>2. [r.open EXCEPT ![2] = cpu] = <<r.open[1], cpu>>
    BY <2>1
  <2>3. AddCpu(r, cpu) = [r EXCEPT !.open = [r.open EXCEPT ![2] = cpu]]
    BY <1>1 DEF AddCpu
  <2> QED
    BY <2>1, <2>2, <2>3 DEF Texts
<1>2. ASSUME ~Extends(r, cpu)
      PROVE  /\ AddCpu(r, cpu) \in Texts
             /\ AddCpu(r, cpu) = [out |-> Push(r).out, open |-> <<cpu, cpu>>]
  BY <1>2, PushText DEF AddCpu, Texts
<1> QED
  BY <1>1, <1>2

(* st[m] is what AddCpus makes of the CPUs of S below m.                   *)
CpuByCpu(st, r, S, n) ==
  /\ st[0] = r /\ st[n + 1] = AddCpus(r, S)
  /\ \A m \in Nat : st[m + 1] = IF m \in S THEN AddCpu(st[m], m) ELSE st[m]

LEMMA CpusInOrder ==
  ASSUME NEW n \in Nat, NEW S \in SUBSET (0..n), NEW r \in Texts
  PROVE  \E st \in [Nat -> Texts] : CpuByCpu(st, r, S, n)
<1> DEFINE F(it) == [s \in SUBSET S |-> IF s = {} THEN r ELSE AddCpu(it[s \ {Max(s)}], Max(s))]
           it == CHOOSE it : it = F(it)
           op == [x \in Texts |-> [i \in S |-> AddCpu(x, i)]]
           Below(k) == {i \in S : i < k}
           st == [m \in Nat |-> it[Below(m)]]
<1>1. AddCpus(r, S) = it[S]
  BY DEF AddCpus, Ascending, MapThenFoldSet
<1>2. \E g : g = F(g)
  <2>1. op \in Steps(Texts, S)
    BY AddCpuText DEF Steps
  <2>2. \A x \in Texts, i \in S : op[x][i] = AddCpu(x, i)
    OBVIOUS
  <2> HIDE DEF op
  <2>3. PICK g \in [SUBSET S -> Texts] : IsFold(g, r, op, S)
    BY <2>1, InOrder
  <2>5. ASSUME NEW s \in SUBSET S PROVE g[s] = IF s = {} THEN r ELSE AddCpu(g[s \ {Max(s)}], Max(s))
    <3>1. s # {} => Max(s) \in S
      BY MaxOf
    <3> QED
      BY <2>2, <2>3, <3>1 DEF IsFold
  <2> QED
    BY <2>5
<1>3. it = F(it)
  BY <1>2
<1> HIDE DEF it
<1>4. \A m \in Nat : Below(m) \in SUBSET S /\ st[m] = it[Below(m)]
  OBVIOUS
<1>5. st[0] = r
  <2>1. \A k \in S : ~(k < 0)
    OBVIOUS
  <2>2. Below(0) = {}
    BY <2>1, Zenon
  <2> HIDE DEF Below, st
  <2> QED
    BY <1>3, <1>4, <2>2
<1>6. st[n + 1] = it[S]
  <2>1. \A k \in S : k < n + 1
    OBVIOUS
  <2>2. Below(n + 1) = S
    BY <2>1
  <2> HIDE DEF Below, st
  <2> QED
    BY <1>4, <2>2
<1>7. ASSUME NEW m \in Nat PROVE st[m + 1] = IF m \in S THEN AddCpu(st[m], m) ELSE st[m]
  <2>1. /\ m \notin S => Below(m + 1) = Below(m)
        /\ m \in S => /\ Below(m + 1) # {} /\ Max(Below(m + 1)) = m
                      /\ Below(m + 1) \ {m} = Below(m)
    BY TakeNext
  <2> HIDE DEF Below, st
  <2>2. st[m] = it[Below(m)] /\ st[m + 1] = it[Below(m + 1)] /\ Below(m + 1) \in SUBSET S
    BY <1>4
  <2>3. it[Below(m + 1)] = IF Below(m + 1) = {} THEN r
          ELSE AddCpu(it[Below(m + 1) \ {Max(Below(m + 1))}], Max(Below(m + 1)))
    BY <1>3, <2>2
  <2> QED
    BY <2>1, <2>2, <2>3
<1>8. st \in [Nat -> Texts]
  <2> DEFINE P == {m \in Nat : st[m] \in Texts}
  <2> HIDE DEF st
  <2>1. 0 \in P
    BY <1>5
  <2>2. ASSUME NEW m \in P PROVE m + 1 \in P
    <3>1. m \in Nat /\ m + 1 \in Nat /\ st[m] \in Texts
      OBVIOUS
    <3>2. AddCpu(st[m], m) \in Texts
      BY <3>1, AddCpuText
    <3>3. st[m + 1] = IF m \in S THEN AddCpu(st[m], m) ELSE st[m]
      BY <1>7, <3>1
    <3>4. st[m + 1] \in Texts
      BY <3>1, <3>2, <3>3
    <3> QED
      BY <3>1, <3>4
  <2>3. P = Nat
    <3>1. P \in SUBSET Nat
      OBVIOUS
    <3> HIDE DEF P
    <3> QED
      BY <2>1, <2>2, <3>1, NatSet
  <2>4. \A m \in Nat : st[m] \in Texts
    BY <2>3
  <2> QED
    BY <2>4 DEF st
<1> HIDE DEF st
<1> QED
  BY <1>1, <1>5, <1>6, <1>7, <1>8 DEF CpuByCpu

-----------------------------------------------------------------------------
(* T is written, up to but without p: the ranges are in order, no two of   *)
(* them touch, and only the open one may touch what comes next.            *)
Low(part) == part[1]
High(part) == part[Len(part)]

Written(r, T, p) ==
  /\ r \in Texts /\ p \in Nat
  /\ \A i \in 1..Len(r.out) : Low(r.out[i]) <= High(r.out[i])
  /\ \A i \in 1..Len(r.out) - 1 : High(r.out[i]) + 1 < Low(r.out[i + 1])
  /\ r.open # <<>> => /\ r.open[1] <= r.open[2] /\ r.open[2] < p
                      /\ Len(r.out) > 0 => High(r.out[Len(r.out)]) + 1 < r.open[1]
  /\ r.open = <<>> /\ Len(r.out) > 0 => High(r.out[Len(r.out)]) + 1 < p
  /\ \A c \in Nat : c \in T <=> \/ \E i \in 1..Len(r.out) : Low(r.out[i]) <= c /\ c <= High(r.out[i])
                                \/ r.open # <<>> /\ r.open[1] <= c /\ c <= r.open[2]

LEMMA PartEnds ==
  /\ \A part \in Parts : Low(part) \in Nat /\ High(part) \in Nat
  /\ \A a \in Nat : Low(<<a>>) = a /\ High(<<a>>) = a
  /\ \A part \in Nat \X Nat : Low(part) = part[1] /\ High(part) = part[2]
BY DEF Parts, Low, High

LEMMA WrittenFurther ==
  ASSUME NEW r, NEW T, NEW p, Written(r, T, p), NEW q \in Nat, p <= q
  PROVE  Written(r, T, q)
<1>1. r \in Texts /\ p \in Nat
  BY DEF Written
<1>2. r.open # <<>> => r.open \in Nat \X Nat
  BY <1>1 DEF Texts
<1>3. Len(r.out) > 0 => r.out[Len(r.out)] \in Parts
  BY <1>1 DEF Texts
<1> QED
  BY <1>1, <1>2, <1>3, PartEnds DEF Written

(* The open range is closed: what is written stays the same, and does not  *)
(* touch a number that is not the next.                                    *)
LEMMA PushWritten ==
  ASSUME NEW r, NEW T, NEW p, Written(r, T, p), NEW q \in Nat, p <= q,
         r.open # <<>> => r.open[2] + 1 < q
  PROVE  Written(Push(r), T, q) /\ Push(r).open = <<>>
<1>1. r \in Texts /\ p \in Nat
  BY DEF Written
<1>2. CASE r.open = <<>>
  BY <1>2, WrittenFurther DEF Push
<1>3. CASE r.open # <<>>
  <2>1. r.open \in Nat \X Nat /\ r.out \in Seq(Parts)
    BY <1>1, <1>3 DEF Texts
  <2>2. PICK part \in Parts : /\ Push(r) = [out |-> Append(r.out, part), open |-> <<>>]
                              /\ Low(part) = r.open[1] /\ High(part) = r.open[2]
    <3>1. CASE r.open[1] = r.open[2]
      <4>1. Push(r) = [out |-> Append(r.out, <<r.open[1]>>), open |-> <<>>]
        BY <1>3, <3>1 DEF Push
      <4>2. <<r.open[1]>> \in Parts /\ Low(<<r.open[1]>>) = r.open[1] /\ High(<<r.open[1]>>) = r.open[1]
        BY <2>1, PartEnds DEF Parts
      <4> QED
        BY <3>1, <4>1, <4>2
    <3>2. CASE r.open[1] # r.open[2]
      <4>1. Push(r) = [out |-> Append(r.out, r.open), open |-> <<>>]
        BY <1>3, <3>2 DEF Push
      <4>2. r.open \in Parts
        BY <2>1 DEF Parts
      <4> QED
        BY <2>1, <4>1, <4>2, PartEnds
    <3> QED
      BY <3>1, <3>2
  <2> DEFINE out == Append(r.out, part)
             n == Len(r.out)
  <2>3. /\ n \in Nat /\ Len(out) = n + 1 /\ out[n + 1] = part
        /\ \A i \in 1..n : out[i] = r.out[i]
    BY <2>1
  <2>p. Push(r) = [out |-> out, open |-> <<>>] /\ Push(r) \in Texts
    BY <1>1, <2>2, PushText
  <2>4. Push(r).out = out /\ Push(r).open = <<>> /\ Push(r) \in Texts
    <3> HIDE DEF out
    <3> QED
      BY <2>p
  <2>5. Low(part) \in Nat /\ High(part) \in Nat
    BY PartEnds
  <2> HIDE DEF out, n
  <2>6. \A i \in 1..n + 1 : Low(out[i]) <= High(out[i])
    BY <1>3, <2>2, <2>3 DEF Written, n
  <2>7. \A i \in 1..n : High(out[i]) + 1 < Low(out[i + 1])
    <3> SUFFICES ASSUME NEW i \in 1..n PROVE High(out[i]) + 1 < Low(out[i + 1])
      OBVIOUS
    <3>1. CASE i = n
      BY <1>3, <2>2, <2>3, <3>1 DEF Written, n
    <3>2. CASE i # n
      BY <2>3, <3>2 DEF Written, n
    <3> QED
      BY <3>1, <3>2
  <2>8. \A c \in Nat : c \in T <=> \E i \in 1..n + 1 : Low(out[i]) <= c /\ c <= High(out[i])
    <3> SUFFICES ASSUME NEW c \in Nat
                 PROVE  c \in T <=> \E i \in 1..n + 1 : Low(out[i]) <= c /\ c <= High(out[i])
      OBVIOUS
    <3>1. c \in T <=> \/ \E i \in 1..n : Low(r.out[i]) <= c /\ c <= High(r.out[i])
                      \/ Low(part) <= c /\ c <= High(part)
      BY <1>3, <2>2 DEF Written, n
    <3>2. \A i : i \in 1..n + 1 <=> i \in 1..n \/ i = n + 1
      BY <2>3
    <3> QED
      BY <2>3, <3>1, <3>2
  <2>9. High(out[n + 1]) + 1 < q
    BY <1>3, <2>2, <2>3
  <2> QED
    BY <2>3, <2>4, <2>6, <2>7, <2>8, <2>9 DEF Written
<1> QED
  BY <1>2, <1>3

(* A CPU above those written joins the open range or begins another.       *)
LEMMA AddWritten ==
  ASSUME NEW r, NEW T, NEW p, Written(r, T, p), NEW cpu \in Nat, p <= cpu
  PROVE  Written(AddCpu(r, cpu), T \cup {cpu}, cpu + 1)
<1> DEFINE t == AddCpu(r, cpu)
<1>1. r \in Texts /\ p \in Nat
  BY DEF Written
<1>2. /\ t \in Texts
      /\ Extends(r, cpu) => t = [out |-> r.out, open |-> <<r.open[1], cpu>>]
      /\ ~Extends(r, cpu) => t = [out |-> Push(r).out, open |-> <<cpu, cpu>>]
  BY <1>1, AddCpuText
<1> HIDE DEF t
<1>3. CASE Extends(r, cpu)
  <2>1. r.open # <<>> /\ r.open \in Nat \X Nat /\ cpu = r.open[2] + 1
    BY <1>1, <1>3 DEF Extends, Texts
  <2>a. t.out = r.out /\ t.open = <<r.open[1], cpu>>
    BY <1>2, <1>3
  <2>2. t.out = r.out /\ t.open = <<r.open[1], cpu>> /\ t.open # <<>>
    BY <2>a
  <2>3. t.open[1] = r.open[1] /\ t.open[2] = cpu
    BY <2>2
  <2>4. \A c \in Nat : c \in T \cup {cpu} <=>
          \/ \E i \in 1..Len(t.out) : Low(t.out[i]) <= c /\ c <= High(t.out[i])
          \/ t.open # <<>> /\ t.open[1] <= c /\ c <= t.open[2]
    <3> SUFFICES ASSUME NEW c \in Nat
                 PROVE  c \in T \cup {cpu} <=>
                          \/ \E i \in 1..Len(r.out) : Low(r.out[i]) <= c /\ c <= High(r.out[i])
                          \/ r.open[1] <= c /\ c <= cpu
      BY <2>2, <2>3
    <3>1. c \in T <=> \/ \E i \in 1..Len(r.out) : Low(r.out[i]) <= c /\ c <= High(r.out[i])
                      \/ r.open[1] <= c /\ c <= r.open[2]
      BY <2>1 DEF Written
    <3>2. r.open[1] <= c /\ c <= cpu <=> (r.open[1] <= c /\ c <= r.open[2]) \/ c = cpu
      BY <2>1 DEF Written
    <3> QED
      BY <3>1, <3>2
  <2>5. /\ r.open[1] <= cpu /\ cpu < cpu + 1
        /\ Len(r.out) > 0 => High(r.out[Len(r.out)]) + 1 < r.open[1]
    BY <2>1 DEF Written
  <2> QED
    BY <1>2, <2>2, <2>3, <2>4, <2>5 DEF Written, t
<1>4. CASE ~Extends(r, cpu)
  <2>1. r.open # <<>> => r.open[2] + 1 < cpu
    <3> SUFFICES ASSUME r.open # <<>> PROVE r.open[2] + 1 < cpu
      OBVIOUS
    <3>1. r.open \in Nat \X Nat /\ r.open[2] < p
      BY <1>1 DEF Written, Texts
    <3>2. cpu # r.open[2] + 1
      BY <1>4 DEF Extends
    <3> QED
      BY <1>1, <3>1, <3>2
  <2> DEFINE u == Push(r)
  <2>2. Written(u, T, cpu) /\ u.open = <<>>
    BY <2>1, PushWritten
  <2>a. t.out = u.out /\ t.open = <<cpu, cpu>>
    <3> HIDE DEF u
    <3>1. t = [out |-> u.out, open |-> <<cpu, cpu>>]
      BY <1>2, <1>4 DEF u
    <3> QED
      BY <3>1
  <2>b. <<cpu, cpu>> # <<>>
    OBVIOUS
  <2>3. t.out = u.out /\ t.open = <<cpu, cpu>> /\ t.open # <<>>
    BY <2>a, <2>b, Zenon
  <2>4. t.open[1] = cpu /\ t.open[2] = cpu
    BY <2>3
  <2> HIDE DEF u
  <2>5. \A c \in Nat : c \in T \cup {cpu} <=>
          \/ \E i \in 1..Len(t.out) : Low(t.out[i]) <= c /\ c <= High(t.out[i])
          \/ t.open # <<>> /\ t.open[1] <= c /\ c <= t.open[2]
    <3> SUFFICES ASSUME NEW c \in Nat
                 PROVE  c \in T \cup {cpu} <=>
                          \/ \E i \in 1..Len(u.out) : Low(u.out[i]) <= c /\ c <= High(u.out[i])
                          \/ cpu <= c /\ c <= cpu
      BY <2>3, <2>4
    <3>1. c \in T <=> \E i \in 1..Len(u.out) : Low(u.out[i]) <= c /\ c <= High(u.out[i])
      BY <2>2 DEF Written
    <3>2. cpu <= c /\ c <= cpu <=> c = cpu
      OBVIOUS
    <3> QED
      BY <3>1, <3>2
  <2>6. Len(u.out) > 0 => High(u.out[Len(u.out)]) + 1 < cpu
    BY <2>2 DEF Written
  <2> QED
    BY <1>2, <2>2, <2>3, <2>4, <2>5, <2>6 DEF Written, t
<1> QED
  BY <1>3, <1>4

(* The CPUs of a word from lo to hi.                                       *)
LEMMA BitsWritten ==
  ASSUME NEW r, NEW T, NEW lo \in Nat, Written(r, T, lo), NEW hi \in Nat, lo <= hi,
         NEW S \in SUBSET (lo..hi)
  PROVE  Written(AddCpus(r, S), T \cup S, hi + 1)
<1>1. r \in Texts
  BY DEF Written
<1>2. S \in SUBSET (0..hi)
  OBVIOUS
<1>a. PICK st \in [Nat -> Texts] : CpuByCpu(st, r, S, hi)
  BY <1>1, <1>2, CpusInOrder
<1>3. /\ st[0] = r /\ st[hi + 1] = AddCpus(r, S)
      /\ \A m \in Nat : st[m + 1] = IF m \in S THEN AddCpu(st[m], m) ELSE st[m]
  BY <1>a DEF CpuByCpu
<1> DEFINE Upto(m) == {c \in S : c < m}
           Far(m) == IF m < lo THEN lo ELSE m
           P == {m \in Nat : Written(st[m], T \cup Upto(m), Far(m))}
<1>4. 0 \in P
  <2>1. \A c \in S : ~(c < 0)
    OBVIOUS
  <2>2. T \cup Upto(0) = T
    BY <2>1, Zenon
  <2>3. Far(0) = lo
    OBVIOUS
  <2> HIDE DEF Upto, Far
  <2> QED
    BY <1>3, <2>2, <2>3
<1>5. ASSUME NEW m \in P PROVE m + 1 \in P
  <2>1. m \in Nat /\ Written(st[m], T \cup Upto(m), Far(m))
    OBVIOUS
  <2>2. \A c \in S : c \in Int /\ lo <= c
    OBVIOUS
  <2>3. \A c \in S : c < m + 1 <=> c < m \/ c = m
    BY <2>1, <2>2
  <2>4. Far(m) \in Nat /\ Far(m + 1) \in Nat /\ Far(m) <= Far(m + 1)
    BY <2>1
  <2>5. CASE m \in S
    <3>1. Far(m) = m /\ Far(m + 1) = m + 1 /\ m <= m
      BY <2>1, <2>2, <2>5
    <3>2. T \cup Upto(m + 1) = (T \cup Upto(m)) \cup {m}
      BY <2>3, <2>5
    <3>3. st[m + 1] = AddCpu(st[m], m)
      BY <1>3, <2>1, <2>5
    <3> HIDE DEF Upto, Far
    <3>4. Written(AddCpu(st[m], m), (T \cup Upto(m)) \cup {m}, m + 1)
      BY <2>1, <3>1, AddWritten
    <3>5. Written(st[m + 1], T \cup Upto(m + 1), Far(m + 1))
      BY <3>1, <3>2, <3>3, <3>4
    <3> QED
      BY <2>1, <3>5
  <2>6. CASE m \notin S
    <3>1. T \cup Upto(m + 1) = T \cup Upto(m)
      BY <2>3, <2>6
    <3>2. st[m + 1] = st[m]
      BY <1>3, <2>1, <2>6
    <3> HIDE DEF Upto, Far
    <3>3. Written(st[m], T \cup Upto(m), Far(m + 1))
      BY <2>1, <2>4, WrittenFurther
    <3> QED
      BY <2>1, <3>1, <3>2, <3>3
  <2> QED
    BY <2>5, <2>6
<1>6. hi + 1 \in P
  <2>1. P \in SUBSET Nat
    OBVIOUS
  <2> HIDE DEF P
  <2> QED
    BY <1>4, <1>5, <2>1, NatSet
<1>7. Upto(hi + 1) = S
  <2>1. \A c \in S : c < hi + 1
    OBVIOUS
  <2> QED
    BY <2>1
<1>8. Far(hi + 1) = hi + 1
  OBVIOUS
<1>9. Written(st[hi + 1], T \cup Upto(hi + 1), Far(hi + 1))
  BY <1>6
<1> HIDE DEF Upto, Far, P
<1> QED
  BY <1>3, <1>7, <1>8, <1>9

-----------------------------------------------------------------------------
(* The words, one after the other.                                         *)
LEMMA WordEnds ==
  ASSUME NEW i \in Nat
  PROVE  /\ i * WordBits \in Nat /\ (i + 1) * WordBits = i * WordBits + WordBits
         /\ WordBits \in Nat \ {0}
         /\ Word(i) = i * WordBits..i * WordBits + WordBits - 1
<1>1. WordBits \in Nat \ {0}
  BY WordsAssumption
<1>2. i * WordBits \in Nat /\ (i + 1) * WordBits = i * WordBits + WordBits
  BY <1>1
<1> QED
  BY <1>1, <1>2 DEF Word

LEMMA AddWordWritten ==
  ASSUME NEW S \in SUBSET Nat, NEW r, NEW T, NEW i \in Nat, Written(r, T, i * WordBits)
  PROVE  Written(AddWord(S, r, i), T \cup (S \cap Word(i)), (i + 1) * WordBits)
<1> DEFINE bits == S \cap Word(i)
<1>1. PICK lo \in Nat : lo = i * WordBits
  BY WordEnds
<1>2. /\ (i + 1) * WordBits = lo + WordBits /\ WordBits \in Nat \ {0}
      /\ Word(i) = lo..lo + WordBits - 1
  BY <1>1, WordEnds
<1>3. Written(r, T, lo)
  BY <1>1
<1>4. CASE bits = {}
  <2>1. r \in Texts /\ (r.open # <<>> => r.open \in Nat \X Nat /\ r.open[2] < lo)
    BY <1>3 DEF Written, Texts
  <2>2. lo + WordBits \in Nat /\ lo <= lo + WordBits /\ (r.open # <<>> => r.open[2] + 1 < lo + WordBits)
    BY <1>2, <2>1
  <2>3. Written(Push(r), T, lo + WordBits)
    BY <1>3, <2>2, PushWritten
  <2>4. AddWord(S, r, i) = Push(r) /\ T \cup bits = T
    BY <1>4 DEF AddWord
  <2> QED
    BY <1>2, <2>3, <2>4
<1>5. CASE bits # {}
  <2>1. PICK hi : hi = lo + WordBits - 1
    OBVIOUS
  <2>2. hi \in Nat /\ lo <= hi /\ hi + 1 = lo + WordBits
    BY <1>2, <2>1
  <2>3. bits \in SUBSET (lo..hi)
    BY <1>2, <2>1
  <2>4. AddWord(S, r, i) = AddCpus(r, bits)
    BY <1>5 DEF AddWord
  <2> HIDE DEF bits
  <2>5. Written(AddCpus(r, bits), T \cup bits, hi + 1)
    BY <1>3, <2>2, <2>3, BitsWritten
  <2> QED
    BY <1>2, <2>2, <2>4, <2>5 DEF bits
<1> QED
  BY <1>4, <1>5

LEMMA AddWordText ==
  ASSUME NEW S \in SUBSET Nat, NEW r \in Texts, NEW i \in Nat
  PROVE  AddWord(S, r, i) \in Texts
<1> DEFINE bits == S \cap Word(i)
<1>1. CASE bits = {}
  BY <1>1, PushText DEF AddWord
<1>2. CASE bits # {}
  <2>1. PICK lo \in Nat : lo = i * WordBits
    BY WordEnds
  <2>a. WordBits \in Nat \ {0} /\ Word(i) = lo..lo + WordBits - 1
    BY <2>1, WordEnds
  <2>b. PICK hi \in Nat : hi = lo + WordBits - 1
    BY <2>a
  <2>2. bits \in SUBSET (0..hi)
    BY <2>a, <2>b
  <2>3. AddWord(S, r, i) = AddCpus(r, bits)
    BY <1>2 DEF AddWord
  <2> HIDE DEF bits
  <2>4. PICK st \in [Nat -> Texts] : CpuByCpu(st, r, bits, hi)
    BY <2>2, CpusInOrder
  <2> QED
    BY <2>3, <2>4 DEF CpuByCpu
<1> QED
  BY <1>1, <1>2

Nothing == [out |-> <<>>, open |-> <<>>]

LEMMA WordsInOrder ==
  ASSUME NEW S \in SUBSET Nat
  PROVE  \E st \in [0..CpuWords -> Texts] :
           /\ st[0] = Nothing /\ st[CpuWords] = AddWords(S)
           /\ \A m \in 0..CpuWords - 1 : st[m + 1] = AddWord(S, st[m], m)
<1> DEFINE W == 0..CpuWords - 1
           F(it) == [s \in SUBSET W |-> IF s = {} THEN Nothing
                                        ELSE AddWord(S, it[s \ {Max(s)}], Max(s))]
           it == CHOOSE it : it = F(it)
           op == [x \in Texts |-> [i \in W |-> AddWord(S, x, i)]]
           Below(k) == {i \in W : i < k}
           st == [m \in 0..CpuWords |-> it[Below(m)]]
<1>0. CpuWords \in Nat \ {0}
  BY WordsAssumption
<1>1. AddWords(S) = it[W]
  BY DEF AddWords, Ascending, MapThenFoldSet, Nothing
<1>w. PICK n \in Nat : n = CpuWords - 1
  BY <1>0
<1>x. W \in SUBSET (0..n) /\ \A i \in W : i \in Nat /\ i < CpuWords
  BY <1>0, <1>w
<1>n. Nothing \in Texts
  BY DEF Nothing, Texts
<1>2. \E g : g = F(g)
  <2>1. op \in Steps(Texts, W)
    BY <1>x, AddWordText DEF Steps
  <2>2. \A x \in Texts, i \in W : op[x][i] = AddWord(S, x, i)
    OBVIOUS
  <2> HIDE DEF op, W
  <2>3. PICK g \in [SUBSET W -> Texts] : IsFold(g, Nothing, op, W)
    BY <1>n, <1>x, <2>1, InOrder
  <2>4. ASSUME NEW s \in SUBSET W
        PROVE  g[s] = IF s = {} THEN Nothing ELSE AddWord(S, g[s \ {Max(s)}], Max(s))
    <3>1. s # {} => Max(s) \in W
      <4>1. s \in SUBSET (0..n)
        BY <1>x
      <4> QED
        BY <4>1, MaxOf
    <3> QED
      BY <2>2, <2>3, <3>1 DEF IsFold
  <2> QED
    BY <2>4
<1>3. it = F(it)
  BY <1>2
<1> HIDE DEF it
<1>4. \A m \in 0..CpuWords : Below(m) \in SUBSET W /\ st[m] = it[Below(m)]
  OBVIOUS
<1>5. st[0] = Nothing
  <2>1. \A k \in W : ~(k < 0)
    BY <1>x
  <2>2. Below(0) = {}
    BY <2>1, Zenon
  <2>3. 0 \in 0..CpuWords
    BY <1>0
  <2> HIDE DEF Below, st
  <2> QED
    BY <1>3, <1>4, <2>2, <2>3
<1>6. st[CpuWords] = it[W]
  <2>1. \A k \in W : k < CpuWords
    BY <1>x
  <2>2. Below(CpuWords) = W
    BY <2>1, Zenon
  <2>3. CpuWords \in 0..CpuWords
    BY <1>0
  <2> HIDE DEF Below, st
  <2> QED
    BY <1>4, <2>2, <2>3
<1>7. ASSUME NEW m \in W PROVE st[m + 1] = AddWord(S, st[m], m)
  <2>a. m \in Nat /\ m \in 0..CpuWords /\ m + 1 \in 0..CpuWords
    BY <1>0
  <2> HIDE DEF W
  <2>1. Below(m + 1) # {} /\ Max(Below(m + 1)) = m /\ Below(m + 1) \ {m} = Below(m)
    BY <1>x, <2>a, TakeNext
  <2> HIDE DEF Below, st
  <2>2. st[m] = it[Below(m)] /\ st[m + 1] = it[Below(m + 1)] /\ Below(m + 1) \in SUBSET W
    BY <1>4, <2>a
  <2>3. it[Below(m + 1)] = IF Below(m + 1) = {} THEN Nothing
          ELSE AddWord(S, it[Below(m + 1) \ {Max(Below(m + 1))}], Max(Below(m + 1)))
    BY <1>3, <2>2
  <2> QED
    BY <2>1, <2>2, <2>3
<1>8. st \in [0..CpuWords -> Texts]
  <2> DEFINE P == {m \in Nat : m \in 0..CpuWords => st[m] \in Texts}
  <2> HIDE DEF st
  <2>1. 0 \in P
    BY <1>5, <1>n
  <2>2. ASSUME NEW m \in P PROVE m + 1 \in P
    <3>1. m \in Nat /\ m + 1 \in Nat
      OBVIOUS
    <3>2. CASE m \in W
      <4>1. m \in 0..CpuWords
        BY <1>0, <3>2
      <4>2. AddWord(S, st[m], m) \in Texts
        BY <3>1, <4>1, AddWordText
      <4>3. st[m + 1] \in Texts
        BY <1>7, <3>2, <4>2
      <4> QED
        BY <3>1, <4>3
    <3>3. CASE m \notin W
      <4>1. m + 1 \notin 0..CpuWords
        BY <1>0, <3>1, <3>3
      <4> QED
        BY <3>1, <4>1
    <3> QED
      BY <3>2, <3>3
  <2>3. P = Nat
    <3>1. P \in SUBSET Nat
      OBVIOUS
    <3> HIDE DEF P
    <3> QED
      BY <2>1, <2>2, <3>1, NatSet
  <2>4. \A m \in 0..CpuWords : st[m] \in Texts
    <3>1. \A m \in 0..CpuWords : m \in Nat
      BY <1>0
    <3> QED
      BY <2>3, <3>1
  <2> QED
    BY <2>4 DEF st
<1> HIDE DEF st
<1> QED
  BY <1>1, <1>5, <1>6, <1>7, <1>8

LEMMA AddWordsWritten ==
  ASSUME NEW S \in SUBSET Cpus
  PROVE  Written(AddWords(S), S, SetSize)
<1>1. S \in SUBSET Nat
  BY DEF Cpus
<1>2. PICK st \in [0..CpuWords -> Texts] :
        /\ st[0] = Nothing /\ st[CpuWords] = AddWords(S)
        /\ \A m \in 0..CpuWords - 1 : st[m + 1] = AddWord(S, st[m], m)
  BY <1>1, WordsInOrder
<1>3. CpuWords \in Nat \ {0} /\ WordBits \in Nat \ {0}
  BY WordsAssumption
<1> DEFINE Upto(m) == {c \in S : c < m * WordBits}
           P == {m \in Nat : m <= CpuWords => Written(st[m], Upto(m), m * WordBits)}
<1>4. 0 \in P
  <2>1. 0 * WordBits = 0
    BY <1>3
  <2>2. \A c \in S : ~(c < 0)
    BY <1>1
  <2>3. Upto(0) = {}
    BY <2>1, <2>2, Zenon
  <2>4. Written(Nothing, {}, 0)
    BY DEF Written, Nothing, Texts
  <2> HIDE DEF Upto
  <2> QED
    BY <1>2, <2>1, <2>3, <2>4
<1>5. ASSUME NEW m \in P PROVE m + 1 \in P
  <2>1. m \in Nat /\ m + 1 \in Nat /\ (m <= CpuWords => Written(st[m], Upto(m), m * WordBits))
    OBVIOUS
  <2> HIDE DEF Upto
  <2>2. ASSUME m + 1 <= CpuWords PROVE Written(st[m + 1], Upto(m + 1), (m + 1) * WordBits)
    <3>1. m \in 0..CpuWords - 1 /\ m <= CpuWords
      BY <1>3, <2>1, <2>2
    <3>2. Written(AddWord(S, st[m], m), Upto(m) \cup (S \cap Word(m)), (m + 1) * WordBits)
      BY <1>1, <2>1, <3>1, AddWordWritten
    <3>3. Upto(m + 1) = Upto(m) \cup (S \cap Word(m))
      <4>1. PICK lo \in Nat : lo = m * WordBits
        BY <2>1, WordEnds
      <4>2. (m + 1) * WordBits = lo + WordBits /\ Word(m) = lo..lo + WordBits - 1
        BY <2>1, <4>1, WordEnds
      <4>3. \A c \in S : c < lo + WordBits <=> c < lo \/ c \in lo..lo + WordBits - 1
        BY <1>1, <1>3
      <4>4. Upto(m) = {c \in S : c < lo} /\ Upto(m + 1) = {c \in S : c < lo + WordBits}
        BY <4>1, <4>2 DEF Upto
      <4> QED
        BY <4>2, <4>3, <4>4
    <3>4. st[m + 1] = AddWord(S, st[m], m)
      BY <1>2, <3>1
    <3> QED
      BY <3>2, <3>3, <3>4
  <2> QED
    BY <2>1, <2>2
<1>6. CpuWords \in P
  <2>1. P \in SUBSET Nat
    OBVIOUS
  <2> HIDE DEF P
  <2> QED
    BY <1>3, <1>4, <1>5, <2>1, NatSet
<1>7. PICK size \in Nat : size = CpuWords * WordBits /\ size = SetSize
  BY <1>3 DEF SetSize
<1>8. Upto(CpuWords) = S
  <2>1. \A c \in S : c < size
    BY <1>7 DEF Cpus
  <2> QED
    BY <1>7, <2>1
<1>9. Written(st[CpuWords], Upto(CpuWords), CpuWords * WordBits)
  BY <1>3, <1>6
<1> HIDE DEF Upto, P
<1> QED
  BY <1>2, <1>7, <1>8, <1>9

-----------------------------------------------------------------------------
(* Reading: a part is read as its range, forwards or backwards.            *)
LEMMA PartReads ==
  ASSUME NEW part \in Parts, Low(part) <= High(part)
  PROVE  /\ PartCpus(part) = Cpus \cap (Low(part)..High(part))
         /\ PartCpus(Reverse(part)) = Cpus \cap (Low(part)..High(part))
<1>1. \A a \in Nat : a # Junk
  BY JunkAssumption
<1>2. CASE \E a \in Nat : part = <<a>>
  <2>1. PICK a \in Nat : part = <<a>>
    BY <1>2
  <2>2. Len(part) = 1 /\ part[1] = a /\ Low(part) = a /\ High(part) = a
    BY <2>1 DEF Low, High
  <2>3. Reverse(part) = part
    BY <2>1 DEF Reverse
  <2> QED
    BY <1>1, <2>2, <2>3 DEF PartCpus
<1>3. CASE part \in Nat \X Nat
  <2>1. PICK a \in Nat, b \in Nat : part = <<a, b>>
    BY <1>3
  <2>2. Len(part) = 2 /\ part[1] = a /\ part[2] = b /\ Low(part) = a /\ High(part) = b /\ a <= b
    BY <2>1 DEF Low, High
  <2>3. Reverse(part) = <<b, a>>
    BY <2>1 DEF Reverse
  <2>4. a..b \cup b..a = a..b
    BY <2>2
  <2> QED
    BY <1>1, <2>2, <2>3, <2>4 DEF PartCpus
<1> QED
  BY <1>2, <1>3 DEF Parts

(* For every width and number of words, every set is read back from its    *)
(* text, whichever end of a range comes first, and no ranges touch.        *)
THEOREM TextsReadBack == EveryTextReadsBack
<1> SUFFICES ASSUME NEW S \in SUBSET Cpus
             PROVE  LET text == ToRangeString[S] IN
                    /\ ParseCpuRanges(text, Cpus) = S
                    /\ ParseCpuRanges([i \in DOMAIN text |-> Reverse(text[i])], Cpus) = S
                    /\ \A i \in 1..Len(text) - 1 : text[i][Len(text[i])] + 1 < text[i + 1][1]
  BY DEF EveryTextReadsBack
<1> DEFINE r == AddWords(S)
           w == Push(r)
           text == w.out
           back == [i \in DOMAIN text |-> Reverse(text[i])]
<1>1. ToRangeString[S] = text
  BY DEF ToRangeString
<1>2. Written(r, S, SetSize)
  BY AddWordsWritten
<1> HIDE DEF r
<1>3. Written(w, S, SetSize + 1) /\ w.open = <<>>
  <2>1. r \in Texts /\ SetSize \in Nat /\ (r.open # <<>> => r.open \in Nat \X Nat /\ r.open[2] < SetSize)
    BY <1>2 DEF Written, Texts
  <2>2. SetSize + 1 \in Nat /\ SetSize <= SetSize + 1 /\ (r.open # <<>> => r.open[2] + 1 < SetSize + 1)
    BY <2>1
  <2> QED
    BY <1>2, <2>2, PushWritten
<1> HIDE DEF w
<1>4. text \in Seq(Parts) /\ DOMAIN text = 1..Len(text)
  BY <1>3 DEF Written, Texts
<1>5. \A i \in DOMAIN text : text[i] \in Parts /\ Low(text[i]) <= High(text[i])
  BY <1>3, <1>4 DEF Written
<1>6. \A c \in Nat : c \in S <=> \E i \in DOMAIN text : Low(text[i]) <= c /\ c <= High(text[i])
  BY <1>3, <1>4 DEF Written
<1>7. \A i \in 1..Len(text) - 1 : text[i][Len(text[i])] + 1 < text[i + 1][1]
  BY <1>3 DEF Written, Low, High
<1> HIDE DEF text
<1>8. ASSUME NEW t, DOMAIN t = DOMAIN text,
             \A i \in DOMAIN text : PartCpus(t[i]) = Cpus \cap (Low(text[i])..High(text[i]))
      PROVE  ParseCpuRanges(t, Cpus) = S
  <2>1. \A c : c \in ParseCpuRanges(t, Cpus) <=>
                 c \in Cpus /\ \E i \in DOMAIN text : c \in Low(text[i])..High(text[i])
    BY <1>8 DEF ParseCpuRanges
  <2>2. \A i \in DOMAIN text : Low(text[i]) \in Nat /\ High(text[i]) \in Nat
    BY <1>5, PartEnds
  <2>3. \A c \in Cpus : c \in Nat
    BY DEF Cpus
  <2>4. ASSUME NEW c PROVE c \in ParseCpuRanges(t, Cpus) <=> c \in S
    <3>1. CASE c \in Cpus
      <4>1. \A i \in DOMAIN text :
              c \in Low(text[i])..High(text[i]) <=> Low(text[i]) <= c /\ c <= High(text[i])
        BY <2>2, <2>3, <3>1
      <4> QED
        BY <1>6, <2>1, <2>3, <3>1, <4>1
    <3>2. CASE c \notin Cpus
      BY <2>1, <3>2
    <3> QED
      BY <3>1, <3>2
  <2> QED
    BY <2>4
<1>9. ParseCpuRanges(text, Cpus) = S
  BY <1>5, <1>8, PartReads
<1>10. ParseCpuRanges(back, Cpus) = S
  <2>1. DOMAIN back = DOMAIN text /\ \A i \in DOMAIN text : back[i] = Reverse(text[i])
    OBVIOUS
  <2> HIDE DEF back
  <2> QED
    BY <1>5, <1>8, <2>1, PartReads
<1> QED
  BY <1>1, <1>7, <1>9, <1>10

-----------------------------------------------------------------------------
USE CommsAssumption, WorldAssumption

-----------------------------------------------------------------------------
(* A saved document is valid and comes from the documents of the world.    *)
Saved == world \in Worlds /\ tuning \in world.docs /\ Valid(tuning)

MainStays == DOMAIN comm = Tids /\ comm[1] = Main /\ DOMAIN limit = Groups

(* The app is in its group.                                                *)
Grouped ==
  \A i \in TuningOf(tuning) : tuning.apps[i].group # No =>
    \E k \in DOMAIN tuning.groups :
      /\ tuning.groups[k].name = tuning.apps[i].group
      /\ memcg = tuning.groups[k].name /\ limit[memcg] = tuning.groups[k].limit

(* A walk is under way and has still to come to the main thread.           *)
MainToCome == 1 \in todo /\ (pc = "scan" \/ (pc = "act" /\ cur.of = "scan"))

(* A configuration made from the tuning in force knows the app if that     *)
(* does, so that its walk comes to the main thread.                        *)
GroupInv ==
  /\ Saved /\ MainStays
  /\ ~reload => (TuningOf(tuning) # {} => config.known)
  /\ ~reload /\ ~updated => MainToCome \/ Grouped

LEMMA InitGroups == Init => GroupInv
BY DEF Init, GroupInv, Saved, MainStays, Tids

(* At most one of the apps of a valid document is the app.                 *)
LEMMA OneApp ==
  ASSUME Saved, NEW i \in TuningOf(tuning)
  PROVE  App(tuning) = tuning.apps[i]
<1>1. \A j \in TuningOf(tuning) : j = i
  BY DEF Saved, Valid, TuningOf
<1>2. i <= i
  BY DEF Saved, TuningOf
<1> QED
  BY <1>1, <1>2 DEF App

(* The main thread's task puts the app into its group.                     *)
LEMMA TakeUpGroups ==
  ASSUME Saved, MainStays, NEW name, TakeUp(1, name, "scan"), UNCHANGED tuning
  PROVE  Grouped'
<1> SUFFICES ASSUME NEW i \in TuningOf(tuning), tuning.apps[i].group # No
             PROVE  \E k \in DOMAIN tuning.groups :
                      /\ tuning.groups[k].name = tuning.apps[i].group
                      /\ memcg' = tuning.groups[k].name
                      /\ limit'[memcg'] = tuning.groups[k].limit
  BY DEF Grouped, TuningOf
<1>1. App(tuning) = tuning.apps[i] /\ i \in DOMAIN tuning.apps
  BY OneApp DEF TuningOf
<1>2. PICK n \in DOMAIN tuning.groups : tuning.groups[n].name = tuning.apps[i].group
  BY <1>1 DEF Saved, Valid, GroupKnown
<1>3. MemoryGroup # {}
  BY <1>1, <1>2 DEF MemoryGroup
<1>4. PICK g \in MemoryGroup : memcg' = g.name /\ limit' = [limit EXCEPT ![g.name] = g.limit]
  BY <1>3 DEF TakeUp
<1>5. PICK k \in DOMAIN tuning.groups : g = tuning.groups[k]
  BY <1>4 DEF MemoryGroup
<1>6. g.name = tuning.apps[i].group /\ g.name \in Groups
  BY <1>1, <1>4, <1>5 DEF MemoryGroup, Saved
<1> QED
  BY <1>4, <1>5, <1>6 DEF MainStays

LEMMA NextGroups == GroupInv /\ [Next]_vars => GroupInv'
<1> SUFFICES ASSUME GroupInv, [Next]_vars PROVE GroupInv'
  OBVIOUS
<1> USE DEF kernelVars, webVars, mainVars, history
<1>1. Saved /\ MainStays
  BY DEF GroupInv
(* Steps that change neither what is asked for nor the group.              *)
<1>2. ASSUME UNCHANGED <<world, comm, memcg, limit, tuning, reload, updated, config>>,
             ~reload /\ ~updated /\ MainToCome => MainToCome'
      PROVE  GroupInv'
  BY <1>2 DEF GroupInv, Saved, MainStays, Grouped, TuningOf
<1>3. CASE UNCHANGED vars
  BY <1>2, <1>3 DEF vars, MainToCome
(* Nor do steps of worker 2, which leave the main thread its name.         *)
<1>w. ASSUME UNCHANGED <<world, memcg, limit, tuning, reload, updated, config, cur, pc, todo>>,
             NEW c, comm' = [comm EXCEPT ![2] = c]
      PROVE  GroupInv'
  <2>1. MainStays'
    BY <1>1, <1>w DEF MainStays, Tids
  <2>2. MainToCome' = MainToCome /\ Grouped' = Grouped
    BY <1>w DEF MainToCome, Grouped, TuningOf
  <2> QED
    BY <1>1, <1>w, <2>1, <2>2 DEF GroupInv, Saved, TuningOf
<1>4. ASSUME NEW c, Rename(c) PROVE GroupInv'
  BY <1>w, <1>4 DEF Rename
<1>5. CASE End \/ Begin
  BY <1>w, <1>5 DEF End, Begin
<1>6. ASSUME NEW t, NEW cs, NEW m, Displace(t, cs, m) PROVE GroupInv'
  BY <1>2, <1>6 DEF Displace, MainToCome
<1>7. ASSUME NEW t, NEW n, Renice(t, n) PROVE GroupInv'
  BY <1>2, <1>7 DEF Renice, MainToCome
<1>8. ASSUME NEW rules, EditFile(rules) PROVE GroupInv'
  BY <1>1, <1>8 DEF EditFile, GroupInv, Saved, MainStays
<1>9. ASSUME NEW doc \in world.docs, SaveTuning(doc) PROVE GroupInv'
  BY <1>1, <1>9 DEF SaveTuning, GroupInv, Saved, MainStays
<1>10. ASSUME NEW b, SetBase(b) PROVE GroupInv'
  BY <1>2, <1>10 DEF SetBase, MainToCome
<1>11. CASE CreateBase
  BY <1>1, <1>11 DEF CreateBase, GroupInv, Saved, MainStays
<1>12. CASE Reload
  <2>1. UNCHANGED <<world, comm, limit, tuning>> /\ updated'
    BY <1>12 DEF Reload
  <2>2. PICK dirOf \in RuleDirs(file) : config' = LoadConfig(dirOf)
    BY <1>12 DEF Reload
  <2>3. LoadConfig(dirOf).known = (file # <<>> \/ TuningOf(tuning) # {})
    BY DEF LoadConfig, Load
  <2>4. TuningOf(tuning) # {} => config'.known
    BY <2>2, <2>3
  <2> QED
    BY <1>1, <2>1, <2>4 DEF GroupInv, Saved, MainStays, TuningOf
<1>13. CASE Rescan
  <2>1. /\ UNCHANGED <<world, comm, memcg, limit, tuning, reload, config>>
        /\ pc' = "scan"
        /\ todo' = IF config.known THEN {t \in Tids : Alive(t)} ELSE {}
    BY <1>13 DEF Rescan
  <2>2. 1 \in Tids /\ Alive(1)
    BY <1>1 DEF MainStays, Tids, Alive
  <2>3. ~reload => MainToCome' \/ Grouped'
    BY <2>1, <2>2 DEF GroupInv, MainToCome, Grouped, TuningOf
  <2> QED
    BY <1>1, <2>1, <2>3 DEF GroupInv, Saved, MainStays, TuningOf
<1>14. CASE Fetch
  BY <1>2, <1>14 DEF Fetch, MainToCome
<1>15. CASE EndScan
  BY <1>2, <1>15 DEF EndScan, MainToCome
<1>16. CASE Sync \/ EndSync
  BY <1>2, <1>16 DEF Sync, EndSync, MainToCome
<1>17. CASE Act
  <2>1. MainToCome => MainToCome'
    BY <1>17 DEF Act, MainToCome
  <2> QED
    BY <1>2, <1>17, <2>1 DEF Act
<1>18. CASE HandleExit
  BY <1>2, <1>18 DEF HandleExit, MainToCome
<1>19. CASE HandleRename
  <2>1. CASE Cached(1)
    <3>1. TakeUp(2, Head(events), "event")
      BY <1>19, <2>1 DEF HandleRename
    <3>2. UNCHANGED <<memcg, limit, comm>>
      BY <3>1 DEF TakeUp
    <3> QED
      BY <1>2, <1>19, <3>2 DEF HandleRename, MainToCome
  <2>2. CASE ~Cached(1)
    BY <1>2, <1>19, <2>2 DEF HandleRename, MainToCome
  <2> QED
    BY <2>1, <2>2
<1>20. ASSUME NEW t \in Tids, ScanTask(t) PROVE GroupInv'
  <2>1. /\ pc = "scan" /\ t \in todo /\ todo' = todo \ {t} /\ pc' = "act"
        /\ UNCHANGED <<world, comm, tuning, reload, updated, config>>
        /\ TakeUp(t, IF Alive(t) THEN comm[t] ELSE Unnamed, "scan")
    BY <1>20 DEF ScanTask, TakeUp
  <2>2. cur'.of = "scan" /\ DOMAIN limit' = DOMAIN limit
    BY <2>1 DEF TakeUp
  <2>3. CASE t = 1
    <3>1. Grouped'
      BY <1>1, <2>1, <2>3, TakeUpGroups
    <3> QED
      BY <1>1, <2>1, <2>2, <3>1 DEF GroupInv, Saved, MainStays, TuningOf
  <2>4. CASE t # 1
    <3>1. UNCHANGED <<memcg, limit>>
      BY <2>1, <2>4 DEF TakeUp
    <3>2. MainToCome => MainToCome'
      BY <2>1, <2>2, <2>4 DEF MainToCome
    <3> QED
      BY <1>2, <2>1, <3>1, <3>2
  <2> QED
    BY <2>3, <2>4
<1>21. ASSUME NEW t \in Tids, TakeSync(t) PROVE GroupInv'
  <2>1. /\ pc = "sync" /\ UNCHANGED <<world, comm, tuning, reload, updated, config>>
        /\ TakeUp(t, cache[t].comm, "sync")
    BY <1>21 DEF TakeSync, TakeUp
  <2>2. UNCHANGED <<memcg, limit>>
    BY <2>1 DEF TakeUp
  <2> QED
    BY <1>2, <2>1, <2>2 DEF MainToCome
<1> QED
  BY <1>3, <1>4, <1>5, <1>6, <1>7, <1>8, <1>9, <1>10, <1>11, <1>12, <1>13, <1>14, <1>15,
     <1>16, <1>17, <1>18, <1>19, <1>20, <1>21 DEF Next, Device, Requests, Loop

(* Whatever is saved, renamed, ended and rescanned in between: when the    *)
(* loop is idle and no reload is due, the app is in the group that the     *)
(* tuning in force gives it, and the group has the limit given.            *)
THEOREM AppInItsGroup == Spec => []InItsGroup
<1>1. Init => GroupInv
  BY InitGroups
<1>2. GroupInv /\ [Next]_vars => GroupInv'
  BY NextGroups
<1>3. GroupInv => InItsGroup
  BY DEF GroupInv, MainToCome, Grouped, InItsGroup
<1> QED
  BY <1>1, <1>2, <1>3, PTL DEF Spec

-----------------------------------------------------------------------------
(* What the cpusets are named stands for the CPUs it was written for.      *)
THEOREM NamesReadBack == Spec => []TextReadsBack
<1>1. TextReadsBack
  BY TextsReadBack DEF TextReadsBack
<1> QED
  BY <1>1, PTL

-----------------------------------------------------------------------------
USE TopoAssumption

(* CPUs that can be set, and a directory that is named for them.           *)
Fits(e) ==
  /\ e.cpus # {} /\ e.cpus \subseteq Present
  /\ e.dir # <<>> => e.dir = ToRangeString[e.cpus]

RulesFit(c) == IsFiniteSet(DOMAIN c.rules) /\ \A i \in DOMAIN c.rules : Fits(c.rules[i])

FitInv ==
  /\ world \in Worlds /\ file \in world.files /\ base \in Bases
  /\ RulesFit(config) /\ RulesFit(cfg)
  /\ cur.tid \in Tids
  /\ cur.result # No => Fits(cur.result)
  /\ DOMAIN cache = Tids
  /\ \A t \in Tids : cache[t].cpus # No => Fits(cache[t])

LEMMA NoConfigFits == RulesFit(NoConfig)
<1>1. NoConfig.rules = <<>> /\ DOMAIN <<>> = {}
  BY DEF NoConfig
<1> QED
  BY <1>1, FS_EmptySet DEF RulesFit

LEMMA InitFits == Init => FitInv
<1> SUFFICES ASSUME Init PROVE FitInv
  OBVIOUS
<1>1. world \in Worlds /\ file \in world.files /\ base \in world.bases
  BY DEF Init
<1>2. base \in Bases
  BY <1>1
<1>3. cur.tid \in Tids /\ cur.result = No
  BY DEF Init, Nobody, Tids
<1>4. DOMAIN cache = Tids /\ \A t \in Tids : cache[t].cpus = No
  BY DEF Init, NoEntry
<1>5. RulesFit(config) /\ RulesFit(cfg)
  BY NoConfigFits DEF Init
<1> QED
  BY <1>1, <1>2, <1>3, <1>4, <1>5 DEF FitInv

LEMMA RangesArePresent ==
  ASSUME NEW text, NEW present PROVE ParseCpuRanges(text, present) \subseteq present
<1> DEFINE all == UNION {PartCpus(text[i]) : i \in DOMAIN text}
<1>1. ParseCpuRanges(text, present) = all \cap present
  BY DEF ParseCpuRanges
<1> HIDE DEF all
<1> QED
  BY <1>1

LEMMA SpecIsPresent ==
  ASSUME NEW spec PROVE ParseCpuSpec(spec, Topo) \subseteq Present
<1> DEFINE part(i) == IF spec[i].tier \in Tiers THEN Topo[spec[i].tier]
                      ELSE ParseCpuRanges(<<spec[i].range>>, Present)
<1>1. ASSUME NEW i \in DOMAIN spec PROVE part(i) \subseteq Present
  <2>1. \A tier \in Tiers : Topo[tier] \subseteq Present
    BY DEF Present
  <2>2. ParseCpuRanges(<<spec[i].range>>, Present) \subseteq Present
    BY RangesArePresent
  <2> QED
    BY <2>1, <2>2
<1>2. ParseCpuSpec(spec, Topo) = UNION {part(i) : i \in DOMAIN spec}
  BY DEF ParseCpuSpec, Present
<1> HIDE DEF part
<1> QED
  BY <1>1, <1>2

(* What load_config makes of the file.                                     *)
LEMMA LoadFits ==
  ASSUME world \in Worlds, file \in world.files, NEW dirOf \in RuleDirs(file)
  PROVE  RulesFit(LoadConfig(dirOf))
<1> DEFINE made == LoadConfig(dirOf).rules
<1>1. made = [i \in DOMAIN file |->
                [thread |-> file[i].thread,
                 cpus |-> ParseCpuSpec(file[i].spec, Topo), dir |-> dirOf[i]]]
  BY DEF LoadConfig, Load
<1>2. ASSUME NEW i \in DOMAIN file
      PROVE  dirOf[i] # <<>> => dirOf[i] = ToRangeString[ParseCpuSpec(file[i].spec, Topo)]
  BY DEF RuleDirs
<1>3. ASSUME NEW i \in DOMAIN file PROVE ParseCpuSpec(file[i].spec, Topo) # {}
  OBVIOUS
<1>4. ASSUME NEW i \in DOMAIN file PROVE Fits(made[i])
  BY <1>1, <1>2, <1>3, SpecIsPresent DEF Fits
<1>5. IsFiniteSet(DOMAIN file) /\ DOMAIN made = DOMAIN file
  BY <1>1
<1> QED
  BY <1>4, <1>5 DEF RulesFit

(* The CPUs and the directory that thread_affinity finds.                  *)
LEMMA AffinityFits ==
  ASSUME RulesFit(cfg), NEW c, NEW made, ThreadAffinity(c, made) # No
  PROVE  Fits(ThreadAffinity(c, made))
<1> DEFINE rules == cfg.rules
           threads == Matching(rules, c)
           packages == PackageRules(rules)
           found == ThreadAffinity(c, made)
<1>1. /\ threads \subseteq DOMAIN rules /\ packages \subseteq DOMAIN rules
      /\ IsFiniteSet(DOMAIN rules) /\ \A i \in DOMAIN rules : Fits(rules[i])
  BY DEF Matching, PackageRules, RulesFit
<1>2. ASSUME NEW is \in SUBSET DOMAIN rules, is # {}
      PROVE  CpusOfRules(rules, is) # {} /\ CpusOfRules(rules, is) \subseteq Present
  BY <1>1, <1>2 DEF CpusOfRules, Fits
<1>3. CASE threads # {}
  <2>1. /\ found.cpus = CpusOfRules(rules, threads)
        /\ found.dir \in {<<>>, ToRangeString[CpusOfRules(rules, threads)]}
    BY <1>3 DEF ThreadAffinity
  <2> QED
    BY <1>1, <1>2, <1>3, <2>1 DEF Fits
<1>4. CASE threads = {} /\ packages # {}
  <2>1. /\ found.cpus = CpusOfRules(rules, packages)
        /\ found.dir = FallbackDir(rules, packages)
    BY <1>4 DEF ThreadAffinity
  <2>2. CASE Cardinality(packages) = 1
    <3>1. PICK i : packages = {i}
      BY <1>1, <2>2, FS_Subset, FS_Singleton
    <3>2. found.cpus = rules[i].cpus /\ found.dir = rules[i].dir
      BY <2>1, <2>2, <3>1 DEF CpusOfRules, FallbackDir
    <3> QED
      BY <1>1, <3>1, <3>2 DEF Fits
  <2>3. CASE Cardinality(packages) # 1
    BY <1>1, <1>2, <1>4, <2>1, <2>3 DEF FallbackDir, Fits
  <2> QED
    BY <2>2, <2>3
<1>5. CASE threads = {} /\ packages = {}
  <2>1. found.cpus = Present /\ found.dir = <<>>
    BY <1>5 DEF ThreadAffinity, NoRuleCpus
  <2> QED
    BY <2>1 DEF Fits, Present
<1> QED
  BY <1>3, <1>4, <1>5

LEMMA NextFits == FitInv /\ [Next]_vars => FitInv'
<1> SUFFICES ASSUME FitInv, [Next]_vars PROVE FitInv'
  OBVIOUS
<1> USE DEF kernelVars, webVars, mainVars, history
(* Steps that change none of it.                                           *)
<1>1. ASSUME UNCHANGED <<world, file, base, config, cfg, cur, cache>> PROVE FitInv'
  BY <1>1 DEF FitInv
<1>2. CASE UNCHANGED vars
  BY <1>1, <1>2 DEF vars
<1>3. CASE Device
  <2>1. ASSUME NEW c, Rename(c) PROVE FitInv'
    BY <1>1, <2>1 DEF Rename
  <2>2. CASE End \/ Begin
    BY <1>1, <2>2 DEF End, Begin
  <2>3. ASSUME NEW t, NEW cs, NEW m, Displace(t, cs, m) PROVE FitInv'
    BY <1>1, <2>3 DEF Displace
  <2>4. ASSUME NEW t, NEW n, Renice(t, n) PROVE FitInv'
    BY <1>1, <2>4 DEF Renice
  <2> QED
    BY <1>3, <2>1, <2>2, <2>3, <2>4 DEF Device
<1>4. ASSUME NEW rules \in world.files, EditFile(rules) PROVE FitInv'
  BY <1>4 DEF EditFile, FitInv
<1>5. ASSUME NEW doc \in world.docs, SaveTuning(doc) PROVE FitInv'
  BY <1>1, <1>5 DEF SaveTuning
<1>6. ASSUME NEW b \in world.bases, SetBase(b) PROVE FitInv'
  <2>1. b \in Bases
    BY DEF FitInv
  <2> QED
    BY <1>6, <2>1 DEF SetBase, FitInv
<1>7. CASE CreateBase
  BY <1>1, <1>7 DEF CreateBase
<1>8. CASE Reload
  <2>1. PICK dirOf \in RuleDirs(file) : config' = LoadConfig(dirOf)
    BY <1>8 DEF Reload
  <2>2. RulesFit(config')
    BY <2>1, LoadFits DEF FitInv
  <2>3. UNCHANGED <<world, file, base, cfg, cur, cache>>
    BY <1>8 DEF Reload
  <2> QED
    BY <2>2, <2>3 DEF FitInv, RulesFit
<1>9. CASE Rescan
  <2>1. /\ UNCHANGED <<world, file, base, config, cur>> /\ cfg' = config
        /\ cache' = [t \in Tids |-> NoEntry] /\ NoEntry.cpus = No
    BY <1>9 DEF Rescan, NoEntry
  <2> QED
    BY <2>1 DEF FitInv, RulesFit
<1>10. CASE Fetch
  BY <1>10 DEF Fetch, FitInv, RulesFit
<1>11. CASE EndScan \/ Sync \/ EndSync
  BY <1>1, <1>11 DEF EndScan, Sync, EndSync
<1>12. CASE HandleExit
  <2>1. /\ UNCHANGED <<world, file, base, config, cfg, cur>>
        /\ cache' = [cache EXCEPT ![2] = NoEntry] /\ NoEntry.cpus = No
    BY <1>12 DEF HandleExit, NoEntry
  <2> QED
    BY <2>1 DEF FitInv, RulesFit
<1>13. ASSUME NEW t \in Tids, NEW name, NEW of, TakeUp(t, name, of),
              UNCHANGED <<world, file, base, config, cfg, cache>>
       PROVE  FitInv'
  <2>1. cur'.tid = t /\ (cur'.result = No \/ \E c, made : cur'.result = ThreadAffinity(c, made))
    BY <1>13 DEF TakeUp
  <2>2. cur'.result # No => Fits(cur'.result)
    BY <2>1, AffinityFits DEF FitInv
  <2> QED
    BY <1>13, <2>1, <2>2 DEF FitInv, RulesFit
<1>14. CASE HandleRename
  <2>1. CASE Cached(1)
    BY <1>13, <1>14, <2>1 DEF HandleRename, Tids
  <2>2. CASE ~Cached(1)
    BY <1>1, <1>14, <2>2 DEF HandleRename
  <2> QED
    BY <2>1, <2>2
<1>15. ASSUME NEW t \in Tids, ScanTask(t) PROVE FitInv'
  BY <1>13, <1>15 DEF ScanTask
<1>16. ASSUME NEW t \in Tids, TakeSync(t) PROVE FitInv'
  BY <1>13, <1>16 DEF TakeSync
<1>17. CASE Act
  <2> DEFINE t == cur.tid
             r == cur.result
             old == cache[t]
             entry(e) == [comm |-> cur.comm, cpus |-> e.cpus, dir |-> e.dir,
                          isThread |-> e.isThread]
  <2>1. UNCHANGED <<world, file, base, config, cfg>> /\ cur' = Nobody
    BY <1>17 DEF Act
  <2>2. Nobody.tid \in Tids /\ Nobody.result = No
    BY DEF Nobody, Tids
  <2>3. ASSUME NEW e, e.cpus # No => Fits(e), cache' = [cache EXCEPT ![t] = e]
        PROVE  FitInv'
    BY <2>1, <2>2, <2>3 DEF FitInv, RulesFit
  <2>4. ASSUME UNCHANGED cache PROVE FitInv'
    BY <2>1, <2>2, <2>4 DEF FitInv, RulesFit
  <2>5. NoEntry.cpus = No /\ [NoEntry EXCEPT !.comm = cur.comm].cpus = No
    BY DEF NoEntry
  <2>6. ASSUME NEW e, e.cpus # No => Fits(e), SetAffinity(e) PROVE FitInv'
    BY <2>3, <2>5, <2>6 DEF SetAffinity
  <2>7. ASSUME NEW e, e.cpus # No => Fits(e), JustCache(e) PROVE FitInv'
    BY <2>3, <2>7 DEF JustCache
  <2>8. old.cpus # No => Fits(old)
    BY DEF FitInv
  <2>9. ASSUME NEW e, e.cpus # No => Fits(e) PROVE entry(e).cpus # No => Fits(entry(e))
    BY <2>9 DEF Fits
  <2>10. CASE cur.of = "sync"
    <3>1. SyncTask
      BY <1>17, <2>10 DEF Act
    <3>2. CASE old.cpus # No
      BY <2>6, <2>8, <3>1, <3>2 DEF SyncTask
    <3>3. CASE old.cpus = No
      <4>1. cache' = [cache EXCEPT ![t] = IF Alive(t) THEN old ELSE NoEntry]
        BY <3>1, <3>3 DEF SyncTask
      <4> QED
        BY <2>3, <2>5, <2>8, <4>1
    <3> QED
      BY <3>2, <3>3
  <2>11. CASE cur.of # "sync"
    <3>1. CacheTask
      BY <1>17, <2>11 DEF Act
    <3>2. CASE ~Tracked
      BY <2>4, <3>1, <3>2 DEF CacheTask, Tracked
    <3>3. CASE Tracked /\ r = No
      BY <2>5, <2>7, <3>1, <3>3 DEF CacheTask
    <3>4. CASE Tracked /\ r # No /\ KeepsRule(old, r)
      <4>1. cache' = [cache EXCEPT ![t] = entry(old)]
        BY <3>1, <3>4 DEF CacheTask
      <4> QED
        BY <2>3, <2>8, <2>9, <4>1
    <3>5. CASE Tracked /\ r # No /\ ~KeepsRule(old, r)
      <4>1. JustCache(entry(r)) \/ SetAffinity(entry(r))
        BY <3>1, <3>5 DEF CacheTask
      <4>2. r.cpus # No => Fits(r)
        BY <3>5 DEF FitInv
      <4> QED
        BY <2>6, <2>7, <2>9, <4>1, <4>2
    <3> QED
      BY <3>2, <3>3, <3>4, <3>5
  <2> QED
    BY <2>10, <2>11
<1> QED
  BY <1>2, <1>3, <1>4, <1>5, <1>6, <1>7, <1>8, <1>9, <1>10, <1>11, <1>12, <1>14, <1>15,
     <1>16, <1>17 DEF Next, Requests, Loop

-----------------------------------------------------------------------------
(* The variables that have nothing to do with CPUs.                        *)
KindsInv ==
  /\ comm \in [Tids -> Comms \cup {Gone}] /\ comm[1] = Main
  /\ DOMAIN clamp = Tids /\ \A t \in Tids : clamp[t].min <= clamp[t].max
  /\ memcg \in Groups \cup {No} /\ limit \in [Groups -> Nat] /\ tuning \in world.docs
  /\ events \in Seq(Comms \cup {Gone}) /\ Len(events) <= MaxEvents
  /\ naming \in BOOLEAN /\ reload \in BOOLEAN /\ updated \in BOOLEAN
  /\ pc \in {"idle", "scan", "sync", "act"}
  /\ pc = "idle" => todo = {}
  /\ pc # "act" => cur = Nobody
  /\ pc = "act" => cur.of \in {"event", "scan", "sync"} /\ (cur.of = "event" => todo = {})

LEMMA InitKinds == Init => KindsInv
<1> SUFFICES ASSUME Init PROVE KindsInv
  OBVIOUS
<1>1. \A t \in Tids : clamp[t].min = 0 /\ clamp[t].max = MaxClamp
  BY DEF Init
<1>2. events = <<>> /\ Len(events) = 0
  BY DEF Init
<1>3. comm[1] = Main /\ comm \in [Tids -> Comms \cup {Gone}]
  BY DEF Init, Tids
<1> QED
  <2>1. DOMAIN clamp = Tids /\ \A t \in Tids : clamp[t].min <= clamp[t].max
    BY <1>1, NumbersAssumption DEF Init
  <2>2. memcg = No /\ limit \in [Groups -> Nat] /\ tuning \in world.docs
    BY DEF Init
  <2>3. events \in Seq(Comms \cup {Gone}) /\ Len(events) <= MaxEvents
    BY <1>2, NumbersAssumption
  <2>4. naming = FALSE /\ reload = TRUE /\ updated = FALSE /\ pc = "idle" /\ todo = {} /\ cur = Nobody
    BY DEF Init
  <2> QED
    BY <1>3, <2>1, <2>2, <2>3, <2>4 DEF KindsInv

LEMMA NextKinds == FitInv /\ KindsInv /\ [Next]_vars => KindsInv'
<1> SUFFICES ASSUME FitInv, KindsInv, [Next]_vars PROVE KindsInv'
  OBVIOUS
<1> USE DEF kernelVars, webVars, mainVars, history
<1>1. ASSUME UNCHANGED <<world, comm, clamp, memcg, limit, tuning, events>>,
             UNCHANGED <<pc, todo, cur>>,
             naming' \in BOOLEAN, reload' \in BOOLEAN, updated' \in BOOLEAN
      PROVE  KindsInv'
  BY <1>1 DEF KindsInv
<1>2. naming \in BOOLEAN /\ reload \in BOOLEAN /\ updated \in BOOLEAN /\ world \in Worlds
  BY DEF KindsInv, FitInv
<1>3. CASE UNCHANGED vars
  BY <1>1, <1>2, <1>3 DEF vars
<1>4. ASSUME NEW c \in Comms \cup {Gone}, Tell(c)
      PROVE  events' \in Seq(Comms \cup {Gone}) /\ Len(events') <= MaxEvents
  BY <1>4, NumbersAssumption DEF Tell, KindsInv
<1>5. ASSUME NEW c \in world.comms, Rename(c) PROVE KindsInv'
  <2>1. c \in Comms
    BY <1>2
  <2> QED
    BY <1>4, <1>5, <2>1 DEF Rename, KindsInv, Tids
<1>6. CASE End
  BY <1>4, <1>6 DEF End, KindsInv, Tids
<1>7. CASE Begin
  BY <1>7 DEF Begin, KindsInv, Tids
<1>8. ASSUME NEW t, NEW cs, NEW m, Displace(t, cs, m) PROVE KindsInv'
  BY <1>1, <1>2, <1>8 DEF Displace
<1>9. ASSUME NEW t, NEW n, Renice(t, n) PROVE KindsInv'
  BY <1>1, <1>2, <1>9 DEF Renice
<1>10. ASSUME NEW rules, EditFile(rules) PROVE KindsInv'
  BY <1>1, <1>2, <1>10 DEF EditFile
<1>11. ASSUME NEW doc \in world.docs, SaveTuning(doc) PROVE KindsInv'
  BY <1>2, <1>11 DEF SaveTuning, KindsInv
<1>12. ASSUME NEW b, SetBase(b) PROVE KindsInv'
  BY <1>1, <1>2, <1>12 DEF SetBase
<1>13. CASE CreateBase
  BY <1>1, <1>2, <1>13 DEF CreateBase
<1>14. CASE Reload
  BY <1>1, <1>2, <1>14 DEF Reload
<1>15. CASE Rescan
  BY <1>2, <1>15 DEF Rescan, KindsInv
<1>16. CASE Fetch
  BY <1>1, <1>2, <1>16 DEF Fetch
<1>17. CASE EndScan \/ Sync \/ EndSync
  BY <1>2, <1>17 DEF EndScan, Sync, EndSync, KindsInv
<1>18. CASE HandleExit
  <2>1. events' = Tail(events) /\ events # <<>>
    BY <1>18 DEF HandleExit
  <2>2. events' \in Seq(Comms \cup {Gone}) /\ Len(events') <= MaxEvents
    BY <2>1, NumbersAssumption DEF KindsInv
  <2> QED
    BY <1>2, <1>18, <2>2 DEF HandleExit, KindsInv
<1>19. ASSUME NEW t \in Tids, NEW name, NEW of \in {"event", "scan", "sync"},
              TakeUp(t, name, of), of = "event" => todo' = {},
              UNCHANGED <<world, tuning, naming, reload, updated>>,
              events' \in Seq(Comms \cup {Gone}) /\ Len(events') <= MaxEvents
       PROVE  KindsInv'
  <2>1. pc' = "act" /\ cur'.of = of /\ UNCHANGED <<comm, clamp>>
    BY <1>19 DEF TakeUp
  <2>2. memcg' \in Groups \cup {No} /\ limit' \in [Groups -> Nat]
    <3>1. CASE UNCHANGED <<memcg, limit>>
      BY <3>1 DEF KindsInv
    <3>2. CASE \E g \in MemoryGroup :
                 memcg' = g.name /\ limit' = [limit EXCEPT ![g.name] = g.limit]
      <4>1. PICK g \in MemoryGroup :
                   memcg' = g.name /\ limit' = [limit EXCEPT ![g.name] = g.limit]
        BY <3>2
      <4>2. g.name \in Groups /\ g.limit \in Nat
        BY <1>2 DEF MemoryGroup, KindsInv
      <4> QED
        BY <4>1, <4>2 DEF KindsInv
    <3> QED
      BY <1>19, <3>1, <3>2 DEF TakeUp
  <2> QED
    BY <1>2, <1>19, <2>1, <2>2 DEF KindsInv
<1>20. CASE HandleRename
  <2>1. /\ UNCHANGED <<world, tuning, naming, reload, updated, todo>> /\ todo = {}
        /\ events' = Tail(events) /\ events # <<>>
    BY <1>20 DEF HandleRename, KindsInv
  <2>2. events' \in Seq(Comms \cup {Gone}) /\ Len(events') <= MaxEvents
    BY <2>1, NumbersAssumption DEF KindsInv
  <2>3. CASE Cached(1)
    BY <1>19, <1>20, <2>1, <2>2, <2>3 DEF HandleRename, Tids
  <2>4. CASE ~Cached(1)
    BY <1>2, <1>20, <2>1, <2>2, <2>4 DEF HandleRename, KindsInv
  <2> QED
    BY <2>3, <2>4
<1>21. ASSUME NEW t \in Tids, ScanTask(t) \/ TakeSync(t) PROVE KindsInv'
  <2>1. events' \in Seq(Comms \cup {Gone}) /\ Len(events') <= MaxEvents
    BY <1>21 DEF ScanTask, TakeSync, KindsInv
  <2> QED
    BY <1>19, <1>21, <2>1 DEF ScanTask, TakeSync
<1>22. CASE Act
  <2>1. DOMAIN clamp' = Tids /\ \A t \in Tids : clamp'[t].min <= clamp'[t].max
    <3>1. cur.tid \in Tids /\ SetKnobs
      BY <1>22 DEF Act, FitInv
    <3> DEFINE t == cur.tid
               accepted == Accepted(clamp[t], cur.tune)
    <3>2. accepted => Clamped(clamp[t], cur.tune).min <= Clamped(clamp[t], cur.tune).max
      BY DEF Accepted
    <3>3. \/ clamp' = [clamp EXCEPT ![t] = clamp[t]]
          \/ accepted /\ clamp' = [clamp EXCEPT ![t] = Clamped(clamp[t], cur.tune)]
      BY <3>1 DEF SetKnobs
    <3> QED
      BY <3>1, <3>2, <3>3 DEF KindsInv
  <2>2. /\ pc' \in {"idle", "scan", "sync"} /\ cur' = Nobody /\ (pc' = "idle" => todo' = {})
        /\ UNCHANGED <<world, comm, memcg, limit, tuning, events, naming, reload, updated>>
    BY <1>22 DEF Act, KindsInv
  <2> QED
    BY <2>1, <2>2, <1>2 DEF KindsInv
<1> QED
  BY <1>3, <1>5, <1>6, <1>7, <1>8, <1>9, <1>10, <1>11, <1>12, <1>13, <1>14, <1>15,
     <1>16, <1>17, <1>18, <1>20, <1>21, <1>22 DEF Next, Device, Requests, Loop

-----------------------------------------------------------------------------
(* Every directory is named for some CPUs, or is that of a base.           *)
Named(d) ==
  \E b \in Bases :
    d = <<b, <<>>>> \/ \E S \in SUBSET Present : S # {} /\ d = <<b, ToRangeString[S]>>

DirsInv == \A d \in dirs : Named(d) /\ <<d[1], <<>>>> \in dirs

LEMMA FitsNamed ==
  ASSUME NEW e, Fits(e), NEW b \in Bases PROVE Named(<<b, e.dir>>)
BY DEF Fits, Named

LEMMA MoreDirs ==
  ASSUME DirsInv, dirs \subseteq dirs',
         \A d \in dirs' : d \in dirs \/ (Named(d) /\ d[1] = base /\ <<base, <<>>>> \in dirs')
  PROVE  DirsInv'
<1>1. \A d : Named(d)' = Named(d)
  BY DEF Named
<1> QED
  BY <1>1 DEF DirsInv

LEMMA TakeUpDirs ==
  ASSUME FitInv, DirsInv, NEW t, NEW name, NEW of, TakeUp(t, name, of)
  PROVE  DirsInv' /\ dirs \subseteq dirs'
<1>1. CASE UNCHANGED dirs
  BY <1>1 DEF DirsInv, Named
<1>2. ASSUME ~UNCHANGED dirs PROVE DirsInv' /\ dirs \subseteq dirs'
  <2>1. PICK c, made : LET r == ThreadAffinity(c, made) IN
          r # No /\ CanCreate /\ dirs' = dirs \cup {<<base, r.dir>>}
    BY <1>2 DEF TakeUp
  <2> DEFINE r == ThreadAffinity(c, made)
  <2>2. Named(<<base, r.dir>>) /\ <<base, r.dir>>[1] = base
    BY <2>1, AffinityFits, FitsNamed DEF FitInv
  <2>3. <<base, <<>>>> \in dirs
    BY <2>1 DEF CanCreate
  <2> QED
    BY <2>1, <2>2, <2>3, MoreDirs
<1> QED
  BY <1>1, <1>2

LEMMA NextDirs == FitInv /\ DirsInv /\ [Next]_vars => DirsInv' /\ dirs \subseteq dirs'
<1> SUFFICES ASSUME FitInv, DirsInv, [Next]_vars PROVE DirsInv' /\ dirs \subseteq dirs'
  OBVIOUS
<1> USE DEF kernelVars, webVars, mainVars, history
<1>1. ASSUME UNCHANGED dirs PROVE DirsInv' /\ dirs \subseteq dirs'
  BY <1>1 DEF DirsInv, Named
<1>2. CASE UNCHANGED vars
  BY <1>1, <1>2 DEF vars
<1>3. CASE Device
  BY <1>1, <1>3 DEF Device, Rename, End, Begin, Displace, Renice
<1>4. CASE CreateBase
  <2>1. CASE UNCHANGED dirs
    BY <1>1, <2>1
  <2>2. CASE dirs' = dirs \cup {<<base, <<>>>>}
    <3>1. Named(<<base, <<>>>>) /\ <<base, <<>>>>[1] = base
      BY DEF Named, FitInv
    <3> QED
      BY <2>2, <3>1, MoreDirs
  <2> QED
    BY <1>4, <2>1, <2>2 DEF CreateBase
<1>5. CASE Reload
  <2>1. PICK dirOf \in RuleDirs(file) :
          dirs' = dirs \cup {<<base, dirOf[i]>> : i \in {i \in DOMAIN file : dirOf[i] # <<>>}}
    BY <1>5 DEF Reload
  <2>2. ASSUME NEW i \in DOMAIN file, dirOf[i] # <<>>
        PROVE  /\ Named(<<base, dirOf[i]>>) /\ <<base, dirOf[i]>>[1] = base
               /\ <<base, <<>>>> \in dirs
    <3>1. CanCreate /\ dirOf[i] = ToRangeString[ParseCpuSpec(file[i].spec, Topo)]
      BY <2>2 DEF RuleDirs
    <3>2. ParseCpuSpec(file[i].spec, Topo) # {}
      BY DEF FitInv
    <3> QED
      BY <3>1, <3>2, SpecIsPresent DEF Named, CanCreate, FitInv
  <2> QED
    BY <2>1, <2>2, MoreDirs
<1>6. CASE (\E rules \in world.files : EditFile(rules)) \/ (\E doc \in world.docs : SaveTuning(doc))
           \/ (\E b \in world.bases : SetBase(b))
  BY <1>1, <1>6 DEF EditFile, SaveTuning, SetBase
<1>7. CASE Rescan \/ Fetch \/ EndScan \/ Sync \/ EndSync \/ Act \/ HandleExit
  BY <1>1, <1>7 DEF Rescan, Fetch, EndScan, Sync, EndSync, Act, HandleExit
<1>8. CASE HandleRename
  BY <1>1, <1>8, TakeUpDirs DEF HandleRename
<1>9. ASSUME NEW t \in Tids, ScanTask(t) \/ TakeSync(t) PROVE DirsInv' /\ dirs \subseteq dirs'
  BY <1>9, TakeUpDirs DEF ScanTask, TakeSync
<1> QED
  BY <1>2, <1>3, <1>4, <1>5, <1>6, <1>7, <1>8, <1>9 DEF Next, Requests, Loop

-----------------------------------------------------------------------------
(* The cpuset of a directory has the CPUs that the directory is named for. *)

LEMMA TextsRead ==
  ASSUME NEW S \in SUBSET Present
  PROVE  ParseCpuRanges(ToRangeString[S], Present) = S
<1> DEFINE text == ToRangeString[S]
           all == UNION {PartCpus(text[i]) : i \in DOMAIN text}
<1>1. S \in SUBSET Cpus
  BY DEF Present
<1>2. ParseCpuRanges(text, Cpus) = S
  BY <1>1, TextsReadBack DEF EveryTextReadsBack
<1>3. ParseCpuRanges(text, Cpus) = all \cap Cpus /\ ParseCpuRanges(text, Present) = all \cap Present
  BY DEF ParseCpuRanges
<1> HIDE DEF all, text
<1>4. Present \subseteq Cpus
  BY DEF Present
<1>5. ParseCpuRanges(text, Present) = S
  BY <1>2, <1>3, <1>4
<1> QED
  BY <1>5 DEF text

LEMMA NamedCpus ==
  ASSUME NEW b \in Bases
  PROVE  /\ <<b, <<>>>> # No /\ CpusOf(<<b, <<>>>>) = Present
         /\ \A S \in SUBSET Present :
              /\ <<b, ToRangeString[S]>> # No
              /\ ToRangeString[S] # <<>> => CpusOf(<<b, ToRangeString[S]>>) = S
<1>1. \A S \in SUBSET Present : S \in SUBSET Cpus
  BY DEF Present
<1>2. <<b, <<>>>> # No /\ \A S \in SUBSET Present : <<b, ToRangeString[S]>> # No
  BY <1>1, NoAssumption
<1> QED
  BY <1>2, TextsRead DEF CpusOf

LEMMA FitsCpus ==
  ASSUME NEW b \in Bases, NEW e, Fits(e)
  PROVE  /\ <<b, e.dir>> # No /\ e.cpus \subseteq CpusOf(<<b, e.dir>>)
         /\ CpusOf(<<b, e.dir>>) # {}
         /\ e.dir # <<>> => CpusOf(<<b, e.dir>>) = e.cpus
<1> DEFINE cs == <<b, e.dir>>
<1>1. e.cpus # {} /\ e.cpus \in SUBSET Present
  BY DEF Fits
<1>2. CASE e.dir = <<>>
  <2>1. cs # No /\ CpusOf(cs) = Present
    BY <1>2, NamedCpus
  <2> QED
    BY <1>1, <1>2, <2>1
<1>3. CASE e.dir # <<>>
  <2>1. e.dir = ToRangeString[e.cpus]
    BY <1>3 DEF Fits
  <2>2. /\ <<b, ToRangeString[e.cpus]>> # No
        /\ ToRangeString[e.cpus] # <<>> => CpusOf(<<b, ToRangeString[e.cpus]>>) = e.cpus
    BY <1>1, NamedCpus
  <2> QED
    BY <1>1, <1>3, <2>1, <2>2
<1> QED
  BY <1>2, <1>3

(* A task has some of the CPUs of its cpuset.                              *)
CpusInv ==
  /\ DOMAIN mask = Tids /\ DOMAIN cset = Tids
  /\ \A t \in Tids : mask[t] \subseteq CpusOf(cset[t]) /\ (Alive(t) => mask[t] # {})
  /\ \A t \in Tids : cset[t] # No => cset[t] \in dirs

(* One pass puts a task into its cpuset, the next gives it its CPUs.       *)
PassInv ==
  /\ DOMAIN passes = Tids /\ \A t \in Tids : passes[t] \in 0..2
  /\ \A t \in Tids :
       LET e == cache[t]  cs == <<base, e.dir>> IN
       Alive(t) /\ e.cpus # No /\ passes[t] >= 1 /\ world.cpuset /\ cs \in dirs
         => cset[t] = cs /\ (passes[t] >= 2 => mask[t] = e.cpus)

PlaceInv == CpusInv /\ PassInv

LEMMA InitPlace == Init => DirsInv /\ PlaceInv
<1> SUFFICES ASSUME Init PROVE DirsInv /\ PlaceInv
  OBVIOUS
<1>1. dirs \subseteq {<<base, <<>>>>} /\ base \in Bases
  BY DEF Init
<1>2. \A d \in dirs : Named(d) /\ <<d[1], <<>>>> \in dirs
  BY <1>1 DEF Named
<1>3. CpusOf(No) = SystemCpus
  BY DEF CpusOf
<1> QED
  BY <1>2, <1>3 DEF Init, DirsInv, PlaceInv, CpusInv, PassInv

(* affinity_set on one task.                                               *)
LEMMA PlacedWell ==
  ASSUME FitInv, CpusInv, NEW t \in Tids, Alive(t), NEW e, Fits(e)
  PROVE  LET p == Placed(t, e.cpus, e.dir)  cs == <<base, e.dir>> IN
         /\ p.mask \subseteq CpusOf(p.cset) /\ p.mask # {}
         /\ p.cset = cset[t] \/ (p.cset = cs /\ cs \in dirs)
         /\ world.cpuset /\ cs \in dirs
              => p.cset = cs /\ (cset[t] = cs => p.mask = e.cpus)
<1> DEFINE p == Placed(t, e.cpus, e.dir)
           cs == <<base, e.dir>>
<1>1. e.cpus # {} /\ e.cpus \subseteq CpusOf(cs) /\ CpusOf(cs) # {}
  BY FitsCpus DEF FitInv, Fits
<1>2. mask[t] \subseteq CpusOf(cset[t]) /\ mask[t] # {}
  BY DEF CpusInv
<1>3. CASE world.cpuset /\ cs \in dirs /\ cset[t] # cs
  <2>1. p.cset = cs /\ p.mask \in {e.cpus \cap CpusOf(cs), CpusOf(cs)}
    BY <1>3 DEF Placed
  <2> QED
    BY <1>1, <1>3, <2>1
<1>4. CASE ~(world.cpuset /\ cs \in dirs /\ cset[t] # cs)
  <2>1. /\ p.cset = cset[t]
        /\ p.mask = IF mask[t] # e.cpus /\ e.cpus \cap CpusOf(cset[t]) # {}
                    THEN e.cpus \cap CpusOf(cset[t]) ELSE mask[t]
    BY <1>4 DEF Placed
  <2> HIDE DEF p
  <2>2. p.mask \subseteq CpusOf(p.cset) /\ p.mask # {}
    BY <1>2, <2>1
  <2>3. cset[t] = cs => p.mask = e.cpus
    BY <1>1, <2>1
  <2>4. p.cset = cset[t] /\ (world.cpuset /\ cs \in dirs => p.cset = cs)
    BY <1>4, <2>1
  <2>5. p = Placed(t, e.cpus, e.dir)
    BY DEF p
  <2> QED
    BY <2>2, <2>3, <2>4, <2>5
<1> QED
  BY <1>3, <1>4

LEMMA SetAffinityPlaces ==
  ASSUME FitInv, PlaceInv, NEW e, Fits(e), SetAffinity(e),
         UNCHANGED <<world, comm, base, dirs>>
  PROVE  PlaceInv'
<1> DEFINE t == cur.tid
           p == Placed(t, e.cpus, e.dir)
           cs == <<base, e.dir>>
<1>1. t \in Tids /\ DOMAIN cache = Tids
  BY DEF FitInv
<1>2. CASE Alive(t)
  <2>1. /\ mask' = [mask EXCEPT ![t] = p.mask] /\ cset' = [cset EXCEPT ![t] = p.cset]
        /\ cache' = [cache EXCEPT ![t] = e]
        /\ passes' = [passes EXCEPT ![t] =
             IF (cache[t].cpus = e.cpus /\ cache[t].dir = e.dir) /\ passes[t] > 0 THEN 2 ELSE 1]
    BY <1>2 DEF SetAffinity
  <2>2. /\ p.mask \subseteq CpusOf(p.cset) /\ p.mask # {}
        /\ p.cset = cset[t] \/ (p.cset = cs /\ cs \in dirs)
        /\ world.cpuset /\ cs \in dirs => p.cset = cs /\ (cset[t] = cs => p.mask = e.cpus)
    BY <1>1, <1>2, PlacedWell DEF PlaceInv
  <2> HIDE DEF p
  <2>3. CpusInv'
    BY <1>1, <2>1, <2>2 DEF PlaceInv, CpusInv, CpusOf, Alive
  <2>4. ASSUME e.cpus # No, world.cpuset, cs \in dirs
        PROVE  cset'[t] = cs /\ (passes'[t] >= 2 => mask'[t] = e.cpus)
    <3>1. cset'[t] = cs /\ mask'[t] = p.mask
      BY <1>1, <2>1, <2>2, <2>4 DEF PlaceInv, CpusInv
    <3>2. ASSUME passes'[t] >= 2 PROVE mask'[t] = e.cpus
      <4>1. cache[t].cpus = e.cpus /\ cache[t].dir = e.dir /\ passes[t] >= 1
        BY <1>1, <2>1, <3>2 DEF PlaceInv, PassInv
      <4>2. cset[t] = cs
        BY <1>1, <1>2, <2>4, <4>1 DEF PlaceInv, PassInv
      <4> QED
        BY <2>2, <2>4, <3>1, <4>2
    <3> QED
      BY <3>1, <3>2
  <2>5. DOMAIN passes' = Tids /\ \A u \in Tids : passes'[u] \in 0..2
    BY <1>1, <2>1 DEF PlaceInv, PassInv
  <2>6. cache'[t] = e
    BY <1>1, <2>1
  <2>7. \A u \in Tids \ {t} : /\ cset'[u] = cset[u] /\ mask'[u] = mask[u]
                              /\ cache'[u] = cache[u] /\ passes'[u] = passes[u]
    BY <1>1, <2>1 DEF PlaceInv, CpusInv, PassInv
  <2> HIDE DEF t, cs
  <2>8. PassInv'
    <3> SUFFICES ASSUME NEW u \in Tids, Alive(u)', cache'[u].cpus # No, passes'[u] >= 1,
                        world'.cpuset, <<base', cache'[u].dir>> \in dirs'
                 PROVE  /\ cset'[u] = <<base', cache'[u].dir>>
                        /\ passes'[u] >= 2 => mask'[u] = cache'[u].cpus
      BY <2>5 DEF PassInv
    <3>1. CASE u = t
      BY <2>4, <2>6, <3>1 DEF cs
    <3>2. CASE u # t
      <4>1. Alive(u) /\ world.cpuset /\ <<base, cache[u].dir>> \in dirs
        BY <2>7, <3>2 DEF Alive
      <4> QED
        BY <2>7, <3>2, <4>1 DEF PlaceInv, PassInv
    <3> QED
      BY <3>1, <3>2
  <2> QED
    BY <2>3, <2>8 DEF PlaceInv
<1>3. CASE ~Alive(t)
  <2>1. UNCHANGED <<mask, cset, passes>> /\ cache' = [cache EXCEPT ![t] = NoEntry] /\ NoEntry.cpus = No
    BY <1>3 DEF SetAffinity, NoEntry
  <2> QED
    BY <1>1, <1>3, <2>1 DEF PlaceInv, CpusInv, PassInv, CpusOf, Alive
<1> QED
  BY <1>2, <1>3

(* Taking a task in hand changes no task; passes go back to 0 with dirs.   *)
LEMMA TakeUpPlaces ==
  ASSUME PlaceInv, dirs \subseteq dirs', NEW t, NEW name, NEW of, TakeUp(t, name, of),
         UNCHANGED <<world, base, cache>>
  PROVE  PlaceInv'
<1>1. /\ UNCHANGED <<comm, mask, cset>>
      /\ passes' = [u \in Tids |-> IF dirs' = dirs THEN passes[u] ELSE 0]
  BY DEF TakeUp
<1> QED
  BY <1>1 DEF PlaceInv, CpusInv, PassInv, CpusOf, Alive

LEMMA NextPlace ==
  ASSUME FitInv, DirsInv, PlaceInv, KindsInv, [Next]_vars
  PROVE  PlaceInv'
<1> USE DEF kernelVars, webVars, mainVars, history
<1>1. dirs \subseteq dirs' /\ DirsInv' /\ world \in Worlds
  BY NextDirs DEF FitInv
<1>2. \A S : CpusOf(S)' = CpusOf(S)
  BY DEF CpusOf
(* Steps that change nothing of it, or only take away.                     *)
<1>3. ASSUME UNCHANGED <<world, comm, mask, cset, base, cache>>,
             passes' \in {passes, [t \in Tids |-> IF dirs' = dirs THEN passes[t] ELSE 0],
                         [t \in Tids |-> 0]},
             passes' = passes => dirs' = dirs
      PROVE  PlaceInv'
  BY <1>1, <1>2, <1>3 DEF PlaceInv, CpusInv, PassInv, Alive
<1>4. ASSUME UNCHANGED <<world, comm, mask, cset, base, dirs, passes>>,
             DOMAIN cache' = Tids,
             \A t \in Tids : cache'[t].cpus # No =>
               cache'[t].cpus = cache[t].cpus /\ cache'[t].dir = cache[t].dir
      PROVE  PlaceInv'
  BY <1>2, <1>4 DEF PlaceInv, CpusInv, PassInv, Alive
<1>5. CASE UNCHANGED vars
  BY <1>3, <1>5 DEF vars
<1>6. ASSUME NEW c, Rename(c) PROVE PlaceInv'
  BY <1>2, <1>6 DEF Rename, PlaceInv, CpusInv, PassInv, Alive, Tids
<1>7. CASE End
  <2>1. /\ comm' = [comm EXCEPT ![2] = Gone] /\ mask' = [mask EXCEPT ![2] = {}]
        /\ cset' = [cset EXCEPT ![2] = No]
        /\ UNCHANGED <<world, base, dirs, cache, passes>>
    BY <1>7 DEF End
  <2> QED
    BY <1>2, <2>1 DEF PlaceInv, CpusInv, PassInv, Alive, KindsInv, Tids
<1>8. CASE Begin
  <2>1. /\ comm' = [comm EXCEPT ![2] = Main] /\ mask' = [mask EXCEPT ![2] = mask[1]]
        /\ cset' = [cset EXCEPT ![2] = cset[1]] /\ passes' = [passes EXCEPT ![2] = 0]
        /\ UNCHANGED <<world, base, dirs, cache>>
    BY <1>8 DEF Begin
  <2>2. Alive(1)
    BY DEF KindsInv, Alive
  <2> QED
    BY <1>2, <2>1, <2>2 DEF PlaceInv, CpusInv, PassInv, Alive, KindsInv, Tids
<1>9. ASSUME NEW t \in world.moved, NEW cs, NEW m, Displace(t, cs, m) PROVE PlaceInv'
  <2>1. t \in Tids /\ {} \notin world.masks
    BY <1>1 DEF Tids
  <2>2. /\ cset' = [cset EXCEPT ![t] = cs] /\ mask' = [mask EXCEPT ![t] = m]
        /\ passes' = [passes EXCEPT ![t] = 0]
        /\ UNCHANGED <<world, comm, base, dirs, cache>>
    BY <1>9 DEF Displace
  <2>3. m \subseteq CpusOf(cs) /\ m # {} /\ (cs # No => cs = cset[t])
    BY <1>9, <2>1 DEF Displace, CpusOf
  <2> QED
    BY <1>2, <2>1, <2>2, <2>3 DEF PlaceInv, CpusInv, PassInv, Alive
<1>10. ASSUME NEW t, NEW n, Renice(t, n) PROVE PlaceInv'
  BY <1>3, <1>10 DEF Renice
<1>11. ASSUME NEW rules, EditFile(rules) PROVE PlaceInv'
  BY <1>3, <1>11 DEF EditFile
<1>12. ASSUME NEW doc, SaveTuning(doc) PROVE PlaceInv'
  BY <1>3, <1>12 DEF SaveTuning
<1>13. ASSUME NEW b, SetBase(b) PROVE PlaceInv'
  BY <1>2, <1>13 DEF SetBase, PlaceInv, CpusInv, PassInv, Alive
<1>14. CASE CreateBase
  BY <1>1, <1>2, <1>14 DEF CreateBase, PlaceInv, CpusInv, PassInv, Alive
<1>15. CASE Reload
  BY <1>1, <1>2, <1>15 DEF Reload, PlaceInv, CpusInv, PassInv, Alive
<1>16. CASE Rescan
  <2>1. /\ UNCHANGED <<world, comm, mask, cset, base, dirs, passes>>
        /\ cache' = [t \in Tids |-> NoEntry] /\ NoEntry.cpus = No
    BY <1>16 DEF Rescan, NoEntry
  <2> QED
    BY <1>4, <2>1
<1>17. CASE Fetch \/ EndScan \/ Sync \/ EndSync
  BY <1>3, <1>17 DEF Fetch, EndScan, Sync, EndSync
<1>18. CASE HandleExit
  <2>1. /\ UNCHANGED <<world, comm, mask, cset, base, dirs, passes>>
        /\ cache' = [cache EXCEPT ![2] = NoEntry] /\ NoEntry.cpus = No
    BY <1>18 DEF HandleExit, NoEntry
  <2> QED
    BY <1>4, <2>1 DEF FitInv
<1>19. CASE HandleRename
  BY <1>1, <1>3, <1>19, TakeUpPlaces DEF HandleRename
<1>20. ASSUME NEW t, ScanTask(t) \/ TakeSync(t) PROVE PlaceInv'
  BY <1>1, <1>20, TakeUpPlaces DEF ScanTask, TakeSync
<1>21. CASE Act
  <2> DEFINE t == cur.tid
             r == cur.result
             old == cache[t]
             entry(e) == [comm |-> cur.comm, cpus |-> e.cpus, dir |-> e.dir,
                          isThread |-> e.isThread]
  <2>1. UNCHANGED <<world, comm, base, dirs>> /\ t \in Tids /\ DOMAIN cache = Tids
    BY <1>21 DEF Act, FitInv
  <2>2. ASSUME NEW e, Fits(e), SetAffinity(e) PROVE PlaceInv'
    BY <2>1, <2>2, SetAffinityPlaces
  <2>3. ASSUME NEW e, JustCache(e) PROVE PlaceInv'
    <3>1. /\ cache' = [cache EXCEPT ![t] = e] /\ passes' = [passes EXCEPT ![t] = 0]
          /\ UNCHANGED <<mask, cset>>
      BY <2>3 DEF JustCache
    <3> QED
      BY <1>2, <2>1, <3>1 DEF PlaceInv, CpusInv, PassInv, Alive
  <2>4. ASSUME NEW e, cache' = [cache EXCEPT ![t] = e], UNCHANGED <<passes, mask, cset>>,
               e.cpus # No => e.cpus = old.cpus /\ e.dir = old.dir
        PROVE  PlaceInv'
    BY <1>4, <2>1, <2>4
  <2>5. CASE cur.of = "sync"
    <3>1. SyncTask
      BY <1>21, <2>5 DEF Act
    <3>2. CASE old.cpus # No
      <4>1. Fits(old)
        BY <2>1, <3>2 DEF FitInv
      <4> QED
        BY <2>2, <3>1, <3>2, <4>1 DEF SyncTask
    <3>3. CASE old.cpus = No
      <4>1. cache' = [cache EXCEPT ![t] = IF Alive(t) THEN old ELSE NoEntry]
            /\ UNCHANGED <<passes, mask, cset>>
        BY <3>1, <3>3 DEF SyncTask
      <4>2. NoEntry.cpus = No
        BY DEF NoEntry
      <4> QED
        BY <2>4, <3>3, <4>1, <4>2
    <3> QED
      BY <3>2, <3>3
  <2>6. CASE cur.of # "sync"
    <3>1. CacheTask
      BY <1>21, <2>6 DEF Act
    <3>2. CASE ~Tracked
      BY <1>3, <2>1, <3>1, <3>2 DEF CacheTask, Tracked
    <3>3. CASE Tracked /\ r = No
      BY <2>3, <3>1, <3>3 DEF CacheTask
    <3>4. CASE Tracked /\ r # No /\ KeepsRule(old, r)
      <4>1. cache' = [cache EXCEPT ![t] = entry(old)] /\ UNCHANGED <<passes, mask, cset>>
        BY <3>1, <3>4 DEF CacheTask
      <4> QED
        BY <2>4, <4>1
    <3>5. CASE Tracked /\ r # No /\ ~KeepsRule(old, r)
      <4>1. JustCache(entry(r)) \/ SetAffinity(entry(r))
        BY <3>1, <3>5 DEF CacheTask
      <4>2. Fits(entry(r))
        BY <3>5 DEF FitInv, Fits
      <4> QED
        BY <2>2, <2>3, <4>1, <4>2
    <3> QED
      BY <3>2, <3>3, <3>4, <3>5
  <2> QED
    BY <2>5, <2>6
<1> QED
  BY <1>5, <1>6, <1>7, <1>8, <1>9, <1>10, <1>11, <1>12, <1>13, <1>14, <1>15, <1>16, <1>17,
     <1>18, <1>19, <1>20, <1>21 DEF Next, Device, Requests, Loop

-----------------------------------------------------------------------------
AllInv == FitInv /\ KindsInv /\ DirsInv /\ PlaceInv

LEMMA AlwaysAll == Spec => []AllInv
<1>1. Init => AllInv
  BY InitFits, InitKinds, InitPlace DEF AllInv
<1>2. AllInv /\ [Next]_vars => AllInv'
  BY NextFits, NextKinds, NextDirs, NextPlace DEF AllInv
<1> QED
  BY <1>1, <1>2, PTL DEF Spec

(* Every variable of the application of one task keeps its type: no task   *)
(* has a CPU that its cpuset has not, or no CPU at all, and no task is in  *)
(* a cpuset that was not created below one that was.                       *)
THEOREM ApplyTypes == Spec => []TypeOK
<1>1. AllInv => TypeOK
  BY DEF AllInv, FitInv, KindsInv, DirsInv, PlaceInv, CpusInv, TypeOK, Fits
<1> QED
  BY <1>1, AlwaysAll, PTL

(* Whichever rules count together, and whatever is renamed, reloaded or    *)
(* not created: the cpuset that a task is sent to has the CPUs that are    *)
(* set for it.                                                             *)
THEOREM CpusetsAgree == Spec => []CpusetAgrees
<1>1. AllInv => CpusetAgrees
  BY FitsCpus DEF AllInv, FitInv, CpusetAgrees
<1> QED
  BY <1>1, AlwaysAll, PTL

(* Two passes of affinity_set with nothing in between leave every task in  *)
(* its cpuset with exactly its CPUs, wherever it was before.               *)
THEOREM TwoPassesPlace == Spec => []PlacedInTwo
<1>1. AllInv => PlacedInTwo
  BY DEF AllInv, PlaceInv, PassInv, PlacedInTwo, PlacedAfter
<1> QED
  BY <1>1, AlwaysAll, PTL

-----------------------------------------------------------------------------
(* The names of worker 2, with events: what is queued behind its last exit *)
(* are names it has had since, and what is cached or in hand for it is     *)
(* of this life, as soon as that exit has been handled.                    *)
Quiet == \A i \in 1..Len(events) : events[i] # Gone

EventsInv ==
  /\ had \subseteq Comms
  /\ Alive(2) => comm[2] \in had
  /\ Alive(2) => \A i \in 1..Len(events) :
                   (\A j \in i..Len(events) : events[j] # Gone) => events[i] \in had
  /\ ~Alive(2) /\ Len(events) > 0 => events[Len(events)] = Gone
  /\ ~Alive(2) /\ 2 \in todo => ~Quiet
  /\ ~Alive(2) /\ Quiet => cache[2] = NoEntry /\ (pc = "act" => cur.tid # 2)

(* The rules that a name has, and what an entry of worker 2 may hold.      *)
ThreadsOf(c) == Matching(cfg.rules, c)
PackageOr(cpus) ==
  \/ cpus = CpusOfRules(cfg.rules, PackageRules(cfg.rules))
  \/ cpus = Present /\ PackageRules(cfg.rules) = {}

EntryOfName(e) ==
  /\ e.comm \in had \cup {Unnamed}
  /\ ThreadsOf(e.comm) # {} => e.isThread /\ e.cpus = CpusOfRules(cfg.rules, ThreadsOf(e.comm))
  /\ e.isThread => \E c \in had : ThreadsOf(c) # {} /\ e.cpus = CpusOfRules(cfg.rules, ThreadsOf(c))
  /\ ~e.isThread => PackageOr(e.cpus)

ResultOfName(c, r) ==
  /\ c \in had \cup {Unnamed}
  /\ ThreadsOf(c) # {} => c \in had
  /\ r # No => /\ r.isThread <=> ThreadsOf(c) # {}
               /\ r.isThread => r.cpus = CpusOfRules(cfg.rules, ThreadsOf(c))
               /\ ~r.isThread => PackageOr(r.cpus)

CacheOfName == cache[2].cpus # No => EntryOfName(cache[2])
CurOfName == pc = "act" /\ cur.tid = 2 /\ cur.of # "sync" => ResultOfName(cur.comm, cur.result)

NoThreads(c) == ~c.threads => \A i \in DOMAIN c.rules : c.rules[i].thread = NoPattern

ConfigInv ==
  /\ NoThreads(config) /\ NoThreads(cfg)
  /\ ~updated => cfg = config

NamesInv ==
  world.engine = "ebpf" =>
    EventsInv /\ (~updated /\ Alive(2) /\ Quiet => CacheOfName /\ CurOfName)

LEMMA InitNames == Init => ConfigInv /\ NamesInv
<1> SUFFICES ASSUME Init PROVE ConfigInv /\ NamesInv
  OBVIOUS
<1>1. NoThreads(NoConfig)
  BY DEF NoThreads, NoConfig
<1>2. cache[2] = NoEntry /\ NoEntry.cpus = No
  BY DEF Init, NoEntry, Tids
<1>3. /\ events = <<>> /\ Len(events) = 0 /\ todo = {} /\ pc = "idle"
      /\ comm[2] \in had /\ had \subseteq Comms
  BY DEF Init, Tids
<1>4. config = NoConfig /\ cfg = config
  BY DEF Init
<1>5. EventsInv
  BY <1>2, <1>3 DEF EventsInv
<1>6. CacheOfName /\ CurOfName
  BY <1>2, <1>3 DEF CacheOfName, CurOfName
<1> QED
  BY <1>1, <1>4, <1>5, <1>6 DEF ConfigInv, NamesInv

LEMMA NextConfigs == FitInv /\ ConfigInv /\ [Next]_vars => ConfigInv'
<1> SUFFICES ASSUME FitInv, ConfigInv, [Next]_vars PROVE ConfigInv'
  OBVIOUS
<1> USE DEF kernelVars, webVars, mainVars, history
<1>1. ASSUME UNCHANGED <<config, cfg, updated>> PROVE ConfigInv'
  BY <1>1 DEF ConfigInv, NoThreads
<1>2. CASE UNCHANGED vars
  BY <1>1, <1>2 DEF vars
<1>3. CASE Device
  BY <1>1, <1>3 DEF Device, Rename, End, Begin, Displace, Renice
<1>4. CASE Reload
  <2>1. PICK dirOf \in RuleDirs(file) : config' = LoadConfig(dirOf)
    BY <1>4 DEF Reload
  <2>2. NoThreads(LoadConfig(dirOf))
    BY DEF NoThreads, LoadConfig, Load
  <2> QED
    BY <1>4, <2>1, <2>2 DEF Reload, ConfigInv, NoThreads
<1>5. CASE Requests /\ ~Reload
  BY <1>1, <1>5 DEF Requests, EditFile, SaveTuning, SetBase, CreateBase
<1>6. CASE Rescan \/ Fetch
  BY <1>6 DEF Rescan, Fetch, ConfigInv, NoThreads
<1>7. CASE EndScan \/ Sync \/ EndSync \/ Act \/ HandleExit
  BY <1>1, <1>7 DEF EndScan, Sync, EndSync, Act, HandleExit
<1>8. CASE HandleRename \/ \E t \in Tids : ScanTask(t) \/ TakeSync(t)
  BY <1>1, <1>8 DEF HandleRename, ScanTask, TakeSync
<1> QED
  BY <1>2, <1>3, <1>4, <1>5, <1>6, <1>7, <1>8 DEF Next, Loop

(* What thread_affinity finds for a name is of that name.                  *)
LEMMA AffinityOfName ==
  ASSUME NEW c \in had \cup {Unnamed}, c = Unnamed => ThreadsOf(c) = {}, NEW made
  PROVE  ResultOfName(c, ThreadAffinity(c, made))
<1> DEFINE r == ThreadAffinity(c, made)
           packages == PackageRules(cfg.rules)
<1>1. CASE ThreadsOf(c) # {}
  <2>1. r.isThread = TRUE /\ r.cpus = CpusOfRules(cfg.rules, ThreadsOf(c))
    BY <1>1 DEF ThreadAffinity, ThreadsOf
  <2> QED
    BY <1>1, <2>1 DEF ResultOfName
<1>2. CASE ThreadsOf(c) = {} /\ packages # {}
  <2>1. r.isThread = FALSE /\ r.cpus = CpusOfRules(cfg.rules, packages)
    BY <1>2 DEF ThreadAffinity, ThreadsOf
  <2> QED
    BY <1>2, <2>1 DEF ResultOfName, PackageOr
<1>3. CASE ThreadsOf(c) = {} /\ packages = {}
  <2>1. r = No \/ (r.isThread = FALSE /\ r.cpus = Present)
    BY <1>3 DEF ThreadAffinity, ThreadsOf, NoRuleCpus
  <2> QED
    BY <1>3, <2>1 DEF ResultOfName, PackageOr
<1> QED
  BY <1>1, <1>2, <1>3

(* A task that is taken in hand under a name it has had.                   *)
LEMMA TakeUpNames ==
  ASSUME ConfigInv, NEW t, NEW name \in had, Unnamed \notin had, NEW of, of # "sync",
         TakeUp(t, name, of), UNCHANGED <<cfg, had>>
  PROVE  CurOfName'
<1>1. PICK made : /\ cur'.comm = IF cfg.threads THEN name ELSE Unnamed
                  /\ cur'.result = ThreadAffinity(IF cfg.threads THEN name ELSE Unnamed, made)
  BY DEF TakeUp
<1> DEFINE c == IF cfg.threads THEN name ELSE Unnamed
<1>2. c \in had \cup {Unnamed} /\ (c = Unnamed => ThreadsOf(c) = {})
  BY DEF ConfigInv, NoThreads, ThreadsOf, Matching
<1> HIDE DEF c
<1>3. ResultOfName(c, ThreadAffinity(c, made))
  BY <1>2, AffinityOfName
<1>4. cur'.comm = c /\ cur'.result = ThreadAffinity(c, made)
  BY <1>1 DEF c
<1>5. ResultOfName(cur'.comm, cur'.result)
  BY <1>3, <1>4
<1> QED
  BY <1>5 DEF CurOfName, ResultOfName, ThreadsOf, PackageOr, Matching, CpusOfRules, PackageRules

LEMMA NextNames ==
  ASSUME FitInv, KindsInv, ConfigInv, NamesInv, [Next]_vars
  PROVE  NamesInv'
<1> USE DEF kernelVars, webVars, mainVars, history
<1> SUFFICES ASSUME world.engine = "ebpf" PROVE NamesInv'
  <2>1. world' = world
    BY DEF vars, Next, Device, Rename, End, Begin, Displace, Renice, Requests, EditFile,
           SaveTuning, SetBase, CreateBase, Reload, Loop, Rescan, Fetch, EndScan, Sync,
           EndSync, Act, HandleExit, HandleRename, ScanTask, TakeSync
  <2> QED
    BY <2>1 DEF NamesInv
<1>1. EventsInv /\ (~updated /\ Alive(2) /\ Quiet => CacheOfName /\ CurOfName)
  BY DEF NamesInv
<1>2. /\ events \in Seq(Comms \cup {Gone}) /\ world \in Worlds /\ Unnamed \notin had
      /\ pc = "idle" => todo = {}
      /\ comm \in [Tids -> Comms \cup {Gone}] /\ DOMAIN cache = Tids
  BY <1>1 DEF KindsInv, FitInv, EventsInv
<1>3. ASSUME UNCHANGED <<comm, had, events>>, 2 \in todo' => 2 \in todo,
             ~Alive(2) /\ Quiet =>
               cache'[2] = NoEntry /\ (pc' = "act" => cur'.tid # 2)
      PROVE  EventsInv' /\ Alive(2)' = Alive(2) /\ Quiet' = Quiet
  BY <1>1, <1>3 DEF EventsInv, Alive, Quiet
<1>4. ASSUME UNCHANGED <<cfg, had>>
      PROVE  /\ \A e : EntryOfName(e)' = EntryOfName(e)
             /\ \A c, r : ResultOfName(c, r)' = ResultOfName(c, r)
  BY <1>4 DEF EntryOfName, ResultOfName, ThreadsOf, PackageOr, Matching, CpusOfRules,
             PackageRules
(* Steps that leave what is known of worker 2 as it is.                    *)
<1>5. ASSUME UNCHANGED <<world, comm, had, events, todo, cache, pc, cur>>,
             updated' \/ (updated' = updated /\ cfg' = cfg)
      PROVE  NamesInv'
  <2>1. EventsInv' /\ Alive(2)' = Alive(2) /\ Quiet' = Quiet
    BY <1>1, <1>3, <1>5 DEF EventsInv
  <2>2. ~updated' /\ CacheOfName => CacheOfName'
    BY <1>4, <1>5 DEF CacheOfName
  <2>3. ~updated' /\ CurOfName => CurOfName'
    BY <1>4, <1>5 DEF CurOfName
  <2> QED
    BY <1>1, <1>5, <2>1, <2>2, <2>3 DEF NamesInv
(* Steps that leave the cache too, and after which no task is in hand.     *)
<1>6. ASSUME UNCHANGED <<comm, had, events, cache, cfg, updated>>, pc' # "act",
             2 \in todo' => 2 \in todo
      PROVE  NamesInv'
  <2>1. EventsInv' /\ Alive(2)' = Alive(2) /\ Quiet' = Quiet
    BY <1>1, <1>3, <1>6 DEF EventsInv
  <2>2. CacheOfName => CacheOfName'
    BY <1>4, <1>6 DEF CacheOfName
  <2> QED
    BY <1>1, <1>6, <2>1, <2>2 DEF NamesInv, CurOfName
<1>7. CASE UNCHANGED vars
  BY <1>5, <1>7 DEF vars
<1>8. ASSUME NEW c \in world.comms, Rename(c) PROVE NamesInv'
  <2>1. c \in Comms /\ c # Gone /\ Alive(2)
    BY <1>2, <1>8 DEF Rename
  <2>2. /\ events' = Append(events, c) /\ had' = had \cup {c} /\ comm'[2] = c
        /\ UNCHANGED <<cfg, updated, todo, cache, pc, cur>>
    BY <1>2, <1>8 DEF Rename, Tell, Tids
  <2>3. /\ Len(events') = Len(events) + 1 /\ events'[Len(events) + 1] = c
        /\ \A i \in 1..Len(events) : events'[i] = events[i]
    BY <1>2, <2>1, <2>2
  <2>4. Alive(2)' /\ (Quiet' <=> Quiet)
    BY <2>1, <2>2, <2>3 DEF Alive, Quiet
  <2>5. EventsInv'
    <3>1. had' \subseteq Comms /\ comm'[2] \in had'
      BY <1>1, <2>1, <2>2 DEF EventsInv
    <3>2. ASSUME NEW i \in 1..Len(events'), \A j \in i..Len(events') : events'[j] # Gone
          PROVE  events'[i] \in had'
      <4>1. CASE i = Len(events) + 1
        BY <2>2, <2>3, <4>1
      <4>2. CASE i # Len(events) + 1
        <5>1. i \in 1..Len(events) /\ \A j \in i..Len(events) : events[j] # Gone
          BY <1>2, <2>3, <3>2, <4>2
        <5> QED
          BY <1>1, <2>1, <2>2, <2>3, <5>1 DEF EventsInv
      <4> QED
        BY <4>1, <4>2
    <3> QED
      BY <2>4, <3>1, <3>2 DEF EventsInv
  <2>6. CacheOfName => CacheOfName'
    BY <2>2 DEF CacheOfName, EntryOfName, ThreadsOf, PackageOr, Matching, CpusOfRules, PackageRules
  <2>7. CurOfName => CurOfName'
    BY <2>2 DEF CurOfName, ResultOfName, ThreadsOf, PackageOr, Matching, CpusOfRules, PackageRules
  <2> QED
    BY <1>1, <2>1, <2>2, <2>4, <2>5, <2>6, <2>7 DEF NamesInv
<1>9. CASE End
  <2>1. events' = Append(events, Gone) /\ had' = {} /\ comm'[2] = Gone
    BY <1>2, <1>9 DEF End, Tell, Tids
  <2>2. Len(events') \in 1..Len(events') /\ events'[Len(events')] = Gone
    BY <1>2, <2>1
  <2>3. ~Alive(2)' /\ ~Quiet'
    BY <2>1, <2>2 DEF Alive, Quiet
  <2> QED
    BY <2>1, <2>2, <2>3 DEF NamesInv, EventsInv
<1>10. CASE Begin
  <2>1. /\ comm'[2] = Main /\ had' = {Main} /\ Main \in Comms /\ Main # Gone
        /\ UNCHANGED <<events, todo, cache, pc, cur>> /\ ~Alive(2)
    BY <1>2, <1>10 DEF Begin, Tids
  <2>2. Alive(2)' /\ (Quiet' <=> Quiet)
    BY <2>1 DEF Alive, Quiet
  <2>3. ASSUME NEW i \in 1..Len(events) PROVE \E j \in i..Len(events) : events[j] = Gone
    <3>1. Len(events) \in i..Len(events) /\ Len(events) > 0
      BY <1>2
    <3> QED
      BY <1>1, <2>1, <3>1 DEF EventsInv
  <2>4. EventsInv'
    BY <2>1, <2>2, <2>3 DEF EventsInv
  <2>5. Quiet => CacheOfName' /\ CurOfName'
    BY <1>1, <2>1 DEF EventsInv, CacheOfName, CurOfName, NoEntry
  <2> QED
    BY <2>2, <2>4, <2>5 DEF NamesInv
<1>11. CASE \E t, cs, m, n : Displace(t, cs, m) \/ Renice(t, n)
  BY <1>5, <1>11 DEF Displace, Renice
<1>12. CASE Requests
  BY <1>5, <1>12 DEF Requests, EditFile, SaveTuning, SetBase, CreateBase, Reload
<1>13. CASE Rescan
  <2>1. /\ cache'[2] = NoEntry /\ NoEntry.cpus = No /\ pc' = "scan"
        /\ 2 \in todo' => Alive(2)
        /\ UNCHANGED <<comm, had, events>>
    BY <1>13 DEF Rescan, NoEntry, Tids
  <2>2. EventsInv'
    BY <1>1, <2>1 DEF EventsInv, Alive, Quiet
  <2> QED
    BY <2>1, <2>2 DEF NamesInv, CacheOfName, CurOfName
<1>14. CASE Fetch
  BY <1>5, <1>14 DEF Fetch, ConfigInv
<1>15. CASE EndScan \/ EndSync
  BY <1>6, <1>15 DEF EndScan, EndSync
<1>16. CASE Sync
  <2>1. /\ pc' = "sync" /\ UNCHANGED <<comm, had, events, cache, cfg, updated>>
        /\ 2 \in todo' => cache[2] # NoEntry
    BY <1>16 DEF Sync, Cached
  <2>2. EventsInv' /\ Alive(2)' = Alive(2) /\ Quiet' = Quiet
    BY <1>1, <2>1 DEF EventsInv, Alive, Quiet
  <2>3. CacheOfName => CacheOfName'
    BY <1>4, <2>1 DEF CacheOfName
  <2> QED
    BY <1>1, <2>1, <2>2, <2>3 DEF NamesInv, CurOfName
(* The queue without its head.                                             *)
<1>21. ASSUME events # <<>>, events' = Tail(events), UNCHANGED <<comm, had>>, todo = {}, todo' = {},
              ~Alive(2) /\ Quiet' => cache'[2] = NoEntry /\ (pc' = "act" => cur'.tid # 2)
       PROVE  /\ EventsInv' /\ Alive(2)' = Alive(2)
              /\ Quiet' /\ Alive(2) /\ Head(events) # Gone => Quiet /\ Head(events) \in had
              /\ Quiet' => Alive(2) \/ Head(events) = Gone
  <2>1. /\ Len(events) > 0 /\ Len(events') = Len(events) - 1 /\ Head(events) = events[1]
        /\ \A i \in 1..Len(events') : events'[i] = events[i + 1]
        /\ Len(events) \in Nat
    BY <1>2, <1>21
  <2>2. Alive(2)' = Alive(2)
    BY <1>21 DEF Alive
  <2>3. ASSUME Alive(2), NEW i \in 1..Len(events'), \A j \in i..Len(events') : events'[j] # Gone
        PROVE  events'[i] \in had
    <3>1. ASSUME NEW j \in (i + 1)..Len(events) PROVE events[j] # Gone
      <4>1. j - 1 \in i..Len(events') /\ j - 1 \in 1..Len(events') /\ (j - 1) + 1 = j
        BY <2>1
      <4> QED
        BY <2>1, <2>3, <4>1
    <3>2. i + 1 \in 1..Len(events)
      BY <2>1
    <3> QED
      BY <1>1, <2>1, <2>3, <3>1, <3>2 DEF EventsInv
  <2>4. ASSUME ~Alive(2), Len(events') > 0 PROVE events'[Len(events')] = Gone
    BY <1>1, <2>1, <2>4 DEF EventsInv
  <2>5. EventsInv'
    BY <1>1, <1>21, <2>2, <2>3, <2>4 DEF EventsInv
  <2>6. ASSUME Quiet', Head(events) # Gone PROVE Quiet
    <3>1. ASSUME NEW i \in 1..Len(events), i # 1 PROVE events[i] # Gone
      <4>1. i - 1 \in 1..Len(events') /\ (i - 1) + 1 = i
        BY <2>1, <3>1
      <4>2. events'[i - 1] = events[(i - 1) + 1]
        BY <2>1, <4>1
      <4>3. events'[i - 1] # Gone
        BY <2>6, <4>1 DEF Quiet
      <4> QED
        BY <4>1, <4>2, <4>3
    <3> QED
      BY <2>1, <2>6, <3>1 DEF Quiet
  <2>7. Quiet /\ Alive(2) => Head(events) \in had
    BY <1>1, <2>1 DEF EventsInv, Quiet
  <2>8. ~Alive(2) => ~Quiet
    <3>1. Len(events) \in 1..Len(events)
      BY <2>1
    <3> QED
      BY <1>1, <2>1, <3>1 DEF EventsInv, Quiet
  <2> QED
    BY <2>2, <2>5, <2>6, <2>7, <2>8
<1>17. CASE HandleExit
  <2>1. /\ events # <<>> /\ events' = Tail(events) /\ cache'[2] = NoEntry /\ pc' = "idle"
        /\ NoEntry.cpus = No /\ todo = {} /\ todo' = {} /\ UNCHANGED <<comm, had>>
    BY <1>2, <1>17 DEF HandleExit, NoEntry, Tids
  <2>2. EventsInv'
    BY <1>21, <2>1
  <2> QED
    BY <2>1, <2>2 DEF NamesInv, CacheOfName, CurOfName
<1>18. CASE HandleRename
  <2>1. /\ events # <<>> /\ events' = Tail(events) /\ Head(events) # Gone
        /\ todo = {} /\ todo' = {} /\ UNCHANGED <<comm, had, cache, cfg, updated>>
    BY <1>2, <1>18 DEF HandleRename, TakeUp
  <2>2. ~Alive(2) => ~Quiet'
    <3>1. ASSUME ~Alive(2), Quiet' PROVE FALSE
      <4>1. Len(events) > 0 /\ events[Len(events)] = Gone
        BY <1>1, <1>2, <2>1, <3>1 DEF EventsInv
      <4>2. Len(events) # 1
        BY <1>2, <2>1, <4>1
      <4>3. Len(events') \in 1..Len(events') /\ events'[Len(events')] = Gone
        BY <1>2, <2>1, <4>1, <4>2
      <4> QED
        BY <3>1, <4>3 DEF Quiet
    <3> QED
      BY <3>1
  <2>3. /\ EventsInv' /\ Alive(2)' = Alive(2)
        /\ Quiet' /\ Alive(2) => Quiet /\ Head(events) \in had
    BY <1>21, <2>1, <2>2
  <2>4. CacheOfName => CacheOfName'
    BY <1>4, <2>1 DEF CacheOfName
  <2>5. Head(events) \in had => CurOfName'
    <3>1. CASE TakeUp(2, Head(events), "event")
      BY <1>2, <2>1, <3>1, TakeUpNames
    <3>2. CASE UNCHANGED pc
      BY <1>18, <2>1, <3>2 DEF HandleRename, CurOfName
    <3> QED
      BY <1>18, <3>1, <3>2 DEF HandleRename
  <2> QED
    BY <1>1, <2>1, <2>3, <2>4, <2>5 DEF NamesInv
<1>19. ASSUME NEW t \in Tids, ScanTask(t) \/ TakeSync(t) PROVE NamesInv'
  <2>1. /\ t \in todo /\ todo' = todo \ {t} /\ cur'.tid = t
        /\ UNCHANGED <<comm, had, events, cache, cfg, updated>>
    <3>1. PICK name, of : TakeUp(t, name, of)
      BY <1>19 DEF ScanTask, TakeSync
    <3>2. cur'.tid = t /\ UNCHANGED comm
      BY <3>1 DEF TakeUp
    <3> QED
      BY <1>19, <3>2 DEF ScanTask, TakeSync
  <2>2. EventsInv' /\ Alive(2)' = Alive(2) /\ Quiet' = Quiet
    <3>1. ~Alive(2) /\ Quiet => cache'[2] = NoEntry /\ cur'.tid # 2
      BY <1>1, <2>1 DEF EventsInv
    <3> QED
      BY <1>3, <2>1, <3>1
  <2>3. CacheOfName => CacheOfName'
    BY <1>4, <2>1 DEF CacheOfName
  <2>4. Alive(2) => CurOfName'
    <3>1. CASE t = 1
      BY <2>1, <3>1 DEF CurOfName
    <3>2. CASE TakeSync(t)
      BY <3>2 DEF TakeSync, TakeUp, CurOfName
    <3>3. ASSUME Alive(2), t = 2, ScanTask(t) PROVE CurOfName'
      <4>1. comm[2] \in had /\ TakeUp(2, comm[2], "scan")
        BY <1>1, <3>3 DEF EventsInv, ScanTask
      <4> QED
        BY <1>2, <2>1, <4>1, TakeUpNames
    <3> QED
      BY <1>19, <3>1, <3>2, <3>3 DEF Tids
  <2> QED
    BY <1>1, <2>1, <2>2, <2>3, <2>4 DEF NamesInv
<1>20. CASE Act
  <2> DEFINE r == cur.result
             entry(e) == [comm |-> cur.comm, cpus |-> e.cpus, dir |-> e.dir,
                          isThread |-> e.isThread]
  <2>1. /\ pc = "act" /\ pc' # "act" /\ cur.tid \in Tids
        /\ UNCHANGED <<comm, had, events, todo, cfg, updated>>
    BY <1>20 DEF Act, KindsInv, FitInv
  <2>2. \E e : cache' \in {cache, [cache EXCEPT ![cur.tid] = e]}
    BY <1>20 DEF Act, SyncTask, CacheTask, SetAffinity, JustCache
  <2>3. cur.tid # 2 => cache'[2] = cache[2]
    BY <1>2, <2>1, <2>2 DEF Tids
  <2>4. EventsInv' /\ Alive(2)' = Alive(2) /\ Quiet' = Quiet
    <3>1. ~Alive(2) /\ Quiet => cache'[2] = NoEntry
      BY <1>1, <2>1, <2>3 DEF EventsInv
    <3> QED
      BY <1>3, <2>1, <3>1
  <2>5. ASSUME CacheOfName, CurOfName, cur.tid = 2 PROVE CacheOfName'
    <3> DEFINE old == cache[2]
               new == cache'[2]
    <3>1. NoEntry.cpus = No /\ [NoEntry EXCEPT !.comm = cur.comm].cpus = No
      BY DEF NoEntry
    <3>2. ASSUME NEW e, SetAffinity(e) PROVE new \in {e, NoEntry}
      BY <1>2, <2>1, <2>5, <3>2 DEF SetAffinity, Tids
    <3>3. CASE cur.of = "sync"
      <4>1. new \in {old, NoEntry}
        BY <1>2, <1>20, <2>1, <2>5, <3>2, <3>3 DEF Act, SyncTask, Tids
      <4> QED
        BY <1>4, <2>1, <2>5, <3>1, <4>1 DEF CacheOfName
    <3>4. CASE cur.of # "sync" /\ (~Tracked \/ r = No)
      <4>1. new = old \/ new.cpus = No
        BY <1>2, <1>20, <2>1, <2>5, <3>1, <3>4 DEF Act, CacheTask, JustCache, Tracked, Tids
      <4> QED
        BY <1>4, <2>1, <2>5, <4>1 DEF CacheOfName
    <3>5. CASE cur.of # "sync" /\ Tracked /\ r # No /\ KeepsRule(old, r)
      <4>1. new = entry(old)
        BY <1>2, <1>20, <2>1, <2>5, <3>5 DEF Act, CacheTask, Tids
      <4>2. ResultOfName(cur.comm, r) /\ old.isThread /\ ~r.isThread
        BY <2>1, <2>5, <3>5 DEF CurOfName, KeepsRule
      <4>3. old.cpus # No => EntryOfName(entry(old))
        BY <2>5, <3>5, <4>2 DEF CacheOfName, EntryOfName, ResultOfName
      <4> QED
        BY <1>4, <2>1, <4>1, <4>3 DEF CacheOfName
    <3>6. CASE cur.of # "sync" /\ Tracked /\ r # No /\ ~KeepsRule(old, r)
      <4>1. JustCache(entry(r)) \/ SetAffinity(entry(r))
        BY <1>20, <2>5, <3>6 DEF Act, CacheTask
      <4>2. new \in {entry(r), NoEntry}
        BY <1>2, <2>1, <2>5, <3>2, <4>1 DEF JustCache, Tids
      <4>3. ResultOfName(cur.comm, r)
        BY <2>1, <2>5, <3>6 DEF CurOfName
      <4>4. EntryOfName(entry(r))
        BY <3>6, <4>3 DEF EntryOfName, ResultOfName
      <4> QED
        BY <1>4, <2>1, <3>1, <4>2, <4>4 DEF CacheOfName
    <3> QED
      BY <3>3, <3>4, <3>5, <3>6
  <2>6. CacheOfName /\ cur.tid # 2 => CacheOfName'
    BY <1>4, <2>1, <2>3 DEF CacheOfName
  <2> QED
    BY <1>1, <2>1, <2>4, <2>5, <2>6 DEF NamesInv, CurOfName
<1> QED
  BY <1>7, <1>8, <1>9, <1>10, <1>11, <1>12, <1>13, <1>14, <1>15, <1>16, <1>17, <1>18,
     <1>19, <1>20 DEF Next, Device, Loop

(* With events, however many renames, ends and new threads are behind in   *)
(* the queue and whatever is reloaded in between: worker 2 has the CPUs of *)
(* a name of its own life, never those of the thread that had its number   *)
(* before it, and those of its present entry's rules if there are any.     *)
THEOREM RuleOfOwnName == Spec => []RuleOfItsName
<1> DEFINE I == FitInv /\ KindsInv /\ ConfigInv /\ NamesInv
<1>1. Init => I
  BY InitFits, InitKinds, InitNames
<1>2. I /\ [Next]_vars => I'
  BY NextFits, NextKinds, NextConfigs, NextNames
<1>3. I => RuleOfItsName
  <2> SUFFICES ASSUME I, world.engine = "ebpf", ~updated, Alive(2),
                      Gone \notin {events[i] : i \in DOMAIN events}, cache[2].cpus # No
               PROVE  RuleOfItsName
    BY DEF RuleOfItsName
  <2>1. Quiet
    <3>1. DOMAIN events = 1..Len(events)
      BY DEF KindsInv
    <3> QED
      BY <3>1 DEF Quiet
  <2>2. EntryOfName(cache[2])
    BY <2>1 DEF NamesInv, CacheOfName
  <2> QED
    BY <2>2 DEF EntryOfName, RuleOfItsName, ThreadsOf, PackageOr
<1> QED
  BY <1>1, <1>2, <1>3, PTL DEF Spec

-----------------------------------------------------------------------------
(* What a thread is tuned to.                                              *)

Unset == [min |-> No, max |-> No, nice |-> No]
Fields == {"min", "max", "nice"}
ThreadRules == [pattern : DOMAIN Patterns, min : Option(0..MaxClamp),
                max : Option(0..MaxClamp), nice : Option(-20..19)]

(* v is what the last of the rules is below m give of a field.             *)
LastBelow(rules, is, m, field, v) ==
  \/ v = No /\ \A i \in is : i < m => rules[i][field] = No
  \/ v # No /\ \E i \in is : /\ i < m /\ v = rules[i][field]
                             /\ \A j \in is : j < m /\ rules[j][field] # No => j <= i

LEMMA MergeTypes ==
  ASSUME NEW t \in ThreadTunes, NEW rule \in ThreadRules
  PROVE  Merge(t, rule) \in ThreadTunes
BY DEF Merge, Over, ThreadTunes, ThreadRules

(* st[m] is what the rules hits below m make together.                     *)
RuleByRule(st, rules, hits) ==
  /\ st[0] = Unset /\ st[Len(rules) + 1] = MergeRules(rules, hits)
  /\ \A m \in Nat : st[m + 1] = IF m \in hits THEN Merge(st[m], rules[m]) ELSE st[m]

LEMMA RulesInOrder ==
  ASSUME NEW rules \in Seq(ThreadRules), NEW S \in SUBSET DOMAIN rules
  PROVE  \E st \in [Nat -> ThreadTunes] : RuleByRule(st, rules, S)
<1> DEFINE F(it) == [s \in SUBSET S |-> IF s = {} THEN Unset
                                        ELSE Merge(it[s \ {Max(s)}], rules[Max(s)])]
           it == CHOOSE it : it = F(it)
           op == [x \in ThreadTunes |-> [i \in S |-> Merge(x, rules[i])]]
           Below(k) == {i \in S : i < k}
           st == [m \in Nat |-> it[Below(m)]]
<1>1. MergeRules(rules, S) = it[S]
  BY DEF MergeRules, Ascending, MapThenFoldSet, Unset
<1>n. PICK n \in Nat : n = Len(rules)
  OBVIOUS
<1>s. S \in SUBSET (0..n) /\ \A i \in S : rules[i] \in ThreadRules
  BY <1>n
<1>u. Unset \in ThreadTunes
  BY DEF Unset, ThreadTunes, Option
<1>2. \E g : g = F(g)
  <2>1. op \in Steps(ThreadTunes, S)
    BY <1>s, MergeTypes DEF Steps
  <2>2. \A x \in ThreadTunes, i \in S : op[x][i] = Merge(x, rules[i])
    OBVIOUS
  <2> HIDE DEF op
  <2>3. PICK g \in [SUBSET S -> ThreadTunes] : IsFold(g, Unset, op, S)
    BY <1>s, <1>u, <2>1, InOrder
  <2>4. ASSUME NEW s \in SUBSET S
        PROVE  g[s] = IF s = {} THEN Unset ELSE Merge(g[s \ {Max(s)}], rules[Max(s)])
    <3>1. s # {} => Max(s) \in S
      <4>1. s \in SUBSET (0..n)
        BY <1>s
      <4> QED
        BY <4>1, MaxOf
    <3> QED
      BY <2>2, <2>3, <3>1 DEF IsFold
  <2>5. g = F(g)
    BY <2>4
  <2> QED
    BY <2>5
<1>3. it = F(it)
  BY <1>2
<1> HIDE DEF it
<1>4. \A m \in Nat : Below(m) \in SUBSET S /\ st[m] = it[Below(m)]
  OBVIOUS
<1>5. st[0] = Unset
  <2>1. \A k \in S : ~(k < 0)
    BY <1>s
  <2>2. Below(0) = {}
    BY <2>1, Zenon
  <2> HIDE DEF Below, st
  <2> QED
    BY <1>3, <1>4, <2>2
<1>6. st[n + 1] = it[S]
  <2>1. \A k \in S : k < n + 1
    BY <1>s
  <2>2. Below(n + 1) = S
    BY <2>1, Zenon
  <2> HIDE DEF Below, st
  <2> QED
    BY <1>4, <2>2
<1>7. ASSUME NEW m \in Nat PROVE st[m + 1] = IF m \in S THEN Merge(st[m], rules[m]) ELSE st[m]
  <2>1. /\ m \notin S => Below(m + 1) = Below(m)
        /\ m \in S => /\ Below(m + 1) # {} /\ Max(Below(m + 1)) = m
                      /\ Below(m + 1) \ {m} = Below(m)
    BY <1>s, TakeNext
  <2> HIDE DEF Below, st
  <2>2. st[m] = it[Below(m)] /\ st[m + 1] = it[Below(m + 1)] /\ Below(m + 1) \in SUBSET S
    BY <1>4
  <2>3. it[Below(m + 1)] = IF Below(m + 1) = {} THEN Unset
          ELSE Merge(it[Below(m + 1) \ {Max(Below(m + 1))}], rules[Max(Below(m + 1))])
    BY <1>3, <2>2
  <2> QED
    BY <2>1, <2>2, <2>3
<1>8. st \in [Nat -> ThreadTunes]
  <2> DEFINE P == {m \in Nat : st[m] \in ThreadTunes}
  <2> HIDE DEF st
  <2>1. 0 \in P
    BY <1>5, <1>u
  <2>2. ASSUME NEW m \in P PROVE m + 1 \in P
    <3>1. m \in Nat /\ m + 1 \in Nat /\ st[m] \in ThreadTunes
      OBVIOUS
    <3>2. m \in S => Merge(st[m], rules[m]) \in ThreadTunes
      BY <1>s, <3>1, MergeTypes
    <3>3. st[m + 1] = IF m \in S THEN Merge(st[m], rules[m]) ELSE st[m]
      BY <1>7, <3>1
    <3>4. st[m + 1] \in ThreadTunes
      BY <3>1, <3>2, <3>3
    <3> QED
      BY <3>1, <3>4
  <2>3. P = Nat
    <3>1. P \in SUBSET Nat
      OBVIOUS
    <3> HIDE DEF P
    <3> QED
      BY <2>1, <2>2, <3>1, NatSet
  <2>4. \A m \in Nat : st[m] \in ThreadTunes
    BY <2>3
  <2> QED
    BY <2>4 DEF st
<1> HIDE DEF st
<1> QED
  BY <1>1, <1>n, <1>5, <1>6, <1>7, <1>8 DEF RuleByRule

(* The rules together give the last value that one of them has.            *)
LEMMA MergedLast ==
  ASSUME NEW rules \in Seq(ThreadRules), NEW hits \in SUBSET DOMAIN rules, NEW field \in Fields
  PROVE  LastBelow(rules, hits, Len(rules) + 1, field, MergeRules(rules, hits)[field])
<1>1. PICK st \in [Nat -> ThreadTunes] : RuleByRule(st, rules, hits)
  BY RulesInOrder
<1>2. /\ st[0] = Unset /\ st[Len(rules) + 1] = MergeRules(rules, hits)
      /\ \A m \in Nat : st[m + 1] = IF m \in hits THEN Merge(st[m], rules[m]) ELSE st[m]
  BY <1>1 DEF RuleByRule
<1>3. \A i \in hits : i \in Nat /\ i >= 1
  OBVIOUS
<1>4. ASSUME NEW t, NEW rule
      PROVE  Merge(t, rule)[field] = IF rule[field] = No THEN t[field] ELSE rule[field]
  BY DEF Merge, Over, Fields
<1> DEFINE P == {m \in Nat : LastBelow(rules, hits, m, field, st[m][field])}
<1>5. 0 \in P
  <2>1. st[0][field] = No
    BY <1>2 DEF Unset, Fields
  <2>2. \A i \in hits : ~(i < 0)
    BY <1>3
  <2> QED
    BY <2>1, <2>2 DEF LastBelow
<1>6. ASSUME NEW m \in P PROVE m + 1 \in P
  <2>1. m \in Nat /\ m + 1 \in Nat /\ LastBelow(rules, hits, m, field, st[m][field])
    OBVIOUS
  <2>2. \A i \in hits : i < m + 1 <=> i < m \/ i = m
    BY <1>3, <2>1
  <2>3. CASE m \notin hits
    <3>1. st[m + 1] = st[m]
      BY <1>2, <2>1, <2>3
    <3>2. \A i \in hits : i < m + 1 <=> i < m
      BY <2>2, <2>3
    <3>3. LastBelow(rules, hits, m + 1, field, st[m + 1][field])
      BY <2>1, <3>1, <3>2, Zenon DEF LastBelow
    <3> QED
      BY <2>1, <3>3
  <2>4. CASE m \in hits
    <3>1. st[m + 1][field] = IF rules[m][field] = No THEN st[m][field] ELSE rules[m][field]
      <4>1. st[m + 1] = Merge(st[m], rules[m])
        BY <1>2, <2>1, <2>4
      <4> QED
        BY <1>4, <4>1
    <3>2. CASE rules[m][field] = No
      <4>1. st[m + 1][field] = st[m][field]
        BY <3>1, <3>2
      <4>2. LastBelow(rules, hits, m + 1, field, st[m + 1][field])
        BY <2>1, <2>2, <3>2, <4>1, Zenon DEF LastBelow
      <4> QED
        BY <2>1, <4>2
    <3>3. CASE rules[m][field] # No
      <4>1. st[m + 1][field] = rules[m][field]
        BY <3>1, <3>3
      <4>2. m < m + 1 /\ \A j \in hits : j < m + 1 => j <= m
        BY <1>3, <2>1
      <4>3. LastBelow(rules, hits, m + 1, field, st[m + 1][field])
        BY <2>4, <3>3, <4>1, <4>2, Zenon DEF LastBelow
      <4> QED
        BY <2>1, <4>3
    <3> QED
      BY <3>2, <3>3
  <2> QED
    BY <2>3, <2>4
<1>7. Len(rules) + 1 \in P
  <2>1. P \in SUBSET Nat /\ Len(rules) + 1 \in Nat
    OBVIOUS
  <2> HIDE DEF P
  <2> QED
    BY <1>5, <1>6, <2>1, NatSet
<1> QED
  BY <1>2, <1>7

LEMMA AppOfDoc ==
  ASSUME NEW w \in Worlds, NEW doc \in w.docs, TuningOf(doc) # {}
  PROVE  \E i \in DOMAIN doc.apps : App(doc) = doc.apps[i] /\ App(doc).threads \in Seq(ThreadRules)
<1>1. DOMAIN doc.apps \subseteq Nat
  BY WorldAssumption
<1>2. TuningOf(doc) \in SUBSET Nat /\ TuningOf(doc) \subseteq DOMAIN doc.apps
  BY <1>1 DEF TuningOf
<1>3. \E i \in TuningOf(doc) : \A j \in TuningOf(doc) : i <= j
  BY <1>2, NatMin
<1>4. PICK i \in TuningOf(doc) : App(doc) = doc.apps[i]
  BY <1>3 DEF App
<1>5. doc.apps[i].threads \in Seq(ThreadRules)
  BY <1>2, WorldAssumption DEF ThreadRules
<1> QED
  BY <1>2, <1>4, <1>5

(* What effective_thread_tune finds for a name.                            *)
LEMMA TuneIsLast ==
  ASSUME world \in Worlds, tuning \in world.docs, NEW c, NEW field \in Fields
  PROVE  /\ Tune(c) = No => LastGiven(c, field) = No
         /\ Tune(c) # No => Tune(c) \in ThreadTunes /\ Tune(c)[field] = LastGiven(c, field)
<1>1. CASE TuningOf(tuning) = {}
  <2>1. Tune(c) = No
    BY <1>1 DEF Tune
  <2>2. LastGiven(c, field) = No
    BY <1>1 DEF LastGiven
  <2> QED
    BY <2>1, <2>2
<1>2. CASE TuningOf(tuning) # {}
  <2> DEFINE rules == App(tuning).threads
             hits == {i \in DOMAIN rules : c \in Patterns[rules[i].pattern]}
             giving == {i \in DOMAIN rules : c \in Patterns[rules[i].pattern] /\ rules[i][field] # No}
             last == CHOOSE i \in giving : \A j \in giving : j <= i
  <2>1. Tune(c) = IF hits = {} THEN No ELSE MergeRules(rules, hits)
    BY <1>2 DEF Tune, EffectiveThreadTune
  <2>2. LastGiven(c, field) = IF giving = {} THEN No ELSE rules[last][field]
    BY <1>2 DEF LastGiven
  <2>3. rules \in Seq(ThreadRules)
    BY <1>2, AppOfDoc
  <2>4. \A i : i \in giving <=> i \in hits /\ rules[i][field] # No
    OBVIOUS
  <2>5. hits \in SUBSET DOMAIN rules
    OBVIOUS
  <2> HIDE DEF rules, hits, giving
  <2>6. CASE hits = {}
    <3>1. giving = {}
      BY <2>4, <2>6
    <3> QED
      BY <2>1, <2>2, <2>6, <3>1
  <2>7. CASE hits # {}
    <3>1. PICK v : v = MergeRules(rules, hits)[field]
      OBVIOUS
    <3>2. LastBelow(rules, hits, Len(rules) + 1, field, v)
      BY <2>3, <2>5, <3>1, MergedLast
    <3>3. \A i \in hits : i \in Nat /\ i < Len(rules) + 1
      BY <2>3, <2>5
    <3>4. v = LastGiven(c, field)
      <4>1. CASE v = No /\ \A i \in hits : i < Len(rules) + 1 => rules[i][field] = No
        <5>1. giving = {}
          BY <2>4, <3>3, <4>1
        <5> QED
          BY <2>2, <4>1, <5>1
      <4>2. CASE v # No /\ \E i \in hits : /\ i < Len(rules) + 1 /\ v = rules[i][field]
                             /\ \A j \in hits : j < Len(rules) + 1 /\ rules[j][field] # No => j <= i
        <5>1. PICK i \in hits : /\ v = rules[i][field]
                                /\ \A j \in hits : j < Len(rules) + 1 /\ rules[j][field] # No => j <= i
          BY <4>2
        <5>2. i \in giving /\ \A j \in giving : j <= i
          BY <2>4, <3>3, <4>2, <5>1
        <5>3. last \in giving /\ \A j \in giving : j <= last
          BY <5>2
        <5> HIDE DEF last
        <5>4. last <= i /\ i <= last /\ last \in Nat /\ i \in Nat
          BY <2>4, <3>3, <5>2, <5>3
        <5>5. last = i
          BY <5>4
        <5> QED
          BY <2>2, <5>1, <5>2, <5>5
      <4> QED
        BY <3>2, <4>1, <4>2 DEF LastBelow
    <3>5. MergeRules(rules, hits) \in ThreadTunes
      <4>1. PICK st \in [Nat -> ThreadTunes] : RuleByRule(st, rules, hits)
        BY <2>3, <2>5, RulesInOrder
      <4>2. Len(rules) + 1 \in Nat
        BY <2>3
      <4> QED
        BY <4>1, <4>2 DEF RuleByRule
    <3>6. MergeRules(rules, hits) # No
      BY <3>5, NoAssumption
    <3> QED
      BY <2>1, <2>7, <3>1, <3>4, <3>5, <3>6
  <2> QED
    BY <2>6, <2>7
<1> QED
  BY <1>1, <1>2

-----------------------------------------------------------------------------
(* The nice value and the clamps of a task are those of the rules for c.   *)
Knobs(t, c) ==
  LET n == LastGiven(c, "nice")
      lo == LastGiven(c, "min")
      hi == LastGiven(c, "max") IN
  /\ n # No => nice[t] = n
  /\ No \notin {lo, hi} /\ lo <= hi => clamp[t] = [min |-> lo, max |-> hi]
  /\ lo # No /\ hi = No => clamp[t].min = lo \/ clamp[t].max < lo
  /\ hi # No /\ lo = No => clamp[t].max = hi \/ clamp[t].min > hi

(* What is in hand was found for a name that, when the cache is gone       *)
(* through, is the one of the entry.                                       *)
KnobsInv ==
  /\ DOMAIN tuned = Tids /\ DOMAIN nice = Tids
  /\ clamp \in [Tids -> [min : Int, max : Int]]
  /\ cur.tune = No => cur.seen = No
  /\ cur.tune # No => cur.tune \in ThreadTunes
  /\ pc = "act" /\ cur.of = "sync" => cur.comm = cache[cur.tid].comm
  /\ \A t \in Tids : Alive(t) /\ Cached(t) /\ tuned[t] => Knobs(t, cache[t].comm)

LEMMA InitKnobs == Init => KnobsInv
<1> SUFFICES ASSUME Init PROVE KnobsInv
  OBVIOUS
<1>1. DOMAIN tuned = Tids /\ DOMAIN nice = Tids /\ \A t \in Tids : tuned[t] = FALSE
  BY DEF Init
<1>2. clamp \in [Tids -> [min : Int, max : Int]]
  BY NumbersAssumption DEF Init
<1>3. cur.tune = No /\ cur.seen = No /\ pc = "idle"
  BY DEF Init, Nobody
<1> QED
  BY <1>1, <1>2, <1>3 DEF KnobsInv

LEMMA TakeUpKnobs ==
  ASSUME FitInv, KindsInv, KnobsInv, NEW t \in Tids, NEW name, NEW of, TakeUp(t, name, of),
         of = "sync" => name = cache[t].comm, UNCHANGED <<world, tuning, cache, tuned>>
  PROVE  KnobsInv'
<1>1. UNCHANGED <<comm, nice, clamp>>
  BY DEF TakeUp
<1> DEFINE c == IF of = "sync" \/ cfg.threads THEN name ELSE Unnamed
<1>n. of = "sync" => c = name
  OBVIOUS
<1>2. PICK r, m :
        cur' = [tid |-> t, comm |-> c, of |-> of, matched |-> m, result |-> r, tune |-> Tune(c),
                seen |-> IF Alive(t) /\ Clamps(Tune(c)) THEN nice[t] ELSE No]
  BY Zenon DEF TakeUp
<1> HIDE DEF c
<1>3. world \in Worlds /\ tuning \in world.docs
  BY DEF FitInv, KindsInv
<1>4. Tune(c) # No => Tune(c) \in ThreadTunes
  BY <1>3, TuneIsLast DEF Fields
<1>5. Tune(c) = No => ~Clamps(Tune(c))
  BY DEF Clamps
<1>6. /\ cur'.tune = No => cur'.seen = No
      /\ cur'.tune # No => cur'.tune \in ThreadTunes
      /\ cur'.of = "sync" => cur'.comm = cache'[cur'.tid].comm
  BY <1>n, <1>2, <1>4, <1>5
<1>7. ASSUME NEW u \in Tids, (Alive(u) /\ Cached(u) /\ tuned[u])' PROVE Knobs(u, cache[u].comm)'
  <2>1. Knobs(u, cache[u].comm)
    BY <1>1, <1>7 DEF KnobsInv, Alive, Cached
  <2>2. \A cc, f : LastGiven(cc, f)' = LastGiven(cc, f)
    BY DEF LastGiven, TuningOf, App
  <2> QED
    BY <1>1, <2>1, <2>2 DEF Knobs
<1> QED
  BY <1>1, <1>6, <1>7 DEF KnobsInv

(* set_uclamp and setpriority as the rules together say.                   *)
LEMMA SetKnobsWell ==
  ASSUME FitInv, KindsInv, KnobsInv, SetKnobs, UNCHANGED <<comm, tuning>>
  PROVE  /\ DOMAIN tuned' = Tids /\ DOMAIN nice' = Tids
         /\ clamp' \in [Tids -> [min : Int, max : Int]]
         /\ \A u \in Tids \ {cur.tid} :
              tuned'[u] = tuned[u] /\ nice'[u] = nice[u] /\ clamp'[u] = clamp[u]
         /\ \A t, c : t = cur.tid /\ c = cur.comm /\ tuned'[t] =>
              Knobs(t, c)' /\ Alive(t) /\ (cur.of = "sync" \/ Tracked)
<1> DEFINE t == cur.tid
           tune == cur.tune
           clamps == cur.seen # No /\ Alive(t) /\ Accepted(clamp[t], tune)
<1>1. /\ clamp' = [clamp EXCEPT ![t] = IF clamps THEN Clamped(clamp[t], tune) ELSE clamp[t]]
      /\ nice' = [nice EXCEPT ![t] = IF tune # No /\ Alive(t)
            THEN Over(IF clamps THEN cur.seen ELSE nice[t], tune.nice) ELSE nice[t]]
      /\ tuned' = [tuned EXCEPT ![t] =
            /\ Alive(t) /\ (Clamps(tune) => cur.seen # No)
            /\ (cur.of = "sync" \/ Tracked) /\ tune = Tune(cur.comm)]
  BY DEF SetKnobs
<1>2. t \in Tids /\ clamp[t] \in [min : Int, max : Int]
  BY DEF FitInv, KnobsInv
<1>3. clamps => tune \in ThreadTunes
  BY DEF KnobsInv
<1>4. \A x \in Option(0..MaxClamp) : x # No => x \in Int
  BY NumbersAssumption DEF Option
<1>5. clamps => Clamped(clamp[t], tune) \in [min : Int, max : Int]
  BY <1>2, <1>3, <1>4 DEF Clamped, Over, ThreadTunes
<1>6. clamp' \in [Tids -> [min : Int, max : Int]]
  <2> HIDE DEF clamps
  <2> QED
    BY <1>1, <1>2, <1>5 DEF KnobsInv
<1>7. DOMAIN tuned' = Tids /\ DOMAIN nice' = Tids
  BY <1>1 DEF KnobsInv
<1>8. \A u \in Tids \ {t} : tuned'[u] = tuned[u] /\ nice'[u] = nice[u] /\ clamp'[u] = clamp[u]
  <2> HIDE DEF clamps, t, tune
  <2> QED
    BY <1>1 DEF KnobsInv
<1>9. ASSUME NEW c, c = cur.comm, NEW u, u = cur.tid, tuned'[u]
      PROVE  Knobs(u, c)' /\ Alive(u) /\ (cur.of = "sync" \/ Tracked)
  <2>1. /\ Alive(u) /\ (Clamps(tune) => cur.seen # No)
        /\ (cur.of = "sync" \/ Tracked) /\ tune = Tune(c)
    BY <1>1, <1>2, <1>9 DEF KnobsInv
  <2>2. PICK n, lo, hi : n = LastGiven(c, "nice") /\ lo = LastGiven(c, "min")
                         /\ hi = LastGiven(c, "max")
    OBVIOUS
  <2>3. n = LastGiven(c, "nice")' /\ lo = LastGiven(c, "min")' /\ hi = LastGiven(c, "max")'
    <3>1. \A cc, f : LastGiven(cc, f)' = LastGiven(cc, f)
      BY DEF LastGiven, TuningOf, App
    <3> QED
      BY <2>2, <3>1
  <2>4. /\ Tune(c) = No => n = No /\ lo = No /\ hi = No
        /\ Tune(c) # No => /\ Tune(c) \in ThreadTunes
                           /\ Tune(c).nice = n /\ Tune(c).min = lo /\ Tune(c).max = hi
    <3>1. world \in Worlds /\ tuning \in world.docs
      BY DEF FitInv, KindsInv
    <3> QED
      BY <2>2, <3>1, TuneIsLast DEF Fields
  <2>5. SUFFICES /\ n # No => nice'[u] = n
                 /\ No \notin {lo, hi} /\ lo <= hi => clamp'[u] = [min |-> lo, max |-> hi]
                 /\ lo # No /\ hi = No => clamp'[u].min = lo \/ clamp'[u].max < lo
                 /\ hi # No /\ lo = No => clamp'[u].max = hi \/ clamp'[u].min > hi
    BY <2>1, <2>3 DEF Knobs
  <2>6. CASE Tune(c) = No
    BY <2>4, <2>6
  <2>7. CASE Tune(c) # No
    <3>1. tune.nice = n /\ tune.min = lo /\ tune.max = hi /\ tune # No /\ tune \in ThreadTunes
      BY <2>1, <2>4, <2>7
    <3>2. n # No => nice'[u] = n
      <4>1. nice'[u] = Over(IF clamps THEN cur.seen ELSE nice[u], n)
        BY <1>1, <1>2, <1>9, <2>1, <3>1 DEF KnobsInv
      <4> QED
        BY <4>1 DEF Over
    <3>3. PICK old : old = clamp[u]
      OBVIOUS
    <3>4. old.min \in Int /\ old.max \in Int /\ (lo # No => lo \in Int) /\ (hi # No => hi \in Int)
      BY <1>2, <1>4, <1>9, <3>1, <3>3 DEF ThreadTunes
    <3>5. Clamped(old, tune) = [min |-> IF lo = No THEN old.min ELSE lo,
                                max |-> IF hi = No THEN old.max ELSE hi]
      BY <3>1 DEF Clamped, Over
    <3>6. Accepted(old, tune) <=> (IF lo = No THEN old.min ELSE lo) <= (IF hi = No THEN old.max ELSE hi)
      BY <3>5 DEF Accepted
    <3>7. clamp'[u] = IF cur.seen # No /\ Accepted(old, tune) THEN Clamped(old, tune) ELSE old
      BY <1>1, <1>2, <1>9, <2>1, <3>3 DEF KnobsInv
    <3>8. Clamps(tune) <=> ({lo, hi} # {No} /\ (No \notin {lo, hi} => lo <= hi))
      BY <3>1 DEF Clamps
    <3>9. CASE lo # No /\ hi # No
      <4>1. lo <= hi => cur.seen # No /\ Accepted(old, tune)
        BY <2>1, <3>6, <3>8, <3>9
      <4> QED
        BY <3>2, <3>5, <3>7, <3>9, <4>1
    <3>10. CASE lo # No /\ hi = No
      <4>1. cur.seen # No
        BY <2>1, <3>8, <3>10
      <4>2. CASE lo <= old.max
        BY <3>2, <3>5, <3>6, <3>7, <3>10, <4>1, <4>2
      <4>3. CASE old.max < lo
        <5>1. ~(lo <= old.max)
          BY <3>4, <3>10, <4>3
        <5>2. clamp'[u] = old
          BY <3>6, <3>7, <3>10, <5>1
        <5> QED
          BY <3>2, <3>10, <4>3, <5>2
      <4> QED
        BY <3>4, <3>10, <4>2, <4>3
    <3>11. CASE lo = No /\ hi # No
      <4>1. cur.seen # No
        BY <2>1, <3>8, <3>11
      <4>2. CASE old.min <= hi
        BY <3>2, <3>5, <3>6, <3>7, <3>11, <4>1, <4>2
      <4>3. CASE old.min > hi
        <5>1. ~(old.min <= hi)
          BY <3>4, <3>11, <4>3
        <5>2. clamp'[u] = old
          BY <3>6, <3>7, <3>11, <5>1
        <5> QED
          BY <3>2, <3>11, <4>3, <5>2
      <4> QED
        BY <3>4, <3>11, <4>2, <4>3
    <3>12. CASE lo = No /\ hi = No
      BY <3>2, <3>12
    <3> QED
      BY <3>9, <3>10, <3>11, <3>12
  <2> QED
    BY <2>6, <2>7
<1> QED
  BY <1>6, <1>7, <1>8, <1>9

(* Steps that tune no task.                                                *)
LEMMA KeepsKnobs ==
  ASSUME KnobsInv, DOMAIN tuned' = Tids, DOMAIN nice' = Tids,
         clamp' \in [Tids -> [min : Int, max : Int]],
         cur' = cur \/ cur' = Nobody,
         pc' = "act" /\ cur'.of = "sync" => pc = "act" /\ cur' = cur /\ cache' = cache,
         \A t \in Tids : (Alive(t) /\ Cached(t) /\ tuned[t])' =>
            /\ Alive(t) /\ tuned[t] /\ cache'[t] = cache[t]
            /\ nice'[t] = nice[t] /\ clamp'[t] = clamp[t] /\ tuning' = tuning
  PROVE  KnobsInv'
<1>1. ASSUME NEW t \in Tids, (Alive(t) /\ Cached(t) /\ tuned[t])' PROVE Knobs(t, cache[t].comm)'
  <2>1. Knobs(t, cache[t].comm)
    BY <1>1 DEF KnobsInv, Cached
  <2>2. tuning' = tuning /\ cache'[t] = cache[t] /\ nice'[t] = nice[t] /\ clamp'[t] = clamp[t]
    BY <1>1
  <2>3. \A cc, f : LastGiven(cc, f)' = LastGiven(cc, f)
    BY <2>2 DEF LastGiven, TuningOf, App
  <2> QED
    BY <2>1, <2>2, <2>3 DEF Knobs
<1>2. Nobody.tune = No /\ Nobody.seen = No
  BY DEF Nobody
<1> QED
  BY <1>1, <1>2 DEF KnobsInv

LEMMA ActKnobs == FitInv /\ KindsInv /\ KnobsInv /\ Act => KnobsInv'
<1> SUFFICES ASSUME FitInv, KindsInv, KnobsInv, Act PROVE KnobsInv'
  OBVIOUS
<1>1. PICK t, c : t = cur.tid /\ c = cur.comm
  OBVIOUS
<1>2. SetKnobs /\ UNCHANGED <<comm, tuning>> /\ cur' = Nobody /\ pc' # "act" /\ pc = "act"
      /\ (IF cur.of = "sync" THEN SyncTask ELSE CacheTask)
  BY DEF Act, webVars, KindsInv
<1>3. /\ DOMAIN tuned' = Tids /\ DOMAIN nice' = Tids
      /\ clamp' \in [Tids -> [min : Int, max : Int]]
      /\ \A u \in Tids \ {t} : tuned'[u] = tuned[u] /\ nice'[u] = nice[u] /\ clamp'[u] = clamp[u]
      /\ tuned'[t] => Knobs(t, c)' /\ Alive(t) /\ (cur.of = "sync" \/ Tracked)
  BY <1>1, <1>2, SetKnobsWell
<1>4. t \in Tids /\ DOMAIN cache = Tids
  BY <1>1 DEF FitInv
<1>5. \A u \in Tids \ {t} : cache'[u] = cache[u]
  BY <1>1, <1>2, <1>4 DEF SyncTask, CacheTask, SetAffinity, JustCache
<1>6. ASSUME tuned'[t], cache'[t] # NoEntry PROVE cache'[t].comm = c
  <2>1. CASE cur.of = "sync"
    <3>1. cache[t].comm = c
      BY <1>1, <1>2, <2>1 DEF KnobsInv
    <3>2. cache'[t] = cache[t]
      BY <1>1, <1>2, <1>3, <1>4, <1>6, <2>1 DEF SyncTask, SetAffinity
    <3> QED
      BY <3>1, <3>2
  <2>2. CASE cur.of # "sync"
    <3> DEFINE r == cur.result
               old == cache[cur.tid]
               entry(e) == [comm |-> cur.comm, cpus |-> e.cpus, dir |-> e.dir,
                            isThread |-> e.isThread]
    <3>1. Tracked /\ CacheTask /\ Alive(t)
      BY <1>2, <1>3, <1>6, <2>2
    <3>2. ASSUME NEW e, JustCache(e) \/ SetAffinity(e) PROVE cache'[t] = e
      BY <1>1, <1>4, <3>1, <3>2 DEF JustCache, SetAffinity
    <3>3. CASE r = No
      <4>1. JustCache([NoEntry EXCEPT !.comm = cur.comm])
        BY <3>1, <3>3 DEF CacheTask
      <4> QED
        BY <1>1, <3>2, <4>1 DEF NoEntry
    <3>4. CASE r # No /\ KeepsRule(old, r)
      <4>1. cache' = [cache EXCEPT ![cur.tid] = entry(old)]
        BY <3>1, <3>4 DEF CacheTask
      <4> QED
        BY <1>1, <1>4, <4>1
    <3>5. CASE r # No /\ ~KeepsRule(old, r)
      <4>1. JustCache(entry(r)) \/ SetAffinity(entry(r))
        BY <3>1, <3>5 DEF CacheTask
      <4> QED
        BY <1>1, <3>2, <4>1
    <3> QED
      BY <3>3, <3>4, <3>5
  <2> QED
    BY <2>1, <2>2
<1>7. ASSUME NEW u \in Tids, (Alive(u) /\ Cached(u) /\ tuned[u])' PROVE Knobs(u, cache[u].comm)'
  <2>1. CASE u = t
    <3>1. cache'[u].comm = c
      BY <1>6, <1>7, <2>1 DEF Cached
    <3>2. Knobs(u, c)'
      BY <1>3, <1>7, <2>1
    <3> QED
      BY <3>1, <3>2 DEF Knobs
  <2>2. CASE u # t
    <3>1. /\ tuned'[u] = tuned[u] /\ nice'[u] = nice[u] /\ clamp'[u] = clamp[u]
          /\ cache'[u] = cache[u]
      BY <1>3, <1>5, <2>2
    <3>2. Knobs(u, cache[u].comm)
      BY <1>2, <1>7, <3>1 DEF KnobsInv, Alive, Cached
    <3>3. \A cc, f : LastGiven(cc, f)' = LastGiven(cc, f)
      BY <1>2 DEF LastGiven, TuningOf, App
    <3> QED
      BY <3>1, <3>2, <3>3 DEF Knobs
  <2> QED
    BY <2>1, <2>2
<1>8. cur'.tune = No /\ cur'.seen = No
  BY <1>2 DEF Nobody
<1> QED
  BY <1>2, <1>3, <1>7, <1>8 DEF KnobsInv

LEMMA NextKnobs == FitInv /\ KindsInv /\ KnobsInv /\ [Next]_vars => KnobsInv'
<1> SUFFICES ASSUME FitInv, KindsInv, KnobsInv, [Next]_vars PROVE KnobsInv'
  OBVIOUS
<1> USE DEF kernelVars, webVars, mainVars, history
<1>1. Tids = {1, 2} /\ DOMAIN cache = Tids
  BY DEF Tids, FitInv
<1>2. CASE \/ UNCHANGED vars \/ EndScan \/ EndSync \/ Sync \/ Fetch \/ CreateBase \/ Reload
           \/ (\E rules \in world.files : EditFile(rules)) \/ (\E b \in world.bases : SetBase(b))
  <2>1. UNCHANGED <<comm, tuned, nice, clamp, tuning, cur, cache>> /\ (pc' = pc \/ pc' \in {"sync", "idle"})
    BY <1>2 DEF vars, EndScan, EndSync, Sync, Fetch, CreateBase, Reload, EditFile, SetBase
  <2> QED
    BY <2>1, KeepsKnobs DEF KnobsInv, Alive, Cached
<1>3. CASE (\E c \in world.comms : Rename(c))
  <2>1. UNCHANGED <<tuned, nice, clamp, tuning, cur, cache, pc>> /\ \A t \in Tids : Alive(t)' => Alive(t)
    BY <1>1, <1>3 DEF Rename, KindsInv, Alive
  <2> QED
    BY <2>1, KeepsKnobs DEF KnobsInv, Cached
<1>4. CASE End
  <2>1. UNCHANGED <<tuned, nice, clamp, tuning, cur, cache, pc>> /\ \A t \in Tids : Alive(t)' => Alive(t)
    BY <1>1, <1>4 DEF End, KindsInv, Alive
  <2> QED
    BY <2>1, KeepsKnobs DEF KnobsInv, Cached
<1>5. CASE Begin
  <2>1. /\ UNCHANGED <<tuning, cur, cache, pc>> /\ comm' = [comm EXCEPT ![2] = Main]
        /\ nice' = [nice EXCEPT ![2] = nice[1]] /\ clamp' = [clamp EXCEPT ![2] = clamp[1]]
        /\ tuned' = [tuned EXCEPT ![2] = FALSE]
    BY <1>5 DEF Begin
  <2>2. clamp' \in [Tids -> [min : Int, max : Int]]
    BY <1>1, <2>1 DEF KnobsInv
  <2>3. \A t \in Tids : (Alive(t) /\ tuned[t])' => Alive(t) /\ tuned[t] /\ nice'[t] = nice[t] /\ clamp'[t] = clamp[t]
    BY <1>1, <2>1 DEF KnobsInv, KindsInv, Alive
  <2> QED
    BY <2>1, <2>2, <2>3, KeepsKnobs DEF KnobsInv
<1>6. CASE \E t \in world.moved : Displace(t, No, SystemCpus) \/ \E m \in world.masks : Displace(t, cset[t], m)
  <2>1. UNCHANGED <<comm, tuned, nice, clamp, tuning, cur, cache, pc>>
    BY <1>6 DEF Displace
  <2> QED
    BY <2>1, KeepsKnobs DEF KnobsInv, Alive, Cached
<1>7. CASE \E t \in world.moved, n \in world.nices : Renice(t, n)
  <2>1. PICK t, n : nice' = [nice EXCEPT ![t] = n] /\ tuned' = [tuned EXCEPT ![t] = FALSE]
                    /\ UNCHANGED <<comm, clamp, tuning, cur, cache, pc>>
    BY <1>7 DEF Renice
  <2>2. \A u \in Tids : tuned'[u] => tuned[u] /\ nice'[u] = nice[u]
    BY <2>1 DEF KnobsInv
  <2> QED
    BY <2>1, <2>2, KeepsKnobs DEF KnobsInv, Alive
<1>8. CASE \E doc \in world.docs : SaveTuning(doc)
  <2>1. tuned' = [t \in Tids |-> FALSE] /\ UNCHANGED <<comm, nice, clamp, cur, cache, pc>>
    BY <1>8 DEF SaveTuning
  <2> QED
    BY <2>1, KeepsKnobs DEF KnobsInv
<1>9. CASE Rescan
  <2>1. /\ cache' = [t \in Tids |-> NoEntry] /\ UNCHANGED <<comm, nice, clamp, cur, tuned, tuning>>
        /\ pc' = "scan"
    BY <1>9 DEF Rescan
  <2> QED
    BY <2>1, KeepsKnobs DEF KnobsInv, Cached
<1>10. CASE HandleExit
  <2>1. /\ cache' = [cache EXCEPT ![2] = NoEntry] /\ UNCHANGED <<comm, nice, clamp, cur, tuned, tuning, pc>>
        /\ pc = "idle"
    BY <1>10 DEF HandleExit
  <2>2. \A t \in Tids : Cached(t)' => cache'[t] = cache[t]
    BY <1>1, <2>1 DEF Cached
  <2> QED
    BY <2>1, <2>2, KeepsKnobs DEF KnobsInv, Alive
<1>11. CASE HandleRename
  <2>1. CASE Cached(1)
    BY <1>1, <1>11, <2>1, TakeUpKnobs DEF HandleRename
  <2>2. CASE ~Cached(1)
    <3>1. UNCHANGED <<comm, tuned, nice, clamp, tuning, cur, cache, pc>>
      BY <1>11, <2>2 DEF HandleRename
    <3> QED
      BY <3>1, KeepsKnobs DEF KnobsInv, Alive, Cached
  <2> QED
    BY <2>1, <2>2
<1>12. CASE \E t \in Tids : ScanTask(t) \/ TakeSync(t)
  <2>1. PICK t \in Tids : ScanTask(t) \/ TakeSync(t)
    BY <1>12
  <2>2. PICK name, of : /\ TakeUp(t, name, of) /\ (of = "sync" => name = cache[t].comm)
                        /\ UNCHANGED <<world, tuning, cache, tuned>>
    BY <2>1 DEF ScanTask, TakeSync
  <2> QED
    BY <2>2, TakeUpKnobs
<1>13. CASE Act
  BY <1>13, ActKnobs
<1> QED
  BY <1>2, <1>3, <1>4, <1>5, <1>6, <1>7, <1>8, <1>9, <1>10, <1>11, <1>12, <1>13
     DEF Next, Device, Requests, Loop

(* Whatever rules are saved and whichever tasks are renamed, end and come  *)
(* again: a task that was tuned and then left alone has what the last of   *)
(* the rules for its name give, field by field.                            *)
THEOREM LastRulesTune == Spec => []TunedByLastRules
<1> DEFINE I == FitInv /\ KindsInv /\ KnobsInv
<1>1. Init => I
  BY InitFits, InitKinds, InitKnobs
<1>2. I /\ [Next]_vars => I'
  BY NextFits, NextKinds, NextKnobs
<1>3. I => TunedByLastRules
  BY DEF KnobsInv, Knobs, TunedByLastRules
<1> QED
  BY <1>1, <1>2, <1>3, PTL DEF Spec
=============================================================================
