--------------------------- MODULE SequenceLemmas ---------------------------
(* What the operators on sequences return that the models are built from.   *)
(* Each of them is a recursive function, so the first lemmas are about      *)
(* those.                                                                   *)
EXTENDS Filter, SequencesExt, FiniteSetTheorems, WellFoundedInduction, TLAPS

LessThan == {p \in Nat \X Nat : p[1] < p[2]}

(* A non-empty set of numbers has a least element.                          *)
LEMMA Least ==
  ASSUME NEW T \in SUBSET Nat, T # {}
  PROVE  \E x \in T : \A y \in T : x <= y
<1>1. IsWellFoundedOn(LessThan, Nat)
  BY NatLessThanWellFounded, Zenon DEF OpToRel, LessThan
<1>2. PICK x \in T : \A y \in T : ~(<<y, x>> \in LessThan)
  BY <1>1, WFMin
<1>3. ASSUME NEW y \in T
      PROVE  x <= y
  <2>1. <<y, x>> \in Nat \X Nat /\ <<y, x>>[1] = y /\ <<y, x>>[2] = x
    OBVIOUS
  <2>2. ~(y < x)
    BY <1>2, <2>1 DEF LessThan
  <2> QED
    BY <2>2
<1> QED
  BY <1>3

(* Induction up to n, over the elements of a set.                           *)
LEMMA Induct ==
  ASSUME NEW n \in Nat, NEW T, 0 \in T,
         \A i \in Nat : i < n /\ i \in T => i + 1 \in T
  PROVE  \A i \in 0..n : i \in T
<1> DEFINE Wrong == {i \in 0..n : i \notin T}
<1>1. CASE Wrong = {}
  BY <1>1
<1>2. CASE Wrong # {}
  <2>1. PICK x \in Wrong : \A y \in Wrong : x <= y
    <3>1. Wrong \in SUBSET Nat
      OBVIOUS
    <3> HIDE DEF Wrong
    <3> QED
      BY <1>2, <3>1, Least
  <2>2. x \in 1..n /\ x - 1 \in 0..n
    BY <2>1
  <2>3. x - 1 \in T
    BY <2>1, <2>2
  <2> QED
    BY <2>1, <2>2, <2>3
<1> QED
  BY <1>1, <1>2

(* A function on 0..n that is defined by its first value and by how each    *)
(* value follows from the one before.                                       *)
CanRecur(n, D, base, step) ==
  n \in Nat /\ base \in D /\ step \in [1..n -> [D -> D]]
Recurs(f, n, D, base, step) ==
  /\ f \in [0..n -> D] /\ f[0] = base
  /\ \A i \in 1..n : f[i] = step[i][f[i - 1]]

(* A function that is defined by recursion on 0..n exists: an induction     *)
(* builds it one value at a time.                                           *)
LEMMA Recursion ==
  ASSUME NEW n, NEW D, NEW base, NEW step, CanRecur(n, D, base, step)
  PROVE  \E f : Recurs(f, n, D, base, step)
<1> USE DEF CanRecur
<1> DEFINE Is(f, k) == Recurs(f, k, D, base, step)
           T == {k \in Nat : \E f : Is(f, k)}
<1>1. 0 \in T
  <2>1. Is([i \in 0..0 |-> base], 0)
    BY DEF Recurs
  <2> QED
    BY <2>1
<1>2. ASSUME NEW k \in Nat, k < n, k \in T
      PROVE  k + 1 \in T
  <2>1. PICK f : Is(f, k)
    BY <1>2
  <2> DEFINE g == [i \in 0..(k + 1) |-> IF i = k + 1 THEN step[k + 1][f[k]] ELSE f[i]]
  <2>2. k + 1 \in 1..n /\ step[k + 1] \in [D -> D] /\ f[k] \in D
    BY <1>2, <2>1 DEF Recurs
  <2>3. g \in [0..(k + 1) -> D]
    BY <2>1, <2>2 DEF Recurs
  <2>4. \A i \in 1..(k + 1) : g[i] = step[i][g[i - 1]]
    <3>1. ASSUME NEW i \in 1..k
          PROVE  g[i] = step[i][g[i - 1]]
      <4>1. i # k + 1 /\ i - 1 # k + 1 /\ i \in 0..(k + 1) /\ i - 1 \in 0..(k + 1)
        OBVIOUS
      <4>2. g[i] = f[i] /\ g[i - 1] = f[i - 1]
        BY <4>1
      <4> QED
        BY <2>1, <4>2 DEF Recurs
    <3>2. g[k + 1] = step[k + 1][g[(k + 1) - 1]]
      OBVIOUS
    <3>3. \A i \in 1..(k + 1) : i \in 1..k \/ i = k + 1
      OBVIOUS
    <3> QED
      BY <3>1, <3>2, <3>3
  <2>5. Is(g, k + 1)
    BY <2>1, <2>3, <2>4 DEF Recurs
  <2> HIDE DEF g, Is
  <2> QED
    BY <2>5
<1>3. n \in T
  <2> HIDE DEF T
  <2>1. \A i \in 0..n : i \in T
    BY <1>1, <1>2, Induct
  <2> QED
    BY <2>1
<1> QED
  BY <1>3

-----------------------------------------------------------------------------
(* Filter: what it is made of, from the first element to the last.          *)
FilterRun(kept, T, s, wanted) ==
  /\ kept \in [0..Len(s) -> Seq(T)]
  /\ kept[0] = <<>>
  /\ \A i \in 1..Len(s) :
       kept[i] = IF s[i] \in wanted THEN Append(kept[i - 1], s[i])
                 ELSE kept[i - 1]

(* The function inside Filter does what its definition says.                *)
LEMMA FilterSteps ==
  ASSUME NEW T, NEW s \in Seq(T), NEW wanted
  PROVE  \E kept : /\ FilterRun(kept, T, s, wanted)
                   /\ Filter(s, wanted) = kept[Len(s)]
<1> DEFINE n == Len(s)
           step == [i \in 1..n |-> [q \in Seq(T) |->
                      IF s[i] \in wanted THEN Append(q, s[i]) ELSE q]]
           Def(f) == f = [i \in 0..n |->
                            IF i = 0 THEN <<>>
                            ELSE IF s[i] \in wanted THEN Append(f[i - 1], s[i])
                            ELSE f[i - 1]]
           kept == CHOOSE f : Def(f)
<1>1. n \in Nat /\ \A i \in 1..n : s[i] \in T
  OBVIOUS
<1>2. step \in [1..n -> [Seq(T) -> Seq(T)]]
  BY <1>1
<1>3. <<>> \in Seq(T)
  OBVIOUS
<1>4. PICK f \in [0..n -> Seq(T)] :
        f[0] = <<>> /\ \A i \in 1..n : f[i] = step[i][f[i - 1]]
  <2>1. CanRecur(n, Seq(T), <<>>, step)
    BY <1>1, <1>2, <1>3 DEF CanRecur
  <2>2. PICK f : Recurs(f, n, Seq(T), <<>>, step)
    BY <2>1, Recursion
  <2> QED
    BY <2>2 DEF Recurs
<1>5. ASSUME NEW i \in 1..n
      PROVE  f[i] = IF s[i] \in wanted THEN Append(f[i - 1], s[i]) ELSE f[i - 1]
  <2>1. f[i - 1] \in Seq(T)
    BY <1>1, <1>4
  <2> QED
    BY <1>4, <2>1
<1>6. Def(f)
  <2>1. \A i \in 0..n : i = 0 \/ i \in 1..n
    BY <1>1
  <2> HIDE DEF n
  <2> QED
    BY <1>4, <1>5, <2>1
<1>7. Def(kept)
  <2> HIDE DEF Def
  <2> QED
    BY <1>6
<1>8. kept[0] = <<>> /\ DOMAIN kept = 0..n
  <2> HIDE DEF kept
  <2> QED
    BY <1>1, <1>7
<1>9. \A i \in 1..n : kept[i] = IF s[i] \in wanted THEN Append(kept[i - 1], s[i])
                                ELSE kept[i - 1]
  <2>1. \A i \in 1..n : i \in 0..n /\ i # 0
    BY <1>1
  <2> HIDE DEF kept, n
  <2> QED
    BY <1>7, <2>1
<1>10. \A i \in 0..n : kept[i] \in Seq(T)
  <2> DEFINE I == {i \in Nat : kept[i] \in Seq(T)}
  <2>1. 0 \in I
    BY <1>3, <1>8
  <2>2. ASSUME NEW i \in Nat, i < n, i \in I
        PROVE  i + 1 \in I
    <3>1. i + 1 \in 1..n /\ (i + 1) - 1 = i
      BY <1>1, <2>2
    <3>2. kept[i + 1] = IF s[i + 1] \in wanted THEN Append(kept[i], s[i + 1]) ELSE kept[i]
      <4> HIDE DEF kept
      <4> QED
        BY <1>9, <3>1
    <3>3. kept[i] \in Seq(T) /\ s[i + 1] \in T
      BY <1>1, <2>2, <3>1
    <3>4. kept[i + 1] \in Seq(T)
      <4> HIDE DEF kept
      <4> QED
        BY <3>2, <3>3
    <3> QED
      BY <3>4
  <2>3. \A i \in 0..n : i \in I
    <3> HIDE DEF I
    <3> QED
      BY <1>1, <2>1, <2>2, Induct
  <2> QED
    BY <2>3
<1>11. kept = [i \in 0..n |-> kept[i]]
  <2> HIDE DEF kept
  <2> QED
    BY <1>7, <1>8
<1>12. kept \in [0..n -> Seq(T)]
  <2> HIDE DEF kept
  <2> QED
    BY <1>10, <1>11
<1>13. Filter(s, wanted) = kept[n]
  BY DEF Filter
<1> QED
  <2> HIDE DEF kept
  <2> QED
    BY <1>8, <1>9, <1>12, <1>13 DEF FilterRun

(* t is the subsequence of the wanted elements among the first n of s; p    *)
(* says where in s they are.                                                *)
Selects(p, s, n, wanted, t) ==
  /\ p \in [1..Len(t) -> 1..n]
  /\ \A i \in 1..Len(t) : t[i] = s[p[i]] /\ s[p[i]] \in wanted
  /\ \A i, j \in 1..Len(t) : i < j => p[i] < p[j]
  /\ \A j \in 1..n : s[j] \in wanted => \E i \in 1..Len(t) : p[i] = j

(* Filter returns the wanted elements, each once and in order.              *)
LEMMA FilterIs ==
  ASSUME NEW T, NEW s \in Seq(T), NEW wanted
  PROVE  /\ Filter(s, wanted) \in Seq(T)
         /\ \E p : Selects(p, s, Len(s), wanted, Filter(s, wanted))
<1>0. PICK kept : FilterRun(kept, T, s, wanted) /\ Filter(s, wanted) = kept[Len(s)]
  BY FilterSteps
<1>1. /\ kept \in [0..Len(s) -> Seq(T)]
      /\ kept[0] = <<>>
      /\ \A i \in 1..Len(s) :
           kept[i] = IF s[i] \in wanted THEN Append(kept[i - 1], s[i])
                     ELSE kept[i - 1]
  BY <1>0 DEF FilterRun
<1> DEFINE I == {i \in Nat : \E p : Selects(p, s, i, wanted, kept[i])}
<1>2. 0 \in I
  <2>1. Selects(<<>>, s, 0, wanted, <<>>)
    BY DEF Selects
  <2> QED
    BY <1>1, <2>1
<1>3. ASSUME NEW i \in Nat, i < Len(s), i \in I
      PROVE  i + 1 \in I
  <2>1. PICK p : Selects(p, s, i, wanted, kept[i])
    BY <1>3
  <2> DEFINE t == kept[i]
             k == i + 1
  <2>2. k \in 1..Len(s) /\ k - 1 = i /\ i \in 0..Len(s)
    BY <1>3
  <2>3. t \in Seq(T) /\ s[k] \in T /\ Len(t) \in Nat
    BY <1>1, <2>2
  <2>4. CASE s[k] \in wanted
    <3> DEFINE u == Append(t, s[k])
               m == Len(t) + 1
               q == [j \in 1..m |-> IF j = m THEN k ELSE p[j]]
    <3>1. kept[k] = u
      BY <1>1, <2>2, <2>4
    <3>2. /\ Len(u) = m /\ m \in Nat /\ u[m] = s[k]
          /\ \A j \in 1..Len(t) : u[j] = t[j]
          /\ \A j \in 1..m : j \in 1..Len(t) \/ j = m
      BY <2>3
    <3>3. q[m] = k /\ \A j \in 1..Len(t) : q[j] = p[j] /\ p[j] \in 1..i
      <4>1. \A j \in 1..Len(t) : j \in 1..m /\ j # m
        BY <2>3
      <4>2. m \in 1..m
        BY <2>3
      <4>3. \A j \in 1..Len(t) : p[j] \in 1..i
        BY <2>1 DEF Selects
      <4> HIDE DEF m, t, k
      <4> QED
        BY <4>1, <4>2, <4>3
    <3> HIDE DEF u, m, t
    <3>4. q \in [1..m -> 1..k]
      <4>1. \A j \in 1..m : q[j] \in 1..k
        <5> HIDE DEF q
        <5> QED
          BY <2>2, <3>2, <3>3
      <4> QED
        BY <4>1
    <3> HIDE DEF q
    <3>5. \A j \in 1..m : u[j] = s[q[j]] /\ s[q[j]] \in wanted
      <4>1. \A j \in 1..Len(t) : t[j] = s[p[j]] /\ s[p[j]] \in wanted
        BY <2>1 DEF Selects, t
      <4> QED
        BY <2>4, <3>2, <3>3, <4>1
    <3>6. \A a, b \in 1..m : a < b => q[a] < q[b]
      <4> SUFFICES ASSUME NEW a \in 1..m, NEW b \in 1..m, a < b
                   PROVE  q[a] < q[b]
        OBVIOUS
      <4>1. a \in 1..Len(t)
        BY <2>3, <3>2 DEF m, t
      <4>2. CASE b \in 1..Len(t)
        BY <2>1, <3>3, <4>1, <4>2 DEF Selects, t
      <4>3. CASE b = m
        BY <2>2, <3>3, <4>1, <4>3
      <4> QED
        BY <3>2, <4>2, <4>3
    <3>7. \A j \in 1..k : s[j] \in wanted => \E a \in 1..m : q[a] = j
      <4> SUFFICES ASSUME NEW j \in 1..k, s[j] \in wanted
                   PROVE  \E a \in 1..m : q[a] = j
        OBVIOUS
      <4>1. CASE j = k
        <5>1. m \in 1..m
          BY <2>3 DEF m, t
        <5> QED
          BY <3>3, <4>1, <5>1
      <4>2. CASE j \in 1..i
        <5>1. PICK a \in 1..Len(t) : p[a] = j
          BY <2>1, <4>2 DEF Selects, t
        <5>2. a \in 1..m
          BY <2>3, <5>1 DEF m, t
        <5> QED
          BY <3>3, <5>1, <5>2
      <4> QED
        BY <2>2, <4>1, <4>2
    <3>8. Selects(q, s, k, wanted, u)
      BY <3>2, <3>4, <3>5, <3>6, <3>7 DEF Selects
    <3> QED
      BY <3>1, <3>8
  <2>5. CASE s[k] \notin wanted
    <3>1. kept[k] = t
      BY <1>1, <2>2, <2>5
    <3>2. 1..k = (1..i) \cup {k}
      BY <2>2
    <3>3. Selects(p, s, k, wanted, t)
      <4> HIDE DEF k
      <4> QED
        BY <2>1, <2>5, <3>2 DEF Selects
    <3> QED
      BY <3>1, <3>3
  <2> QED
    BY <2>4, <2>5
<1>4. Len(s) \in Nat
  OBVIOUS
<1>5. \A i \in 0..Len(s) : i \in I
  <2> HIDE DEF I
  <2> QED
    BY <1>2, <1>3, <1>4, Induct
<1>6. Len(s) \in I
  BY <1>4, <1>5
<1> QED
  BY <1>0, <1>1, <1>4, <1>6

-----------------------------------------------------------------------------
(* FlattenSeq: t has the elements of the first n sequences of ss, one after *)
(* the other; the i-th is element b[i] of sequence a[i].                    *)
Flattens(a, b, ss, n, t) ==
  /\ a \in [1..Len(t) -> 1..n] /\ b \in [1..Len(t) -> Nat]
  /\ \A i \in 1..Len(t) : b[i] \in 1..Len(ss[a[i]]) /\ t[i] = ss[a[i]][b[i]]
  /\ \A i, j \in 1..Len(t) : i < j => a[i] < a[j] \/ (a[i] = a[j] /\ b[i] < b[j])
  /\ \A x \in 1..n : \A y \in 1..Len(ss[x]) :
       \E i \in 1..Len(t) : a[i] = x /\ b[i] = y

FlattenRun(flat, T, ss) ==
  /\ flat \in [0..Len(ss) -> Seq(T)]
  /\ flat[0] = <<>>
  /\ \A i \in 1..Len(ss) : flat[i] = flat[i - 1] \o ss[i]

(* The function inside FlattenSeq does what its definition says.            *)
LEMMA FlattenSteps ==
  ASSUME NEW T, NEW ss \in Seq(Seq(T))
  PROVE  \E flat : /\ FlattenRun(flat, T, ss)
                   /\ FlattenSeq(ss) = flat[Len(ss)]
<1> DEFINE n == Len(ss)
           step == [i \in 1..n |-> [q \in Seq(T) |-> q \o ss[i]]]
           Def(f) == f = [i \in 1..n |-> IF i = 1 THEN ss[i] ELSE f[i - 1] \o ss[i]]
           flat == CHOOSE f : Def(f)
<1>1. n \in Nat /\ \A i \in 1..n : ss[i] \in Seq(T)
  OBVIOUS
<1>2. PICK f : Recurs(f, n, Seq(T), <<>>, step)
  <2>1. \A i \in 1..n, q \in Seq(T) : q \o ss[i] \in Seq(T)
    BY <1>1
  <2>2. CanRecur(n, Seq(T), <<>>, step)
    BY <1>1, <2>1 DEF CanRecur
  <2> QED
    BY <2>2, Recursion
<1>3. f \in [0..n -> Seq(T)] /\ f[0] = <<>>
  BY <1>2 DEF Recurs
<1>4. ASSUME NEW i \in 1..n
      PROVE  f[i] = f[i - 1] \o ss[i]
  <2>1. PICK q : q = f[i - 1]
    OBVIOUS
  <2>2. q \in Seq(T)
    <3>1. i - 1 \in 0..n
      BY <1>1
    <3> HIDE DEF n, step
    <3> QED
      BY <1>3, <2>1, <3>1
  <2>3. f[i] = step[i][q]
    <3> HIDE DEF step
    <3> QED
      BY <1>2, <2>1 DEF Recurs
  <2>4. step[i][q] = q \o ss[i]
    BY <2>2
  <2> QED
    BY <2>1, <2>3, <2>4
<1>5. FlattenRun(f, T, ss)
  BY <1>3, <1>4 DEF FlattenRun
<1>8. ASSUME 1 \in 1..n
      PROVE  f[1] = ss[1]
  <2>1. f[1] = f[1 - 1] \o ss[1]
    BY <1>4, <1>8
  <2>2. 1 - 1 = 0 /\ ss[1] \in Seq(T)
    BY <1>1, <1>8
  <2>3. <<>> \o ss[1] = ss[1]
    BY <2>2
  <2> HIDE DEF n
  <2> QED
    BY <1>3, <2>1, <2>2, <2>3
<1>6. CASE n = 0
  <2>1. FlattenSeq(ss) = <<>>
    BY <1>6 DEF FlattenSeq
  <2> QED
    BY <1>3, <1>5, <1>6, <2>1
<1>7. CASE n # 0
  <2> DEFINE g == [i \in 1..n |-> f[i]]
  <2>1. Def(g)
    <3>1. ASSUME NEW i \in 1..n
          PROVE  g[i] = IF i = 1 THEN ss[i] ELSE g[i - 1] \o ss[i]
      <4>1. CASE i = 1
        <5> QED
          BY <1>8, <4>1
      <4>2. CASE i # 1
        <5>1. i - 1 \in 1..n
          BY <1>1, <4>2
        <5> QED
          BY <1>4, <4>2, <5>1
      <4> QED
        BY <4>1, <4>2
    <3> HIDE DEF n
    <3> QED
      BY <3>1
  <2>2. Def(flat)
    <3> HIDE DEF Def
    <3> QED
      BY <2>1
  <2> DEFINE I == {i \in Nat : i = 0 \/ flat[i] = f[i]}
  <2>3. ASSUME NEW i \in Nat, i < n, i \in I
        PROVE  i + 1 \in I
    <3>1. i + 1 \in 1..n /\ (i + 1) - 1 = i
      BY <1>1, <2>3
    <3>2. flat[i + 1] = IF i + 1 = 1 THEN ss[i + 1] ELSE flat[i] \o ss[i + 1]
      <4> HIDE DEF flat, n
      <4> QED
        BY <2>2, <3>1
    <3>3. flat[i + 1] = f[i + 1]
      <4> HIDE DEF flat, n
      <4>1. CASE i = 0
        <5> QED
          BY <1>8, <3>1, <3>2, <4>1
      <4>2. CASE i # 0
        <5>1. i + 1 # 1
          BY <4>2
        <5> QED
          BY <1>4, <2>3, <3>1, <3>2, <4>2, <5>1
      <4> QED
        BY <4>1, <4>2
    <3> HIDE DEF flat
    <3> QED
      BY <3>3
  <2>4. \A i \in 0..n : i \in I
    <3>1. 0 \in I
      OBVIOUS
    <3> HIDE DEF I
    <3> QED
      BY <1>1, <2>3, <3>1, Induct
  <2>5. flat[n] = f[n]
    <3> HIDE DEF flat
    <3> QED
      BY <1>1, <1>7, <2>4
  <2>6. FlattenSeq(ss) = flat[n]
    BY <1>7 DEF FlattenSeq
  <2> QED
    BY <1>5, <2>5, <2>6
<1> QED
  BY <1>6, <1>7

(* One sequence alone stays as it is.                                      *)
LEMMA FlattenOne ==
  ASSUME NEW T, NEW s \in Seq(T)
  PROVE  FlattenSeq(<<s>>) = s
<1> DEFINE ss == <<s>>
<1>1. ss \in Seq(Seq(T)) /\ Len(ss) = 1 /\ ss[1] = s
  OBVIOUS
<1> HIDE DEF ss
<1>2. PICK flat : FlattenRun(flat, T, ss) /\ FlattenSeq(ss) = flat[Len(ss)]
  BY <1>1, FlattenSteps
<1>3. flat[0] = <<>> /\ flat[1] = flat[1 - 1] \o ss[1]
  BY <1>1, <1>2 DEF FlattenRun
<1>4. flat[1] = <<>> \o s
  BY <1>1, <1>3
<1>5. <<>> \o s = s
  OBVIOUS
<1>6. FlattenSeq(ss) = s
  BY <1>1, <1>2, <1>4, <1>5
<1> QED
  BY <1>6 DEF ss

(* Every element of FlattenSeq comes from one place of one of the           *)
(* sequences, and every place is met.                                       *)
LEMMA FlattenIs ==
  ASSUME NEW T, NEW ss \in Seq(Seq(T))
  PROVE  /\ FlattenSeq(ss) \in Seq(T)
         /\ \E a, b : Flattens(a, b, ss, Len(ss), FlattenSeq(ss))
<1>0. PICK flat : FlattenRun(flat, T, ss) /\ FlattenSeq(ss) = flat[Len(ss)]
  BY FlattenSteps
<1>1. /\ flat \in [0..Len(ss) -> Seq(T)] /\ flat[0] = <<>>
      /\ \A i \in 1..Len(ss) : flat[i] = flat[i - 1] \o ss[i]
  BY <1>0 DEF FlattenRun
<1> DEFINE I == {i \in Nat : \E a, b : Flattens(a, b, ss, i, flat[i])}
<1>2. 0 \in I
  <2>1. Flattens(<<>>, <<>>, ss, 0, <<>>)
    BY DEF Flattens
  <2> QED
    BY <1>1, <2>1
<1>3. ASSUME NEW i \in Nat, i < Len(ss), i \in I
      PROVE  i + 1 \in I
  <2>1. PICK a, b : Flattens(a, b, ss, i, flat[i])
    BY <1>3
  <2> DEFINE t == flat[i]
             k == i + 1
             h == ss[k]
             u == t \o h
             l == Len(t)
             r == Len(h)
             m == l + r
             c == [j \in 1..m |-> IF j \in 1..l THEN a[j] ELSE k]
             d == [j \in 1..m |-> IF j \in 1..l THEN b[j] ELSE j - l]
  <2>2. k \in 1..Len(ss) /\ k - 1 = i /\ i \in 0..Len(ss)
    BY <1>3
  <2>3. t \in Seq(T) /\ h \in Seq(T) /\ l \in Nat /\ r \in Nat
    BY <1>1, <2>2
  <2>4. flat[k] = u /\ Len(u) = m /\ m \in Nat
    <3>1. flat[k] = flat[k - 1] \o ss[k]
      BY <1>1, <2>2
    <3>2. flat[k] = u
      BY <2>2, <3>1
    <3> HIDE DEF t, h
    <3> QED
      BY <2>3, <3>2
  <2>14. \A j \in 1..l : j \in 1..m
    <3> HIDE DEF l, r
    <3> QED
      BY <2>3
  <2>15. ASSUME NEW j \in 1..r
         PROVE  l + j \in 1..m /\ l + j \notin 1..l /\ (l + j) - l = j
    <3> HIDE DEF l, r
    <3> QED
      BY <2>3
  <2>5. /\ \A j \in 1..l : j \in 1..m /\ u[j] = t[j]
        /\ \A j \in 1..r : l + j \in 1..m /\ l + j \notin 1..l /\ u[l + j] = h[j]
    <3>1. \A j \in 1..l : u[j] = t[j]
      <4> HIDE DEF t, h
      <4> QED
        BY <2>3
    <3>2. \A j \in 1..r : u[l + j] = h[j]
      <4> HIDE DEF t, h
      <4> QED
        BY <2>3
    <3> HIDE DEF t, h, l, r, m
    <3> QED
      BY <2>14, <2>15, <3>1, <3>2
  <2>6. /\ a \in [1..l -> 1..i] /\ b \in [1..l -> Nat]
        /\ \A j \in 1..l : b[j] \in 1..Len(ss[a[j]]) /\ t[j] = ss[a[j]][b[j]]
        /\ \A e, j \in 1..l : e < j => a[e] < a[j] \/ (a[e] = a[j] /\ b[e] < b[j])
        /\ \A x \in 1..i : \A y \in 1..Len(ss[x]) : \E j \in 1..l : a[j] = x /\ b[j] = y
    BY <2>1 DEF Flattens
  <2>7. /\ \A j \in 1..l : c[j] = a[j] /\ d[j] = b[j]
        /\ \A j \in 1..r : c[l + j] = k /\ d[l + j] = j
    <3>1. \A j \in 1..l : c[j] = a[j] /\ d[j] = b[j]
      BY <2>5
    <3>2. ASSUME NEW j \in 1..r
          PROVE  c[l + j] = k /\ d[l + j] = j
      <4> HIDE DEF l, r, m
      <4> QED
        BY <2>15
    <3> QED
      BY <3>1, <3>2
  <2>8. ASSUME NEW j \in 1..m, j \notin 1..l
        PROVE  \E e \in 1..r : j = l + e
    <3>1. j - l \in 1..r /\ j = l + (j - l)
      <4> HIDE DEF l, r
      <4> QED
        BY <2>3, <2>8
    <3> HIDE DEF l, r
    <3> QED
      BY <3>1
  <2> HIDE DEF c, d, u, m, l, r, h, t
  <2>9. c \in [1..m -> 1..k] /\ d \in [1..m -> Nat]
    <3>1. ASSUME NEW j \in 1..m
          PROVE  c[j] \in 1..k /\ d[j] \in Nat
      <4>1. CASE j \in 1..l
        BY <1>3, <2>6, <2>7, <4>1
      <4>2. CASE j \notin 1..l
        BY <1>3, <2>7, <2>8, <4>2
      <4> QED
        BY <4>1, <4>2
    <3> QED
      BY <3>1 DEF c, d
  <2>10. ASSUME NEW j \in 1..m
         PROVE  d[j] \in 1..Len(ss[c[j]]) /\ u[j] = ss[c[j]][d[j]]
    <3>1. CASE j \in 1..l
      BY <2>5, <2>6, <2>7, <3>1
    <3>2. CASE j \notin 1..l
      BY <2>5, <2>7, <2>8, <3>2 DEF h, r
    <3> QED
      BY <3>1, <3>2
  <2>11. ASSUME NEW e \in 1..m, NEW j \in 1..m, e < j
         PROVE  c[e] < c[j] \/ (c[e] = c[j] /\ d[e] < d[j])
    <3>1. CASE j \in 1..l
      <4>1. e \in 1..l
        BY <2>3, <2>11, <3>1
      <4> QED
        BY <2>6, <2>7, <2>11, <3>1, <4>1
    <3>2. CASE e \in 1..l /\ j \notin 1..l
      <4>1. c[e] \in 1..i
        BY <2>6, <2>7, <3>2
      <4>2. c[j] = i + 1
        BY <2>7, <2>8, <3>2
      <4> QED
        BY <1>3, <4>1, <4>2
    <3>3. CASE e \notin 1..l /\ j \notin 1..l
      <4>1. PICK x \in 1..r : e = l + x
        BY <2>8, <3>3
      <4>2. PICK y \in 1..r : j = l + y
        BY <2>8, <3>3
      <4>3. x < y
        BY <2>3, <2>11, <4>1, <4>2
      <4> QED
        BY <2>7, <4>1, <4>2, <4>3
    <3> QED
      <4>1. e \notin 1..l => j \notin 1..l
        BY <2>3, <2>4, <2>11
      <4> QED
        BY <3>1, <3>2, <3>3, <4>1
  <2>12. ASSUME NEW x \in 1..k, NEW y \in 1..Len(ss[x])
         PROVE  \E j \in 1..m : c[j] = x /\ d[j] = y
    <3>1. CASE x = k
      BY <2>5, <2>7, <3>1 DEF h, r
    <3>2. CASE x \in 1..i
      <4>1. PICK j \in 1..l : a[j] = x /\ b[j] = y
        BY <2>6, <3>2
      <4> QED
        BY <2>5, <2>7, <4>1
    <3> QED
      BY <1>3, <3>1, <3>2
  <2>13. Flattens(c, d, ss, k, u)
    BY <2>4, <2>9, <2>10, <2>11, <2>12 DEF Flattens
  <2> QED
    BY <2>4, <2>13
<1>4. Len(ss) \in Nat
  OBVIOUS
<1>5. \A i \in 0..Len(ss) : i \in I
  <2> HIDE DEF I
  <2> QED
    BY <1>2, <1>3, <1>4, Induct
<1>6. Len(ss) \in I
  BY <1>4, <1>5
<1> QED
  BY <1>0, <1>1, <1>4, <1>6

-----------------------------------------------------------------------------
(* What is known of the length of two sequences that are joined.           *)
LEMMA JoinedLength ==
  ASSUME NEW T, NEW s \in Seq(T), NEW t \in Seq(T)
  PROVE  Len(s \o t) = Len(s) + Len(t)
  OBVIOUS

(* RemoveAt: what is behind the element moves one place to the front.       *)
LEMMA RemoveAtIs ==
  ASSUME NEW T, NEW s \in Seq(T), NEW at \in 1..Len(s)
  PROVE  /\ RemoveAt(s, at) \in Seq(T) /\ Len(RemoveAt(s, at)) = Len(s) - 1
         /\ \A x \in 1..(Len(s) - 1) :
              RemoveAt(s, at)[x] = IF x < at THEN s[x] ELSE s[x + 1]
<1> DEFINE a == SubSeq(s, 1, at - 1)
           b == SubSeq(s, at + 1, Len(s))
<1>1. a \in Seq(T) /\ Len(a) = at - 1 /\ \A x \in 1..(at - 1) : a[x] = s[x]
  OBVIOUS
<1>2. b \in Seq(T) /\ Len(b) = Len(s) - at
  OBVIOUS
<1>3. \A x \in 1..(Len(s) - at) : b[x] = s[at + x]
  <2> SUFFICES ASSUME NEW x \in 1..(Len(s) - at)
               PROVE  b[x] = s[at + x]
    OBVIOUS
  <2>1. b[x] = s[(at + 1) + x - 1]
    OBVIOUS
  <2> QED
    BY <2>1
<1>4. RemoveAt(s, at) = a \o b
  BY DEF RemoveAt
<1> HIDE DEF a, b
<1>5. a \o b \in Seq(T) /\ Len(a \o b) = Len(s) - 1
  <2>0. a \in Seq(T) /\ b \in Seq(T)
    BY <1>1, <1>2
  <2>1. a \o b \in Seq(T) /\ Len(a \o b) = Len(a) + Len(b)
    BY <2>0
  <2>2. Len(s) \in Nat
    OBVIOUS
  <2> QED
    BY <1>1, <1>2, <2>1, <2>2
<1>6. ASSUME NEW x \in 1..(Len(s) - 1)
      PROVE  (a \o b)[x] = IF x < at THEN s[x] ELSE s[x + 1]
  <2>1. CASE x < at
    <3>1. x \in 1..Len(a)
      BY <1>1, <2>1
    <3> QED
      BY <1>1, <1>2, <2>1, <3>1
  <2>2. CASE ~(x < at)
    <3>1. x - Len(a) \in 1..Len(b) /\ at + (x - Len(a)) = x + 1 /\ ~(x <= Len(a))
      BY <1>1, <1>2, <2>2
    <3>2. (a \o b)[x] = b[x - Len(a)]
      BY <1>1, <1>2, <3>1
    <3> QED
      BY <1>2, <1>3, <2>2, <3>1, <3>2
  <2> QED
    BY <2>1, <2>2
<1> QED
  BY <1>4, <1>5, <1>6

-----------------------------------------------------------------------------
(***************************************************************************)
(* Sequences that stand for sets: each element occurs once.                *)
(***************************************************************************)

(* What is wanted is kept, and once if it was there once.                   *)
LEMMA FilterRange ==
  ASSUME NEW T, NEW s \in Seq(T), NEW wanted
  PROVE  /\ Filter(s, wanted) \in Seq(T)
         /\ Range(Filter(s, wanted)) = Range(s) \cap wanted
         /\ IsInjective(s) => IsInjective(Filter(s, wanted))
<1> DEFINE t == Filter(s, wanted)
<1>1. t \in Seq(T) /\ \E p : Selects(p, s, Len(s), wanted, t)
  BY FilterIs
<1>2. PICK p : Selects(p, s, Len(s), wanted, t)
  BY <1>1
<1> HIDE DEF t
<1>3. /\ p \in [1..Len(t) -> 1..Len(s)]
      /\ \A i \in 1..Len(t) : t[i] = s[p[i]] /\ s[p[i]] \in wanted
      /\ \A i, j \in 1..Len(t) : i < j => p[i] < p[j]
      /\ \A j \in 1..Len(s) : s[j] \in wanted => \E i \in 1..Len(t) : p[i] = j
  BY <1>2 DEF Selects
<1>4. DOMAIN t = 1..Len(t) /\ DOMAIN s = 1..Len(s) /\ Len(t) \in Nat
  BY <1>1
<1>5. Range(t) = Range(s) \cap wanted
  <2>1. ASSUME NEW i \in 1..Len(t)
        PROVE  t[i] \in Range(s) /\ t[i] \in wanted
    <3>1. p[i] \in 1..Len(s) /\ t[i] = s[p[i]] /\ t[i] \in wanted
      BY <1>3
    <3> QED
      BY <1>4, <3>1 DEF Range
  <2>2. ASSUME NEW j \in 1..Len(s), s[j] \in wanted
        PROVE  s[j] \in Range(t)
    <3>1. PICK i \in 1..Len(t) : p[i] = j
      BY <1>3, <2>2
    <3>2. t[i] = s[j]
      BY <1>3, <3>1
    <3> QED
      BY <1>4, <3>2 DEF Range
  <2>3. \A x \in Range(t) : \E i \in 1..Len(t) : x = t[i]
    BY <1>4 DEF Range
  <2>4. \A x \in Range(s) : \E j \in 1..Len(s) : x = s[j]
    BY <1>4 DEF Range
  <2> QED
    BY <2>1, <2>2, <2>3, <2>4
<1>6. ASSUME IsInjective(s), NEW i \in 1..Len(t), NEW j \in 1..Len(t), t[i] = t[j]
      PROVE  i = j
  <2>1. p[i] = p[j] /\ p[i] \in Nat
    BY <1>3, <1>4, <1>6 DEF IsInjective
  <2>2. ~(i < j) /\ ~(j < i)
    BY <1>3, <2>1
  <2> QED
    BY <1>4, <2>2
<1>7. IsInjective(s) => IsInjective(t)
  BY <1>4, <1>6 DEF IsInjective
<1> QED
  BY <1>1, <1>5, <1>7 DEF t

(* What is left of a sequence without its first element.                    *)
LEMMA TailRange ==
  ASSUME NEW T, NEW s \in Seq(T), s # <<>>
  PROVE  /\ Tail(s) \in Seq(T) /\ Head(s) \in T
         /\ Range(s) = {Head(s)} \cup Range(Tail(s))
         /\ IsInjective(s) => Head(s) \notin Range(Tail(s)) /\ IsInjective(Tail(s))
<1> DEFINE t == Tail(s)
           n == Len(s)
<1>1. /\ t \in Seq(T) /\ n \in Nat \ {0} /\ DOMAIN s = 1..n /\ DOMAIN t = 1..(n - 1)
      /\ Head(s) = s[1] /\ s[1] \in T
  OBVIOUS
<1>2. \A i \in 1..(n - 1) : t[i] = s[i + 1] /\ i + 1 \in 1..n /\ i + 1 # 1
  OBVIOUS
<1>3. \A i \in 1..n : i = 1 \/ (i - 1 \in 1..(n - 1) /\ (i - 1) + 1 = i)
  BY <1>1
<1> HIDE DEF t, n
<1>4. Range(s) = {Head(s)} \cup Range(t)
  <2>1. ASSUME NEW x \in Range(s)
        PROVE  x \in {Head(s)} \cup Range(t)
    <3>1. PICK i \in 1..n : x = s[i]
      BY <1>1 DEF Range
    <3>2. CASE i = 1
      BY <1>1, <3>1, <3>2
    <3>3. CASE i # 1
      <4>1. i - 1 \in DOMAIN t /\ t[i - 1] = s[i]
        BY <1>1, <1>2, <1>3, <3>3
      <4> QED
        BY <3>1, <4>1 DEF Range
    <3> QED
      BY <3>2, <3>3
  <2>2. ASSUME NEW x \in Range(t)
        PROVE  x \in Range(s)
    <3>1. PICK i \in 1..(n - 1) : x = t[i]
      BY <1>1 DEF Range
    <3>2. i + 1 \in DOMAIN s /\ x = s[i + 1]
      BY <1>1, <1>2, <3>1
    <3> QED
      BY <3>2 DEF Range
  <2>3. Head(s) \in Range(s)
    <3>1. 1 \in 1..n
      BY <1>1
    <3> QED
      BY <1>1, <3>1 DEF Range
  <2> QED
    BY <2>1, <2>2, <2>3
<1>5. ASSUME IsInjective(s)
      PROVE  Head(s) \notin Range(t) /\ IsInjective(t)
  <2>1. 1 \in 1..n
    BY <1>1
  <2>2. ASSUME NEW i \in 1..(n - 1)
        PROVE  t[i] # Head(s)
    BY <1>1, <1>2, <1>5, <2>1 DEF IsInjective
  <2>3. ASSUME NEW i \in 1..(n - 1), NEW j \in 1..(n - 1), t[i] = t[j]
        PROVE  i = j
    <3>1. i + 1 \in DOMAIN s /\ j + 1 \in DOMAIN s /\ s[i + 1] = s[j + 1]
      BY <1>1, <1>2, <2>3
    <3>2. i + 1 = j + 1
      BY <1>5, <3>1, Zenon DEF IsInjective
    <3> QED
      BY <1>1, <3>2
  <2> QED
    BY <1>1, <2>2, <2>3 DEF Range, IsInjective
<1> QED
  BY <1>1, <1>4, <1>5 DEF t

(* The elements of two sequences that are joined.                           *)
LEMMA JoinRange ==
  ASSUME NEW T, NEW s \in Seq(T), NEW t \in Seq(T)
  PROVE  /\ s \o t \in Seq(T)
         /\ Range(s \o t) = Range(s) \cup Range(t)
         /\ IsInjective(s) /\ IsInjective(t) /\ Range(s) \cap Range(t) = {}
              => IsInjective(s \o t)
<1> DEFINE u == s \o t
           l == Len(s)
           m == Len(t)
<1>1. /\ u \in Seq(T) /\ l \in Nat /\ m \in Nat /\ DOMAIN u = 1..(l + m)
      /\ DOMAIN s = 1..l /\ DOMAIN t = 1..m
  OBVIOUS
<1>2. \A i \in 1..l : u[i] = s[i] /\ i \in 1..(l + m)
  OBVIOUS
<1>3. \A i \in 1..m : u[l + i] = t[i] /\ l + i \in 1..(l + m)
  OBVIOUS
<1> HIDE DEF u, l, m
<1>4. ASSUME NEW i \in 1..(l + m), i \notin 1..l
      PROVE  \E j \in 1..m : i = l + j
  <2>1. i - l \in 1..m /\ i = l + (i - l)
    BY <1>1, <1>4
  <2> QED
    BY <2>1
<1>5. Range(u) = Range(s) \cup Range(t)
  <2>1. ASSUME NEW x \in Range(u)
        PROVE  x \in Range(s) \cup Range(t)
    <3>1. PICK i \in 1..(l + m) : x = u[i]
      BY <1>1 DEF Range
    <3>2. CASE i \in 1..l
      BY <1>1, <1>2, <3>1, <3>2 DEF Range
    <3>3. CASE i \notin 1..l
      BY <1>1, <1>3, <1>4, <3>1, <3>3 DEF Range
    <3> QED
      BY <3>2, <3>3
  <2>2. ASSUME NEW x \in Range(s)
        PROVE  x \in Range(u)
    BY <1>1, <1>2 DEF Range
  <2>3. ASSUME NEW x \in Range(t)
        PROVE  x \in Range(u)
    BY <1>1, <1>3 DEF Range
  <2> QED
    BY <2>1, <2>2, <2>3
<1>6. ASSUME IsInjective(s), IsInjective(t), Range(s) \cap Range(t) = {},
             NEW i \in 1..(l + m), NEW j \in 1..(l + m), u[i] = u[j]
      PROVE  i = j
  <2>1. \A a \in 1..l, b \in 1..m : s[a] # t[b]
    BY <1>1, <1>6 DEF Range
  <2>2. CASE i \in 1..l /\ j \in 1..l
    BY <1>1, <1>2, <1>6, <2>2 DEF IsInjective
  <2>3. CASE i \notin 1..l /\ j \notin 1..l
    <3>1. PICK a \in 1..m : i = l + a
      BY <1>4, <2>3
    <3>2. PICK b \in 1..m : j = l + b
      BY <1>4, <2>3
    <3>3. a = b
      BY <1>1, <1>3, <1>6, <3>1, <3>2 DEF IsInjective
    <3> QED
      BY <3>1, <3>2, <3>3
  <2>4. CASE i \in 1..l /\ j \notin 1..l
    BY <1>2, <1>3, <1>4, <1>6, <2>1, <2>4
  <2>5. CASE i \notin 1..l /\ j \in 1..l
    BY <1>2, <1>3, <1>4, <1>6, <2>1, <2>5
  <2> QED
    BY <2>2, <2>3, <2>4, <2>5
<1>7. IsInjective(s) /\ IsInjective(t) /\ Range(s) \cap Range(t) = {} => IsInjective(u)
  BY <1>1, <1>6 DEF IsInjective
<1> QED
  BY <1>1, <1>5, <1>7 DEF u

(* The elements of a sequence over T are in T.                              *)
LEMMA RangeIn ==
  ASSUME NEW T, NEW s \in Seq(T)
  PROVE  \A e \in Range(s) : e \in T
  BY DEF Range

(* A sequence of elements that are all in D.                                *)
LEMMA SeqIn ==
  ASSUME NEW T, NEW s \in Seq(T), NEW D, \A e \in Range(s) : e \in D
  PROVE  s \in Seq(D)
<1>1. DOMAIN s = 1..Len(s) /\ Len(s) \in Nat
  OBVIOUS
<1>2. \A i \in 1..Len(s) : s[i] \in D
  BY <1>1 DEF Range
<1> QED
  BY <1>1, <1>2

(* The elements of a sequence with one more at the end.                     *)
LEMMA AppendIs ==
  ASSUME NEW T, NEW s \in Seq(T), NEW x \in T
  PROVE  /\ Append(s, x) \in Seq(T)
         /\ \A n \in DOMAIN Append(s, x) :
              Append(s, x)[n] = x \/ (n \in DOMAIN s /\ Append(s, x)[n] = s[n])
<1>1. /\ Append(s, x) \in Seq(T) /\ Len(Append(s, x)) = Len(s) + 1
      /\ Append(s, x)[Len(s) + 1] = x /\ \A n \in 1..Len(s) : Append(s, x)[n] = s[n]
  OBVIOUS
<1>2. DOMAIN Append(s, x) = 1..(Len(s) + 1) /\ DOMAIN s = 1..Len(s) /\ Len(s) \in Nat
  BY <1>1
<1>3. \A n \in 1..(Len(s) + 1) : n = Len(s) + 1 \/ n \in 1..Len(s)
  BY <1>2
<1> QED
  BY <1>1, <1>2, <1>3

(* The elements of a sequence with one more at its end.                     *)
LEMMA AppendRange ==
  ASSUME NEW T, NEW s \in Seq(T), NEW x \in T
  PROVE  /\ Append(s, x) \in Seq(T)
         /\ Range(Append(s, x)) = Range(s) \cup {x}
         /\ IsInjective(s) /\ x \notin Range(s) => IsInjective(Append(s, x))
<1> DEFINE t == <<x>>
<1>1. t \in Seq(T) /\ Range(t) = {x} /\ IsInjective(t)
  BY DEF Range, IsInjective
<1>2. Append(s, x) = s \o t
  OBVIOUS
<1> HIDE DEF t
<1> QED
  BY <1>1, <1>2, JoinRange

(* A sequence that is cut in two after its first n elements.                *)
Cuts(s, n, a, b) ==
  /\ n \in 0..Len(s) /\ Len(a) = n
  /\ \A i \in 1..n : a[i] = s[i]
  /\ b = SubSeq(s, n + 1, Len(s))

(* The elements of the two parts into which a sequence is cut.              *)
LEMMA CutRange ==
  ASSUME NEW T, NEW s \in Seq(T), NEW n, NEW D, NEW a \in Seq(D), NEW b, Cuts(s, n, a, b)
  PROVE  /\ b \in Seq(T) /\ Range(s) = Range(a) \cup Range(b)
         /\ IsInjective(s) => /\ IsInjective(a) /\ IsInjective(b)
                              /\ Range(a) \cap Range(b) = {}
<1>0. /\ n \in 0..Len(s) /\ Len(a) = n
      /\ \A i \in 1..n : a[i] = s[i]
      /\ b = SubSeq(s, n + 1, Len(s))
  BY DEF Cuts
<1>1. PICK l \in Nat, m \in Nat : l = Len(s) /\ m = l - n
  BY <1>0
<1>2. /\ n \in Nat /\ l = n + m /\ DOMAIN s = 1..l /\ DOMAIN a = 1..n
      /\ \A i \in 1..n : i \in 1..l
      /\ \A i \in 1..m : n + i \in 1..l /\ ~(n + i \in 1..n)
  BY <1>0, <1>1
<1>3. b \in Seq(T) /\ DOMAIN b = 1..m /\ \A i \in 1..m : b[i] = s[n + i]
  <2>1. b \in Seq(T) /\ Len(b) = m
    BY <1>0, <1>1, <1>2
  <2>2. ASSUME NEW i \in 1..m
        PROVE  b[i] = s[n + i]
    <3>1. b[i] = s[(n + 1) + i - 1]
      BY <1>0, <1>1, <1>2
    <3>2. (n + 1) + i - 1 = n + i
      BY <1>2
    <3> QED
      BY <3>1, <3>2
  <2> QED
    BY <2>1, <2>2
<1>4. Range(s) = Range(a) \cup Range(b)
  <2>1. ASSUME NEW i \in 1..l
        PROVE  s[i] \in Range(a) \cup Range(b)
    <3>1. CASE i <= n
      <4>1. i \in DOMAIN a /\ a[i] = s[i]
        BY <1>0, <1>2, <3>1
      <4> QED
        BY <4>1 DEF Range
    <3>2. CASE ~(i <= n)
      <4>1. i - n \in 1..m /\ n + (i - n) = i
        BY <1>1, <1>2, <3>2
      <4>2. b[i - n] = s[i]
        BY <1>3, <4>1
      <4> QED
        BY <1>3, <4>1, <4>2 DEF Range
    <3> QED
      BY <3>1, <3>2
  <2>2. \A i \in 1..n : a[i] \in Range(s)
    BY <1>0, <1>2 DEF Range
  <2>3. \A i \in 1..m : b[i] \in Range(s)
    BY <1>2, <1>3 DEF Range
  <2>4. /\ \A x \in Range(s) : \E i \in 1..l : x = s[i]
        /\ \A x \in Range(a) : \E i \in 1..n : x = a[i]
        /\ \A x \in Range(b) : \E i \in 1..m : x = b[i]
    BY <1>2, <1>3 DEF Range
  <2>5. \A x \in Range(s) : x \in Range(a) \cup Range(b)
    BY <2>1, <2>4
  <2>6. \A x \in Range(a) : x \in Range(s)
    BY <2>2, <2>4
  <2>7. \A x \in Range(b) : x \in Range(s)
    BY <2>3, <2>4
  <2> QED
    BY <2>5, <2>6, <2>7
<1>5. ASSUME IsInjective(s)
      PROVE  IsInjective(a) /\ IsInjective(b) /\ Range(a) \cap Range(b) = {}
  <2>1. \A i, j \in 1..l : s[i] = s[j] => i = j
    BY <1>2, <1>5 DEF IsInjective
  <2>2. IsInjective(a)
    BY <1>0, <1>2, <2>1 DEF IsInjective
  <2>3. ASSUME NEW i \in 1..m, NEW j \in 1..m, b[i] = b[j]
        PROVE  i = j
    <3>1. n + i = n + j
      BY <1>2, <1>3, <2>1, <2>3
    <3> QED
      BY <1>2, <3>1
  <2>4. ASSUME NEW i \in 1..n, NEW j \in 1..m, a[i] = b[j]
        PROVE  FALSE
    <3>1. i = n + j
      BY <1>0, <1>2, <1>3, <2>1, <2>4
    <3> QED
      BY <1>2, <3>1
  <2>5. Range(a) \cap Range(b) = {}
    <3>1. /\ \A x \in Range(a) : \E i \in 1..n : x = a[i]
          /\ \A x \in Range(b) : \E i \in 1..m : x = b[i]
      BY <1>2, <1>3 DEF Range
    <3>2. ASSUME NEW x \in Range(a), x \in Range(b)
          PROVE  FALSE
      <4>1. PICK i \in 1..n : x = a[i]
        BY <3>1
      <4>2. PICK j \in 1..m : x = b[j]
        BY <3>1, <3>2
      <4> QED
        BY <2>4, <4>1, <4>2
    <3> QED
      BY <3>2
  <2> QED
    BY <1>3, <2>2, <2>3, <2>5 DEF IsInjective
<1> QED
  BY <1>3, <1>4, <1>5

(* FlattenSeq: what is in one of the sequences is in the result, and once if *)
(* no element is in two places.                                             *)
OnceInAll(ss) ==
  /\ \A i \in DOMAIN ss : IsInjective(ss[i])
  /\ \A i, j \in DOMAIN ss : \A x : x \in Range(ss[i]) /\ x \in Range(ss[j]) => i = j

(* The elements of sequences that are joined; none occurs twice if none did *)
(* in them.                                                                 *)
LEMMA FlattenRange ==
  ASSUME NEW T, NEW ss \in Seq(Seq(T))
  PROVE  /\ FlattenSeq(ss) \in Seq(T)
         /\ \A x : x \in Range(FlattenSeq(ss)) <=> \E i \in DOMAIN ss : x \in Range(ss[i])
         /\ OnceInAll(ss) => IsInjective(FlattenSeq(ss))
<1> DEFINE t == FlattenSeq(ss)
<1>1. t \in Seq(T) /\ \E a, b : Flattens(a, b, ss, Len(ss), t)
  BY FlattenIs
<1> HIDE DEF t
<1>2. PICK a, b : Flattens(a, b, ss, Len(ss), t)
  BY <1>1
<1>3. /\ a \in [1..Len(t) -> 1..Len(ss)]
      /\ \A i \in 1..Len(t) : b[i] \in 1..Len(ss[a[i]]) /\ t[i] = ss[a[i]][b[i]]
      /\ \A i, j \in 1..Len(t) : i < j => a[i] < a[j] \/ (a[i] = a[j] /\ b[i] < b[j])
      /\ \A x \in 1..Len(ss) : \A y \in 1..Len(ss[x]) :
           \E i \in 1..Len(t) : a[i] = x /\ b[i] = y
  BY <1>2 DEF Flattens
<1>4. /\ DOMAIN ss = 1..Len(ss) /\ DOMAIN t = 1..Len(t) /\ Len(t) \in Nat
      /\ \A i \in 1..Len(ss) : DOMAIN ss[i] = 1..Len(ss[i])
  BY <1>1
<1>5. ASSUME NEW n \in 1..Len(t)
      PROVE  a[n] \in DOMAIN ss /\ t[n] \in Range(ss[a[n]])
  BY <1>3, <1>4 DEF Range
<1>6. ASSUME NEW i \in DOMAIN ss, NEW y \in DOMAIN ss[i]
      PROVE  ss[i][y] \in Range(t)
  <2>0. i \in 1..Len(ss) /\ y \in 1..Len(ss[i])
    BY <1>4
  <2>1. PICK n \in 1..Len(t) : a[n] = i /\ b[n] = y
    BY <1>3, <2>0
  <2>2. t[n] = ss[i][y]
    BY <1>3, <2>1
  <2> QED
    BY <1>4, <2>2 DEF Range
<1>7. \A x : x \in Range(t) <=> \E i \in DOMAIN ss : x \in Range(ss[i])
  BY <1>4, <1>5, <1>6 DEF Range
<1>8. ASSUME OnceInAll(ss), NEW m \in 1..Len(t), NEW n \in 1..Len(t), t[m] = t[n]
      PROVE  m = n
  <2>1. a[m] = a[n] /\ a[m] \in DOMAIN ss
    BY <1>5, <1>8 DEF OnceInAll
  <2>2. b[m] \in DOMAIN ss[a[m]] /\ b[n] \in DOMAIN ss[a[m]] /\ ss[a[m]][b[m]] = ss[a[m]][b[n]]
    <3>1. /\ b[m] \in 1..Len(ss[a[m]]) /\ t[m] = ss[a[m]][b[m]]
          /\ b[n] \in 1..Len(ss[a[n]]) /\ t[n] = ss[a[n]][b[n]]
      BY <1>3
    <3>2. DOMAIN ss[a[m]] = 1..Len(ss[a[m]])
      BY <1>4, <2>1
    <3> QED
      BY <1>8, <2>1, <3>1, <3>2
  <2>3. b[m] = b[n] /\ b[m] \in Int
    BY <1>4, <1>8, <2>1, <2>2 DEF OnceInAll, IsInjective
  <2>4. ~(m < n) /\ ~(n < m)
    <3>1. a[m] \in Int
      BY <1>4, <2>1
    <3>2. /\ m < n => a[m] < a[n] \/ (a[m] = a[n] /\ b[m] < b[n])
          /\ n < m => a[n] < a[m] \/ (a[n] = a[m] /\ b[n] < b[m])
      BY <1>3
    <3> QED
      BY <2>1, <2>3, <3>1, <3>2
  <2> QED
    BY <2>4
<1>9. OnceInAll(ss) => IsInjective(t)
  BY <1>4, <1>8 DEF IsInjective
<1> QED
  BY <1>1, <1>7, <1>9 DEF t

(* Sequences that are sorted by a key of their elements.                    *)
SortedBy(s, key) == \A i, j \in DOMAIN s : i < j => key[s[i]] <= key[s[j]]

(* What is taken out of a sorted sequence is sorted.                        *)
LEMMA FilterSorted ==
  ASSUME NEW T, NEW s \in Seq(T), NEW wanted, NEW key, SortedBy(s, key)
  PROVE  SortedBy(Filter(s, wanted), key)
<1>1. PICK t : t = Filter(s, wanted)
  OBVIOUS
<1>2. t \in Seq(T) /\ \E p : Selects(p, s, Len(s), wanted, t)
  BY <1>1, FilterIs
<1>3. PICK p : Selects(p, s, Len(s), wanted, t)
  BY <1>2
<1>4. /\ p \in [1..Len(t) -> 1..Len(s)]
      /\ \A i \in 1..Len(t) : t[i] = s[p[i]]
      /\ \A i, j \in 1..Len(t) : i < j => p[i] < p[j]
  BY <1>3 DEF Selects
<1>5. DOMAIN t = 1..Len(t) /\ DOMAIN s = 1..Len(s)
  BY <1>2
<1>6. ASSUME NEW i \in 1..Len(t), NEW j \in 1..Len(t), i < j
      PROVE  key[t[i]] <= key[t[j]]
  <2>1. p[i] \in DOMAIN s /\ p[j] \in DOMAIN s /\ p[i] < p[j]
    BY <1>4, <1>5, <1>6
  <2>2. key[s[p[i]]] <= key[s[p[j]]]
    BY <2>1 DEF SortedBy
  <2>3. t[i] = s[p[i]] /\ t[j] = s[p[j]]
    BY <1>4
  <2> QED
    BY <2>2, <2>3
<1> QED
  BY <1>1, <1>5, <1>6 DEF SortedBy

(* Two sorted sequences joined are sorted if nothing in the second is less  *)
(* than something in the first.                                             *)
LEMMA JoinSorted ==
  ASSUME NEW T, NEW s \in Seq(T), NEW t \in Seq(T), NEW key, SortedBy(s, key), SortedBy(t, key),
         \A x \in Range(s), y \in Range(t) : key[x] <= key[y]
  PROVE  SortedBy(s \o t, key)
<1>0. PICK u : u = s \o t
  OBVIOUS
<1>1. PICK l \in Nat, m \in Nat : l = Len(s) /\ m = Len(t)
  OBVIOUS
<1>2. /\ DOMAIN s = 1..l /\ DOMAIN t = 1..m /\ DOMAIN u = 1..(l + m)
      /\ \A i \in 1..(l + m) : u[i] = IF i <= l THEN s[i] ELSE t[i - l]
      /\ \A i \in 1..(l + m) : i <= l => i \in 1..l
      /\ \A i \in 1..(l + m) : ~(i <= l) => i - l \in 1..m
  BY <1>0, <1>1
<1>3. ASSUME NEW i \in 1..(l + m), NEW j \in 1..(l + m), i < j
      PROVE  key[u[i]] <= key[u[j]]
  <2>1. CASE i <= l /\ j <= l
    <3>1. i \in DOMAIN s /\ j \in DOMAIN s /\ u[i] = s[i] /\ u[j] = s[j]
      BY <1>2, <2>1
    <3> QED
      BY <1>3, <3>1 DEF SortedBy
  <2>2. CASE i <= l /\ ~(j <= l)
    <3>1. i \in DOMAIN s /\ j - l \in DOMAIN t /\ u[i] = s[i] /\ u[j] = t[j - l]
      BY <1>2, <2>2
    <3>2. s[i] \in Range(s) /\ t[j - l] \in Range(t)
      BY <3>1 DEF Range
    <3> QED
      BY <3>1, <3>2
  <2>3. CASE ~(i <= l) /\ ~(j <= l)
    <3>1. PICK x, y : x = i - l /\ y = j - l
      OBVIOUS
    <3>2. x \in DOMAIN t /\ u[i] = t[x]
      BY <1>2, <2>3, <3>1
    <3>3. y \in DOMAIN t /\ u[j] = t[y]
      BY <1>2, <2>3, <3>1
    <3>4. x < y
      BY <1>1, <1>3, <3>1
    <3> QED
      BY <3>2, <3>3, <3>4 DEF SortedBy
  <2>4. i <= l \/ ~(j <= l)
    BY <1>1, <1>3
  <2> QED
    BY <2>1, <2>2, <2>3, <2>4
<1> QED
  BY <1>0, <1>2, <1>3 DEF SortedBy

(* SetToSeq: the elements of a finite set, each of them once.               *)
LEMMA SetToSeqIs ==
  ASSUME NEW S, IsFiniteSet(S)
  PROVE  SetToSeq(S) \in Seq(S) /\ Range(SetToSeq(S)) = S /\ IsInjective(SetToSeq(S))
<1> DEFINE n == Cardinality(S)
           s == SetToSeq(S)
<1>1. n \in Nat /\ \E f : f \in Bijection(1..n, S)
  <2>1. PICK c \in Nat : ExistsBijection(1..c, S)
    BY FS_NatBijection
  <2>2. n = c
    BY <2>1, FS_CountingElements
  <2> QED
    BY <2>1, <2>2 DEF ExistsBijection
<1>2. PICK f : f \in Bijection(1..n, S)
  BY <1>1
<1>3. f \in [1..n -> S] /\ IsInjective(f)
  BY <1>2, Zenon DEF Bijection, Injection, IsInjective
<1>4. s \in [1..n -> S] /\ IsInjective(s)
  BY <1>3, Zenon DEF SetToSeq
<1>5. s \in Seq(S)
  BY <1>1, <1>4
<1>6. Range(s) = S
  <2>1. IsFiniteSet(1..n) /\ Cardinality(1..n) = n
    BY <1>1, FS_Interval
  <2>2. s \in Injection(1..n, S)
    BY <1>4 DEF Injection, IsInjective
  <2>3. s \in Surjection(1..n, S)
    BY <2>1, <2>2, FS_Injection
  <2> QED
    BY <1>4, <2>3 DEF Surjection, Range
<1> QED
  BY <1>4, <1>5, <1>6

(* How often an element occurs in a sequence without repetitions.           *)
LEMMA Occurrences ==
  ASSUME NEW T, NEW s \in Seq(T), IsInjective(s), NEW a
  PROVE  Cardinality({n \in DOMAIN s : s[n] = a}) = IF a \in Range(s) THEN 1 ELSE 0
<1>1. CASE a \in Range(s)
  <2>1. PICK i \in DOMAIN s : s[i] = a
    BY <1>1 DEF Range
  <2>2. {n \in DOMAIN s : s[n] = a} = {i}
    BY <2>1 DEF IsInjective
  <2> QED
    BY <1>1, <2>2, FS_Singleton
<1>2. CASE a \notin Range(s)
  <2>1. {n \in DOMAIN s : s[n] = a} = {}
    BY <1>2 DEF Range
  <2> QED
    BY <1>2, <2>1, FS_EmptySet
<1> QED
  BY <1>1, <1>2

(* A non-empty set of numbers up to n has a greatest element.               *)
LEMMA Greatest ==
  ASSUME NEW n \in Nat, NEW T \in SUBSET (0..n), T # {}
  PROVE  \E x \in T : \A y \in T : y <= x
<1> DEFINE U == {i \in Nat : n - i \in T}
<1>1. U \in SUBSET Nat /\ U # {}
  <2>1. PICK y \in T : TRUE
    OBVIOUS
  <2>2. n - y \in Nat /\ n - (n - y) = y
    BY <2>1
  <2> QED
    BY <2>1, <2>2
<1>2. PICK x \in U : \A y \in U : x <= y
  <2> HIDE DEF U
  <2> QED
    BY <1>1, Least
<1>3. n - x \in T /\ x \in Nat
  BY <1>2
<1>4. ASSUME NEW y \in T
      PROVE  y <= n - x
  <2>1. y \in 0..n
    OBVIOUS
  <2>2. n - y \in Nat /\ n - (n - y) = y
    BY <2>1
  <2>3. n - y \in U
    BY <2>2
  <2>4. x <= n - y
    BY <1>2, <2>3
  <2> QED
    BY <1>3, <2>1, <2>4
<1> QED
  BY <1>3, <1>4

(* Reverse: the same elements, from the last to the first.                  *)
LEMMA ReverseRange ==
  ASSUME NEW T, NEW s \in Seq(T)
  PROVE  /\ Reverse(s) \in Seq(T) /\ Len(Reverse(s)) = Len(s)
         /\ \A i \in 1..Len(s) : Reverse(s)[i] = s[(Len(s) - i) + 1]
         /\ Range(Reverse(s)) = Range(s)
         /\ IsInjective(s) => IsInjective(Reverse(s))
<1> DEFINE n == Len(s)
           r == Reverse(s)
<1>1. n \in Nat /\ DOMAIN s = 1..n /\ \A i \in 1..n : s[i] \in T
  OBVIOUS
<1>2. r = [i \in 1..n |-> s[(n - i) + 1]]
  BY DEF Reverse
<1>3. \A i \in 1..n : (n - i) + 1 \in 1..n /\ (n - ((n - i) + 1)) + 1 = i
  BY <1>1
<1>4. r \in Seq(T) /\ Len(r) = n /\ DOMAIN r = 1..n
  <2>1. r \in [1..n -> T]
    <3> HIDE DEF n, r
    <3> QED
      BY <1>1, <1>2, <1>3
  <2> HIDE DEF n, r
  <2> QED
    BY <1>1, <2>1
<1>5. \A i \in 1..n : r[i] = s[(n - i) + 1]
  <2> HIDE DEF n, r
  <2> QED
    BY <1>2
<1> HIDE DEF n, r
<1>6. Range(r) = Range(s)
  <2>1. ASSUME NEW x \in Range(s)
        PROVE  x \in Range(r)
    <3>1. PICK i \in 1..n : x = s[i]
      BY <1>1 DEF Range
    <3>2. PICK j \in 1..n : (n - j) + 1 = i
      BY <1>3
    <3> QED
      BY <1>4, <1>5, <3>1, <3>2 DEF Range
  <2>2. ASSUME NEW x \in Range(r)
        PROVE  x \in Range(s)
    <3>1. PICK i \in 1..n : x = r[i]
      BY <1>4 DEF Range
    <3> QED
      BY <1>1, <1>3, <1>5, <3>1 DEF Range
  <2> QED
    BY <2>1, <2>2
<1>7. ASSUME IsInjective(s)
      PROVE  IsInjective(r)
  <2>1. ASSUME NEW i \in 1..n, NEW j \in 1..n, r[i] = r[j]
        PROVE  i = j
    <3>1. s[(n - i) + 1] = s[(n - j) + 1]
      BY <1>5, <2>1
    <3>2. (n - i) + 1 = (n - j) + 1
      BY <1>1, <1>3, <1>7, <3>1 DEF IsInjective
    <3> QED
      BY <1>1, <3>2
  <2> QED
    BY <1>4, <2>1 DEF IsInjective
<1> QED
  BY <1>4, <1>5, <1>6, <1>7 DEF n, r

(* How often x occurs among the first k elements.                           *)
TimesUpTo(s, k, x) == Cardinality({i \in 1..k : s[i] = x})

LEMMA TimesStep ==
  ASSUME NEW s, NEW x, NEW k \in Nat
  PROVE  /\ TimesUpTo(s, 0, x) = 0
         /\ TimesUpTo(s, k, x) \in Nat
         /\ TimesUpTo(s, k + 1, x) = TimesUpTo(s, k, x) + (IF s[k + 1] = x THEN 1 ELSE 0)
<1> DEFINE At(j) == {i \in 1..j : s[i] = x}
<1>1. At(0) = {}
  OBVIOUS
<1>2. IsFiniteSet(At(k))
  <2>1. IsFiniteSet(1..k) /\ At(k) \in SUBSET (1..k)
    BY FS_Interval
  <2> HIDE DEF At
  <2> QED
    BY <2>1, FS_Subset
<1>3. At(k + 1) = IF s[k + 1] = x THEN At(k) \cup {k + 1} ELSE At(k)
  <2>1. \A i : i \in 1..(k + 1) <=> i \in 1..k \/ i = k + 1
    OBVIOUS
  <2>2. CASE s[k + 1] = x
    BY <2>1, <2>2
  <2>3. CASE s[k + 1] # x
    BY <2>1, <2>3
  <2> QED
    BY <2>2, <2>3
<1>4. k + 1 \notin At(k)
  OBVIOUS
<1>5. Cardinality(At(k)) \in Nat /\ Cardinality(At(0)) = 0
  BY <1>1, <1>2, FS_CardinalityType, FS_EmptySet
<1>6. Cardinality(At(k + 1)) = Cardinality(At(k)) + (IF s[k + 1] = x THEN 1 ELSE 0)
  <2>1. CASE s[k + 1] = x
    <3>1. At(k + 1) = At(k) \cup {k + 1}
      BY <1>3, <2>1
    <3>2. Cardinality(At(k) \cup {k + 1}) = Cardinality(At(k)) + 1
      <4> HIDE DEF At
      <4> QED
        BY <1>2, <1>4, FS_AddElement
    <3> QED
      BY <2>1, <3>1, <3>2
  <2>2. CASE s[k + 1] # x
    <3>1. At(k + 1) = At(k)
      BY <1>3, <2>2
    <3> HIDE DEF At
    <3> QED
      BY <1>5, <2>2, <3>1
  <2> QED
    BY <2>1, <2>2
<1> QED
  BY <1>5, <1>6 DEF TimesUpTo

(* The first elements are not more than all.                                *)
LEMMA TimesLess ==
  ASSUME NEW s, NEW x, NEW k \in Nat, NEW n \in Nat, k <= n
  PROVE  TimesUpTo(s, k, x) <= TimesUpTo(s, n, x)
<1> DEFINE At(j) == {i \in 1..j : s[i] = x}
<1>1. At(k) \in SUBSET At(n)
  OBVIOUS
<1>2. IsFiniteSet(At(n))
  <2>1. IsFiniteSet(1..n) /\ At(n) \in SUBSET (1..n)
    BY FS_Interval
  <2> HIDE DEF At
  <2> QED
    BY <2>1, FS_Subset
<1>3. Cardinality(At(k)) <= Cardinality(At(n))
  <2> HIDE DEF At
  <2> QED
    BY <1>1, <1>2, FS_Subset
<1> QED
  BY <1>3 DEF TimesUpTo

(* A function that starts at base, and makes the next step wherever it has  *)
(* been in D so far, is the one that Recursion is about.                    *)
LEMMA RecursIn ==
  ASSUME NEW n, NEW D, NEW base, NEW step, CanRecur(n, D, base, step), NEW f,
         f = [i \in 0..n |-> f[i]], f[0] = base,
         \A i \in 1..n : f[i - 1] \in D => f[i] = step[i][f[i - 1]]
  PROVE  Recurs(f, n, D, base, step)
<1>0. n \in Nat /\ base \in D /\ step \in [1..n -> [D -> D]]
  BY DEF CanRecur
<1> DEFINE T == {i \in Nat : f[i] \in D}
<1>1. 0 \in T
  BY <1>0
<1>2. ASSUME NEW i \in Nat, i < n, i \in T
      PROVE  i + 1 \in T
  <2>1. i + 1 \in 1..n /\ (i + 1) - 1 = i /\ f[i] \in D
    BY <1>0, <1>2
  <2>2. f[i + 1] = step[i + 1][f[i]]
    BY <2>1
  <2> QED
    BY <1>0, <2>1, <2>2
<1>3. \A i \in 0..n : i \in T
  <2> HIDE DEF T
  <2> QED
    BY <1>0, <1>1, <1>2, Induct
<1>4. f \in [0..n -> D]
  BY <1>3
<1>5. \A i \in 1..n : f[i] = step[i][f[i - 1]]
  <2>1. \A i \in 1..n : i - 1 \in 0..n
    BY <1>0
  <2> QED
    BY <1>3, <2>1
<1> QED
  BY <1>4, <1>5 DEF Recurs

=============================================================================
