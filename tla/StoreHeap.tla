----------------------------- MODULE StoreHeap -----------------------------
(* What the operators of Store do to the heap: what is true of the heap in  *)
(* a collection and between two, and that copying a block, storing a word   *)
(* in a field and allocating a block preserve it.                           *)
EXTENDS Store, SequenceLemmas

-----------------------------------------------------------------------------
(***************************************************************************)
(* What is true of the heap when generations below g are being copied, and *)
(* between collections, when g is 0.                                       *)
(***************************************************************************)
BlockLabels == {"FREE", "MOVED", "BLOCK", "HOLE", "REF", "WEAK_MAP", "TABLE", "LARGE_TABLE"}
Blocks == [space : (0..ToSpace) \cup {None}, label : BlockLabels, args : Seq(Field),
           childish : BOOLEAN, fwd : Addr \cup {None}]

Alloc(h, a) == h[a].space # None
Live(h, a) == Alloc(h, a) /\ ~AlreadyMoved(h, a)

(* What will not be moved any more.                                        *)
Stays(h, g, a) == Live(h, a) /\ h[a].space >= g

HeapType(h, g) ==
  /\ h \in [Addr -> Blocks]
  /\ \A a \in Addr : ~Alloc(h, a) => h[a] = Free
  /\ \A a \in Addr : Alloc(h, a) /\ h[a].space = ToSpace => g = ToSpace

Shape(a, b) ==
  /\ IF a[1] \in Table THEN b.label \in {"TABLE", "LARGE_TABLE"}
     ELSE IF a[1] = RootObj THEN b.label = "BLOCK"
     ELSE IF a[1] = StartupMap THEN b.label = "WEAK_MAP"
     ELSE b.label \in {"BLOCK", "HOLE", "REF"}
  /\ Len(b.args) = IF a[1] \in Table THEN KeyCount
                   ELSE IF a[1] = RootObj THEN RootArity
                   ELSE IF b.label = "BLOCK" THEN Arity ELSE 1

(* What the fields of the block at a may hold. Nothing refers to the root. *)
LinkOK(h, a, v) ==
  /\ v \in Addr => Alloc(h, v) /\ v[1] # RootObj /\ (v[1] \in Table <=> a[1] = StartupMap)
  /\ v = Empty => a[1] \in Table
  /\ a[1] = StartupMap => v \in Addr

Linked(h) ==
  \A a \in Addr : Live(h, a) =>
    Shape(a, h[a]) /\ \A i \in DOMAIN h[a].args : LinkOK(h, a, h[a].args[i])

ForwardsOK(h, g) ==
  \A a \in Addr : AlreadyMoved(h, a) =>
    /\ Alloc(h, a) /\ h[a].label = "MOVED"
    /\ h[a].fwd[1] = a[1] /\ Stays(h, g, h[a].fwd)

(* An object has one block, or one and the copy of it.                     *)
CopiesOK(h) ==
  \A a, b \in Addr : Alloc(h, a) /\ Alloc(h, b) /\ a[1] = b[1] /\ a # b =>
    h[a].fwd = b \/ h[b].fwd = a

(* In a major collection nothing that is yet to be copied refers to a copy. *)
NotAhead(h, g) ==
  g = ToSpace =>
    \A a \in Addr : Live(h, a) /\ ~Stays(h, g, a) =>
      \A i \in DOMAIN h[a].args : h[a].args[i] \in Addr => ~Stays(h, g, h[a].args[i])

HeapOK(h, g) == HeapType(h, g) /\ Linked(h) /\ ForwardsOK(h, g) /\ CopiesOK(h) /\ NotAhead(h, g)

(* p: the fields that the collection has yet to visit.                     *)
AllPending(h, g, p) ==
  \A a \in Addr : Stays(h, g, a) =>
    \A i \in DOMAIN h[a].args :
      h[a].args[i] \in Addr /\ ~Stays(h, g, h[a].args[i]) => <<a, i>> \in p

NoneVisited(h, g, p) ==
  g = ToSpace =>
    \A a \in Addr : Stays(h, g, a) =>
      \A i \in DOMAIN h[a].args :
        <<a, i>> \in p /\ h[a].args[i] \in Addr => ~Stays(h, g, h[a].args[i])

(* r: the blocks that are remembered.                                      *)
RememberedOK(h, g, r) ==
  /\ r \subseteq Addr /\ \A a \in r : Alloc(h, a)
  /\ \A a \in Addr : Stays(h, g, a) => (h[a].childish <=> a \in r)
  /\ \A a \in Addr : Stays(h, g, a) =>
       \A i \in DOMAIN h[a].args :
         LET v == h[a].args[i]
         IN v \in Addr /\ Stays(h, g, v) /\ h[v].space < h[a].space => a \in r

RootOK(h, g, w) ==
  /\ w \in Addr /\ w[1] = RootObj /\ Stays(h, g, w)
  /\ StartupMap # None => h[w].args[1] \in Addr /\ h[w].args[1][1] = StartupMap

Sound(h, g, p, r) ==
  HeapOK(h, g) /\ AllPending(h, g, p) /\ NoneVisited(h, g, p) /\ RememberedOK(h, g, r)

-----------------------------------------------------------------------------
(***************************************************************************)
(* References and what can be reached.                                     *)
(***************************************************************************)

(* There are finitely many objects and addresses.                          *)
LEMMA FiniteAddr ==
  /\ Cardinality(Obj) \in Nat /\ IsFiniteSet(Addr) /\ Cardinality(Addr) \in Nat
  /\ None \notin Addr /\ Empty \notin Addr /\ Integer \notin Addr /\ Integer # Empty
<1>1. IsFiniteSet(Obj) /\ IsFiniteSet(Table)
  BY StoreAssumption DEF StoreAssumption
<1>2. IsFiniteSet(Object)
  <2>1. IsFiniteSet(Obj \cup Table)
    BY <1>1, FS_Union
  <2>2. IsFiniteSet({RootObj})
    BY FS_Singleton
  <2> QED
    BY <2>1, <2>2, FS_Union DEF Object
<1>3. IsFiniteSet(Copies)
  <2>1. 0 \in Int /\ 2 \in Int
    OBVIOUS
  <2> QED
    BY <2>1, FS_Interval DEF Copies
<1>4. IsFiniteSet(Addr)
  BY <1>2, <1>3, FS_Product DEF Addr
<1> QED
  BY <1>1, <1>4, FS_CardinalityType, StoreAssumption DEF StoreAssumption

(* A closed set of words: what the references in it refer to is in it.     *)
ClosedUnderRefs(h, S) ==
  S \subseteq Word /\ \A v \in S : IsRef(h, v) => h[v].args[1] \in S

(* Deref stays within a closed set.                                        *)
LEMMA DerefStays ==
  ASSUME NEW h, NEW S, ClosedUnderRefs(h, S), ClosedUnderRefs(h, Word), NEW w \in S
  PROVE  Deref(h, w) \in S
<1> USE DEF ClosedUnderRefs
<1> DEFINE N == Cardinality(Obj)
           step == [n \in 1..N |-> [F \in [Word -> Word] |->
                      [v \in Word |-> IF ~IsRef(h, v) THEN v ELSE F[h[v].args[1]]]]]
           base == [v \in Word |-> v]
           Def(t) == t = [n \in 0..N |-> [v \in Word |->
                            IF n = 0 \/ ~IsRef(h, v) THEN v ELSE t[n - 1][h[v].args[1]]]]
           to == CHOOSE t : Def(t)
<1>1. N \in Nat
  BY FiniteAddr
<1>2. PICK f : Recurs(f, N, [Word -> Word], base, step)
  <2>1. ASSUME NEW F \in [Word -> Word]
        PROVE  [v \in Word |-> IF ~IsRef(h, v) THEN v ELSE F[h[v].args[1]]] \in [Word -> Word]
    OBVIOUS
  <2>2. step \in [1..N -> [[Word -> Word] -> [Word -> Word]]]
    BY <2>1
  <2>3. base \in [Word -> Word]
    OBVIOUS
  <2> HIDE DEF N, step, base
  <2>4. CanRecur(N, [Word -> Word], base, step)
    BY <1>1, <2>2, <2>3 DEF CanRecur
  <2> QED
    BY <2>4, Recursion
<1>3. Def(f)
  <2>1. f \in [0..N -> [Word -> Word]] /\ f[0] = base /\ \A i \in 1..N : f[i] = step[i][f[i - 1]]
    BY <1>2 DEF Recurs
  <2>2. ASSUME NEW n \in 0..N
        PROVE  f[n] = [v \in Word |->
                         IF n = 0 \/ ~IsRef(h, v) THEN v ELSE f[n - 1][h[v].args[1]]]
    <3>1. CASE n = 0
      BY <2>1, <3>1
    <3>2. CASE n \in 1..N
      <4>1. n - 1 \in 0..N /\ n # 0
        BY <1>1, <3>2
      <4>2. f[n - 1] \in [Word -> Word]
        BY <2>1, <4>1
      <4>3. step[n][f[n - 1]] = [v \in Word |->
                                   IF ~IsRef(h, v) THEN v ELSE f[n - 1][h[v].args[1]]]
        BY <3>2, <4>2
      <4> HIDE DEF step, N
      <4> QED
        BY <2>1, <3>2, <4>1, <4>3
    <3> QED
      BY <1>1, <3>1, <3>2
  <2> HIDE DEF step, base, N
  <2> QED
    BY <2>1, <2>2
<1>4. Def(to)
  <2> HIDE DEF Def
  <2> QED
    BY <1>3
<1> DEFINE I == {n \in Nat : \A v \in S : to[n][v] \in S}
<1>5. 0 \in I
  <2>1. ASSUME NEW v \in S
        PROVE  to[0][v] = v
    <3>1. 0 \in 0..N
      BY <1>1
    <3> HIDE DEF to, N
    <3> QED
      BY <1>4, <3>1
  <2> HIDE DEF to
  <2> QED
    BY <2>1
<1>6. ASSUME NEW n \in Nat, n < N, n \in I
      PROVE  n + 1 \in I
  <2>1. n + 1 \in 0..N /\ n + 1 # 0 /\ (n + 1) - 1 = n
    BY <1>1, <1>6
  <2>2. ASSUME NEW v \in S
        PROVE  to[n + 1][v] \in S
    <3>1. to[n + 1][v] = IF ~IsRef(h, v) THEN v ELSE to[n][h[v].args[1]]
      <4>1. \A m \in 0..N : \A u \in Word :
              to[m][u] = IF m = 0 \/ ~IsRef(h, u) THEN u ELSE to[m - 1][h[u].args[1]]
        <5>1. ASSUME NEW m \in 0..N, NEW u \in Word
              PROVE  to[m][u] = IF m = 0 \/ ~IsRef(h, u) THEN u
                                ELSE to[m - 1][h[u].args[1]]
          <6> HIDE DEF to, N, I, step, base
          <6>1. to[m] = [x \in Word |-> IF m = 0 \/ ~IsRef(h, x) THEN x
                                        ELSE to[m - 1][h[x].args[1]]]
            BY <1>4
          <6> QED
            BY <6>1
        <5> HIDE DEF to, N, I, step, base, Def
        <5> QED
          BY <5>1
      <4>2. v \in Word
        OBVIOUS
      <4> HIDE DEF to, N
      <4> QED
        BY <2>1, <4>1, <4>2
    <3>2. IsRef(h, v) => to[n][h[v].args[1]] \in S
      <4> HIDE DEF to
      <4> QED
        BY <1>6
    <3> HIDE DEF to
    <3> QED
      BY <3>1, <3>2
  <2> HIDE DEF to
  <2> QED
    BY <2>2
<1>7. N \in I
  <2> HIDE DEF I, N
  <2>1. \A n \in 0..N : n \in I
    BY <1>1, <1>5, <1>6, Induct
  <2> QED
    BY <1>1, <2>1
<1>8. Deref(h, w) = to[N][w]
  BY DEF Deref
<1> HIDE DEF to, N
<1> QED
  BY <1>7, <1>8

(* The function that Reach goes by, for the edges of a graph of addresses.  *)
Closes(f, N, edges) ==
  /\ f \in [0..N -> [SUBSET Addr -> SUBSET Addr]]
  /\ \A n \in 0..N, T \in SUBSET Addr :
       LET near == T \cup UNION {edges[a] : a \in T}
       IN f[n][T] = IF n = 0 \/ near = T THEN T ELSE f[n - 1][near]

(* The function that Reach is defined by exists, for any graph of           *)
(* addresses.                                                               *)
LEMMA ClosureExists ==
  ASSUME NEW N \in Nat, NEW edges \in [Addr -> SUBSET Addr]
  PROVE  \E f : Closes(f, N, edges)
<1> DEFINE D == [SUBSET Addr -> SUBSET Addr]
           near(T) == T \cup UNION {edges[a] : a \in T}
           base == [T \in SUBSET Addr |-> T]
           step == [n \in 1..N |-> [F \in D |->
                      [T \in SUBSET Addr |-> IF near(T) = T THEN T ELSE F[near(T)]]]]
<1>1. \A T \in SUBSET Addr : near(T) \in SUBSET Addr
  OBVIOUS
<1>2. PICK f : Recurs(f, N, D, base, step)
  <2>1. ASSUME NEW F \in D
        PROVE  [T \in SUBSET Addr |-> IF near(T) = T THEN T ELSE F[near(T)]] \in D
    <3> HIDE DEF near
    <3> QED
      BY <1>1
  <2>2. step \in [1..N -> [D -> D]]
    <3> HIDE DEF near, D
    <3> QED
      BY <2>1
  <2>3. base \in D
    OBVIOUS
  <2> HIDE DEF step, base, D
  <2>4. CanRecur(N, D, base, step)
    BY <2>2, <2>3 DEF CanRecur
  <2> QED
    BY <2>4, Recursion
<1>3. f \in [0..N -> D] /\ f[0] = base /\ \A i \in 1..N : f[i] = step[i][f[i - 1]]
  BY <1>2 DEF Recurs
<1>4. ASSUME NEW n \in 0..N, NEW T \in SUBSET Addr
      PROVE  f[n][T] = IF n = 0 \/ near(T) = T THEN T ELSE f[n - 1][near(T)]
  <2>1. CASE n = 0
    <3> HIDE DEF near, step
    <3> QED
      BY <1>3, <2>1
  <2>2. CASE n \in 1..N
    <3>1. n - 1 \in 0..N /\ n # 0
      BY <2>2
    <3>2. f[n - 1] \in D
      BY <1>3, <3>1
    <3>3. step[n][f[n - 1]] = [t \in SUBSET Addr |->
                                 IF near(t) = t THEN t ELSE f[n - 1][near(t)]]
      <4> HIDE DEF near, D
      <4> QED
        BY <2>2, <3>2
    <3> HIDE DEF near, step, D
    <3> QED
      BY <1>3, <2>2, <3>1, <3>3
  <2> QED
    BY <2>1, <2>2
<1>5. Closes(f, N, edges)
  BY <1>3, <1>4 DEF Closes
<1> QED
  BY <1>5

(* What can be reached along StoredWords from a closed set is in the set.  *)
LEMMA ReachStoredWords ==
  ASSUME NEW h, NEW C \in SUBSET Addr, \A a \in C : StoredWords(h, a) \subseteq C,
         NEW S \in SUBSET C
  PROVE  Reach(h, S, StoredWords) \subseteq C
<1> DEFINE N == Cardinality(Addr)
           near(T) == T \cup UNION {StoredWords(h, a) : a \in T}
           edges == [a \in Addr |-> StoredWords(h, a)]
           Def(c) == c = [n \in 0..N |-> [T \in SUBSET Addr |->
                            IF n = 0 \/ near(T) = T THEN T ELSE c[n - 1][near(T)]]]
           closure == CHOOSE c : Def(c)
<1>1. N \in Nat
  BY FiniteAddr
<1>2. \A a \in Addr : StoredWords(h, a) \in SUBSET Addr
  BY DEF StoredWords
<1>3. PICK f : Closes(f, N, edges)
  <2>1. edges \in [Addr -> SUBSET Addr]
    BY <1>2
  <2> HIDE DEF N, edges
  <2> QED
    BY <1>1, <2>1, ClosureExists
<1>4. \A T \in SUBSET Addr : near(T) = T \cup UNION {edges[a] : a \in T}
  OBVIOUS
<1>5. ASSUME NEW n \in 0..N
      PROVE  f[n] = [T \in SUBSET Addr |->
                       IF n = 0 \/ near(T) = T THEN T ELSE f[n - 1][near(T)]]
  <2>1. f[n] \in [SUBSET Addr -> SUBSET Addr]
    BY <1>3 DEF Closes
  <2>2. ASSUME NEW T \in SUBSET Addr
        PROVE  f[n][T] = IF n = 0 \/ near(T) = T THEN T ELSE f[n - 1][near(T)]
    <3> DEFINE u == T \cup UNION {edges[a] : a \in T}
    <3>1. f[n][T] = IF n = 0 \/ u = T THEN T ELSE f[n - 1][u]
      <4> HIDE DEF edges, N, Def
      <4> QED
        BY <1>3 DEF Closes
    <3>2. near(T) = u
      <4> HIDE DEF edges, near
      <4> QED
        BY <1>4
    <3> HIDE DEF u, near
    <3> QED
      BY <3>1, <3>2
  <2> HIDE DEF near
  <2> QED
    BY <2>1, <2>2
<1>6. Def(f)
  <2>1. f \in [0..N -> [SUBSET Addr -> SUBSET Addr]]
    BY <1>3 DEF Closes
  <2> HIDE DEF near, N
  <2> QED
    BY <1>5, <2>1
<1>7. Def(closure)
  <2> HIDE DEF Def
  <2> QED
    BY <1>6
<1>8. ASSUME NEW n \in 0..N, NEW T \in SUBSET Addr
      PROVE  closure[n][T] = IF n = 0 \/ near(T) = T THEN T ELSE closure[n - 1][near(T)]
  <2> HIDE DEF closure, near, N
  <2>1. closure[n] = [t \in SUBSET Addr |->
                        IF n = 0 \/ near(t) = t THEN t ELSE closure[n - 1][near(t)]]
    BY <1>7
  <2> QED
    BY <2>1
<1>9. ASSUME NEW T \in SUBSET C
      PROVE  near(T) \in SUBSET C
  OBVIOUS
<1> DEFINE I == {n \in Nat : \A T \in SUBSET C : closure[n][T] \in SUBSET C}
<1>10. 0 \in I
  <2>1. 0 \in 0..N
    BY <1>1
  <2> HIDE DEF closure, near, N
  <2> QED
    BY <1>8, <2>1
<1>11. ASSUME NEW n \in Nat, n < N, n \in I
       PROVE  n + 1 \in I
  <2>1. n + 1 \in 0..N /\ n + 1 # 0 /\ (n + 1) - 1 = n
    BY <1>1, <1>11
  <2>2. ASSUME NEW T \in SUBSET C
        PROVE  closure[n + 1][T] \in SUBSET C
    <3>1. T \in SUBSET Addr /\ near(T) \in SUBSET C
      <4> HIDE DEF near
      <4> QED
        BY <1>9
    <3> HIDE DEF closure, near, N
    <3>2. closure[n + 1][T] = IF near(T) = T THEN T ELSE closure[n][near(T)]
      BY <1>8, <2>1, <3>1
    <3>3. closure[n][near(T)] \in SUBSET C
      BY <1>11, <3>1
    <3> QED
      BY <3>1, <3>2, <3>3
  <2> HIDE DEF closure
  <2> QED
    BY <2>2
<1>12. N \in I
  <2> HIDE DEF I, N
  <2>1. \A n \in 0..N : n \in I
    BY <1>1, <1>10, <1>11, Induct
  <2> QED
    BY <1>1, <2>1
<1>13. Reach(h, S, StoredWords) = closure[N][S]
  BY DEF Reach
<1> HIDE DEF closure, N
<1> QED
  BY <1>12, <1>13

(* What can be reached along Edges from a closed set is in the set.        *)
LEMMA ReachEdges ==
  ASSUME NEW h, NEW C \in SUBSET Addr, \A a \in C : Edges(h, a) \subseteq C,
         NEW S \in SUBSET C
  PROVE  Reach(h, S, Edges) \subseteq C
<1> DEFINE N == Cardinality(Addr)
           near(T) == T \cup UNION {Edges(h, a) : a \in T}
           edges == [a \in Addr |-> Edges(h, a)]
           Def(c) == c = [n \in 0..N |-> [T \in SUBSET Addr |->
                            IF n = 0 \/ near(T) = T THEN T ELSE c[n - 1][near(T)]]]
           closure == CHOOSE c : Def(c)
<1>1. N \in Nat
  BY FiniteAddr
<1>2. \A a \in Addr : Edges(h, a) \in SUBSET Addr
  BY DEF Edges
<1>3. PICK f : Closes(f, N, edges)
  <2>1. edges \in [Addr -> SUBSET Addr]
    BY <1>2
  <2> HIDE DEF N, edges
  <2> QED
    BY <1>1, <2>1, ClosureExists
<1>4. \A T \in SUBSET Addr : near(T) = T \cup UNION {edges[a] : a \in T}
  OBVIOUS
<1>5. ASSUME NEW n \in 0..N
      PROVE  f[n] = [T \in SUBSET Addr |->
                       IF n = 0 \/ near(T) = T THEN T ELSE f[n - 1][near(T)]]
  <2>1. f[n] \in [SUBSET Addr -> SUBSET Addr]
    BY <1>3 DEF Closes
  <2>2. ASSUME NEW T \in SUBSET Addr
        PROVE  f[n][T] = IF n = 0 \/ near(T) = T THEN T ELSE f[n - 1][near(T)]
    <3> DEFINE u == T \cup UNION {edges[a] : a \in T}
    <3>1. f[n][T] = IF n = 0 \/ u = T THEN T ELSE f[n - 1][u]
      <4> HIDE DEF edges, N, Def
      <4> QED
        BY <1>3 DEF Closes
    <3>2. near(T) = u
      <4> HIDE DEF edges, near
      <4> QED
        BY <1>4
    <3> HIDE DEF u, near
    <3> QED
      BY <3>1, <3>2
  <2> HIDE DEF near
  <2> QED
    BY <2>1, <2>2
<1>6. Def(f)
  <2>1. f \in [0..N -> [SUBSET Addr -> SUBSET Addr]]
    BY <1>3 DEF Closes
  <2> HIDE DEF near, N
  <2> QED
    BY <1>5, <2>1
<1>7. Def(closure)
  <2> HIDE DEF Def
  <2> QED
    BY <1>6
<1>8. ASSUME NEW n \in 0..N, NEW T \in SUBSET Addr
      PROVE  closure[n][T] = IF n = 0 \/ near(T) = T THEN T ELSE closure[n - 1][near(T)]
  <2> HIDE DEF closure, near, N
  <2>1. closure[n] = [t \in SUBSET Addr |->
                        IF n = 0 \/ near(t) = t THEN t ELSE closure[n - 1][near(t)]]
    BY <1>7
  <2> QED
    BY <2>1
<1>9. ASSUME NEW T \in SUBSET C
      PROVE  near(T) \in SUBSET C
  OBVIOUS
<1> DEFINE I == {n \in Nat : \A T \in SUBSET C : closure[n][T] \in SUBSET C}
<1>10. 0 \in I
  <2>1. 0 \in 0..N
    BY <1>1
  <2> HIDE DEF closure, near, N
  <2> QED
    BY <1>8, <2>1
<1>11. ASSUME NEW n \in Nat, n < N, n \in I
       PROVE  n + 1 \in I
  <2>1. n + 1 \in 0..N /\ n + 1 # 0 /\ (n + 1) - 1 = n
    BY <1>1, <1>11
  <2>2. ASSUME NEW T \in SUBSET C
        PROVE  closure[n + 1][T] \in SUBSET C
    <3>1. T \in SUBSET Addr /\ near(T) \in SUBSET C
      <4> HIDE DEF near
      <4> QED
        BY <1>9
    <3> HIDE DEF closure, near, N
    <3>2. closure[n + 1][T] = IF near(T) = T THEN T ELSE closure[n][near(T)]
      BY <1>8, <2>1, <3>1
    <3>3. closure[n][near(T)] \in SUBSET C
      BY <1>11, <3>1
    <3> QED
      BY <3>1, <3>2, <3>3
  <2> HIDE DEF closure
  <2> QED
    BY <2>2
<1>12. N \in I
  <2> HIDE DEF I, N
  <2>1. \A n \in 0..N : n \in I
    BY <1>1, <1>10, <1>11, Induct
  <2> QED
    BY <1>1, <2>1
<1>13. Reach(h, S, Edges) = closure[N][S]
  BY DEF Reach
<1> HIDE DEF closure, N
<1> QED
  BY <1>12, <1>13

(* The addresses are finitely many: a set of them that has as many elements *)
(* as there are addresses is the set of all.                                *)
LEMMA SetsOfAddresses ==
  /\ IsFiniteSet(Addr)
  /\ \A T \in SUBSET Addr :
       /\ IsFiniteSet(T) /\ Cardinality(T) \in Nat
       /\ Cardinality(T) >= Cardinality(Addr) => T = Addr
  /\ \A T, U \in SUBSET Addr : T \subseteq U /\ T # U => Cardinality(U) >= Cardinality(T) + 1
<1>1. IsFiniteSet(Addr)
  BY FiniteAddr
<1>2. ASSUME NEW U \in SUBSET Addr, NEW T \in SUBSET U
      PROVE  /\ IsFiniteSet(T) /\ IsFiniteSet(U) /\ Cardinality(T) \in Nat /\ Cardinality(U) \in Nat
             /\ T # U => Cardinality(U) >= Cardinality(T) + 1
  <2>1. IsFiniteSet(U) /\ IsFiniteSet(T)
    BY <1>1, FS_Subset
  <2>2. Cardinality(T) \in Nat /\ Cardinality(U) \in Nat
    BY <2>1, FS_CardinalityType
  <2>3. Cardinality(T) <= Cardinality(U) /\ (Cardinality(U) = Cardinality(T) => U = T)
    BY <2>1, FS_Subset
  <2> QED
    BY <2>1, <2>2, <2>3
<1>3. ASSUME NEW T \in SUBSET Addr
      PROVE  /\ IsFiniteSet(T) /\ Cardinality(T) \in Nat
             /\ Cardinality(T) >= Cardinality(Addr) => T = Addr
  <2>1. Addr \in SUBSET Addr /\ T \in SUBSET Addr
    OBVIOUS
  <2>2. /\ IsFiniteSet(T) /\ Cardinality(T) \in Nat /\ Cardinality(Addr) \in Nat
        /\ T # Addr => Cardinality(Addr) >= Cardinality(T) + 1
    BY <1>2, <2>1
  <2> QED
    BY <2>2
<1> QED
  BY <1>1, <1>2, <1>3

(* The equation of the function that Reach goes by.                         *)
Spreads(f, N, edges) ==
  \A n \in 0..N, T \in SUBSET Addr :
    LET near == T \cup UNION {edges[a] : a \in T}
    IN f[n][T] = IF n = 0 \/ near = T THEN T ELSE f[n - 1][near]

(* What the function gives contains the set it starts from, and what the    *)
(* edges from it lead to.                                                   *)
LEMMA ClosureIsClosed ==
  ASSUME NEW edges \in [Addr -> SUBSET Addr], NEW f, Spreads(f, Cardinality(Addr), edges),
         NEW S \in SUBSET Addr
  PROVE  LET R == f[Cardinality(Addr)][S]
         IN R \in SUBSET Addr /\ S \subseteq R /\ \A a \in R : edges[a] \subseteq R
<1> DEFINE N == Cardinality(Addr)
           near(T) == T \cup UNION {edges[a] : a \in T}
           Closed(T) == \A a \in T : edges[a] \subseteq T
           Done(n) == \A T \in SUBSET Addr :
                        /\ f[n][T] \in SUBSET Addr /\ T \subseteq f[n][T]
                        /\ Cardinality(T) + n >= N => Closed(f[n][T])
           I == {n \in Nat : Done(n)}
<1>1. N \in Nat
  BY FiniteAddr
<1>2. ASSUME NEW n \in 0..N, NEW T \in SUBSET Addr
      PROVE  f[n][T] = IF n = 0 \/ near(T) = T THEN T ELSE f[n - 1][near(T)]
  BY DEF Spreads
<1>3. ASSUME NEW T \in SUBSET Addr
      PROVE  near(T) \in SUBSET Addr /\ T \subseteq near(T) /\ (near(T) = T => Closed(T))
  OBVIOUS
<1> HIDE DEF near, N
<1>4. 0 \in I
  <2> SUFFICES ASSUME NEW T \in SUBSET Addr
               PROVE  /\ f[0][T] \in SUBSET Addr /\ T \subseteq f[0][T]
                      /\ Cardinality(T) + 0 >= N => Closed(f[0][T])
    OBVIOUS
  <2>1. f[0][T] = T
    BY <1>1, <1>2
  <2>2. Cardinality(T) + 0 >= N => T = Addr
    BY <1>1, SetsOfAddresses DEF N
  <2>3. T = Addr => Closed(T)
    OBVIOUS
  <2> HIDE DEF Closed
  <2> QED
    BY <2>1, <2>2, <2>3
<1>5. ASSUME NEW n \in Nat, n < N, n \in I
      PROVE  n + 1 \in I
  <2>1. n + 1 \in 0..N /\ n + 1 # 0 /\ (n + 1) - 1 = n /\ Done(n)
    BY <1>1, <1>5
  <2> SUFFICES ASSUME NEW T \in SUBSET Addr
               PROVE  /\ f[n + 1][T] \in SUBSET Addr /\ T \subseteq f[n + 1][T]
                      /\ Cardinality(T) + (n + 1) >= N => Closed(f[n + 1][T])
    OBVIOUS
  <2>2. near(T) \in SUBSET Addr /\ T \subseteq near(T) /\ (near(T) = T => Closed(T))
    BY <1>3
  <2>3. f[n + 1][T] = IF near(T) = T THEN T ELSE f[n][near(T)]
    BY <1>2, <2>1
  <2>4. CASE near(T) = T
    <3> HIDE DEF Closed
    <3> QED
      BY <2>2, <2>3, <2>4
  <2>5. CASE near(T) # T
    <3>1. Cardinality(near(T)) >= Cardinality(T) + 1
      BY <2>2, <2>5, SetsOfAddresses
    <3>2. Cardinality(T) \in Nat /\ Cardinality(near(T)) \in Nat
      BY <2>2, SetsOfAddresses
    <3>3. Cardinality(T) + (n + 1) >= N => Cardinality(near(T)) + n >= N
      BY <1>1, <3>1, <3>2
    <3> HIDE DEF Closed
    <3>4. /\ f[n][near(T)] \in SUBSET Addr /\ near(T) \subseteq f[n][near(T)]
          /\ Cardinality(near(T)) + n >= N => Closed(f[n][near(T)])
      BY <2>1, <2>2
    <3> QED
      BY <2>2, <2>3, <2>5, <3>3, <3>4
  <2> QED
    BY <2>4, <2>5
<1>6. N \in I
  <2> HIDE DEF I
  <2>1. \A n \in 0..N : n \in I
    BY <1>1, <1>4, <1>5, Induct
  <2> QED
    BY <1>1, <2>1
<1>7. Cardinality(S) + N >= N
  BY <1>1, SetsOfAddresses
<1>8. f[N][S] \in SUBSET Addr /\ S \subseteq f[N][S] /\ Closed(f[N][S])
  BY <1>6, <1>7
<1> QED
  BY <1>8 DEF N

(* What Reach gives contains the set it starts from, and what the words     *)
(* stored in its blocks refer to.                                           *)
LEMMA StoredWordsReached ==
  ASSUME NEW h, NEW S \in SUBSET Addr
  PROVE  LET R == Reach(h, S, StoredWords)
         IN R \in SUBSET Addr /\ S \subseteq R /\ \A a \in R : StoredWords(h, a) \subseteq R
<1> DEFINE N == Cardinality(Addr)
           near(T) == T \cup UNION {StoredWords(h, a) : a \in T}
           edges == [a \in Addr |-> StoredWords(h, a)]
           Def(c) == c = [n \in 0..N |-> [T \in SUBSET Addr |->
                            IF n = 0 \/ near(T) = T THEN T ELSE c[n - 1][near(T)]]]
           closure == CHOOSE c : Def(c)
<1>1. N \in Nat
  BY FiniteAddr
<1>2. edges \in [Addr -> SUBSET Addr] /\ \A a \in Addr : edges[a] = StoredWords(h, a)
  BY DEF StoredWords
<1>3. PICK f : Closes(f, N, edges)
  <2> HIDE DEF N, edges
  <2> QED
    BY <1>1, <1>2, ClosureExists
<1>4. \A T \in SUBSET Addr : near(T) = T \cup UNION {edges[a] : a \in T}
  BY <1>2
<1>5. Def(f)
  <2>1. f \in [0..N -> [SUBSET Addr -> SUBSET Addr]]
    BY <1>3 DEF Closes
  <2>2. ASSUME NEW n \in 0..N
        PROVE  f[n] = [T \in SUBSET Addr |->
                         IF n = 0 \/ near(T) = T THEN T ELSE f[n - 1][near(T)]]
    <3>1. f[n] \in [SUBSET Addr -> SUBSET Addr]
      BY <2>1
    <3>2. ASSUME NEW T \in SUBSET Addr
          PROVE  f[n][T] = IF n = 0 \/ near(T) = T THEN T ELSE f[n - 1][near(T)]
      <4> DEFINE u == T \cup UNION {edges[a] : a \in T}
      <4>1. f[n][T] = IF n = 0 \/ u = T THEN T ELSE f[n - 1][u]
        <5> HIDE DEF edges, N, Def
        <5> QED
          BY <1>3 DEF Closes
      <4>2. near(T) = u
        <5> HIDE DEF edges, near
        <5> QED
          BY <1>4
      <4> HIDE DEF u, near
      <4> QED
        BY <4>1, <4>2
    <3> HIDE DEF near
    <3> QED
      BY <3>1, <3>2
  <2> HIDE DEF near, N
  <2> QED
    BY <2>1, <2>2
<1>6. Def(closure)
  <2> HIDE DEF Def
  <2> QED
    BY <1>5
<1>7. Spreads(closure, N, edges)
  <2> SUFFICES ASSUME NEW n \in 0..N, NEW T \in SUBSET Addr
               PROVE  closure[n][T] =
                        LET u == T \cup UNION {edges[a] : a \in T}
                        IN IF n = 0 \/ u = T THEN T ELSE closure[n - 1][u]
    BY DEF Spreads
  <2>1. near(T) = T \cup UNION {edges[a] : a \in T}
    <3> HIDE DEF near, edges
    <3> QED
      BY <1>4
  <2> HIDE DEF closure, near, N, edges
  <2>2. closure[n] = [t \in SUBSET Addr |->
                        IF n = 0 \/ near(t) = t THEN t ELSE closure[n - 1][near(t)]]
    BY <1>6
  <2> QED
    BY <2>1, <2>2
<1>8. Reach(h, S, StoredWords) = closure[N][S]
  BY DEF Reach
<1> HIDE DEF closure, edges
<1>9. /\ closure[N][S] \in SUBSET Addr /\ S \subseteq closure[N][S]
      /\ \A a \in closure[N][S] : edges[a] \subseteq closure[N][S]
  BY <1>2, <1>7, ClosureIsClosed DEF N
<1> QED
  BY <1>2, <1>8, <1>9

(* The same when the table of a weak map is not followed.                   *)
LEMMA StrongWordsReached ==
  ASSUME NEW h, NEW S \in SUBSET Addr
  PROVE  LET R == Reach(h, S, StrongWords)
         IN R \in SUBSET Addr /\ S \subseteq R /\ \A a \in R : StrongWords(h, a) \subseteq R
<1> DEFINE N == Cardinality(Addr)
           near(T) == T \cup UNION {StrongWords(h, a) : a \in T}
           edges == [a \in Addr |-> StrongWords(h, a)]
           Def(c) == c = [n \in 0..N |-> [T \in SUBSET Addr |->
                            IF n = 0 \/ near(T) = T THEN T ELSE c[n - 1][near(T)]]]
           closure == CHOOSE c : Def(c)
<1>1. N \in Nat
  BY FiniteAddr
<1>2. edges \in [Addr -> SUBSET Addr] /\ \A a \in Addr : edges[a] = StrongWords(h, a)
  BY DEF StoredWords, StrongWords
<1>3. PICK f : Closes(f, N, edges)
  <2> HIDE DEF N, edges
  <2> QED
    BY <1>1, <1>2, ClosureExists
<1>4. \A T \in SUBSET Addr : near(T) = T \cup UNION {edges[a] : a \in T}
  BY <1>2
<1>5. Def(f)
  <2>1. f \in [0..N -> [SUBSET Addr -> SUBSET Addr]]
    BY <1>3 DEF Closes
  <2>2. ASSUME NEW n \in 0..N
        PROVE  f[n] = [T \in SUBSET Addr |->
                         IF n = 0 \/ near(T) = T THEN T ELSE f[n - 1][near(T)]]
    <3>1. f[n] \in [SUBSET Addr -> SUBSET Addr]
      BY <2>1
    <3>2. ASSUME NEW T \in SUBSET Addr
          PROVE  f[n][T] = IF n = 0 \/ near(T) = T THEN T ELSE f[n - 1][near(T)]
      <4> DEFINE u == T \cup UNION {edges[a] : a \in T}
      <4>1. f[n][T] = IF n = 0 \/ u = T THEN T ELSE f[n - 1][u]
        <5> HIDE DEF edges, N, Def
        <5> QED
          BY <1>3 DEF Closes
      <4>2. near(T) = u
        <5> HIDE DEF edges, near
        <5> QED
          BY <1>4
      <4> HIDE DEF u, near
      <4> QED
        BY <4>1, <4>2
    <3> HIDE DEF near
    <3> QED
      BY <3>1, <3>2
  <2> HIDE DEF near, N
  <2> QED
    BY <2>1, <2>2
<1>6. Def(closure)
  <2> HIDE DEF Def
  <2> QED
    BY <1>5
<1>7. Spreads(closure, N, edges)
  <2> SUFFICES ASSUME NEW n \in 0..N, NEW T \in SUBSET Addr
               PROVE  closure[n][T] =
                        LET u == T \cup UNION {edges[a] : a \in T}
                        IN IF n = 0 \/ u = T THEN T ELSE closure[n - 1][u]
    BY DEF Spreads
  <2>1. near(T) = T \cup UNION {edges[a] : a \in T}
    <3> HIDE DEF near, edges
    <3> QED
      BY <1>4
  <2> HIDE DEF closure, near, N, edges
  <2>2. closure[n] = [t \in SUBSET Addr |->
                        IF n = 0 \/ near(t) = t THEN t ELSE closure[n - 1][near(t)]]
    BY <1>6
  <2> QED
    BY <2>1, <2>2
<1>8. Reach(h, S, StrongWords) = closure[N][S]
  BY DEF Reach
<1> HIDE DEF closure, edges
<1>9. /\ closure[N][S] \in SUBSET Addr /\ S \subseteq closure[N][S]
      /\ \A a \in closure[N][S] : edges[a] \subseteq closure[N][S]
  BY <1>2, <1>7, ClosureIsClosed DEF N
<1> QED
  BY <1>2, <1>8, <1>9

-----------------------------------------------------------------------------
(***************************************************************************)
(* Copying a block.                                                        *)
(***************************************************************************)

(* The fields that the collection has to visit of the block b at a, each    *)
(* once.                                                                   *)
AddressFields(a, b, s) ==
  /\ s \in Seq({a} \X DOMAIN b.args) /\ IsInjective(s)
  /\ \A f : f \in Range(s) <=> \E i \in DOMAIN b.args : b.args[i] \in Addr /\ f = <<a, i>>

(* The fields that CheneyScan visits are those of the block, each once.     *)
LEMMA FieldsIs ==
  ASSUME NEW a \in Addr, NEW b, b.args \in Seq(Field)
  PROVE  AddressFields(a, b, Fields(a, b))
<1> DEFINE n == Len(b.args)
           s == [i \in 1..n |-> <<a, n + 1 - i>>]
           wanted == {f \in {a} \X (1..n) : b.args[f[2]] \in Addr}
<1>1. n \in Nat /\ DOMAIN b.args = 1..n
  OBVIOUS
<1>2. \A i \in 1..n : n + 1 - i \in 1..n /\ n + 1 - (n + 1 - i) = i
  BY <1>1
<1> HIDE DEF n
<1>3. s \in Seq({a} \X (1..n)) /\ DOMAIN s = 1..n
  BY <1>1, <1>2
<1>4. IsInjective(s)
  <2>1. ASSUME NEW i \in 1..n, NEW j \in 1..n, s[i] = s[j]
        PROVE  i = j
    <3>1. n + 1 - i = n + 1 - j
      BY <2>1
    <3> QED
      BY <1>1, <3>1
  <2> HIDE DEF s
  <2> QED
    BY <1>3, <2>1 DEF IsInjective
<1>5. Range(s) = {a} \X (1..n)
  <2>1. ASSUME NEW i \in 1..n
        PROVE  <<a, i>> \in Range(s)
    <3>1. s[n + 1 - i] = <<a, i>> /\ n + 1 - i \in DOMAIN s
      BY <1>1, <1>2, <1>3
    <3> HIDE DEF s
    <3> QED
      BY <3>1 DEF Range
  <2>2. ASSUME NEW i \in 1..n
        PROVE  s[i] \in {a} \X (1..n)
    BY <1>1, <1>2
  <2> HIDE DEF s, wanted
  <2>3. ASSUME NEW f \in Range(s)
        PROVE  f \in {a} \X (1..n)
    BY <1>3, <2>2 DEF Range
  <2>4. ASSUME NEW f \in {a} \X (1..n)
        PROVE  f \in Range(s)
    <3>1. f[2] \in 1..n /\ f = <<a, f[2]>>
      OBVIOUS
    <3> QED
      BY <2>1, <3>1
  <2> QED
    BY <2>3, <2>4
<1>6. Fields(a, b) = Filter(s, wanted)
  BY DEF Fields, n
<1> HIDE DEF s, wanted
<1>7. /\ Filter(s, wanted) \in Seq({a} \X (1..n))
      /\ Range(Filter(s, wanted)) = Range(s) \cap wanted /\ IsInjective(Filter(s, wanted))
  BY <1>3, <1>4, FilterRange
<1>8. \A f : f \in Range(s) \cap wanted <=>
               \E i \in DOMAIN b.args : b.args[i] \in Addr /\ f = <<a, i>>
  BY <1>1, <1>5 DEF wanted
<1> QED
  BY <1>1, <1>6, <1>7, <1>8 DEF AddressFields

(* k is h after the block at a has been copied to b, in generation g.       *)
Cloned(h, k, a, b, g) ==
  /\ k \in [Addr -> Blocks]
  /\ a \in Addr /\ b \in Addr /\ b # a /\ b[1] = a[1] /\ ~Alloc(h, b)
  /\ k[b].space = g /\ k[b].label = h[a].label /\ k[b].args = h[a].args
  /\ k[b].childish = FALSE /\ k[b].fwd = None
  /\ k[a].space = h[a].space /\ k[a].label = "MOVED" /\ k[a].args = h[a].args
  /\ k[a].childish = FALSE /\ k[a].fwd = b
  /\ \A c \in Addr \ {a, b} : k[c] = h[c]

(* The object at a has no other block.                                     *)
Alone(h, a) == \A c \in Addr : Alloc(h, c) /\ c[1] = a[1] => c = a

(* There is room for a copy of a block that has none.                      *)
LEMMA NewPlaceIs ==
  ASSUME NEW g, NEW h, HeapType(h, g), NEW a \in Addr, Alone(h, a)
  PROVE  NewPlace(h, a) \in Addr /\ NewPlace(h, a)[1] = a[1] /\ h[NewPlace(h, a)] = Free
<1>1. a[1] \in Object /\ a[2] \in 0..2 /\ a = <<a[1], a[2]>>
  BY DEF Addr, Copies
<1>2. PICK c \in 0..2 : c # a[2]
  <2>1. CASE a[2] = 0
    BY <2>1
  <2>2. CASE a[2] # 0
    BY <1>1, <2>2
  <2> QED
    BY <2>1, <2>2
<1>3. <<a[1], c>> \in Addr /\ <<a[1], c>> # a /\ <<a[1], c>>[1] = a[1]
  BY <1>1, <1>2 DEF Addr, Copies
<1>4. h[<<a[1], c>>] = Free
  BY <1>3 DEF Alone, HeapType
<1>5. \E x \in Copies : h[<<a[1], x>>] = Free
  BY <1>2, <1>4 DEF Copies
<1> DEFINE x == CHOOSE x \in Copies : h[<<a[1], x>>] = Free
<1>6. x \in Copies /\ h[<<a[1], x>>] = Free
  BY <1>5
<1>7. NewPlace(h, a) = <<a[1], x>>
  BY DEF NewPlace
<1> HIDE DEF x
<1> QED
  BY <1>1, <1>6, <1>7 DEF Addr

(* Store::CloneBlock makes a copy in another place and leaves a forwarding  *)
(* address.                                                                 *)
LEMMA CloneIs ==
  ASSUME NEW g \in 1..ToSpace, NEW h, HeapType(h, g), NEW a \in Addr, Live(h, a), Alone(h, a)
  PROVE  Cloned(h, CloneBlock(h, a, g), a, NewPlace(h, a), g)
<1> DEFINE b == NewPlace(h, a)
           k == CloneBlock(h, a, g)
<1>1. b \in Addr /\ b[1] = a[1] /\ h[b] = Free
  BY NewPlaceIs
<1>2. ~Alloc(h, b) /\ b # a
  BY <1>1 DEF Alloc, Live, Free
<1>3. h \in [Addr -> Blocks] /\ h[a].fwd = None
  BY DEF HeapType, Live, AlreadyMoved
<1>4. k = [h EXCEPT ![b] = [h[a] EXCEPT !.space = g, !.childish = FALSE],
                    ![a].fwd = b, ![a].label = "MOVED", ![a].childish = FALSE]
  BY DEF CloneBlock
<1> HIDE DEF b, k
<1>5. g \in 0..ToSpace
  BY DEF ToSpace
<1> DEFINE m == [h[a] EXCEPT !.fwd = b, !.label = "MOVED", !.childish = FALSE]
           n == [h[a] EXCEPT !.space = g, !.childish = FALSE]
<1>6. /\ m \in Blocks /\ m.space = h[a].space /\ m.label = "MOVED" /\ m.args = h[a].args
      /\ m.childish = FALSE /\ m.fwd = b
  BY <1>1, <1>3 DEF Blocks, BlockLabels
<1>7. /\ n \in Blocks /\ n.space = g /\ n.label = h[a].label /\ n.args = h[a].args
      /\ n.childish = FALSE /\ n.fwd = None
  BY <1>3, <1>5 DEF Blocks
<1>8. k = [[h EXCEPT ![b] = n] EXCEPT ![a] = m]
  BY <1>1, <1>2, <1>3, <1>4
<1> HIDE DEF m, n
<1>9. k[a] = m /\ k[b] = n /\ \A c \in Addr \ {a, b} : k[c] = h[c]
  BY <1>1, <1>2, <1>3, <1>8
<1>10. k \in [Addr -> Blocks]
  BY <1>1, <1>3, <1>6, <1>7, <1>8
<1>11. Cloned(h, k, a, b, g)
  BY <1>1, <1>2, <1>6, <1>7, <1>9, <1>10 DEF Cloned
<1> QED
  BY <1>11 DEF b, k

(* p2 has, besides p, only fields of the copy at b, and all that may refer  *)
(* to something that is yet to be copied.                                  *)
MorePending(h, a, b, p, p2) ==
  /\ p \subseteq p2 /\ \A f \in p2 : f \in p \/ f[1] = b
  /\ \A i \in DOMAIN h[a].args : h[a].args[i] \in Addr => <<b, i>> \in p2

(* What is where after a block has been copied.                            *)
LEMMA ClonedBlocks ==
  ASSUME NEW g \in 1..ToSpace, NEW h, HeapType(h, g), NEW a, NEW b, NEW k,
         Cloned(h, k, a, b, g), Live(h, a), NEW c \in Addr
  PROVE  /\ Alloc(k, c) <=> c = b \/ Alloc(h, c)
         /\ AlreadyMoved(k, c) <=> c = a \/ AlreadyMoved(h, c)
         /\ Live(k, c) <=> c = b \/ (c # a /\ Live(h, c))
         /\ Stays(k, g, c) <=> c = b \/ (c # a /\ Stays(h, g, c))
         /\ c # b => k[c].args = h[c].args /\ k[c].space = h[c].space
         /\ c # b /\ c # a => k[c] = h[c]
         /\ Alloc(h, c) => c # b
<1> USE DEF Alloc, AlreadyMoved, Live, Stays
<1>1. b \in Addr /\ a \in Addr /\ a # b /\ h[b] = Free /\ h[b].space = None /\ h[b].fwd = None
  BY DEF Cloned, HeapType, Free
<1>2. g \in Nat /\ g >= g /\ None # g /\ None \notin Addr
  BY FiniteAddr, StoreAssumption DEF StoreAssumption, ToSpace, Youngest
<1>3. CASE c = b
  BY <1>1, <1>2, <1>3 DEF Cloned
<1>4. CASE c = a
  BY <1>1, <1>2, <1>4 DEF Cloned
<1>5. CASE c # a /\ c # b
  <2>1. k[c] = h[c]
    BY <1>5 DEF Cloned
  <2> QED
    BY <1>5, <2>1
<1> QED
  BY <1>3, <1>4, <1>5

(* Copying a block that nothing refers to which stays: what it refers to is *)
(* yet to be visited.                                                      *)
LEMMA CloneSound ==
  ASSUME NEW g \in 1..ToSpace, NEW h, NEW p, NEW p2, NEW r, Sound(h, g, p, r),
         NEW a, NEW b, NEW k, Cloned(h, k, a, b, g), Live(h, a), Alone(h, a),
         Stays(h, g, a) => a[1] = RootObj /\ g # ToSpace,
         MorePending(h, a, b, p, p2)
  PROVE  Sound(k, g, p2, r)
<1>1. HeapType(h, g) /\ Linked(h) /\ ForwardsOK(h, g) /\ CopiesOK(h) /\ NotAhead(h, g)
  BY DEF Sound, HeapOK
<1>2. /\ \A c \in Addr : Alloc(k, c) <=> c = b \/ Alloc(h, c)
      /\ \A c \in Addr : AlreadyMoved(k, c) <=> c = a \/ AlreadyMoved(h, c)
      /\ \A c \in Addr : Live(k, c) <=> c = b \/ (c # a /\ Live(h, c))
      /\ \A c \in Addr : Stays(k, g, c) <=> c = b \/ (c # a /\ Stays(h, g, c))
      /\ \A c \in Addr : c # b => k[c].args = h[c].args /\ k[c].space = h[c].space
      /\ \A c \in Addr : c # b /\ c # a => k[c] = h[c]
      /\ \A c \in Addr : Alloc(h, c) => c # b
  BY <1>1, ClonedBlocks
<1>3. /\ a \in Addr /\ b \in Addr /\ a # b /\ b[1] = a[1] /\ k[a].fwd = b /\ k[a].label = "MOVED"
      /\ k[b].space = g /\ k[b].label = h[a].label /\ k[b].args = h[a].args
      /\ k[b].childish = FALSE /\ k \in [Addr -> Blocks] /\ Alloc(h, a)
  BY DEF Cloned, Live
<1>4. \A c \in Addr : Live(h, c) => Alloc(h, c)
  BY DEF Live
<1>5. \A c \in Addr : Stays(h, g, c) => Live(h, c)
  BY DEF Stays
<1>6. ASSUME NEW c \in Addr, Live(h, c), NEW i \in DOMAIN h[c].args, h[c].args[i] \in Addr
      PROVE  Alloc(h, h[c].args[i]) /\ h[c].args[i] # b /\ h[c].args[i][1] # RootObj
  BY <1>1, <1>2, <1>6 DEF Linked, LinkOK
<1>7. HeapType(k, g)
  <2>1. ASSUME NEW c \in Addr, ~Alloc(k, c)
        PROVE  k[c] = Free
    BY <1>1, <1>2, <1>3, <2>1 DEF HeapType
  <2>2. ASSUME NEW c \in Addr, Alloc(k, c), k[c].space = ToSpace
        PROVE  g = ToSpace
    BY <1>1, <1>2, <1>3, <2>2 DEF HeapType
  <2> QED
    BY <1>3, <2>1, <2>2 DEF HeapType
<1>8. Linked(k)
  <2> SUFFICES ASSUME NEW c \in Addr, Live(k, c)
               PROVE  Shape(c, k[c]) /\ \A i \in DOMAIN k[c].args : LinkOK(k, c, k[c].args[i])
    BY DEF Linked
  <2>1. PICK d \in Addr : /\ Live(h, d) /\ d[1] = c[1]
                          /\ k[c].args = h[d].args /\ k[c].label = h[d].label
    BY <1>2, <1>3
  <2>2. Shape(d, h[d]) /\ \A i \in DOMAIN h[d].args : LinkOK(h, d, h[d].args[i])
    BY <1>1, <2>1 DEF Linked
  <2>3. Shape(c, k[c])
    BY <2>1, <2>2 DEF Shape
  <2>4. ASSUME NEW i \in DOMAIN k[c].args
        PROVE  LinkOK(k, c, k[c].args[i])
    BY <1>2, <2>1, <2>2 DEF LinkOK
  <2> QED
    BY <2>3, <2>4
<1>9. ForwardsOK(k, g)
  <2> SUFFICES ASSUME NEW c \in Addr, AlreadyMoved(k, c)
               PROVE  /\ Alloc(k, c) /\ k[c].label = "MOVED"
                      /\ k[c].fwd[1] = c[1] /\ Stays(k, g, k[c].fwd)
    BY DEF ForwardsOK
  <2>1. CASE c = a
    BY <1>2, <1>3, <2>1
  <2>2. CASE c # a
    <3>1. AlreadyMoved(h, c) /\ Alloc(h, c) /\ c # b /\ k[c] = h[c]
      BY <1>1, <1>2, <2>2 DEF ForwardsOK
    <3>2. h[c].fwd[1] = c[1] /\ Stays(h, g, h[c].fwd) /\ h[c].label = "MOVED"
      BY <1>1, <3>1 DEF ForwardsOK
    <3>3. h[c].fwd \in Addr
      BY <1>1, <3>1 DEF HeapType, Blocks, AlreadyMoved
    <3>4. h[c].fwd # a
      BY <2>2, <3>1, <3>2 DEF Alone
    <3> QED
      BY <1>2, <3>1, <3>2, <3>3, <3>4
  <2> QED
    BY <2>1, <2>2
<1>10. CopiesOK(k)
  <2> SUFFICES ASSUME NEW c \in Addr, NEW d \in Addr, Alloc(k, c), Alloc(k, d), c[1] = d[1], c # d
               PROVE  k[c].fwd = d \/ k[d].fwd = c
    BY DEF CopiesOK
  <2>1. CASE c = b
    BY <1>2, <1>3, <2>1 DEF Alone
  <2>2. CASE d = b
    BY <1>2, <1>3, <2>2 DEF Alone
  <2>3. CASE c # b /\ d # b
    <3>1. Alloc(h, c) /\ Alloc(h, d)
      BY <1>2, <2>3
    <3>2. c # a /\ d # a
      BY <3>1 DEF Alone
    <3>3. h[c].fwd = d \/ h[d].fwd = c
      BY <1>1, <3>1 DEF CopiesOK
    <3> QED
      BY <1>2, <2>3, <3>2, <3>3
  <2> QED
    BY <2>1, <2>2, <2>3
<1>11. NotAhead(k, g)
  <2> SUFFICES ASSUME g = ToSpace, NEW c \in Addr, Live(k, c), ~Stays(k, g, c),
                      NEW i \in DOMAIN k[c].args, k[c].args[i] \in Addr
               PROVE  ~Stays(k, g, k[c].args[i])
    BY DEF NotAhead
  <2>1. c # b /\ c # a /\ Live(h, c) /\ ~Stays(h, g, c) /\ k[c] = h[c]
    BY <1>2
  <2>2. ~Stays(h, g, h[c].args[i]) /\ h[c].args[i] # b
    BY <1>1, <1>6, <2>1 DEF NotAhead
  <2> QED
    BY <1>2, <2>1, <2>2
<1>12. AllPending(k, g, p2)
  <2> SUFFICES ASSUME NEW c \in Addr, Stays(k, g, c), NEW i \in DOMAIN k[c].args,
                      k[c].args[i] \in Addr, ~Stays(k, g, k[c].args[i])
               PROVE  <<c, i>> \in p2
    BY DEF AllPending
  <2>1. CASE c = b
    BY <1>3, <2>1 DEF MorePending
  <2>2. CASE c # b
    <3>1. c # a /\ Stays(h, g, c) /\ Live(h, c) /\ k[c] = h[c]
      BY <1>2, <1>5, <2>2
    <3>2. k[c].args[i] # b /\ k[c].args[i][1] # RootObj
      BY <1>6, <3>1
    <3>3. ~Stays(h, g, k[c].args[i])
      BY <1>2, <3>2
    <3>4. <<c, i>> \in p
      BY <3>1, <3>3 DEF Sound, AllPending
    <3> QED
      BY <3>4 DEF MorePending
  <2> QED
    BY <2>1, <2>2
<1>13. NoneVisited(k, g, p2)
  <2> SUFFICES ASSUME g = ToSpace, NEW c \in Addr, Stays(k, g, c), NEW i \in DOMAIN k[c].args,
                      <<c, i>> \in p2, k[c].args[i] \in Addr
               PROVE  ~Stays(k, g, k[c].args[i])
    BY DEF NoneVisited
  <2>1. CASE c = b
    <3>1. Live(h, a) /\ ~Stays(h, g, a) /\ k[c].args = h[a].args
      BY <1>3, <2>1
    <3>2. ~Stays(h, g, h[a].args[i]) /\ h[a].args[i] # b
      BY <1>1, <1>3, <1>6, <3>1 DEF NotAhead
    <3> QED
      BY <1>2, <3>1, <3>2
  <2>2. CASE c # b
    <3>1. c # a /\ Stays(h, g, c) /\ Live(h, c) /\ k[c] = h[c]
      BY <1>2, <1>5, <2>2
    <3>2. <<c, i>> \in p
      BY <2>2 DEF MorePending
    <3>3. ~Stays(h, g, k[c].args[i]) /\ k[c].args[i] # b
      BY <1>6, <3>1, <3>2 DEF Sound, NoneVisited
    <3> QED
      BY <1>2, <3>3
  <2> QED
    BY <2>1, <2>2
<1>14. RememberedOK(k, g, r)
  <2>1. RememberedOK(h, g, r)
    BY DEF Sound
  <2>2. r \subseteq Addr /\ \A c \in r : Alloc(k, c) /\ c # b
    BY <1>2, <2>1 DEF RememberedOK
  <2>3. ASSUME NEW c \in Addr, Stays(k, g, c)
        PROVE  k[c].childish <=> c \in r
    <3>1. CASE c = b
      BY <1>3, <2>2, <3>1
    <3>2. CASE c # b
      BY <1>2, <2>1, <2>3, <3>2 DEF RememberedOK
    <3> QED
      BY <3>1, <3>2
  <2>4. ASSUME NEW c \in Addr, Stays(k, g, c), NEW i \in DOMAIN k[c].args, NEW v,
               v = k[c].args[i], v \in Addr, Stays(k, g, v), k[v].space < k[c].space
        PROVE  c \in r
    <3>1. k[v].space >= g /\ k[v].space \in Int /\ g \in Int
      <4>1. k[v].space \in (0..ToSpace) \cup {None} /\ k[v].space # None
        BY <1>3, <2>4 DEF Blocks, Stays, Live, Alloc
      <4> QED
        BY <2>4, <4>1 DEF Stays, ToSpace
    <3>2. CASE c = b
      BY <1>3, <2>4, <3>1, <3>2
    <3>3. CASE c # b
      <4>1. c # a /\ Stays(h, g, c) /\ Live(h, c) /\ k[c] = h[c]
        BY <1>2, <1>5, <2>4, <3>3
      <4>2. v # b
        BY <1>6, <2>4, <4>1
      <4>3. Stays(h, g, v) /\ k[v].space = h[v].space
        BY <1>2, <2>4, <4>2
      <4> QED
        BY <2>1, <2>4, <4>1, <4>3 DEF RememberedOK
    <3> QED
      BY <3>2, <3>3
  <2> QED
    BY <2>2, <2>3, <2>4 DEF RememberedOK
<1> QED
  BY <1>7, <1>8, <1>9, <1>10, <1>11, <1>12, <1>13, <1>14 DEF Sound, HeapOK

-----------------------------------------------------------------------------
(***************************************************************************)
(* Following references and forwarding a word.                             *)
(***************************************************************************)

(* w is what the references that start at the word v lead to.              *)
LeadsTo(h, g, v, w) ==
  /\ w \in Word
  /\ w \in Addr => /\ Alloc(h, w) /\ w[1] # RootObj /\ v \in Addr
                   /\ w[1] \in Table <=> v[1] \in Table
  /\ g = ToSpace /\ (v \in Addr => ~Stays(h, g, v)) => (w \in Addr => ~Stays(h, g, w))

(* A reference is alive, and what it refers to is no table.                 *)
LEMMA RefIs ==
  ASSUME NEW g, NEW h, HeapOK(h, g), NEW v \in Word, IsRef(h, v)
  PROVE  LET w == h[v].args[1]
         IN /\ v \in Addr /\ Live(h, v) /\ 1 \in DOMAIN h[v].args /\ w \in Word
            /\ w \in Addr => Alloc(h, w) /\ w[1] # RootObj /\ w[1] \notin Table
            /\ v[1] \notin Table
<1>1. HeapType(h, g) /\ Linked(h)
  BY DEF HeapOK
<1>2. v \in Addr /\ ~AlreadyMoved(h, v) /\ h[v].label = "REF" /\ h[v] \in Blocks
  BY <1>1 DEF IsRef, HeapType
<1>3. Alloc(h, v)
  BY <1>1, <1>2 DEF HeapType, Free
<1>4. Live(h, v)
  BY <1>2, <1>3 DEF Live
<1>5. Shape(v, h[v]) /\ \A i \in DOMAIN h[v].args : LinkOK(h, v, h[v].args[i])
  BY <1>1, <1>2, <1>4 DEF Linked
<1>6. v[1] \notin Table /\ v[1] # StartupMap /\ Len(h[v].args) = 1
  BY <1>2, <1>5 DEF Shape
<1>7. h[v].args \in Seq(Field)
  BY <1>2 DEF Blocks
<1>8. 1 \in DOMAIN h[v].args /\ h[v].args[1] \in Field
  BY <1>6, <1>7
<1>9. LinkOK(h, v, h[v].args[1])
  BY <1>5, <1>8
<1> QED
  BY <1>2, <1>4, <1>6, <1>8, <1>9 DEF LinkOK, Field, Word

(* PointerOp::Deref follows references to a word that is none.              *)
LEMMA DerefIs ==
  ASSUME NEW g, NEW h, HeapOK(h, g), NEW v \in Word,
         v \in Addr => Alloc(h, v) /\ v[1] # RootObj
  PROVE  LeadsTo(h, g, v, Deref(h, v))
<1>1. ClosedUnderRefs(h, Word)
  BY RefIs DEF ClosedUnderRefs
<1>2. CASE v \notin Addr \/ v[1] \in Table
  <2>1. ~IsRef(h, v)
    BY <1>2, RefIs DEF IsRef
  <2>2. ClosedUnderRefs(h, {v})
    BY <2>1 DEF ClosedUnderRefs
  <2>3. Deref(h, v) \in {v}
    <3>1. v \in {v}
      OBVIOUS
    <3> QED
      BY <1>1, <2>2, <3>1, DerefStays
  <2> QED
    BY <1>2, <2>3 DEF LeadsTo, Word
<1>3. CASE v \in Addr /\ v[1] \notin Table
  <2> DEFINE S == {u \in Word : u \in Addr => Alloc(h, u) /\ u[1] # RootObj /\ u[1] \notin Table}
  <2>1. ClosedUnderRefs(h, S)
    BY RefIs DEF ClosedUnderRefs
  <2>2. v \in S
    BY <1>3
  <2>3. Deref(h, v) \in S
    <3> HIDE DEF S
    <3> QED
      BY <1>1, <2>1, <2>2, DerefStays
  <2>4. ASSUME g = ToSpace, ~Stays(h, g, v)
        PROVE  Deref(h, v) \in Addr => ~Stays(h, g, Deref(h, v))
    <3> DEFINE R == {u \in Word : u \in Addr => ~Stays(h, g, u)}
    <3>1. ASSUME NEW u \in R, IsRef(h, u)
          PROVE  h[u].args[1] \in R
      <4>1. /\ u \in Addr /\ Live(h, u) /\ 1 \in DOMAIN h[u].args /\ h[u].args[1] \in Word
        BY <3>1, RefIs
      <4>2. ~Stays(h, g, u)
        BY <4>1
      <4> QED
        BY <2>4, <4>1, <4>2 DEF HeapOK, NotAhead
    <3>2. ClosedUnderRefs(h, R)
      BY <3>1 DEF ClosedUnderRefs
    <3>3. v \in R
      BY <2>4
    <3>4. Deref(h, v) \in R
      <4> HIDE DEF R
      <4> QED
        BY <1>1, <3>2, <3>3, DerefStays
    <3> QED
      BY <3>4
  <2> QED
    BY <1>3, <2>3, <2>4 DEF LeadsTo
<1> QED
  BY <1>2, <1>3

(* In the heap k a copy of the block w refers to has been made, if there    *)
(* was none and it does not stay; u is the word that refers to the copy.    *)
Forwarded(h, k, g, w, u) ==
  /\ u \in Word /\ (u \in Addr <=> w \in Addr)
  /\ u \in Addr => Stays(k, g, u) /\ u[1] = w[1] /\ (u = w \/ k[w].fwd = u)
  /\ IF ToForward(h, w, g)
     THEN Cloned(h, k, w, u, g) /\ Live(h, w) /\ Alone(h, w) /\ ~Stays(h, g, w)
     ELSE k = h

(* A live block that does not stay has no copy.                            *)
LEMMA NoCopy ==
  ASSUME NEW g, NEW h, HeapOK(h, g), NEW a \in Addr, Live(h, a), ~Stays(h, g, a)
  PROVE  Alone(h, a)
<1> SUFFICES ASSUME NEW c \in Addr, Alloc(h, c), c[1] = a[1], c # a
             PROVE  FALSE
  BY DEF Alone
<1>1. h[c].fwd = a \/ h[a].fwd = c
  BY DEF HeapOK, CopiesOK, Live
<1>2. h[a].fwd = None /\ None \notin Addr
  BY FiniteAddr DEF Live, AlreadyMoved
<1>3. h[c].fwd = a /\ AlreadyMoved(h, c)
  BY <1>1, <1>2 DEF AlreadyMoved
<1> QED
  BY <1>3 DEF HeapOK, ForwardsOK

(* What is not forwarded is in a generation that is not collected.         *)
LEMMA ToForwardIs ==
  ASSUME NEW g \in 1..ToSpace, NEW h, HeapOK(h, g), NEW w \in Word,
         w \in Addr => Alloc(h, w) /\ (g = ToSpace => ~Stays(h, g, w))
  PROVE  ToForward(h, w, g) <=> w \in Addr /\ Live(h, w) /\ ~Stays(h, g, w)
<1>1. CASE w \notin Addr
  BY <1>1 DEF ToForward
<1>2. CASE w \in Addr
  <2>1. h[w].space \in 0..ToSpace
    BY <1>2 DEF HeapOK, HeapType, Alloc, Blocks
  <2>2. h[w].space = ToSpace => g = ToSpace
    BY <1>2 DEF HeapOK, HeapType
  <2>3. Live(h, w) <=> ~AlreadyMoved(h, w)
    BY <1>2 DEF Live
  <2>4. Live(h, w) => (Stays(h, g, w) <=> h[w].space >= g)
    BY DEF Stays
  <2>5. Live(h, w) => (Generation(h, w) < g <=> ~Stays(h, g, w))
    <3>1. CASE h[w].space = ToSpace
      BY <1>2, <2>1, <2>2, <2>4, <3>1 DEF Generation, Oldest, ToSpace
    <3>2. CASE h[w].space # ToSpace
      BY <2>1, <2>4, <3>2 DEF Generation, ToSpace
    <3> QED
      BY <3>1, <3>2
  <2> QED
    BY <1>2, <2>3, <2>5 DEF ToForward
<1> QED
  BY <1>1, <1>2

(* Store::ForwardBlock copies a block at most once and returns its copy.    *)
LEMMA ForwardIs ==
  ASSUME NEW g \in 1..ToSpace, NEW h, HeapOK(h, g), NEW w \in Word,
         w \in Addr => Alloc(h, w) /\ (g = ToSpace => ~Stays(h, g, w))
  PROVE  Forwarded(h, ForwardHeap(h, w, g), g, w, ForwardWord(h, w, g))
<1> DEFINE u == ForwardWord(h, w, g)
           k == ForwardHeap(h, w, g)
<1>1. ToForward(h, w, g) <=> w \in Addr /\ Live(h, w) /\ ~Stays(h, g, w)
  BY ToForwardIs
<1>2. CASE ToForward(h, w, g)
  <2>1. /\ w \in Addr /\ Live(h, w) /\ Alone(h, w) /\ ~Stays(h, g, w)
        /\ ~AlreadyMoved(h, w) /\ HeapType(h, g)
    BY <1>1, <1>2, NoCopy DEF Live, HeapOK
  <2>2. u = NewPlace(h, w) /\ k = CloneBlock(h, w, g)
    BY <1>2, <2>1 DEF ForwardWord, ForwardHeap
  <2>3. Cloned(h, k, w, u, g)
    BY <2>1, <2>2, CloneIs
  <2> HIDE DEF u, k
  <2>4. u \in Addr /\ u[1] = w[1] /\ k[w].fwd = u
    BY <2>3 DEF Cloned
  <2>5. Stays(k, g, u)
    BY <2>1, <2>3, <2>4, ClonedBlocks
  <2>6. Forwarded(h, k, g, w, u)
    BY <1>2, <2>1, <2>3, <2>4, <2>5 DEF Forwarded, Word
  <2> QED
    BY <2>6 DEF u, k
<1>3. CASE ~ToForward(h, w, g)
  <2>1. k = h
    BY <1>3 DEF ForwardHeap
  <2>2. CASE w \notin Addr
    BY <1>3, <2>1, <2>2, FiniteAddr DEF ForwardWord, Forwarded, Word
  <2>3. CASE w \in Addr /\ AlreadyMoved(h, w)
    <3>1. u = h[w].fwd
      BY <2>3 DEF ForwardWord
    <3>2. u \in Addr
      BY <2>3, <3>1 DEF HeapOK, HeapType, Blocks, AlreadyMoved
    <3>3. u[1] = w[1] /\ Stays(h, g, u)
      BY <2>3, <3>1 DEF HeapOK, ForwardsOK
    <3> HIDE DEF u, k
    <3>4. Forwarded(h, k, g, w, u)
      BY <1>3, <2>1, <2>3, <3>1, <3>2, <3>3 DEF Forwarded, Word
    <3> QED
      BY <3>4 DEF u, k
  <2>4. CASE w \in Addr /\ ~AlreadyMoved(h, w)
    <3>1. Live(h, w) /\ Stays(h, g, w)
      BY <1>1, <1>3, <2>4 DEF Live
    <3>2. u = w
      BY <1>3, <2>4 DEF ForwardWord
    <3> HIDE DEF u, k
    <3>3. Forwarded(h, k, g, w, u)
      BY <1>3, <2>1, <2>4, <3>1, <3>2 DEF Forwarded
    <3> QED
      BY <3>3 DEF u, k
  <2> QED
    BY <2>2, <2>3, <2>4
<1> QED
  BY <1>2, <1>3

(* Copying a block keeps the heap sound, if the fields of the copy are yet  *)
(* to be visited.                                                           *)
LEMMA ForwardSound ==
  ASSUME NEW g \in 1..ToSpace, NEW h, NEW p, NEW p2, NEW r, Sound(h, g, p, r),
         NEW w, NEW u, NEW k, Forwarded(h, k, g, w, u),
         IF ToForward(h, w, g) THEN MorePending(h, w, u, p, p2) ELSE p2 = p
  PROVE  Sound(k, g, p2, r)
<1>1. CASE ToForward(h, w, g)
  <2>1. Cloned(h, k, w, u, g) /\ Live(h, w) /\ Alone(h, w) /\ ~Stays(h, g, w)
    BY <1>1 DEF Forwarded
  <2>2. MorePending(h, w, u, p, p2)
    BY <1>1
  <2> QED
    BY <2>1, <2>2, CloneSound
<1>2. CASE ~ToForward(h, w, g)
  BY <1>2 DEF Forwarded
<1> QED
  BY <1>1, <1>2

(* What forwarding a word leaves as it was.                                 *)
LEMMA ForwardKeeps ==
  ASSUME NEW g \in 1..ToSpace, NEW h, HeapType(h, g),
         NEW w, NEW u, NEW k, Forwarded(h, k, g, w, u), NEW c \in Addr
  PROVE  /\ Alloc(h, c) => Alloc(k, c) /\ k[c].args = h[c].args /\ k[c].space = h[c].space
         /\ Stays(h, g, c) \/ AlreadyMoved(h, c) => k[c] = h[c]
         /\ Stays(h, g, c) => Stays(k, g, c)
         /\ Stays(k, g, c) => Stays(h, g, c) \/ (c = u /\ ToForward(h, w, g))
         /\ AlreadyMoved(h, c) => AlreadyMoved(k, c)
         /\ AlreadyMoved(k, c) => AlreadyMoved(h, c) \/ (c = w /\ k[c].fwd = u /\ ToForward(h, w, g))
         /\ ToForward(h, w, g) => ~Alloc(h, u) /\ ~Stays(h, g, w) /\ Live(h, w)
<1>1. CASE ToForward(h, w, g)
  <2>1. Cloned(h, k, w, u, g) /\ Live(h, w) /\ Alone(h, w) /\ ~Stays(h, g, w)
    BY <1>1 DEF Forwarded
  <2>2. k[w].fwd = u /\ ~Alloc(h, u) /\ u \in Addr /\ h[u] = Free
    BY <2>1 DEF Cloned, HeapType
  <2>3. /\ Alloc(k, c) <=> c = u \/ Alloc(h, c)
        /\ AlreadyMoved(k, c) <=> c = w \/ AlreadyMoved(h, c)
        /\ Stays(k, g, c) <=> c = u \/ (c # w /\ Stays(h, g, c))
        /\ c # u => k[c].args = h[c].args /\ k[c].space = h[c].space
        /\ c # u /\ c # w => k[c] = h[c]
        /\ Alloc(h, c) => c # u
    BY <2>1, ClonedBlocks
  <2>4. AlreadyMoved(h, c) => c # w /\ c # u
    BY <2>1, <2>2 DEF Live, AlreadyMoved, Free
  <2>5. Stays(h, g, c) => c # w /\ c # u
    BY <2>1, <2>2 DEF Stays, Live
  <2> QED
    BY <1>1, <2>1, <2>2, <2>3, <2>4, <2>5
<1>2. CASE ~ToForward(h, w, g)
  <2>1. k = h
    BY <1>2 DEF Forwarded
  <2> QED
    BY <1>2, <2>1
<1> QED
  BY <1>1, <1>2

(* The fields of a block, as the collector names them.                      *)
LEMMA FieldNumbers ==
  ASSUME NEW g, NEW h, HeapOK(h, g), NEW a \in Addr, Live(h, a), NEW i \in DOMAIN h[a].args
  PROVE  <<a, i>> \in FieldRef
<1>1. Shape(a, h[a]) /\ h[a].args \in Seq(Field)
  BY DEF HeapOK, Linked, HeapType, Blocks
<1>2. i \in 1..Len(h[a].args)
  BY <1>1
<1>3. Arity \in Nat /\ RootArity \in Nat /\ KeyCount \in Nat /\ Arity > 0
  BY StoreAssumption DEF StoreAssumption
<1>4. Len(h[a].args) = KeyCount \/ Len(h[a].args) \in 1..(Arity + RootArity)
  <2>1. /\ Arity + RootArity \in Nat /\ RootArity <= Arity + RootArity
        /\ Arity <= Arity + RootArity /\ 1 <= Arity + RootArity
    BY <1>3
  <2>2. Len(h[a].args) \in {KeyCount, RootArity, Arity, 1} /\ Len(h[a].args) \in Nat
    BY <1>1 DEF Shape
  <2>3. 1 <= Len(h[a].args)
    BY <1>2
  <2>4. Arity \in 1..(Arity + RootArity) /\ 1 \in 1..(Arity + RootArity)
    BY <1>3, <2>1
  <2>5. RootArity >= 1 => RootArity \in 1..(Arity + RootArity)
    BY <1>3, <2>1
  <2> QED
    BY <2>2, <2>3, <2>4, <2>5
<1>5. i \in Keys \cup 1..(Arity + RootArity)
  <2>1. CASE Len(h[a].args) = KeyCount
    BY <1>2, <2>1 DEF Keys
  <2>2. CASE Len(h[a].args) \in 1..(Arity + RootArity)
    BY <1>2, <1>3, <2>2
  <2> QED
    BY <1>4, <2>1, <2>2
<1> QED
  BY <1>5 DEF FieldRef

(* The fields that forwarding a word adds to what CheneyScan has to visit.  *)
LEMMA NewFieldsIs ==
  ASSUME NEW g \in 1..ToSpace, NEW h, HeapOK(h, g),
         NEW w, NEW k, Forwarded(h, k, g, w, ForwardWord(h, w, g))
  PROVE  /\ NewFields(h, w, g) \in Seq(FieldRef) /\ IsInjective(NewFields(h, w, g))
         /\ \A f : f \in Range(NewFields(h, w, g)) <=>
              /\ ToForward(h, w, g) /\ h[w].label # "WEAK_MAP"
              /\ \E i \in DOMAIN h[w].args :
                   h[w].args[i] \in Addr /\ f = <<ForwardWord(h, w, g), i>>
<1>1. CASE ToForward(h, w, g) /\ IsScanned(h[w])
  <2> DEFINE u == ForwardWord(h, w, g)
             s == Fields(NewPlace(h, w), h[w])
  <2>1. Cloned(h, k, w, u, g) /\ Live(h, w)
    BY <1>1 DEF Forwarded
  <2>2. u = NewPlace(h, w) /\ NewFields(h, w, g) = s
    BY <1>1 DEF ForwardWord, ToForward, NewFields
  <2>3. u \in Addr /\ w \in Addr /\ h[w].args \in Seq(Field)
    BY <2>1 DEF Cloned, HeapOK, HeapType, Blocks
  <2> HIDE DEF u
  <2>4. /\ s \in Seq({u} \X DOMAIN h[w].args) /\ IsInjective(s)
        /\ \A f : f \in Range(s) <=>
                    \E i \in DOMAIN h[w].args : h[w].args[i] \in Addr /\ f = <<u, i>>
    <3>1. AddressFields(u, h[w], Fields(u, h[w]))
      BY <2>3, FieldsIs
    <3> QED
      BY <2>2, <3>1 DEF AddressFields
  <2>5. {u} \X DOMAIN h[w].args \subseteq FieldRef
    <3>1. ASSUME NEW i \in DOMAIN h[w].args
          PROVE  <<u, i>> \in FieldRef
      <4>1. <<w, i>> \in FieldRef
        BY <2>1, <2>3, FieldNumbers
      <4> QED
        BY <2>3, <4>1 DEF FieldRef
    <3> QED
      BY <3>1
  <2>6. s \in Seq(FieldRef)
    <3> HIDE DEF s
    <3> QED
      BY <2>4, <2>5
  <2> HIDE DEF s
  <2>7. /\ NewFields(h, w, g) \in Seq(FieldRef) /\ IsInjective(NewFields(h, w, g))
        /\ \A f : f \in Range(NewFields(h, w, g)) <=>
             /\ ToForward(h, w, g) /\ h[w].label # "WEAK_MAP"
             /\ \E i \in DOMAIN h[w].args : h[w].args[i] \in Addr /\ f = <<u, i>>
    BY <1>1, <2>2, <2>4, <2>6 DEF IsScanned
  <2> QED
    BY <2>7 DEF u
<1>2. CASE ~(ToForward(h, w, g) /\ IsScanned(h[w]))
  <2>1. NewFields(h, w, g) = <<>>
    BY <1>2 DEF NewFields
  <2>2. <<>> \in Seq(FieldRef) /\ IsInjective(<<>>) /\ Range(<<>>) = {}
    BY DEF IsInjective, Range
  <2> QED
    BY <1>2, <2>1, <2>2 DEF IsScanned
<1> QED
  BY <1>1, <1>2

-----------------------------------------------------------------------------
(***************************************************************************)
(* Storing a word in a field, with the write barrier and without.          *)
(***************************************************************************)

(* k is h after w has been stored in field i of the block at a; c says      *)
(* whether the block is childish now.                                      *)
Stored(h, k, a, i, w, c) ==
  /\ k \in [Addr -> Blocks]
  /\ k[a].space = h[a].space /\ k[a].label = h[a].label /\ k[a].fwd = h[a].fwd
  /\ k[a].childish = c
  /\ DOMAIN k[a].args = DOMAIN h[a].args /\ Len(k[a].args) = Len(h[a].args)
  /\ k[a].args[i] = w
  /\ \A j \in DOMAIN h[a].args : j # i => k[a].args[j] = h[a].args[j]
  /\ \A b \in Addr : b # a => k[b] = h[b]

Stores(h, k, a, i, w, c) ==
  \/ k = [h EXCEPT ![a].args[i] = w, ![a].childish = c]
  \/ k = [h EXCEPT ![a].args[i] = w] /\ c = h[a].childish

(* Storing a word changes one field and perhaps the childish flag.          *)
LEMMA StoredIs ==
  ASSUME NEW h \in [Addr -> Blocks], NEW a \in Addr, NEW i \in DOMAIN h[a].args,
         NEW w \in Field, NEW c \in BOOLEAN, NEW k, Stores(h, k, a, i, w, c)
  PROVE  Stored(h, k, a, i, w, c)
<1> DEFINE s == [h[a].args EXCEPT ![i] = w]
           x == [h[a] EXCEPT !.args = s, !.childish = c]
<1>1. h[a] \in Blocks /\ h[a].args \in Seq(Field)
  BY DEF Blocks
<1>2. /\ s \in Seq(Field) /\ DOMAIN s = DOMAIN h[a].args /\ Len(s) = Len(h[a].args)
      /\ s[i] = w /\ \A j \in DOMAIN h[a].args : j # i => s[j] = h[a].args[j]
  BY <1>1
<1>3. k = [h EXCEPT ![a] = x]
  <2>1. CASE k = [h EXCEPT ![a].args[i] = w, ![a].childish = c]
    BY <2>1 DEF s
  <2>2. CASE k = [h EXCEPT ![a].args[i] = w] /\ c = h[a].childish
    <3>1. [h[a] EXCEPT !.args = s] = x
      <4> HIDE DEF s
      <4> QED
        BY <1>1, <1>2, <2>2 DEF Blocks
    <3>2. k = [h EXCEPT ![a] = [h[a] EXCEPT !.args = s]]
      BY <2>2 DEF s
    <3> QED
      BY <3>1, <3>2
  <2> QED
    BY <2>1, <2>2 DEF Stores
<1> HIDE DEF s
<1>4. /\ x \in Blocks /\ x.space = h[a].space /\ x.label = h[a].label /\ x.fwd = h[a].fwd
      /\ x.childish = c /\ x.args = s
  BY <1>1, <1>2 DEF Blocks
<1> HIDE DEF x
<1>5. k \in [Addr -> Blocks] /\ k[a] = x /\ \A b \in Addr : b # a => k[b] = h[b]
  BY <1>3, <1>4
<1> QED
  BY <1>2, <1>4, <1>5 DEF Stored

(* What storing a word leaves as it was.                                    *)
ButOneField(h, k, g, a, i) ==
  /\ \A b \in Addr : k[b].space = h[b].space /\ k[b].label = h[b].label /\ k[b].fwd = h[b].fwd
  /\ \A b \in Addr : DOMAIN k[b].args = DOMAIN h[b].args /\ Len(k[b].args) = Len(h[b].args)
  /\ \A b \in Addr : \A j \in DOMAIN h[b].args :
       b # a \/ j # i => k[b].args[j] = h[b].args[j]
  /\ \A b \in Addr : b # a => k[b] = h[b]
  /\ \A b \in Addr : Alloc(k, b) <=> Alloc(h, b)
  /\ \A b \in Addr : AlreadyMoved(k, b) <=> AlreadyMoved(h, b)
  /\ \A b \in Addr : Live(k, b) <=> Live(h, b)
  /\ \A b \in Addr : Stays(k, g, b) <=> Stays(h, g, b)

(* What a store leaves as it was.                                           *)
LEMMA StoredKeeps ==
  ASSUME NEW g, NEW h, NEW k, NEW a \in Addr, NEW i, NEW w, NEW c, Stored(h, k, a, i, w, c)
  PROVE  ButOneField(h, k, g, a, i)
<1>1. ASSUME NEW b \in Addr
      PROVE  /\ k[b].space = h[b].space /\ k[b].label = h[b].label /\ k[b].fwd = h[b].fwd
             /\ DOMAIN k[b].args = DOMAIN h[b].args /\ Len(k[b].args) = Len(h[b].args)
             /\ \A j \in DOMAIN h[b].args : b # a \/ j # i => k[b].args[j] = h[b].args[j]
  <2>1. CASE b = a
    BY <2>1 DEF Stored
  <2>2. CASE b # a
    BY <2>2 DEF Stored
  <2> QED
    BY <2>1, <2>2
<1>2. \A b \in Addr : b # a => k[b] = h[b]
  BY DEF Stored
<1>3. ASSUME NEW b \in Addr
      PROVE  /\ Alloc(k, b) <=> Alloc(h, b)
             /\ AlreadyMoved(k, b) <=> AlreadyMoved(h, b)
             /\ Live(k, b) <=> Live(h, b)
             /\ Stays(k, g, b) <=> Stays(h, g, b)
  BY <1>1 DEF Alloc, AlreadyMoved, Live, Stays
<1> QED
  BY <1>1, <1>2, <1>3 DEF ButOneField

(* p2 lacks the field f, if p has it and nothing that stays is to be in a   *)
(* field that is pending.                                                  *)
Visited(g, p, p2, f) ==
  p2 \subseteq p /\ (\A e \in p : e \in p2 \/ e = f) /\ (g = ToSpace => f \notin p2)

(* r2 has a, if the block is childish now, as it has to be when it refers   *)
(* to the younger block w.                                                 *)
Barrier(h, a, w, c, r, r2) ==
  /\ r \subseteq r2 /\ r2 \subseteq r \cup {a} /\ c \in BOOLEAN /\ (c <=> a \in r2)
  /\ w \in Addr /\ h[w].space < h[a].space => a \in r2

(* Storing a word keeps the heap sound, if the barrier does its work.       *)
LEMMA StoreSound ==
  ASSUME NEW g, NEW h, NEW p, NEW p2, NEW r, NEW r2, Sound(h, g, p, r),
         NEW a \in Addr, NEW i \in DOMAIN h[a].args, NEW w, NEW c, NEW k,
         Stored(h, k, a, i, w, c), Stays(h, g, a), LinkOK(h, a, w), w \in Addr => Stays(h, g, w),
         Visited(g, p, p2, <<a, i>>), Barrier(h, a, w, c, r, r2)
  PROVE  Sound(k, g, p2, r2)
<1>1. HeapType(h, g) /\ Linked(h) /\ ForwardsOK(h, g) /\ CopiesOK(h) /\ NotAhead(h, g)
  BY DEF Sound, HeapOK
<1>2. /\ \A b \in Addr : k[b].space = h[b].space /\ k[b].label = h[b].label /\ k[b].fwd = h[b].fwd
      /\ \A b \in Addr : DOMAIN k[b].args = DOMAIN h[b].args /\ Len(k[b].args) = Len(h[b].args)
      /\ \A b \in Addr : \A j \in DOMAIN h[b].args :
           b # a \/ j # i => k[b].args[j] = h[b].args[j]
      /\ \A b \in Addr : b # a => k[b] = h[b]
      /\ \A b \in Addr : Alloc(k, b) <=> Alloc(h, b)
      /\ \A b \in Addr : AlreadyMoved(k, b) <=> AlreadyMoved(h, b)
      /\ \A b \in Addr : Live(k, b) <=> Live(h, b)
      /\ \A b \in Addr : Stays(k, g, b) <=> Stays(h, g, b)
  <2>1. ButOneField(h, k, g, a, i)
    BY StoredKeeps
  <2> QED
    BY <2>1 DEF ButOneField
<1>3. /\ k[a].args[i] = w /\ k[a].childish = c /\ k \in [Addr -> Blocks] /\ Live(h, a) /\ Alloc(h, a)
  BY DEF Stored, Stays, Live
<1>4. HeapType(k, g)
  BY <1>1, <1>2, <1>3 DEF HeapType
<1>5. Linked(k)
  <2> SUFFICES ASSUME NEW b \in Addr, Live(k, b)
               PROVE  Shape(b, k[b]) /\ \A j \in DOMAIN k[b].args : LinkOK(k, b, k[b].args[j])
    BY DEF Linked
  <2>1. Shape(b, h[b]) /\ \A j \in DOMAIN h[b].args : LinkOK(h, b, h[b].args[j])
    BY <1>1, <1>2 DEF Linked
  <2>2. Shape(b, k[b])
    BY <1>2, <2>1 DEF Shape
  <2>3. ASSUME NEW j \in DOMAIN k[b].args
        PROVE  LinkOK(k, b, k[b].args[j])
    <3>1. LinkOK(h, b, k[b].args[j])
      <4>1. CASE b = a /\ j = i
        BY <1>3, <4>1
      <4>2. CASE b # a \/ j # i
        BY <1>2, <2>1, <4>2
      <4> QED
        BY <4>1, <4>2
    <3> QED
      BY <1>2, <3>1 DEF LinkOK
  <2> QED
    BY <2>2, <2>3
<1>6. ForwardsOK(k, g)
  <2> SUFFICES ASSUME NEW b \in Addr, AlreadyMoved(k, b)
               PROVE  /\ Alloc(k, b) /\ k[b].label = "MOVED"
                      /\ k[b].fwd[1] = b[1] /\ Stays(k, g, k[b].fwd)
    BY DEF ForwardsOK
  <2>1. h[b].fwd \in Addr /\ AlreadyMoved(h, b)
    BY <1>1, <1>2 DEF HeapType, Blocks, AlreadyMoved
  <2>2. /\ Alloc(h, b) /\ h[b].label = "MOVED" /\ h[b].fwd[1] = b[1] /\ Stays(h, g, h[b].fwd)
    BY <1>1, <2>1 DEF ForwardsOK
  <2> QED
    BY <1>2, <2>1, <2>2
<1>7. CopiesOK(k)
  BY <1>1, <1>2 DEF CopiesOK
<1>8. NotAhead(k, g)
  <2> SUFFICES ASSUME g = ToSpace, NEW b \in Addr, Live(k, b), ~Stays(k, g, b),
                      NEW j \in DOMAIN k[b].args, k[b].args[j] \in Addr
               PROVE  ~Stays(k, g, k[b].args[j])
    BY DEF NotAhead
  <2>1. b # a /\ Live(h, b) /\ ~Stays(h, g, b) /\ k[b] = h[b]
    BY <1>2
  <2> QED
    BY <1>1, <1>2, <2>1 DEF NotAhead
<1>9. AllPending(k, g, p2)
  <2> SUFFICES ASSUME NEW b \in Addr, Stays(k, g, b), NEW j \in DOMAIN k[b].args,
                      k[b].args[j] \in Addr, ~Stays(k, g, k[b].args[j])
               PROVE  <<b, j>> \in p2
    BY DEF AllPending
  <2>1. b # a \/ j # i
    BY <1>2, <1>3
  <2>2. k[b].args[j] = h[b].args[j] /\ j \in DOMAIN h[b].args /\ Stays(h, g, b)
    BY <1>2, <2>1
  <2>3. <<b, j>> \in p
    BY <1>2, <2>2 DEF Sound, AllPending
  <2> QED
    BY <2>1, <2>3 DEF Visited
<1>10. NoneVisited(k, g, p2)
  <2> SUFFICES ASSUME g = ToSpace, NEW b \in Addr, Stays(k, g, b), NEW j \in DOMAIN k[b].args,
                      <<b, j>> \in p2, k[b].args[j] \in Addr
               PROVE  ~Stays(k, g, k[b].args[j])
    BY DEF NoneVisited
  <2>1. b # a \/ j # i
    BY DEF Visited
  <2>2. k[b].args[j] = h[b].args[j] /\ j \in DOMAIN h[b].args /\ Stays(h, g, b) /\ <<b, j>> \in p
    BY <1>2, <2>1 DEF Visited
  <2> QED
    BY <1>2, <2>2 DEF Sound, NoneVisited
<1>11. RememberedOK(k, g, r2)
  <2>1. RememberedOK(h, g, r)
    BY DEF Sound
  <2>2. r2 \subseteq Addr /\ \A b \in r2 : Alloc(k, b)
    BY <1>2, <1>3, <2>1 DEF RememberedOK, Barrier
  <2>3. ASSUME NEW b \in Addr, Stays(k, g, b)
        PROVE  k[b].childish <=> b \in r2
    <3>1. CASE b = a
      BY <1>3, <3>1 DEF Barrier
    <3>2. CASE b # a
      BY <1>2, <2>1, <2>3, <3>2 DEF RememberedOK, Barrier
    <3> QED
      BY <3>1, <3>2
  <2>4. ASSUME NEW b \in Addr, Stays(k, g, b), NEW j \in DOMAIN k[b].args, NEW v,
               v = k[b].args[j], v \in Addr, Stays(k, g, v), k[v].space < k[b].space
        PROVE  b \in r2
    <3>1. CASE b = a /\ j = i
      BY <1>2, <1>3, <2>4, <3>1 DEF Barrier
    <3>2. CASE b # a \/ j # i
      <4>1. v = h[b].args[j] /\ j \in DOMAIN h[b].args /\ Stays(h, g, b) /\ Stays(h, g, v)
        BY <1>2, <2>4, <3>2
      <4>2. h[v].space < h[b].space
        BY <1>2, <2>4
      <4>3. b \in r
        BY <2>1, <2>4, <4>1, <4>2 DEF RememberedOK
      <4> QED
        BY <4>3 DEF Barrier
    <3> QED
      BY <3>1, <3>2
  <2> QED
    BY <2>2, <2>3, <2>4 DEF RememberedOK
<1> QED
  BY <1>4, <1>5, <1>6, <1>7, <1>8, <1>9, <1>10, <1>11 DEF Sound, HeapOK

(* Between blocks that stay the barrier compares regions.                  *)
LEMMA RememberIs ==
  ASSUME NEW g \in 0..ToSpace, NEW h, HeapType(h, g), NEW a \in Addr, Stays(h, g, a),
         NEW w, w \in Addr => Stays(h, g, w)
  PROVE  Remember(h, a, w) <=> w \in Addr /\ h[w].space < h[a].space /\ ~h[a].childish
<1>1. CASE w \notin Addr
  BY <1>1 DEF Remember
<1>2. CASE w \in Addr
  <2>1. ASSUME NEW b \in Addr, Stays(h, g, b)
        PROVE  /\ h[b].space \in 0..ToSpace /\ h[b].space >= g
               /\ h[b].space = ToSpace => g = ToSpace
    BY <2>1 DEF HeapType, Blocks, Stays, Live, Alloc
  <2>2. /\ h[a].space \in 0..ToSpace /\ h[a].space >= g
        /\ h[a].space = ToSpace => g = ToSpace
    BY <2>1
  <2>3. /\ h[w].space \in 0..ToSpace /\ h[w].space >= g
        /\ h[w].space = ToSpace => g = ToSpace
    BY <1>2, <2>1
  <2>4. CASE g = ToSpace
    <3>1. h[a].space = ToSpace /\ h[w].space = ToSpace
      BY <2>2, <2>3, <2>4 DEF ToSpace
    <3> QED
      BY <1>2, <3>1 DEF Remember, Generation, ToSpace, Oldest
  <2>5. CASE g # ToSpace
    <3>1. h[a].space # ToSpace /\ h[w].space # ToSpace
      BY <2>2, <2>3, <2>5
    <3> QED
      BY <1>2, <3>1 DEF Remember, Generation
  <2> QED
    BY <2>4, <2>5
<1> QED
  BY <1>1, <1>2

(* set2 is intgenSet after a store into the block at a.                     *)
SetWritten(set, set2, a) ==
  set2 \in Seq(Addr) /\ IsInjective(set2) /\ (set2 = set \/ set2 = Append(set, a))

(* Store::ReplaceArg with its write barrier keeps the heap sound.           *)
LEMMA WriteSound ==
  ASSUME NEW g \in 0..ToSpace, NEW h, NEW p, NEW p2, NEW set \in Seq(Addr), IsInjective(set),
         Sound(h, g, p, Range(set)),
         NEW a \in Addr, NEW i \in DOMAIN h[a].args, NEW w \in Field,
         Stays(h, g, a), LinkOK(h, a, w), w \in Addr => Stays(h, g, w),
         Visited(g, p, p2, <<a, i>>)
  PROVE  /\ Sound(WriteHeap(h, a, i, w), g, p2, Range(WriteSet(set, h, a, w)))
         /\ SetWritten(set, WriteSet(set, h, a, w), a)
         /\ \E c : Stored(h, WriteHeap(h, a, i, w), a, i, w, c)
<1> DEFINE k == WriteHeap(h, a, i, w)
           set2 == WriteSet(set, h, a, w)
           c == h[a].childish \/ Remember(h, a, w)
<1>1. HeapType(h, g) /\ RememberedOK(h, g, Range(set))
  BY DEF Sound, HeapOK
<1>2. h \in [Addr -> Blocks] /\ h[a].childish \in BOOLEAN
  BY <1>1 DEF HeapType, Blocks
<1>3. Remember(h, a, w) <=> w \in Addr /\ h[w].space < h[a].space /\ ~h[a].childish
  BY <1>1, RememberIs
<1>4. h[a].childish <=> a \in Range(set)
  BY <1>1 DEF RememberedOK
<1>5. c \in BOOLEAN
  OBVIOUS
<1>6. Stored(h, k, a, i, w, c)
  <2>1. Stores(h, k, a, i, w, c)
    BY <1>2 DEF WriteHeap, Stores
  <2> HIDE DEF c, k
  <2> QED
    BY <1>2, <1>5, <2>1, StoredIs
<1>7. CASE Remember(h, a, w)
  <2>1. set2 = Append(set, a)
    BY <1>7 DEF WriteSet
  <2> HIDE DEF set2, k, c
  <2>2. set2 \in Seq(Addr) /\ Range(set2) = Range(set) \cup {a} /\ IsInjective(set2)
    BY <1>3, <1>4, <1>7, <2>1, AppendRange
  <2>3. Barrier(h, a, w, c, Range(set), Range(set2))
    BY <1>5, <1>7, <2>2 DEF Barrier, c
  <2>4. Sound(k, g, p2, Range(set2))
    BY <1>6, <2>3, StoreSound
  <2>5. SetWritten(set, set2, a)
    BY <2>1, <2>2 DEF SetWritten
  <2> QED
    BY <1>6, <2>4, <2>5 DEF k, set2
<1>8. CASE ~Remember(h, a, w)
  <2>1. set2 = set
    BY <1>8 DEF WriteSet
  <2>2. c <=> h[a].childish
    BY <1>8
  <2> HIDE DEF set2, k, c
  <2>3. Barrier(h, a, w, c, Range(set), Range(set2))
    BY <1>3, <1>4, <1>5, <1>8, <2>1, <2>2 DEF Barrier
  <2>4. Sound(k, g, p2, Range(set2))
    BY <1>6, <2>3, StoreSound
  <2>5. SetWritten(set, set2, a)
    BY <2>1 DEF SetWritten
  <2> QED
    BY <1>6, <2>4, <2>5 DEF k, set2
<1> QED
  BY <1>7, <1>8

-----------------------------------------------------------------------------
(***************************************************************************)
(* The other steps that change a block, or what is yet to be visited.       *)
(***************************************************************************)

(* p2 differs from p in no field that matters, r2 from r in no block that   *)
(* stays.                                                                  *)
SamePending(h, g, p, p2) ==
  \A a \in Addr : Stays(h, g, a) =>
    \A i \in DOMAIN h[a].args :
      h[a].args[i] \in Addr =>
        /\ <<a, i>> \in p /\ ~Stays(h, g, h[a].args[i]) => <<a, i>> \in p2
        /\ <<a, i>> \in p2 /\ g = ToSpace => <<a, i>> \in p
SameRemembered(h, g, r, r2) ==
  /\ r2 \subseteq Addr /\ \A a \in r2 : Alloc(h, a)
  /\ \A a \in Addr : Stays(h, g, a) => (a \in r <=> a \in r2)

(* The heap stays sound if the same fields are pending and the same blocks  *)
(* are remembered, however they are written down.                           *)
LEMMA SoundChange ==
  ASSUME NEW g, NEW h, NEW p, NEW p2, NEW r, NEW r2, Sound(h, g, p, r),
         SamePending(h, g, p, p2), SameRemembered(h, g, r, r2)
  PROVE  Sound(h, g, p2, r2)
<1>1. AllPending(h, g, p2)
  BY DEF Sound, AllPending, SamePending
<1>2. NoneVisited(h, g, p2)
  BY DEF Sound, NoneVisited, SamePending
<1>3. RememberedOK(h, g, r2)
  BY DEF Sound, RememberedOK, SameRemembered
<1> QED
  BY <1>1, <1>2, <1>3 DEF Sound

(* k is h with another label or flag in the block at a.                     *)
Retagged(h, k, a) ==
  /\ k \in [Addr -> Blocks]
  /\ k[a].space = h[a].space /\ k[a].fwd = h[a].fwd /\ k[a].args = h[a].args
  /\ Shape(a, k[a])
  /\ \A b \in Addr : b # a => k[b] = h[b]

(* r2 has a exactly if the block is childish, as it has to be if it refers  *)
(* to a younger block.                                                     *)
Reflagged(h, k, g, a, r, r2) ==
  /\ \A b \in r : b \in r2 \/ b = a
  /\ \A b \in r2 : b \in r \/ b = a
  /\ k[a].childish <=> a \in r2
  /\ \A i \in DOMAIN h[a].args :
       LET v == h[a].args[i]
       IN v \in Addr /\ Stays(h, g, v) /\ h[v].space < h[a].space => a \in r2

(* Changing the label or the flag of a block keeps the heap sound.          *)
LEMMA RetagSound ==
  ASSUME NEW g, NEW h, NEW k, NEW p, NEW r, NEW r2, Sound(h, g, p, r), NEW a \in Addr,
         Stays(h, g, a), Retagged(h, k, a), Reflagged(h, k, g, a, r, r2)
  PROVE  /\ Sound(k, g, p, r2)
         /\ \A b \in Addr : Stays(k, g, b) <=> Stays(h, g, b)
         /\ \A b \in Addr : k[b].args = h[b].args /\ k[b].space = h[b].space /\ k[b].fwd = h[b].fwd
<1>1. HeapType(h, g) /\ Linked(h) /\ ForwardsOK(h, g) /\ CopiesOK(h) /\ NotAhead(h, g)
  BY DEF Sound, HeapOK
<1>2. \A b \in Addr : k[b].args = h[b].args /\ k[b].space = h[b].space /\ k[b].fwd = h[b].fwd
  BY DEF Retagged
<1>3. /\ \A b \in Addr : Alloc(k, b) <=> Alloc(h, b)
      /\ \A b \in Addr : AlreadyMoved(k, b) <=> AlreadyMoved(h, b)
      /\ \A b \in Addr : Live(k, b) <=> Live(h, b)
      /\ \A b \in Addr : Stays(k, g, b) <=> Stays(h, g, b)
  BY <1>2 DEF Alloc, AlreadyMoved, Live, Stays
<1>4. k \in [Addr -> Blocks] /\ Live(h, a) /\ Alloc(h, a) /\ \A b \in Addr : b # a => k[b] = h[b]
  BY DEF Retagged, Stays, Live
<1>5. HeapType(k, g)
  BY <1>1, <1>2, <1>3, <1>4 DEF HeapType
<1>6. Linked(k)
  <2> SUFFICES ASSUME NEW b \in Addr, Live(k, b)
               PROVE  Shape(b, k[b]) /\ \A j \in DOMAIN k[b].args : LinkOK(k, b, k[b].args[j])
    BY DEF Linked
  <2>1. Shape(b, h[b]) /\ \A j \in DOMAIN h[b].args : LinkOK(h, b, h[b].args[j])
    BY <1>1, <1>3 DEF Linked
  <2>2. Shape(b, k[b])
    BY <1>4, <2>1 DEF Retagged
  <2>3. ASSUME NEW j \in DOMAIN k[b].args
        PROVE  LinkOK(k, b, k[b].args[j])
    BY <1>2, <1>3, <2>1 DEF LinkOK
  <2> QED
    BY <2>2, <2>3
<1>7. ForwardsOK(k, g)
  <2> SUFFICES ASSUME NEW b \in Addr, AlreadyMoved(k, b)
               PROVE  /\ Alloc(k, b) /\ k[b].label = "MOVED"
                      /\ k[b].fwd[1] = b[1] /\ Stays(k, g, k[b].fwd)
    BY DEF ForwardsOK
  <2>1. h[b].fwd \in Addr /\ AlreadyMoved(h, b)
    BY <1>1, <1>3 DEF HeapType, Blocks, AlreadyMoved
  <2>2. /\ Alloc(h, b) /\ h[b].label = "MOVED" /\ h[b].fwd[1] = b[1] /\ Stays(h, g, h[b].fwd)
    BY <1>1, <2>1 DEF ForwardsOK
  <2>3. b # a
    BY <2>1 DEF Stays, Live
  <2> QED
    BY <1>3, <1>4, <2>1, <2>2, <2>3
<1>8. CopiesOK(k)
  BY <1>1, <1>2, <1>3 DEF CopiesOK
<1>9. NotAhead(k, g)
  BY <1>1, <1>2, <1>3 DEF NotAhead
<1>10. AllPending(k, g, p)
  BY <1>2, <1>3 DEF Sound, AllPending
<1>11. NoneVisited(k, g, p)
  BY <1>2, <1>3 DEF Sound, NoneVisited
<1>12. RememberedOK(k, g, r2)
  <2>1. RememberedOK(h, g, r)
    BY DEF Sound
  <2>2. r2 \subseteq Addr /\ \A b \in r2 : Alloc(k, b)
    BY <1>3, <1>4, <2>1 DEF RememberedOK, Reflagged
  <2>3. ASSUME NEW b \in Addr, Stays(k, g, b)
        PROVE  k[b].childish <=> b \in r2
    <3>1. CASE b = a
      BY <3>1 DEF Reflagged
    <3>2. CASE b # a
      BY <1>3, <1>4, <2>1, <2>3, <3>2 DEF RememberedOK, Reflagged
    <3> QED
      BY <3>1, <3>2
  <2>4. ASSUME NEW b \in Addr, Stays(k, g, b), NEW j \in DOMAIN k[b].args, NEW v,
               v = k[b].args[j], v \in Addr, Stays(k, g, v), k[v].space < k[b].space
        PROVE  b \in r2
    <3>1. v = h[b].args[j] /\ j \in DOMAIN h[b].args /\ Stays(h, g, b) /\ Stays(h, g, v)
      BY <1>2, <1>3, <2>4
    <3>2. h[v].space < h[b].space
      BY <1>2, <2>4
    <3>3. CASE b = a
      BY <2>4, <3>1, <3>2, <3>3 DEF Reflagged
    <3>4. CASE b # a
      <4>1. b \in r
        BY <2>1, <2>4, <3>1, <3>2 DEF RememberedOK
      <4> QED
        BY <3>4, <4>1 DEF Reflagged
    <3> QED
      BY <3>3, <3>4
  <2> QED
    BY <2>2, <2>3, <2>4 DEF RememberedOK
<1> QED
  BY <1>2, <1>3, <1>5, <1>6, <1>7, <1>8, <1>9, <1>10, <1>11, <1>12 DEF Sound, HeapOK

(* k is h with a new block at b.                                            *)
Added(h, k, b) ==
  /\ k \in [Addr -> Blocks] /\ b \in Addr
  /\ \A c \in Addr : Alloc(h, c) => c[1] # b[1]
  /\ k[b].space = Youngest /\ k[b].childish = FALSE /\ k[b].fwd = None
  /\ Shape(b, k[b]) /\ \A i \in DOMAIN k[b].args :
                          LinkOK(h, b, k[b].args[i]) /\ (k[b].args[i] \in Addr => Stays(h, 0, k[b].args[i]))
  /\ \A c \in Addr : c # b => k[c] = h[c]

(* Store::AllocBlock keeps the heap sound.                                  *)
LEMMA AddSound ==
  ASSUME NEW h, NEW k, NEW r, Sound(h, 0, {}, r), NEW b, Added(h, k, b)
  PROVE  /\ Sound(k, 0, {}, r)
         /\ \A c \in Addr : Stays(k, 0, c) <=> c = b \/ Stays(h, 0, c)
         /\ \A c \in Addr : Stays(h, 0, c) => k[c] = h[c] /\ c # b
         /\ \A c \in Addr : AlreadyMoved(k, c) <=> AlreadyMoved(h, c)
<1>1. HeapType(h, 0) /\ Linked(h) /\ ForwardsOK(h, 0) /\ CopiesOK(h)
  BY DEF Sound, HeapOK
<1>2. /\ b \in Addr /\ ~Alloc(h, b) /\ h[b] = Free /\ k[b].space = 0 /\ k[b].fwd = None
      /\ k[b].childish = FALSE /\ 0 # None /\ None \notin Addr /\ 0 >= 0 /\ 0 # ToSpace
      /\ k \in [Addr -> Blocks]
  BY <1>1, FiniteAddr, StoreAssumption DEF Added, HeapType, Youngest, ToSpace, StoreAssumption
<1>3. \A c \in Addr : c # b => k[c] = h[c]
  BY DEF Added
<1>4. /\ \A c \in Addr : Alloc(k, c) <=> c = b \/ Alloc(h, c)
      /\ \A c \in Addr : AlreadyMoved(k, c) <=> AlreadyMoved(h, c)
      /\ \A c \in Addr : Live(k, c) <=> c = b \/ Live(h, c)
      /\ \A c \in Addr : Stays(k, 0, c) <=> c = b \/ Stays(h, 0, c)
      /\ \A c \in Addr : Alloc(h, c) \/ Live(h, c) \/ Stays(h, 0, c) => c # b
  BY <1>2, <1>3 DEF Alloc, AlreadyMoved, Live, Stays, Free
<1>5. HeapType(k, 0)
  BY <1>1, <1>2, <1>3, <1>4 DEF HeapType
<1>6. Linked(k)
  <2> SUFFICES ASSUME NEW c \in Addr, Live(k, c)
               PROVE  Shape(c, k[c]) /\ \A i \in DOMAIN k[c].args : LinkOK(k, c, k[c].args[i])
    BY DEF Linked
  <2>1. Shape(c, k[c]) /\ \A i \in DOMAIN k[c].args : LinkOK(h, c, k[c].args[i])
    <3>1. CASE c = b
      BY <3>1 DEF Added
    <3>2. CASE c # b
      BY <1>1, <1>3, <1>4, <3>2 DEF Linked
    <3> QED
      BY <3>1, <3>2
  <2> QED
    BY <1>4, <2>1 DEF LinkOK
<1>7. ForwardsOK(k, 0)
  <2> SUFFICES ASSUME NEW c \in Addr, AlreadyMoved(k, c)
               PROVE  /\ Alloc(k, c) /\ k[c].label = "MOVED"
                      /\ k[c].fwd[1] = c[1] /\ Stays(k, 0, k[c].fwd)
    BY DEF ForwardsOK
  <2>1. AlreadyMoved(h, c) /\ Alloc(h, c) /\ c # b /\ h[c].fwd \in Addr
    BY <1>1, <1>4 DEF ForwardsOK, HeapType, Blocks, AlreadyMoved
  <2>2. h[c].label = "MOVED" /\ h[c].fwd[1] = c[1] /\ Stays(h, 0, h[c].fwd)
    BY <1>1, <2>1 DEF ForwardsOK
  <2> QED
    BY <1>3, <1>4, <2>1, <2>2
<1>8. CopiesOK(k)
  <2> SUFFICES ASSUME NEW c \in Addr, NEW d \in Addr, Alloc(k, c), Alloc(k, d), c[1] = d[1], c # d
               PROVE  k[c].fwd = d \/ k[d].fwd = c
    BY DEF CopiesOK
  <2>1. c # b /\ d # b
    BY <1>4 DEF Added
  <2> QED
    BY <1>1, <1>3, <1>4, <2>1 DEF CopiesOK
<1>9. NotAhead(k, 0)
  BY <1>2 DEF NotAhead
<1>10. AllPending(k, 0, {})
  <2> SUFFICES ASSUME NEW c \in Addr, Stays(k, 0, c), NEW i \in DOMAIN k[c].args, k[c].args[i] \in Addr
               PROVE  Stays(k, 0, k[c].args[i])
    BY DEF AllPending
  <2>1. CASE c = b
    BY <1>4, <2>1 DEF Added
  <2>2. CASE c # b
    <3>1. Stays(h, 0, k[c].args[i])
      BY <1>3, <1>4, <2>2 DEF Sound, AllPending
    <3> QED
      BY <1>4, <3>1
  <2> QED
    BY <2>1, <2>2
<1>11. NoneVisited(k, 0, {})
  BY DEF NoneVisited
<1>12. RememberedOK(k, 0, r)
  <2>1. RememberedOK(h, 0, r)
    BY DEF Sound
  <2>2. r \subseteq Addr /\ \A c \in r : Alloc(k, c) /\ c # b
    BY <1>4, <2>1 DEF RememberedOK
  <2>3. ASSUME NEW c \in Addr, Stays(k, 0, c)
        PROVE  k[c].childish <=> c \in r
    <3>1. CASE c = b
      BY <1>2, <2>2, <3>1
    <3>2. CASE c # b
      BY <1>3, <1>4, <2>1, <2>3, <3>2 DEF RememberedOK
    <3> QED
      BY <3>1, <3>2
  <2>4. ASSUME NEW c \in Addr, Stays(k, 0, c), NEW j \in DOMAIN k[c].args, NEW v,
               v = k[c].args[j], v \in Addr, Stays(k, 0, v), k[v].space < k[c].space
        PROVE  c \in r
    <3>1. k[v].space \in Nat
      BY <1>2, <2>4 DEF Blocks, Stays, Live, Alloc, ToSpace
    <3>2. c # b
      BY <1>2, <2>4, <3>1
    <3>3. Stays(h, 0, c) /\ k[c] = h[c]
      BY <1>3, <1>4, <2>4, <3>2
    <3>4. Stays(h, 0, v)
      BY <2>4, <3>3 DEF Sound, AllPending
    <3>5. k[v] = h[v]
      BY <1>3, <1>4, <3>4, <2>4
    <3> QED
      BY <2>1, <2>4, <3>3, <3>4, <3>5 DEF RememberedOK
  <2> QED
    BY <2>2, <2>3, <2>4 DEF RememberedOK
<1> QED
  BY <1>3, <1>4, <1>5, <1>6, <1>7, <1>8, <1>9, <1>10, <1>11, <1>12 DEF Sound, HeapOK

-----------------------------------------------------------------------------
(***************************************************************************)
(* The start and the end of a collection.                                  *)
(***************************************************************************)

(* When the collection of the generations below g starts, what refers from  *)
(* the others to one of them is remembered.                                *)
LEMMA RaiseSound ==
  ASSUME NEW g \in 1..ToSpace, NEW h, NEW p, NEW r, Sound(h, 0, {}, r),
         \A a \in Addr : ~AlreadyMoved(h, a),
         \A a \in r : \A i \in DOMAIN h[a].args : h[a].args[i] \in Addr => <<a, i>> \in p
  PROVE  Sound(h, g, p, r)
<1>1. HeapType(h, 0) /\ Linked(h) /\ CopiesOK(h) /\ RememberedOK(h, 0, r) /\ AllPending(h, 0, {})
  BY DEF Sound, HeapOK
<1>2. ASSUME NEW a \in Addr, Live(h, a)
      PROVE  h[a].space \in 0..2 /\ Stays(h, 0, a)
  <2>1. h[a].space \in 0..ToSpace /\ h[a].space # ToSpace
    BY <1>1, <1>2 DEF HeapType, Blocks, Live, Alloc, ToSpace
  <2> QED
    BY <1>2, <2>1 DEF Stays, ToSpace
<1>3. \A a \in Addr : Stays(h, g, a) => Stays(h, 0, a) /\ Live(h, a) /\ h[a].space >= g
  BY <1>2 DEF Stays
<1>4. g = ToSpace => \A a \in Addr : ~Stays(h, g, a)
  BY <1>2, <1>3 DEF ToSpace
<1>5. HeapOK(h, g)
  <2>1. HeapType(h, g)
    BY <1>1 DEF HeapType, ToSpace
  <2>2. ForwardsOK(h, g)
    BY DEF ForwardsOK
  <2>3. NotAhead(h, g)
    <3> SUFFICES ASSUME g = ToSpace, NEW a \in Addr, Live(h, a), NEW i \in DOMAIN h[a].args,
                        h[a].args[i] \in Addr
                 PROVE  ~Stays(h, g, h[a].args[i])
      BY DEF NotAhead
    <3> QED
      BY <1>4
  <2> QED
    BY <1>1, <2>1, <2>2, <2>3 DEF HeapOK
<1>6. AllPending(h, g, p)
  <2> SUFFICES ASSUME NEW a \in Addr, Stays(h, g, a), NEW i \in DOMAIN h[a].args,
                      h[a].args[i] \in Addr, ~Stays(h, g, h[a].args[i])
               PROVE  <<a, i>> \in p
    BY DEF AllPending
  <2> DEFINE v == h[a].args[i]
  <2>1. Stays(h, 0, v) /\ v \in Addr
    BY <1>1, <1>3 DEF AllPending
  <2> HIDE DEF v
  <2>2. Live(h, v) /\ h[v].space \in 0..2 /\ Live(h, a) /\ h[a].space \in 0..2
    BY <1>2, <1>3, <2>1 DEF Stays
  <2>3. ~(h[v].space >= g)
    BY <2>1, <2>2 DEF Stays, v
  <2>4. h[v].space < h[a].space
    BY <1>3, <2>2, <2>3
  <2>5. a \in r
    BY <1>1, <1>3, <2>1, <2>4 DEF RememberedOK, v
  <2> QED
    BY <2>5
<1>7. NoneVisited(h, g, p)
  BY <1>4 DEF NoneVisited
<1>8. RememberedOK(h, g, r)
  <2>1. r \subseteq Addr /\ \A a \in r : Alloc(h, a)
    BY <1>1 DEF RememberedOK
  <2>2. \A a \in Addr : Stays(h, g, a) => (h[a].childish <=> a \in r)
    BY <1>1, <1>3 DEF RememberedOK
  <2>3. ASSUME NEW a \in Addr, Stays(h, g, a), NEW i \in DOMAIN h[a].args, NEW v, v = h[a].args[i],
               v \in Addr, Stays(h, g, v), h[v].space < h[a].space
        PROVE  a \in r
    BY <1>1, <1>3, <2>3 DEF RememberedOK
  <2> QED
    BY <2>1, <2>2, <2>3 DEF RememberedOK
<1> QED
  BY <1>5, <1>6, <1>7, <1>8 DEF Sound

(* k is h after the collected regions have been freed.                      *)
Released(h, k, g) ==
  /\ k \in [Addr -> Blocks]
  /\ \A a \in Addr :
       IF Stays(h, g, a)
       THEN /\ k[a].label = h[a].label /\ k[a].args = h[a].args
            /\ k[a].childish = h[a].childish /\ k[a].fwd = None
            /\ k[a].space = SpaceAfterSwap(h[a].space)
       ELSE k[a] = Free

(* Which blocks stay when the collected regions are freed.                  *)
LEMMA ReleaseIs ==
  ASSUME NEW g \in 1..ToSpace, NEW h, HeapType(h, g)
  PROVE  Released(h, [a \in Addr |->
                        IF h[a] = Free \/ AlreadyMoved(h, a) \/ h[a].space < g THEN Free
                        ELSE [h[a] EXCEPT !.space = SpaceAfterSwap(@)]], g)
<1> DEFINE b(a) == [h[a] EXCEPT !.space = SpaceAfterSwap(@)]
           k == [a \in Addr |-> IF h[a] = Free \/ AlreadyMoved(h, a) \/ h[a].space < g
                                THEN Free ELSE b(a)]
<1>1. h \in [Addr -> Blocks] /\ \A a \in Addr : ~Alloc(h, a) => h[a] = Free
  BY DEF HeapType
<1>2. Free \in Blocks
  BY DEF Free, Blocks, BlockLabels
<1>3. ASSUME NEW a \in Addr
      PROVE  /\ b(a) \in Blocks /\ b(a).label = h[a].label /\ b(a).args = h[a].args
             /\ b(a).childish = h[a].childish /\ b(a).fwd = h[a].fwd
             /\ b(a).space = SpaceAfterSwap(h[a].space)
  <2>1. h[a] \in Blocks
    BY <1>1
  <2>2. SpaceAfterSwap(h[a].space) \in (0..ToSpace) \cup {None}
    BY <2>1 DEF SpaceAfterSwap, Blocks, Oldest, ToSpace
  <2> QED
    BY <2>1, <2>2 DEF Blocks
<1> HIDE DEF b
<1>4. ASSUME NEW a \in Addr
      PROVE  ~(h[a] = Free \/ AlreadyMoved(h, a) \/ h[a].space < g) <=> Stays(h, g, a)
  <2>1. CASE h[a] = Free
    BY <2>1 DEF Free, Stays, Live, Alloc
  <2>2. CASE h[a] # Free
    <3>1. Alloc(h, a) /\ h[a].space \in 0..ToSpace
      BY <1>1, <2>2 DEF Alloc, Blocks
    <3>2. ~(h[a].space < g) <=> h[a].space >= g
      BY <3>1
    <3> QED
      BY <2>2, <3>1, <3>2 DEF Stays, Live
  <2> QED
    BY <2>1, <2>2
<1>5. k \in [Addr -> Blocks]
  BY <1>2, <1>3
<1>6. ASSUME NEW a \in Addr
      PROVE  IF Stays(h, g, a) THEN k[a] = b(a) /\ h[a].fwd = None ELSE k[a] = Free
  BY <1>4, <1>6 DEF Stays, Live, AlreadyMoved
<1> HIDE DEF k
<1>7. Released(h, k, g)
  BY <1>3, <1>5, <1>6 DEF Released
<1> QED
  BY <1>7 DEF k, b

(* Freeing the collected regions keeps the heap sound when no field is      *)
(* pending.                                                                 *)
LEMMA ReleaseSound ==
  ASSUME NEW g \in 1..ToSpace, NEW h, NEW k, NEW r, Sound(h, g, {}, r), Released(h, k, g),
         \A a \in r : Stays(h, g, a)
  PROVE  /\ Sound(k, 0, {}, r)
         /\ \A a \in Addr : Stays(k, 0, a) <=> Stays(h, g, a)
         /\ \A a \in Addr : ~AlreadyMoved(k, a)
         /\ \A a \in Addr : Stays(h, g, a) => k[a].args = h[a].args
<1>1. HeapType(h, g) /\ Linked(h) /\ CopiesOK(h) /\ RememberedOK(h, g, r) /\ AllPending(h, g, {})
  BY DEF Sound, HeapOK
<1>2. /\ Free.space = None /\ Free.fwd = None /\ None \notin Addr
      /\ 0 # None /\ 1 # None /\ 2 # None /\ 3 # None
  BY FiniteAddr, StoreAssumption DEF Free, StoreAssumption, Youngest, ToSpace
<1>3. ASSUME NEW a \in Addr
      PROVE  /\ Alloc(k, a) <=> Stays(h, g, a)
             /\ ~AlreadyMoved(k, a)
             /\ Live(k, a) <=> Stays(h, g, a)
             /\ Stays(k, 0, a) <=> Stays(h, g, a)
             /\ Stays(h, g, a) => /\ k[a].label = h[a].label /\ k[a].args = h[a].args
                                  /\ k[a].childish = h[a].childish
                                  /\ h[a].space \in g..ToSpace
                                  /\ k[a].space = IF h[a].space = 3 THEN 2 ELSE h[a].space
                                  /\ h[a].space = 3 => g = 3
             /\ ~Stays(h, g, a) => k[a] = Free
             /\ Alloc(k, a) => k[a].space \in 0..2
  <2>1. CASE Stays(h, g, a)
    <3>1. h[a].space \in 0..ToSpace /\ h[a].space >= g /\ (h[a].space = ToSpace => g = ToSpace)
      BY <1>1, <2>1 DEF HeapType, Blocks, Stays, Live, Alloc
    <3>2. /\ k[a].label = h[a].label /\ k[a].args = h[a].args /\ k[a].childish = h[a].childish
          /\ k[a].fwd = None /\ k[a].space = SpaceAfterSwap(h[a].space)
      BY <2>1 DEF Released
    <3>3. k[a].space = (IF h[a].space = 3 THEN 2 ELSE h[a].space) /\ k[a].space \in 0..2
      BY <3>1, <3>2 DEF SpaceAfterSwap, ToSpace, Oldest
    <3>4. k[a].space # None /\ k[a].space >= 0
      BY <1>2, <3>3
    <3> QED
      BY <2>1, <3>1, <3>2, <3>3, <3>4 DEF Alloc, AlreadyMoved, Live, Stays, ToSpace
  <2>2. CASE ~Stays(h, g, a)
    <3>1. k[a] = Free
      BY <2>2 DEF Released
    <3> QED
      BY <1>2, <2>2, <3>1 DEF Alloc, AlreadyMoved, Live, Stays
  <2> QED
    BY <2>1, <2>2
<1>4. \A a \in Addr : Stays(h, g, a) => Live(h, a) /\ Alloc(h, a) /\ ~AlreadyMoved(h, a)
  BY DEF Stays, Live
<1>5. ASSUME NEW a \in Addr, Stays(h, g, a), NEW i \in DOMAIN h[a].args, h[a].args[i] \in Addr
      PROVE  Stays(h, g, h[a].args[i])
  BY <1>1, <1>5 DEF AllPending
<1>6. HeapType(k, 0)
  <2>1. k \in [Addr -> Blocks]
    BY DEF Released
  <2>2. \A a \in Addr : Alloc(k, a) => k[a].space # ToSpace
    BY <1>3 DEF ToSpace
  <2> QED
    BY <1>3, <2>1, <2>2 DEF HeapType
<1>7. Linked(k)
  <2> SUFFICES ASSUME NEW a \in Addr, Live(k, a)
               PROVE  Shape(a, k[a]) /\ \A i \in DOMAIN k[a].args : LinkOK(k, a, k[a].args[i])
    BY DEF Linked
  <2>1. Shape(a, h[a]) /\ \A i \in DOMAIN h[a].args : LinkOK(h, a, h[a].args[i])
    BY <1>1, <1>3, <1>4 DEF Linked
  <2>2. k[a].label = h[a].label /\ k[a].args = h[a].args /\ Stays(h, g, a)
    BY <1>3
  <2>3. Shape(a, k[a])
    BY <2>1, <2>2 DEF Shape
  <2>4. ASSUME NEW i \in DOMAIN k[a].args
        PROVE  LinkOK(k, a, k[a].args[i])
    BY <1>3, <1>5, <2>1, <2>2 DEF LinkOK
  <2> QED
    BY <2>3, <2>4
<1>8. ForwardsOK(k, 0)
  BY <1>3 DEF ForwardsOK
<1>9. CopiesOK(k)
  <2> SUFFICES ASSUME NEW a \in Addr, NEW b \in Addr, Alloc(k, a), Alloc(k, b), a[1] = b[1], a # b
               PROVE  FALSE
    BY DEF CopiesOK
  <2>1. Alloc(h, a) /\ Alloc(h, b) /\ ~AlreadyMoved(h, a) /\ ~AlreadyMoved(h, b)
    BY <1>3, <1>4
  <2>2. h[a].fwd = b \/ h[b].fwd = a
    BY <1>1, <2>1 DEF CopiesOK
  <2> QED
    BY <1>2, <2>1, <2>2 DEF AlreadyMoved
<1>10. NotAhead(k, 0)
  BY DEF NotAhead, ToSpace
<1>11. AllPending(k, 0, {})
  BY <1>3, <1>5 DEF AllPending
<1>12. NoneVisited(k, 0, {})
  BY DEF NoneVisited
<1>13. RememberedOK(k, 0, r)
  <2>1. r \subseteq Addr /\ \A a \in r : Alloc(k, a)
    BY <1>1, <1>3 DEF RememberedOK
  <2>2. \A a \in Addr : Stays(k, 0, a) => (k[a].childish <=> a \in r)
    BY <1>1, <1>3 DEF RememberedOK
  <2>3. ASSUME NEW a \in Addr, Stays(k, 0, a), NEW i \in DOMAIN k[a].args, NEW v, v = k[a].args[i],
               v \in Addr, Stays(k, 0, v), k[v].space < k[a].space
        PROVE  a \in r
    <3>1. Stays(h, g, a) /\ Stays(h, g, v) /\ i \in DOMAIN h[a].args /\ v = h[a].args[i]
      BY <1>3, <2>3
    <3>2. h[v].space \in g..ToSpace /\ h[a].space \in g..ToSpace
      BY <1>3, <2>3, <3>1
    <3>3. /\ k[a].space = IF h[a].space = 3 THEN 2 ELSE h[a].space
          /\ k[v].space = IF h[v].space = 3 THEN 2 ELSE h[v].space
          /\ h[a].space = 3 => g = 3
      BY <1>3, <2>3, <3>1
    <3>4. h[v].space < h[a].space
      BY <2>3, <3>2, <3>3 DEF ToSpace
    <3> QED
      BY <1>1, <2>3, <3>1, <3>4 DEF RememberedOK
  <2> QED
    BY <2>1, <2>2, <2>3 DEF RememberedOK
<1> QED
  BY <1>3, <1>6, <1>7, <1>8, <1>9, <1>10, <1>11, <1>12, <1>13 DEF Sound, HeapOK

-----------------------------------------------------------------------------
(***************************************************************************)
(* Visiting a field: what it refers to is forwarded, and a word is stored. *)
(***************************************************************************)

(* What is no reference leads to itself.                                   *)
LEMMA DerefSelf ==
  ASSUME NEW g, NEW h, HeapOK(h, g), NEW v \in Word, ~IsRef(h, v)
  PROVE  Deref(h, v) = v
<1>1. ClosedUnderRefs(h, Word)
  BY RefIs DEF ClosedUnderRefs
<1>2. ClosedUnderRefs(h, {v})
  BY DEF ClosedUnderRefs
<1>3. Deref(h, v) \in {v}
  BY <1>1, <1>2, DerefStays
<1> QED
  BY <1>3

(* A field that may be visited; in a major collection, one that is pending. *)
CanVisit(h, g, p, a, i) ==
  /\ a \in Addr /\ Stays(h, g, a) /\ i \in DOMAIN h[a].args /\ h[a].args[i] \in Word
  /\ g = ToSpace => <<a, i>> \in p

(* w is what the visit of a field of the block at a finds.                  *)
Found(h, g, a, w) ==
  /\ w \in Word /\ (a[1] = StartupMap => w \in Addr)
  /\ w \in Addr => /\ Alloc(h, w) /\ w[1] # RootObj /\ (w[1] \in Table <=> a[1] = StartupMap)
                   /\ g = ToSpace => ~Stays(h, g, w)

(* What Deref and ForwardBlock do with the word in a pending field.         *)
LEMMA FoundIs ==
  ASSUME NEW g \in 1..ToSpace, NEW h, NEW p, NEW r, Sound(h, g, p, r),
         NEW a, NEW i, CanVisit(h, g, p, a, i), NEW w, w = Deref(h, h[a].args[i])
  PROVE  /\ Found(h, g, a, w)
         /\ Forwarded(h, ForwardHeap(h, w, g), g, w, ForwardWord(h, w, g))
<1> DEFINE v == h[a].args[i]
<1>1. HeapOK(h, g) /\ Linked(h) /\ NoneVisited(h, g, p)
  BY DEF Sound, HeapOK
<1>2. a \in Addr /\ Stays(h, g, a) /\ Live(h, a) /\ i \in DOMAIN h[a].args /\ v \in Word
  BY DEF CanVisit, Stays
<1>3. LinkOK(h, a, v)
  BY <1>1, <1>2 DEF Linked
<1>4. v \in Addr /\ g = ToSpace => ~Stays(h, g, v)
  BY <1>1, <1>2 DEF NoneVisited, CanVisit
<1> HIDE DEF v
<1>5. v \in Addr => Alloc(h, v) /\ v[1] # RootObj /\ (v[1] \in Table <=> a[1] = StartupMap)
  BY <1>3 DEF LinkOK
<1>6. w = Deref(h, v)
  BY DEF v
<1>7. LeadsTo(h, g, v, w)
  BY <1>1, <1>2, <1>5, <1>6, DerefIs
<1>8. a[1] = StartupMap => w \in Addr
  <2> SUFFICES ASSUME a[1] = StartupMap
               PROVE  w \in Addr
    OBVIOUS
  <2>1. v \in Addr /\ v[1] \in Table
    BY <1>3 DEF LinkOK
  <2>2. ~IsRef(h, v)
    BY <1>1, <1>2, <2>1, RefIs
  <2> QED
    BY <1>1, <1>2, <1>6, <2>1, <2>2, DerefSelf
<1>9. Found(h, g, a, w)
  BY <1>4, <1>5, <1>7, <1>8 DEF LeadsTo, Found
<1>10. Forwarded(h, ForwardHeap(h, w, g), g, w, ForwardWord(h, w, g))
  BY <1>1, <1>9, ForwardIs DEF Found
<1> QED
  BY <1>9, <1>10

(* From h to k, w was forwarded to u and v stored in field i of the block    *)
(* at a.                                                                   *)
Visits(h, k, g, w, u, a, i, v) ==
  /\ \A c \in Addr : Alloc(h, c) => Alloc(k, c) /\ k[c].space = h[c].space
  /\ \A c \in Addr : Stays(h, g, c) => Stays(k, g, c)
  /\ \A c \in Addr : Stays(k, g, c) => Stays(h, g, c) \/ (c = u /\ ToForward(h, w, g))
  /\ \A c \in Addr : AlreadyMoved(h, c) => k[c].fwd = h[c].fwd
  /\ \A c \in Addr :
       AlreadyMoved(k, c) => AlreadyMoved(h, c) \/ (c = w /\ k[c].fwd = u /\ ToForward(h, w, g))
  /\ \A c \in Addr : Alloc(h, c) => DOMAIN k[c].args = DOMAIN h[c].args
  /\ \A c \in Addr : Alloc(h, c) =>
       \A j \in DOMAIN h[c].args : c # a \/ j # i => k[c].args[j] = h[c].args[j]
  /\ k[a].args[i] = v
  /\ ToForward(h, w, g) =>
       /\ w \in Addr /\ u \in Addr /\ ~Alloc(h, u) /\ Live(h, w) /\ ~Stays(h, g, w) /\ Alone(h, w)
       /\ u[1] = w[1] /\ k[u].space = g /\ k[u].args = h[w].args /\ k[w].fwd = u
  /\ u \in Addr => Stays(k, g, u)

(* A visit of a field, put together from the copy and the store.            *)
LEMMA VisitsIs ==
  ASSUME NEW g \in 1..ToSpace, NEW h, HeapType(h, g), NEW a \in Addr, Stays(h, g, a),
         NEW i, NEW v, NEW c, NEW w, NEW u, NEW k1, Forwarded(h, k1, g, w, u),
         NEW k, Stored(k1, k, a, i, v, c)
  PROVE  Visits(h, k, g, w, u, a, i, v)
<1>1. /\ \A b \in Addr : k[b].space = k1[b].space /\ k[b].label = k1[b].label /\ k[b].fwd = k1[b].fwd
      /\ \A b \in Addr : DOMAIN k[b].args = DOMAIN k1[b].args
      /\ \A b \in Addr : \A j \in DOMAIN k1[b].args :
           b # a \/ j # i => k[b].args[j] = k1[b].args[j]
      /\ \A b \in Addr : b # a => k[b] = k1[b]
      /\ \A b \in Addr : Alloc(k, b) <=> Alloc(k1, b)
      /\ \A b \in Addr : AlreadyMoved(k, b) <=> AlreadyMoved(k1, b)
      /\ \A b \in Addr : Stays(k, g, b) <=> Stays(k1, g, b)
  <2>1. ButOneField(k1, k, g, a, i)
    BY StoredKeeps
  <2> QED
    BY <2>1 DEF ButOneField
<1>2. ASSUME NEW b \in Addr
      PROVE  /\ Alloc(h, b) => Alloc(k1, b) /\ k1[b].args = h[b].args /\ k1[b].space = h[b].space
             /\ Stays(h, g, b) \/ AlreadyMoved(h, b) => k1[b] = h[b]
             /\ Stays(h, g, b) => Stays(k1, g, b)
             /\ Stays(k1, g, b) => Stays(h, g, b) \/ (b = u /\ ToForward(h, w, g))
             /\ AlreadyMoved(h, b) => AlreadyMoved(k1, b)
             /\ AlreadyMoved(k1, b) =>
                  AlreadyMoved(h, b) \/ (b = w /\ k1[b].fwd = u /\ ToForward(h, w, g))
  BY ForwardKeeps
<1>3. ASSUME ToForward(h, w, g)
      PROVE  /\ w \in Addr /\ u \in Addr /\ ~Alloc(h, u) /\ Live(h, w) /\ ~Stays(h, g, w)
             /\ Alone(h, w) /\ u[1] = w[1] /\ k[u].space = g /\ k[u].args = h[w].args
             /\ k[w].fwd = u
  <2>1. Cloned(h, k1, w, u, g) /\ Live(h, w) /\ ~Stays(h, g, w) /\ Alone(h, w)
    BY <1>3 DEF Forwarded
  <2>2. /\ w \in Addr /\ u \in Addr /\ ~Alloc(h, u) /\ u[1] = w[1]
        /\ k1[u].space = g /\ k1[u].args = h[w].args /\ k1[w].fwd = u
    BY <2>1 DEF Cloned
  <2>3. u # a
    BY <2>2 DEF Stays, Live
  <2> QED
    BY <1>1, <2>1, <2>2, <2>3
<1>4. u \in Addr => Stays(k, g, u)
  BY <1>1 DEF Forwarded
<1>5. k[a].args[i] = v
  BY DEF Stored
<1> QED
  BY <1>1, <1>2, <1>3, <1>4, <1>5 DEF Visits

(* A field is visited without the write barrier: it is in a copy, or in a    *)
(* block that is remembered.                                               *)
LEMMA VisitSound ==
  ASSUME NEW g \in 1..ToSpace, NEW h, NEW p, NEW p1, NEW p2, NEW r, Sound(h, g, p, r),
         NEW a, NEW i, CanVisit(h, g, p, a, i), NEW w, Found(h, g, a, w),
         NEW u, NEW k1, Forwarded(h, k1, g, w, u),
         NEW k, Stored(k1, k, a, i, u, h[a].childish),
         IF ToForward(h, w, g) THEN MorePending(h, w, u, p, p1) ELSE p1 = p,
         Visited(g, p1, p2, <<a, i>>), h[a].space = g \/ a \in r
  PROVE  Sound(k, g, p2, r)
<1>1. Sound(k1, g, p1, r)
  BY ForwardSound
<1>2. /\ a \in Addr /\ Stays(h, g, a) /\ i \in DOMAIN h[a].args /\ HeapType(h, g)
      /\ RememberedOK(h, g, r)
  BY DEF CanVisit, Sound, HeapOK
<1>3. k1[a] = h[a] /\ Stays(k1, g, a)
  BY <1>2, ForwardKeeps
<1>4. u \in Word /\ (u \in Addr <=> w \in Addr) /\ (u \in Addr => Stays(k1, g, u) /\ u[1] = w[1])
  BY DEF Forwarded
<1>5. LinkOK(k1, a, u)
  BY <1>4, FiniteAddr DEF Found, LinkOK, Word, Stays, Live
<1>6. Barrier(k1, a, u, h[a].childish, r, r)
  <2>1. h[a].childish \in BOOLEAN /\ (h[a].childish <=> a \in r)
    BY <1>2 DEF HeapType, Blocks, RememberedOK
  <2>2. ASSUME u \in Addr, k1[u].space < k1[a].space
        PROVE  a \in r
    <3>1. CASE h[a].space = g
      <4>1. k1[u].space \in 0..3 /\ k1[u].space >= g
        BY <1>1, <1>4, <2>2 DEF Sound, HeapOK, HeapType, Blocks, Stays, Live, Alloc, ToSpace
      <4> QED
        BY <1>3, <2>2, <3>1, <4>1 DEF ToSpace
    <3>2. CASE a \in r
      BY <3>2
    <3> QED
      BY <3>1, <3>2
  <2> QED
    BY <2>1, <2>2 DEF Barrier
<1> QED
  BY <1>1, <1>2, <1>3, <1>4, <1>5, <1>6, StoreSound

=============================================================================
