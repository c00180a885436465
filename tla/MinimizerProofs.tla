-------------------------- MODULE MinimizerProofs --------------------------
(* For every graph, and whatever other threads bind and assign until it is  *)
(* minimized, the counters of the minimizer are exact, and the arguments    *)
(* that nobody has assigned to keep their values, in one block of each      *)
(* class.                                                                   *)
EXTENDS Minimizer, SequenceLemmas

Node == 1..Len(nodes)
Number == Nat \ {0}
Link == [edge : Number, parent : Node]

-----------------------------------------------------------------------------
(* The loader: the frames on its stack are edges that no node has yet.      *)

Unloaded == phase \in {"load", "request", "minimize"}

(* Other threads can bind and assign words of the heap only.                *)
WordsFit(h) ==
  (\E b \in DOMAIN h : h[b].kind \in {"TRANSIENT", "MBLOCK"}) => \A w \in Words : IsWord(h, w)

LinkOf(f) == [edge |-> f.edge, parent |-> f.parent]
IsFrame(f) ==
  /\ IsWord(heap, f.data)
  /\ f.edge \in Nat /\ f.parent \in 0..Len(nodes)
  /\ f.parent # 0 => f.edge # 0

Distinct(s) ==
  \A i, j \in DOMAIN s : i # j /\ s[i].parent # 0 => LinkOf(s[i]) # LinkOf(s[j])

Collected ==
  /\ preds \in Seq(Seq(Link)) /\ Len(preds) = Len(nodes)
  /\ \A n \in DOMAIN preds : IsInjective(preds[n])
  /\ nodes \in Seq(Nat)

Frames ==
  Unloaded =>
    /\ IsHeap(heap)
    /\ WordsFit(heap)
    /\ stack \in Seq(Range(stack))
    /\ Distinct(stack)
    /\ \A f \in Range(stack) :
         IsFrame(f) /\ \A n \in DOMAIN preds : LinkOf(f) \notin Range(preds[n])

Fresh ==
  Unloaded =>
    array = [i \in Node |-> i] /\ cur = 0 /\ toDo = <<>>

-----------------------------------------------------------------------------
(* The partition.                                                           *)

Cells == Seq(Int \cup {Invalid})
PBlock == [first : Int, last : Int, split : Int, incoming : Cells, onAgenda : Int]

Negative(b) == {e \in Number : Counter(b, e) < 0}
Exact(b) == b.onAgenda = Cardinality(Negative(b))

Permutes(a) == a \in Seq(Node) /\ Len(a) = Len(nodes) /\ IsInjective(a) /\ Range(a) = Node

(* The classes are ranges of the array.                                     *)
Divides(a, cl, bs) ==
  /\ bs \in Seq(PBlock)
  /\ cl \in [Node -> DOMAIN bs]
  /\ \A c \in DOMAIN bs :
       /\ bs[c].first \in Node /\ bs[c].last \in Node /\ bs[c].first <= bs[c].last
       /\ bs[c].split >= bs[c].first - 1 /\ bs[c].split <= bs[c].last
  /\ \A i \in Node, c \in DOMAIN bs : cl[a[i]] = c <=> i \in bs[c].first..bs[c].last

(* The classes with marked nodes are those to split.                        *)
Marked(bs, s) ==
  /\ s \in Seq(DOMAIN bs) /\ IsInjective(s)
  /\ \A c \in DOMAIN bs : c \in Range(s) <=> bs[c].split < bs[c].last

Into(M, e) == {x \in M \X Node : [edge |-> e, parent |-> x[2]] \in Range(preds[x[1]])}
Counts(b, M) == \A e \in Number : Incoming(b, e) = Cardinality(Into(M, e))
ClassOf(cl, c) == {n \in Node : cl[n] = c}

Counted(cl, bs) ==
  \A c \in DOMAIN bs : Exact(bs[c]) /\ Counts(bs[c], ClassOf(cl, c))

Scheduled(bs, s, c) ==
  /\ s \in Seq(DOMAIN bs) /\ c \in 0..Len(bs)
  /\ \A d \in DOMAIN bs : bs[d].onAgenda > 0 => d \in Range(s) \cup {c}

Refined ==
  phase = "refine" =>
    /\ Permutes(array)
    /\ Divides(array, class, blocks)
    /\ Marked(blocks, toDo)
    /\ Counted(class, blocks)
    /\ Scheduled(blocks, agenda, cur)

IInv == Collected /\ Frames /\ Fresh /\ Refined
-----------------------------------------------------------------------------
(* The counters of a class.                                                 *)

(* A cell that is written has its value, and no other one changes, also     *)
(* when the array grows.                                                    *)
LEMMA UpdateIs ==
  ASSUME NEW a \in Cells, NEW i \in Number, NEW x \in Int
  PROVE  /\ Update(a, i, x) \in Cells
         /\ \A j \in Number : Sub(Update(a, i, x), j) = IF j = i THEN x ELSE Sub(a, j)
<1> DEFINE Cell == Int \cup {Invalid}
           big == IF i > Len(a) THEN EnlargeArray(a, i) ELSE a
<1>1. a \in Seq(Cell) /\ Len(a) \in Nat /\ i \in Nat /\ i >= 1
  BY DEF Cells, Number
<1>2. /\ big \in Seq(Cell) /\ Len(big) \in Nat /\ Len(big) >= Len(a) /\ i <= Len(big)
      /\ \A j \in 1..Len(a) : big[j] = a[j]
      /\ \A j \in 1..Len(big) : j > Len(a) => big[j] = Invalid
  <2>1. CASE i > Len(a)
    <3> DEFINE length == NamedCells + Len(a)
               upTo == NamedCells + i - 1
               newLength == IF 2 * length <= upTo THEN upTo + 1 ELSE 2 * length
               more == [k \in 1..(newLength - length) |-> Invalid]
    <3>1. newLength - length \in Nat /\ Len(a) + (newLength - length) >= i
      BY <1>1, <2>1 DEF NamedCells
    <3>2. PICK m \in Nat : m = newLength - length
      BY <3>1
    <3>3. more = [k \in 1..m |-> Invalid]
      BY <3>2
    <3>4. more \in Seq(Cell) /\ Len(more) = m /\ \A k \in 1..m : more[k] = Invalid
      <4> HIDE DEF more
      <4> QED
        BY <3>3
    <3>5. big = a \o more
      BY <2>1 DEF EnlargeArray
    <3> HIDE DEF more, newLength, big, Cell
    <3>6. /\ a \o more \in Seq(Cell) /\ Len(a \o more) = Len(a) + m
          /\ \A j \in 1..(Len(a) + m) : (a \o more)[j] = IF j <= Len(a) THEN a[j] ELSE more[j - Len(a)]
      BY <1>1, <3>4
    <3>7. \A j \in 1..(Len(a) + m) : j > Len(a) => j - Len(a) \in 1..m
      BY <1>1
    <3>8. \A j \in 1..Len(a) : j \in 1..(Len(a) + m) /\ j <= Len(a)
      BY <1>1
    <3>9. \A j \in 1..(Len(a) + m) : j > Len(a) => ~(j <= Len(a))
      BY <1>1
    <3> QED
      BY <1>1, <3>1, <3>2, <3>4, <3>5, <3>6, <3>7, <3>8, <3>9
  <2>2. CASE ~(i > Len(a))
    <3> HIDE DEF Cell
    <3> QED
      BY <1>1, <2>2
  <2> QED
    BY <2>1, <2>2
<1>3. Update(a, i, x) = [big EXCEPT ![i] = x]
  BY DEF Update
<1>4. x \in Cell
  OBVIOUS
<1> HIDE DEF big, Cell
<1> DEFINE u == [big EXCEPT ![i] = x]
<1>5. /\ u \in Seq(Cell) /\ Len(u) = Len(big)
      /\ \A j \in 1..Len(big) : u[j] = IF j = i THEN x ELSE big[j]
  <2>1. i \in 1..Len(big) /\ DOMAIN big = 1..Len(big)
    BY <1>1, <1>2
  <2> QED
    BY <1>1, <1>2, <1>4, <2>1
<1> HIDE DEF u
<1>6. ASSUME NEW j \in Number
      PROVE  Sub(u, j) = IF j = i THEN x ELSE Sub(a, j)
  <2>1. j \in Nat /\ j >= 1
    BY DEF Number
  <2>2. CASE j > Len(big)
    BY <1>1, <1>2, <1>5, <2>1, <2>2 DEF Sub
  <2>3. CASE j <= Len(big) /\ j > Len(a)
    BY <1>1, <1>2, <1>5, <2>1, <2>3 DEF Sub
  <2>4. CASE j <= Len(a)
    BY <1>1, <1>2, <1>5, <2>1, <2>4 DEF Sub
  <2> QED
    BY <1>1, <1>2, <2>1, <2>2, <2>3, <2>4
<1> QED
  BY <1>3, <1>5, <1>6 DEF u, Cells, Cell

(* Two classes that differ in their counters only.                          *)
SameRange(b, d) == d.first = b.first /\ d.last = b.last /\ d.split = b.split

(* A counter is an integer; one that was never written, or is behind the    *)
(* end, is 0.                                                               *)
LEMMA CounterType ==
  ASSUME NEW b \in PBlock, NEW e \in Number
  PROVE  /\ Counter(b, e) \in Int
         /\ Incoming(b, e) \in Nat
         /\ Sub(b.incoming, e) = Invalid => Counter(b, e) = 0
         /\ Sub(b.incoming, e) # Invalid => Counter(b, e) = Sub(b.incoming, e)
         /\ Counter(b, e) # 0 => e \in 1..Len(b.incoming)
<1>1. b.incoming \in Cells /\ Len(b.incoming) \in Nat /\ e \in Nat /\ e >= 1
  BY DEF PBlock, Number, Cells
<1>2. Sub(b.incoming, e) \in Int \cup {Invalid}
  BY <1>1 DEF Sub, Cells
<1>3. Counter(b, e) \in Int
  BY <1>2 DEF Counter
<1>4. Incoming(b, e) \in Nat
  <2>1. PICK x \in Int : x = Counter(b, e)
    BY <1>3
  <2> QED
    BY <2>1 DEF Incoming
<1>5. e > Len(b.incoming) => Counter(b, e) = 0
  BY DEF Counter, Sub
<1> QED
  BY <1>1, <1>3, <1>4, <1>5 DEF Counter

(* Setting a counter changes no other one, and nothing else of the class.   *)
LEMMA SetCounterIs ==
  ASSUME NEW b \in PBlock, NEW e \in Number, NEW x \in Int, NEW d, d = SetCounter(b, e, x)
  PROVE  /\ d \in PBlock /\ SameRange(b, d) /\ d.onAgenda = b.onAgenda
         /\ \A j \in Number : Counter(d, j) = IF j = e THEN x ELSE Counter(b, j)
<1> DEFINE u == Update(b.incoming, e, x)
<1>1. b.incoming \in Cells
  BY DEF PBlock
<1>2. u \in Cells /\ \A j \in Number : Sub(u, j) = IF j = e THEN x ELSE Sub(b.incoming, j)
  BY <1>1, UpdateIs
<1>3. d = [b EXCEPT !.incoming = u]
  BY DEF SetCounter
<1> HIDE DEF u
<1>4. /\ d \in PBlock /\ SameRange(b, d) /\ d.onAgenda = b.onAgenda
      /\ d.incoming = u
  BY <1>2, <1>3 DEF PBlock, SameRange
<1>6. ASSUME NEW j \in Number
      PROVE  Counter(d, j) = IF j = e THEN x ELSE Counter(b, j)
  <2>1. Sub(d.incoming, j) = IF j = e THEN x ELSE Sub(b.incoming, j)
    BY <1>2, <1>4
  <2>2. x # Invalid
    BY InvalidAssumption
  <2> QED
    BY <2>1, <2>2 DEF Counter
<1> QED
  BY <1>4, <1>6

(* Another onAgenda is another class with the same counters.               *)
LEMMA OnAgendaIs ==
  ASSUME NEW b \in PBlock, NEW k \in Int
  PROVE  /\ [b EXCEPT !.onAgenda = k] \in PBlock
         /\ SameRange(b, [b EXCEPT !.onAgenda = k])
         /\ [b EXCEPT !.onAgenda = k].onAgenda = k
         /\ \A j : Counter([b EXCEPT !.onAgenda = k], j) = Counter(b, j)
<1>1. /\ [b EXCEPT !.onAgenda = k] \in PBlock
      /\ SameRange(b, [b EXCEPT !.onAgenda = k])
      /\ [b EXCEPT !.onAgenda = k].onAgenda = k
      /\ [b EXCEPT !.onAgenda = k].incoming = b.incoming
  BY DEF PBlock, SameRange
<1> QED
  BY <1>1 DEF Counter

(* A class is on the agenda with finitely many edges.                       *)
LEMMA NegativeFinite ==
  ASSUME NEW b \in PBlock
  PROVE  IsFiniteSet(Negative(b)) /\ Cardinality(Negative(b)) \in Nat
<1>1. Len(b.incoming) \in Nat
  BY DEF PBlock, Cells
<1>2. \A e \in Negative(b) : e \in 1..Len(b.incoming)
  <2>1. ASSUME NEW e \in Negative(b)
        PROVE  e \in 1..Len(b.incoming)
    <3>1. e \in Number /\ Counter(b, e) # 0
      BY DEF Negative
    <3> QED
      BY <3>1, CounterType
  <2> QED
    BY <2>1
<1>3. Negative(b) \in SUBSET (1..Len(b.incoming)) /\ IsFiniteSet(1..Len(b.incoming))
  BY <1>1, <1>2, FS_Interval
<1> QED
  BY <1>3, FS_Subset, FS_CardinalityType

(* Putting an edge on the agenda, or taking it off, changes the sign of its *)
(* counter, and how many edges are there.                                   *)
LEMMA PutIs ==
  ASSUME NEW b \in PBlock, NEW e \in Number, NEW d, d = PutOnAgenda(b, e)
  PROVE  /\ d \in PBlock /\ SameRange(b, d)
         /\ \A j \in Number : Incoming(d, j) = Incoming(b, j)
         /\ Exact(b) => Exact(d)
<1>1. CASE Counter(b, e) <= 0
  BY <1>1 DEF PutOnAgenda, SameRange
<1>2. CASE ~(Counter(b, e) <= 0)
  <2>1. PICK x \in Int : x = Counter(b, e) /\ x > 0
    BY <1>2, CounterType
  <2>2. PICK c : c = SetCounter(b, e, -x)
    OBVIOUS
  <2>3. /\ c \in PBlock /\ SameRange(b, c) /\ c.onAgenda = b.onAgenda
        /\ \A j \in Number : Counter(c, j) = IF j = e THEN -x ELSE Counter(b, j)
    <3>1. -x \in Int
      BY <2>1
    <3> QED
      BY <2>2, <3>1, SetCounterIs
  <2>4. d = [c EXCEPT !.onAgenda = c.onAgenda + 1] /\ c.onAgenda + 1 \in Int
    BY <1>2, <2>1, <2>2, <2>3 DEF PutOnAgenda, PBlock
  <2>5. /\ d \in PBlock /\ SameRange(c, d) /\ d.onAgenda = b.onAgenda + 1
        /\ \A j : Counter(d, j) = Counter(c, j)
    BY <2>3, <2>4, OnAgendaIs
  <2>6. \A j \in Number : Incoming(d, j) = Incoming(b, j)
    <3>1. ASSUME NEW j \in Number
          PROVE  Incoming(d, j) = Incoming(b, j)
      <4>1. Counter(d, j) = IF j = e THEN -x ELSE Counter(b, j)
        BY <2>3, <2>5
      <4>2. CASE j = e
        BY <2>1, <4>1, <4>2 DEF Incoming
      <4>3. CASE j # e
        BY <4>1, <4>3 DEF Incoming
      <4> QED
        BY <4>2, <4>3
    <3> QED
      BY <3>1
  <2>7. Negative(d) = Negative(b) \cup {e} /\ e \notin Negative(b)
    <3>1. ASSUME NEW j \in Number
          PROVE  Counter(d, j) < 0 <=> (Counter(b, j) < 0 \/ j = e)
      <4>1. Counter(d, j) = IF j = e THEN -x ELSE Counter(b, j)
        BY <2>3, <2>5
      <4> QED
        BY <2>1, <4>1
    <3> QED
      BY <2>1, <3>1 DEF Negative
  <2>8. Cardinality(Negative(d)) = Cardinality(Negative(b)) + 1
    BY <2>7, NegativeFinite, FS_AddElement
  <2> QED
    BY <2>3, <2>5, <2>6, <2>8 DEF Exact, SameRange
<1> QED
  BY <1>1, <1>2

(* Taking an edge off the agenda gives its counter the number of edges      *)
(* again.                                                                   *)
LEMMA RemoveIs ==
  ASSUME NEW b \in PBlock, NEW e \in Number, NEW d, d = RemoveFromAgenda(b, e)
  PROVE  /\ d \in PBlock /\ SameRange(b, d)
         /\ \A j \in Number : Incoming(d, j) = Incoming(b, j)
         /\ \A j \in Number : j # e => Counter(d, j) = Counter(b, j)
         /\ Counter(d, e) = Incoming(b, e)
         /\ Exact(b) => Exact(d)
         /\ d.onAgenda <= b.onAgenda
<1>0. b.onAgenda \in Int /\ Counter(b, e) \in Int
  BY CounterType DEF PBlock
<1>1. CASE ~IsOnAgenda(b, e)
  <2>1. d = b
    BY <1>1 DEF RemoveFromAgenda
  <2>2. Counter(b, e) = Incoming(b, e)
    BY <1>1 DEF IsOnAgenda, Incoming
  <2> QED
    BY <1>0, <2>1, <2>2 DEF SameRange
<1>2. CASE IsOnAgenda(b, e)
  <2>1. PICK x \in Int : x = Counter(b, e) /\ x < 0
    BY <1>0, <1>2 DEF IsOnAgenda
  <2>2. PICK c : c = SetCounter(b, e, -x)
    OBVIOUS
  <2>3. /\ c \in PBlock /\ SameRange(b, c) /\ c.onAgenda = b.onAgenda
        /\ \A j \in Number : Counter(c, j) = IF j = e THEN -x ELSE Counter(b, j)
    <3>1. -x \in Int
      BY <2>1
    <3> QED
      BY <2>2, <3>1, SetCounterIs
  <2>4. d = [c EXCEPT !.onAgenda = c.onAgenda - 1] /\ c.onAgenda - 1 \in Int
    BY <1>2, <2>1, <2>2, <2>3 DEF RemoveFromAgenda, PBlock
  <2>5. /\ d \in PBlock /\ SameRange(c, d) /\ d.onAgenda = b.onAgenda - 1
        /\ \A j : Counter(d, j) = Counter(c, j)
    BY <2>3, <2>4, OnAgendaIs
  <2>6. \A j \in Number : Incoming(d, j) = Incoming(b, j)
    <3>1. ASSUME NEW j \in Number
          PROVE  Incoming(d, j) = Incoming(b, j)
      <4>1. Counter(d, j) = IF j = e THEN -x ELSE Counter(b, j)
        BY <2>3, <2>5
      <4>2. CASE j = e
        BY <2>1, <4>1, <4>2 DEF Incoming
      <4>3. CASE j # e
        BY <4>1, <4>3 DEF Incoming
      <4> QED
        BY <4>2, <4>3
    <3> QED
      BY <3>1
  <2>7. Negative(d) = Negative(b) \ {e} /\ e \in Negative(b)
    <3>1. ASSUME NEW j \in Number
          PROVE  Counter(d, j) < 0 <=> (Counter(b, j) < 0 /\ j # e)
      <4>1. Counter(d, j) = IF j = e THEN -x ELSE Counter(b, j)
        BY <2>3, <2>5
      <4> QED
        BY <2>1, <4>1
    <3> QED
      BY <2>1, <3>1 DEF Negative
  <2>8. Cardinality(Negative(d)) = Cardinality(Negative(b)) - 1
    BY <2>7, NegativeFinite, FS_RemoveElement
  <2>9. /\ \A j \in Number : j # e => Counter(d, j) = Counter(b, j)
        /\ Counter(d, e) = Incoming(b, e)
    BY <2>1, <2>3, <2>5 DEF Incoming
  <2> QED
    BY <1>0, <2>3, <2>5, <2>6, <2>8, <2>9 DEF Exact, SameRange
<1> QED
  BY <1>1, <1>2

(* An edge more is counted, whether the class is on the agenda or not.      *)
LEMMA IncrementIs ==
  ASSUME NEW b \in PBlock, NEW e \in Number, NEW d, d = Increment(b, e)
  PROVE  /\ d \in PBlock /\ SameRange(b, d) /\ d.onAgenda = b.onAgenda
         /\ \A j \in Number : Incoming(d, j) = Incoming(b, j) + (IF j = e THEN 1 ELSE 0)
         /\ Negative(d) = Negative(b)
<1>1. PICK x \in Int : x = Counter(b, e)
  BY CounterType
<1>2. PICK y \in Int : y = IF x < 0 THEN x - 1 ELSE x + 1
  OBVIOUS
<1>3. d = SetCounter(b, e, y)
  BY <1>1, <1>2 DEF Increment
<1>4. /\ d \in PBlock /\ SameRange(b, d) /\ d.onAgenda = b.onAgenda
      /\ \A j \in Number : Counter(d, j) = IF j = e THEN y ELSE Counter(b, j)
  BY <1>3, SetCounterIs
<1>5. ASSUME NEW j \in Number
      PROVE  /\ Incoming(d, j) = Incoming(b, j) + (IF j = e THEN 1 ELSE 0)
             /\ Counter(d, j) < 0 <=> Counter(b, j) < 0
  <2>1. CASE j = e
    BY <1>1, <1>2, <1>4, <2>1 DEF Incoming
  <2>2. CASE j # e
    <3>1. Counter(d, j) = Counter(b, j) /\ Incoming(b, j) \in Nat
      BY <1>4, <2>2, CounterType
    <3> QED
      BY <2>2, <3>1 DEF Incoming
  <2> QED
    BY <2>1, <2>2
<1>6. Negative(d) = Negative(b)
  BY <1>5 DEF Negative
<1> QED
  BY <1>4, <1>5, <1>6

(* A counter that comes nearer to 0 and does not reach it from below.       *)
Nearer(x, y) == x # 0 /\ x # -1 /\ y = IF x < 0 THEN x + 1 ELSE x - 1

(* Such a counter has one edge less, and is on the agenda as before.        *)
LEMMA NearerIs ==
  ASSUME NEW b \in PBlock, NEW e \in Number, NEW x \in Int, x = Counter(b, e),
         NEW y \in Int, Nearer(x, y), NEW d, d = SetCounter(b, e, y)
  PROVE  /\ d \in PBlock /\ SameRange(b, d) /\ d.onAgenda = b.onAgenda
         /\ \A j \in Number : Incoming(d, j) = Incoming(b, j) - (IF j = e THEN 1 ELSE 0)
         /\ Negative(d) = Negative(b)
<1>1. /\ d \in PBlock /\ SameRange(b, d) /\ d.onAgenda = b.onAgenda
      /\ \A j \in Number : Counter(d, j) = IF j = e THEN y ELSE Counter(b, j)
  BY SetCounterIs
<1>2. ASSUME NEW j \in Number
      PROVE  /\ Incoming(d, j) = Incoming(b, j) - (IF j = e THEN 1 ELSE 0)
             /\ Counter(d, j) < 0 <=> Counter(b, j) < 0
  <2>1. CASE j = e
    BY <1>1, <2>1 DEF Incoming, Nearer
  <2>2. CASE j # e
    <3>1. Counter(d, j) = Counter(b, j) /\ Incoming(b, j) \in Nat
      BY <1>1, <2>2, CounterType
    <3> QED
      BY <2>2, <3>1 DEF Incoming
  <2> QED
    BY <2>1, <2>2
<1>3. Negative(d) = Negative(b)
  BY <1>2 DEF Negative
<1> QED
  BY <1>1, <1>2, <1>3

(* An edge less: the last one that was on the agenda is taken off it.       *)
LEMMA DecrementIs ==
  ASSUME NEW b \in PBlock, NEW e \in Number, Incoming(b, e) # 0, Exact(b),
         NEW d, d = Decrement(b, e)
  PROVE  /\ d \in PBlock /\ SameRange(b, d) /\ Exact(d) /\ d.onAgenda <= b.onAgenda
         /\ \A j \in Number : Incoming(d, j) = Incoming(b, j) - (IF j = e THEN 1 ELSE 0)
<1>1. PICK x \in Int : x = Counter(b, e) /\ x # 0
  BY CounterType DEF Incoming
<1>2. Sub(b.incoming, e) # Invalid
  BY <1>1, CounterType
<1>3. PICK c : c = IF x = -1 THEN RemoveFromAgenda(b, e) ELSE b
  OBVIOUS
<1>4. /\ c \in PBlock /\ SameRange(b, c) /\ Exact(c) /\ c.onAgenda <= b.onAgenda
      /\ \A j \in Number : Incoming(c, j) = Incoming(b, j)
      /\ Counter(c, e) = IF x = -1 THEN 1 ELSE x
  <2>1. CASE x = -1
    <3>1. Incoming(b, e) = 1
      <4>1. Counter(b, e) = x /\ x < 0 /\ 0 - x = 1
        BY <1>1, <2>1
      <4>2. Incoming(b, e) = -x
        BY <4>1 DEF Incoming
      <4> QED
        BY <4>1, <4>2
    <3>2. c = RemoveFromAgenda(b, e)
      BY <1>3, <2>1
    <3>3. /\ c \in PBlock /\ SameRange(b, c) /\ Exact(c) /\ c.onAgenda <= b.onAgenda
          /\ \A j \in Number : Incoming(c, j) = Incoming(b, j)
          /\ Counter(c, e) = Incoming(b, e)
      BY <3>2, RemoveIs
    <3> QED
      BY <2>1, <3>1, <3>3
  <2>2. CASE x # -1
    <3>1. b.onAgenda \in Int
      BY DEF PBlock
    <3> QED
      BY <1>1, <1>3, <2>2, <3>1 DEF SameRange
  <2> QED
    BY <2>1, <2>2
<1>5. PICK z \in Int : z = Counter(c, e)
  BY <1>1, <1>4
<1>6. PICK y \in Int : Nearer(z, y)
  BY <1>1, <1>4, <1>5 DEF Nearer
<1>7. d = SetCounter(c, e, y)
  BY <1>1, <1>2, <1>3, <1>5, <1>6 DEF Decrement, Nearer
<1>8. /\ d \in PBlock /\ SameRange(c, d) /\ d.onAgenda = c.onAgenda
      /\ \A j \in Number : Incoming(d, j) = Incoming(c, j) - (IF j = e THEN 1 ELSE 0)
      /\ Negative(d) = Negative(c)
  <2>1. c \in PBlock
    BY <1>4
  <2> QED
    BY <1>5, <1>6, <1>7, <2>1, NearerIs
<1>9. Exact(d)
  BY <1>4, <1>8 DEF Exact
<1> QED
  BY <1>4, <1>8, <1>9 DEF SameRange

-----------------------------------------------------------------------------
(* The loops over the edges of a class.                                     *)

(* A class is a class still when an edge has gone, whatever its counters    *)
(* say.                                                                     *)
LEMMA DecrementType ==
  ASSUME NEW b \in PBlock, NEW e \in Number
  PROVE  Decrement(b, e) \in PBlock
<1>1. PICK c : c = IF Counter(b, e) = -1 THEN RemoveFromAgenda(b, e) ELSE b
  OBVIOUS
<1>2. c \in PBlock
  <2>1. CASE Counter(b, e) = -1
    BY <1>1, <2>1, RemoveIs
  <2>2. CASE Counter(b, e) # -1
    BY <1>1, <2>2
  <2> QED
    BY <2>1, <2>2
<1>3. PICK x \in Int : x = Counter(c, e)
  BY <1>2, CounterType
<1>4. PICK y \in Int : y = IF x < 0 THEN x + 1 ELSE x - 1
  OBVIOUS
<1>5. PICK d : d = SetCounter(c, e, y)
  OBVIOUS
<1>6. d \in PBlock
  BY <1>2, <1>5, SetCounterIs
<1>7. Decrement(b, e) = b \/ Decrement(b, e) = d
  BY <1>1, <1>3, <1>4, <1>5 DEF Decrement
<1> QED
  BY <1>6, <1>7

(* Increment for each edge.                                                *)
LEMMA LoopIncrement ==
  ASSUME NEW b \in PBlock, NEW s \in Seq(Number)
  PROVE  \E run : /\ run \in [0..Len(s) -> PBlock] /\ run[0] = b
                  /\ \A i \in 1..Len(s) : run[i] = Increment(run[i - 1], s[i])
                  /\ Loop(Increment, b, s) = run[Len(s)]
<1> DEFINE n == Len(s)
           step == [i \in 1..n |-> [q \in PBlock |-> Increment(q, s[i])]]
           Def(f) == f = [i \in 0..n |-> IF i = 0 THEN b ELSE Increment(f[i - 1], s[i])]
           run == CHOOSE f : Def(f)
<1>1. n \in Nat /\ \A i \in 1..n : s[i] \in Number
  OBVIOUS
<1>2. \A i \in 1..n : \A q \in PBlock : Increment(q, s[i]) \in PBlock
  BY <1>1, IncrementIs
<1>3. CanRecur(n, PBlock, b, step)
  <2>1. step \in [1..n -> [PBlock -> PBlock]]
    <3> HIDE DEF n
    <3> QED
      BY <1>2
  <2> QED
    BY <1>1, <2>1 DEF CanRecur
<1>4. PICK f : Recurs(f, n, PBlock, b, step)
  BY <1>3, Recursion
<1>5. Def(f)
  <2>1. f = [i \in 0..n |-> f[i]] /\ f[0] = b
    BY <1>4 DEF Recurs
  <2>2. ASSUME NEW i \in 1..n
        PROVE  f[i] = Increment(f[i - 1], s[i])
    <3>1. i - 1 \in 0..n
      BY <1>1
    <3>2. f[i - 1] \in PBlock /\ f[i] = step[i][f[i - 1]]
      BY <1>4, <3>1 DEF Recurs
    <3> QED
      BY <3>2
  <2>3. \A i \in 0..n : i = 0 \/ i \in 1..n
    BY <1>1
  <2> HIDE DEF n
  <2> QED
    BY <2>1, <2>2, <2>3
<1>6. Def(run)
  <2> HIDE DEF Def
  <2> QED
    BY <1>5
<1>7. /\ run = [i \in 0..n |-> run[i]] /\ run[0] = b
      /\ \A i \in 1..n : run[i] = Increment(run[i - 1], s[i])
  <2>1. 0 \in 0..n /\ \A i \in 1..n : i \in 0..n /\ i # 0
    BY <1>1
  <2> HIDE DEF run, n
  <2> QED
    BY <1>6, <2>1
<1>8. Recurs(run, n, PBlock, b, step)
  <2>1. ASSUME NEW i \in 1..n, run[i - 1] \in PBlock
        PROVE  run[i] = step[i][run[i - 1]]
    <3> HIDE DEF run, n
    <3> QED
      BY <1>7, <2>1
  <2> HIDE DEF run, n, step
  <2> QED
    BY <1>3, <1>7, <2>1, RecursIn
<1>9. Loop(Increment, b, s) = run[n]
  BY DEF Loop
<1> HIDE DEF run
<1> QED
  BY <1>7, <1>8, <1>9 DEF Recurs

(* Decrement for each edge.                                                *)
LEMMA LoopDecrement ==
  ASSUME NEW b \in PBlock, NEW s \in Seq(Number)
  PROVE  \E run : /\ run \in [0..Len(s) -> PBlock] /\ run[0] = b
                  /\ \A i \in 1..Len(s) : run[i] = Decrement(run[i - 1], s[i])
                  /\ Loop(Decrement, b, s) = run[Len(s)]
<1> DEFINE n == Len(s)
           step == [i \in 1..n |-> [q \in PBlock |-> Decrement(q, s[i])]]
           Def(f) == f = [i \in 0..n |-> IF i = 0 THEN b ELSE Decrement(f[i - 1], s[i])]
           run == CHOOSE f : Def(f)
<1>1. n \in Nat /\ \A i \in 1..n : s[i] \in Number
  OBVIOUS
<1>2. \A i \in 1..n : \A q \in PBlock : Decrement(q, s[i]) \in PBlock
  BY <1>1, DecrementType
<1>3. CanRecur(n, PBlock, b, step)
  <2>1. step \in [1..n -> [PBlock -> PBlock]]
    <3> HIDE DEF n
    <3> QED
      BY <1>2
  <2> QED
    BY <1>1, <2>1 DEF CanRecur
<1>4. PICK f : Recurs(f, n, PBlock, b, step)
  BY <1>3, Recursion
<1>5. Def(f)
  <2>1. f = [i \in 0..n |-> f[i]] /\ f[0] = b
    BY <1>4 DEF Recurs
  <2>2. ASSUME NEW i \in 1..n
        PROVE  f[i] = Decrement(f[i - 1], s[i])
    <3>1. i - 1 \in 0..n
      BY <1>1
    <3>2. f[i - 1] \in PBlock /\ f[i] = step[i][f[i - 1]]
      BY <1>4, <3>1 DEF Recurs
    <3> QED
      BY <3>2
  <2>3. \A i \in 0..n : i = 0 \/ i \in 1..n
    BY <1>1
  <2> HIDE DEF n
  <2> QED
    BY <2>1, <2>2, <2>3
<1>6. Def(run)
  <2> HIDE DEF Def
  <2> QED
    BY <1>5
<1>7. /\ run = [i \in 0..n |-> run[i]] /\ run[0] = b
      /\ \A i \in 1..n : run[i] = Decrement(run[i - 1], s[i])
  <2>1. 0 \in 0..n /\ \A i \in 1..n : i \in 0..n /\ i # 0
    BY <1>1
  <2> HIDE DEF run, n
  <2> QED
    BY <1>6, <2>1
<1>8. Recurs(run, n, PBlock, b, step)
  <2>1. ASSUME NEW i \in 1..n, run[i - 1] \in PBlock
        PROVE  run[i] = step[i][run[i - 1]]
    <3> HIDE DEF run, n
    <3> QED
      BY <1>7, <2>1
  <2> HIDE DEF run, n, step
  <2> QED
    BY <1>3, <1>7, <2>1, RecursIn
<1>9. Loop(Decrement, b, s) = run[n]
  BY DEF Loop
<1> HIDE DEF run
<1> QED
  BY <1>7, <1>8, <1>9 DEF Recurs

(* PutOnAgenda for each edge.                                              *)
LEMMA LoopPut ==
  ASSUME NEW b \in PBlock, NEW s \in Seq(Number)
  PROVE  \E run : /\ run \in [0..Len(s) -> PBlock] /\ run[0] = b
                  /\ \A i \in 1..Len(s) : run[i] = PutOnAgenda(run[i - 1], s[i])
                  /\ Loop(PutOnAgenda, b, s) = run[Len(s)]
<1> DEFINE n == Len(s)
           step == [i \in 1..n |-> [q \in PBlock |-> PutOnAgenda(q, s[i])]]
           Def(f) == f = [i \in 0..n |-> IF i = 0 THEN b ELSE PutOnAgenda(f[i - 1], s[i])]
           run == CHOOSE f : Def(f)
<1>1. n \in Nat /\ \A i \in 1..n : s[i] \in Number
  OBVIOUS
<1>2. \A i \in 1..n : \A q \in PBlock : PutOnAgenda(q, s[i]) \in PBlock
  BY <1>1, PutIs
<1>3. CanRecur(n, PBlock, b, step)
  <2>1. step \in [1..n -> [PBlock -> PBlock]]
    <3> HIDE DEF n
    <3> QED
      BY <1>2
  <2> QED
    BY <1>1, <2>1 DEF CanRecur
<1>4. PICK f : Recurs(f, n, PBlock, b, step)
  BY <1>3, Recursion
<1>5. Def(f)
  <2>1. f = [i \in 0..n |-> f[i]] /\ f[0] = b
    BY <1>4 DEF Recurs
  <2>2. ASSUME NEW i \in 1..n
        PROVE  f[i] = PutOnAgenda(f[i - 1], s[i])
    <3>1. i - 1 \in 0..n
      BY <1>1
    <3>2. f[i - 1] \in PBlock /\ f[i] = step[i][f[i - 1]]
      BY <1>4, <3>1 DEF Recurs
    <3> QED
      BY <3>2
  <2>3. \A i \in 0..n : i = 0 \/ i \in 1..n
    BY <1>1
  <2> HIDE DEF n
  <2> QED
    BY <2>1, <2>2, <2>3
<1>6. Def(run)
  <2> HIDE DEF Def
  <2> QED
    BY <1>5
<1>7. /\ run = [i \in 0..n |-> run[i]] /\ run[0] = b
      /\ \A i \in 1..n : run[i] = PutOnAgenda(run[i - 1], s[i])
  <2>1. 0 \in 0..n /\ \A i \in 1..n : i \in 0..n /\ i # 0
    BY <1>1
  <2> HIDE DEF run, n
  <2> QED
    BY <1>6, <2>1
<1>8. Recurs(run, n, PBlock, b, step)
  <2>1. ASSUME NEW i \in 1..n, run[i - 1] \in PBlock
        PROVE  run[i] = step[i][run[i - 1]]
    <3> HIDE DEF run, n
    <3> QED
      BY <1>7, <2>1
  <2> HIDE DEF run, n, step
  <2> QED
    BY <1>3, <1>7, <2>1, RecursIn
<1>9. Loop(PutOnAgenda, b, s) = run[n]
  BY DEF Loop
<1> HIDE DEF run
<1> QED
  BY <1>7, <1>8, <1>9 DEF Recurs

-----------------------------------------------------------------------------
(* The edges into a set of nodes.                                           *)

(* Finitely many edges lead into a set of nodes.                            *)
LEMMA IntoFinite ==
  ASSUME Len(nodes) \in Nat, NEW M \in SUBSET Node, NEW e
  PROVE  IsFiniteSet(Into(M, e)) /\ Cardinality(Into(M, e)) \in Nat
<1>1. IsFiniteSet(Node)
  BY FS_Interval DEF Node
<1>2. IsFiniteSet(M)
  BY <1>1, FS_Subset
<1>3. IsFiniteSet(M \X Node)
  BY <1>1, <1>2, FS_Product
<1>4. Into(M, e) \in SUBSET (M \X Node)
  BY DEF Into
<1> QED
  BY <1>3, <1>4, FS_Subset, FS_CardinalityType

(* Two sets of nodes have together as many edges as each has alone.         *)
LEMMA IntoBoth ==
  ASSUME Len(nodes) \in Nat, NEW L \in SUBSET Node, NEW M \in SUBSET Node, L \cap M = {}, NEW e
  PROVE  Cardinality(Into(L \cup M, e)) = Cardinality(Into(L, e)) + Cardinality(Into(M, e))
<1>1. Into(L \cup M, e) = Into(L, e) \cup Into(M, e)
  BY DEF Into
<1>2. Into(L, e) \cap Into(M, e) = {}
  <2>1. ASSUME NEW x, x \in Into(L, e), x \in Into(M, e)
        PROVE  FALSE
    <3>1. x[1] \in L /\ x[1] \in M
      BY <2>1 DEF Into
    <3> QED
      BY <3>1
  <2> QED
    BY <2>1
<1>3. /\ IsFiniteSet(Into(L, e)) /\ Cardinality(Into(L, e)) \in Nat
      /\ IsFiniteSet(Into(M, e)) /\ Cardinality(Into(M, e)) \in Nat
  BY IntoFinite
<1>4. Cardinality({}) = 0
  BY FS_EmptySet
<1>5. Cardinality(Into(L, e) \cup Into(M, e))
        = Cardinality(Into(L, e)) + Cardinality(Into(M, e)) - Cardinality(Into(L, e) \cap Into(M, e))
  BY <1>3, FS_Union
<1>6. Cardinality(Into(L, e) \cap Into(M, e)) = 0
  BY <1>2, <1>4
<1>7. PICK l \in Nat, m \in Nat : l = Cardinality(Into(L, e)) /\ m = Cardinality(Into(M, e))
  BY <1>3
<1>8. Cardinality(Into(L, e) \cup Into(M, e)) = l + m
  BY <1>5, <1>6, <1>7
<1> QED
  BY <1>1, <1>7, <1>8

(* Each edge into the nodes at first to last is met once.                   *)
LEMMA EdgesIntoIs ==
  ASSUME Collected, NEW a, Permutes(a),
         NEW first \in Node, NEW last \in Node, first <= last
  PROVE  /\ EdgesInto(a, first, last) \in Seq(Number)
         /\ \A e \in Number :
              TimesUpTo(EdgesInto(a, first, last), Len(EdgesInto(a, first, last)), e)
                = Cardinality(Into({a[i] : i \in first..last}, e))
<1> DEFINE m == last - first + 1
           at(k) == a[first + k - 1]
           ss == [k \in 1..m |-> [i \in DOMAIN preds[at(k)] |-> preds[at(k)][i].edge]]
           t == EdgesInto(a, first, last)
           M == {a[i] : i \in first..last}
<1>1. /\ Len(nodes) \in Nat /\ first \in Nat /\ last \in Nat /\ m \in Nat
      /\ first >= 1 /\ last <= Len(nodes)
  <2>1. Len(nodes) \in Nat
    BY DEF Collected
  <2> QED
    BY <2>1 DEF Node
<1>2. /\ preds \in Seq(Seq(Link)) /\ DOMAIN preds = Node
      /\ \A n \in Node : preds[n] \in Seq(Link) /\ IsInjective(preds[n])
  BY DEF Collected, Node
<1>3. \A i \in Node : a[i] \in Node /\ \A j \in Node : a[i] = a[j] => i = j
  <2>1. DOMAIN a = Node
    BY <1>1 DEF Permutes, Node
  <2> QED
    BY <2>1 DEF Permutes, IsInjective
<1>4. \A k \in 1..m : first + k - 1 \in first..last /\ first + k - 1 \in Node /\ at(k) \in Node
  <2>1. \A k \in 1..m : first + k - 1 \in first..last /\ first + k - 1 \in Node
    BY <1>1 DEF Node
  <2> QED
    BY <1>3, <2>1
<1>5. \A n \in Node : \A i \in DOMAIN preds[n] :
        /\ preds[n][i].edge \in Number /\ preds[n][i].parent \in Node
        /\ preds[n][i] = [edge |-> preds[n][i].edge, parent |-> preds[n][i].parent]
  <2>1. ASSUME NEW n \in Node, NEW i \in DOMAIN preds[n]
        PROVE  preds[n][i] \in Link
    <3>1. preds[n] \in Seq(Link)
      BY <1>2
    <3> QED
      BY <3>1
  <2>2. \A x \in Link : x.edge \in Number /\ x.parent \in Node /\ x = [edge |-> x.edge, parent |-> x.parent]
    BY DEF Link
  <2> QED
    BY <2>1, <2>2
<1>6. ss \in Seq(Seq(Number)) /\ Len(ss) = m
  <2>1. ASSUME NEW k \in 1..m
        PROVE  [i \in DOMAIN preds[at(k)] |-> preds[at(k)][i].edge] \in Seq(Number)
    <3>1. PICK n \in Node : n = at(k)
      BY <1>4
    <3>2. DOMAIN preds[n] = 1..Len(preds[n]) /\ Len(preds[n]) \in Nat
      BY <1>2
    <3>3. [i \in DOMAIN preds[n] |-> preds[n][i].edge] \in [1..Len(preds[n]) -> Number]
      BY <1>5, <3>2
    <3>4. [i \in DOMAIN preds[n] |-> preds[n][i].edge] \in Seq(Number)
      BY <3>2, <3>3
    <3> QED
      BY <3>1, <3>4
  <2>2. ss \in [1..m -> Seq(Number)]
    BY <2>1
  <2> HIDE DEF ss, m
  <2> QED
    BY <1>1, <2>2
<1>7. t = FlattenSeq(ss)
  BY DEF EdgesInto
<1>8. /\ \A k \in 1..m : DOMAIN ss[k] = DOMAIN preds[at(k)] /\ DOMAIN ss[k] = 1..Len(ss[k])
      /\ \A k \in 1..m : \A i \in DOMAIN preds[at(k)] : ss[k][i] = preds[at(k)][i].edge
  <2>1. \A k \in 1..m : ss[k] \in Seq(Number)
    <3> HIDE DEF ss, m
    <3> QED
      BY <1>6
  <2>2. \A k \in 1..m : DOMAIN ss[k] = 1..Len(ss[k])
    <3> HIDE DEF ss, m
    <3> QED
      BY <2>1
  <2>3. \A k \in 1..m : ss[k] = [i \in DOMAIN preds[at(k)] |-> preds[at(k)][i].edge]
    OBVIOUS
  <2> HIDE DEF ss, m, at
  <2> QED
    BY <2>2, <2>3
<1> HIDE DEF ss, t
<1>9. t \in Seq(Number) /\ \E p, q : Flattens(p, q, ss, m, t)
  BY <1>6, <1>7, FlattenIs
<1>10. PICK p, q : Flattens(p, q, ss, m, t)
  BY <1>9
<1>11. /\ p \in [1..Len(t) -> 1..m] /\ q \in [1..Len(t) -> Nat]
       /\ \A i \in 1..Len(t) : q[i] \in 1..Len(ss[p[i]]) /\ t[i] = ss[p[i]][q[i]]
       /\ \A i, j \in 1..Len(t) : i < j => p[i] < p[j] \/ (p[i] = p[j] /\ q[i] < q[j])
       /\ \A x \in 1..m : \A y \in 1..Len(ss[x]) :
            \E i \in 1..Len(t) : p[i] = x /\ q[i] = y
  BY <1>10 DEF Flattens
<1> HIDE DEF m
<1>12. \A i \in 1..Len(t) :
         /\ at(p[i]) \in Node /\ at(p[i]) \in M
         /\ q[i] \in DOMAIN preds[at(p[i])] /\ t[i] = preds[at(p[i])][q[i]].edge
  <2>1. ASSUME NEW i \in 1..Len(t)
        PROVE  /\ at(p[i]) \in Node /\ at(p[i]) \in M
               /\ q[i] \in DOMAIN preds[at(p[i])] /\ t[i] = preds[at(p[i])][q[i]].edge
    <3>1. PICK k \in 1..m : k = p[i]
      BY <1>11
    <3>2. at(k) \in Node /\ at(k) \in M
      BY <1>4
    <3> HIDE DEF at, M
    <3> QED
      BY <1>8, <1>11, <3>1, <3>2
  <2> QED
    BY <2>1
<1>13. ASSUME NEW e \in Number
       PROVE  TimesUpTo(t, Len(t), e) = Cardinality(Into(M, e))
  <2> DEFINE A == {i \in 1..Len(t) : t[i] = e}
             B == Into(M, e)
             h == [i \in A |-> <<at(p[i]), preds[at(p[i])][q[i]].parent>>]
  <2>1. ASSUME NEW i \in A
        PROVE  /\ i \in 1..Len(t) /\ at(p[i]) \in Node /\ q[i] \in DOMAIN preds[at(p[i])]
               /\ h[i] = <<at(p[i]), preds[at(p[i])][q[i]].parent>>
               /\ preds[at(p[i])][q[i]] = [edge |-> e, parent |-> h[i][2]]
               /\ h[i] \in B
    <3>1. PICK n, j : /\ n = at(p[i]) /\ j = q[i] /\ n \in Node /\ n \in M
                      /\ j \in DOMAIN preds[n] /\ preds[n][j].edge = e
      BY <1>12, <2>1
    <3>2. h[i] = <<n, preds[n][j].parent>>
      BY <3>1
    <3>3. preds[n][j] = [edge |-> e, parent |-> preds[n][j].parent] /\ preds[n][j].parent \in Node
      BY <1>5, <3>1
    <3>4. preds[n][j] \in Range(preds[n])
      BY <3>1 DEF Range
    <3>5. h[i][1] = n /\ h[i][2] = preds[n][j].parent
      BY <3>2
    <3>6. h[i] \in B
      <4>1. h[i] \in M \X Node
        BY <3>1, <3>2, <3>3
      <4>2. [edge |-> e, parent |-> h[i][2]] \in Range(preds[h[i][1]])
        BY <3>3, <3>4, <3>5
      <4> HIDE DEF h, M
      <4> QED
        BY <4>1, <4>2 DEF Into
    <3>7. i \in 1..Len(t)
      OBVIOUS
    <3> HIDE DEF h, B, A, at
    <3> QED
      BY <3>1, <3>2, <3>3, <3>5, <3>6, <3>7
  <2>2. h \in [A -> B]
    BY <2>1
  <2>3. ASSUME NEW i \in A, NEW j \in A, h[i] = h[j]
        PROVE  i = j
    <3>1. PICK n \in Node : n = at(p[i]) /\ n = at(p[j])
      BY <2>1, <2>3
    <3>2. p[i] \in 1..m /\ p[j] \in 1..m
      BY <1>11, <2>1
    <3>3. p[i] = p[j]
      <4>1. /\ first + p[i] - 1 \in Node /\ first + p[j] - 1 \in Node
            /\ a[first + p[i] - 1] = a[first + p[j] - 1]
        BY <1>4, <3>1, <3>2
      <4>2. first + p[i] - 1 = first + p[j] - 1
        BY <1>3, <4>1
      <4>3. p[i] \in Int /\ p[j] \in Int
        BY <3>2
      <4> QED
        BY <1>1, <4>2, <4>3
    <3>4. q[i] = q[j]
      <4>1. preds[n][q[i]] = preds[n][q[j]] /\ q[i] \in DOMAIN preds[n] /\ q[j] \in DOMAIN preds[n]
        BY <2>1, <2>3, <3>1
      <4> QED
        BY <1>2, <4>1 DEF IsInjective
    <3>5. i \in 1..Len(t) /\ j \in 1..Len(t)
      BY <2>1
    <3>6. q[i] \in Nat /\ p[i] \in Int
      BY <1>11, <3>2, <3>5
    <3>7. ~(i < j) /\ ~(j < i)
      BY <1>11, <3>3, <3>4, <3>5, <3>6
    <3> QED
      BY <3>5, <3>7
  <2>4. ASSUME NEW x \in B
        PROVE  \E i \in A : h[i] = x
    <3>1. x \in M \X Node /\ [edge |-> e, parent |-> x[2]] \in Range(preds[x[1]])
      BY DEF Into
    <3>2. PICK l \in first..last : x[1] = a[l]
      BY <3>1
    <3>3. PICK k \in 1..m : first + k - 1 = l
      <4>1. l - first + 1 \in 1..m /\ first + (l - first + 1) - 1 = l
        BY <1>1, <3>2 DEF m
      <4> QED
        BY <4>1
    <3>4. x[1] = at(k) /\ at(k) \in Node
      BY <1>4, <3>2, <3>3
    <3>5. PICK y \in DOMAIN preds[at(k)] : preds[at(k)][y] = [edge |-> e, parent |-> x[2]]
      BY <3>1, <3>4 DEF Range
    <3>6. y \in 1..Len(ss[k]) /\ ss[k][y] = e
      <4>1. preds[at(k)][y].edge = e
        BY <3>5
      <4> HIDE DEF at
      <4> QED
        BY <1>8, <3>5, <4>1
    <3>7. PICK i \in 1..Len(t) : p[i] = k /\ q[i] = y
      BY <1>11, <3>6
    <3>8. i \in A
      BY <1>11, <3>6, <3>7
    <3>9. h[i] = <<at(k), preds[at(k)][y].parent>>
      BY <3>7, <3>8
    <3>10. preds[at(k)][y].parent = x[2]
      BY <3>5
    <3>11. x = <<x[1], x[2]>>
      BY <3>1
    <3>12. h[i] = x
      <4> HIDE DEF h, at
      <4> QED
        BY <3>4, <3>9, <3>10, <3>11
    <3> QED
      BY <3>8, <3>12
  <2>5. h \in Bijection(A, B)
    <3>1. DOMAIN h = A
      OBVIOUS
    <3> HIDE DEF h, A, B
    <3> QED
      BY <2>2, <2>3, <2>4, <3>1 DEF Bijection, Injection, Surjection, IsInjective
  <2>6. IsFiniteSet(A)
    <3>1. IsFiniteSet(1..Len(t)) /\ A \in SUBSET (1..Len(t))
      BY <1>9, FS_Interval
    <3> HIDE DEF A
    <3> QED
      BY <3>1, FS_Subset
  <2>7. Cardinality(B) = Cardinality(A)
    <3>1. ExistsBijection(A, B)
      <4> HIDE DEF A, B, h
      <4> QED
        BY <2>5 DEF ExistsBijection
    <3> HIDE DEF A, B
    <3> QED
      BY <2>6, <3>1, FS_Bijection
  <2>8. TimesUpTo(t, Len(t), e) = Cardinality(A)
    BY DEF TimesUpTo
  <2> HIDE DEF A, B
  <2> QED
    BY <2>7, <2>8 DEF B
<1> QED
  BY <1>9, <1>13 DEF t

-----------------------------------------------------------------------------
(* The classes that are made, completed and divided.                        *)

(* A new class counts the edges into its nodes, and is not on the agenda.   *)
LEMMA NewClassIs ==
  ASSUME Collected, NEW a, Permutes(a), NEW first \in Node, NEW last \in Node, first <= last,
         NEW b, b = NewClass(a, first, last)
  PROVE  /\ b \in PBlock /\ b.first = first /\ b.last = last /\ b.split = last
         /\ b.onAgenda = 0 /\ Exact(b)
         /\ Counts(b, {a[i] : i \in first..last})
<1> DEFINE base == [first |-> first, last |-> last, split |-> last, incoming |-> NewInit, onAgenda |-> 0]
<1>1. first \in Int /\ last \in Int
  BY DEF Node
<1>2. base \in PBlock
  <2>1. NewInit \in Cells
    BY DEF NewInit, Cells
  <2> QED
    BY <1>1, <2>1 DEF PBlock
<1>3. \A e \in Number : Counter(base, e) = 0
  <2>1. base.incoming = <<Invalid>>
    BY DEF NewInit
  <2>2. ASSUME NEW e \in Number
        PROVE  Sub(<<Invalid>>, e) = Invalid
    <3>1. e = 1 \/ e > 1
      BY DEF Number
    <3> QED
      BY <3>1 DEF Sub
  <2> HIDE DEF base
  <2> QED
    BY <2>1, <2>2 DEF Counter
<1>4. Negative(base) = {} /\ Cardinality({}) = 0
  BY <1>3, FS_EmptySet DEF Negative
<1>5. base.first = first /\ base.last = last /\ base.split = last /\ base.onAgenda = 0
  OBVIOUS
<1>6. PICK t : t = EdgesInto(a, first, last)
  OBVIOUS
<1>7. /\ t \in Seq(Number)
      /\ \A e \in Number : TimesUpTo(t, Len(t), e) = Cardinality(Into({a[i] : i \in first..last}, e))
  BY <1>6, EdgesIntoIs
<1>8. b = Loop(Increment, base, t)
  BY <1>6 DEF NewClass
<1> HIDE DEF base
<1>9. PICK run : /\ run \in [0..Len(t) -> PBlock] /\ run[0] = base
                 /\ \A i \in 1..Len(t) : run[i] = Increment(run[i - 1], t[i])
                 /\ Loop(Increment, base, t) = run[Len(t)]
  BY <1>2, <1>7, LoopIncrement
<1> DEFINE Good(k) == /\ SameRange(base, run[k]) /\ run[k].onAgenda = 0 /\ Negative(run[k]) = {}
                      /\ \A e \in Number : Incoming(run[k], e) = TimesUpTo(t, k, e)
           T == {k \in Nat : Good(k)}
<1>10. 0 \in T
  <2>1. \A e \in Number : Incoming(base, e) = 0
    BY <1>3 DEF Incoming
  <2>2. \A e : TimesUpTo(t, 0, e) = 0
    BY TimesStep
  <2> QED
    BY <1>4, <1>5, <1>9, <2>1, <2>2 DEF SameRange
<1>11. ASSUME NEW k \in Nat, k < Len(t), k \in T
       PROVE  k + 1 \in T
  <2>1. k + 1 \in 1..Len(t) /\ (k + 1) - 1 = k /\ k \in 0..Len(t)
    BY <1>7, <1>11
  <2>2. PICK d, x : d = run[k] /\ x = t[k + 1]
    OBVIOUS
  <2>3. d \in PBlock /\ x \in Number /\ run[k + 1] = Increment(d, x)
    BY <1>7, <1>9, <2>1, <2>2
  <2>4. PICK c : c = run[k + 1]
    OBVIOUS
  <2>5. /\ c \in PBlock /\ SameRange(d, c) /\ c.onAgenda = d.onAgenda
        /\ \A j \in Number : Incoming(c, j) = Incoming(d, j) + (IF j = x THEN 1 ELSE 0)
        /\ Negative(c) = Negative(d)
    BY <2>3, <2>4, IncrementIs
  <2>6. \A e \in Number : Incoming(d, e) = TimesUpTo(t, k, e)
    BY <1>11, <2>2
  <2>7. ASSUME NEW e \in Number
        PROVE  Incoming(c, e) = TimesUpTo(t, k + 1, e)
    <3>1. TimesUpTo(t, k + 1, e) = TimesUpTo(t, k, e) + (IF x = e THEN 1 ELSE 0)
      BY <2>2, TimesStep
    <3> QED
      BY <2>5, <2>6, <3>1
  <2>8. SameRange(base, d) /\ d.onAgenda = 0 /\ Negative(d) = {}
    BY <1>11, <2>2
  <2>9. SameRange(base, c) /\ c.onAgenda = 0 /\ Negative(c) = {}
    BY <2>5, <2>8 DEF SameRange
  <2> QED
    BY <2>4, <2>7, <2>9
<1>12. \A k \in 0..Len(t) : k \in T
  <2>1. Len(t) \in Nat
    BY <1>7
  <2> HIDE DEF T
  <2> QED
    BY <1>10, <1>11, <2>1, Induct
<1>13. Good(Len(t)) /\ b = run[Len(t)] /\ b \in PBlock
  <2>1. Len(t) \in 0..Len(t)
    BY <1>7
  <2> QED
    BY <1>8, <1>9, <1>12, <2>1
<1>14. Counts(b, {a[i] : i \in first..last})
  BY <1>7, <1>13 DEF Counts
<1>15. Exact(b)
  BY <1>4, <1>13 DEF Exact
<1> QED
  BY <1>5, <1>13, <1>14, <1>15 DEF SameRange

(* A class that is put on the agenda with edges counts the same.            *)
LEMMA PutAllIs ==
  ASSUME NEW b \in PBlock, Exact(b), NEW s \in Seq(Number),
         NEW d, d = Loop(PutOnAgenda, b, s)
  PROVE  /\ d \in PBlock /\ SameRange(b, d) /\ Exact(d)
         /\ \A e \in Number : Incoming(d, e) = Incoming(b, e)
<1>1. PICK run : /\ run \in [0..Len(s) -> PBlock] /\ run[0] = b
                 /\ \A i \in 1..Len(s) : run[i] = PutOnAgenda(run[i - 1], s[i])
                 /\ Loop(PutOnAgenda, b, s) = run[Len(s)]
  BY LoopPut
<1> DEFINE Good(c) == /\ SameRange(b, c) /\ Exact(c)
                      /\ \A e \in Number : Incoming(c, e) = Incoming(b, e)
           T == {k \in Nat : Good(run[k])}
<1>2. 0 \in T
  BY <1>1 DEF SameRange
<1>3. ASSUME NEW k \in Nat, k < Len(s), k \in T
      PROVE  k + 1 \in T
  <2>1. k + 1 \in 1..Len(s) /\ (k + 1) - 1 = k /\ k \in 0..Len(s)
    BY <1>3
  <2>2. PICK c, x : c = run[k] /\ x = s[k + 1]
    OBVIOUS
  <2>3. c \in PBlock /\ x \in Number /\ run[k + 1] = PutOnAgenda(c, x)
    BY <1>1, <2>1, <2>2
  <2>4. PICK f : f = run[k + 1]
    OBVIOUS
  <2>5. /\ f \in PBlock /\ SameRange(c, f)
        /\ \A j \in Number : Incoming(f, j) = Incoming(c, j)
        /\ Exact(c) => Exact(f)
    BY <2>3, <2>4, PutIs
  <2>6. Good(c)
    BY <1>3, <2>2
  <2>7. Good(f)
    BY <2>5, <2>6 DEF SameRange
  <2> HIDE DEF Good
  <2> QED
    BY <2>4, <2>7
<1>4. \A k \in 0..Len(s) : k \in T
  <2>1. Len(s) \in Nat
    OBVIOUS
  <2> HIDE DEF T
  <2> QED
    BY <1>2, <1>3, <2>1, Induct
<1>5. Good(run[Len(s)]) /\ run[Len(s)] \in PBlock
  <2>1. Len(s) \in 0..Len(s)
    OBVIOUS
  <2> HIDE DEF Good
  <2> QED
    BY <1>1, <1>4, <2>1
<1> QED
  BY <1>1, <1>5

(* A class that is put on the agenda with all of its edges has as many as   *)
(* before.                                                                  *)
LEMMA CompleteIs ==
  ASSUME NEW b \in PBlock, Exact(b), NEW d, d = Complete(b)
  PROVE  /\ d \in PBlock /\ SameRange(b, d) /\ Exact(d)
         /\ \A e \in Number : Incoming(d, e) = Incoming(b, e)
<1>1. SizeOfIncoming(b) \in Nat
  BY DEF SizeOfIncoming, PBlock, Cells
<1>2. [e \in 1..SizeOfIncoming(b) |-> e] \in Seq(Number)
  <2>1. [e \in 1..SizeOfIncoming(b) |-> e] \in [1..SizeOfIncoming(b) -> Number]
    BY <1>1 DEF Number
  <2> QED
    BY <1>1, <2>1
<1>3. Reverse([e \in 1..SizeOfIncoming(b) |-> e]) \in Seq(Number)
  BY <1>2, ReverseRange
<1>4. d = Loop(PutOnAgenda, b, Reverse([e \in 1..SizeOfIncoming(b) |-> e]))
  BY DEF Complete
<1> QED
  BY <1>3, <1>4, PutAllIs

(* What is left of a class when edges that it counts are taken from it.     *)
LEMMA LeftIs ==
  ASSUME NEW b \in PBlock, Exact(b), NEW t \in Seq(Number),
         \A e \in Number : TimesUpTo(t, Len(t), e) <= Incoming(b, e),
         NEW d, d = Loop(Decrement, b, t)
  PROVE  /\ d \in PBlock /\ SameRange(b, d) /\ Exact(d) /\ d.onAgenda <= b.onAgenda
         /\ \A e \in Number : Incoming(d, e) = Incoming(b, e) - TimesUpTo(t, Len(t), e)
<1>0. Len(t) \in Nat
  OBVIOUS
<1>1. PICK run : /\ run \in [0..Len(t) -> PBlock] /\ run[0] = b
                 /\ \A i \in 1..Len(t) : run[i] = Decrement(run[i - 1], t[i])
                 /\ Loop(Decrement, b, t) = run[Len(t)]
  BY LoopDecrement
<1> DEFINE Good(c, k) == /\ SameRange(b, c) /\ Exact(c) /\ c.onAgenda <= b.onAgenda
                         /\ \A e \in Number : Incoming(c, e) = Incoming(b, e) - TimesUpTo(t, k, e)
           T == {k \in Nat : Good(run[k], k)}
<1>2. 0 \in T
  <2>1. b.onAgenda \in Int /\ \A e \in Number : Incoming(b, e) \in Nat
    BY CounterType DEF PBlock
  <2>2. \A e : TimesUpTo(t, 0, e) = 0
    BY TimesStep
  <2> QED
    BY <1>1, <2>1, <2>2 DEF SameRange
<1>3. ASSUME NEW k \in Nat, k < Len(t), k \in T
      PROVE  k + 1 \in T
  <2>1. k + 1 \in 1..Len(t) /\ (k + 1) - 1 = k /\ k \in 0..Len(t) /\ k + 1 \in Nat /\ k + 1 <= Len(t)
    BY <1>0, <1>3
  <2>2. PICK c, x : c = run[k] /\ x = t[k + 1]
    OBVIOUS
  <2>3. c \in PBlock /\ x \in Number /\ run[k + 1] = Decrement(c, x)
    BY <1>1, <2>1, <2>2
  <2>4. PICK f : f = run[k + 1]
    OBVIOUS
  <2>5. Good(c, k)
    BY <1>3, <2>2
  <2>6. \A e \in Number : /\ TimesUpTo(t, k + 1, e) = TimesUpTo(t, k, e) + (IF x = e THEN 1 ELSE 0)
                           /\ TimesUpTo(t, k, e) \in Nat
    BY <2>2, TimesStep
  <2>7. Incoming(c, x) # 0
    <3>1. PICK l \in Nat, m \in Int, n \in Nat :
            l = TimesUpTo(t, k, x) /\ m = TimesUpTo(t, Len(t), x) /\ n = Incoming(b, x)
      BY <1>0, <2>3, <2>6, CounterType, TimesStep
    <3>2. TimesUpTo(t, k + 1, x) <= TimesUpTo(t, Len(t), x)
      BY <1>0, <2>1, TimesLess
    <3>3. l + 1 <= m /\ m <= n
      BY <2>3, <2>6, <3>1, <3>2
    <3>4. Incoming(c, x) = n - l
      BY <2>3, <2>5, <3>1
    <3> QED
      BY <3>3, <3>4
  <2>8. /\ f \in PBlock /\ SameRange(c, f) /\ Exact(f) /\ f.onAgenda <= c.onAgenda
        /\ \A j \in Number : Incoming(f, j) = Incoming(c, j) - (IF j = x THEN 1 ELSE 0)
    <3>1. Exact(c)
      BY <2>5
    <3> HIDE DEF Good
    <3> QED
      BY <2>3, <2>4, <2>7, <3>1, DecrementIs
  <2>9. ASSUME NEW e \in Number
        PROVE  Incoming(f, e) = Incoming(b, e) - TimesUpTo(t, k + 1, e)
    <3>1. PICK l \in Nat, n \in Nat : l = TimesUpTo(t, k, e) /\ n = Incoming(b, e)
      BY <2>6, CounterType
    <3>2. Incoming(c, e) = n - l
      BY <2>5, <3>1
    <3> QED
      BY <2>6, <2>8, <3>1, <3>2
  <2>10. f.onAgenda <= b.onAgenda
    <3>1. f.onAgenda \in Int /\ c.onAgenda \in Int /\ b.onAgenda \in Int
      BY <2>3, <2>8 DEF PBlock
    <3>2. f.onAgenda <= c.onAgenda /\ c.onAgenda <= b.onAgenda
      BY <2>5, <2>8
    <3> QED
      BY <3>1, <3>2
  <2>11. SameRange(b, f)
    BY <2>5, <2>8 DEF SameRange
  <2>12. Good(f, k + 1)
    BY <2>8, <2>9, <2>10, <2>11
  <2> HIDE DEF Good
  <2> QED
    BY <2>4, <2>12
<1>4. \A k \in 0..Len(t) : k \in T
  <2> HIDE DEF T
  <2> QED
    BY <1>0, <1>2, <1>3, Induct
<1>5. Good(run[Len(t)], Len(t)) /\ run[Len(t)] \in PBlock
  <2>1. Len(t) \in 0..Len(t)
    BY <1>0
  <2> HIDE DEF Good
  <2> QED
    BY <1>1, <1>4, <2>1
<1> QED
  BY <1>1, <1>5

-----------------------------------------------------------------------------
(* Both halves of a class that is split, while it is decided which of them  *)
(* is followed back.                                                        *)
Halves ==
  {q \in [old : PBlock, new : PBlock, agenda : Seq(1..(Len(blocks) + 1))] :
     /\ Exact(q.old) /\ Exact(q.new)
     /\ q.old.onAgenda > 0 => Head(toDo) \in Range(q.agenda) \cup {cur}
     /\ q.new.onAgenda > 0 => Len(blocks) + 1 \in Range(q.agenda)}

Alike(b, d) == SameRange(b, d) /\ \A e \in Number : Incoming(d, e) = Incoming(b, e)
Grown(p, q) == Alike(p.old, q.old) /\ Alike(p.new, q.new) /\ Range(p.agenda) \subseteq Range(q.agenda)

(* Classes with the same range and edges: several steps keep what each      *)
(* keeps.                                                                   *)
LEMMA AlikeTrans ==
  ASSUME NEW b, NEW c, NEW d, Alike(b, c), Alike(c, d)
  PROVE  Alike(b, d)
<1> QED
  BY DEF Alike, SameRange

(* A half that was on no edge of the agenda is pushed when it gets one.     *)
LEMMA PutPushes ==
  ASSUME NEW b \in PBlock, Exact(b), NEW e \in Number, NEW d, d = PutOnAgenda(b, e),
         NEW T, NEW s \in Seq(T), NEW c \in T, NEW P, b.onAgenda > 0 => c \in P,
         NEW t, t = IF b.onAgenda = 0 THEN SlowPush(s, c) ELSE s
  PROVE  /\ d \in PBlock /\ Exact(d) /\ Alike(b, d) /\ t \in Seq(T)
         /\ Range(s) \subseteq Range(t) /\ Range(t) \subseteq Range(s) \cup {c}
         /\ c \in Range(t) \cup P
<1>1. d \in PBlock /\ Exact(d) /\ Alike(b, d)
  BY PutIs DEF Alike
<1>2. b.onAgenda \in Nat
  BY NegativeFinite DEF Exact
<1>3. CASE b.onAgenda = 0
  <2>1. t = Append(s, c)
    BY <1>3 DEF SlowPush
  <2>2. Range(Append(s, c)) = Range(s) \cup {c} /\ Append(s, c) \in Seq(T)
    BY AppendRange
  <2> QED
    BY <1>1, <2>1, <2>2
<1>4. CASE b.onAgenda # 0
  <2>1. t = s /\ c \in P
    BY <1>2, <1>4
  <2> QED
    BY <1>1, <2>1
<1> QED
  BY <1>3, <1>4

(* Whatever half is put on the agenda with an edge, it is in the stack      *)
(* then.                                                                    *)
LEMMA ScheduleIs ==
  ASSUME blocks \in Seq(PBlock), toDo \in Seq(DOMAIN blocks), toDo # <<>>,
         NEW q \in Halves, NEW e \in Number, NEW r, r = Schedule(q, e)
  PROVE  r \in Halves /\ Grown(q, r)
<1> DEFINE size == Len(blocks) + 1
<1>1. size \in 1..size /\ Head(toDo) \in 1..size
  <2>1. Head(toDo) \in DOMAIN blocks
    OBVIOUS
  <2> QED
    BY <2>1
<1>2. /\ q \in [old : PBlock, new : PBlock, agenda : Seq(1..size)]
      /\ Exact(q.old) /\ Exact(q.new)
      /\ q.old.onAgenda > 0 => Head(toDo) \in Range(q.agenda) \cup {cur}
      /\ q.new.onAgenda > 0 => size \in Range(q.agenda)
  BY DEF Halves
<1> DEFINE put(b, c) == IF b.onAgenda = 0 THEN SlowPush(q.agenda, c) ELSE q.agenda
<1>3. \/ r = q
      \/ r = [q EXCEPT !.agenda = put(q.old, Head(toDo)), !.old = PutOnAgenda(@, e)]
      \/ r = [q EXCEPT !.agenda = put(q.new, size), !.new = PutOnAgenda(@, e)]
  BY DEF Schedule
<1>4. CASE r = q
  BY <1>4 DEF Grown, Alike, SameRange
<1>5. CASE r = [q EXCEPT !.agenda = put(q.old, Head(toDo)), !.old = PutOnAgenda(@, e)]
  <2>1. PICK d, t : d = PutOnAgenda(q.old, e) /\ t = put(q.old, Head(toDo))
    OBVIOUS
  <2>2. PICK P : P = Range(q.agenda) \cup {cur}
    OBVIOUS
  <2>3. PICK T : T = 1..size
    OBVIOUS
  <2>4. PICK b, s, c : b = q.old /\ s = q.agenda /\ c = Head(toDo)
    OBVIOUS
  <2>5. /\ d \in PBlock /\ Exact(d) /\ Alike(b, d) /\ t \in Seq(T)
        /\ Range(s) \subseteq Range(t) /\ Range(t) \subseteq Range(s) \cup {c}
        /\ c \in Range(t) \cup P
    <3>1. /\ b \in PBlock /\ Exact(b) /\ d = PutOnAgenda(b, e) /\ s \in Seq(T) /\ c \in T
          /\ b.onAgenda > 0 => c \in P
          /\ t = IF b.onAgenda = 0 THEN SlowPush(s, c) ELSE s
      BY <1>1, <1>2, <2>1, <2>2, <2>3, <2>4
    <3> HIDE DEF size, put
    <3> QED
      BY <3>1, PutPushes
  <2>6. r = [old |-> d, new |-> q.new, agenda |-> t]
    BY <1>2, <1>5, <2>1
  <2>7. t \in Seq(1..size) /\ c \in Range(t) \cup {cur} /\ Range(q.agenda) \subseteq Range(t)
    BY <2>2, <2>3, <2>4, <2>5
  <2>8. r \in [old : PBlock, new : PBlock, agenda : Seq(1..size)]
    BY <1>2, <2>5, <2>6, <2>7
  <2>9. r.old = d /\ r.new = q.new /\ r.agenda = t
    BY <2>6
  <2>10. r \in Halves
    BY <1>2, <2>4, <2>5, <2>7, <2>8, <2>9 DEF Halves
  <2>11. Alike(q.new, q.new)
    BY DEF Alike, SameRange
  <2> QED
    BY <2>4, <2>5, <2>7, <2>9, <2>10, <2>11 DEF Grown
<1>6. CASE r = [q EXCEPT !.agenda = put(q.new, size), !.new = PutOnAgenda(@, e)]
  <2>1. PICK d, t : d = PutOnAgenda(q.new, e) /\ t = put(q.new, size)
    OBVIOUS
  <2>2. PICK P : P = Range(q.agenda)
    OBVIOUS
  <2>3. PICK T : T = 1..size
    OBVIOUS
  <2>4. PICK b, s, c : b = q.new /\ s = q.agenda /\ c = size
    OBVIOUS
  <2>5. /\ d \in PBlock /\ Exact(d) /\ Alike(b, d) /\ t \in Seq(T)
        /\ Range(s) \subseteq Range(t) /\ Range(t) \subseteq Range(s) \cup {c}
        /\ c \in Range(t) \cup P
    <3>1. /\ b \in PBlock /\ Exact(b) /\ d = PutOnAgenda(b, e) /\ s \in Seq(T) /\ c \in T
          /\ b.onAgenda > 0 => c \in P
          /\ t = IF b.onAgenda = 0 THEN SlowPush(s, c) ELSE s
      BY <1>1, <1>2, <2>1, <2>2, <2>3, <2>4
    <3> HIDE DEF size, put
    <3> QED
      BY <3>1, PutPushes
  <2>6. r = [old |-> q.old, new |-> d, agenda |-> t]
    BY <1>2, <1>6, <2>1
  <2>7. t \in Seq(1..size) /\ c \in Range(t) /\ Range(q.agenda) \subseteq Range(t)
    BY <2>2, <2>3, <2>4, <2>5
  <2>8. r \in [old : PBlock, new : PBlock, agenda : Seq(1..size)]
    BY <1>2, <2>5, <2>6, <2>7
  <2>9. r.old = q.old /\ r.new = d /\ r.agenda = t
    BY <2>6
  <2>10. r \in Halves
    BY <1>2, <2>4, <2>5, <2>7, <2>8, <2>9 DEF Halves
  <2>11. Alike(q.old, q.old)
    BY DEF Alike, SameRange
  <2> QED
    BY <2>4, <2>5, <2>7, <2>9, <2>10, <2>11 DEF Grown
<1> HIDE DEF put
<1> QED
  BY <1>3, <1>4, <1>5, <1>6

(* The halves after each edge.                                              *)
LEMMA LoopSchedule ==
  ASSUME blocks \in Seq(PBlock), toDo \in Seq(DOMAIN blocks), toDo # <<>>,
         NEW p \in Halves, NEW s \in Seq(Number)
  PROVE  \E run : /\ run \in [0..Len(s) -> Halves] /\ run[0] = p
                  /\ \A i \in 1..Len(s) : run[i] = Schedule(run[i - 1], s[i])
                  /\ Loop(Schedule, p, s) = run[Len(s)]
<1> DEFINE n == Len(s)
           step == [i \in 1..n |-> [q \in Halves |-> Schedule(q, s[i])]]
           Def(f) == f = [i \in 0..n |-> IF i = 0 THEN p ELSE Schedule(f[i - 1], s[i])]
           run == CHOOSE f : Def(f)
<1>1. n \in Nat /\ \A i \in 1..n : s[i] \in Number
  OBVIOUS
<1>2. \A i \in 1..n : \A q \in Halves : Schedule(q, s[i]) \in Halves
  BY <1>1, ScheduleIs
<1>3. CanRecur(n, Halves, p, step)
  <2>1. step \in [1..n -> [Halves -> Halves]]
    <3> HIDE DEF n
    <3> QED
      BY <1>2
  <2> QED
    BY <1>1, <2>1 DEF CanRecur
<1>4. PICK f : Recurs(f, n, Halves, p, step)
  BY <1>3, Recursion
<1>5. Def(f)
  <2>1. f = [i \in 0..n |-> f[i]] /\ f[0] = p
    BY <1>4 DEF Recurs
  <2>2. ASSUME NEW i \in 1..n
        PROVE  f[i] = Schedule(f[i - 1], s[i])
    <3>1. i - 1 \in 0..n
      BY <1>1
    <3>2. f[i - 1] \in Halves /\ f[i] = step[i][f[i - 1]]
      BY <1>4, <3>1 DEF Recurs
    <3> QED
      BY <3>2
  <2>3. \A i \in 0..n : i = 0 \/ i \in 1..n
    BY <1>1
  <2> HIDE DEF n
  <2> QED
    BY <2>1, <2>2, <2>3
<1>6. Def(run)
  <2> HIDE DEF Def
  <2> QED
    BY <1>5
<1>7. /\ run = [i \in 0..n |-> run[i]] /\ run[0] = p
      /\ \A i \in 1..n : run[i] = Schedule(run[i - 1], s[i])
  <2>1. 0 \in 0..n /\ \A i \in 1..n : i \in 0..n /\ i # 0
    BY <1>1
  <2> HIDE DEF run, n
  <2> QED
    BY <1>6, <2>1
<1>8. Recurs(run, n, Halves, p, step)
  <2>1. ASSUME NEW i \in 1..n, run[i - 1] \in Halves
        PROVE  run[i] = step[i][run[i - 1]]
    <3> HIDE DEF run, n
    <3> QED
      BY <1>7, <2>1
  <2> HIDE DEF run, n, step
  <2> QED
    BY <1>3, <1>7, <2>1, RecursIn
<1>9. Loop(Schedule, p, s) = run[n]
  BY DEF Loop
<1> HIDE DEF run
<1> QED
  BY <1>7, <1>8, <1>9 DEF Recurs

(* The loop over all edges.                                                 *)
LEMMA ScheduleAllIs ==
  ASSUME blocks \in Seq(PBlock), toDo \in Seq(DOMAIN blocks), toDo # <<>>,
         NEW p \in Halves, NEW s \in Seq(Number), NEW r, r = Loop(Schedule, p, s)
  PROVE  r \in Halves /\ Grown(p, r)
<1>1. PICK run : /\ run \in [0..Len(s) -> Halves] /\ run[0] = p
                 /\ \A i \in 1..Len(s) : run[i] = Schedule(run[i - 1], s[i])
                 /\ Loop(Schedule, p, s) = run[Len(s)]
  BY LoopSchedule
<1> DEFINE T == {k \in Nat : Grown(p, run[k])}
<1>2. 0 \in T
  BY <1>1 DEF Grown, Alike, SameRange
<1>3. ASSUME NEW k \in Nat, k < Len(s), k \in T
      PROVE  k + 1 \in T
  <2>1. k + 1 \in 1..Len(s) /\ (k + 1) - 1 = k /\ k \in 0..Len(s)
    BY <1>3
  <2>2. PICK c, x, f : c = run[k] /\ x = s[k + 1] /\ f = run[k + 1]
    OBVIOUS
  <2>3. c \in Halves /\ x \in Number /\ f = Schedule(c, x)
    <3>1. run[k] \in Halves /\ s[k + 1] \in Number
      <4>1. run \in [0..Len(s) -> Halves]
        BY <1>1, Zenon
      <4>2. run[k] \in Halves
        BY <2>1, <4>1, Zenon
      <4>3. s[k + 1] \in Number
        BY <2>1
      <4> QED
        BY <4>2, <4>3
    <3>2. run[k + 1] = Schedule(run[(k + 1) - 1], s[k + 1])
      BY <1>1, <2>1
    <3>3. run[k + 1] = Schedule(run[k], s[k + 1])
      <4> HIDE DEF T
      <4> QED
        BY <2>1, <3>2, Zenon
    <3> QED
      BY <2>2, <3>1, <3>3, Zenon
  <2>4. Grown(c, f)
    BY <2>3, ScheduleIs
  <2>5. Grown(p, c)
    BY <1>3, <2>2
  <2>6. Grown(p, f)
    BY <2>4, <2>5, AlikeTrans DEF Grown
  <2> QED
    BY <2>2, <2>6
<1>4. \A k \in 0..Len(s) : k \in T
  <2>1. Len(s) \in Nat
    OBVIOUS
  <2> HIDE DEF T
  <2> QED
    BY <1>2, <1>3, <2>1, Induct
<1>5. Len(s) \in 0..Len(s)
  OBVIOUS
<1> QED
  BY <1>1, <1>4, <1>5

-----------------------------------------------------------------------------
(* Marking nodes.                                                           *)

(* Each node is at one position of the array, the one that LookUp finds.    *)
LEMMA PermutesIs ==
  ASSUME Len(nodes) \in Nat, NEW a, Permutes(a)
  PROVE  /\ a \in [Node -> Node] /\ DOMAIN a = Node
         /\ \A x, y \in Node : a[x] = a[y] => x = y
         /\ \A n \in Node : LookUp(a, n) \in Node /\ a[LookUp(a, n)] = n
<1>1. a \in [Node -> Node] /\ DOMAIN a = Node
  <2>1. a \in Seq(Node) /\ Len(a) = Len(nodes)
    BY DEF Permutes
  <2> QED
    BY <2>1 DEF Node
<1>2. \A x, y \in Node : a[x] = a[y] => x = y
  BY <1>1 DEF Permutes, IsInjective, Injection
<1>3. ASSUME NEW n \in Node
      PROVE  LookUp(a, n) \in Node /\ a[LookUp(a, n)] = n
  <2>1. \E x \in DOMAIN a : a[x] = n
    <3>1. n \in Range(a)
      BY DEF Permutes
    <3> QED
      BY <3>1 DEF Range
  <2>2. LookUp(a, n) \in DOMAIN a /\ a[LookUp(a, n)] = n
    BY <2>1 DEF LookUp
  <2> QED
    BY <1>1, <2>2, Zenon
<1> QED
  BY <1>1, <1>2, <1>3

Exchanged(a, z, i, j) ==
  \A k \in Node : z[k] = IF k = j THEN a[i] ELSE IF k = i THEN a[j] ELSE a[k]

(* Swapping two positions keeps all nodes.                                  *)
LEMMA SwappedIs ==
  ASSUME Len(nodes) \in Nat, NEW a, Permutes(a), NEW i \in Node, NEW j \in Node,
         NEW z, z = Swapped(a, i, j)
  PROVE  Permutes(z) /\ Exchanged(a, z, i, j)
<1>1. a \in [Node -> Node] /\ DOMAIN a = Node
  BY PermutesIs
<1>2. /\ z \in [Node -> Node]
      /\ \A k \in Node : z[k] = IF k = j THEN a[i] ELSE IF k = i THEN a[j] ELSE a[k]
  BY <1>1 DEF Swapped
<1>3. z \in Seq(Node) /\ Len(z) = Len(nodes)
  BY <1>2 DEF Node
<1>4. IsInjective(z)
  <2>1. \A x, y \in Node : a[x] = a[y] => x = y
    BY <1>1 DEF Permutes, IsInjective, Injection
  <2>2. \A x, y \in Node : z[x] = z[y] => x = y
    <3> HIDE DEF Node
    <3> QED
      BY <1>1, <1>2, <2>1
  <2> QED
    BY <1>2, <2>2 DEF IsInjective, Injection
<1>5. Range(z) = Node
  <2>1. \A y \in Node : \E x \in Node : a[x] = y
    BY <1>1 DEF Permutes, Range
  <2>2. ASSUME NEW y \in Node
        PROVE  \E x \in Node : z[x] = y
    <3>1. PICK x \in Node : a[x] = y
      BY <2>1
    <3> HIDE DEF Node
    <3> QED
      BY <1>2, <3>1
  <2> HIDE DEF Node
  <2> QED
    BY <1>2, <2>2 DEF Range
<1> QED
  BY <1>2, <1>3, <1>4, <1>5 DEF Permutes, Exchanged

SameCounters(b, d) ==
  d.first = b.first /\ d.last = b.last /\ d.incoming = b.incoming /\ d.onAgenda = b.onAgenda

(* Another split position is another class with the same counters.          *)
LEMMA SplitIs ==
  ASSUME NEW b \in PBlock, NEW k \in Int, NEW d, d = [b EXCEPT !.split = k]
  PROVE  d \in PBlock /\ SameCounters(b, d) /\ d.split = k
<1> QED
  BY DEF PBlock, SameCounters

(* A class that ends earlier has the same counters, until its edges are     *)
(* taken off.                                                               *)
LEMMA LastIs ==
  ASSUME NEW b \in PBlock, NEW k \in Int, NEW d, d = [b EXCEPT !.last = k]
  PROVE  /\ d \in PBlock /\ d.incoming = b.incoming /\ d.onAgenda = b.onAgenda
         /\ d.first = b.first /\ d.split = b.split /\ d.last = k
<1> QED
  BY DEF PBlock

(* What can be left of the classes bs when nodes of them are marked.        *)
Markings(bs) ==
  {s \in [array : Seq(Node), blocks : Seq(PBlock), toDo : Seq(DOMAIN bs)] :
     /\ Permutes(s.array) /\ Divides(s.array, class, s.blocks) /\ Marked(s.blocks, s.toDo)
     /\ DOMAIN s.blocks = DOMAIN bs
     /\ \A c \in DOMAIN bs : SameCounters(bs[c], s.blocks[c])}

(* A node that is marked stays in its class, and the class is one to        *)
(* split from then on, unless it has no other node.                         *)
LEMMA MarkNodeIs ==
  ASSUME Len(nodes) \in Nat, NEW bs \in Seq(PBlock), NEW s \in Markings(bs), NEW n \in Node,
         NEW r, r = MarkNode(s, n)
  PROVE  r \in Markings(bs)
<1> DEFINE c == class[n]
           b == s.blocks[c]
           at == LookUp(s.array, n)
<1>1. /\ s \in [array : Seq(Node), blocks : Seq(PBlock), toDo : Seq(DOMAIN bs)]
      /\ Permutes(s.array) /\ Divides(s.array, class, s.blocks) /\ Marked(s.blocks, s.toDo)
      /\ DOMAIN s.blocks = DOMAIN bs
      /\ \A d \in DOMAIN bs : SameCounters(bs[d], s.blocks[d])
  BY DEF Markings
<1>2. PICK a, ss, q : a = s.array /\ ss = s.blocks /\ q = s.toDo
  OBVIOUS
<1>3. s = [array |-> a, blocks |-> ss, toDo |-> q]
  BY <1>1, <1>2
<1>4. /\ ss \in Seq(PBlock) /\ class \in [Node -> DOMAIN ss]
      /\ \A d \in DOMAIN ss :
           /\ ss[d].first \in Node /\ ss[d].last \in Node /\ ss[d].first <= ss[d].last
           /\ ss[d].split >= ss[d].first - 1 /\ ss[d].split <= ss[d].last
      /\ \A i \in Node, d \in DOMAIN ss : class[a[i]] = d <=> i \in ss[d].first..ss[d].last
  BY <1>1, <1>2 DEF Divides
<1>5. /\ a \in [Node -> Node]
      /\ \A x, y \in Node : a[x] = a[y] => x = y
      /\ at \in Node /\ a[at] = n
  BY <1>1, <1>2, PermutesIs
<1>6. c \in DOMAIN ss /\ b = ss[c] /\ b \in PBlock /\ at \in b.first..b.last
  <2>1. c \in DOMAIN ss /\ b = ss[c]
    BY <1>2, <1>4
  <2>2. class[a[at]] = c
    BY <1>5
  <2> HIDE DEF c, b, at
  <2> QED
    BY <1>4, <1>5, <2>1, <2>2
<1> HIDE DEF c, b, at
<1>7. b.split \in Int /\ b.first \in Node /\ b.last \in Node /\ b.split >= b.first - 1 /\ b.split <= b.last
  BY <1>4, <1>6 DEF PBlock
<1>8. r = IF b.first = b.last THEN s
          ELSE [array |-> IF b.split >= at THEN Swapped(a, b.split, at) ELSE a,
                blocks |-> IF b.split >= at THEN [ss EXCEPT ![c].split = @ - 1] ELSE ss,
                toDo |-> IF b.split = b.last THEN <<c>> \o q ELSE q]
  BY <1>2 DEF MarkNode, c, b, at
<1>9. CASE b.first = b.last \/ ~(b.split >= at)
  <2>1. b.first = b.last \/ b.split # b.last
    <3>1. at \in Int /\ at <= b.last
      BY <1>6, <1>7 DEF Node
    <3> QED
      BY <1>7, <1>9, <3>1
  <2>2. r = s
    BY <1>3, <1>8, <1>9, <2>1
  <2> QED
    BY <2>2
<1>10. CASE b.first # b.last /\ b.split >= at
  <2>1. PICK z, tt, p : /\ z = Swapped(a, b.split, at)
                        /\ tt = [ss EXCEPT ![c].split = @ - 1]
                        /\ p = IF b.split = b.last THEN <<c>> \o q ELSE q
    OBVIOUS
  <2>2. r = [array |-> z, blocks |-> tt, toDo |-> p]
    BY <1>8, <1>10, <2>1
  <2>3. b.split \in Node /\ b.split \in b.first..b.last
    BY <1>5, <1>6, <1>7, <1>10 DEF Node
  <2>4. /\ Permutes(z)
        /\ \A k \in Node : z[k] = IF k = at THEN a[b.split] ELSE IF k = b.split THEN a[at] ELSE a[k]
    <3>1. PICK i, j : i = b.split /\ j = at
      OBVIOUS
    <3>2. i \in Node /\ j \in Node /\ z = Swapped(a, i, j) /\ Permutes(a)
      BY <1>1, <1>2, <1>5, <2>1, <2>3, <3>1
    <3>3. Permutes(z) /\ Exchanged(a, z, i, j)
      BY <3>2, SwappedIs
    <3> QED
      BY <3>1, <3>3 DEF Exchanged
  <2>5. /\ tt \in Seq(PBlock) /\ DOMAIN tt = DOMAIN ss
        /\ \A d \in DOMAIN ss :
             /\ SameCounters(ss[d], tt[d])
             /\ tt[d].split = IF d = c THEN b.split - 1 ELSE ss[d].split
    <3>2. tt = [ss EXCEPT ![c] = [b EXCEPT !.split = @ - 1]]
      BY <1>6, <2>1
    <3>3. PICK d : d = [b EXCEPT !.split = @ - 1]
      OBVIOUS
    <3>1. d \in PBlock /\ SameCounters(b, d) /\ d.split = b.split - 1
      <4>1. PICK k \in Int : k = b.split - 1
        BY <1>7
      <4>2. b \in PBlock /\ d = [b EXCEPT !.split = k]
        BY <1>6, <3>3, <4>1
      <4>3. d \in PBlock /\ SameCounters(b, d) /\ d.split = k
        BY <4>2, SplitIs
      <4> QED
        BY <4>1, <4>3
    <3>4. tt \in Seq(PBlock) /\ DOMAIN tt = DOMAIN ss /\ \A e \in DOMAIN ss : tt[e] = IF e = c THEN d ELSE ss[e]
      BY <1>4, <1>6, <3>1, <3>2, <3>3
    <3> QED
      BY <1>6, <3>1, <3>4 DEF SameCounters
  <2>6. \A i \in Node : class[z[i]] = class[a[i]]
    <3>1. class[a[b.split]] = c /\ class[a[at]] = c
      BY <1>4, <1>5, <1>6, <2>3
    <3> QED
      BY <2>4, <3>1
  <2>7. Divides(z, class, tt)
    <3>1. ASSUME NEW d \in DOMAIN tt
          PROVE  /\ tt[d].first = ss[d].first /\ tt[d].last = ss[d].last
                 /\ tt[d].split >= tt[d].first - 1 /\ tt[d].split <= tt[d].last
      <4>1. tt[d].first = ss[d].first /\ tt[d].last = ss[d].last
        BY <2>5 DEF SameCounters
      <4>2. ss[d].split >= ss[d].first - 1 /\ ss[d].split <= ss[d].last
        BY <1>4, <2>5
      <4>3. CASE d = c
        <5>1. tt[d].split = b.split - 1
          BY <2>5, <4>3
        <5>2. b.split >= b.first /\ b.split <= b.last
          BY <1>7, <2>3
        <5> QED
          BY <1>6, <1>7, <4>1, <4>3, <5>1, <5>2 DEF Node
      <4>4. CASE d # c
        BY <2>5, <4>1, <4>2, <4>4
      <4> QED
        BY <4>1, <4>3, <4>4
    <3>2. ASSUME NEW i \in Node, NEW d \in DOMAIN tt
          PROVE  class[z[i]] = d <=> i \in tt[d].first..tt[d].last
      <4>1. tt[d].first = ss[d].first /\ tt[d].last = ss[d].last
        BY <3>1
      <4>2. class[a[i]] = d <=> i \in ss[d].first..ss[d].last
        BY <1>4, <2>5
      <4> QED
        BY <2>6, <4>1, <4>2, Zenon
    <3>3. \A d \in DOMAIN tt : tt[d].first \in Node /\ tt[d].last \in Node /\ tt[d].first <= tt[d].last
      BY <1>4, <2>5, <3>1
    <3>4. tt \in Seq(PBlock) /\ class \in [Node -> DOMAIN tt]
      BY <1>4, <2>5
    <3> HIDE DEF Node
    <3> QED
      BY <3>1, <3>2, <3>3, <3>4 DEF Divides
  <2>8. Marked(ss, q)
    BY <1>1, <1>2
  <2>9. b.split - 1 < b.last
    BY <1>7 DEF Node
  <2>10. Marked(tt, p) /\ p \in Seq(DOMAIN bs)
    <3>1. q \in Seq(DOMAIN ss) /\ IsInjective(q) /\ DOMAIN ss = DOMAIN bs
      BY <1>1, <1>2, <2>8 DEF Marked
    <3>2. CASE b.split = b.last
      <4>1. c \notin Range(q)
        BY <1>6, <1>7, <2>8, <3>2 DEF Marked, Node
      <4>2. <<c>> \in Seq(DOMAIN ss) /\ Range(<<c>>) = {c} /\ IsInjective(<<c>>)
        BY <1>6 DEF Range, IsInjective, Injection
      <4>3. p = <<c>> \o q
        BY <2>1, <3>2
      <4>4. PICK u : u = <<c>>
        OBVIOUS
      <4>5. PICK DD : DD = DOMAIN ss
        OBVIOUS
      <4>6. u \o q \in Seq(DD) /\ IsInjective(u \o q) /\ Range(u \o q) = Range(u) \cup Range(q)
        <5>1. u \in Seq(DD) /\ q \in Seq(DD) /\ IsInjective(u) /\ IsInjective(q) /\ Range(u) \cap Range(q) = {}
          BY <3>1, <4>1, <4>2, <4>4, <4>5
        <5> QED
          BY <5>1, JoinRange
      <4>7. p \in Seq(DOMAIN ss) /\ IsInjective(p) /\ Range(p) = {c} \cup Range(q)
        BY <4>2, <4>3, <4>4, <4>5, <4>6
      <4>8. ASSUME NEW d \in DOMAIN tt
            PROVE  d \in Range(p) <=> tt[d].split < tt[d].last
        <5>1. tt[d].last = ss[d].last /\ d \in DOMAIN ss
          BY <2>5 DEF SameCounters
        <5>2. CASE d = c
          BY <1>6, <2>5, <2>9, <4>7, <5>1, <5>2
        <5>3. CASE d # c
          BY <2>5, <2>8, <4>7, <5>1, <5>3 DEF Marked
        <5> QED
          BY <5>2, <5>3
      <4> QED
        BY <2>5, <3>1, <4>7, <4>8 DEF Marked
    <3>3. CASE b.split # b.last
      <4>1. p = q
        BY <2>1, <3>3
      <4>2. c \in Range(q)
        BY <1>6, <1>7, <2>8, <3>3 DEF Marked, Node
      <4>3. ASSUME NEW d \in DOMAIN tt
            PROVE  d \in Range(q) <=> tt[d].split < tt[d].last
        <5>1. tt[d].last = ss[d].last /\ d \in DOMAIN ss
          BY <2>5 DEF SameCounters
        <5>2. CASE d = c
          BY <1>6, <2>5, <2>9, <4>2, <5>1, <5>2
        <5>3. CASE d # c
          BY <2>5, <2>8, <5>1, <5>3 DEF Marked
        <5> QED
          BY <5>2, <5>3
      <4> QED
        BY <2>5, <3>1, <4>1, <4>3 DEF Marked
    <3> QED
      BY <3>2, <3>3
  <2>11. DOMAIN tt = DOMAIN bs /\ \A d \in DOMAIN bs : SameCounters(bs[d], tt[d])
    BY <1>1, <1>2, <2>5 DEF SameCounters
  <2>12. r \in [array : Seq(Node), blocks : Seq(PBlock), toDo : Seq(DOMAIN bs)]
    <3>1. z \in Seq(Node)
      BY <2>4 DEF Permutes
    <3> QED
      BY <2>2, <2>5, <2>10, <3>1
  <2>13. r.array = z /\ r.blocks = tt /\ r.toDo = p
    BY <2>2
  <2> QED
    BY <2>4, <2>7, <2>10, <2>11, <2>12, <2>13 DEF Markings
<1> QED
  BY <1>9, <1>10

(* All nodes that have an edge into a class.                                *)
LEMMA LoopMark ==
  ASSUME Len(nodes) \in Nat, NEW bs \in Seq(PBlock),
         NEW p \in Markings(bs), NEW s \in Seq(Node)
  PROVE  \E run : /\ run \in [0..Len(s) -> Markings(bs)] /\ run[0] = p
                  /\ \A i \in 1..Len(s) : run[i] = MarkNode(run[i - 1], s[i])
                  /\ Loop(MarkNode, p, s) = run[Len(s)]
<1> DEFINE n == Len(s)
           step == [i \in 1..n |-> [q \in Markings(bs) |-> MarkNode(q, s[i])]]
           Def(f) == f = [i \in 0..n |-> IF i = 0 THEN p ELSE MarkNode(f[i - 1], s[i])]
           run == CHOOSE f : Def(f)
<1>1. n \in Nat /\ \A i \in 1..n : s[i] \in Node
  OBVIOUS
<1>2. \A i \in 1..n : \A q \in Markings(bs) : MarkNode(q, s[i]) \in Markings(bs)
  BY <1>1, MarkNodeIs
<1>3. CanRecur(n, Markings(bs), p, step)
  <2>1. step \in [1..n -> [Markings(bs) -> Markings(bs)]]
    <3> HIDE DEF n
    <3> QED
      BY <1>2
  <2> QED
    BY <1>1, <2>1 DEF CanRecur
<1>4. PICK f : Recurs(f, n, Markings(bs), p, step)
  BY <1>3, Recursion
<1>5. Def(f)
  <2>1. f = [i \in 0..n |-> f[i]] /\ f[0] = p
    BY <1>4 DEF Recurs
  <2>2. ASSUME NEW i \in 1..n
        PROVE  f[i] = MarkNode(f[i - 1], s[i])
    <3>1. i - 1 \in 0..n
      BY <1>1
    <3>2. f[i - 1] \in Markings(bs) /\ f[i] = step[i][f[i - 1]]
      BY <1>4, <3>1 DEF Recurs
    <3> QED
      BY <3>2
  <2>3. \A i \in 0..n : i = 0 \/ i \in 1..n
    BY <1>1
  <2> HIDE DEF n
  <2> QED
    BY <2>1, <2>2, <2>3
<1>6. Def(run)
  <2> HIDE DEF Def
  <2> QED
    BY <1>5
<1>7. /\ run = [i \in 0..n |-> run[i]] /\ run[0] = p
      /\ \A i \in 1..n : run[i] = MarkNode(run[i - 1], s[i])
  <2>1. 0 \in 0..n /\ \A i \in 1..n : i \in 0..n /\ i # 0
    BY <1>1
  <2> HIDE DEF run, n
  <2> QED
    BY <1>6, <2>1
<1>8. Recurs(run, n, Markings(bs), p, step)
  <2>1. ASSUME NEW i \in 1..n, run[i - 1] \in Markings(bs)
        PROVE  run[i] = step[i][run[i - 1]]
    <3> HIDE DEF run, n
    <3> QED
      BY <1>7, <2>1
  <2> HIDE DEF run, n, step
  <2> QED
    BY <1>3, <1>7, <2>1, RecursIn
<1>9. Loop(MarkNode, p, s) = run[n]
  BY DEF Loop
<1> HIDE DEF run
<1> QED
  BY <1>7, <1>8, <1>9 DEF Recurs

(* The same when a sequence of nodes is marked, with repetitions or         *)
(* without.                                                                 *)
LEMMA MarkAllIs ==
  ASSUME Len(nodes) \in Nat, NEW bs \in Seq(PBlock), NEW p \in Markings(bs), NEW s \in Seq(Node)
  PROVE  Loop(MarkNode, p, s) \in Markings(bs)
<1>1. PICK run : /\ run \in [0..Len(s) -> Markings(bs)] /\ run[0] = p
                 /\ \A i \in 1..Len(s) : run[i] = MarkNode(run[i - 1], s[i])
                 /\ Loop(MarkNode, p, s) = run[Len(s)]
  BY LoopMark
<1>2. Len(s) \in 0..Len(s)
  OBVIOUS
<1> QED
  BY <1>1, <1>2

-----------------------------------------------------------------------------
(* What the parts of the invariant depend on.                               *)

(* The classes divide the array whatever their counters are.                *)
LEMMA DividesSame ==
  ASSUME NEW a, NEW cl, NEW bs, NEW tt \in Seq(PBlock), Divides(a, cl, bs),
         DOMAIN tt = DOMAIN bs, \A c \in DOMAIN bs : SameRange(bs[c], tt[c])
  PROVE  Divides(a, cl, tt)
<1>1. /\ cl \in [Node -> DOMAIN bs]
      /\ \A c \in DOMAIN bs :
           /\ bs[c].first \in Node /\ bs[c].last \in Node /\ bs[c].first <= bs[c].last
           /\ bs[c].split >= bs[c].first - 1 /\ bs[c].split <= bs[c].last
      /\ \A i \in Node, c \in DOMAIN bs : cl[a[i]] = c <=> i \in bs[c].first..bs[c].last
  BY DEF Divides
<1>2. \A c \in DOMAIN bs : tt[c].first = bs[c].first /\ tt[c].last = bs[c].last /\ tt[c].split = bs[c].split
  BY DEF SameRange
<1>3. \A c \in DOMAIN tt :
        /\ tt[c].first \in Node /\ tt[c].last \in Node /\ tt[c].first <= tt[c].last
        /\ tt[c].split >= tt[c].first - 1 /\ tt[c].split <= tt[c].last
  BY <1>1, <1>2
<1>4. ASSUME NEW i \in Node, NEW c \in DOMAIN tt
      PROVE  cl[a[i]] = c <=> i \in tt[c].first..tt[c].last
  <2>1. tt[c].first = bs[c].first /\ tt[c].last = bs[c].last /\ c \in DOMAIN bs
    BY <1>2
  <2>2. cl[a[i]] = c <=> i \in bs[c].first..bs[c].last
    BY <1>1, <2>1
  <2> QED
    BY <2>1, <2>2, Zenon
<1>5. cl \in [Node -> DOMAIN tt]
  BY <1>1
<1> HIDE DEF Node
<1> QED
  BY <1>3, <1>4, <1>5 DEF Divides

(* The classes to split do not depend on their counters.                    *)
LEMMA MarkedSame ==
  ASSUME NEW bs, NEW tt, NEW s, Marked(bs, s),
         DOMAIN tt = DOMAIN bs, \A c \in DOMAIN bs : SameRange(bs[c], tt[c])
  PROVE  Marked(tt, s)
<1>1. \A c \in DOMAIN bs : tt[c].last = bs[c].last /\ tt[c].split = bs[c].split
  BY DEF SameRange
<1>2. s \in Seq(DOMAIN tt) /\ IsInjective(s)
  BY DEF Marked
<1>3. \A c \in DOMAIN tt : c \in Range(s) <=> tt[c].split < tt[c].last
  BY <1>1 DEF Marked
<1> QED
  BY <1>2, <1>3 DEF Marked

(* Classes with the same counters count the same edges.                     *)
LEMMA SameCountersIs ==
  ASSUME NEW b, NEW d, SameCounters(b, d)
  PROVE  /\ Exact(b) => Exact(d)
         /\ \A e : Incoming(d, e) = Incoming(b, e)
         /\ \A M : Counts(b, M) => Counts(d, M)
<1>1. \A e : Counter(d, e) = Counter(b, e)
  BY DEF SameCounters, Counter
<1>2. \A e : Incoming(d, e) = Incoming(b, e)
  BY <1>1 DEF Incoming
<1>3. Negative(d) = Negative(b)
  BY <1>1 DEF Negative
<1>4. Exact(b) => Exact(d)
  BY <1>3 DEF Exact, SameCounters
<1>5. \A M : Counts(b, M) => Counts(d, M)
  BY <1>2 DEF Counts
<1> QED
  BY <1>2, <1>4, <1>5

(* The invariant during refinement, from its parts.                         *)
LEMMA RefinedStep ==
  ASSUME IInv, phase' = "refine", UNCHANGED <<nodes, preds>>,
         Permutes(array'), Divides(array', class', blocks'), Marked(blocks', toDo'),
         Counted(class', blocks'), Scheduled(blocks', agenda', cur')
  PROVE  IInv'
<1>1. Node' = Node /\ Link' = Link
  BY DEF Node, Link
<1>2. Collected'
  BY <1>1 DEF IInv, Collected
<1>3. Frames' /\ Fresh'
  BY DEF Frames, Fresh, Unloaded
<1>4. Permutes(array)' /\ Divides(array, class, blocks)'
  BY <1>1 DEF Permutes, Divides
<1>5. Marked(blocks, toDo)' /\ Scheduled(blocks, agenda, cur)'
  BY DEF Marked, Scheduled
<1>6. Counted(class, blocks)'
  <2>1. \A M, e : Into(M, e)' = Into(M, e)
    BY <1>1 DEF Into
  <2>2. \A b, M : Counts(b, M) => Counts(b, M)'
    BY <2>1 DEF Counts
  <2>3. \A c : ClassOf(class', c) = ClassOf(class, c)'
    BY <1>1 DEF ClassOf
  <2> QED
    BY <2>2, <2>3 DEF Counted
<1> QED
  BY <1>2, <1>3, <1>4, <1>5, <1>6 DEF IInv, Refined

(* The parts in the state before.                                           *)
LEMMA RefineFacts ==
  ASSUME IInv, phase = "refine"
  PROVE  /\ Collected /\ Len(nodes) \in Nat
         /\ Permutes(array) /\ Divides(array, class, blocks) /\ Marked(blocks, toDo)
         /\ Counted(class, blocks) /\ Scheduled(blocks, agenda, cur)
<1>1. Collected /\ Len(nodes) \in Nat
  BY DEF IInv, Collected
<1> QED
  BY <1>1 DEF IInv, Refined

-----------------------------------------------------------------------------
(* Following an edge back.                                                  *)

(* The parents of a class are nodes.                                        *)
LEMMA ParentsIs ==
  ASSUME IInv, phase = "refine", NEW c \in DOMAIN blocks, NEW e
  PROVE  Parents(c, e) \in Seq(Node)
<1>1. /\ Collected /\ Len(nodes) \in Nat /\ Permutes(array) /\ Divides(array, class, blocks)
  BY RefineFacts
<1> DEFINE first == blocks[c].first
           last == blocks[c].last
           from(n) == Filter(Reverse(preds[n]), {p \in Range(preds[n]) : p.edge = e})
           of(k) == [i \in DOMAIN from(array[first + k - 1]) |-> from(array[first + k - 1])[i].parent]
           ss == [k \in 1..(last - first + 1) |-> of(k)]
<1>2. first \in Node /\ last \in Node
  BY <1>1 DEF Divides
<1>3. ASSUME NEW k \in 1..(last - first + 1)
      PROVE  of(k) \in Seq(Node)
  <2>1. first + k - 1 \in Node
    BY <1>1, <1>2 DEF Node
  <2>2. PICK n : n = array[first + k - 1]
    OBVIOUS
  <2>3. n \in Node
    BY <1>1, <2>1, <2>2, PermutesIs
  <2>4. n \in DOMAIN preds /\ preds[n] \in Seq(Link)
    BY <1>1, <2>3 DEF Collected, Node
  <2>5. Reverse(preds[n]) \in Seq(Link)
    BY <2>4, ReverseRange
  <2>6. from(n) \in Seq(Link)
    BY <2>5, FilterRange
  <2>7. PICK q : q = from(n)
    OBVIOUS
  <2>8. of(k) = [i \in DOMAIN q |-> q[i].parent]
    BY <2>2, <2>7
  <2>9. q \in Seq(Link)
    BY <2>6, <2>7
  <2> HIDE DEF of, from
  <2>10. /\ Len(q) \in Nat /\ DOMAIN q = 1..Len(q) /\ \A i \in 1..Len(q) : q[i].parent \in Node
    <3>1. \A x \in Link : x.parent \in Node
      BY DEF Link
    <3>2. Len(q) \in Nat /\ DOMAIN q = 1..Len(q) /\ \A i \in 1..Len(q) : q[i] \in Link
      BY <2>9
    <3> QED
      BY <3>1, <3>2
  <2>11. [i \in 1..Len(q) |-> q[i].parent] \in [1..Len(q) -> Node]
    BY <2>10
  <2>12. [i \in 1..Len(q) |-> q[i].parent] \in Seq(Node)
    BY <2>10, <2>11
  <2> QED
    BY <2>8, <2>10, <2>12
<1>4. last - first + 1 \in Int
  BY <1>1, <1>2 DEF Node
<1>5. PICK m \in Nat : 1..m = 1..(last - first + 1)
  <2> HIDE DEF first, last
  <2>1. PICK x : x = last - first + 1
    OBVIOUS
  <2>2. CASE x \in Nat
    BY <2>1, <2>2
  <2>3. CASE x \notin Nat
    <3>1. 1..0 = 1..x
      BY <1>4, <2>1, <2>3
    <3> QED
      BY <2>1, <3>1
  <2> QED
    BY <2>2, <2>3
<1>6. ss \in Seq(Seq(Node))
  <2>1. ss = [k \in 1..m |-> of(k)]
    BY <1>5
  <2>2. \A k \in 1..m : of(k) \in Seq(Node)
    BY <1>3, <1>5
  <2> HIDE DEF of, ss
  <2> QED
    BY <2>1, <2>2
<1>7. Parents(c, e) = FlattenSeq(ss)
  BY DEF Parents
<1> HIDE DEF ss
<1> QED
  BY <1>6, <1>7, FlattenRange

(* A class is in range while it is taken off the agenda with an edge.       *)
LEMMA OffAgendaIs ==
  ASSUME IInv, phase = "refine", NEW c \in DOMAIN blocks, NEW e \in Number,
         NEW bs, bs = [blocks EXCEPT ![c] = RemoveFromAgenda(@, e)]
  PROVE  /\ bs \in Seq(PBlock) /\ DOMAIN bs = DOMAIN blocks
         /\ Divides(array, class, bs) /\ Marked(bs, toDo) /\ Counted(class, bs)
         /\ \A d \in DOMAIN bs : bs[d].onAgenda <= blocks[d].onAgenda
<1>1. /\ Divides(array, class, blocks) /\ Marked(blocks, toDo) /\ Counted(class, blocks)
      /\ blocks \in Seq(PBlock)
  BY RefineFacts DEF Divides
<1>2. PICK b, f : b = blocks[c] /\ f = RemoveFromAgenda(b, e)
  OBVIOUS
<1>3. b \in PBlock
  BY <1>1, <1>2
<1>4. /\ f \in PBlock /\ SameRange(b, f)
      /\ \A j \in Number : Incoming(f, j) = Incoming(b, j)
      /\ Exact(b) => Exact(f)
      /\ f.onAgenda <= b.onAgenda
  BY <1>2, <1>3, RemoveIs
<1>5. bs = [blocks EXCEPT ![c] = f]
  BY <1>2
<1>6. bs \in Seq(PBlock) /\ DOMAIN bs = DOMAIN blocks /\ \A d \in DOMAIN blocks : bs[d] = IF d = c THEN f ELSE blocks[d]
  BY <1>1, <1>4, <1>5
<1>7. \A d \in DOMAIN blocks : SameRange(blocks[d], bs[d])
  BY <1>2, <1>4, <1>6 DEF SameRange
<1>8. Divides(array, class, bs) /\ Marked(bs, toDo)
  BY <1>1, <1>6, <1>7, DividesSame, MarkedSame
<1>9. Counted(class, bs)
  <2>1. ASSUME NEW d \in DOMAIN bs
        PROVE  Exact(bs[d]) /\ Counts(bs[d], ClassOf(class, d))
    <3>1. Exact(blocks[d]) /\ Counts(blocks[d], ClassOf(class, d))
      BY <1>1, <1>6 DEF Counted
    <3>2. CASE d = c
      <4>1. bs[d] = f /\ b = blocks[d]
        BY <1>2, <1>6, <3>2
      <4> QED
        BY <1>4, <3>1, <4>1 DEF Counts
    <3>3. CASE d # c
      <4>1. bs[d] = blocks[d]
        BY <1>6, <3>3
      <4> QED
        BY <3>1, <4>1
    <3> QED
      BY <3>2, <3>3
  <2> QED
    BY <2>1 DEF Counted
<1>10. ASSUME NEW d \in DOMAIN bs
       PROVE  bs[d].onAgenda <= blocks[d].onAgenda
  <2>1. blocks[d] \in PBlock
    BY <1>1, <1>6
  <2>2. blocks[d].onAgenda \in Int
    BY <2>1 DEF PBlock
  <2> QED
    BY <1>2, <1>4, <1>6, <2>2
<1> QED
  BY <1>6, <1>8, <1>9, <1>10

(* The edge that is followed is one with which the class is on the agenda.  *)
LEMMA PendingIs ==
  ASSUME IInv, phase = "refine", NEW c \in DOMAIN blocks, NEW P \in SUBSET Pending(c), P # {}
  PROVE  Min(P) \in P /\ Min(P) \in Number
<1>1. blocks[c] \in PBlock
  BY RefineFacts DEF Divides
<1>2. SizeOfIncoming(blocks[c]) \in Nat
  BY <1>1 DEF SizeOfIncoming, PBlock, Cells
<1>3. Pending(c) \subseteq Number
  BY <1>2 DEF Pending, Number
<1>4. P \in SUBSET Nat
  BY <1>3 DEF Number
<1>5. \E x \in P : \A y \in P : x <= y
  BY <1>4, Least
<1>6. Min(P) \in P
  BY <1>5 DEF Min
<1> QED
  BY <1>3, <1>6

(* The class that is followed back loses an edge of the agenda and keeps    *)
(* the number of its edges; the others keep their counters.                 *)
LEMMA FollowEdgeKeeps ==
  ASSUME IInv, FollowEdge
  PROVE  IInv'
<1>1. /\ phase = "refine" /\ cur # 0 /\ toDo = <<>> /\ phase' = "refine"
      /\ FollowBack(cur, edge') /\ UNCHANGED <<nodes, preds, class, agenda, cur>>
  BY DEF FollowEdge
<1>2. /\ Collected /\ Len(nodes) \in Nat
      /\ Permutes(array) /\ Divides(array, class, blocks) /\ Marked(blocks, toDo)
      /\ Counted(class, blocks) /\ Scheduled(blocks, agenda, cur)
  BY <1>1, RefineFacts
<1>3. cur \in DOMAIN blocks
  BY <1>1, <1>2 DEF Scheduled, Divides
<1>4. edge' \in Number
  <2>1. Pending(cur) # {}
    BY DEF FollowEdge
  <2>2. PICK P, later : P = Pending(cur) /\ later = {e \in P : e > edge}
    OBVIOUS
  <2>3. edge' = IF later = {} THEN Min(P) ELSE Min(later)
    BY <2>2 DEF FollowEdge
  <2>4. P # {} => Min(P) \in Number
    BY <1>1, <1>3, <2>2, PendingIs
  <2>5. later # {} => Min(later) \in Number
    BY <1>1, <1>3, <2>2, PendingIs
  <2> QED
    BY <2>1, <2>2, <2>3, <2>4, <2>5
<1> DEFINE parents == Parents(cur, edge')
           own == Filter(parents, {n \in DOMAIN nodes : class[n] = cur})
           others == Filter(parents, {n \in DOMAIN nodes : class[n] # cur})
           bs == [blocks EXCEPT ![cur] = RemoveFromAgenda(@, edge')]
           old == [array |-> array, blocks |-> bs, toDo |-> toDo]
           new == Loop(MarkNode, old, others \o Reverse(own))
<1>5. array' = new.array /\ blocks' = new.blocks /\ toDo' = new.toDo
  BY <1>1 DEF FollowBack
<1>6. others \o Reverse(own) \in Seq(Node)
  <2>1. parents \in Seq(Node)
    BY <1>1, <1>3, ParentsIs
  <2> HIDE DEF parents
  <2>2. own \in Seq(Node) /\ others \in Seq(Node)
    BY <2>1, FilterRange
  <2> HIDE DEF own, others
  <2>3. Reverse(own) \in Seq(Node)
    BY <2>2, ReverseRange
  <2> QED
    BY <2>2, <2>3, JoinRange
<1> HIDE DEF parents, own, others
<1>7. /\ bs \in Seq(PBlock) /\ DOMAIN bs = DOMAIN blocks
      /\ Divides(array, class, bs) /\ Marked(bs, toDo) /\ Counted(class, bs)
      /\ \A d \in DOMAIN bs : bs[d].onAgenda <= blocks[d].onAgenda
  <2>1. PICK e : e = edge'
    OBVIOUS
  <2>2. e \in Number /\ bs = [blocks EXCEPT ![cur] = RemoveFromAgenda(@, e)]
    BY <1>4, <2>1
  <2> HIDE DEF bs
  <2> QED
    BY <1>1, <1>3, <2>2, OffAgendaIs
<1> HIDE DEF bs
<1>8. old \in Markings(bs)
  <2>1. array \in Seq(Node) /\ toDo \in Seq(DOMAIN bs)
    BY <1>2, <1>7 DEF Permutes, Marked
  <2>2. \A c \in DOMAIN bs : SameCounters(bs[c], bs[c])
    BY DEF SameCounters
  <2> QED
    BY <1>2, <1>7, <2>1, <2>2 DEF Markings
<1>9. new \in Markings(bs)
  <2> HIDE DEF old
  <2> QED
    BY <1>2, <1>6, <1>7, <1>8, MarkAllIs
<1> HIDE DEF new
<1>10. /\ Permutes(array') /\ Divides(array', class, blocks') /\ Marked(blocks', toDo')
       /\ DOMAIN blocks' = DOMAIN bs
       /\ \A c \in DOMAIN bs : SameCounters(bs[c], blocks'[c])
  BY <1>5, <1>9 DEF Markings
<1>11. Counted(class, blocks')
  <2>1. ASSUME NEW d \in DOMAIN blocks'
        PROVE  Exact(blocks'[d]) /\ Counts(blocks'[d], ClassOf(class, d))
    <3>1. Exact(bs[d]) /\ Counts(bs[d], ClassOf(class, d)) /\ SameCounters(bs[d], blocks'[d])
      BY <1>7, <1>10 DEF Counted
    <3> QED
      BY <3>1, SameCountersIs
  <2> QED
    BY <2>1 DEF Counted
<1>12. Scheduled(blocks', agenda, cur)
  <2>1. DOMAIN blocks' = DOMAIN blocks /\ Len(blocks') = Len(blocks)
    <3>1. blocks' \in Seq(PBlock) /\ blocks \in Seq(PBlock)
      BY <1>2, <1>10 DEF Divides
    <3> QED
      BY <1>7, <1>10, <3>1
  <2>2. ASSUME NEW d \in DOMAIN blocks', blocks'[d].onAgenda > 0
        PROVE  blocks[d].onAgenda > 0
    <3>1. blocks'[d].onAgenda = bs[d].onAgenda /\ bs[d].onAgenda <= blocks[d].onAgenda
      BY <1>7, <1>10 DEF SameCounters
    <3>2. bs[d] \in PBlock /\ blocks[d] \in PBlock
      BY <1>2, <1>7, <2>1 DEF Divides
    <3>3. bs[d].onAgenda \in Int /\ blocks[d].onAgenda \in Int
      BY <3>2 DEF PBlock
    <3> QED
      BY <2>2, <3>1, <3>3
  <2> QED
    BY <1>2, <2>1, <2>2 DEF Scheduled
<1> QED
  BY <1>1, <1>10, <1>11, <1>12, RefinedStep

-----------------------------------------------------------------------------
(* The other steps of the refinement that split no class.                   *)

(* A stack is its top and what is below.                                    *)
LEMMA FrontLast ==
  ASSUME NEW T, NEW s \in Seq(T), s # <<>>
  PROVE  Front(s) \in Seq(T) /\ Last(s) \in T /\ Range(s) = Range(Front(s)) \cup {Last(s)}
<1>1. Len(s) \in Nat \ {0}
  OBVIOUS
<1>2. Last(s) = s[Len(s)] /\ Front(s) = SubSeq(s, 1, Len(s) - 1)
  BY DEF Last, Front
<1>3. /\ Front(s) \in Seq(T) /\ Len(Front(s)) = Len(s) - 1
      /\ \A i \in 1..(Len(s) - 1) : Front(s)[i] = s[i]
  <2>1. PICK n \in Nat : n = Len(s) - 1
    BY <1>1
  <2>2. PICK f : f = SubSeq(s, 1, n)
    OBVIOUS
  <2>3. Len(s) = n + 1
    BY <1>1, <2>1
  <2>4. f \in Seq(T) /\ Len(f) = n /\ \A i \in 1..n : f[i] = s[i]
    BY <2>2, <2>3
  <2> QED
    BY <1>2, <2>1, <2>2, <2>4
<1>4. Last(s) \in T
  BY <1>1, <1>2
<1>5. DOMAIN s = (1..(Len(s) - 1)) \cup {Len(s)} /\ DOMAIN Front(s) = 1..(Len(s) - 1)
  BY <1>1, <1>3
<1>6. Range(s) = Range(Front(s)) \cup {Last(s)}
  BY <1>2, <1>3, <1>5 DEF Range
<1> QED
  BY <1>3, <1>4, <1>6

(* The class that is taken from the stack becomes the current one.          *)
LEMMA PopAgendaKeeps ==
  ASSUME IInv, PopAgenda
  PROVE  IInv'
<1>1. /\ phase = "refine" /\ phase' = "refine" /\ cur = 0 /\ agenda # <<>>
      /\ cur' = Last(agenda) /\ agenda' = Front(agenda)
      /\ UNCHANGED <<nodes, preds, array, class, blocks, toDo>>
  BY DEF PopAgenda, loader, IsEmpty
<1>2. /\ Permutes(array) /\ Divides(array, class, blocks) /\ Marked(blocks, toDo)
      /\ Counted(class, blocks) /\ Scheduled(blocks, agenda, cur)
  BY <1>1, RefineFacts
<1>3. /\ agenda \in Seq(DOMAIN blocks)
      /\ \A d \in DOMAIN blocks : blocks[d].onAgenda > 0 => d \in Range(agenda) \cup {0}
  BY <1>1, <1>2 DEF Scheduled
<1>4. /\ agenda' \in Seq(DOMAIN blocks) /\ cur' \in DOMAIN blocks
      /\ Range(agenda) = Range(agenda') \cup {cur'}
  <2>1. PICK T, s, f, l : T = DOMAIN blocks /\ s = agenda /\ f = Front(s) /\ l = Last(s)
    OBVIOUS
  <2>2. s \in Seq(T) /\ s # <<>>
    BY <1>1, <1>3, <2>1
  <2>3. f \in Seq(T) /\ l \in T /\ Range(s) = Range(f) \cup {l}
    BY <2>1, <2>2, FrontLast
  <2> QED
    BY <1>1, <2>1, <2>3
<1>5. DOMAIN blocks = 1..Len(blocks) /\ Len(blocks) \in Nat
  BY <1>2 DEF Divides
<1>6. Scheduled(blocks, agenda', cur')
  <2>1. \A d \in DOMAIN blocks : d # 0
    BY <1>5
  <2>2. cur' \in 0..Len(blocks)
    BY <1>4, <1>5
  <2> QED
    BY <1>3, <1>4, <2>1, <2>2 DEF Scheduled
<1> QED
  BY <1>1, <1>2, <1>6, RefinedStep

(* The current class is left when it is on the agenda with no edge.         *)
LEMMA ClassDoneKeeps ==
  ASSUME IInv, ClassDone
  PROVE  IInv'
<1>1. /\ phase = "refine" /\ phase' = "refine" /\ blocks[cur].onAgenda = 0 /\ cur' = 0
      /\ UNCHANGED <<nodes, preds, array, class, blocks, agenda, toDo>>
  BY DEF ClassDone, loader
<1>2. /\ Permutes(array) /\ Divides(array, class, blocks) /\ Marked(blocks, toDo)
      /\ Counted(class, blocks) /\ Scheduled(blocks, agenda, cur)
  BY <1>1, RefineFacts
<1>3. Len(blocks) \in Nat
  BY <1>2 DEF Divides
<1>4. Scheduled(blocks, agenda, 0)
  <2>1. \A d \in DOMAIN blocks : blocks[d].onAgenda > 0 => d # cur
    BY <1>1
  <2>2. 0 \in 0..Len(blocks)
    BY <1>3
  <2> QED
    BY <1>2, <2>1, <2>2 DEF Scheduled
<1> QED
  BY <1>1, <1>2, <1>4, RefinedStep

(* A class all of whose nodes were marked is as it was.                     *)
LEMMA AllMarkedKeeps ==
  ASSUME IInv, AllMarked
  PROVE  IInv'
<1> DEFINE h == Head(toDo)
           b == [blocks[h] EXCEPT !.split = blocks[h].last]
<1>1. /\ phase = "refine" /\ phase' = "refine" /\ toDo # <<>>
      /\ blocks' = [blocks EXCEPT ![h].split = blocks[h].last] /\ toDo' = Tail(toDo)
      /\ UNCHANGED <<nodes, preds, array, class, agenda, cur>>
  BY DEF AllMarked, loader
<1>2. /\ Permutes(array) /\ Divides(array, class, blocks) /\ Marked(blocks, toDo)
      /\ Counted(class, blocks) /\ Scheduled(blocks, agenda, cur)
  BY <1>1, RefineFacts
<1>3. /\ toDo' \in Seq(DOMAIN blocks) /\ h \in DOMAIN blocks
      /\ Range(toDo) = {h} \cup Range(toDo')
      /\ h \notin Range(toDo') /\ IsInjective(toDo')
  <2>1. PICK T, s, f, x : T = DOMAIN blocks /\ s = toDo /\ f = Tail(s) /\ x = Head(s)
    OBVIOUS
  <2>2. s \in Seq(T) /\ IsInjective(s) /\ s # <<>>
    BY <1>1, <1>2, <2>1 DEF Marked
  <2>3. f \in Seq(T) /\ x \in T /\ Range(s) = {x} \cup Range(f) /\ x \notin Range(f) /\ IsInjective(f)
    BY <2>1, <2>2, TailRange
  <2> QED
    BY <1>1, <2>1, <2>3
<1>4. b \in PBlock /\ SameCounters(blocks[h], b) /\ b.split = blocks[h].last
  <2>1. blocks[h] \in PBlock
    BY <1>2, <1>3 DEF Divides
  <2>2. blocks[h].last \in Int
    BY <2>1 DEF PBlock
  <2> QED
    BY <2>1, <2>2, SplitIs
<1>5. blocks' = [blocks EXCEPT ![h] = b]
  BY <1>1
<1> HIDE DEF h, b
<1>6. /\ blocks' \in Seq(PBlock) /\ DOMAIN blocks' = DOMAIN blocks /\ Len(blocks') = Len(blocks)
      /\ \A d \in DOMAIN blocks : blocks'[d] = IF d = h THEN b ELSE blocks[d]
  <2>1. blocks \in Seq(PBlock)
    BY <1>2 DEF Divides
  <2> QED
    BY <1>3, <1>4, <1>5, <2>1
<1>7. \A d \in DOMAIN blocks : SameCounters(blocks[d], blocks'[d])
  BY <1>4, <1>6 DEF SameCounters
<1>8. Divides(array, class, blocks')
  <2>1. /\ class \in [Node -> DOMAIN blocks]
        /\ \A c \in DOMAIN blocks :
             /\ blocks[c].first \in Node /\ blocks[c].last \in Node /\ blocks[c].first <= blocks[c].last
             /\ blocks[c].split >= blocks[c].first - 1 /\ blocks[c].split <= blocks[c].last
        /\ \A i \in Node, c \in DOMAIN blocks : class[array[i]] = c <=> i \in blocks[c].first..blocks[c].last
    BY <1>2 DEF Divides
  <2>2. \A c \in DOMAIN blocks : blocks'[c].first = blocks[c].first /\ blocks'[c].last = blocks[c].last
    BY <1>7 DEF SameCounters
  <2>3. ASSUME NEW c \in DOMAIN blocks'
        PROVE  blocks'[c].split >= blocks'[c].first - 1 /\ blocks'[c].split <= blocks'[c].last
    <3>1. blocks'[c].first = blocks[c].first /\ blocks'[c].last = blocks[c].last /\ blocks'[c].split \in {blocks[c].split, blocks[c].last}
      BY <1>4, <1>6, <2>2
    <3>2. /\ blocks[c].first \in Int /\ blocks[c].last \in Int /\ blocks[c].first <= blocks[c].last
          /\ blocks[c].split >= blocks[c].first - 1 /\ blocks[c].split <= blocks[c].last
      BY <1>6, <2>1 DEF Node
    <3> QED
      BY <3>1, <3>2
  <2>4. ASSUME NEW i \in Node, NEW c \in DOMAIN blocks'
        PROVE  class[array[i]] = c <=> i \in blocks'[c].first..blocks'[c].last
    <3>1. blocks'[c].first = blocks[c].first /\ blocks'[c].last = blocks[c].last /\ c \in DOMAIN blocks
      BY <1>6, <2>2
    <3>2. class[array[i]] = c <=> i \in blocks[c].first..blocks[c].last
      BY <2>1, <3>1
    <3> QED
      BY <3>1, <3>2, Zenon
  <2>5. \A c \in DOMAIN blocks' : blocks'[c].first \in Node /\ blocks'[c].last \in Node /\ blocks'[c].first <= blocks'[c].last
    BY <1>6, <2>1, <2>2
  <2>6. class \in [Node -> DOMAIN blocks']
    BY <1>6, <2>1
  <2> HIDE DEF Node
  <2> QED
    BY <1>6, <2>3, <2>4, <2>5, <2>6 DEF Divides
<1>9. Marked(blocks', toDo')
  <2>1. ASSUME NEW c \in DOMAIN blocks'
        PROVE  c \in Range(toDo') <=> blocks'[c].split < blocks'[c].last
    <3>1. c \in Range(toDo) <=> blocks[c].split < blocks[c].last
      BY <1>2, <1>6 DEF Marked
    <3>2. CASE c = h
      <4>1. blocks'[c].split = blocks'[c].last /\ blocks'[c].last \in Int
        BY <1>3, <1>4, <1>6, <3>2 DEF SameCounters, PBlock
      <4> QED
        BY <1>3, <3>2, <4>1
    <3>3. CASE c # h
      BY <1>3, <1>6, <3>1, <3>3
    <3> QED
      BY <3>2, <3>3
  <2> QED
    BY <1>3, <1>6, <2>1 DEF Marked
<1>10. Counted(class, blocks')
  <2>1. ASSUME NEW d \in DOMAIN blocks'
        PROVE  Exact(blocks'[d]) /\ Counts(blocks'[d], ClassOf(class, d))
    <3>1. Exact(blocks[d]) /\ Counts(blocks[d], ClassOf(class, d)) /\ SameCounters(blocks[d], blocks'[d])
      BY <1>2, <1>6, <1>7 DEF Counted
    <3> QED
      BY <3>1, SameCountersIs
  <2> QED
    BY <2>1 DEF Counted
<1>11. Scheduled(blocks', agenda, cur)
  <2>1. \A d \in DOMAIN blocks : blocks'[d].onAgenda = blocks[d].onAgenda
    BY <1>7 DEF SameCounters
  <2> QED
    BY <1>2, <1>6, <2>1 DEF Scheduled
<1> QED
  BY <1>1, <1>2, <1>8, <1>9, <1>10, <1>11, RefinedStep

(* At the end only the edges remain of what is known.                       *)
LEMMA DoneKeeps ==
  ASSUME IInv, phase' = "done", UNCHANGED <<nodes, preds>>
  PROVE  IInv'
<1>1. Node' = Node /\ Link' = Link
  BY DEF Node, Link
<1> QED
  BY <1>1 DEF IInv, Collected, Frames, Fresh, Refined, Unloaded

(* Nothing is claimed when the partition has been used.                     *)
LEMMA ReduceGraphKeeps ==
  ASSUME IInv, ReduceGraph \/ NothingToDo
  PROVE  IInv'
<1>1. phase' = "done" /\ UNCHANGED <<nodes, preds>>
  BY DEF ReduceGraph, NothingToDo, loader
<1> QED
  BY <1>1, DoneKeeps

-----------------------------------------------------------------------------
(* Splitting a class.                                                       *)

(* The nodes of a class are those in its range.                             *)
LEMMA MembersIs ==
  ASSUME Len(nodes) \in Nat, NEW a, Permutes(a), NEW cl, NEW bs, Divides(a, cl, bs), NEW c \in DOMAIN bs
  PROVE  ClassOf(cl, c) = {a[i] : i \in bs[c].first..bs[c].last}
<1>1. /\ a \in [Node -> Node]
      /\ \A n \in Node : LookUp(a, n) \in Node /\ a[LookUp(a, n)] = n
  BY PermutesIs
<1>2. /\ bs[c].first \in Node /\ bs[c].last \in Node
      /\ \A i \in Node : cl[a[i]] = c <=> i \in bs[c].first..bs[c].last
  BY DEF Divides
<1>3. PICK first, last : first = bs[c].first /\ last = bs[c].last
  OBVIOUS
<1>4. first..last \subseteq Node
  BY <1>2, <1>3 DEF Node
<1>5. ASSUME NEW n, n \in ClassOf(cl, c)
      PROVE  \E i \in first..last : n = a[i]
  <2>1. n \in Node /\ cl[n] = c
    BY <1>5 DEF ClassOf
  <2>2. LookUp(a, n) \in Node /\ a[LookUp(a, n)] = n
    BY <1>1, <2>1
  <2>3. PICK i : i = LookUp(a, n)
    OBVIOUS
  <2>4. i \in first..last
    BY <1>2, <1>3, <2>1, <2>2, <2>3
  <2> QED
    BY <2>2, <2>3, <2>4
<1>6. ASSUME NEW i \in first..last
      PROVE  a[i] \in ClassOf(cl, c)
  <2>1. i \in Node
    BY <1>4
  <2> HIDE DEF Node
  <2> QED
    BY <1>1, <1>2, <1>3, <2>1 DEF ClassOf
<1> QED
  BY <1>3, <1>5, <1>6

Members(a, first, last) == {a[i] : i \in first..last}

(* The edges that are counted for the nodes at first to last lead into      *)
(* these nodes.                                                             *)
LEMMA MovedIs ==
  ASSUME Collected, NEW a, Permutes(a),
         NEW first \in Node, NEW last \in Node, first <= last,
         NEW t, t = EdgesInto(a, first, last)
  PROVE  /\ t \in Seq(Number)
         /\ \A e \in Number : TimesUpTo(t, Len(t), e) = Cardinality(Into(Members(a, first, last), e))
<1> QED
  BY EdgesIntoIs DEF Members

(* The half of a class that keeps its place.                                *)
LeftOf(b) == Loop(Decrement, [b EXCEPT !.last = b.split], EdgesInto(array, b.split + 1, b.last))
IsLeft(b, left) ==
  /\ left \in PBlock /\ left.first = b.first /\ left.last = b.split /\ left.split = b.split
  /\ Exact(left) /\ left.onAgenda <= b.onAgenda
  /\ Counts(left, {array[i] : i \in b.first..b.split})

(* Its counters are exact when the edges into the nodes that move have      *)
(* been taken off.                                                          *)
LEMMA LeftHalf ==
  ASSUME IInv, phase = "refine", NEW h \in DOMAIN blocks, NEW b, b = blocks[h],
         b.first <= b.split, b.split < b.last, NEW left, left = LeftOf(b)
  PROVE  IsLeft(b, left)
<1>0. PICK moved : moved = EdgesInto(array, b.split + 1, b.last)
  OBVIOUS
<1>1. /\ Collected /\ Len(nodes) \in Nat
      /\ Permutes(array) /\ Divides(array, class, blocks) /\ Counted(class, blocks)
  BY RefineFacts
<1>2. b \in PBlock /\ b.first \in Node /\ b.last \in Node /\ b.split \in Int
  <2>1. b \in PBlock /\ b.first \in Node /\ b.last \in Node
    BY <1>1 DEF Divides
  <2> QED
    BY <2>1 DEF PBlock
<1>3. PICK first, middle, next, last :
        first = b.first /\ middle = b.split /\ next = b.split + 1 /\ last = b.last
  OBVIOUS
<1>4. /\ first \in Node /\ middle \in Node /\ next \in Node /\ last \in Node
      /\ first <= middle /\ next = middle + 1 /\ next <= last
  BY <1>1, <1>2, <1>3 DEF Node
<1> DEFINE L == {array[i] : i \in first..middle}
           M == {array[i] : i \in next..last}
<1>5. /\ array \in [Node -> Node]
      /\ \A x, y \in Node : array[x] = array[y] => x = y
  BY <1>1, PermutesIs
<1>6. /\ first..middle \subseteq Node /\ next..last \subseteq Node
      /\ first..last = (first..middle) \cup (next..last)
      /\ (first..middle) \cap (next..last) = {}
  BY <1>1, <1>4 DEF Node
<1>7. L \in SUBSET Node /\ M \in SUBSET Node /\ L \cap M = {}
  <2> HIDE DEF Node
  <2> QED
    BY <1>5, <1>6
<1>8. ClassOf(class, h) = L \cup M
  <2>1. ClassOf(class, h) = {array[i] : i \in first..last}
    <3>1. ClassOf(class, h) = {array[i] : i \in blocks[h].first..blocks[h].last}
      BY <1>1, MembersIs
    <3> QED
      BY <1>3, <3>1
  <2> QED
    BY <1>6, <2>1
<1>9. /\ moved \in Seq(Number)
      /\ \A e \in Number : TimesUpTo(moved, Len(moved), e) = Cardinality(Into(M, e))
  <2>1. moved = EdgesInto(array, next, last)
    BY <1>0, <1>3
  <2>2. Collected /\ Permutes(array) /\ next \in Node /\ last \in Node /\ next <= last
    BY <1>1, <1>4
  <2>3. M = Members(array, next, last)
    BY DEF Members
  <2> HIDE DEF M
  <2> QED
    BY <2>1, <2>2, <2>3, MovedIs
<1> HIDE DEF L, M
<1>10. ASSUME NEW e \in Number
       PROVE  /\ Incoming(b, e) = Cardinality(Into(L, e)) + Cardinality(Into(M, e))
              /\ Cardinality(Into(L, e)) \in Nat /\ Cardinality(Into(M, e)) \in Nat
  <2>1. Cardinality(Into(L \cup M, e)) = Cardinality(Into(L, e)) + Cardinality(Into(M, e))
    BY <1>1, <1>7, IntoBoth
  <2>2. Cardinality(Into(L, e)) \in Nat /\ Cardinality(Into(M, e)) \in Nat
    BY <1>1, <1>7, IntoFinite
  <2>3. Incoming(b, e) = Cardinality(Into(L \cup M, e))
    BY <1>1, <1>8 DEF Counted, Counts
  <2> QED
    BY <2>1, <2>2, <2>3
<1>11. PICK f : f = [b EXCEPT !.last = middle]
  OBVIOUS
<1>12. /\ f \in PBlock /\ f.incoming = b.incoming /\ f.onAgenda = b.onAgenda
       /\ f.first = b.first /\ f.split = b.split /\ f.last = middle
  BY <1>2, <1>3, <1>11, LastIs
<1>13. Exact(f) /\ \A e : Incoming(f, e) = Incoming(b, e)
  <2>1. \A e : Counter(f, e) = Counter(b, e)
    BY <1>12 DEF Counter
  <2>2. Negative(f) = Negative(b)
    BY <2>1 DEF Negative
  <2>3. Exact(b)
    BY <1>1 DEF Counted
  <2> QED
    BY <1>12, <2>1, <2>2, <2>3 DEF Exact, Incoming
<1>14. \A e \in Number : TimesUpTo(moved, Len(moved), e) <= Incoming(f, e)
  <2>1. ASSUME NEW e \in Number
        PROVE  TimesUpTo(moved, Len(moved), e) <= Incoming(f, e)
    <3>1. PICK l \in Nat, m \in Nat : l = Cardinality(Into(L, e)) /\ m = Cardinality(Into(M, e))
      BY <1>10
    <3>2. Incoming(f, e) = l + m /\ TimesUpTo(moved, Len(moved), e) = m
      BY <1>9, <1>10, <1>13, <3>1
    <3> QED
      BY <3>1, <3>2
  <2> QED
    BY <2>1
<1>15. /\ left \in PBlock /\ SameRange(f, left) /\ Exact(left) /\ left.onAgenda <= f.onAgenda
       /\ \A e \in Number : Incoming(left, e) = Incoming(f, e) - TimesUpTo(moved, Len(moved), e)
  <2>1. left = Loop(Decrement, f, moved)
    BY <1>0, <1>3, <1>11 DEF LeftOf
  <2> QED
    BY <1>9, <1>12, <1>13, <1>14, <2>1, LeftIs
<1>16. Counts(left, L)
  <2>1. ASSUME NEW e \in Number
        PROVE  Incoming(left, e) = Cardinality(Into(L, e))
    <3>1. PICK l \in Nat, m \in Nat : l = Cardinality(Into(L, e)) /\ m = Cardinality(Into(M, e))
      BY <1>10
    <3>2. Incoming(f, e) = l + m /\ TimesUpTo(moved, Len(moved), e) = m
      BY <1>9, <1>10, <1>13, <3>1
    <3>3. Incoming(left, e) = (l + m) - m
      BY <1>15, <3>2
    <3> QED
      BY <3>1, <3>3
  <2> QED
    BY <2>1 DEF Counts
<1>17. L = {array[i] : i \in b.first..b.split}
  BY <1>3 DEF L
<1> QED
  BY <1>3, <1>12, <1>15, <1>16, <1>17 DEF SameRange, IsLeft

(* Both halves, after it was decided which of them is followed back.        *)
HalvesOf(b) ==
  Loop(Schedule,
       [old |-> LeftOf(b), new |-> NewClass(array, b.split + 1, b.last), agenda |-> agenda],
       [e \in 1..(SizeOfIncoming(LeftOf(b)) + 1) |-> e])
SplitTo(b, s) ==
  /\ s \in Halves /\ Range(agenda) \subseteq Range(s.agenda)
  /\ s.old.first = b.first /\ s.old.last = b.split /\ s.old.split = b.split
  /\ Counts(s.old, {array[i] : i \in b.first..b.split})
  /\ s.new.first = b.split + 1 /\ s.new.last = b.last /\ s.new.split = b.last
  /\ Counts(s.new, {array[i] : i \in (b.split + 1)..b.last})

(* Both halves are exact after scheduling, and in the stack if they are     *)
(* on the agenda.                                                           *)
LEMMA SplitHalves ==
  ASSUME IInv, phase = "refine", toDo # <<>>, NEW b, b = blocks[Head(toDo)],
         b.first <= b.split, b.split < b.last, NEW s, s = HalvesOf(b)
  PROVE  SplitTo(b, s)
<1>0. PICK left, new : left = LeftOf(b) /\ new = NewClass(array, b.split + 1, b.last)
  OBVIOUS
<1>1. /\ Collected /\ Len(nodes) \in Nat /\ Permutes(array) /\ Divides(array, class, blocks)
      /\ Marked(blocks, toDo) /\ Scheduled(blocks, agenda, cur)
  BY RefineFacts
<1>2. blocks \in Seq(PBlock) /\ toDo \in Seq(DOMAIN blocks) /\ Head(toDo) \in DOMAIN blocks
  <2>1. blocks \in Seq(PBlock) /\ toDo \in Seq(DOMAIN blocks)
    BY <1>1 DEF Divides, Marked
  <2> QED
    BY <2>1
<1>3. /\ left \in PBlock /\ left.first = b.first /\ left.last = b.split /\ left.split = b.split
      /\ Exact(left) /\ left.onAgenda <= b.onAgenda
      /\ Counts(left, {array[i] : i \in b.first..b.split})
  <2>1. PICK h : h = Head(toDo)
    OBVIOUS
  <2>2. h \in DOMAIN blocks /\ b = blocks[h] /\ left = LeftOf(b)
    BY <1>0, <1>2, <2>1
  <2>3. IsLeft(b, left)
    BY <2>2, LeftHalf
  <2> QED
    BY <2>3 DEF IsLeft
<1>4. b \in PBlock /\ b.first \in Node /\ b.last \in Node /\ b.split \in Int
  <2>1. b \in PBlock /\ b.first \in Node /\ b.last \in Node
    BY <1>1, <1>2 DEF Divides
  <2> QED
    BY <2>1 DEF PBlock
<1>5. /\ new \in PBlock /\ new.first = b.split + 1 /\ new.last = b.last /\ new.split = b.last
      /\ new.onAgenda = 0 /\ Exact(new)
      /\ Counts(new, {array[i] : i \in (b.split + 1)..b.last})
  <2>1. PICK next, last : next = b.split + 1 /\ last = b.last
    OBVIOUS
  <2>2. next \in Node /\ last \in Node /\ next <= last
    BY <1>1, <1>4, <2>1 DEF Node
  <2>3. new = NewClass(array, next, last)
    BY <1>0, <2>1
  <2>4. /\ new \in PBlock /\ new.first = next /\ new.last = last /\ new.split = last
        /\ new.onAgenda = 0 /\ Exact(new)
        /\ Counts(new, {array[i] : i \in next..last})
    BY <1>1, <2>2, <2>3, NewClassIs
  <2> QED
    BY <2>1, <2>4
<1>6. PICK q : q = [old |-> left, new |-> new, agenda |-> agenda]
  OBVIOUS
<1>7. q \in Halves
  <2>1. q.old = left /\ q.new = new /\ q.agenda = agenda
    BY <1>6
  <2>2. agenda \in Seq(1..(Len(blocks) + 1))
    <3>1. agenda \in Seq(DOMAIN blocks) /\ \A e \in DOMAIN blocks : e \in 1..(Len(blocks) + 1)
      BY <1>1, <1>2 DEF Scheduled
    <3>2. PICK T, D : T = DOMAIN blocks /\ D = 1..(Len(blocks) + 1)
      OBVIOUS
    <3>3. agenda \in Seq(T) /\ \A e \in T : e \in D
      BY <3>1, <3>2
    <3>4. \A e \in Range(agenda) : e \in D
      BY <3>3, RangeIn
    <3> QED
      BY <3>2, <3>3, <3>4, SeqIn
  <2>3. left.onAgenda > 0 => Head(toDo) \in Range(agenda) \cup {cur}
    <3>1. left.onAgenda \in Int /\ b.onAgenda \in Int
      BY <1>3, <1>4 DEF PBlock
    <3>2. b.onAgenda > 0 => Head(toDo) \in Range(agenda) \cup {cur}
      BY <1>1, <1>2 DEF Scheduled
    <3>3. left.onAgenda <= b.onAgenda
      BY <1>3
    <3> QED
      BY <3>1, <3>2, <3>3
  <2>4. ~(new.onAgenda > 0)
    BY <1>5
  <2>5. q \in [old : PBlock, new : PBlock, agenda : Seq(1..(Len(blocks) + 1))]
    BY <1>3, <1>5, <1>6, <2>2
  <2> QED
    BY <1>3, <1>5, <2>1, <2>3, <2>4, <2>5 DEF Halves
<1>8. PICK es : es = [e \in 1..(SizeOfIncoming(left) + 1) |-> e]
  OBVIOUS
<1>9. es \in Seq(Number)
  <2>1. SizeOfIncoming(left) \in Nat
    <3>1. left \in PBlock
      BY <1>3
    <3> QED
      BY <3>1 DEF SizeOfIncoming, PBlock, Cells
  <2>2. PICK n \in Nat : n = SizeOfIncoming(left) + 1
    BY <2>1
  <2>3. es = [e \in 1..n |-> e]
    BY <1>8, <2>2
  <2>4. es \in [1..n -> Number]
    BY <2>3 DEF Number
  <2> QED
    BY <2>2, <2>4
<1>10. s \in Halves /\ Grown(q, s)
  <2>1. s = Loop(Schedule, q, es)
    BY <1>0, <1>6, <1>8 DEF HalvesOf
  <2> QED
    BY <1>2, <1>7, <1>9, <2>1, ScheduleAllIs
<1>11. Alike(left, s.old) /\ Alike(new, s.new) /\ Range(agenda) \subseteq Range(s.agenda)
  BY <1>6, <1>10 DEF Grown
<1>12. Counts(s.old, {array[i] : i \in b.first..b.split})
  BY <1>3, <1>11 DEF Counts, Alike
<1>13. Counts(s.new, {array[i] : i \in (b.split + 1)..b.last})
  BY <1>5, <1>11 DEF Counts, Alike
<1>14. SameRange(left, s.old) /\ SameRange(new, s.new)
  BY <1>11 DEF Alike
<1>15. s.old.first = b.first /\ s.old.last = b.split /\ s.old.split = b.split
  BY <1>3, <1>14 DEF SameRange
<1>16. s.new.first = b.split + 1 /\ s.new.last = b.last /\ s.new.split = b.last
  BY <1>5, <1>14 DEF SameRange
<1> QED
  BY <1>10, <1>11, <1>12, <1>13, <1>15, <1>16 DEF SplitTo

(* The counters of both halves are exact, and no other class changes.       *)
LEMMA SplitClassKeeps ==
  ASSUME IInv, SplitClass
  PROVE  IInv'
<1>1. /\ phase = "refine" /\ phase' = "refine" /\ toDo # <<>> /\ toDo' = Tail(toDo)
      /\ UNCHANGED <<nodes, preds, array, cur>>
  BY DEF SplitClass, loader
<1>2. /\ Collected /\ Len(nodes) \in Nat
      /\ Permutes(array) /\ Divides(array, class, blocks) /\ Marked(blocks, toDo)
      /\ Counted(class, blocks) /\ Scheduled(blocks, agenda, cur)
  BY <1>1, RefineFacts
<1>3. PICK h, b, s : h = Head(toDo) /\ b = blocks[Head(toDo)] /\ s = HalvesOf(b)
  OBVIOUS
<1>4. PICK size, next : size = Len(blocks) + 1 /\ next = b.split + 1
  OBVIOUS
<1>5. /\ b.split >= b.first
      /\ class' = [n \in DOMAIN class |-> IF LookUp(array, n) \in next..b.last THEN size ELSE class[n]]
      /\ blocks' = Append([blocks EXCEPT ![h] = s.old], s.new)
      /\ agenda' = s.agenda
  BY <1>3, <1>4 DEF SplitClass, HalvesOf, LeftOf
<1>6. /\ toDo' \in Seq(DOMAIN blocks) /\ h \in DOMAIN blocks
      /\ Range(toDo) = {h} \cup Range(toDo')
      /\ h \notin Range(toDo') /\ IsInjective(toDo')
  <2>1. PICK T, q, f, x : T = DOMAIN blocks /\ q = toDo /\ f = Tail(q) /\ x = Head(q)
    OBVIOUS
  <2>2. q \in Seq(T) /\ IsInjective(q) /\ q # <<>>
    BY <1>1, <1>2, <2>1 DEF Marked
  <2>3. f \in Seq(T) /\ x \in T /\ Range(q) = {x} \cup Range(f) /\ x \notin Range(f) /\ IsInjective(f)
    BY <2>1, <2>2, TailRange
  <2> QED
    BY <1>1, <1>3, <2>1, <2>3
<1>7. /\ b \in PBlock /\ b.first \in Node /\ b.last \in Node /\ b.split \in Int
      /\ b.first <= b.split /\ b.split < b.last
  <2>1. b \in PBlock /\ b.first \in Node /\ b.last \in Node
    BY <1>2, <1>3, <1>6 DEF Divides
  <2>2. b.split < b.last
    BY <1>2, <1>3, <1>6 DEF Marked
  <2>3. b.split \in Int /\ b.first \in Int
    BY <2>1 DEF PBlock
  <2> QED
    BY <1>5, <2>1, <2>2, <2>3
<1>8. /\ s \in Halves /\ Range(agenda) \subseteq Range(s.agenda)
      /\ s.old.first = b.first /\ s.old.last = b.split /\ s.old.split = b.split
      /\ Counts(s.old, {array[i] : i \in b.first..b.split})
      /\ s.new.first = next /\ s.new.last = b.last /\ s.new.split = b.last
      /\ Counts(s.new, {array[i] : i \in next..b.last})
  <2>1. /\ s \in Halves /\ Range(agenda) \subseteq Range(s.agenda)
        /\ s.old.first = b.first /\ s.old.last = b.split /\ s.old.split = b.split
        /\ Counts(s.old, {array[i] : i \in b.first..b.split})
        /\ s.new.first = b.split + 1 /\ s.new.last = b.last /\ s.new.split = b.last
        /\ Counts(s.new, {array[i] : i \in (b.split + 1)..b.last})
    <3>1. b = blocks[Head(toDo)] /\ b.first <= b.split /\ b.split < b.last
      BY <1>3, <1>7
    <3>2. SplitTo(b, s)
      BY <1>1, <1>3, <3>1, SplitHalves
    <3> QED
      BY <3>2 DEF SplitTo
  <2> QED
    BY <1>4, <2>1
<1>9. /\ s.old \in PBlock /\ s.new \in PBlock /\ s.agenda \in Seq(1..size)
      /\ Exact(s.old) /\ Exact(s.new)
      /\ s.old.onAgenda > 0 => h \in Range(s.agenda) \cup {cur}
      /\ s.new.onAgenda > 0 => size \in Range(s.agenda)
  BY <1>3, <1>4, <1>8 DEF Halves
<1>10. /\ blocks' \in Seq(PBlock) /\ Len(blocks') = size /\ DOMAIN blocks' = 1..size
       /\ blocks'[size] = s.new /\ blocks'[h] = s.old /\ h # size
       /\ \A c \in DOMAIN blocks' : c # size /\ c # h => c \in DOMAIN blocks /\ blocks'[c] = blocks[c]
       /\ size \in Nat /\ size \in DOMAIN blocks' /\ h \in DOMAIN blocks'
       /\ size \notin DOMAIN blocks /\ DOMAIN blocks \subseteq DOMAIN blocks'
  <2>1. PICK bs, old, nw, n : bs = [blocks EXCEPT ![h] = old] /\ old = s.old /\ nw = s.new /\ n = Len(blocks)
    OBVIOUS
  <2>2. /\ bs \in Seq(PBlock) /\ Len(bs) = n /\ n \in Nat
        /\ DOMAIN blocks = 1..n
        /\ \A c \in 1..n : bs[c] = IF c = h THEN old ELSE blocks[c]
    <3>1. blocks \in Seq(PBlock) /\ old \in PBlock
      BY <1>2, <1>9, <2>1 DEF Divides
    <3> QED
      BY <1>6, <2>1, <3>1
  <2>3. blocks' = Append(bs, nw) /\ nw \in PBlock /\ size = n + 1
    BY <1>4, <1>5, <1>9, <2>1
  <2>4. PICK bs2 : bs2 = Append(bs, nw)
    OBVIOUS
  <2>5. /\ bs2 \in Seq(PBlock) /\ Len(bs2) = n + 1 /\ bs2[n + 1] = nw
        /\ \A c \in 1..n : bs2[c] = bs[c]
    BY <2>2, <2>3, <2>4
  <2>6. \A c \in 1..size : c # size => c \in 1..n
    BY <2>2, <2>3
  <2> QED
    BY <1>6, <2>1, <2>2, <2>3, <2>4, <2>5, <2>6
<1>11. /\ class \in [Node -> DOMAIN blocks]
       /\ \A c \in DOMAIN blocks :
            /\ blocks[c].first \in Node /\ blocks[c].last \in Node /\ blocks[c].first <= blocks[c].last
            /\ blocks[c].split >= blocks[c].first - 1 /\ blocks[c].split <= blocks[c].last
       /\ \A i \in Node, c \in DOMAIN blocks : class[array[i]] = c <=> i \in blocks[c].first..blocks[c].last
  BY <1>2 DEF Divides
<1>12. class' \in [Node -> DOMAIN blocks']
       /\ \A i \in Node : class'[array[i]] = IF i \in next..b.last THEN size ELSE class[array[i]]
  <2>1. /\ array \in [Node -> Node]
        /\ \A x, y \in Node : array[x] = array[y] => x = y
        /\ \A n \in Node : LookUp(array, n) \in Node /\ array[LookUp(array, n)] = n
    BY <1>2, PermutesIs
  <2>2. class' \in [Node -> DOMAIN blocks']
    <3> HIDE DEF Node
    <3> QED
      BY <1>5, <1>10, <1>11
  <2>3. ASSUME NEW i \in Node
        PROVE  class'[array[i]] = IF i \in next..b.last THEN size ELSE class[array[i]]
    <3>1. LookUp(array, array[i]) = i /\ array[i] \in DOMAIN class
      BY <1>11, <2>1
    <3>2. PICK P : P = next..b.last
      OBVIOUS
    <3>3. class' = [n \in DOMAIN class |-> IF LookUp(array, n) \in P THEN size ELSE class[n]]
      BY <1>5, <3>2
    <3>4. class'[array[i]] = IF i \in P THEN size ELSE class[array[i]]
      BY <3>1, <3>3
    <3> QED
      BY <3>2, <3>4
  <2> QED
    BY <2>2, <2>3
<1>13. next \in Node /\ next <= b.last /\ b.split \in Node
  BY <1>2, <1>4, <1>7 DEF Node
<1>14. ASSUME NEW i \in Node
       PROVE  i \in b.first..b.last <=> i \in b.first..b.split \/ i \in next..b.last
  BY <1>4, <1>7, <1>13, <1>14 DEF Node
<1>15. ASSUME NEW i \in Node
       PROVE  ~(i \in b.first..b.split /\ i \in next..b.last)
  BY <1>4, <1>7, <1>13, <1>15 DEF Node
<1>16. Divides(array, class', blocks')
  <2>1. ASSUME NEW c \in DOMAIN blocks'
        PROVE  /\ blocks'[c].first \in Node /\ blocks'[c].last \in Node /\ blocks'[c].first <= blocks'[c].last
               /\ blocks'[c].split >= blocks'[c].first - 1 /\ blocks'[c].split <= blocks'[c].last
    <3>1. CASE c = size
      <4>1. blocks'[c].first = next /\ blocks'[c].last = b.last /\ blocks'[c].split = b.last
        BY <1>8, <1>10, <3>1
      <4>2. next \in Int /\ b.last \in Int /\ b.last >= next - 1 /\ b.last <= b.last
        BY <1>13, <1>7 DEF Node
      <4> QED
        BY <1>7, <1>13, <4>1, <4>2
    <3>2. CASE c = h
      <4>1. blocks'[c].first = b.first /\ blocks'[c].last = b.split /\ blocks'[c].split = b.split
        BY <1>8, <1>10, <3>2
      <4>2. b.first \in Int /\ b.split >= b.first - 1 /\ b.split <= b.split
        BY <1>7 DEF Node
      <4> QED
        BY <1>7, <1>13, <4>1, <4>2
    <3>3. CASE c # size /\ c # h
      BY <1>10, <1>11, <3>3
    <3> QED
      BY <3>1, <3>2, <3>3
  <2>2. ASSUME NEW i \in Node, NEW c \in DOMAIN blocks'
        PROVE  class'[array[i]] = c <=> i \in blocks'[c].first..blocks'[c].last
    <3>1. PICK k, P, Q : k = class[array[i]] /\ P = next..b.last /\ Q = b.first..b.split
      OBVIOUS
    <3>2. class'[array[i]] = IF i \in P THEN size ELSE k
      BY <1>12, <3>1
    <3>3. k = h <=> i \in P \/ i \in Q
      <4>1. k = h <=> i \in b.first..b.last
        BY <1>3, <1>6, <1>11, <3>1
      <4> QED
        BY <1>14, <3>1, <4>1, Zenon
    <3>4. ~(i \in P /\ i \in Q)
      BY <1>15, <3>1, Zenon
    <3>5. k \in DOMAIN blocks
      <4>1. array[i] \in Node
        BY <1>2, PermutesIs
      <4> HIDE DEF Node
      <4> QED
        BY <1>11, <3>1, <4>1
    <3>6. CASE c = size
      <4>1. blocks'[c].first..blocks'[c].last = P
        BY <1>8, <1>10, <3>1, <3>6
      <4>2. k # c
        BY <1>10, <3>5, <3>6
      <4> QED
        BY <3>2, <3>6, <4>1, <4>2, Zenon
    <3>7. CASE c = h
      <4>1. blocks'[c].first..blocks'[c].last = Q
        BY <1>8, <1>10, <3>1, <3>7
      <4>2. c # size
        BY <1>10, <3>7
      <4> QED
        BY <3>2, <3>3, <3>4, <3>7, <4>1, <4>2, Zenon
    <3>8. CASE c # size /\ c # h
      <4>1. c \in DOMAIN blocks /\ blocks'[c] = blocks[c]
        BY <1>10, <3>8
      <4>2. k = c <=> i \in blocks[c].first..blocks[c].last
        BY <1>11, <3>1, <4>1
      <4> QED
        BY <3>2, <3>3, <3>8, <4>1, <4>2, Zenon
    <3> QED
      BY <3>6, <3>7, <3>8
  <2> HIDE DEF Node
  <2> QED
    BY <1>10, <1>12, <2>1, <2>2 DEF Divides
<1>17. Marked(blocks', toDo')
  <2>1. ASSUME NEW c \in DOMAIN blocks'
        PROVE  c \in Range(toDo') <=> blocks'[c].split < blocks'[c].last
    <3>1. CASE c = size
      <4>1. blocks'[c].split = b.last /\ blocks'[c].last = b.last /\ b.last \in Int
        BY <1>7, <1>8, <1>10, <3>1 DEF PBlock
      <4>2. c \notin Range(toDo')
        BY <1>6, <1>10, <3>1, RangeIn
      <4> QED
        BY <4>1, <4>2
    <3>2. CASE c = h
      <4>1. blocks'[c].split = b.split /\ blocks'[c].last = b.split
        BY <1>8, <1>10, <3>2
      <4> QED
        BY <1>6, <1>7, <3>2, <4>1
    <3>3. CASE c # size /\ c # h
      <4>1. c \in DOMAIN blocks /\ blocks'[c] = blocks[c]
        BY <1>10, <3>3
      <4>2. c \in Range(toDo) <=> blocks[c].split < blocks[c].last
        BY <1>2, <4>1 DEF Marked
      <4> QED
        BY <1>6, <3>3, <4>1, <4>2
    <3> QED
      BY <3>1, <3>2, <3>3
  <2>2. toDo' \in Seq(DOMAIN blocks')
    <3>1. \A e \in Range(toDo') : e \in DOMAIN blocks'
      BY <1>6, <1>10, RangeIn
    <3> QED
      BY <1>6, <3>1, SeqIn
  <2> QED
    BY <1>6, <2>1, <2>2 DEF Marked
<1>18. Counted(class', blocks')
  <2>1. ASSUME NEW c \in DOMAIN blocks'
        PROVE  Exact(blocks'[c]) /\ Counts(blocks'[c], ClassOf(class', c))
    <3>1. ClassOf(class', c) = {array[i] : i \in blocks'[c].first..blocks'[c].last}
      <4>1. PICK cl, bs : cl = class' /\ bs = blocks'
        OBVIOUS
      <4>2. Divides(array, cl, bs) /\ c \in DOMAIN bs
        BY <1>16, <4>1
      <4>3. ClassOf(cl, c) = {array[i] : i \in bs[c].first..bs[c].last}
        BY <1>2, <4>2, MembersIs
      <4> QED
        BY <4>1, <4>3
    <3>2. CASE c = size
      <4>1. ClassOf(class', c) = {array[i] : i \in next..b.last}
        BY <1>8, <1>10, <3>1, <3>2
      <4> QED
        BY <1>8, <1>9, <1>10, <3>2, <4>1
    <3>3. CASE c = h
      <4>1. ClassOf(class', c) = {array[i] : i \in b.first..b.split}
        BY <1>8, <1>10, <3>1, <3>3
      <4> QED
        BY <1>8, <1>9, <1>10, <3>3, <4>1
    <3>4. CASE c # size /\ c # h
      <4>1. c \in DOMAIN blocks /\ blocks'[c] = blocks[c]
        BY <1>10, <3>4
      <4>2. ClassOf(class, c) = {array[i] : i \in blocks[c].first..blocks[c].last}
        BY <1>2, <4>1, MembersIs
      <4>3. Exact(blocks[c]) /\ Counts(blocks[c], ClassOf(class, c))
        BY <1>2, <4>1 DEF Counted
      <4> QED
        BY <3>1, <4>1, <4>2, <4>3
    <3> QED
      BY <3>2, <3>3, <3>4
  <2> QED
    BY <2>1 DEF Counted
<1>19. Scheduled(blocks', agenda', cur')
  <2>1. agenda' \in Seq(DOMAIN blocks')
    BY <1>5, <1>9, <1>10
  <2>2. cur' \in 0..Len(blocks')
    <3>1. cur \in 0..Len(blocks) /\ Len(blocks) \in Nat
      BY <1>2 DEF Scheduled, Divides
    <3> QED
      BY <1>1, <1>4, <1>10, <3>1
  <2>3. ASSUME NEW d \in DOMAIN blocks', blocks'[d].onAgenda > 0
        PROVE  d \in Range(agenda') \cup {cur'}
    <3>1. CASE d = size
      BY <1>5, <1>9, <1>10, <2>3, <3>1
    <3>2. CASE d = h
      BY <1>1, <1>5, <1>9, <1>10, <2>3, <3>2
    <3>3. CASE d # size /\ d # h
      <4>1. d \in DOMAIN blocks /\ blocks'[d] = blocks[d]
        BY <1>10, <3>3
      <4>2. d \in Range(agenda) \cup {cur}
        BY <1>2, <2>3, <4>1 DEF Scheduled
      <4> QED
        BY <1>1, <1>5, <1>8, <4>2
    <3> QED
      BY <3>1, <3>2, <3>3
  <2> QED
    BY <2>1, <2>2, <2>3 DEF Scheduled
<1>20. Permutes(array')
  BY <1>1, <1>2
<1>21. Divides(array', class', blocks')
  BY <1>1, <1>16
<1> QED
  BY <1>1, <1>17, <1>18, <1>19, <1>20, <1>21, RefinedStep

-----------------------------------------------------------------------------
(* References lead to words of the heap.                                    *)

Found(h) == {v \in {Ptr(b) : b \in DOMAIN h} \cup {h[b].args[1] : b \in DOMAIN h} : IsWord(h, v)}

(* A heap is not empty, and a bound transient holds a word of it.           *)
LEMMA HeapIs ==
  ASSUME NEW h, IsHeap(h)
  PROVE  /\ Len(h) \in Nat \ {0} /\ DOMAIN h = 1..Len(h)
         /\ \A b \in DOMAIN h : Ptr(b) \in Found(h) /\ ~IsInt(Ptr(b)) /\ Ptr(b)[2] = b
         /\ \A b \in DOMAIN h : h[b].kind = "REF" => h[b].args[1] \in Found(h)
<1>1. h \in Seq(Range(h)) /\ h # <<>>
  BY DEF IsHeap
<1>2. Len(h) \in Nat \ {0} /\ DOMAIN h = 1..Len(h)
  BY <1>1
<1>3. \A b \in DOMAIN h : Ptr(b) \in Found(h) /\ ~IsInt(Ptr(b)) /\ Ptr(b)[2] = b
  BY DEF Ptr, IsInt, IsWord, Found
<1>4. ASSUME NEW b \in DOMAIN h, h[b].kind = "REF"
      PROVE  h[b].args[1] \in Found(h)
  <2>1. h[b].kind \notin Chunks
    BY <1>4 DEF Chunks
  <2>2. h[b].args \in Seq(Range(h[b].args)) /\ h[b].args # <<>>
    BY <1>4 DEF IsHeap
  <2>3. 1 \in DOMAIN h[b].args
    BY <2>2
  <2>4. IsWord(h, h[b].args[1])
    BY <2>1, <2>3 DEF IsHeap
  <2> QED
    BY <2>4 DEF Found
<1> QED
  BY <1>2, <1>3, <1>4

(* The blocks that bound transients lead to, all that can be found there.   *)
RefsLead(h) ==
  /\ Len(h) \in Nat /\ DOMAIN h = 1..Len(h)
  /\ \A b \in DOMAIN h : h[b].kind = "REF" => IsWord(h, h[b].args[1])

LEMMA HeapLeads ==
  ASSUME NEW h, IsHeap(h)
  PROVE  RefsLead(h)
BY HeapIs DEF RefsLead, Found

(* What is found at each block after at most k references.                  *)
Derefs(h, to) ==
  /\ to \in [0..Len(h) -> [DOMAIN h -> Found(h)]]
  /\ \A k \in 0..Len(h), b \in DOMAIN h :
       to[k][b] = IF k = 0 \/ h[b].kind # "REF" THEN Ptr(b)
                  ELSE LET v == h[b].args[1] IN IF IsInt(v) THEN v ELSE to[k - 1][v[2]]
  /\ \A w : Deref(h, w) = IF IsInt(w) \/ h[w[2]].kind # "REF" THEN w ELSE to[Len(h)][w[2]]

(* Looking through references, by induction over their number.              *)
LEMMA DerefSteps ==
  ASSUME NEW h, RefsLead(h)
  PROVE  \E to : Derefs(h, to)
<1> DEFINE n == Len(h)
           F == [DOMAIN h -> Found(h)]
           next(f, b) == IF h[b].kind # "REF" THEN Ptr(b)
                         ELSE LET v == h[b].args[1] IN IF IsInt(v) THEN v ELSE f[v[2]]
           step == [k \in 1..n |-> [f \in F |-> [b \in DOMAIN h |-> next(f, b)]]]
           base == [b \in DOMAIN h |-> Ptr(b)]
           Def(g) == g = [k \in 0..n |->
                            [b \in DOMAIN h |->
                               IF k = 0 \/ h[b].kind # "REF" THEN Ptr(b)
                               ELSE LET v == h[b].args[1] IN IF IsInt(v) THEN v ELSE g[k - 1][v[2]]]]
           to == CHOOSE g : Def(g)
<1>1. /\ n \in Nat /\ DOMAIN h = 1..n
      /\ \A b \in DOMAIN h : Ptr(b) \in Found(h)
      /\ \A b \in DOMAIN h : h[b].kind = "REF" => h[b].args[1] \in Found(h)
  BY DEF RefsLead, Found, IsWord, Ptr
<1>2. \A v \in Found(h) : ~IsInt(v) => v[2] \in DOMAIN h
  BY DEF Found, IsWord
<1>3. ASSUME NEW f \in F, NEW b \in DOMAIN h
      PROVE  next(f, b) \in Found(h)
  <2>1. CASE h[b].kind # "REF"
    BY <1>1, <2>1
  <2>2. CASE h[b].kind = "REF"
    <3>1. PICK v : v = h[b].args[1]
      OBVIOUS
    <3>2. v \in Found(h)
      BY <1>1, <2>2, <3>1
    <3>3. ~IsInt(v) => f[v[2]] \in Found(h)
      BY <1>2, <3>2
    <3> QED
      BY <2>2, <3>1, <3>2, <3>3
  <2> QED
    BY <2>1, <2>2
<1>4. base \in F
  BY <1>1
<1>5. CanRecur(n, F, base, step)
  <2>1. \A f \in F : [b \in DOMAIN h |-> next(f, b)] \in F
    <3> HIDE DEF next
    <3> QED
      BY <1>3
  <2>2. step \in [1..n -> [F -> F]]
    <3> HIDE DEF F, next, n
    <3> QED
      BY <2>1
  <2> HIDE DEF step, base, F
  <2> QED
    BY <1>1, <1>4, <2>2 DEF CanRecur
<1>6. PICK g : Recurs(g, n, F, base, step)
  <2> HIDE DEF step, base, F, n
  <2> QED
    BY <1>5, Recursion
<1>7. Def(g)
  <2>1. g = [k \in 0..n |-> g[k]] /\ g[0] = base
    BY <1>6 DEF Recurs
  <2>2. ASSUME NEW k \in 0..n
        PROVE  g[k] = [b \in DOMAIN h |-> IF k = 0 \/ h[b].kind # "REF" THEN Ptr(b)
                               ELSE LET v == h[b].args[1] IN IF IsInt(v) THEN v ELSE g[k - 1][v[2]]]
    <3>1. CASE k = 0
      BY <2>1, <3>1
    <3>2. CASE k # 0
      <4>1. k \in 1..n /\ k - 1 \in 0..n
        BY <1>1, <3>2
      <4>2. g[k - 1] \in F /\ g[k] = step[k][g[k - 1]]
        <5> HIDE DEF F, step, base
        <5> QED
          BY <1>6, <4>1 DEF Recurs
      <4>3. PICK f : f = g[k - 1]
        OBVIOUS
      <4>4. g[k] = [b \in DOMAIN h |-> next(f, b)]
        <5> HIDE DEF F, next
        <5> QED
          BY <4>1, <4>2, <4>3
      <4> QED
        BY <3>2, <4>3, <4>4
    <3> QED
      BY <3>1, <3>2
  <2> QED
    BY <2>1, <2>2
<1>8. Def(to)
  <2> HIDE DEF Def
  <2> QED
    BY <1>7
<1>9. Recurs(to, n, F, base, step)
  <2>1. to = [k \in 0..n |-> to[k]]
    BY <1>8
  <2>2. \A k \in 0..n : to[k] = [b \in DOMAIN h |-> IF k = 0 \/ h[b].kind # "REF" THEN Ptr(b)
                               ELSE LET v == h[b].args[1] IN IF IsInt(v) THEN v ELSE to[k - 1][v[2]]]
    <3> HIDE DEF to
    <3> QED
      BY <1>8
  <2> HIDE DEF to
  <2>3. to[0] = base
    BY <1>1, <2>2
  <2>4. ASSUME NEW k \in 1..n, to[k - 1] \in F
        PROVE  to[k] = step[k][to[k - 1]]
    <3>1. PICK f : f = to[k - 1]
      OBVIOUS
    <3>2. k \in 0..n /\ k # 0
      BY <1>1
    <3>3. to[k] = [b \in DOMAIN h |-> next(f, b)]
      BY <2>2, <3>1, <3>2
    <3> HIDE DEF next, F
    <3> QED
      BY <2>4, <3>1, <3>3
  <2> HIDE DEF step, base, F, n
  <2> QED
    BY <1>5, <2>1, <2>3, <2>4, RecursIn
<1>10. \A w : Deref(h, w) = IF IsInt(w) \/ h[w[2]].kind # "REF" THEN w ELSE to[n][w[2]]
  BY DEF Deref
<1>11. ASSUME NEW k \in 0..n, NEW b \in DOMAIN h
       PROVE  to[k][b] = IF k = 0 \/ h[b].kind # "REF" THEN Ptr(b)
                         ELSE LET v == h[b].args[1] IN IF IsInt(v) THEN v ELSE to[k - 1][v[2]]
  <2> HIDE DEF to
  <2>1. PICK f : f = to[k - 1]
    OBVIOUS
  <2>2. to[k] = [x \in DOMAIN h |-> IF k = 0 \/ h[x].kind # "REF" THEN Ptr(x)
                                   ELSE LET v == h[x].args[1] IN IF IsInt(v) THEN v ELSE f[v[2]]]
    BY <1>8, <2>1
  <2> QED
    BY <2>1, <2>2
<1>12. to \in [0..n -> F]
  <2> HIDE DEF to, step, base, F, n
  <2> QED
    BY <1>9, Zenon DEF Recurs
<1> HIDE DEF to
<1> QED
  BY <1>10, <1>11, <1>12 DEF Derefs

(* It leads from words to words.                                            *)
LEMMA DerefIs ==
  ASSUME NEW h, IsHeap(h), NEW w, IsWord(h, w)
  PROVE  IsWord(h, Deref(h, w))
<1>1. PICK to : Derefs(h, to)
  BY HeapLeads, DerefSteps
<1>2. Len(h) \in 0..Len(h)
  BY HeapIs
<1>3. CASE IsInt(w) \/ h[w[2]].kind # "REF"
  BY <1>1, <1>3 DEF Derefs
<1>4. CASE ~(IsInt(w) \/ h[w[2]].kind # "REF")
  <2>1. w[2] \in DOMAIN h
    BY <1>4 DEF IsWord
  <2>2. Deref(h, w) = to[Len(h)][w[2]]
    BY <1>1, <1>4 DEF Derefs
  <2>3. to[Len(h)] \in [DOMAIN h -> Found(h)]
    BY <1>1, <1>2 DEF Derefs
  <2>4. Deref(h, w) \in Found(h)
    BY <2>1, <2>2, <2>3
  <2> QED
    BY <2>4 DEF Found
<1> QED
  BY <1>3, <1>4

-----------------------------------------------------------------------------
(* The stack of the loader.                                                 *)

(* Different frames of two stacks are different in both together.           *)
LEMMA JoinDistinct ==
  ASSUME NEW T, NEW s \in Seq(T), NEW t \in Seq(T), Distinct(s), Distinct(t),
         \A x \in Range(s), y \in Range(t) : LinkOf(x) # LinkOf(y)
  PROVE  Distinct(s \o t)
<1>1. /\ Len(s) \in Nat /\ Len(t) \in Nat /\ DOMAIN s = 1..Len(s) /\ DOMAIN t = 1..Len(t)
      /\ DOMAIN (s \o t) = 1..(Len(s) + Len(t))
      /\ \A i \in 1..(Len(s) + Len(t)) : (s \o t)[i] = IF i <= Len(s) THEN s[i] ELSE t[i - Len(s)]
  OBVIOUS
<1>2. PICK u, m, n : u = s \o t /\ m = Len(s) /\ n = Len(t)
  OBVIOUS
<1>3. /\ m \in Nat /\ n \in Nat /\ DOMAIN u = 1..(m + n)
      /\ \A i \in 1..(m + n) : \/ i \in DOMAIN s /\ u[i] = s[i]
                               \/ i - m \in DOMAIN t /\ u[i] = t[i - m]
  BY <1>1, <1>2
<1>4. ASSUME NEW i \in DOMAIN u, NEW j \in DOMAIN u, i # j, u[i].parent # 0
      PROVE  LinkOf(u[i]) # LinkOf(u[j])
  <2>1. CASE i \in DOMAIN s /\ u[i] = s[i] /\ j \in DOMAIN s /\ u[j] = s[j]
    BY <1>4, <2>1 DEF Distinct
  <2>2. CASE i - m \in DOMAIN t /\ u[i] = t[i - m] /\ j - m \in DOMAIN t /\ u[j] = t[j - m]
    <3>1. i - m # j - m
      BY <1>3, <1>4
    <3> QED
      BY <1>4, <2>2, <3>1 DEF Distinct
  <2>3. CASE i \in DOMAIN s /\ u[i] = s[i] /\ j - m \in DOMAIN t /\ u[j] = t[j - m]
    <3>1. u[i] \in Range(s) /\ u[j] \in Range(t)
      BY <2>3 DEF Range
    <3> QED
      BY <3>1
  <2>4. CASE i - m \in DOMAIN t /\ u[i] = t[i - m] /\ j \in DOMAIN s /\ u[j] = s[j]
    <3>1. u[i] \in Range(t) /\ u[j] \in Range(s)
      BY <2>4 DEF Range
    <3> QED
      BY <3>1
  <2> QED
    BY <1>3, <2>1, <2>2, <2>3, <2>4
<1> QED
  BY <1>2, <1>4 DEF Distinct

(* The order does not matter.                                               *)
LEMMA ReverseDistinct ==
  ASSUME NEW T, NEW s \in Seq(T), Distinct(s)
  PROVE  Distinct(Reverse(s))
<1>1. PICK u, n : u = Reverse(s) /\ n = Len(s)
  OBVIOUS
<1>2. u \in Seq(T) /\ Len(u) = n /\ \A i \in 1..n : u[i] = s[(n - i) + 1]
  BY <1>1, ReverseRange
<1>3. n \in Nat /\ DOMAIN u = 1..n /\ DOMAIN s = 1..n
  BY <1>1, <1>2
<1>4. ASSUME NEW i \in DOMAIN u, NEW j \in DOMAIN u, i # j, u[i].parent # 0
      PROVE  LinkOf(u[i]) # LinkOf(u[j])
  <2>1. PICK x, y : x = (n - i) + 1 /\ y = (n - j) + 1
    OBVIOUS
  <2>2. x \in DOMAIN s /\ y \in DOMAIN s /\ x # y /\ u[i] = s[x] /\ u[j] = s[y]
    BY <1>2, <1>3, <1>4, <2>1
  <2> QED
    BY <1>4, <2>2 DEF Distinct
<1> QED
  BY <1>1, <1>4 DEF Distinct

(* The parts of the invariant while the graph is loaded.                    *)
LEMMA UnloadedFacts ==
  ASSUME IInv, Unloaded
  PROVE  /\ Collected /\ IsHeap(heap) /\ Len(nodes) \in Nat
         /\ WordsFit(heap)
         /\ stack \in Seq(Range(stack)) /\ Distinct(stack)
         /\ \A f \in Range(stack) :
              IsFrame(f) /\ \A n \in DOMAIN preds : LinkOf(f) \notin Range(preds[n])
         /\ array = [i \in Node |-> i] /\ cur = 0 /\ toDo = <<>>
<1>1. Len(nodes) \in Nat
  BY DEF IInv, Collected
<1> QED
  BY <1>1 DEF IInv, Frames, Fresh

(* The frame on top, the frames below it, and the edge it becomes.          *)
LEMMA TopIs ==
  ASSUME IInv, Loading
  PROVE  /\ IsFrame(Top) /\ IsWord(heap, Value)
         /\ Front(stack) \in Seq(Range(stack)) /\ Range(Front(stack)) \subseteq Range(stack)
         /\ Distinct(Front(stack))
         /\ Edge \in Seq(Link) /\ IsInjective(Edge)
         /\ \A l \in Range(Edge) : l \in Link /\ l = LinkOf(Top)
         /\ \A f \in Range(Front(stack)) : LinkOf(f) \notin Range(Edge)
         /\ \A n \in DOMAIN preds : Range(Edge) \cap Range(preds[n]) = {}
<1>1. Unloaded /\ stack # <<>>
  BY DEF Loading, Unloaded
<1>2. /\ IsHeap(heap) /\ stack \in Seq(Range(stack)) /\ Distinct(stack)
      /\ \A f \in Range(stack) :
           IsFrame(f) /\ \A n \in DOMAIN preds : LinkOf(f) \notin Range(preds[n])
  BY <1>1, UnloadedFacts
<1>3. PICK T, s, front, top : T = Range(stack) /\ s = stack /\ front = Front(stack) /\ top = Top
  OBVIOUS
<1>4. s \in Seq(T) /\ s # <<>> /\ front = Front(s) /\ top = Last(s)
  BY <1>1, <1>2, <1>3 DEF Top
<1>5. front \in Seq(T) /\ top \in T /\ Range(s) = Range(front) \cup {top}
  BY <1>4, FrontLast
<1>6. IsFrame(top) /\ \A n \in DOMAIN preds : LinkOf(top) \notin Range(preds[n])
  BY <1>2, <1>3, <1>5
<1>7. IsWord(heap, Value)
  <2>1. PICK w : w = top.data
    OBVIOUS
  <2>2. IsWord(heap, w)
    BY <1>6, <2>1 DEF IsFrame
  <2>3. IsWord(heap, Deref(heap, w))
    BY <1>2, <2>2, DerefIs
  <2> QED
    BY <1>3, <2>1, <2>3 DEF Value
<1>8. PICK n \in Nat : /\ DOMAIN s = 1..(n + 1) /\ DOMAIN front = 1..n
                       /\ top = s[n + 1] /\ \A i \in 1..n : front[i] = s[i]
  <2>1. Len(s) \in Nat \ {0} /\ DOMAIN s = 1..Len(s)
    BY <1>4
  <2>2. PICK m \in Nat \ {0} : m = Len(s)
    BY <2>1, Zenon
  <2> DEFINE n == m - 1
  <2>3. n \in Nat /\ m = n + 1 /\ Len(s) = n + 1 /\ n = Len(s) - 1
    BY <2>2
  <2> HIDE DEF n
  <2>4. PICK f : f = SubSeq(s, 1, n)
    OBVIOUS
  <2>5. Len(f) = n /\ DOMAIN f = 1..n /\ \A i \in 1..n : f[i] = s[i]
    BY <1>4, <2>3, <2>4
  <2>6. front = f /\ top = s[n + 1]
    BY <1>4, <2>3, <2>4 DEF Front, Last
  <2> QED
    BY <2>1, <2>3, <2>5, <2>6
<1>9. Distinct(front)
  <2>1. \A i \in 1..n : i \in DOMAIN s
    BY <1>8
  <2> QED
    BY <1>2, <1>3, <1>8, <2>1 DEF Distinct
<1>10. ASSUME top.parent # 0, NEW f \in Range(front)
       PROVE  LinkOf(f) # LinkOf(top)
  <2>1. PICK i \in 1..n : f = front[i]
    BY <1>8 DEF Range
  <2>2. i \in DOMAIN s /\ n + 1 \in DOMAIN s /\ n + 1 # i /\ f = s[i] /\ top = s[n + 1]
    BY <1>8, <2>1
  <2> QED
    BY <1>2, <1>3, <1>10, <2>2 DEF Distinct
<1>11. Edge = IF top.parent = 0 THEN <<>> ELSE <<LinkOf(top)>>
  BY <1>3 DEF Edge, LinkOf
<1>12. CASE top.parent = 0
  <2>1. Edge = <<>>
    BY <1>11, <1>12
  <2>2. <<>> \in Seq(Link) /\ IsInjective(<<>>) /\ Range(<<>>) = {}
    BY DEF Range, IsInjective, Injection
  <2> QED
    BY <1>3, <1>5, <1>6, <1>7, <1>9, <2>1, <2>2
<1>13. CASE top.parent # 0
  <2>1. LinkOf(top) \in Link
    <3>1. top.edge \in Number /\ top.parent \in Node
      <4>1. Len(nodes) \in Nat
        BY <1>1, UnloadedFacts
      <4> QED
        BY <1>6, <1>13, <4>1 DEF IsFrame, Number, Node
    <3> QED
      BY <3>1 DEF LinkOf, Link
  <2>2. PICK l : l = LinkOf(top)
    OBVIOUS
  <2>3. Edge = <<l>>
    BY <1>11, <1>13, <2>2
  <2>4. <<l>> \in Seq(Link) /\ IsInjective(<<l>>) /\ Range(<<l>>) = {l}
    BY <2>1, <2>2 DEF Range, IsInjective, Injection
  <2>5. \A f \in Range(front) : LinkOf(f) # l
    BY <1>10, <1>13, <2>2
  <2> QED
    BY <1>3, <1>5, <1>6, <1>7, <1>9, <2>1, <2>2, <2>3, <2>4, <2>5
<1> QED
  BY <1>12, <1>13

(* The invariant of the loader, from its parts.                             *)
LEMMA LoadedStep ==
  ASSUME Collected', Unloaded', array' = [i \in Node' |-> i], cur' = 0, toDo' = <<>>,
         IsHeap(heap'),
         WordsFit(heap'),
         NEW T, stack' \in Seq(T), Distinct(stack'),
         \A f \in Range(stack') :
           IsFrame(f)' /\ \A n \in DOMAIN preds' : LinkOf(f) \notin Range(preds'[n])
  PROVE  IInv'
<1>1. stack' \in Seq(Range(stack'))
  BY SeqIn
<1>2. phase' # "refine"
  BY DEF Unloaded
<1> QED
  BY <1>1, <1>2 DEF IInv, Frames, Fresh, Refined, Distinct, LinkOf

(* Waiting for a transient, or to be minimized, changes nothing.            *)
LEMMA WaitKeeps ==
  ASSUME IInv, LoadTransient \/ Resume \/ LoadDone
  PROVE  IInv'
<1>1. Unloaded /\ Unloaded' /\ UNCHANGED <<heap, stack, nodes, preds, array, cur, toDo>>
  BY DEF LoadTransient, Resume, LoadDone, Loading, Unloaded, loader, partition
<1>2. phase' # "refine"
  BY <1>1 DEF Unloaded
<1> QED
  BY <1>1, <1>2 DEF IInv, Collected, Frames, Fresh, Refined, Node, Link, Distinct, LinkOf, IsFrame

(* An integer is no node.                                                   *)
LEMMA LoadIntKeeps ==
  ASSUME IInv, LoadInt
  PROVE  IInv'
<1>1. Loading /\ stack' = Front(stack) /\ UNCHANGED <<heap, phase, nodes, preds, array, cur, toDo>>
  BY DEF LoadInt, partition
<1>2. Unloaded /\ Unloaded'
  BY <1>1 DEF Loading, Unloaded
<1>3. /\ Front(stack) \in Seq(Range(stack)) /\ Range(Front(stack)) \subseteq Range(stack)
      /\ Distinct(Front(stack))
  BY <1>1, TopIs
<1>4. /\ Collected /\ IsHeap(heap)
      /\ WordsFit(heap)
      /\ \A f \in Range(stack) :
           IsFrame(f) /\ \A n \in DOMAIN preds : LinkOf(f) \notin Range(preds[n])
      /\ array = [i \in Node |-> i] /\ cur = 0 /\ toDo = <<>>
  BY <1>2, UnloadedFacts
<1>5. Collected' /\ Node' = Node
  BY <1>1, <1>4 DEF Collected, Link, Node
<1>6. \A f : IsFrame(f) => IsFrame(f)'
  BY <1>1 DEF IsFrame
<1>7. array' = [i \in Node' |-> i] /\ cur' = 0 /\ toDo' = <<>>
  BY <1>1, <1>4, <1>5
<1>8. PICK T : T = Range(stack)
  OBVIOUS
<1>9. stack' \in Seq(T) /\ Distinct(stack')
  BY <1>1, <1>3, <1>8
<1>10. \A f \in Range(stack') :
         IsFrame(f)' /\ \A n \in DOMAIN preds' : LinkOf(f) \notin Range(preds'[n])
  BY <1>1, <1>3, <1>4, <1>6
<1>11. /\ IsHeap(heap')
       /\ WordsFit(heap')
  BY <1>1, <1>4
<1> QED
  BY <1>2, <1>5, <1>7, <1>9, <1>10, <1>11, LoadedStep

(* The heap g is h with the block b at t.                                   *)
Replaces(g, h, t, b) == g = [h EXCEPT ![t] = b]

(* A heap in which a block that is no chunk is another one of its kind and  *)
(* size, or a bound transient, with words of the heap, is a heap.           *)
LEMMA ReplacedHeap ==
  ASSUME NEW h, IsHeap(h), NEW t \in DOMAIN h, NEW k, NEW a, k \notin Chunks,
         a \in Seq(Range(a)), k = "REF" => a # <<>>, \A i \in DOMAIN a : IsWord(h, a[i]),
         NEW b, b = Block(k, a), NEW g, Replaces(g, h, t, b)
  PROVE  /\ IsHeap(g) /\ Len(g) = Len(h) /\ DOMAIN g = DOMAIN h
         /\ \A x \in DOMAIN h : x # t => g[x] = h[x]
         /\ g[t] = b /\ g[t].kind = k /\ g[t].args = a
<1>2. b.kind = k /\ b.args = a
  BY DEF Block
<1>3. Len(h) \in Nat /\ DOMAIN h = 1..Len(h)
  BY HeapIs
<1>4. DOMAIN g = DOMAIN h /\ \A x \in DOMAIN h : g[x] = IF x = t THEN b ELSE h[x]
  <2>1. h \in Seq(Range(h))
    BY DEF IsHeap
  <2>2. h \in [DOMAIN h -> Range(h)]
    BY <2>1
  <2>3. h = [x \in DOMAIN h |-> h[x]]
    BY <2>2, Zenon
  <2> QED
    BY <2>3 DEF Replaces
<1>5. \A v : IsWord(h, v) => IsWord(g, v)
  BY <1>4 DEF IsWord
<1>6. g # <<>> /\ g \in Seq(Range(g)) /\ Len(g) = Len(h)
  <2>1. PICK n, S : n \in Nat /\ n = Len(h) /\ S = Range(g) /\ DOMAIN h = 1..n
    BY <1>3
  <2>2. g = [x \in 1..n |-> g[x]]
    BY <2>1 DEF Replaces
  <2>3. g \in [1..n -> S]
    <3>1. \A x \in 1..n : g[x] \in S
      BY <1>4, <2>1 DEF Range
    <3> QED
      BY <2>2, <3>1
  <2>4. g \in Seq(S)
    BY <2>1, <2>3
  <2>5. t \in DOMAIN g
    BY <1>4
  <2>6. Len(g) \in Nat /\ DOMAIN g = 1..Len(g)
    BY <2>4
  <2>7. Len(g) = n
    BY <1>4, <2>1, <2>6
  <2> QED
    BY <2>1, <2>4, <2>5, <2>7
<1>7. ASSUME NEW x \in DOMAIN g
      PROVE  /\ g[x] = Block(g[x].kind, g[x].args)
             /\ g[x].args \in Seq(Range(g[x].args))
             /\ g[x].kind \notin Chunks => \A i \in DOMAIN g[x].args : IsWord(g, g[x].args[i])
             /\ g[x].kind = "REF" => g[x].args # <<>>
  <2>1. CASE x = t
    <3>1. g[x] = b
      BY <1>4, <2>1
    <3>2. \A i \in DOMAIN a : IsWord(g, a[i])
      BY <1>5
    <3> QED
      BY <1>2, <3>1, <3>2
  <2>2. CASE x # t
    <3>1. g[x] = h[x] /\ x \in DOMAIN h
      BY <1>4, <2>2
    <3>2. /\ h[x] = Block(h[x].kind, h[x].args)
          /\ h[x].args \in Seq(Range(h[x].args))
          /\ h[x].kind \notin Chunks => \A i \in DOMAIN h[x].args : IsWord(h, h[x].args[i])
          /\ h[x].kind = "REF" => h[x].args # <<>>
      BY <3>1 DEF IsHeap
    <3> QED
      BY <1>5, <3>1, <3>2
  <2> QED
    BY <2>1, <2>2
<1>8. IsHeap(g)
  BY <1>6, <1>7 DEF IsHeap
<1>9. \A x \in DOMAIN h : x # t => g[x] = h[x]
  BY <1>4
<1>10. g[t] = b
  BY <1>4
<1> QED
  BY <1>2, <1>4, <1>6, <1>8, <1>9, <1>10

(* Binding a transient leaves a heap with the same other blocks.            *)
LEMMA BoundHeap ==
  ASSUME NEW h, IsHeap(h), NEW t \in DOMAIN h, NEW w, IsWord(h, w),
         NEW g, Replaces(g, h, t, Block("REF", <<w>>))
  PROVE  /\ IsHeap(g) /\ Len(g) = Len(h) /\ DOMAIN g = DOMAIN h
         /\ \A x \in DOMAIN h : x # t => g[x] = h[x]
         /\ g[t] = Block("REF", <<w>>) /\ g[t].kind = "REF"
<1>1. PICK k, a, b : k = "REF" /\ a = <<w>> /\ b = Block(k, a)
  OBVIOUS
<1>2. DOMAIN a = {1} /\ a[1] = w /\ a # <<>> /\ a \in Seq({w})
  BY <1>1
<1>3. Range(a) = {w}
  BY <1>2 DEF Range
<1>4. k \notin Chunks
  BY <1>1 DEF Chunks
<1>5. a \in Seq(Range(a)) /\ \A i \in DOMAIN a : IsWord(h, a[i])
  BY <1>2, <1>3
<1>6. Replaces(g, h, t, b) /\ b = Block(k, a)
  BY <1>1 DEF Replaces
<1>7. /\ IsHeap(g) /\ Len(g) = Len(h) /\ DOMAIN g = DOMAIN h
      /\ \A x \in DOMAIN h : x # t => g[x] = h[x]
      /\ g[t] = b /\ g[t].kind = k
  BY <1>2, <1>4, <1>5, <1>6, ReplacedHeap
<1> QED
  BY <1>1, <1>7

(* The heap g is h with the word w assigned to the argument i of b.         *)
Assigns(g, h, b, i, w) == g = [h EXCEPT ![b].args[i] = w]

(* Assigning an argument of a mutable block changes nothing else.           *)
LEMMA AssignedHeap ==
  ASSUME NEW h, IsHeap(h), NEW b \in DOMAIN h, h[b].kind = "MBLOCK",
         NEW i \in DOMAIN h[b].args, NEW w, IsWord(h, w),
         NEW g, Assigns(g, h, b, i, w)
  PROVE  /\ IsHeap(g) /\ Len(g) = Len(h) /\ DOMAIN g = DOMAIN h
         /\ \A x \in DOMAIN h : x # b => g[x] = h[x]
         /\ g[b].kind = "MBLOCK" /\ DOMAIN g[b].args = DOMAIN h[b].args
<1>1. PICK k, a : k = "MBLOCK" /\ a = [h[b].args EXCEPT ![i] = w]
  OBVIOUS
<1>2. PICK c : c = h[b].args
  OBVIOUS
<1>3. c \in Seq(Range(c)) /\ h[b] = Block("MBLOCK", c) /\ i \in DOMAIN c
  BY <1>2 DEF IsHeap
<1>4. k \notin Chunks /\ k # "REF"
  BY <1>1 DEF Chunks
<1>5. \A j \in DOMAIN c : IsWord(h, c[j])
  BY <1>1, <1>2, <1>4 DEF IsHeap
<1>6. a = [c EXCEPT ![i] = w]
  BY <1>1, <1>2
<1>7. DOMAIN a = DOMAIN c /\ \A j \in DOMAIN c : a[j] = IF j = i THEN w ELSE c[j]
  BY <1>3, <1>6
<1>8. a \in Seq(Range(a))
  <2>1. PICK n \in Nat : DOMAIN c = 1..n
    BY <1>3
  <2>2. PICK S : S = Range(a)
    OBVIOUS
  <2>3. \A j \in 1..n : a[j] \in S
    BY <1>7, <2>1, <2>2 DEF Range
  <2>4. a = [j \in 1..n |-> a[j]]
    BY <1>6, <2>1
  <2>5. a \in [1..n -> S]
    BY <2>3, <2>4
  <2>6. a \in Seq(S)
    BY <2>5
  <2> QED
    BY <2>2, <2>6
<1>9. \A j \in DOMAIN a : IsWord(h, a[j])
  BY <1>5, <1>7
<1>10. PICK d : d = Block(k, a)
  OBVIOUS
<1>11. Replaces(g, h, b, d)
  <2>1. PICK e : e = h[b]
    OBVIOUS
  <2>2. g = [h EXCEPT ![b] = [e EXCEPT !.args = a]]
    BY <1>1, <2>1 DEF Assigns
  <2>3. e = [kind |-> "MBLOCK", args |-> c] /\ d = [kind |-> "MBLOCK", args |-> a]
    BY <1>1, <1>3, <1>10, <2>1 DEF Block
  <2>4. [e EXCEPT !.args = a] = d
    BY <2>3
  <2> QED
    BY <2>2, <2>4 DEF Replaces
<1>12. /\ IsHeap(g) /\ Len(g) = Len(h) /\ DOMAIN g = DOMAIN h
       /\ \A x \in DOMAIN h : x # b => g[x] = h[x]
       /\ g[b].kind = k /\ g[b].args = a
  BY <1>4, <1>8, <1>9, <1>10, <1>11, ReplacedHeap
<1> QED
  BY <1>1, <1>2, <1>7, <1>12

(* Whatever other threads do to the blocks of a heap, the loader goes on    *)
(* with it.                                                                 *)
LEMMA OthersKeep ==
  ASSUME IInv, OthersRun, UNCHANGED <<phase, stack, nodes, preds, array, cur, toDo>>,
         IsHeap(heap'), DOMAIN heap' = DOMAIN heap, \A w \in Words : IsWord(heap, w)
  PROVE  IInv'
<1>1. Unloaded /\ Unloaded'
  BY DEF OthersRun, Unloaded
<1>2. /\ Collected /\ IsHeap(heap) /\ stack \in Seq(Range(stack)) /\ Distinct(stack)
      /\ \A f \in Range(stack) :
           IsFrame(f) /\ \A n \in DOMAIN preds : LinkOf(f) \notin Range(preds[n])
      /\ array = [i \in Node |-> i] /\ cur = 0 /\ toDo = <<>>
  BY <1>1, UnloadedFacts
<1>3. PICK h : h = heap'
  OBVIOUS
<1>4. \A v : IsWord(heap, v) => IsWord(h, v)
  BY <1>3 DEF IsWord
<1>5. WordsFit(heap')
  BY <1>3, <1>4 DEF WordsFit
<1>6. Collected' /\ Node' = Node
  BY <1>2 DEF Collected, Link, Node
<1>7. \A f : IsFrame(f) => IsFrame(f)'
  BY <1>3, <1>4 DEF IsFrame
<1>8. array' = [i \in Node' |-> i] /\ cur' = 0 /\ toDo' = <<>>
  BY <1>2, <1>6
<1>9. PICK T : T = Range(stack)
  OBVIOUS
<1>10. stack' \in Seq(T) /\ Distinct(stack')
  BY <1>2, <1>9
<1>11. \A f \in Range(stack') :
         IsFrame(f)' /\ \A n \in DOMAIN preds' : LinkOf(f) \notin Range(preds'[n])
  BY <1>2, <1>7
<1> QED
  BY <1>1, <1>5, <1>6, <1>8, <1>10, <1>11, LoadedStep

(* A transient is bound: all words are words still.                         *)
LEMMA BindTransientKeeps ==
  ASSUME IInv, BindTransient
  PROVE  IInv'
<1>1. OthersRun /\ Unloaded /\ UNCHANGED <<phase, stack, nodes, preds, array, cur, toDo>>
  BY DEF BindTransient, OthersRun, Unloaded, loader, partition
<1>2. PICK t \in DOMAIN heap, w \in Words :
        heap[t].kind = "TRANSIENT" /\ Replaces(heap', heap, t, Block("REF", <<w>>))
  BY DEF BindTransient, Replaces
<1>3. IsHeap(heap) /\ WordsFit(heap)
  BY <1>1, UnloadedFacts
<1>4. \A v \in Words : IsWord(heap, v)
  BY <1>2, <1>3 DEF WordsFit
<1>5. IsHeap(heap') /\ DOMAIN heap' = DOMAIN heap
  BY <1>2, <1>3, <1>4, BoundHeap
<1> QED
  BY <1>1, <1>4, <1>5, OthersKeep

(* An argument of a mutable block is assigned.                              *)
LEMMA AssignKeeps ==
  ASSUME IInv, Assign
  PROVE  IInv'
<1>1. OthersRun /\ Unloaded /\ UNCHANGED <<phase, stack, nodes, preds, array, cur, toDo>>
  BY DEF Assign, OthersRun, Unloaded, loader, partition
<1>2. PICK b \in DOMAIN heap, w \in Words :
        \E i \in DOMAIN heap[b].args :
          heap[b].kind = "MBLOCK" /\ heap' = [heap EXCEPT ![b].args[i] = w]
  BY DEF Assign
<1>3. IsHeap(heap) /\ WordsFit(heap)
  BY <1>1, UnloadedFacts
<1>4. \A v \in Words : IsWord(heap, v)
  BY <1>2, <1>3 DEF WordsFit
<1>5. PICK h, g : h = heap /\ g = heap'
  OBVIOUS
<1>6. PICK i \in DOMAIN h[b].args : h[b].kind = "MBLOCK" /\ Assigns(g, h, b, i, w)
  BY <1>2, <1>5 DEF Assigns
<1>7. IsHeap(h) /\ b \in DOMAIN h /\ IsWord(h, w)
  BY <1>2, <1>3, <1>4, <1>5
<1>8. IsHeap(g) /\ DOMAIN g = DOMAIN h
  BY <1>6, <1>7, AssignedHeap
<1> QED
  BY <1>1, <1>4, <1>5, <1>8, OthersKeep

-----------------------------------------------------------------------------
(* The steps of the loader that find a block.                               *)

(* The edge to a block that has a node already is added to that node,       *)
(* which did not have it.                                                   *)
LEMMA LoadSeenKeeps ==
  ASSUME IInv, LoadSeen
  PROVE  IInv'
<1>1. /\ Loading /\ stack' = Front(stack)
      /\ UNCHANGED <<heap, phase, nodes, array, cur, toDo>>
  BY DEF LoadSeen, AtBlock, partition
<1>2. PICK m \in DOMAIN nodes : preds' = [preds EXCEPT ![m] = @ \o Edge]
  BY DEF LoadSeen, Seen
<1>3. Unloaded /\ Unloaded'
  BY <1>1 DEF Loading, Unloaded
<1>4. /\ Front(stack) \in Seq(Range(stack)) /\ Range(Front(stack)) \subseteq Range(stack)
      /\ Distinct(Front(stack))
      /\ Edge \in Seq(Link) /\ IsInjective(Edge)
      /\ \A f \in Range(Front(stack)) : LinkOf(f) \notin Range(Edge)
      /\ \A n \in DOMAIN preds : Range(Edge) \cap Range(preds[n]) = {}
  BY <1>1, TopIs
<1>5. /\ Collected /\ IsHeap(heap)
      /\ WordsFit(heap)
      /\ \A f \in Range(stack) :
           IsFrame(f) /\ \A n \in DOMAIN preds : LinkOf(f) \notin Range(preds[n])
      /\ array = [i \in Node |-> i] /\ cur = 0 /\ toDo = <<>>
  BY <1>3, UnloadedFacts
<1>6. /\ preds \in Seq(Seq(Link)) /\ Len(preds) = Len(nodes) /\ nodes \in Seq(Nat)
      /\ \A n \in DOMAIN preds : IsInjective(preds[n])
  BY <1>5 DEF Collected
<1>7. PICK e, p : e = Edge /\ p = preds[m] \o e
  OBVIOUS
<1>8. m \in DOMAIN preds /\ preds[m] \in Seq(Link)
  BY <1>6
<1>9. p \in Seq(Link) /\ Range(p) = Range(preds[m]) \cup Range(e) /\ IsInjective(p)
  <2>1. PICK s, L : s = preds[m] /\ L = Link
    OBVIOUS
  <2>2. s \in Seq(L) /\ e \in Seq(L) /\ IsInjective(s) /\ IsInjective(e) /\ Range(s) \cap Range(e) = {}
    BY <1>4, <1>6, <1>7, <1>8, <2>1
  <2>3. s \o e \in Seq(L) /\ Range(s \o e) = Range(s) \cup Range(e) /\ IsInjective(s \o e)
    BY <2>2, JoinRange
  <2> QED
    BY <1>7, <2>1, <2>3
<1>10. /\ preds' \in Seq(Seq(Link)) /\ Len(preds') = Len(nodes) /\ DOMAIN preds' = DOMAIN preds
       /\ \A n \in DOMAIN preds : preds'[n] = IF n = m THEN p ELSE preds[n]
  BY <1>2, <1>6, <1>7, <1>8, <1>9
<1>11. Node' = Node /\ Link' = Link
  BY <1>1 DEF Node, Link
<1>12. Collected'
  <2>1. \A n \in DOMAIN preds' : IsInjective(preds'[n])
    BY <1>6, <1>9, <1>10
  <2> QED
    BY <1>1, <1>6, <1>10, <1>11, <2>1 DEF Collected
<1>13. \A f : IsFrame(f) => IsFrame(f)'
  BY <1>1 DEF IsFrame
<1>14. ASSUME NEW f \in Range(stack')
       PROVE  IsFrame(f)' /\ \A n \in DOMAIN preds' : LinkOf(f) \notin Range(preds'[n])
  <2>1. f \in Range(stack) /\ LinkOf(f) \notin Range(e)
    BY <1>1, <1>4, <1>7
  <2>2. IsFrame(f) /\ \A n \in DOMAIN preds : LinkOf(f) \notin Range(preds[n])
    BY <1>5, <2>1
  <2> QED
    BY <1>8, <1>9, <1>10, <1>13, <2>1, <2>2
<1>15. array' = [i \in Node' |-> i] /\ cur' = 0 /\ toDo' = <<>>
  BY <1>1, <1>5, <1>11
<1>16. PICK T : T = Range(stack)
  OBVIOUS
<1>17. stack' \in Seq(T) /\ Distinct(stack')
  BY <1>1, <1>4, <1>16
<1>18. /\ IsHeap(heap')
       /\ WordsFit(heap')
  BY <1>1, <1>5
<1> QED
  BY <1>3, <1>12, <1>14, <1>15, <1>17, <1>18, LoadedStep

(* The frames of the arguments of a block that becomes a node.              *)
LEMMA ChildrenAre ==
  ASSUME IsHeap(heap), Len(nodes) \in Nat, NEW b \in DOMAIN heap, NEW s, s = Children(b)
  PROVE  /\ s \in Seq(Range(s)) /\ Distinct(s)
         /\ \A f \in Range(s) : /\ IsWord(heap, f.data) /\ f.edge \in Number
                                /\ f.parent = Len(nodes) + 1
<1>1. /\ heap[b].args \in Seq(Range(heap[b].args))
      /\ heap[b].kind \notin Chunks => \A i \in DOMAIN heap[b].args : IsWord(heap, heap[b].args[i])
  BY DEF IsHeap
<1>2. CASE heap[b].kind \in Chunks
  <2>1. s = <<>>
    BY <1>2 DEF Children
  <2>2. <<>> \in Seq(Range(<<>>)) /\ DOMAIN <<>> = {} /\ Range(<<>>) = {}
    BY DEF Range
  <2> QED
    BY <2>1, <2>2 DEF Distinct
<1>3. CASE heap[b].kind \notin Chunks
  <2>1. PICK a, top : a = heap[b].args /\ top = Len(nodes) + 1
    OBVIOUS
  <2>2. a \in Seq(Range(a)) /\ \A i \in DOMAIN a : IsWord(heap, a[i])
    BY <1>1, <1>3, <2>1
  <2>3. s = [i \in DOMAIN a |-> [data |-> a[i], edge |-> i, parent |-> top]]
    BY <1>3, <2>1 DEF Children
  <2>4. PICK n \in Nat : DOMAIN a = 1..n
    BY <2>2
  <2>5. /\ DOMAIN s = 1..n
        /\ \A i \in 1..n : s[i].data = a[i] /\ s[i].edge = i /\ s[i].parent = top
    BY <2>3, <2>4
  <2>6. s \in Seq(Range(s))
    <3>1. PICK R : R = Range(s)
      OBVIOUS
    <3>2. \A i \in 1..n : s[i] \in R
      BY <2>5, <3>1 DEF Range
    <3>3. s = [i \in 1..n |-> s[i]]
      BY <2>3, <2>4
    <3>4. s \in [1..n -> R]
      BY <3>2, <3>3
    <3>5. s \in Seq(R)
      BY <3>4
    <3> QED
      BY <3>1, <3>5
  <2>7. Distinct(s)
    BY <2>5 DEF Distinct, LinkOf
  <2>8. ASSUME NEW f \in Range(s)
        PROVE  IsWord(heap, f.data) /\ f.edge \in Number /\ f.parent = Len(nodes) + 1
    <3>1. PICK i \in 1..n : f = s[i]
      BY <2>5 DEF Range
    <3>2. i \in Number
      BY DEF Number
    <3> QED
      BY <2>1, <2>2, <2>4, <2>5, <3>1, <3>2
  <2> QED
    BY <2>6, <2>7, <2>8
<1> QED
  BY <1>2, <1>3

(* A new node gets its edge, and the frames of its arguments are edges      *)
(* from it, which no node has.                                              *)
LEMMA LoadNewKeeps ==
  ASSUME IInv, LoadNew
  PROVE  IInv'
<1>1. /\ Loading /\ ~IsInt(Value) /\ InsertNode(Value[2])
      /\ stack' = Front(stack) \o Reverse(Children(Value[2]))
      /\ UNCHANGED <<heap, phase, cur, toDo>>
  BY DEF LoadNew, AtBlock, partition
<1>2. Unloaded /\ Unloaded'
  BY <1>1 DEF Loading, Unloaded
<1>3. /\ IsFrame(Top) /\ IsWord(heap, Value)
      /\ Front(stack) \in Seq(Range(stack)) /\ Range(Front(stack)) \subseteq Range(stack)
      /\ Distinct(Front(stack))
      /\ Edge \in Seq(Link) /\ IsInjective(Edge)
      /\ \A l \in Range(Edge) : l \in Link /\ l = LinkOf(Top)
      /\ \A f \in Range(Front(stack)) : LinkOf(f) \notin Range(Edge)
  BY <1>1, TopIs
<1>4. /\ Collected /\ IsHeap(heap) /\ Len(nodes) \in Nat
      /\ WordsFit(heap)
      /\ \A f \in Range(stack) :
           IsFrame(f) /\ \A n \in DOMAIN preds : LinkOf(f) \notin Range(preds[n])
      /\ array = [i \in Node |-> i] /\ cur = 0 /\ toDo = <<>>
  BY <1>2, UnloadedFacts
<1>5. /\ preds \in Seq(Seq(Link)) /\ Len(preds) = Len(nodes) /\ nodes \in Seq(Nat)
      /\ \A n \in DOMAIN preds : IsInjective(preds[n])
  BY <1>4 DEF Collected
<1>6. PICK b, e, size : b = Value[2] /\ e = Edge /\ size = Len(nodes) + 1
  OBVIOUS
<1>7. b \in DOMAIN heap /\ b \in Nat /\ size \in Nat
  <2>1. b \in DOMAIN heap
    BY <1>1, <1>3, <1>6 DEF IsWord
  <2>2. DOMAIN heap = 1..Len(heap) /\ Len(heap) \in Nat
    BY <1>4, HeapIs
  <2> QED
    BY <1>4, <1>6, <2>1, <2>2
<1>8. nodes' = Append(nodes, b) /\ preds' = Append(preds, e) /\ array' = Append(array, size)
  BY <1>1, <1>6 DEF InsertNode
<1>9. /\ Len(nodes') = size /\ nodes' \in Seq(Nat) /\ Node' = 1..size
      /\ Node \subseteq Node' /\ size \notin Node /\ \A n \in Node' : n \in Node \/ n = size
  <2>1. Len(nodes') = size /\ nodes' \in Seq(Nat)
    BY <1>5, <1>6, <1>7, <1>8
  <2> QED
    BY <1>4, <1>6, <2>1 DEF Node
<1>10. Link \subseteq Link'
  BY <1>9 DEF Link
<1>11. /\ preds' \in Seq(Seq(Link)) /\ Len(preds') = size
       /\ DOMAIN preds' = Node' /\ DOMAIN preds = Node
       /\ \A n \in Node' : preds'[n] = IF n = size THEN e ELSE preds[n]
  <2>1. PICK L : L = Seq(Link)
    OBVIOUS
  <2>2. preds \in Seq(L) /\ e \in L /\ Len(preds) = Len(nodes)
    BY <1>3, <1>5, <1>6, <2>1
  <2>3. PICK s, n : s = Append(preds, e) /\ n = Len(preds)
    OBVIOUS
  <2>4. /\ s \in Seq(L) /\ Len(s) = n + 1 /\ DOMAIN s = 1..(n + 1) /\ DOMAIN preds = 1..n /\ n \in Nat
        /\ s[n + 1] = e /\ \A i \in 1..n : s[i] = preds[i]
    BY <2>2, <2>3
  <2>5. size = n + 1 /\ Node = 1..n
    BY <1>6, <2>2, <2>3 DEF Node
  <2>6. \A i \in 1..(n + 1) : i # n + 1 => i \in 1..n
    BY <2>4
  <2> QED
    BY <1>8, <1>9, <2>1, <2>3, <2>4, <2>5, <2>6
<1>12. Collected'
  <2>1. \A n \in DOMAIN preds' : IsInjective(preds'[n])
    BY <1>3, <1>5, <1>6, <1>9, <1>11
  <2>2. preds' \in Seq(Seq(Link'))
    <3>1. PICK L, M : L = Link /\ M = Link'
      OBVIOUS
    <3>2. preds' \in Seq(Seq(L)) /\ L \subseteq M
      BY <1>10, <1>11, <3>1
    <3>3. \A s \in Seq(L) : s \in Seq(M)
      <4>1. ASSUME NEW s \in Seq(L)
            PROVE  s \in Seq(M)
        <5>1. \A x \in Range(s) : x \in M
          BY <3>2, RangeIn
        <5> QED
          BY <5>1, SeqIn
      <4> QED
        BY <4>1
    <3>4. PICK SL, SM : SL = Seq(L) /\ SM = Seq(M)
      OBVIOUS
    <3>5. preds' \in Seq(SL) /\ \A s \in SL : s \in SM
      BY <3>2, <3>3, <3>4
    <3>6. \A x \in Range(preds') : x \in SM
      BY <3>5, RangeIn
    <3>7. preds' \in Seq(SM)
      BY <3>5, <3>6, SeqIn
    <3> QED
      BY <3>1, <3>4, <3>7
  <2> QED
    BY <1>9, <1>11, <2>1, <2>2 DEF Collected
<1>13. array' = [i \in Node' |-> i]
  <2>1. array \in Seq(Nat) /\ Len(array) = Len(nodes)
    BY <1>4 DEF Node
  <2>2. /\ array' \in Seq(Nat) /\ DOMAIN array' = Node' /\ array'[size] = size
        /\ \A i \in Node : array'[i] = array[i]
    BY <1>4, <1>6, <1>7, <1>8, <1>9, <2>1 DEF Node
  <2>3. \A i \in Node' : array'[i] = i
    BY <1>4, <1>9, <2>2
  <2>4. array' = [i \in DOMAIN array' |-> array'[i]]
    BY <2>2
  <2> QED
    BY <2>2, <2>3, <2>4
<1>14. PICK front, s, r : front = Front(stack) /\ s = Children(b) /\ r = Reverse(s)
  OBVIOUS
<1>15. /\ s \in Seq(Range(s)) /\ Distinct(s)
       /\ \A f \in Range(s) : IsWord(heap, f.data) /\ f.edge \in Number /\ f.parent = size
  <2>1. /\ s \in Seq(Range(s)) /\ Distinct(s)
        /\ \A f \in Range(s) : /\ IsWord(heap, f.data) /\ f.edge \in Number
                               /\ f.parent = Len(nodes) + 1
    BY <1>4, <1>7, <1>14, ChildrenAre
  <2> QED
    BY <1>6, <2>1
<1>16. PICK T : T = Range(stack) \cup Range(s)
  OBVIOUS
<1>17. /\ front \in Seq(T) /\ r \in Seq(T) /\ Distinct(front) /\ Distinct(r) /\ Range(r) = Range(s)
  <2>1. \A x \in Range(front) : x \in T
    BY <1>3, <1>14, <1>16
  <2>2. front \in Seq(T) /\ Distinct(front)
    BY <1>3, <1>14, <2>1, SeqIn
  <2>3. s \in Seq(T)
    <3>1. PICK R : R = Range(s)
      OBVIOUS
    <3>2. s \in Seq(R) /\ \A x \in Range(s) : x \in T
      BY <1>15, <1>16, <3>1
    <3> QED
      BY <3>2, SeqIn
  <2>4. r \in Seq(T) /\ Range(r) = Range(s)
    BY <1>14, <2>3, ReverseRange
  <2>5. Distinct(r)
    BY <1>14, <1>15, <2>3, ReverseDistinct
  <2> QED
    BY <2>2, <2>4, <2>5
<1>18. ASSUME NEW f \in Range(front)
       PROVE  /\ IsFrame(f) /\ f.parent # size
              /\ \A n \in DOMAIN preds : LinkOf(f) \notin Range(preds[n])
              /\ LinkOf(f) \notin Range(e)
  <2>1. f \in Range(stack) /\ LinkOf(f) \notin Range(e)
    BY <1>3, <1>6, <1>14
  <2>2. IsFrame(f) /\ \A n \in DOMAIN preds : LinkOf(f) \notin Range(preds[n])
    BY <1>4, <2>1
  <2>3. f.parent \in 0..Len(nodes)
    BY <2>2 DEF IsFrame
  <2>4. f.parent # size
    BY <1>4, <1>6, <2>3
  <2> QED
    BY <2>1, <2>2, <2>4
<1>19. stack' \in Seq(T) /\ Distinct(stack') /\ Range(stack') = Range(front) \cup Range(s)
  <2>1. \A x \in Range(front), y \in Range(r) : LinkOf(x) # LinkOf(y)
    BY <1>15, <1>17, <1>18 DEF LinkOf
  <2>2. Distinct(front \o r)
    BY <1>17, <2>1, JoinDistinct
  <2>3. front \o r \in Seq(T) /\ Range(front \o r) = Range(front) \cup Range(r)
    BY <1>17, JoinRange
  <2>4. stack' = front \o r
    BY <1>1, <1>6, <1>14
  <2> QED
    BY <1>17, <2>2, <2>3, <2>4
<1>20. ASSUME NEW f \in Range(stack')
       PROVE  IsFrame(f)' /\ \A n \in DOMAIN preds' : LinkOf(f) \notin Range(preds'[n])
  <2>1. CASE f \in Range(front)
    <3>1. /\ IsFrame(f) /\ \A n \in DOMAIN preds : LinkOf(f) \notin Range(preds[n])
          /\ LinkOf(f) \notin Range(e)
      BY <1>18, <2>1
    <3>2. IsFrame(f)'
      <4>1. f.parent \in 0..Len(nodes')
        BY <1>4, <1>6, <1>9, <3>1 DEF IsFrame
      <4> QED
        BY <1>1, <3>1, <4>1 DEF IsFrame
    <3> QED
      BY <1>9, <1>11, <3>1, <3>2
  <2>2. CASE f \in Range(s)
    <3>1. IsWord(heap, f.data) /\ f.edge \in Number /\ f.parent = size
      BY <1>15, <2>2
    <3>2. IsFrame(f)'
      <4>1. f.parent \in 0..Len(nodes') /\ f.edge \in Nat /\ f.edge # 0
        BY <1>7, <1>9, <3>1 DEF Number
      <4> QED
        BY <1>1, <3>1, <4>1 DEF IsFrame
    <3>3. ASSUME NEW n \in DOMAIN preds'
          PROVE  LinkOf(f) \notin Range(preds'[n])
      <4>1. preds'[n] \in Seq(Link)
        BY <1>11
      <4>2. \A l \in Range(preds'[n]) : l \in Link
        BY <4>1, RangeIn
      <4>3. LinkOf(f) \notin Link
        BY <1>9, <3>1 DEF LinkOf, Link
      <4> QED
        BY <4>2, <4>3
    <3> QED
      BY <3>2, <3>3
  <2> QED
    BY <1>19, <2>1, <2>2
<1>21. cur' = 0 /\ toDo' = <<>>
  BY <1>1, <1>4
<1>22. /\ IsHeap(heap')
       /\ WordsFit(heap')
  BY <1>1, <1>4
<1> QED
  BY <1>2, <1>12, <1>13, <1>19, <1>20, <1>21, <1>22, LoadedStep

-----------------------------------------------------------------------------
(* The sort puts the nodes in some order, whatever Compare says.            *)

(* The least number of a set.                                               *)
LEMMA MinIs ==
  ASSUME NEW T \in SUBSET Nat, T # {}
  PROVE  Min(T) \in T /\ \A y \in T : Min(T) <= y
<1>1. \E x \in T : \A y \in T : x <= y
  BY Least
<1> QED
  BY <1>1 DEF Min

(* The greatest number of a bounded set.                                    *)
LEMMA MaxIs ==
  ASSUME NEW n \in Nat, NEW T \in SUBSET (0..n), T # {}
  PROVE  Max(T) \in T
<1>1. \E x \in T : \A y \in T : y <= x
  BY Greatest
<1>2. \E x \in T : \A y \in T : x >= y
  <2>1. \A x, y \in T : x \in Int /\ y \in Int
    OBVIOUS
  <2>2. \A x, y \in T : y <= x => x >= y
    BY <2>1
  <2> QED
    BY <1>1, <2>2
<1> QED
  BY <1>2 DEF Max

(* Where the two ends of a partition may be.                                *)
Splits(l, r) ==
  {s \in [array : Seq(Node), i : Int, j : Int, at : Int] :
     /\ Permutes(s.array)
     /\ \/ s.at \in l..r
        \/ s.at = 0 /\ l - 1 <= s.i /\ s.i < s.j /\ l < s.j /\ s.j <= r}

Round(s, l, r) ==
  LET up == ScanUp(s.array, s.i + 1, s.array[r])
      down == ScanDown(s.array, s.j - 1, l, s.array[r])
  IN  IF up >= down THEN [s EXCEPT !.at = up]
      ELSE [s EXCEPT !.array = Swapped(@, up, down), !.i = up, !.j = down]

(* Each round of the partitioning stays within l..r and moves the lower     *)
(* end up.                                                                  *)
LEMMA RoundIs ==
  ASSUME Len(nodes) \in Nat, NEW l \in Node, NEW r \in Node, l < r,
         NEW s \in Splits(l, r), s.at = 0, NEW t, t = Round(s, l, r)
  PROVE  t \in Splits(l, r) /\ (t.at = 0 => t.i >= s.i + 1)
<1>1. PICK a, i, j : a = s.array /\ i = s.i /\ j = s.j
  OBVIOUS
<1>2. /\ s = [array |-> a, i |-> i, j |-> j, at |-> 0]
      /\ a \in Seq(Node) /\ Permutes(a) /\ i \in Int /\ j \in Int
      /\ l - 1 <= i /\ i < j /\ l < j /\ j <= r
  <2>1. s.at \notin l..r
    BY DEF Node
  <2>2. s \in [array : Seq(Node), i : Int, j : Int, at : Int]
    BY DEF Splits
  <2>3. s = [array |-> a, i |-> i, j |-> j, at |-> 0] /\ a \in Seq(Node) /\ i \in Int /\ j \in Int
    BY <1>1, <2>2
  <2>4. Permutes(a) /\ l - 1 <= i /\ i < j /\ l < j /\ j <= r
    BY <1>1, <2>1 DEF Splits
  <2> QED
    BY <2>3, <2>4
<1>3. PICK up, down : up = ScanUp(a, i + 1, a[r]) /\ down = ScanDown(a, j - 1, l, a[r])
  OBVIOUS
<1>4. l \in Nat /\ r \in Nat /\ 1 <= l /\ r <= Len(nodes) /\ Len(a) = Len(nodes)
  BY <1>2 DEF Node, Permutes
<1>5. up \in (i + 1)..r
  <2> DEFINE T == {k \in (i + 1)..Len(a) : Compare(a[k], a[r]) # -1}
  <2>1. r \in T
    <3>1. Compare(a[r], a[r]) = 0
      BY DEF Compare
    <3>2. r \in (i + 1)..Len(a)
      BY <1>2, <1>4
    <3> QED
      BY <3>1, <3>2
  <2>2. T \in SUBSET Nat
    BY <1>2, <1>4
  <2>3. up = Min(T)
    BY <1>3 DEF ScanUp
  <2>4. \A k \in T : k \in (i + 1)..Len(a)
    OBVIOUS
  <2> HIDE DEF T
  <2>5. up \in T /\ up <= r
    BY <2>1, <2>2, <2>3, MinIs
  <2>6. up \in (i + 1)..Len(a) /\ up <= r
    BY <2>4, <2>5
  <2> QED
    BY <1>2, <1>4, <2>6
<1>6. down \in l..(j - 1)
  <2> DEFINE T == {k \in l..(j - 1) : k = l \/ Compare(a[r], a[k]) # -1}
  <2>1. l \in T
    BY <1>2, <1>4
  <2>2. T \in SUBSET (0..Len(nodes))
    BY <1>2, <1>4
  <2>3. down = Max(T)
    BY <1>3 DEF ScanDown
  <2>4. T \subseteq l..(j - 1)
    OBVIOUS
  <2> HIDE DEF T
  <2>5. down \in T
    BY <2>1, <2>2, <2>3, MaxIs
  <2> QED
    BY <2>4, <2>5
<1>7. t = IF up >= down THEN [s EXCEPT !.at = up]
          ELSE [s EXCEPT !.array = Swapped(@, up, down), !.i = up, !.j = down]
  BY <1>1, <1>3 DEF Round
<1>8. CASE up >= down
  <2>1. t = [array |-> a, i |-> i, j |-> j, at |-> up]
    BY <1>2, <1>7, <1>8
  <2>2. up \in l..r /\ up # 0 /\ up \in Int
    BY <1>2, <1>4, <1>5
  <2>3. t \in [array : Seq(Node), i : Int, j : Int, at : Int] /\ t.array = a /\ t.at = up
    BY <1>2, <2>1, <2>2
  <2> QED
    BY <1>2, <2>2, <2>3 DEF Splits
<1>9. CASE ~(up >= down)
  <2>1. up \in Node /\ down \in Node
    <3>1. l - 1 <= i /\ i \in Int /\ j \in Int /\ j <= r
      BY <1>2
    <3>2. up \in 1..Len(nodes)
      BY <1>4, <1>5, <3>1
    <3>3. down \in 1..Len(nodes)
      BY <1>4, <1>6, <3>1
    <3> QED
      BY <3>2, <3>3 DEF Node
  <2>2. PICK z : z = Swapped(a, up, down)
    OBVIOUS
  <2>3. Permutes(z)
    BY <1>2, <2>1, <2>2, SwappedIs
  <2>4. t = [array |-> z, i |-> up, j |-> down, at |-> 0]
    <3>1. t = [s EXCEPT !.array = Swapped(@, up, down), !.i = up, !.j = down]
      BY <1>7, <1>9, Zenon
    <3>2. t = [s EXCEPT !.array = z, !.i = up, !.j = down]
      BY <1>1, <2>2, <3>1
    <3>3. s = [array |-> a, i |-> i, j |-> j, at |-> 0]
      BY <1>2
    <3> QED
      BY <3>2, <3>3
  <2>5. l - 1 <= up /\ up < down /\ l < down /\ down <= r /\ up \in Int /\ down \in Int /\ up >= i + 1
    BY <1>2, <1>4, <1>5, <1>6, <1>9
  <2>6. z \in Seq(Node)
    BY <2>3 DEF Permutes
  <2>7. t \in [array : Seq(Node), i : Int, j : Int, at : Int]
    BY <2>4, <2>5, <2>6
  <2>8. t.array = z /\ t.i = up /\ t.j = down /\ t.at = 0
    BY <2>4
  <2> QED
    BY <1>1, <2>3, <2>5, <2>7, <2>8 DEF Splits
<1> QED
  BY <1>8, <1>9

(* So both ends meet at a position of l..r, after at most as many rounds.   *)
LEMMA PartitionIs ==
  ASSUME Len(nodes) \in Nat, NEW a, Permutes(a), NEW l \in Node, NEW r \in Node, l < r,
         NEW p, p = Split(a, l, r)
  PROVE  Permutes(p.array) /\ p.at \in l..r
<1> DEFINE n == r - l + 1
           D == Splits(l, r)
           base == [array |-> a, i |-> l - 1, j |-> r, at |-> 0]
           next(s) == IF s.at # 0 THEN s ELSE Round(s, l, r)
           step == [k \in 1..n |-> [s \in D |-> next(s)]]
           Def(g) == g = [k \in 0..n |-> IF k = 0 THEN base ELSE next(g[k - 1])]
           run == CHOOSE g : Def(g)
<1>1. n \in Nat /\ l \in Int /\ r \in Int
  BY DEF Node
<1>2. base \in D
  <2>1. a \in Seq(Node)
    BY DEF Permutes
  <2>2. base \in [array : Seq(Node), i : Int, j : Int, at : Int]
    BY <1>1, <2>1
  <2>3. base.array = a /\ base.i = l - 1 /\ base.j = r /\ base.at = 0
    OBVIOUS
  <2>4. l - 1 <= l - 1 /\ l - 1 < r /\ r <= r
    BY <1>1
  <2> HIDE DEF base
  <2> QED
    BY <2>2, <2>3, <2>4 DEF Splits
<1>3. ASSUME NEW s \in D
      PROVE  next(s) \in D
  <2>1. CASE s.at # 0
    BY <2>1
  <2>2. CASE s.at = 0
    <3>1. PICK t : t = Round(s, l, r)
      OBVIOUS
    <3>2. t \in Splits(l, r)
      BY <2>2, <3>1, RoundIs
    <3> QED
      BY <2>2, <3>1, <3>2
  <2> QED
    BY <2>1, <2>2
<1>4. CanRecur(n, D, base, step)
  <2>1. step \in [1..n -> [D -> D]]
    <3> HIDE DEF n, D, next
    <3> QED
      BY <1>3
  <2> HIDE DEF n, D, base, step
  <2> QED
    BY <1>1, <1>2, <2>1 DEF CanRecur
<1>5. PICK f : Recurs(f, n, D, base, step)
  <2> HIDE DEF n, D, base, step
  <2> QED
    BY <1>4, Recursion
<1>6. Def(f)
  <2>1. f = [k \in 0..n |-> f[k]] /\ f[0] = base
    BY <1>5 DEF Recurs
  <2>2. ASSUME NEW k \in 1..n
        PROVE  f[k] = next(f[k - 1])
    <3>1. k - 1 \in 0..n
      BY <1>1
    <3>2. f[k - 1] \in D /\ f[k] = step[k][f[k - 1]]
      <4> HIDE DEF D, step, base
      <4> QED
        BY <1>5, <3>1 DEF Recurs
    <3> HIDE DEF D, next
    <3> QED
      BY <3>2
  <2>3. \A k \in 0..n : k = 0 \/ k \in 1..n
    BY <1>1
  <2> HIDE DEF n, next, base
  <2> QED
    BY <2>1, <2>2, <2>3
<1>7. Def(run)
  <2> HIDE DEF Def
  <2> QED
    BY <1>6
<1>8. /\ run = [k \in 0..n |-> run[k]] /\ run[0] = base
      /\ \A k \in 1..n : run[k] = next(run[k - 1])
  <2>1. 0 \in 0..n /\ \A k \in 1..n : k \in 0..n /\ k # 0
    BY <1>1
  <2> HIDE DEF run, n, next, base
  <2> QED
    BY <1>7, <2>1
<1>9. Recurs(run, n, D, base, step)
  <2>1. ASSUME NEW k \in 1..n, run[k - 1] \in D
        PROVE  run[k] = step[k][run[k - 1]]
    <3> HIDE DEF run, n, D, next
    <3> QED
      BY <1>8, <2>1
  <2> HIDE DEF run, n, D, base, step
  <2> QED
    BY <1>4, <1>8, <2>1, RecursIn
<1>10. p = [array |-> Swapped(run[n].array, run[n].at, r), at |-> run[n].at]
  BY DEF Split, Round
<1> HIDE DEF run
<1>11. \A k \in 0..n : run[k] \in Splits(l, r)
  <2> HIDE DEF n, step, base
  <2> QED
    BY <1>9 DEF Recurs
<1> DEFINE T == {k \in Nat : run[k].at # 0 \/ run[k].i >= l - 1 + k}
<1>12. 0 \in T
  BY <1>1, <1>8
<1>13. ASSUME NEW k \in Nat, k < n, k \in T
       PROVE  k + 1 \in T
  <2>1. k \in 0..n /\ k + 1 \in 1..n /\ k + 1 \in 0..n /\ (k + 1) - 1 = k
    BY <1>1, <1>13
  <2>2. PICK s, t : s = run[k] /\ t = run[k + 1]
    OBVIOUS
  <2>3. s \in Splits(l, r) /\ t \in Splits(l, r)
    BY <1>11, <2>1, <2>2
  <2>4. t = next(s)
    <3>1. run[k + 1] = next(run[(k + 1) - 1])
      BY <1>8, <2>1
    <3> HIDE DEF next, T, n
    <3> QED
      BY <2>1, <2>2, <3>1
  <2>5. CASE s.at # 0
    <3>1. t.at # 0
      BY <2>4, <2>5
    <3> QED
      BY <2>2, <3>1
  <2>6. CASE s.at = 0
    <3>1. t = Round(s, l, r)
      BY <2>4, <2>6
    <3>2. t.at = 0 => t.i >= s.i + 1
      BY <2>3, <2>6, <3>1, RoundIs
    <3>3. s.i >= l - 1 + k
      BY <1>13, <2>2, <2>6
    <3>4. s.i \in Int /\ t.i \in Int
      BY <2>3 DEF Splits
    <3>5. t.at = 0 => t.i >= l - 1 + (k + 1)
      BY <1>1, <3>2, <3>3, <3>4
    <3> QED
      BY <2>2, <3>5
  <2> QED
    BY <2>5, <2>6
<1>14. \A k \in 0..n : k \in T
  <2> HIDE DEF T, n
  <2> QED
    BY <1>1, <1>12, <1>13, Induct
<1>15. PICK s : s = run[n]
  OBVIOUS
<1>16. s \in Splits(l, r) /\ (s.at # 0 \/ s.i >= l - 1 + n)
  <2>1. n \in 0..n
    BY <1>1
  <2> QED
    BY <1>11, <1>14, <1>15, <2>1
<1>17. s.at \in l..r /\ Permutes(s.array)
  <2>1. s.i \in Int /\ s.j \in Int /\ Permutes(s.array)
    BY <1>16 DEF Splits
  <2>2. CASE s.at \in l..r
    BY <2>1, <2>2
  <2>3. CASE ~(s.at \in l..r)
    <3>1. s.at = 0 /\ s.i < s.j /\ s.j <= r
      BY <1>16, <2>3 DEF Splits
    <3>2. s.i >= l - 1 + (r - l + 1)
      BY <1>16, <3>1
    <3> QED
      BY <1>1, <2>1, <3>1, <3>2
  <2> QED
    BY <2>2, <2>3
<1>18. p = [array |-> Swapped(s.array, s.at, r), at |-> s.at]
  BY <1>10, <1>15
<1>19. s.at \in Node
  BY <1>17 DEF Node
<1>20. PICK b, i, z : b = s.array /\ i = s.at /\ z = Swapped(b, i, r)
  OBVIOUS
<1>21. Permutes(z)
  <2>1. Permutes(b) /\ i \in Node
    BY <1>17, <1>19, <1>20
  <2> QED
    BY <1>20, <2>1, SwappedIs
<1> QED
  BY <1>17, <1>18, <1>20, <1>21

(* The calls that are to be made are of ranges of the array, or of an empty *)
(* one at its ends.                                                         *)
Calls == Seq([l : 1..(Len(nodes) + 1), r : 0..Len(nodes)])
Sorting == {s \in [array : Seq(Node), calls : Calls] : Permutes(s.array)}

CallIs(s) ==
  LET c == Head(s.calls)
      p == Split(s.array, c.l, c.r)
  IN  IF c.r <= c.l THEN [s EXCEPT !.calls = Tail(@)]
      ELSE [array |-> p.array,
            calls |-> <<[l |-> c.l, r |-> p.at - 1], [l |-> p.at + 1, r |-> c.r]>> \o Tail(s.calls)]

(* A call of sort keeps all nodes, and makes calls for ranges of the        *)
(* array.                                                                   *)
LEMMA OneCall ==
  ASSUME Len(nodes) \in Nat, NEW s \in Sorting, s.calls # <<>>, NEW t, t = CallIs(s)
  PROVE  t \in Sorting
<1>1. PICK a, q, c, rest : a = s.array /\ q = s.calls /\ c = Head(q) /\ rest = Tail(q)
  OBVIOUS
<1>2. s = [array |-> a, calls |-> q] /\ a \in Seq(Node) /\ q \in Calls /\ Permutes(a)
  BY <1>1 DEF Sorting
<1> DEFINE C == [l : 1..(Len(nodes) + 1), r : 0..Len(nodes)]
<1>3. c \in C /\ rest \in Seq(C)
  <2>1. q \in Seq(C) /\ q # <<>>
    BY <1>1, <1>2 DEF Calls
  <2> HIDE DEF C
  <2> QED
    BY <1>1, <2>1
<1>4. c.l \in 1..(Len(nodes) + 1) /\ c.r \in 0..Len(nodes)
  BY <1>3
<1>5. CASE c.r <= c.l
  <2>1. t = [s EXCEPT !.calls = rest]
    BY <1>1, <1>5 DEF CallIs
  <2>2. t = [array |-> a, calls |-> rest]
    BY <1>2, <2>1
  <2>3. rest \in Calls
    BY <1>3 DEF Calls
  <2> QED
    BY <1>2, <2>2, <2>3 DEF Sorting
<1>6. CASE ~(c.r <= c.l)
  <2>1. PICK l, r, p : l = c.l /\ r = c.r /\ p = Split(a, l, r)
    OBVIOUS
  <2>2. l \in Node /\ r \in Node /\ l < r
    BY <1>4, <1>6, <2>1 DEF Node
  <2>3. Permutes(p.array) /\ p.at \in l..r
    BY <1>2, <2>1, <2>2, PartitionIs
  <2>4. PICK z, at : z = p.array /\ at = p.at
    OBVIOUS
  <2>5. t = [array |-> z, calls |-> <<[l |-> l, r |-> at - 1], [l |-> at + 1, r |-> r]>> \o rest]
    BY <1>1, <1>6, <2>1, <2>4 DEF CallIs
  <2>6. at \in Int /\ l <= at /\ at <= r /\ 1 <= l /\ r <= Len(nodes) /\ l \in Int /\ r \in Int
    BY <2>2, <2>3, <2>4 DEF Node
  <2>7. at - 1 \in 0..Len(nodes) /\ at + 1 \in 1..(Len(nodes) + 1)
    BY <2>6
  <2>8. PICK x, y : x = [l |-> l, r |-> at - 1] /\ y = [l |-> at + 1, r |-> r]
    OBVIOUS
  <2>9. x \in C /\ y \in C
    BY <1>4, <2>1, <2>7, <2>8
  <2>10. <<x, y>> \o rest \in Seq(C)
    <3> HIDE DEF C
    <3> QED
      BY <1>3, <2>9
  <2>11. t = [array |-> z, calls |-> <<x, y>> \o rest]
    BY <2>5, <2>8
  <2>12. z \in Seq(Node) /\ Permutes(z)
    BY <2>3, <2>4 DEF Permutes
  <2> QED
    BY <2>10, <2>11, <2>12 DEF Sorting, Calls
<1> QED
  BY <1>5, <1>6

(* The array that is sorted holds every node once, whatever Compare says.   *)
LEMMA SortIs ==
  ASSUME Len(nodes) \in Nat, NEW a, Permutes(a), NEW l, NEW r, l = 1, r = Len(nodes),
         NEW z, z = Sort(a, l, r)
  PROVE  Permutes(z)
<1> DEFINE n == 2 * Len(a) + 1
           base == [array |-> a, calls |-> <<[l |-> l, r |-> r]>>]
           next(s) == IF s.calls = <<>> THEN s ELSE CallIs(s)
           step == [k \in 1..n |-> [s \in Sorting |-> next(s)]]
           Def(g) == g = [k \in 0..n |-> IF k = 0 THEN base ELSE next(g[k - 1])]
           run == CHOOSE g : Def(g)
<1>1. n \in Nat /\ a \in Seq(Node)
  BY DEF Permutes
<1>2. base \in Sorting
  <2>1. [l |-> l, r |-> r] \in [l : 1..(Len(nodes) + 1), r : 0..Len(nodes)]
    BY DEF Node
  <2>2. <<[l |-> l, r |-> r]>> \in Calls
    BY <2>1 DEF Calls
  <2> QED
    BY <1>1, <2>2 DEF Sorting
<1>3. ASSUME NEW s \in Sorting
      PROVE  next(s) \in Sorting
  BY OneCall
<1>4. CanRecur(n, Sorting, base, step)
  <2>1. step \in [1..n -> [Sorting -> Sorting]]
    <3> HIDE DEF n, next
    <3> QED
      BY <1>3
  <2> HIDE DEF n, base, step
  <2> QED
    BY <1>1, <1>2, <2>1 DEF CanRecur
<1>5. PICK f : Recurs(f, n, Sorting, base, step)
  <2> HIDE DEF n, base, step
  <2> QED
    BY <1>4, Recursion
<1>6. Def(f)
  <2>1. f = [k \in 0..n |-> f[k]] /\ f[0] = base
    BY <1>5 DEF Recurs
  <2>2. ASSUME NEW k \in 1..n
        PROVE  f[k] = next(f[k - 1])
    <3>1. k - 1 \in 0..n
      BY <1>1
    <3>2. f[k - 1] \in Sorting /\ f[k] = step[k][f[k - 1]]
      <4> HIDE DEF step, base
      <4> QED
        BY <1>5, <3>1 DEF Recurs
    <3> HIDE DEF next
    <3> QED
      BY <3>2
  <2>3. \A k \in 0..n : k = 0 \/ k \in 1..n
    BY <1>1
  <2> HIDE DEF n, next, base
  <2> QED
    BY <2>1, <2>2, <2>3
<1>7. Def(run)
  <2> HIDE DEF Def
  <2> QED
    BY <1>6
<1>8. /\ run = [k \in 0..n |-> run[k]] /\ run[0] = base
      /\ \A k \in 1..n : run[k] = next(run[k - 1])
  <2>1. 0 \in 0..n /\ \A k \in 1..n : k \in 0..n /\ k # 0
    BY <1>1
  <2> HIDE DEF run, n, next, base
  <2> QED
    BY <1>7, <2>1
<1>9. Recurs(run, n, Sorting, base, step)
  <2>1. ASSUME NEW k \in 1..n, run[k - 1] \in Sorting
        PROVE  run[k] = step[k][run[k - 1]]
    <3> HIDE DEF run, n, next
    <3> QED
      BY <1>8, <2>1
  <2> HIDE DEF run, n, base, step
  <2> QED
    BY <1>4, <1>8, <2>1, RecursIn
<1>10. z = run[n].array
  BY DEF Sort, CallIs
<1> HIDE DEF run
<1>11. run[n] \in Sorting
  <2>1. n \in 0..n
    BY <1>1
  <2> HIDE DEF n, step, base
  <2> QED
    BY <1>9, <2>1 DEF Recurs
<1> QED
  BY <1>10, <1>11 DEF Sorting

-----------------------------------------------------------------------------
(* The first partition.                                                     *)

(* The positions where a class starts are in order, and the first one is    *)
(* 1.                                                                       *)
LEMMA StartsAre ==
  ASSUME Len(nodes) \in Nat, nodes \in Seq(Nat), NEW W \in SUBSET Node, 1 \in W,
         NEW s, s = Filter([i \in DOMAIN nodes |-> i], W)
  PROVE  /\ s \in Seq(Node) /\ Len(s) \in Nat \ {0} /\ s[1] = 1
         /\ \A i, j \in 1..Len(s) : i < j => s[i] < s[j]
<1>1. PICK ids : ids = [i \in DOMAIN nodes |-> i]
  OBVIOUS
<1>2. ids \in Seq(Node) /\ Len(ids) = Len(nodes) /\ \A i \in Node : ids[i] = i
  <2>1. ids = [i \in Node |-> i]
    BY <1>1 DEF Node
  <2>2. ids \in [1..Len(nodes) -> Node]
    BY <2>1 DEF Node
  <2> QED
    BY <2>1, <2>2 DEF Node
<1>3. s = Filter(ids, W)
  BY <1>1
<1>4. s \in Seq(Node) /\ \E p : Selects(p, ids, Len(ids), W, s)
  BY <1>2, <1>3, FilterIs
<1>5. PICK p : Selects(p, ids, Len(ids), W, s)
  BY <1>4
<1>6. /\ p \in [1..Len(s) -> Node]
      /\ \A i \in 1..Len(s) : s[i] = ids[p[i]]
      /\ \A i, j \in 1..Len(s) : i < j => p[i] < p[j]
      /\ \A j \in Node : ids[j] \in W => \E i \in 1..Len(s) : p[i] = j
  BY <1>2, <1>5 DEF Selects, Node
<1>7. \A i \in 1..Len(s) : s[i] = p[i]
  BY <1>2, <1>6
<1>8. Len(s) \in Nat
  BY <1>4
<1>9. PICK m \in 1..Len(s) : p[m] = 1
  <2>1. 1 \in Node /\ ids[1] \in W
    BY <1>2
  <2> QED
    BY <1>6, <2>1
<1>10. Len(s) # 0 /\ 1 \in 1..Len(s)
  BY <1>8, <1>9
<1>11. s[1] = 1
  <2>1. p[1] \in Node
    BY <1>6, <1>10
  <2>2. p[1] >= 1
    BY <2>1 DEF Node
  <2>3. m = 1 \/ 1 < m
    BY <1>8
  <2>4. 1 < m => p[1] < p[m]
    BY <1>6, <1>10
  <2>5. m = 1
    <3>1. ~(p[1] < 1)
      BY <2>1, <2>2 DEF Node
    <3> QED
      BY <1>9, <2>3, <2>4, <3>1
  <2> QED
    BY <1>7, <1>9, <1>10, <2>5
<1> QED
  BY <1>4, <1>6, <1>7, <1>8, <1>10, <1>11

EndOf(s, k) == IF k = Len(s) THEN Len(nodes) ELSE s[k + 1] - 1

(* The classes that start there divide the array.                           *)
LEMMA EndsAre ==
  ASSUME Len(nodes) \in Nat, NEW s \in Seq(Node), Len(s) \in Nat \ {0}, s[1] = 1,
         \A i, j \in 1..Len(s) : i < j => s[i] < s[j]
  PROVE  /\ \A k \in 1..Len(s) : s[k] \in Node /\ EndOf(s, k) \in Node /\ s[k] <= EndOf(s, k)
         /\ \A i \in Node : \E k \in 1..Len(s) : i \in s[k]..EndOf(s, k)
         /\ \A k, m \in 1..Len(s), i \in Node :
              i \in s[k]..EndOf(s, k) /\ i \in s[m]..EndOf(s, m) => k = m
<1>1. PICK n, size : n = Len(s) /\ size = Len(nodes)
  OBVIOUS
<1>2. /\ n \in Nat \ {0} /\ size \in Nat /\ Node = 1..size
      /\ \A k \in 1..n : s[k] \in 1..size
  BY <1>1 DEF Node
<1>3. \A k \in 1..n : EndOf(s, k) = IF k = n THEN size ELSE s[k + 1] - 1
  BY <1>1 DEF EndOf
<1>4. ASSUME NEW k \in 1..n
      PROVE  s[k] \in Node /\ EndOf(s, k) \in Node /\ s[k] <= EndOf(s, k)
  <2>1. s[k] \in 1..size
    BY <1>2
  <2>2. CASE k = n
    <3>1. EndOf(s, k) = size
      BY <1>3, <2>2
    <3> QED
      BY <1>2, <2>1, <3>1
  <2>3. CASE k # n
    <3>1. k + 1 \in 1..n /\ k < k + 1
      BY <1>2, <2>3
    <3>2. s[k + 1] \in 1..size /\ s[k] < s[k + 1]
      BY <1>1, <1>2, <3>1
    <3>3. EndOf(s, k) = s[k + 1] - 1
      BY <1>3, <2>3
    <3>4. PICK x, y : x = s[k] /\ y = s[k + 1]
      OBVIOUS
    <3>5. x \in 1..size /\ y - 1 \in 1..size /\ x <= y - 1
      BY <1>2, <2>1, <3>2, <3>4
    <3>6. x \in Node /\ y - 1 \in Node
      BY <1>2, <3>5
    <3>7. EndOf(s, k) = y - 1
      BY <3>3, <3>4
    <3> QED
      BY <3>4, <3>5, <3>6, <3>7
  <2> QED
    BY <2>2, <2>3
<1>5. ASSUME NEW i \in Node
      PROVE  \E k \in 1..n : i \in s[k]..EndOf(s, k)
  <2> DEFINE T == {k \in 1..n : s[k] <= i}
  <2>1. i \in 1..size
    BY <1>2
  <2>2. 1 \in T
    BY <1>2, <2>1
  <2>3. T \in SUBSET (0..n)
    OBVIOUS
  <2>4. PICK k \in T : \A y \in T : y <= k
    <3> HIDE DEF T
    <3> QED
      BY <1>2, <2>2, <2>3, Greatest
  <2>5. k \in 1..n /\ s[k] <= i
    OBVIOUS
  <2>6. i <= EndOf(s, k)
    <3>1. CASE k = n
      BY <1>3, <2>1, <3>1
    <3>2. CASE k # n
      <4>1. k + 1 \in 1..n
        BY <1>2, <2>5, <3>2
      <4>2. k + 1 \notin T
        <5>1. ~(k + 1 <= k)
          BY <2>5
        <5> HIDE DEF T
        <5> QED
          BY <2>4, <5>1
      <4>3. ~(s[k + 1] <= i) /\ s[k + 1] \in 1..size
        BY <1>2, <4>1, <4>2
      <4>4. EndOf(s, k) = s[k + 1] - 1
        BY <1>3, <2>5, <3>2
      <4> QED
        BY <2>1, <4>3, <4>4
    <3> QED
      BY <3>1, <3>2
  <2>7. EndOf(s, k) \in Int /\ s[k] \in Int
    BY <1>2, <1>4, <2>5
  <2>8. i \in s[k]..EndOf(s, k)
    BY <2>1, <2>5, <2>6, <2>7
  <2> QED
    BY <2>5, <2>8
<1>6. ASSUME NEW k \in 1..n, NEW m \in 1..n, k < m, NEW i \in Node,
             i \in s[k]..EndOf(s, k), i \in s[m]..EndOf(s, m)
      PROVE  FALSE
  <2>1. k # n /\ k + 1 \in 1..n /\ (k + 1 = m \/ k + 1 < m)
    BY <1>2, <1>6
  <2>2. EndOf(s, k) = s[k + 1] - 1
    BY <1>3, <2>1
  <2>3. s[k + 1] \in 1..size /\ s[m] \in 1..size
    BY <1>2, <2>1
  <2>4. s[k + 1] <= s[m]
    <3>1. k + 1 < m => s[k + 1] < s[m]
      BY <1>1, <2>1
    <3> QED
      BY <2>1, <2>3, <3>1
  <2>5. i <= s[k + 1] - 1 /\ s[m] <= i /\ i \in Int
    BY <1>2, <1>6, <2>2
  <2> QED
    BY <2>3, <2>4, <2>5
<1>7. ASSUME NEW k \in 1..n, NEW m \in 1..n, NEW i \in Node,
             i \in s[k]..EndOf(s, k), i \in s[m]..EndOf(s, m)
      PROVE  k = m
  <2>1. k < m \/ m < k \/ k = m
    BY <1>2
  <2> QED
    BY <1>6, <1>7, <2>1
<1> QED
  BY <1>1, <1>4, <1>5, <1>7

(* Every class of the first partition is new and on the agenda with all its *)
(* edges.                                                                   *)
LEMMA FirstClassIs ==
  ASSUME Collected, NEW a, Permutes(a), NEW first \in Node, NEW last \in Node, first <= last,
         NEW b, b = Complete(NewClass(a, first, last))
  PROVE  /\ b \in PBlock /\ b.first = first /\ b.last = last /\ b.split = last /\ Exact(b)
         /\ Counts(b, Members(a, first, last))
<1>1. PICK c : c = NewClass(a, first, last)
  OBVIOUS
<1>2. /\ c \in PBlock /\ c.first = first /\ c.last = last /\ c.split = last
      /\ Exact(c) /\ Counts(c, Members(a, first, last))
  <2>1. /\ c \in PBlock /\ c.first = first /\ c.last = last /\ c.split = last
        /\ c.onAgenda = 0 /\ Exact(c)
        /\ Counts(c, {a[i] : i \in first..last})
    BY <1>1, NewClassIs
  <2> QED
    BY <2>1 DEF Members
<1>3. b = Complete(c)
  BY <1>1
<1>4. /\ b \in PBlock /\ SameRange(c, b) /\ Exact(b)
      /\ \A e \in Number : Incoming(b, e) = Incoming(c, e)
  BY <1>2, <1>3, CompleteIs
<1> QED
  BY <1>2, <1>4 DEF SameRange, Counts

(* Every class that has an edge is on the first agenda.                     *)
LEMMA InitAgendaIs ==
  ASSUME NEW bs \in Seq(PBlock), NEW s, s = InitAgenda(bs)
  PROVE  s \in Seq(DOMAIN bs) /\ \A c \in DOMAIN bs : bs[c].onAgenda > 0 => c \in Range(s)
<1>1. PICK ids, W, D : /\ ids = [c \in DOMAIN bs |-> c] /\ D = DOMAIN bs
                       /\ W = {c \in DOMAIN bs : bs[c].onAgenda > 0}
  OBVIOUS
<1>2. ids \in Seq(D) /\ Range(ids) = D
  <2>1. Len(bs) \in Nat /\ D = 1..Len(bs)
    BY <1>1
  <2>2. ids = [c \in 1..Len(bs) |-> c]
    BY <1>1
  <2>3. ids \in [1..Len(bs) -> D]
    BY <2>1, <2>2
  <2>4. Range(ids) = D
    BY <2>1, <2>2 DEF Range
  <2> QED
    BY <2>1, <2>3, <2>4
<1>3. Reverse(ids) \in Seq(D) /\ Range(Reverse(ids)) = D
  BY <1>2, ReverseRange
<1>4. s = Filter(Reverse(ids), W)
  BY <1>1 DEF InitAgenda
<1>5. s \in Seq(D) /\ Range(s) = D \cap W
  <2>1. PICK r : r = Reverse(ids)
    OBVIOUS
  <2>2. Filter(r, W) \in Seq(D) /\ Range(Filter(r, W)) = Range(r) \cap W
    BY <1>3, <2>1, FilterRange
  <2> QED
    BY <1>3, <1>4, <2>1, <2>2
<1> QED
  BY <1>1, <1>5

(* The classes of the first partition count the edges into their nodes.     *)
LEMMA InitBlocksKeeps ==
  ASSUME IInv, InitBlocks
  PROVE  IInv'
<1>1. /\ phase = "minimize" /\ phase' = "refine" /\ Len(nodes) >= 2
      /\ array' = Sort(array, 1, Len(nodes)) /\ agenda' = InitAgenda(blocks')
      /\ UNCHANGED <<nodes, preds, cur, toDo>>
  BY DEF InitBlocks
<1>2. /\ Collected /\ Len(nodes) \in Nat /\ nodes \in Seq(Nat)
      /\ array = [i \in Node |-> i] /\ cur = 0 /\ toDo = <<>>
  BY <1>1 DEF IInv, Collected, Fresh, Unloaded
<1>3. Permutes(array)
  <2>1. array \in [1..Len(nodes) -> Node]
    BY <1>2 DEF Node
  <2>2. array \in Seq(Node) /\ Len(array) = Len(nodes)
    BY <1>2, <2>1
  <2>3. IsInjective(array) /\ Range(array) = Node
    <3> HIDE DEF Node
    <3> QED
      BY <1>2 DEF IsInjective, Injection, Range
  <2> QED
    BY <2>2, <2>3 DEF Permutes
<1>4. Permutes(array')
  <2>1. PICK a, z, l, r : a = array /\ z = array' /\ l = 1 /\ r = Len(nodes)
    OBVIOUS
  <2>2. z = Sort(a, l, r) /\ Permutes(a)
    BY <1>1, <1>3, <2>1
  <2>3. Permutes(z)
    BY <1>2, <2>1, <2>2, SortIs
  <2> QED
    BY <2>1, <2>3
<1>5. PICK W, s : /\ W = {i \in DOMAIN nodes : i = 1 \/ Compare(array'[i], array'[i - 1]) = 1}
                  /\ s = Filter([i \in DOMAIN nodes |-> i], W)
  OBVIOUS
<1>6. /\ class' = [n \in DOMAIN nodes |->
                      CHOOSE k \in DOMAIN s : \E i \in s[k]..EndOf(s, k) : array'[i] = n]
      /\ blocks' = [k \in DOMAIN s |-> Complete(NewClass(array', s[k], EndOf(s, k)))]
  BY <1>5 DEF InitBlocks, EndOf
<1>7. DOMAIN nodes = Node
  BY <1>2 DEF Node
<1>8. /\ s \in Seq(Node) /\ Len(s) \in Nat \ {0} /\ s[1] = 1
      /\ \A i, j \in 1..Len(s) : i < j => s[i] < s[j]
  <2>1. W \in SUBSET Node
    BY <1>5, <1>7
  <2>2. 1 \in W
    <3>1. 1 \in DOMAIN nodes
      BY <1>1, <1>2
    <3> QED
      BY <1>5, <3>1
  <2> QED
    BY <1>2, <1>5, <2>1, <2>2, StartsAre
<1>9. PICK m \in Nat \ {0} : m = Len(s) /\ DOMAIN s = 1..m
  BY <1>8
<1>10. /\ \A k \in 1..m : s[k] \in Node /\ EndOf(s, k) \in Node /\ s[k] <= EndOf(s, k)
       /\ \A i \in Node : \E k \in 1..m : i \in s[k]..EndOf(s, k)
       /\ \A k, l \in 1..m, i \in Node :
            i \in s[k]..EndOf(s, k) /\ i \in s[l]..EndOf(s, l) => k = l
  BY <1>2, <1>8, <1>9, EndsAre
<1>11. PICK a, bs : a = array' /\ bs = blocks'
  OBVIOUS
<1>12. ASSUME NEW k \in 1..m
       PROVE  /\ bs[k] \in PBlock /\ bs[k].first = s[k] /\ bs[k].last = EndOf(s, k)
              /\ bs[k].split = EndOf(s, k) /\ Exact(bs[k])
              /\ Counts(bs[k], Members(a, s[k], EndOf(s, k)))
  <2>1. PICK first, last, b : first = s[k] /\ last = EndOf(s, k) /\ b = bs[k]
    OBVIOUS
  <2>2. first \in Node /\ last \in Node /\ first <= last
    BY <1>10, <2>1
  <2>3. b = Complete(NewClass(a, first, last))
    BY <1>6, <1>9, <1>11, <2>1
  <2>4. Permutes(a)
    BY <1>4, <1>11
  <2>5. /\ b \in PBlock /\ b.first = first /\ b.last = last /\ b.split = last /\ Exact(b)
        /\ Counts(b, Members(a, first, last))
    BY <1>2, <2>2, <2>3, <2>4, FirstClassIs
  <2> QED
    BY <2>1, <2>5
<1>13. bs \in Seq(PBlock) /\ Len(bs) = m /\ DOMAIN bs = 1..m
  <2>1. bs = [k \in 1..m |-> bs[k]]
    BY <1>6, <1>9, <1>11
  <2>2. bs \in [1..m -> PBlock]
    BY <1>12, <2>1
  <2> QED
    BY <2>2
<1>14. /\ a \in [Node -> Node]
       /\ \A x, y \in Node : a[x] = a[y] => x = y
       /\ \A n \in Node : LookUp(a, n) \in Node /\ a[LookUp(a, n)] = n
  BY <1>2, <1>4, <1>11, PermutesIs
<1>15. ASSUME NEW k \in 1..m, NEW i \in s[k]..EndOf(s, k)
       PROVE  i \in Node
  <2>1. PICK f, l : f = s[k] /\ l = EndOf(s, k)
    OBVIOUS
  <2>2. f \in Node /\ l \in Node
    BY <1>10, <2>1
  <2>3. i \in f..l
    BY <2>1
  <2> QED
    BY <1>2, <2>2, <2>3 DEF Node
<1>16. ASSUME NEW n \in Node
       PROVE  class'[n] \in 1..m /\ \E i \in s[class'[n]]..EndOf(s, class'[n]) : a[i] = n
  <2>1. PICK i \in Node : a[i] = n
    BY <1>14
  <2>2. PICK k \in 1..m : i \in s[k]..EndOf(s, k)
    BY <1>10
  <2>3. \E l \in DOMAIN s : \E x \in s[l]..EndOf(s, l) : array'[x] = n
    BY <1>9, <1>11, <2>1, <2>2
  <2>4. class'[n] = CHOOSE l \in DOMAIN s : \E x \in s[l]..EndOf(s, l) : array'[x] = n
    BY <1>6, <1>7
  <2> QED
    BY <1>9, <1>11, <2>3, <2>4
<1>17. class' \in [Node -> DOMAIN bs]
  <2> HIDE DEF Node
  <2> QED
    BY <1>6, <1>7, <1>13, <1>16
<1>18. ASSUME NEW i \in Node, NEW c \in DOMAIN bs
       PROVE  class'[a[i]] = c <=> i \in bs[c].first..bs[c].last
  <2>1. PICK n, k : n = a[i] /\ k = class'[n]
    OBVIOUS
  <2>2. n \in Node
    BY <1>14, <2>1
  <2>3. k \in 1..m /\ \E x \in s[k]..EndOf(s, k) : a[x] = n
    BY <1>16, <2>1, <2>2
  <2>4. PICK x \in s[k]..EndOf(s, k) : a[x] = n
    BY <2>3
  <2>5. x \in Node
    BY <1>15, <2>3
  <2>6. x = i
    <3>1. a[x] = a[i]
      BY <2>1, <2>4
    <3> QED
      BY <1>14, <2>5, <3>1
  <2>7. i \in s[k]..EndOf(s, k)
    BY <2>4, <2>6
  <2>8. c \in 1..m
    BY <1>13
  <2>9. i \in s[c]..EndOf(s, c) => k = c
    BY <1>10, <2>3, <2>7, <2>8
  <2>10. k = c <=> i \in s[c]..EndOf(s, c)
    BY <2>7, <2>9
  <2>11. bs[c].first..bs[c].last = s[c]..EndOf(s, c)
    <3>1. bs[c].first = s[c] /\ bs[c].last = EndOf(s, c)
      BY <1>12, <2>8
    <3> QED
      BY <3>1
  <2> QED
    BY <2>1, <2>10, <2>11, Zenon
<1>19. Divides(a, class', bs)
  <2>1. ASSUME NEW c \in DOMAIN bs
        PROVE  /\ bs[c].first \in Node /\ bs[c].last \in Node /\ bs[c].first <= bs[c].last
               /\ bs[c].split >= bs[c].first - 1 /\ bs[c].split <= bs[c].last
    <3>1. PICK f, l : f = s[c] /\ l = EndOf(s, c)
      OBVIOUS
    <3>2. bs[c].first = f /\ bs[c].last = l /\ bs[c].split = l
      BY <1>12, <1>13, <3>1
    <3>3. f \in Node /\ l \in Node /\ f <= l
      BY <1>10, <1>13, <3>1
    <3>4. l >= f - 1 /\ l <= l
      BY <1>2, <3>3 DEF Node
    <3> QED
      BY <3>2, <3>3, <3>4
  <2> HIDE DEF Node
  <2> QED
    BY <1>13, <1>17, <1>18, <2>1 DEF Divides
<1>20. Marked(bs, <<>>)
  <2>1. <<>> \in Seq(DOMAIN bs) /\ IsInjective(<<>>) /\ Range(<<>>) = {}
    BY DEF IsInjective, Injection, Range
  <2>2. ASSUME NEW c \in DOMAIN bs
        PROVE  ~(bs[c].split < bs[c].last)
    <3>1. bs[c] \in PBlock /\ bs[c].split = bs[c].last
      BY <1>12, <1>13
    <3>2. bs[c].last \in Int
      BY <3>1 DEF PBlock
    <3> QED
      BY <3>1, <3>2
  <2> QED
    BY <2>1, <2>2 DEF Marked
<1>21. Counted(class', bs)
  <2>1. ASSUME NEW c \in DOMAIN bs
        PROVE  Exact(bs[c]) /\ Counts(bs[c], ClassOf(class', c))
    <3>1. PICK cl : cl = class'
      OBVIOUS
    <3>2. Divides(a, cl, bs) /\ Permutes(a)
      BY <1>4, <1>11, <1>19, <3>1
    <3>3. ClassOf(cl, c) = {a[i] : i \in bs[c].first..bs[c].last}
      BY <1>2, <3>2, MembersIs
    <3>4. bs[c].first = s[c] /\ bs[c].last = EndOf(s, c) /\ Exact(bs[c]) /\ Counts(bs[c], Members(a, s[c], EndOf(s, c)))
      BY <1>12, <1>13
    <3>5. ClassOf(cl, c) = Members(a, s[c], EndOf(s, c))
      BY <3>3, <3>4 DEF Members
    <3> QED
      BY <3>1, <3>4, <3>5
  <2> QED
    BY <2>1 DEF Counted
<1>22. Scheduled(bs, agenda', 0)
  <2>1. PICK q : q = agenda'
    OBVIOUS
  <2>2. q = InitAgenda(bs)
    BY <1>1, <1>11, <2>1
  <2>3. q \in Seq(DOMAIN bs) /\ \A c \in DOMAIN bs : bs[c].onAgenda > 0 => c \in Range(q)
    BY <1>13, <2>2, InitAgendaIs
  <2>4. 0 \in 0..Len(bs)
    BY <1>13
  <2> QED
    BY <2>1, <2>3, <2>4 DEF Scheduled
<1>23. Divides(array', class', blocks')
  BY <1>11, <1>19
<1>24. Marked(blocks', toDo')
  BY <1>1, <1>2, <1>11, <1>20
<1>25. Counted(class', blocks')
  BY <1>11, <1>21
<1>26. Scheduled(blocks', agenda', cur')
  BY <1>1, <1>2, <1>11, <1>22
<1>27. UNCHANGED <<nodes, preds>>
  BY <1>1
<1> QED
  BY <1>1, <1>4, <1>23, <1>24, <1>25, <1>26, <1>27, RefinedStep

-----------------------------------------------------------------------------
(* The invariant.                                                           *)

(* The root is the only frame on the stack; it has no parent.               *)
LEMMA IInvInit == Init => IInv
<1> SUFFICES ASSUME Init
             PROVE  IInv
  OBVIOUS
<1>1. /\ heap \in Graphs /\ phase = "load" /\ stack = <<[data |-> Ptr(1), edge |-> 0, parent |-> 0]>>
      /\ nodes = <<>> /\ preds = <<>> /\ array = <<>> /\ cur = 0 /\ toDo = <<>>
  BY DEF Init
<1>2. /\ IsHeap(heap)
      /\ WordsFit(heap)
  BY <1>1, GraphsAssumption DEF WordsFit
<1>3. Collected /\ Node = {}
  BY <1>1 DEF Collected, Node
<1>4. Fresh
  BY <1>1, <1>3 DEF Fresh
<1>5. Refined
  BY <1>1 DEF Refined
<1>6. PICK f : f = [data |-> Ptr(1), edge |-> 0, parent |-> 0]
  OBVIOUS
<1>7. IsFrame(f)
  <2>1. 1 \in DOMAIN heap /\ Ptr(1)[2] = 1
    BY <1>2, HeapIs DEF Ptr
  <2>2. IsWord(heap, Ptr(1))
    BY <2>1 DEF IsWord
  <2> QED
    BY <1>1, <1>6, <2>2 DEF IsFrame
<1>8. stack = <<f>> /\ Range(stack) = {f} /\ DOMAIN stack = {1}
  BY <1>1, <1>6 DEF Range
<1>9. stack \in Seq(Range(stack)) /\ Distinct(stack)
  BY <1>8 DEF Distinct
<1>10. Frames
  BY <1>1, <1>2, <1>7, <1>8, <1>9 DEF Frames
<1> QED
  BY <1>3, <1>4, <1>5, <1>10 DEF IInv

(* Every step of the loader, of other threads and of the refinement keeps   *)
(* the invariant.                                                           *)
LEMMA IInvNext == IInv /\ [Next]_vars => IInv'
<1> SUFFICES ASSUME IInv, [Next]_vars
             PROVE  IInv'
  OBVIOUS
<1>1. CASE PartitionLoader
  BY <1>1, WaitKeeps, LoadIntKeeps, LoadNewKeeps, LoadSeenKeeps DEF PartitionLoader
<1>2. CASE BindTransient \/ Assign
  BY <1>2, BindTransientKeeps, AssignKeeps
<1>3. CASE Minimize
  BY <1>3, InitBlocksKeeps, PopAgendaKeeps, FollowEdgeKeeps, ClassDoneKeeps, AllMarkedKeeps,
     SplitClassKeeps, ReduceGraphKeeps DEF Minimize
<1>4. CASE UNCHANGED vars
  <2>1. /\ UNCHANGED <<heap, phase, stack, nodes, preds, array, class, blocks, agenda, cur, toDo>>
        /\ Unloaded' = Unloaded
    BY <1>4 DEF vars, loader, partition, Unloaded
  <2>2. Node' = Node /\ Link' = Link
    BY <2>1 DEF Node, Link
  <2>3. CASE phase = "refine"
    <3>1. /\ Permutes(array) /\ Divides(array, class, blocks) /\ Marked(blocks, toDo)
          /\ Counted(class, blocks) /\ Scheduled(blocks, agenda, cur)
      BY <2>3, RefineFacts
    <3> QED
      BY <2>1, <2>3, <3>1, RefinedStep
  <2>4. CASE phase # "refine"
    BY <2>1, <2>2, <2>4 DEF IInv, Collected, Frames, Fresh, Refined, Distinct, LinkOf, IsFrame
  <2> QED
    BY <2>3, <2>4
<1> QED
  BY <1>1, <1>2, <1>3, <1>4 DEF Next

(* An edge on the agenda leads into the class.                              *)
LEMMA NegativeAre ==
  ASSUME Collected, NEW M, M \subseteq Node, NEW b \in PBlock, Counts(b, M)
  PROVE  /\ Edges \subseteq Number
         /\ Negative(b) = {e \in Edges : IsOnAgenda(b, e)}
<1>1. /\ preds \in Seq(Seq(Link)) /\ Len(preds) = Len(nodes) /\ nodes \in Seq(Nat)
  BY DEF Collected
<1>2. DOMAIN nodes = Node /\ DOMAIN preds = Node
  BY <1>1 DEF Node
<1>3. ASSUME NEW n \in Node, NEW p \in Range(preds[n])
      PROVE  p \in Link /\ p.edge \in Edges
  <2>1. preds[n] \in Seq(Link)
    BY <1>1, <1>2
  <2>2. p \in Link
    BY <2>1 DEF Range
  <2> QED
    BY <1>2, <2>2 DEF Edges
<1>4. Edges \subseteq Number
  <2>1. ASSUME NEW e \in Edges
        PROVE  e \in Number
    <3>1. PICK n \in Node : \E p \in Range(preds[n]) : e = p.edge
      BY <1>2 DEF Edges
    <3>2. PICK p \in Range(preds[n]) : e = p.edge
      BY <3>1
    <3> QED
      BY <1>3, <3>2 DEF Link
  <2> QED
    BY <2>1
<1>5. ASSUME NEW e \in Number, Counter(b, e) < 0
      PROVE  e \in Edges
  <2>1. Incoming(b, e) # 0
    <3>1. PICK x \in Int : x = Counter(b, e)
      BY CounterType
    <3> QED
      BY <1>5, <3>1 DEF Incoming
  <2>2. Cardinality(Into(M, e)) # 0
    BY <2>1 DEF Counts
  <2>3. Into(M, e) # {}
    BY <2>2, FS_EmptySet
  <2>4. PICK n, m : n \in M /\ [edge |-> e, parent |-> m] \in Range(preds[n])
    BY <2>3 DEF Into
  <2>5. [edge |-> e, parent |-> m].edge \in Edges
    BY <1>3, <2>4
  <2> QED
    BY <2>5
<1> QED
  BY <1>4, <1>5 DEF Negative, IsOnAgenda

(* The invariant says what is claimed of the counters.                      *)
LEMMA ExactCounters == IInv => CountersExact
<1> SUFFICES ASSUME IInv, phase = "refine", NEW c \in DOMAIN blocks
             PROVE  LET b == blocks[c]
                        members == {array[i] : i \in b.first..b.last}
                    IN  /\ members = {n \in DOMAIN nodes : class[n] = c}
                        /\ \A e \in Edges : Incoming(b, e) =
                               Cardinality({x \in members \X (DOMAIN nodes) :
                                               [edge |-> e, parent |-> x[2]] \in Range(preds[x[1]])})
                        /\ b.onAgenda = Cardinality({e \in Edges : IsOnAgenda(b, e)})
                        /\ b.onAgenda > 0 => c \in Range(agenda) \cup {cur}
                        /\ b.split < b.last => c \in Range(toDo)
                        /\ toDo = <<>> => b.split = b.last
  BY DEF CountersExact
<1>1. /\ Collected /\ Len(nodes) \in Nat
      /\ Permutes(array) /\ Divides(array, class, blocks) /\ Marked(blocks, toDo)
      /\ Counted(class, blocks) /\ Scheduled(blocks, agenda, cur)
  BY RefineFacts
<1>2. DOMAIN nodes = Node
  BY <1>1 DEF Collected, Node
<1>3. PICK b : b = blocks[c]
  OBVIOUS
<1>4. b \in PBlock /\ b.split <= b.last
  BY <1>1, <1>3 DEF Divides
<1>5. PICK M : M = {array[i] : i \in b.first..b.last}
  OBVIOUS
<1>6. M = ClassOf(class, c)
  BY <1>1, <1>3, <1>5, MembersIs
<1>7. M = {n \in DOMAIN nodes : class[n] = c} /\ M \subseteq Node
  BY <1>2, <1>6 DEF ClassOf
<1>8. Exact(b) /\ Counts(b, M)
  BY <1>1, <1>3, <1>6 DEF Counted
<1>9. Edges \subseteq Number /\ Negative(b) = {e \in Edges : IsOnAgenda(b, e)}
  BY <1>1, <1>4, <1>7, <1>8, NegativeAre
<1>10. ASSUME NEW e \in Edges
       PROVE  Incoming(b, e) =
                  Cardinality({x \in M \X (DOMAIN nodes) :
                                  [edge |-> e, parent |-> x[2]] \in Range(preds[x[1]])})
  <2>1. Into(M, e) = {x \in M \X (DOMAIN nodes) : [edge |-> e, parent |-> x[2]] \in Range(preds[x[1]])}
    BY <1>2 DEF Into
  <2>2. Incoming(b, e) = Cardinality(Into(M, e))
    BY <1>8, <1>9 DEF Counts
  <2> QED
    BY <2>1, <2>2
<1>11. b.onAgenda = Cardinality({e \in Edges : IsOnAgenda(b, e)})
  BY <1>8, <1>9 DEF Exact
<1>12. b.onAgenda > 0 => c \in Range(agenda) \cup {cur}
  BY <1>1, <1>3 DEF Scheduled
<1>13. b.split < b.last => c \in Range(toDo)
  BY <1>1, <1>3 DEF Marked
<1>14. toDo = <<>> => b.split = b.last
  <2>1. toDo = <<>> => ~(b.split < b.last)
    BY <1>13 DEF Range
  <2>2. b.split \in Int /\ b.last \in Int
    BY <1>4 DEF PBlock
  <2> QED
    BY <1>4, <2>1, <2>2
<1> QED
  BY <1>3, <1>5, <1>7, <1>10, <1>11, <1>12, <1>13, <1>14, Zenon

(* While the partition is refined, each class counts exactly the edges into *)
(* its nodes, is on the agenda with as many of them as it says, and then it *)
(* is in the stack or the current one (PBlock and Partition of              *)
(* Minimizer.cc).                                                           *)
THEOREM CountersAreExact == Spec => []CountersExact
<1> QED
  BY IInvInit, IInvNext, ExactCounters, PTL DEF Spec

-----------------------------------------------------------------------------
(* The graph that is refined is the one that was loaded, whatever has been  *)
(* assigned since, and the heap that is left has the blocks of its leaders. *)

Leads(h, w, b) == ~IsInt(Deref(h, w)) /\ Deref(h, w)[2] = b
LinkTo(m, i) == [edge |-> i, parent |-> m]
IsArgOf(h, b, i) == h[b].kind \notin Chunks /\ i \in DOMAIN h[b].args

(* The blocks of the nodes, with that of the root first.                    *)
Owned(h, ns) ==
  /\ IsInjective(ns)
  /\ \A n \in DOMAIN ns : ns[n] \in DOMAIN h /\ h[ns[n]].kind \notin Transients
  /\ 1 \in DOMAIN ns => Leads(h, Ptr(1), ns[1])

(* An edge into a node is an argument that leads to its block.              *)
Linked(h, ns, ps) ==
  \A n \in DOMAIN ns : \A p \in Range(ps[n]) :
    /\ p.parent \in DOMAIN ns /\ IsArgOf(h, ns[p.parent], p.edge)
    /\ Leads(h, h[ns[p.parent]].args[p.edge], ns[n])

(* A frame is an argument that is still to be followed, or the root.        *)
Framed(h, ns, s) ==
  \A f \in Range(s) :
    IF f.parent = 0 THEN f.data = Ptr(1)
    ELSE /\ f.parent \in DOMAIN ns /\ IsArgOf(h, ns[f.parent], f.edge)
         /\ f.data = h[ns[f.parent]].args[f.edge]

(* No argument is forgotten: it is an integer, an edge or a frame.          *)
Covered(h, ns, ps, s) ==
  \A m \in DOMAIN ns : \A i \in DOMAIN h[ns[m]].args :
    h[ns[m]].kind \notin Chunks =>
      \/ IsInt(Deref(h, h[ns[m]].args[i]))
      \/ \E n \in DOMAIN ns : LinkTo(m, i) \in Range(ps[n])
      \/ \E f \in Range(s) : f.parent = m /\ f.edge = i

Loaded(h, ns, ps, s) ==
  Owned(h, ns) /\ Linked(h, ns, ps) /\ Framed(h, ns, s) /\ Covered(h, ns, ps, s)

Graph == phase # "done" => Loaded(original, nodes, preds, stack)

(* The heap differs from that of the blocks as they were collected in the   *)
(* arguments of mutable blocks that have been.                              *)
Twin(o, h, ns) ==
  /\ IsHeap(o) /\ IsHeap(h) /\ Len(o) = Len(h)
  /\ \A b \in DOMAIN h :
       /\ o[b].kind = h[b].kind /\ DOMAIN o[b].args = DOMAIN h[b].args
       /\ o[b] = h[b] \/ (h[b].kind = "MBLOCK" /\ b \in Range(ns))

Collecting == phase # "done" => Twin(original, heap, nodes)

Followed ==
  /\ phase \in {"minimize", "refine"} => stack = <<>>
  /\ phase = "refine" => Len(nodes) >= 2

RInv == IInv /\ Graph /\ Collecting /\ Followed

-----------------------------------------------------------------------------
(* What has been bound stays bound.                                         *)

(* A heap with the same blocks in which bound transients are what they were *)
(* and other blocks are no transients still.                                *)
Extends(g, h) ==
  /\ RefsLead(h) /\ RefsLead(g) /\ Len(g) = Len(h)
  /\ \A b \in DOMAIN h :
       /\ h[b].kind \notin Transients => g[b].kind \notin Transients
       /\ h[b].kind = "REF" => g[b].kind = "REF" /\ g[b].args[1] = h[b].args[1]

(* A word that leads to an integer or to a block that is no transient still *)
(* leads there.                                                             *)
LEMMA DerefKept ==
  ASSUME NEW h, NEW g, Extends(g, h), NEW w, IsWord(h, w), ~IsTransient(h, Deref(h, w))
  PROVE  Deref(g, w) = Deref(h, w)
<1>1. PICK n \in Nat : n = Len(h) /\ n = Len(g) /\ DOMAIN h = 1..n /\ DOMAIN g = 1..n
  BY DEF Extends, RefsLead
<1>2. PICK to : Derefs(h, to)
  BY DerefSteps DEF Extends
<1>3. PICK tg : Derefs(g, tg)
  BY DerefSteps DEF Extends
<1>4. \A k \in 0..n, b \in 1..n :
        to[k][b] = IF k = 0 \/ h[b].kind # "REF" THEN Ptr(b)
                   ELSE LET v == h[b].args[1] IN IF IsInt(v) THEN v ELSE to[k - 1][v[2]]
  BY <1>1, <1>2 DEF Derefs
<1>5. \A k \in 0..n, b \in 1..n :
        tg[k][b] = IF k = 0 \/ g[b].kind # "REF" THEN Ptr(b)
                   ELSE LET v == g[b].args[1] IN IF IsInt(v) THEN v ELSE tg[k - 1][v[2]]
  BY <1>1, <1>3 DEF Derefs
<1>6. ASSUME NEW b \in 1..n
      PROVE  /\ h[b].kind \notin Transients => g[b].kind # "REF"
             /\ h[b].kind = "REF" => /\ g[b].kind = "REF" /\ g[b].args[1] = h[b].args[1]
                                     /\ IsWord(h, h[b].args[1])
  BY <1>1 DEF Extends, Transients, RefsLead
<1>7. \A b : ~IsInt(Ptr(b)) /\ Ptr(b)[2] = b
  BY DEF Ptr, IsInt
<1>8. "REF" \in Transients
  BY DEF Transients
<1> DEFINE Same(k) == \A b \in 1..n : ~IsTransient(h, to[k][b]) => tg[k][b] = to[k][b]
           T == {k \in 0..n : Same(k)}
<1>9. Same(0)
  <2>1. ASSUME NEW b \in 1..n
        PROVE  tg[0][b] = to[0][b]
    BY <1>4, <1>5
  <2> QED
    BY <2>1
<1>10. ASSUME NEW k \in Nat, k < n, Same(k)
       PROVE  Same(k + 1)
  <2>1. k + 1 \in 0..n /\ k + 1 # 0 /\ (k + 1) - 1 = k
    BY <1>10
  <2>2. PICK j : j = k + 1
    OBVIOUS
  <2> SUFFICES ASSUME NEW b \in 1..n, ~IsTransient(h, to[j][b])
               PROVE  tg[j][b] = to[j][b]
    BY <2>2
  <2>3. to[j][b] = IF h[b].kind # "REF" THEN Ptr(b)
                   ELSE LET v == h[b].args[1] IN IF IsInt(v) THEN v ELSE to[k][v[2]]
    BY <1>4, <2>1, <2>2
  <2>4. tg[j][b] = IF g[b].kind # "REF" THEN Ptr(b)
                   ELSE LET v == g[b].args[1] IN IF IsInt(v) THEN v ELSE tg[k][v[2]]
    BY <1>5, <2>1, <2>2
  <2>5. CASE h[b].kind # "REF"
    <3>1. to[j][b] = Ptr(b)
      BY <2>3, <2>5
    <3>2. h[b].kind \notin Transients
      BY <1>7, <3>1 DEF IsTransient
    <3> QED
      BY <1>6, <2>4, <3>1, <3>2
  <2>6. CASE h[b].kind = "REF"
    <3>1. PICK v : v = h[b].args[1]
      OBVIOUS
    <3>2. g[b].kind = "REF" /\ g[b].args[1] = v /\ IsWord(h, v)
      BY <1>6, <2>6, <3>1
    <3>3. CASE IsInt(v)
      BY <2>3, <2>4, <2>6, <3>1, <3>2, <3>3
    <3>4. CASE ~IsInt(v)
      <4>1. v[2] \in 1..n
        BY <1>1, <3>2, <3>4 DEF IsWord
      <4>2. to[j][b] = to[k][v[2]] /\ tg[j][b] = tg[k][v[2]]
        BY <2>3, <2>4, <2>6, <3>1, <3>2, <3>4
      <4> QED
        BY <1>10, <4>1, <4>2
    <3> QED
      BY <3>3, <3>4
  <2> QED
    BY <2>5, <2>6
<1>11. Same(n)
  <2>1. \A k \in 0..n : k \in T
    <3>1. 0 \in T
      BY <1>9
    <3>2. \A k \in Nat : k < n /\ k \in T => k + 1 \in T
      <4> HIDE DEF Same
      <4> QED
        BY <1>10
    <3> HIDE DEF T
    <3> QED
      BY <3>1, <3>2, Induct
  <2>2. n \in T
    <3> HIDE DEF T
    <3> QED
      BY <2>1
  <2> QED
    BY <2>2
<1>12. \A v : Deref(h, v) = IF IsInt(v) \/ h[v[2]].kind # "REF" THEN v ELSE to[n][v[2]]
  BY <1>1, <1>2 DEF Derefs
<1>13. \A v : Deref(g, v) = IF IsInt(v) \/ g[v[2]].kind # "REF" THEN v ELSE tg[n][v[2]]
  BY <1>1, <1>3 DEF Derefs
<1>14. CASE IsInt(w)
  BY <1>12, <1>13, <1>14
<1>15. CASE ~IsInt(w)
  <2>1. w[2] \in 1..n
    BY <1>1, <1>15 DEF IsWord
  <2>2. CASE h[w[2]].kind # "REF"
    <3>1. Deref(h, w) = w
      BY <1>12, <2>2
    <3>2. h[w[2]].kind \notin Transients
      BY <1>15, <3>1 DEF IsTransient
    <3> QED
      BY <1>6, <1>13, <2>1, <3>1, <3>2
  <2>3. CASE h[w[2]].kind = "REF"
    <3>1. Deref(h, w) = to[n][w[2]] /\ Deref(g, w) = tg[n][w[2]]
      BY <1>6, <1>12, <1>13, <1>15, <2>1, <2>3
    <3> QED
      BY <1>11, <2>1, <3>1
  <2> QED
    BY <2>2, <2>3
<1> QED
  BY <1>14, <1>15

(* A word that leads to a block of a node leads there still.                *)
LEMMA LeadsKept ==
  ASSUME NEW h, NEW g, Extends(g, h), NEW w, IsWord(h, w),
         NEW b, Leads(h, w, b), h[b].kind \notin Transients
  PROVE  Leads(g, w, b)
<1>1. ~IsTransient(h, Deref(h, w))
  BY DEF Leads, IsTransient
<1>2. Deref(g, w) = Deref(h, w)
  BY <1>1, DerefKept
<1> QED
  BY <1>2 DEF Leads

(* The words of a heap.                                                     *)
LEMMA ArgIsWord ==
  ASSUME NEW h, IsHeap(h)
  PROVE  /\ IsWord(h, Ptr(1))
         /\ \A b \in DOMAIN h : \A i : IsArgOf(h, b, i) => IsWord(h, h[b].args[i])
<1>1. 1 \in DOMAIN h /\ Ptr(1)[2] = 1
  BY HeapIs
<1> QED
  BY <1>1 DEF IsHeap, IsWord, IsArgOf

(* Both heaps say where a word leads that leads to no transient.            *)
LEMMA TwinExtends ==
  ASSUME NEW o, NEW h, NEW ns, Twin(o, h, ns)
  PROVE  Extends(o, h) /\ Extends(h, o) /\ DOMAIN o = DOMAIN h
<1>1. IsHeap(o) /\ IsHeap(h) /\ Len(o) = Len(h)
  BY DEF Twin
<1>2. RefsLead(o) /\ RefsLead(h)
  BY <1>1, HeapLeads
<1>3. DOMAIN o = DOMAIN h
  BY <1>1, <1>2 DEF RefsLead
<1>4. ASSUME NEW b \in DOMAIN h
      PROVE  /\ o[b].kind = h[b].kind
             /\ h[b].kind = "REF" => o[b].args[1] = h[b].args[1]
  BY DEF Twin
<1> QED
  BY <1>1, <1>2, <1>3, <1>4 DEF Extends

(* So do the nodes of the one belong to the other.                          *)
LEMMA TwinOwned ==
  ASSUME NEW o, NEW h, NEW ns, Twin(o, h, ns), Owned(o, ns)
  PROVE  Owned(h, ns)
<1>1. Extends(h, o) /\ DOMAIN o = DOMAIN h /\ IsHeap(o)
  BY TwinExtends DEF Twin
<1>2. \A n \in DOMAIN ns : /\ ns[n] \in DOMAIN h /\ h[ns[n]].kind = o[ns[n]].kind
                           /\ o[ns[n]].kind \notin Transients
  BY <1>1 DEF Owned, Twin
<1>3. ASSUME 1 \in DOMAIN ns
      PROVE  Leads(h, Ptr(1), ns[1])
  <2>1. Leads(o, Ptr(1), ns[1]) /\ o[ns[1]].kind \notin Transients
    BY <1>3 DEF Owned
  <2>2. IsWord(o, Ptr(1))
    BY <1>1, ArgIsWord
  <2> QED
    BY <1>1, <2>1, <2>2, LeadsKept
<1> QED
  BY <1>2, <1>3 DEF Owned

-----------------------------------------------------------------------------
(* The loader.                                                              *)

(* A step that changes nothing of the graph.                                *)
LEMMA SameGraph ==
  ASSUME Graph, phase # "done", UNCHANGED <<original, nodes, preds, stack>>
  PROVE  Graph'
BY DEF Graph

(* The graph, and the frame on top of the stack.                            *)
LEMMA LoadingFacts ==
  ASSUME IInv, Graph, Collecting, Loading
  PROVE  /\ Owned(original, nodes) /\ Linked(original, nodes, preds)
         /\ Framed(original, nodes, stack) /\ Covered(original, nodes, preds, stack)
         /\ IsHeap(heap) /\ nodes \in Seq(Nat) /\ preds \in Seq(Seq(Link)) /\ Len(preds) = Len(nodes)
         /\ Twin(original, heap, nodes) /\ IsWord(heap, Value)
         /\ ~IsTransient(heap, Value) => Value = Deref(original, Top.data)
         /\ Top.parent \in 0..Len(nodes) /\ Top \in Range(stack)
         /\ Range(stack) = Range(Front(stack)) \cup {Top}
         /\ Edge = IF Top.parent = 0 THEN <<>> ELSE <<LinkTo(Top.parent, Top.edge)>>
<1>1. Unloaded /\ stack # <<>> /\ phase # "done"
  BY DEF Loading, Unloaded
<1>2. /\ Owned(original, nodes) /\ Linked(original, nodes, preds)
      /\ Framed(original, nodes, stack) /\ Covered(original, nodes, preds, stack)
  BY <1>1 DEF Graph, Loaded
<1>3. Twin(original, heap, nodes)
  BY <1>1 DEF Collecting
<1>4. Collected /\ IsHeap(heap) /\ stack \in Seq(Range(stack))
  BY <1>1, UnloadedFacts
<1>5. nodes \in Seq(Nat) /\ preds \in Seq(Seq(Link)) /\ Len(preds) = Len(nodes)
  BY <1>4 DEF Collected
<1>6. /\ Value = Deref(heap, Top.data) /\ IsWord(heap, Value) /\ IsWord(heap, Top.data)
      /\ Top.parent \in 0..Len(nodes)
  BY TopIs DEF Value, IsFrame
<1>7. ASSUME ~IsTransient(heap, Value)
       PROVE  Value = Deref(original, Top.data)
  <2>1. PICK h, o, w : h = heap /\ o = original /\ w = Top.data
    OBVIOUS
  <2>2. Extends(o, h)
    BY <1>3, <2>1, TwinExtends
  <2>3. Deref(o, w) = Deref(h, w)
    BY <1>6, <1>7, <2>1, <2>2, DerefKept
  <2> QED
    BY <1>6, <2>1, <2>3
<1>8. PICK T, s, front, top : T = Range(stack) /\ s = stack /\ front = Front(stack) /\ top = Top
  OBVIOUS
<1>9. s \in Seq(T) /\ s # <<>> /\ front = Front(s) /\ top = Last(s)
  BY <1>1, <1>4, <1>8 DEF Top
<1>10. top \in T /\ Range(s) = Range(front) \cup {top}
  BY <1>9, FrontLast
<1>11. Edge = IF Top.parent = 0 THEN <<>> ELSE <<LinkTo(Top.parent, Top.edge)>>
  BY DEF Edge, LinkTo
<1> QED
  BY <1>2, <1>3, <1>4, <1>5, <1>6, <1>7, <1>8, <1>10, <1>11

(* An argument that is an integer needs no edge.                            *)
LEMMA LoadIntKeepsGraph ==
  ASSUME IInv, Graph, Collecting, LoadInt
  PROVE  Graph'
<1>1. /\ Loading /\ IsInt(Value) /\ ~IsTransient(heap, Value) /\ stack' = Front(stack)
      /\ UNCHANGED <<original, nodes, preds>>
  BY DEF LoadInt, IsTransient
<1>2. /\ Owned(original, nodes) /\ Linked(original, nodes, preds)
      /\ Framed(original, nodes, stack) /\ Covered(original, nodes, preds, stack)
      /\ Value = Deref(original, Top.data) /\ Top \in Range(stack)
      /\ nodes \in Seq(Nat)
      /\ Range(stack) = Range(Front(stack)) \cup {Top}
  BY <1>1, LoadingFacts
<1>3. PICK s : s = Front(stack)
  OBVIOUS
<1>4. Framed(original, nodes, s)
  <2>1. \A f \in Range(s) : f \in Range(stack)
    BY <1>2, <1>3
  <2> QED
    BY <1>2, <2>1 DEF Framed
<1>5. Covered(original, nodes, preds, s)
  <2>1. ASSUME NEW m \in DOMAIN nodes, NEW i \in DOMAIN original[nodes[m]].args,
               original[nodes[m]].kind \notin Chunks
        PROVE  \/ IsInt(Deref(original, original[nodes[m]].args[i]))
               \/ \E n \in DOMAIN nodes : LinkTo(m, i) \in Range(preds[n])
               \/ \E f \in Range(s) : f.parent = m /\ f.edge = i
    <3>1. CASE \E f \in Range(stack) : f.parent = m /\ f.edge = i
      <4>1. PICK f \in Range(stack) : f.parent = m /\ f.edge = i
        BY <3>1
      <4>2. CASE f = Top
        <5>1. Top.parent # 0
          BY <1>2, <4>1, <4>2
        <5>2. Top.data = original[nodes[m]].args[i]
          BY <1>2, <4>1, <4>2, <5>1 DEF Framed
        <5> QED
          BY <1>1, <1>2, <5>2
      <4>3. CASE f # Top
        BY <1>2, <1>3, <4>1, <4>3
      <4> QED
        BY <4>2, <4>3
    <3>2. CASE ~ \E f \in Range(stack) : f.parent = m /\ f.edge = i
      BY <1>2, <2>1, <3>2 DEF Covered
    <3> QED
      BY <3>1, <3>2
  <2> QED
    BY <2>1 DEF Covered
<1> QED
  BY <1>1, <1>2, <1>3, <1>4, <1>5 DEF Graph, Loaded

(* The edge that was followed to a block is one of its node, the frame goes. *)
LEMMA LoadSeenKeepsGraph ==
  ASSUME IInv, Graph, Collecting, LoadSeen
  PROVE  Graph'
<1>1. /\ Loading /\ ~IsInt(Value) /\ ~IsTransient(heap, Value)
      /\ stack' = Front(stack) /\ UNCHANGED <<original, nodes>>
  BY DEF LoadSeen, AtBlock
<1>2. PICK x \in DOMAIN nodes : nodes[x] = Value[2] /\ preds' = [preds EXCEPT ![x] = @ \o Edge]
  BY DEF LoadSeen, Seen
<1>3. /\ Owned(original, nodes) /\ Linked(original, nodes, preds)
      /\ Framed(original, nodes, stack) /\ Covered(original, nodes, preds, stack)
      /\ nodes \in Seq(Nat) /\ preds \in Seq(Seq(Link)) /\ Len(preds) = Len(nodes)
      /\ Value = Deref(original, Top.data) /\ Top.parent \in 0..Len(nodes) /\ Top \in Range(stack)
      /\ Range(stack) = Range(Front(stack)) \cup {Top}
      /\ Edge = IF Top.parent = 0 THEN <<>> ELSE <<LinkTo(Top.parent, Top.edge)>>
  BY <1>1, LoadingFacts
<1>4. PICK s, ps, e, top : s = Front(stack) /\ ps = preds' /\ e = Edge /\ top = Top
  OBVIOUS
<1>5. x \in DOMAIN preds /\ preds[x] \in Seq(Link) /\ e \in Seq(Link)
  BY <1>1, <1>3, <1>4, TopIs
<1>6. Range(preds[x] \o e) = Range(preds[x]) \cup Range(e)
  <2>1. PICK q, L : q = preds[x] /\ L = Link
    OBVIOUS
  <2>2. Range(q \o e) = Range(q) \cup Range(e)
    BY <1>5, <2>1, JoinRange
  <2> QED
    BY <2>1, <2>2
<1>7. \A n \in DOMAIN nodes : Range(ps[n]) = IF n = x THEN Range(preds[n]) \cup Range(e) ELSE Range(preds[n])
  <2>1. DOMAIN preds = DOMAIN nodes
    BY <1>3
  <2>2. \A n \in DOMAIN preds : ps[n] = IF n = x THEN preds[n] \o e ELSE preds[n]
    BY <1>2, <1>4, <1>5
  <2> QED
    BY <1>6, <2>1, <2>2
<1>8. Range(e) = IF top.parent = 0 THEN {} ELSE {LinkTo(top.parent, top.edge)}
  BY <1>3, <1>4 DEF Range
<1>9. top.parent # 0 =>
        /\ top.parent \in DOMAIN nodes /\ IsArgOf(original, nodes[top.parent], top.edge)
        /\ Leads(original, original[nodes[top.parent]].args[top.edge], nodes[x])
  BY <1>1, <1>2, <1>3, <1>4 DEF Framed, Leads
<1>10. Linked(original, nodes, ps)
  <2>1. ASSUME NEW n \in DOMAIN nodes, NEW p \in Range(ps[n])
        PROVE  /\ p.parent \in DOMAIN nodes /\ IsArgOf(original, nodes[p.parent], p.edge)
               /\ Leads(original, original[nodes[p.parent]].args[p.edge], nodes[n])
    <3>1. CASE p \in Range(preds[n])
      BY <1>3, <3>1 DEF Linked
    <3>2. CASE p \notin Range(preds[n])
      <4>1. n = x /\ p \in Range(e)
        BY <1>7, <3>2
      <4>2. top.parent # 0 /\ p = LinkTo(top.parent, top.edge)
        BY <1>8, <4>1
      <4>3. p.parent = top.parent /\ p.edge = top.edge
        BY <4>2 DEF LinkTo
      <4> QED
        BY <1>9, <4>1, <4>2, <4>3
    <3> QED
      BY <3>1, <3>2
  <2> QED
    BY <2>1 DEF Linked
<1>11. Framed(original, nodes, s)
  <2>1. \A f \in Range(s) : f \in Range(stack)
    BY <1>3, <1>4
  <2> QED
    BY <1>3, <2>1 DEF Framed
<1>12. Covered(original, nodes, ps, s)
  <2>1. ASSUME NEW m \in DOMAIN nodes, NEW i \in DOMAIN original[nodes[m]].args,
               original[nodes[m]].kind \notin Chunks
        PROVE  \/ IsInt(Deref(original, original[nodes[m]].args[i]))
               \/ \E n \in DOMAIN nodes : LinkTo(m, i) \in Range(ps[n])
               \/ \E f \in Range(s) : f.parent = m /\ f.edge = i
    <3>1. CASE \E f \in Range(stack) : f.parent = m /\ f.edge = i
      <4>1. PICK f \in Range(stack) : f.parent = m /\ f.edge = i
        BY <3>1
      <4>2. CASE f = top
        <5>1. m # 0
          BY <1>3
        <5>2. LinkTo(m, i) \in Range(e)
          BY <1>8, <4>1, <4>2, <5>1
        <5> QED
          BY <1>7, <5>2
      <4>3. CASE f # top
        BY <1>3, <1>4, <4>1, <4>3
      <4> QED
        BY <4>2, <4>3
    <3>2. CASE ~ \E f \in Range(stack) : f.parent = m /\ f.edge = i
      <4>1. \/ IsInt(Deref(original, original[nodes[m]].args[i]))
            \/ \E n \in DOMAIN nodes : LinkTo(m, i) \in Range(preds[n])
        BY <1>3, <2>1, <3>2 DEF Covered
      <4>2. \A n \in DOMAIN nodes : Range(preds[n]) \subseteq Range(ps[n])
        BY <1>7
      <4> QED
        BY <4>1, <4>2
    <3> QED
      BY <3>1, <3>2
  <2> QED
    BY <2>1 DEF Covered
<1>13. nodes' = nodes /\ original' = original /\ stack' = s /\ preds' = ps
  BY <1>1, <1>4
<1> QED
  BY <1>3, <1>10, <1>11, <1>12, <1>13 DEF Graph, Loaded

(* The frames of a block are its arguments.                                 *)
LEMMA ChildrenCover ==
  ASSUME NEW b, original[b] = heap[b], NEW s, s = Children(b)
  PROVE  /\ \A f \in Range(s) : /\ f.parent = Len(nodes) + 1 /\ IsArgOf(original, b, f.edge)
                                /\ f.data = original[b].args[f.edge]
         /\ \A i \in DOMAIN original[b].args :
              original[b].kind \notin Chunks => \E f \in Range(s) : f.parent = Len(nodes) + 1 /\ f.edge = i
<1>1. CASE original[b].kind \in Chunks
  <2>1. Range(s) = {}
    BY <1>1 DEF Children, Range
  <2> QED
    BY <1>1, <2>1
<1>2. CASE original[b].kind \notin Chunks
  <2>1. PICK a, size : a = original[b].args /\ size = Len(nodes) + 1
    OBVIOUS
  <2>2. s = [i \in DOMAIN a |-> [data |-> a[i], edge |-> i, parent |-> size]]
    BY <1>2, <2>1 DEF Children
  <2>3. \A i \in DOMAIN a : s[i].data = a[i] /\ s[i].edge = i /\ s[i].parent = size
    BY <2>2
  <2>4. Range(s) = {s[i] : i \in DOMAIN a}
    BY <2>2 DEF Range
  <2> QED
    BY <1>2, <2>1, <2>3, <2>4 DEF IsArgOf
<1> QED
  BY <1>1, <1>2

(* A new node has the edge that led to its block, and its arguments become  *)
(* frames.                                                                  *)
LEMMA LoadNewKeepsGraph ==
  ASSUME IInv, Graph, Collecting, LoadNew
  PROVE  Graph'
<1>1. /\ Loading /\ ~IsInt(Value) /\ ~IsTransient(heap, Value) /\ Seen = {}
      /\ InsertNode(Value[2])
      /\ stack' = Front(stack) \o Reverse(Children(Value[2]))
      /\ original' = original
  BY DEF LoadNew, AtBlock
<1>2. /\ Owned(original, nodes) /\ Linked(original, nodes, preds)
      /\ Framed(original, nodes, stack) /\ Covered(original, nodes, preds, stack)
      /\ IsHeap(heap) /\ nodes \in Seq(Nat) /\ preds \in Seq(Seq(Link)) /\ Len(preds) = Len(nodes)
      /\ Twin(original, heap, nodes)
      /\ Value = Deref(original, Top.data) /\ IsWord(heap, Value)
      /\ Top.parent \in 0..Len(nodes) /\ Top \in Range(stack)
      /\ Range(stack) = Range(Front(stack)) \cup {Top}
      /\ Edge = IF Top.parent = 0 THEN <<>> ELSE <<LinkTo(Top.parent, Top.edge)>>
  BY <1>1, LoadingFacts
<1>3. PICK b, k, s, t, e, top : /\ b = Value[2] /\ k = Len(nodes) + 1 /\ s = Front(stack)
                                /\ t = Children(b) /\ e = Edge /\ top = Top
  OBVIOUS
<1>4. PICK ns, ps, st : ns = nodes' /\ ps = preds' /\ st = stack'
  OBVIOUS
<1>5. /\ b \in DOMAIN original /\ original[b].kind \notin Transients /\ b \in Nat
      /\ b \in DOMAIN heap /\ original[b] = heap[b]
  <2>1. b \in DOMAIN heap /\ heap[b].kind \notin Transients
    BY <1>1, <1>2, <1>3 DEF IsWord, IsTransient
  <2>2. Len(heap) \in Nat /\ DOMAIN heap = 1..Len(heap)
    BY <1>2, HeapIs
  <2>3. DOMAIN original = DOMAIN heap
    BY <1>2, TwinExtends
  <2>4. b \notin Range(nodes)
    BY <1>1, <1>3 DEF Seen, Range
  <2>5. original[b] = heap[b]
    BY <1>2, <2>1, <2>4 DEF Twin
  <2> QED
    BY <2>1, <2>2, <2>3, <2>5
<1>6. e \in Seq(Link)
  BY <1>1, <1>3, TopIs
<1>7. /\ k \notin DOMAIN nodes /\ DOMAIN ns = DOMAIN nodes \cup {k}
      /\ \A n \in DOMAIN nodes : ns[n] = nodes[n] /\ ps[n] = preds[n]
      /\ ns[k] = b /\ ps[k] = e
  <2>1. ns = Append(nodes, b) /\ ps = Append(preds, e)
    BY <1>1, <1>3, <1>4 DEF InsertNode
  <2>2. Len(nodes) \in Nat /\ DOMAIN nodes = 1..Len(nodes) /\ k \notin DOMAIN nodes
    BY <1>2, <1>3
  <2>3. DOMAIN ns = 1..k /\ 1..k = DOMAIN nodes \cup {k} /\ ns[k] = b /\ ps[k] = e
    BY <1>2, <1>3, <1>5, <1>6, <2>1, <2>2
  <2>4. \A n \in DOMAIN nodes : ns[n] = nodes[n] /\ ps[n] = preds[n]
    BY <1>2, <1>3, <1>5, <1>6, <2>1, <2>2
  <2> QED
    BY <2>2, <2>3, <2>4
<1>8. Range(st) = Range(s) \cup Range(t)
  <2>1. PICK F : F = Range(stack) \cup Range(t)
    OBVIOUS
  <2>2. s \in Seq(F)
    <3>1. s \in Seq(Range(stack))
      BY <1>1, <1>3, TopIs
    <3> QED
      BY <2>1, <3>1
  <2>3. t \in Seq(F)
    <3>1. Len(nodes) \in Nat
      BY <1>2
    <3>2. t \in Seq(Range(t))
      BY <1>2, <1>3, <1>5, <3>1, ChildrenAre
    <3> QED
      BY <2>1, <3>2
  <2>4. Reverse(t) \in Seq(F) /\ Range(Reverse(t)) = Range(t)
    BY <2>3, ReverseRange
  <2>5. Range(s \o Reverse(t)) = Range(s) \cup Range(Reverse(t))
    BY <2>2, <2>4, JoinRange
  <2> QED
    BY <1>1, <1>3, <1>4, <2>4, <2>5
<1>9. Range(e) = IF top.parent = 0 THEN {} ELSE {LinkTo(top.parent, top.edge)}
  BY <1>2, <1>3 DEF Range
<1>10. top.parent # 0 =>
         /\ top.parent \in DOMAIN nodes /\ IsArgOf(original, nodes[top.parent], top.edge)
         /\ Leads(original, original[nodes[top.parent]].args[top.edge], b)
  BY <1>1, <1>2, <1>3 DEF Framed, Leads
<1>11. /\ \A f \in Range(t) : /\ f.parent = k /\ IsArgOf(original, b, f.edge)
                              /\ f.data = original[b].args[f.edge]
       /\ \A i \in DOMAIN original[b].args :
            original[b].kind \notin Chunks => \E f \in Range(t) : f.parent = k /\ f.edge = i
  BY <1>3, <1>5, ChildrenCover
<1>12. Owned(original, ns)
  <2>1. IsInjective(ns)
    <3>1. \A n \in DOMAIN nodes : nodes[n] # b
      BY <1>1, <1>3 DEF Seen
    <3>2. \A i, j \in DOMAIN nodes : nodes[i] = nodes[j] => i = j
      BY <1>2 DEF Owned, IsInjective, Injection
    <3>3. \A i, j \in DOMAIN ns : ns[i] = ns[j] => i = j
      BY <1>7, <3>1, <3>2
    <3> QED
      BY <3>3 DEF IsInjective, Injection
  <2>2. \A n \in DOMAIN ns : ns[n] \in DOMAIN original /\ original[ns[n]].kind \notin Transients
    BY <1>2, <1>5, <1>7 DEF Owned
  <2>3. 1 \in DOMAIN ns => Leads(original, Ptr(1), ns[1])
    <3>1. CASE 1 \in DOMAIN nodes
      BY <1>2, <1>7, <3>1 DEF Owned
    <3>2. CASE 1 \notin DOMAIN nodes
      <4>1. Len(nodes) = 0 /\ k = 1
        BY <1>2, <1>3, <3>2
      <4>2. top.parent = 0
        BY <1>2, <1>3, <4>1
      <4>3. top.data = Ptr(1)
        BY <1>2, <1>3, <4>2 DEF Framed
      <4> QED
        BY <1>1, <1>2, <1>3, <1>7, <4>1, <4>3 DEF Leads
    <3> QED
      BY <3>1, <3>2
  <2> QED
    BY <2>1, <2>2, <2>3 DEF Owned
<1>13. Linked(original, ns, ps)
  <2>1. ASSUME NEW n \in DOMAIN ns, NEW p \in Range(ps[n])
        PROVE  /\ p.parent \in DOMAIN ns /\ IsArgOf(original, ns[p.parent], p.edge)
               /\ Leads(original, original[ns[p.parent]].args[p.edge], ns[n])
    <3>1. CASE n \in DOMAIN nodes
      <4>1. ns[n] = nodes[n] /\ p \in Range(preds[n])
        BY <1>7, <3>1
      <4>2. /\ p.parent \in DOMAIN nodes /\ IsArgOf(original, nodes[p.parent], p.edge)
            /\ Leads(original, original[nodes[p.parent]].args[p.edge], nodes[n])
        BY <1>2, <3>1, <4>1 DEF Linked
      <4> QED
        BY <1>7, <4>1, <4>2
    <3>2. CASE n = k
      <4>1. top.parent # 0 /\ p = LinkTo(top.parent, top.edge)
        BY <1>7, <1>9, <3>2
      <4>2. p.parent = top.parent /\ p.edge = top.edge
        BY <4>1 DEF LinkTo
      <4> QED
        BY <1>7, <1>10, <3>2, <4>1, <4>2
    <3> QED
      BY <1>7, <3>1, <3>2
  <2> QED
    BY <2>1 DEF Linked
<1>14. Framed(original, ns, st)
  <2>1. ASSUME NEW f \in Range(st)
        PROVE  IF f.parent = 0 THEN f.data = Ptr(1)
               ELSE /\ f.parent \in DOMAIN ns /\ IsArgOf(original, ns[f.parent], f.edge)
                    /\ f.data = original[ns[f.parent]].args[f.edge]
    <3>1. CASE f \in Range(s)
      <4>1. f \in Range(stack)
        BY <1>2, <1>3, <3>1
      <4>2. IF f.parent = 0 THEN f.data = Ptr(1)
            ELSE /\ f.parent \in DOMAIN nodes /\ IsArgOf(original, nodes[f.parent], f.edge)
                 /\ f.data = original[nodes[f.parent]].args[f.edge]
        BY <1>2, <4>1 DEF Framed
      <4> QED
        BY <1>7, <4>2
    <3>2. CASE f \in Range(t)
      <4>1. k # 0
        BY <1>2, <1>3
      <4> QED
        BY <1>7, <1>11, <3>2, <4>1
    <3> QED
      BY <1>8, <3>1, <3>2
  <2> QED
    BY <2>1 DEF Framed
<1>15. Covered(original, ns, ps, st)
  <2>1. ASSUME NEW m \in DOMAIN ns, NEW i \in DOMAIN original[ns[m]].args,
               original[ns[m]].kind \notin Chunks
        PROVE  \/ IsInt(Deref(original, original[ns[m]].args[i]))
               \/ \E n \in DOMAIN ns : LinkTo(m, i) \in Range(ps[n])
               \/ \E f \in Range(st) : f.parent = m /\ f.edge = i
    <3>1. CASE m = k
      BY <1>7, <1>8, <1>11, <2>1, <3>1
    <3>2. CASE m \in DOMAIN nodes
      <4>1. ns[m] = nodes[m]
        BY <1>7, <3>2
      <4>2. CASE IsInt(Deref(original, original[nodes[m]].args[i]))
        BY <4>1, <4>2
      <4>3. CASE \E n \in DOMAIN nodes : LinkTo(m, i) \in Range(preds[n])
        BY <1>7, <4>3
      <4>4. CASE \E f \in Range(stack) : f.parent = m /\ f.edge = i
        <5>1. PICK f \in Range(stack) : f.parent = m /\ f.edge = i
          BY <4>4
        <5>2. CASE f = top
          <6>1. m # 0
            BY <1>2, <3>2
          <6>2. LinkTo(m, i) \in Range(e)
            BY <1>9, <5>1, <5>2, <6>1
          <6> QED
            BY <1>7, <6>2
        <5>3. CASE f # top
          BY <1>2, <1>3, <1>8, <5>1, <5>3
        <5> QED
          BY <5>2, <5>3
      <4>5. \/ IsInt(Deref(original, original[nodes[m]].args[i]))
            \/ \E n \in DOMAIN nodes : LinkTo(m, i) \in Range(preds[n])
            \/ \E f \in Range(stack) : f.parent = m /\ f.edge = i
        BY <1>2, <2>1, <3>2, <4>1 DEF Covered
      <4> QED
        BY <4>2, <4>3, <4>4, <4>5
    <3> QED
      BY <1>7, <3>1, <3>2
  <2> QED
    BY <2>1 DEF Covered
<1>16. Loaded(original', nodes', preds', stack')
  BY <1>1, <1>4, <1>12, <1>13, <1>14, <1>15 DEF Loaded
<1> QED
  BY <1>16 DEF Graph

(* A graph is one of another heap that has the same nodes.                  *)
LEMMA GraphKept ==
  ASSUME NEW h, NEW g, IsHeap(h), Extends(g, h), NEW ns, NEW ps, NEW s, Loaded(h, ns, ps, s),
         \A n \in DOMAIN ns : g[ns[n]].kind = h[ns[n]].kind /\ g[ns[n]].args = h[ns[n]].args
  PROVE  Loaded(g, ns, ps, s)
<1>1. DOMAIN g = DOMAIN h
  BY DEF Extends, RefsLead
<1>2. /\ IsWord(h, Ptr(1))
      /\ \A b \in DOMAIN h : \A i : IsArgOf(h, b, i) => IsWord(h, h[b].args[i])
  BY ArgIsWord
<1>3. \A n \in DOMAIN ns : ns[n] \in DOMAIN h /\ h[ns[n]].kind \notin Transients
  BY DEF Loaded, Owned
<1>4. \A n \in DOMAIN ns : \A i : IsArgOf(g, ns[n], i) <=> IsArgOf(h, ns[n], i)
  BY DEF IsArgOf
<1>5. Owned(g, ns)
  <2>1. 1 \in DOMAIN ns => Leads(g, Ptr(1), ns[1])
    <3>1. 1 \in DOMAIN ns => Leads(h, Ptr(1), ns[1])
      BY DEF Loaded, Owned
    <3> QED
      BY <1>2, <1>3, <3>1, LeadsKept
  <2>2. IsInjective(ns)
    BY DEF Loaded, Owned
  <2> QED
    BY <1>1, <1>3, <2>1, <2>2 DEF Owned
<1>6. Linked(g, ns, ps)
  <2>1. ASSUME NEW n \in DOMAIN ns, NEW p \in Range(ps[n])
        PROVE  /\ p.parent \in DOMAIN ns /\ IsArgOf(g, ns[p.parent], p.edge)
               /\ Leads(g, g[ns[p.parent]].args[p.edge], ns[n])
    <3>1. /\ p.parent \in DOMAIN ns /\ IsArgOf(h, ns[p.parent], p.edge)
          /\ Leads(h, h[ns[p.parent]].args[p.edge], ns[n])
      BY DEF Loaded, Linked
    <3>2. PICK w : w = h[ns[p.parent]].args[p.edge]
      OBVIOUS
    <3>3. IsWord(h, w) /\ g[ns[p.parent]].args[p.edge] = w
      BY <1>2, <1>3, <3>1, <3>2
    <3>4. Leads(g, w, ns[n])
      BY <1>3, <3>1, <3>2, <3>3, LeadsKept
    <3> QED
      BY <1>4, <3>1, <3>3, <3>4
  <2> QED
    BY <2>1 DEF Linked
<1>7. Framed(g, ns, s)
  BY <1>4 DEF Loaded, Framed
<1>8. Covered(g, ns, ps, s)
  <2>1. ASSUME NEW m \in DOMAIN ns, NEW i \in DOMAIN g[ns[m]].args, g[ns[m]].kind \notin Chunks
        PROVE  \/ IsInt(Deref(g, g[ns[m]].args[i]))
               \/ \E n \in DOMAIN ns : LinkTo(m, i) \in Range(ps[n])
               \/ \E f \in Range(s) : f.parent = m /\ f.edge = i
    <3>1. PICK w : w = h[ns[m]].args[i]
      OBVIOUS
    <3>2. g[ns[m]].args[i] = w /\ IsWord(h, w)
      BY <1>2, <1>3, <2>1, <3>1 DEF IsArgOf
    <3>3. \/ IsInt(Deref(h, w))
          \/ \E n \in DOMAIN ns : LinkTo(m, i) \in Range(ps[n])
          \/ \E f \in Range(s) : f.parent = m /\ f.edge = i
      BY <2>1, <3>1 DEF Loaded, Covered
    <3>4. IsInt(Deref(h, w)) => IsInt(Deref(g, w))
      <4>1. IsInt(Deref(h, w)) => ~IsTransient(h, Deref(h, w))
        BY DEF IsTransient
      <4>2. IsInt(Deref(h, w)) => Deref(g, w) = Deref(h, w)
        BY <3>2, <4>1, DerefKept
      <4> QED
        BY <4>2
    <3> QED
      BY <3>2, <3>3, <3>4
  <2> QED
    BY <2>1 DEF Covered
<1> QED
  BY <1>5, <1>6, <1>7, <1>8 DEF Loaded

(* Other threads do not change the blocks of nodes as they were collected,  *)
(* and what they bind is no node.                                           *)
LEMMA OthersKeepGraph ==
  ASSUME Graph, phase # "done", UNCHANGED <<nodes, preds, stack>>,
         NEW h, h = original, NEW g, g = original', IsHeap(h), Extends(g, h),
         \A n \in DOMAIN nodes : g[nodes[n]] = h[nodes[n]]
  PROVE  Graph'
<1>1. Loaded(h, nodes, preds, stack)
  BY DEF Graph
<1>2. Loaded(g, nodes, preds, stack)
  BY <1>1, GraphKept
<1> QED
  BY <1>2 DEF Graph

(* A transient is bound in both heaps.                                      *)
LEMMA BindTransientKeepsGraph ==
  ASSUME IInv, Graph, Collecting, BindTransient
  PROVE  Graph' /\ Collecting'
<1>1. phase # "done" /\ Unloaded /\ UNCHANGED <<phase, stack, nodes, preds>>
  BY DEF BindTransient, OthersRun, Unloaded, loader
<1>2. PICK t \in DOMAIN heap, w \in Words :
        /\ heap[t].kind = "TRANSIENT"
        /\ Replaces(heap', heap, t, Block("REF", <<w>>))
        /\ Replaces(original', original, t, Block("REF", <<w>>))
  BY DEF BindTransient, Replaces
<1>3. PICK h, g, o, p : h = heap /\ g = heap' /\ o = original /\ p = original'
  OBVIOUS
<1>4. IsHeap(h) /\ Twin(o, h, nodes) /\ IsWord(h, w)
  <2>1. IsHeap(heap) /\ WordsFit(heap)
    BY <1>1, UnloadedFacts
  <2> QED
    BY <1>1, <1>2, <1>3, <2>1 DEF WordsFit, Collecting
<1>5. IsHeap(o) /\ DOMAIN o = DOMAIN h /\ IsWord(o, w) /\ t \in DOMAIN h /\ o[t].kind = "TRANSIENT"
  <2>1. DOMAIN o = DOMAIN h /\ t \in DOMAIN h
    BY <1>2, <1>3, <1>4, TwinExtends
  <2> QED
    BY <1>2, <1>3, <1>4, <2>1 DEF Twin, IsWord
<1>6. PICK b : b = Block("REF", <<w>>)
  OBVIOUS
<1>7. /\ IsHeap(g) /\ Len(g) = Len(h) /\ DOMAIN g = DOMAIN h
      /\ \A x \in DOMAIN h : x # t => g[x] = h[x]
      /\ g[t] = b
  BY <1>2, <1>3, <1>4, <1>5, <1>6, BoundHeap
<1>8. /\ IsHeap(p) /\ Len(p) = Len(o) /\ DOMAIN p = DOMAIN o
      /\ \A x \in DOMAIN o : x # t => p[x] = o[x]
      /\ p[t] = b
  BY <1>2, <1>3, <1>5, <1>6, BoundHeap
<1>9. Twin(p, g, nodes)
  <2>1. Len(p) = Len(g)
    BY <1>4, <1>7, <1>8 DEF Twin
  <2>2. ASSUME NEW x \in DOMAIN g
        PROVE  /\ p[x].kind = g[x].kind /\ DOMAIN p[x].args = DOMAIN g[x].args
               /\ p[x] = g[x] \/ (g[x].kind = "MBLOCK" /\ x \in Range(nodes))
    <3>1. CASE x = t
      BY <1>7, <1>8, <3>1
    <3>2. CASE x # t
      <4>1. p[x] = o[x] /\ g[x] = h[x] /\ x \in DOMAIN h
        BY <1>5, <1>7, <1>8, <3>2
      <4> QED
        BY <1>4, <4>1 DEF Twin
    <3> QED
      BY <3>1, <3>2
  <2> QED
    BY <1>7, <1>8, <2>1, <2>2 DEF Twin
<1>10. Extends(p, o)
  <2>1. RefsLead(p) /\ RefsLead(o)
    BY <1>5, <1>8, HeapLeads
  <2>2. \A x \in DOMAIN o : o[x].kind \notin Transients \/ o[x].kind = "REF" => p[x] = o[x]
    BY <1>5, <1>8 DEF Transients
  <2> QED
    BY <1>8, <2>1, <2>2 DEF Extends
<1>11. Loaded(o, nodes, preds, stack)
  BY <1>1, <1>3 DEF Graph
<1>12. \A n \in DOMAIN nodes : p[nodes[n]] = o[nodes[n]]
  BY <1>5, <1>8, <1>11 DEF Loaded, Owned, Transients
<1>13. Graph'
  BY <1>1, <1>3, <1>5, <1>10, <1>12, OthersKeepGraph
<1> QED
  BY <1>1, <1>3, <1>9, <1>13 DEF Collecting

(* An argument of a mutable block is assigned in the heap, and in what is   *)
(* known of the block unless it has been collected.                         *)
LEMMA AssignKeepsGraph ==
  ASSUME IInv, Graph, Collecting, Assign
  PROVE  Graph' /\ Collecting'
<1>1. phase # "done" /\ Unloaded /\ UNCHANGED <<phase, stack, nodes, preds>>
  BY DEF Assign, OthersRun, Unloaded, loader
<1>2. PICK h, g, o, p : h = heap /\ g = heap' /\ o = original /\ p = original'
  OBVIOUS
<1>3. PICK b \in DOMAIN h, w \in Words :
        \E i \in DOMAIN h[b].args :
          /\ h[b].kind = "MBLOCK" /\ Assigns(g, h, b, i, w)
          /\ IF b \in Range(nodes) THEN p = o ELSE Assigns(p, o, b, i, w)
  <2>1. PICK b \in DOMAIN heap, w \in Words :
          \E i \in DOMAIN heap[b].args :
            /\ heap[b].kind = "MBLOCK" /\ heap' = [heap EXCEPT ![b].args[i] = w]
            /\ original' = IF b \in Range(nodes) THEN original
                           ELSE [original EXCEPT ![b].args[i] = w]
    BY DEF Assign
  <2>2. PICK i \in DOMAIN heap[b].args :
          /\ heap[b].kind = "MBLOCK" /\ heap' = [heap EXCEPT ![b].args[i] = w]
          /\ original' = IF b \in Range(nodes) THEN original
                         ELSE [original EXCEPT ![b].args[i] = w]
    BY <2>1
  <2>3. Assigns(g, h, b, i, w)
    BY <1>2, <2>2 DEF Assigns
  <2>4. IF b \in Range(nodes) THEN p = o ELSE Assigns(p, o, b, i, w)
    BY <1>2, <2>2 DEF Assigns
  <2> QED
    BY <1>2, <2>2, <2>3, <2>4
<1>4. PICK i \in DOMAIN h[b].args :
        /\ h[b].kind = "MBLOCK" /\ Assigns(g, h, b, i, w)
        /\ IF b \in Range(nodes) THEN p = o ELSE Assigns(p, o, b, i, w)
  BY <1>3
<1>5. IsHeap(h) /\ Twin(o, h, nodes) /\ IsWord(h, w)
  <2>1. IsHeap(heap) /\ WordsFit(heap)
    BY <1>1, UnloadedFacts
  <2> QED
    BY <1>1, <1>2, <1>4, <2>1 DEF WordsFit, Collecting
<1>6. IsHeap(o) /\ DOMAIN o = DOMAIN h /\ Len(o) = Len(h) /\ IsWord(o, w)
  <2>1. DOMAIN o = DOMAIN h
    BY <1>5, TwinExtends
  <2> QED
    BY <1>5, <2>1 DEF Twin, IsWord
<1>7. o[b].kind = "MBLOCK" /\ i \in DOMAIN o[b].args
  BY <1>4, <1>5 DEF Twin
<1>8. /\ IsHeap(g) /\ Len(g) = Len(h) /\ DOMAIN g = DOMAIN h
      /\ \A x \in DOMAIN h : x # b => g[x] = h[x]
      /\ g[b].kind = "MBLOCK" /\ DOMAIN g[b].args = DOMAIN h[b].args
  BY <1>4, <1>5, AssignedHeap
<1>9. /\ IsHeap(p) /\ Len(p) = Len(o) /\ DOMAIN p = DOMAIN o
      /\ \A x \in DOMAIN o : x # b => p[x] = o[x]
      /\ p[b].kind = "MBLOCK" /\ DOMAIN p[b].args = DOMAIN o[b].args
      /\ b \in Range(nodes) => p[b] = o[b]
      /\ b \notin Range(nodes) => p[b] = g[b]
  <2>1. CASE b \in Range(nodes)
    BY <1>4, <1>6, <1>7, <2>1
  <2>2. CASE b \notin Range(nodes)
    <3>1. Assigns(p, o, b, i, w) /\ b \in DOMAIN o
      BY <1>4, <1>6, <2>2
    <3>2. /\ IsHeap(p) /\ Len(p) = Len(o) /\ DOMAIN p = DOMAIN o
          /\ \A x \in DOMAIN o : x # b => p[x] = o[x]
          /\ p[b].kind = "MBLOCK" /\ DOMAIN p[b].args = DOMAIN o[b].args
      BY <1>6, <1>7, <3>1, AssignedHeap
    <3>3. o[b] = h[b]
      BY <1>5, <2>2 DEF Twin
    <3>4. p[b] = [o[b] EXCEPT !.args[i] = w]
      BY <3>1 DEF Assigns
    <3>5. g[b] = [h[b] EXCEPT !.args[i] = w]
      BY <1>4 DEF Assigns
    <3> QED
      BY <2>2, <3>2, <3>3, <3>4, <3>5
  <2> QED
    BY <2>1, <2>2
<1>10. Twin(p, g, nodes)
  <2>1. ASSUME NEW x \in DOMAIN g
        PROVE  /\ p[x].kind = g[x].kind /\ DOMAIN p[x].args = DOMAIN g[x].args
               /\ p[x] = g[x] \/ (g[x].kind = "MBLOCK" /\ x \in Range(nodes))
    <3>1. /\ o[x].kind = h[x].kind /\ DOMAIN o[x].args = DOMAIN h[x].args
          /\ o[x] = h[x] \/ (h[x].kind = "MBLOCK" /\ x \in Range(nodes))
      BY <1>5, <1>8 DEF Twin
    <3>2. CASE x = b
      BY <1>8, <1>9, <3>1, <3>2
    <3>3. CASE x # b
      <4>1. p[x] = o[x] /\ g[x] = h[x]
        BY <1>6, <1>8, <1>9, <3>3
      <4> QED
        BY <3>1, <4>1
    <3> QED
      BY <3>2, <3>3
  <2>2. Len(p) = Len(g)
    BY <1>6, <1>8, <1>9
  <2> QED
    BY <1>8, <1>9, <2>1, <2>2 DEF Twin
<1>11. Extends(p, o)
  <2>1. RefsLead(p) /\ RefsLead(o)
    BY <1>6, <1>9, HeapLeads
  <2>2. \A x \in DOMAIN o : p[x].kind = o[x].kind /\ (o[x].kind = "REF" => p[x] = o[x])
    BY <1>7, <1>9
  <2> QED
    BY <1>9, <2>1, <2>2 DEF Extends
<1>12. \A n \in DOMAIN nodes : nodes[n] \in DOMAIN o
  BY <1>1, <1>2 DEF Graph, Loaded, Owned
<1>13. \A n \in DOMAIN nodes : p[nodes[n]] = o[nodes[n]]
  BY <1>9, <1>12 DEF Range
<1>14. Graph'
  BY <1>1, <1>2, <1>6, <1>11, <1>13, OthersKeepGraph
<1> QED
  BY <1>1, <1>2, <1>10, <1>14 DEF Collecting

-----------------------------------------------------------------------------
(* The classes when the graph is reduced.                                   *)

(* The nodes that edges are led to: one of each class, the root in its own. *)
Leaders(lead) ==
  /\ lead \in [Node -> Node]
  /\ \A n \in Node : class[lead[n]] = class[n]
  /\ \A m, n \in Node : class[m] = class[n] => lead[m] = lead[n]
  /\ 1 \in Node => lead[1] = 1

(* The first nodes of the classes, once the root is the first of its own.   *)
LEMMA LeadersAre ==
  ASSUME IInv, phase = "refine", 1 \in Node,
         NEW z, z = Swapped(array, LookUp(array, 1), blocks[class[1]].first),
         NEW lead, lead = [n \in Node |-> z[blocks[class[n]].first]]
  PROVE  Leaders(lead)
<1>1. Len(nodes) \in Nat /\ Permutes(array) /\ Divides(array, class, blocks)
  BY RefineFacts
<1>2. PICK a, i, j, cl, bs : /\ a = array /\ i = LookUp(array, 1) /\ j = blocks[class[1]].first
                             /\ cl = class /\ bs = blocks
  OBVIOUS
<1>3. Permutes(a) /\ Divides(a, cl, bs) /\ z = Swapped(a, i, j)
  BY <1>1, <1>2
<1>4. i \in Node /\ a[i] = 1 /\ a \in [Node -> Node]
  BY <1>1, <1>2, <1>3, PermutesIs
<1>5. /\ cl \in [Node -> DOMAIN bs]
      /\ \A c \in DOMAIN bs : bs[c].first \in Node /\ bs[c].last \in Node /\ bs[c].first <= bs[c].last
      /\ \A x \in Node, c \in DOMAIN bs : cl[a[x]] = c <=> x \in bs[c].first..bs[c].last
  BY <1>3 DEF Divides
<1>6. \A c \in DOMAIN bs : bs[c].first \in Node /\ cl[a[bs[c].first]] = c
  <2>1. ASSUME NEW c \in DOMAIN bs
        PROVE  bs[c].first \in Node /\ bs[c].first \in bs[c].first..bs[c].last
    <3>1. PICK x, y : x = bs[c].first /\ y = bs[c].last
      OBVIOUS
    <3>2. x \in Node /\ y \in Node /\ x <= y
      BY <1>5, <3>1
    <3>3. x \in x..y
      BY <3>2 DEF Node
    <3> QED
      BY <3>1, <3>2, <3>3
  <2> QED
    BY <1>5, <2>1
<1>7. PICK d : d = cl[1]
  OBVIOUS
<1>8. d \in DOMAIN bs /\ j = bs[d].first /\ j \in Node /\ cl[a[j]] = d /\ cl[a[i]] = d
  BY <1>2, <1>4, <1>5, <1>6, <1>7
<1>9. Permutes(z) /\ Exchanged(a, z, i, j)
  BY <1>1, <1>3, <1>4, <1>8, SwappedIs
<1>10. \A k \in Node : z[k] = IF k = j THEN a[i] ELSE IF k = i THEN a[j] ELSE a[k]
  BY <1>9 DEF Exchanged
<1>11. \A k \in Node : z[k] \in Node /\ cl[z[k]] = cl[a[k]]
  <2> HIDE DEF Node
  <2> QED
    BY <1>4, <1>8, <1>10
<1>12. \A n \in Node : lead[n] = z[bs[cl[n]].first] /\ cl[n] \in DOMAIN bs
  BY <1>2, <1>5
<1>13. \A n \in Node : lead[n] \in Node /\ cl[lead[n]] = cl[n]
  BY <1>6, <1>11, <1>12
<1>14. \A m, n \in Node : cl[m] = cl[n] => lead[m] = lead[n]
  BY <1>12
<1>15. lead[1] = 1
  <2>1. lead[1] = z[j]
    BY <1>7, <1>8, <1>12
  <2> QED
    BY <1>4, <1>8, <1>10, <2>1
<1>16. lead \in [Node -> Node]
  BY <1>13
<1> QED
  BY <1>2, <1>13, <1>14, <1>15, <1>16 DEF Leaders

(* What is left of the heap: the arguments that led to another node than    *)
(* the first of its class lead there, and nothing else changes.             *)
Rewired(g, h, lead) ==
  /\ DOMAIN g = DOMAIN h /\ g \in Seq(Range(g))
  /\ \A b \in DOMAIN h : g[b].kind = h[b].kind /\ DOMAIN g[b].args = DOMAIN h[b].args
  /\ \A b \in DOMAIN h : b \notin Range(nodes) => \A i \in DOMAIN h[b].args : g[b].args[i] = h[b].args[i]
  /\ \A m \in Node : \A i \in DOMAIN h[nodes[m]].args :
       /\ \A n \in Node : LinkTo(m, i) \in Range(preds[n]) /\ lead[n] # n =>
            g[nodes[m]].args[i] = Ptr(nodes[lead[n]])
       /\ (\A n \in Node : LinkTo(m, i) \in Range(preds[n]) => lead[n] = n) =>
            g[nodes[m]].args[i] = h[nodes[m]].args[i]

(* An argument leads to one node.                                           *)
LEMMA LinkOnce ==
  ASSUME NEW h, Owned(h, nodes), Linked(h, nodes, preds), DOMAIN nodes = Node,
         NEW k \in Node, NEW n \in Node, NEW m, NEW i,
         LinkTo(m, i) \in Range(preds[k]), LinkTo(m, i) \in Range(preds[n])
  PROVE  k = n
<1>1. LinkTo(m, i).parent = m /\ LinkTo(m, i).edge = i
  BY DEF LinkTo
<1>2. Leads(h, h[nodes[m]].args[i], nodes[k]) /\ Leads(h, h[nodes[m]].args[i], nodes[n])
  BY <1>1 DEF Linked
<1>3. nodes[k] = nodes[n]
  BY <1>2 DEF Leads
<1> QED
  BY <1>3 DEF Owned, IsInjective, Injection

(* ReduceGraph leaves such a heap.                                          *)
LEMMA RewiredIs ==
  ASSUME IInv, IsHeap(heap), ReduceGraph, 1 \in Node,
         NEW o, DOMAIN o = DOMAIN heap, Owned(o, nodes), Linked(o, nodes, preds)
  PROVE  \E lead : Leaders(lead) /\ Rewired(heap', heap, lead)
<1>1. phase = "refine" /\ array' = Swapped(array, LookUp(array, 1), blocks[class[1]].first)
  BY DEF ReduceGraph
<1>2. PICK z : z = array'
  OBVIOUS
<1>3. PICK lead : lead = [n \in Node |-> z[blocks[class[n]].first]]
  OBVIOUS
<1>4. Leaders(lead)
  BY <1>1, <1>2, <1>3, LeadersAre
<1>5. nodes \in Seq(Nat) /\ DOMAIN nodes = Node
  BY DEF IInv, Collected, Node
<1>6. PICK h, g : h = heap /\ g = heap'
  OBVIOUS
<1> DEFINE leader(n) == array'[blocks[class[n]].first]
           lost == {n \in DOMAIN nodes : leader(n) # n}
           moves(m, i) == {n \in lost : [edge |-> i, parent |-> m] \in Range(preds[n])}
           ms(b) == {m \in DOMAIN nodes : nodes[m] = b}
           chosen(b, i) == CHOOSE n \in lost : \E m \in ms(b) : n \in moves(m, i)
           arg(b, i) == IF \E m \in ms(b) : moves(m, i) # {} THEN Ptr(nodes[leader(chosen(b, i))])
                        ELSE heap[b].args[i]
<1>7. g = [b \in DOMAIN h |-> [h[b] EXCEPT !.args = [i \in DOMAIN h[b].args |-> arg(b, i)]]]
  <2>1. heap' = [b \in DOMAIN heap |-> [heap[b] EXCEPT !.args = [i \in DOMAIN heap[b].args |-> arg(b, i)]]]
    BY DEF ReduceGraph
  <2> HIDE DEF arg
  <2> QED
    BY <1>6, <2>1
<1>8. \A n \in Node : leader(n) = lead[n]
  BY <1>2, <1>3
<1>9. ASSUME NEW b \in DOMAIN h
       PROVE  /\ g[b].kind = h[b].kind /\ DOMAIN g[b].args = DOMAIN h[b].args
              /\ \A i \in DOMAIN h[b].args : g[b].args[i] = arg(b, i)
  <2>1. PICK k, a : h[b] = Block(k, a)
    BY <1>6 DEF IsHeap
  <2>2. h[b].kind = k /\ h[b].args = a
    BY <2>1 DEF Block
  <2>3. g[b] = [h[b] EXCEPT !.args = [i \in DOMAIN h[b].args |-> arg(b, i)]]
    <3> HIDE DEF arg
    <3> QED
      BY <1>7
  <2>4. PICK c : c = [i \in DOMAIN a |-> arg(b, i)]
    OBVIOUS
  <2>5. DOMAIN c = DOMAIN a /\ \A i \in DOMAIN a : c[i] = arg(b, i)
    <3> HIDE DEF arg
    <3> QED
      BY <2>4
  <2>6. g[b] = [h[b] EXCEPT !.args = c]
    <3> HIDE DEF arg
    <3> QED
      BY <2>2, <2>3, <2>4
  <2>7. g[b].kind = k /\ g[b].args = c
    BY <2>1, <2>6 DEF Block
  <2> HIDE DEF arg
  <2> QED
    BY <2>2, <2>5, <2>7
<1>10. DOMAIN g = DOMAIN h
  <2> HIDE DEF arg
  <2> QED
    BY <1>7
<1>11. g \in Seq(Range(g))
  <2>1. PICK n \in Nat : DOMAIN h = 1..n
    BY <1>6, HeapIs
  <2>2. PICK S : S = Range(g)
    OBVIOUS
  <2>3. \A b \in 1..n : g[b] \in S
    BY <1>10, <2>1, <2>2 DEF Range
  <2>4. g = [b \in 1..n |-> g[b]]
    <3> HIDE DEF arg
    <3> QED
      BY <1>7, <2>1
  <2>5. g \in [1..n -> S]
    BY <2>3, <2>4
  <2>6. g \in Seq(S)
    BY <2>5
  <2> QED
    BY <2>2, <2>6
<1>12. ASSUME NEW b \in DOMAIN h, b \notin Range(nodes), NEW i \in DOMAIN h[b].args
       PROVE  g[b].args[i] = h[b].args[i]
  <2>1. ms(b) = {}
    BY <1>12 DEF Range
  <2>2. arg(b, i) = h[b].args[i]
    <3> HIDE DEF ms, moves
    <3> QED
      BY <1>6, <2>1
  <2> HIDE DEF arg
  <2> QED
    BY <1>9, <2>2
<1>13. ASSUME NEW m \in Node
       PROVE  nodes[m] \in DOMAIN h /\ ms(nodes[m]) = {m}
  <2>1. nodes[m] \in DOMAIN h
    BY <1>5, <1>6 DEF Owned
  <2>2. \A k \in Node : nodes[k] = nodes[m] => k = m
    BY <1>5 DEF Owned, IsInjective, Injection
  <2> QED
    BY <1>5, <2>1, <2>2
<1>14. ASSUME NEW m \in Node, NEW i \in DOMAIN h[nodes[m]].args
       PROVE  g[nodes[m]].args[i] =
                IF moves(m, i) # {} THEN Ptr(nodes[leader(CHOOSE n \in lost : n \in moves(m, i))])
                ELSE h[nodes[m]].args[i]
  <2>1. PICK b : b = nodes[m]
    OBVIOUS
  <2>2. b \in DOMAIN h /\ ms(b) = {m} /\ i \in DOMAIN h[b].args
    BY <1>13, <1>14, <2>1
  <2>3. g[b].args[i] = arg(b, i)
    <3> HIDE DEF arg
    <3> QED
      BY <1>9, <2>2
  <2>4. \A n : (\E k \in ms(b) : n \in moves(k, i)) <=> n \in moves(m, i)
    <3> HIDE DEF ms, moves
    <3> QED
      BY <2>2
  <2>5. (\E k \in ms(b) : moves(k, i) # {}) <=> moves(m, i) # {}
    <3> HIDE DEF ms, moves
    <3> QED
      BY <2>2
  <2>6. chosen(b, i) = CHOOSE n \in lost : n \in moves(m, i)
    <3> HIDE DEF ms, moves, lost
    <3> QED
      BY <2>4
  <2> HIDE DEF ms, moves, chosen, lost, leader
  <2> QED
    BY <1>6, <2>1, <2>3, <2>5, <2>6
<1>15. ASSUME NEW m \in Node, NEW i \in DOMAIN h[nodes[m]].args, NEW n \in Node,
              LinkTo(m, i) \in Range(preds[n]), lead[n] # n
       PROVE  g[nodes[m]].args[i] = Ptr(nodes[lead[n]])
  <2>1. n \in moves(m, i)
    BY <1>5, <1>8, <1>15 DEF LinkTo
  <2>2. \A k \in moves(m, i) : k \in Node /\ LinkTo(m, i) \in Range(preds[k])
    BY <1>5 DEF LinkTo
  <2>3. \A k \in moves(m, i) : k = n
    <3> HIDE DEF moves
    <3> QED
      BY <1>5, <1>15, <2>2, LinkOnce
  <2>4. n \in lost
    BY <2>1
  <2>5. (CHOOSE k \in lost : k \in moves(m, i)) = n
    <3> HIDE DEF moves, lost
    <3> QED
      BY <2>1, <2>3, <2>4
  <2>6. g[nodes[m]].args[i] = Ptr(nodes[leader(n)])
    <3> HIDE DEF moves, lost, leader
    <3> QED
      BY <1>14, <1>15, <2>1, <2>5
  <2> QED
    BY <1>8, <2>6
<1>16. ASSUME NEW m \in Node, NEW i \in DOMAIN h[nodes[m]].args,
              \A n \in Node : LinkTo(m, i) \in Range(preds[n]) => lead[n] = n
       PROVE  g[nodes[m]].args[i] = h[nodes[m]].args[i]
  <2>1. moves(m, i) = {}
    BY <1>5, <1>8, <1>16 DEF LinkTo
  <2> HIDE DEF moves, lost, leader
  <2> QED
    BY <1>14, <1>16, <2>1
<1>17. \A b \in DOMAIN h : g[b].kind = h[b].kind /\ DOMAIN g[b].args = DOMAIN h[b].args
  <2> HIDE DEF arg
  <2> QED
    BY <1>9
<1> QED
  BY <1>4, <1>6, <1>10, <1>11, <1>12, <1>15, <1>16, <1>17 DEF Rewired

(* The heaps agree on where words lead.                                     *)
LEMMA RewiredExtends ==
  ASSUME NEW h, NEW g, NEW lead, IsHeap(h), Owned(h, nodes), Rewired(g, h, lead)
  PROVE  Extends(g, h)
<1>1. Len(h) \in Nat \ {0} /\ DOMAIN h = 1..Len(h)
  BY HeapIs
<1>2. DOMAIN g = DOMAIN h /\ g \in Seq(Range(g))
  BY DEF Rewired
<1>3. Len(g) \in Nat /\ DOMAIN g = 1..Len(g)
  BY <1>2
<1>4. Len(g) = Len(h)
  BY <1>1, <1>2, <1>3
<1>5. \A b \in DOMAIN h : g[b].kind = h[b].kind
  BY DEF Rewired
<1>6. ASSUME NEW b \in DOMAIN h, h[b].kind = "REF"
      PROVE  g[b].args[1] = h[b].args[1] /\ IsWord(h, h[b].args[1])
  <2>1. b \notin Range(nodes)
    BY <1>6 DEF Owned, Range, Transients
  <2>2. 1 \in DOMAIN h[b].args
    <3>1. h[b].args \in Seq(Range(h[b].args)) /\ h[b].args # <<>>
      BY <1>6 DEF IsHeap
    <3>2. PICK a, R : a = h[b].args /\ R = Range(h[b].args)
      OBVIOUS
    <3>3. a \in Seq(R) /\ a # <<>>
      BY <3>1, <3>2
    <3>4. 1 \in DOMAIN a
      BY <3>3
    <3> QED
      BY <3>2, <3>4
  <2>3. IsWord(h, h[b].args[1])
    BY <1>6, HeapLeads DEF RefsLead
  <2> QED
    BY <2>1, <2>2, <2>3 DEF Rewired
<1>7. RefsLead(h)
  BY HeapLeads
<1>8. RefsLead(g)
  BY <1>2, <1>3, <1>5, <1>6 DEF RefsLead, IsWord
<1> QED
  BY <1>4, <1>5, <1>6, <1>7, <1>8 DEF Extends

(* An argument of a node that holds what it held is the same integer still, *)
(* or it led to a block of a node and leads to that of its leader now.      *)
LEMMA ArgLeads ==
  ASSUME NEW o, NEW h, NEW g, NEW lead, Twin(o, h, nodes), DOMAIN nodes = Node, Leaders(lead),
         Loaded(o, nodes, preds, <<>>), Rewired(g, h, lead),
         NEW m \in Node, NEW i \in DOMAIN o[nodes[m]].args, o[nodes[m]].kind \notin Chunks,
         NEW v, v = o[nodes[m]].args[i], v = h[nodes[m]].args[i],
         NEW w, w = g[nodes[m]].args[i]
  PROVE  \/ IsInt(Deref(h, v)) /\ Deref(g, w) = Deref(h, v)
         \/ \E n \in Node : Leads(h, v, nodes[n]) /\ Leads(g, w, nodes[lead[n]])
<1>1. Owned(o, nodes) /\ Linked(o, nodes, preds) /\ Covered(o, nodes, preds, <<>>)
  BY DEF Loaded
<1>2. Extends(h, o) /\ DOMAIN o = DOMAIN h /\ IsHeap(o) /\ IsHeap(h)
  BY TwinExtends DEF Twin
<1>3. Owned(h, nodes)
  BY <1>1, TwinOwned
<1>4. Extends(g, h)
  BY <1>2, <1>3, RewiredExtends
<1>5. \A n \in Node : nodes[n] \in DOMAIN h /\ h[nodes[n]].kind \notin Transients
  BY <1>3 DEF Owned
<1>6. \A n \in Node : o[nodes[n]].kind \notin Transients
  BY <1>1 DEF Owned
<1>7. i \in DOMAIN h[nodes[m]].args
  BY <1>5 DEF Twin
<1>8. IsWord(o, v) /\ IsWord(h, v)
  <2>1. IsWord(o, v)
    BY <1>2, <1>5, ArgIsWord DEF IsArgOf
  <2> QED
    BY <1>2, <2>1 DEF IsWord
<1>9. \A n \in Node : LinkTo(m, i) \in Range(preds[n]) => Leads(o, v, nodes[n])
  <2>1. LinkTo(m, i).parent = m /\ LinkTo(m, i).edge = i
    BY DEF LinkTo
  <2> QED
    BY <1>1, <2>1 DEF Linked
<1>10. CASE IsInt(Deref(o, v))
  <2>1. \A n \in Node : LinkTo(m, i) \notin Range(preds[n])
    BY <1>9, <1>10 DEF Leads
  <2>2. w = v
    BY <1>7, <2>1 DEF Rewired
  <2>3. ~IsTransient(o, Deref(o, v))
    BY <1>10 DEF IsTransient
  <2>4. Deref(h, v) = Deref(o, v)
    BY <1>2, <1>8, <2>3, DerefKept
  <2>5. ~IsTransient(h, Deref(h, v))
    BY <1>10, <2>4 DEF IsTransient
  <2>6. Deref(g, v) = Deref(h, v)
    BY <1>4, <1>8, <2>5, DerefKept
  <2> QED
    BY <1>10, <2>2, <2>4, <2>6
<1>11. CASE ~IsInt(Deref(o, v))
  <2>1. PICK n \in Node : LinkTo(m, i) \in Range(preds[n])
    <3>1. Range(<<>>) = {}
      BY DEF Range
    <3> QED
      BY <1>1, <1>11, <3>1 DEF Covered
  <2>2. Leads(h, v, nodes[n])
    <3>1. Leads(o, v, nodes[n])
      BY <1>9, <2>1
    <3> QED
      BY <1>2, <1>6, <1>8, <3>1, LeadsKept
  <2>3. CASE lead[n] = n
    <3>1. \A k \in Node : LinkTo(m, i) \in Range(preds[k]) => lead[k] = k
      BY <1>1, <2>1, <2>3, LinkOnce
    <3>2. w = v
      BY <1>7, <3>1 DEF Rewired
    <3>3. Leads(g, w, nodes[n])
      BY <1>4, <1>5, <1>8, <2>2, <3>2, LeadsKept
    <3> QED
      BY <2>2, <2>3, <3>3
  <2>4. CASE lead[n] # n
    <3>1. PICK b : b = nodes[lead[n]]
      OBVIOUS
    <3>2. b \in DOMAIN h /\ h[b].kind \notin Transients
      BY <1>5, <3>1 DEF Leaders
    <3>3. w = Ptr(b)
      BY <1>7, <2>1, <2>4, <3>1 DEF Rewired
    <3>4. ~IsInt(Ptr(b)) /\ Ptr(b)[2] = b
      BY DEF Ptr, IsInt
    <3>5. h[b].kind # "REF"
      BY <3>2 DEF Transients
    <3>6. Deref(h, Ptr(b)) = Ptr(b)
      <4>1. PICK to : Derefs(h, to)
        BY <1>4, DerefSteps DEF Extends
      <4> QED
        BY <3>4, <3>5, <4>1 DEF Derefs
    <3>7. IsWord(h, Ptr(b)) /\ Leads(h, Ptr(b), b)
      BY <3>2, <3>4, <3>6 DEF IsWord, Leads
    <3>8. Leads(g, Ptr(b), b)
      BY <1>4, <3>2, <3>7, LeadsKept
    <3> QED
      BY <2>2, <3>1, <3>3, <3>8
  <2> QED
    BY <2>3, <2>4
<1> QED
  BY <1>10, <1>11

(* An argument is kept, or it led to the block of a node when that was      *)
(* collected and leads to the one of its leader now.                        *)
LEMMA ArgKept ==
  ASSUME NEW o, NEW h, NEW g, NEW lead, Twin(o, h, nodes), DOMAIN nodes = Node, Leaders(lead),
         Loaded(o, nodes, preds, <<>>), Rewired(g, h, lead),
         NEW m \in Node, NEW i \in DOMAIN o[nodes[m]].args,
         NEW v, v = o[nodes[m]].args[i],
         NEW w, w = g[nodes[m]].args[i], w # h[nodes[m]].args[i]
  PROVE  \E n \in Node : Leads(h, v, nodes[n]) /\ Leads(g, w, nodes[lead[n]])
<1>1. Owned(o, nodes) /\ Linked(o, nodes, preds)
  BY DEF Loaded
<1>2. Extends(h, o) /\ DOMAIN o = DOMAIN h /\ IsHeap(o) /\ IsHeap(h)
  BY TwinExtends DEF Twin
<1>3. Owned(h, nodes)
  BY <1>1, TwinOwned
<1>4. Extends(g, h)
  BY <1>2, <1>3, RewiredExtends
<1>5. \A n \in Node : nodes[n] \in DOMAIN h /\ h[nodes[n]].kind \notin Transients
  BY <1>3 DEF Owned
<1>6. \A n \in Node : o[nodes[n]].kind \notin Transients
  BY <1>1 DEF Owned
<1>7. i \in DOMAIN h[nodes[m]].args
  BY <1>5 DEF Twin
<1>8. PICK n \in Node : LinkTo(m, i) \in Range(preds[n]) /\ lead[n] # n
  BY <1>7 DEF Rewired
<1>9. LinkTo(m, i).parent = m /\ LinkTo(m, i).edge = i
  BY DEF LinkTo
<1>10. IsArgOf(o, nodes[m], i) /\ Leads(o, v, nodes[n])
  BY <1>1, <1>8, <1>9 DEF Linked
<1>11. IsWord(o, v)
  BY <1>2, <1>5, <1>10, ArgIsWord
<1>12. Leads(h, v, nodes[n])
  BY <1>2, <1>6, <1>10, <1>11, LeadsKept
<1>13. PICK b : b = nodes[lead[n]]
  OBVIOUS
<1>14. b \in DOMAIN h /\ h[b].kind \notin Transients
  BY <1>5, <1>13 DEF Leaders
<1>15. w = Ptr(b)
  BY <1>7, <1>8, <1>13 DEF Rewired
<1>16. ~IsInt(Ptr(b)) /\ Ptr(b)[2] = b
  BY DEF Ptr, IsInt
<1>17. h[b].kind # "REF"
  BY <1>14 DEF Transients
<1>18. Deref(h, Ptr(b)) = Ptr(b)
  <2>1. PICK to : Derefs(h, to)
    BY <1>4, DerefSteps DEF Extends
  <2> QED
    BY <1>16, <1>17, <2>1 DEF Derefs
<1>19. IsWord(h, Ptr(b)) /\ Leads(h, Ptr(b), b)
  BY <1>14, <1>16, <1>18 DEF IsWord, Leads
<1>20. Leads(g, Ptr(b), b)
  BY <1>4, <1>14, <1>19, LeadsKept
<1> QED
  BY <1>12, <1>13, <1>15, <1>20

(* The arguments that hold what they held keep their values, in the leaders *)
(* of the classes, and the others keep what they hold or are lost to one.   *)
LEMMA ReduceGraphReduces ==
  ASSUME IInv, Graph, Collecting, Followed, ReduceGraph
  PROVE  ReducedStep
<1>1. phase = "refine" /\ UNCHANGED <<nodes, preds, class, blocks, original>>
  BY DEF ReduceGraph
<1>2. Twin(original, heap, nodes) /\ Loaded(original, nodes, preds, <<>>)
  BY <1>1 DEF Graph, Collecting, Followed
<1>3. nodes \in Seq(Nat) /\ DOMAIN nodes = Node /\ Len(nodes) \in Nat
  BY DEF IInv, Collected, Node
<1>4. 1 \in Node
  <2>1. Len(nodes) >= 2
    BY <1>1 DEF Followed
  <2> QED
    BY <1>3, <2>1 DEF Node
<1>5. PICK o, h, g : o = original /\ h = heap /\ g = heap'
  OBVIOUS
<1>6. /\ Twin(o, h, nodes) /\ Loaded(o, nodes, preds, <<>>)
      /\ Owned(o, nodes) /\ Linked(o, nodes, preds)
      /\ IsHeap(h) /\ DOMAIN o = DOMAIN h
  BY <1>2, <1>5, TwinExtends DEF Loaded, Twin
<1>7. PICK lead : Leaders(lead) /\ Rewired(g, h, lead)
  BY <1>4, <1>5, <1>6, RewiredIs
<1>8. Owned(h, nodes)
  BY <1>6, TwinOwned
<1>9. Extends(g, h)
  BY <1>6, <1>7, <1>8, RewiredExtends
<1>10. /\ lead \in [Node -> Node] /\ lead[1] = 1
       /\ \A n \in Node : class[lead[n]] = class[n]
       /\ \A m, n \in Node : class[m] = class[n] => lead[m] = lead[n]
  BY <1>4, <1>7 DEF Leaders
<1>11. ASSUME NEW w, NEW n \in Node, w[2] = nodes[n]
       PROVE  LeadsTo(w) = class[n]
  <2>1. \A k \in DOMAIN nodes : nodes[k] = nodes[n] => k = n
    BY <1>3, <1>8 DEF Owned, IsInjective, Injection
  <2>2. NodeOf(w) = n
    BY <1>3, <1>11, <2>1 DEF NodeOf
  <2> QED
    BY <2>2 DEF LeadsTo
(* A word that is used leads to a leader.                                   *)
<1> DEFINE Led(w, n) == IsNode(w) /\ w[2] = nodes[lead[n]]
           old(x) == Deref(h, Args(x[1])[x[2]])
           new(x) == Deref(g, g[nodes[x[1]]].args[x[2]])
           kept == UNION {{<<n, i>> : i \in Held(n)} : n \in DOMAIN nodes}
           used == {Deref(g, Ptr(1))} \cup {new(x) : x \in kept}
           isLedOn(x) == IsNode(new(x)) /\ LeadsTo(new(x)) = LeadsTo(old(x))
<1>12. ASSUME NEW x \in kept
       PROVE  \/ IsInt(old(x)) /\ new(x) = old(x)
              \/ \E n \in Node : ~IsInt(old(x)) /\ old(x)[2] = nodes[n] /\ Led(new(x), n)
  <2>1. PICK m \in DOMAIN nodes : x \in {<<m, i>> : i \in Held(m)}
    OBVIOUS
  <2>2. PICK i \in Held(m) : x = <<m, i>>
    BY <2>1
  <2>3. /\ m \in Node /\ i \in DOMAIN o[nodes[m]].args /\ h[nodes[m]].kind \notin Chunks
        /\ h[nodes[m]].args[i] = o[nodes[m]].args[i]
    BY <1>3, <1>5, <2>2 DEF Held, Args, HasChildren
  <2>4. PICK v, w : v = o[nodes[m]].args[i] /\ w = g[nodes[m]].args[i]
    OBVIOUS
  <2>5. o[nodes[m]].kind \notin Chunks
    BY <1>3, <1>6, <1>8, <2>3 DEF Twin, Owned
  <2>6. \/ IsInt(Deref(h, v)) /\ Deref(g, w) = Deref(h, v)
        \/ \E n \in Node : Leads(h, v, nodes[n]) /\ Leads(g, w, nodes[lead[n]])
    BY <1>3, <1>6, <1>7, <2>3, <2>4, <2>5, ArgLeads
  <2>7. old(x) = Deref(h, v) /\ new(x) = Deref(g, w)
    BY <1>5, <2>2, <2>4 DEF Args
  <2> HIDE DEF old, new
  <2> QED
    BY <2>6, <2>7 DEF Leads, IsNode
<1>13. \A w \in used : IsNode(w) => \E n \in Node : Led(w, n)
  <2>1. Led(Deref(g, Ptr(1)), 1)
    <3>1. Leads(h, Ptr(1), nodes[1]) /\ h[nodes[1]].kind \notin Transients
      BY <1>3, <1>4, <1>8 DEF Owned
    <3>2. IsWord(h, Ptr(1))
      BY <1>6, ArgIsWord
    <3>3. Leads(g, Ptr(1), nodes[1])
      BY <1>9, <3>1, <3>2, LeadsKept
    <3> QED
      BY <1>10, <3>3 DEF Leads, IsNode
  <2>2. ASSUME NEW x \in kept, IsNode(new(x))
        PROVE  \E n \in Node : Led(new(x), n)
    <3> HIDE DEF old, new, kept, Led
    <3> QED
      BY <1>12, <2>2 DEF IsNode
  <2> HIDE DEF new, kept, Led
  <2> QED
    BY <1>4, <2>1, <2>2
<1>14. ASSUME NEW w, NEW n \in Node, Led(w, n)
       PROVE  LeadsTo(w) = class[n]
  <2>1. lead[n] \in Node /\ class[lead[n]] = class[n] /\ w[2] = nodes[lead[n]]
    BY <1>10, <1>14
  <2> QED
    BY <1>11, <2>1
<1>15. ASSUME NEW x \in kept
       PROVE  IF IsInt(old(x)) THEN new(x) = old(x) ELSE isLedOn(x)
  <2>1. CASE IsInt(old(x)) /\ new(x) = old(x)
    BY <2>1
  <2>2. CASE \E n \in Node : ~IsInt(old(x)) /\ old(x)[2] = nodes[n] /\ Led(new(x), n)
    <3>1. PICK n \in Node : ~IsInt(old(x)) /\ old(x)[2] = nodes[n] /\ Led(new(x), n)
      BY <2>2
    <3>2. LeadsTo(old(x)) = class[n] /\ LeadsTo(new(x)) = class[n] /\ IsNode(new(x))
      <4> HIDE DEF old, new
      <4> QED
        BY <1>11, <1>14, <3>1
    <3> HIDE DEF old, new
    <3> QED
      BY <3>1, <3>2
  <2> QED
    BY <1>12, <2>1, <2>2
<1>16. ASSUME NEW v \in used, NEW w \in used, IsNode(v), IsNode(w), LeadsTo(v) = LeadsTo(w)
       PROVE  v[2] = w[2]
  <2>1. PICK m \in Node, n \in Node : Led(v, m) /\ Led(w, n)
    <3> HIDE DEF used, Led
    <3> QED
      BY <1>13, <1>16
  <2>2. class[m] = class[n]
    <3> HIDE DEF used, Led
    <3> QED
      BY <1>14, <1>16, <2>1
  <2> QED
    BY <1>10, <2>1, <2>2
<1>17. ASSUME NEW m \in DOMAIN nodes, NEW i \in DOMAIN Args(m) \ Held(m)
       PROVE  \/ g[nodes[m]].args[i] = h[nodes[m]].args[i]
              \/ IsNode(old(<<m, i>>)) /\ isLedOn(<<m, i>>)
  <2>1. SUFFICES ASSUME g[nodes[m]].args[i] # h[nodes[m]].args[i]
                 PROVE  IsNode(old(<<m, i>>)) /\ isLedOn(<<m, i>>)
    OBVIOUS
  <2>2. m \in Node /\ i \in DOMAIN o[nodes[m]].args
    BY <1>3, <1>5, <1>17 DEF Args
  <2>3. PICK v, w : v = o[nodes[m]].args[i] /\ w = g[nodes[m]].args[i]
    OBVIOUS
  <2>4. PICK n \in Node : Leads(h, v, nodes[n]) /\ Leads(g, w, nodes[lead[n]])
    BY <1>3, <1>6, <1>7, <2>1, <2>2, <2>3, ArgKept
  <2>5. PICK x : x = <<m, i>>
    OBVIOUS
  <2>6. old(x) = Deref(h, v) /\ new(x) = Deref(g, w)
    BY <1>5, <2>3, <2>5 DEF Args
  <2> HIDE DEF old, new
  <2>7. IsNode(old(x)) /\ old(x)[2] = nodes[n] /\ Led(new(x), n)
    BY <2>4, <2>6 DEF Leads, IsNode
  <2>8. LeadsTo(old(x)) = class[n] /\ LeadsTo(new(x)) = class[n] /\ IsNode(new(x))
    BY <1>11, <1>14, <2>7
  <2> QED
    BY <2>5, <2>7, <2>8
<1> HIDE DEF Led
<1> QED
  BY <1>5, <1>15, <1>16, <1>17 DEF ReducedStep

-----------------------------------------------------------------------------
(* The invariant.                                                           *)

(* The loader starts with the root and no node.                             *)
LEMMA RInvInit == Init => RInv
<1> SUFFICES ASSUME Init
             PROVE  RInv
  OBVIOUS
<1>1. /\ phase = "load" /\ stack = <<[data |-> Ptr(1), edge |-> 0, parent |-> 0]>>
      /\ nodes = <<>> /\ original = heap
  BY DEF Init
<1>2. IInv /\ IsHeap(heap)
  BY IInvInit, GraphsAssumption DEF Init
<1>3. PICK f : f = [data |-> Ptr(1), edge |-> 0, parent |-> 0]
  OBVIOUS
<1>4. DOMAIN nodes = {} /\ Range(stack) = {f} /\ f.parent = 0 /\ f.data = Ptr(1)
  BY <1>1, <1>3 DEF Range
<1>5. Owned(original, nodes)
  BY <1>4 DEF Owned, IsInjective, Injection
<1>6. /\ Linked(original, nodes, preds) /\ Framed(original, nodes, stack)
      /\ Covered(original, nodes, preds, stack)
  BY <1>4 DEF Linked, Framed, Covered
<1>7. Followed
  BY <1>1 DEF Followed
<1>8. Twin(original, heap, nodes)
  BY <1>1, <1>2 DEF Twin
<1> QED
  BY <1>2, <1>5, <1>6, <1>7, <1>8 DEF RInv, Graph, Loaded, Collecting

(* Minimize begins when all frames have been followed.                      *)
LEMMA FollowedNext ==
  ASSUME Followed, Next
  PROVE  Followed'
<1>1. CASE LoadTransient \/ LoadInt \/ LoadNew \/ LoadSeen \/ Resume
  <2>1. phase' \notin {"minimize", "refine"}
    BY <1>1 DEF LoadTransient, LoadInt, LoadNew, LoadSeen, Resume, AtBlock, Loading
  <2> QED
    BY <2>1 DEF Followed
<1>2. CASE LoadDone
  BY <1>2 DEF LoadDone, Followed, loader
<1>3. CASE BindTransient \/ Assign
  <2>1. UNCHANGED <<phase, stack, nodes>>
    BY <1>3 DEF BindTransient, Assign, loader
  <2> QED
    BY <2>1 DEF Followed
<1>4. CASE InitBlocks \/ PopAgenda \/ FollowEdge \/ ClassDone \/ AllMarked \/ SplitClass
  <2>1. phase \in {"minimize", "refine"} /\ UNCHANGED <<stack, nodes>>
    BY <1>4 DEF InitBlocks, PopAgenda, FollowEdge, ClassDone, AllMarked, SplitClass, loader
  <2>2. phase = "refine" \/ Len(nodes) >= 2
    BY <1>4 DEF InitBlocks, PopAgenda, FollowEdge, ClassDone, AllMarked, SplitClass
  <2> QED
    BY <2>1, <2>2 DEF Followed
<1>5. CASE NothingToDo \/ ReduceGraph
  <2>1. phase' = "done"
    BY <1>5 DEF NothingToDo, ReduceGraph
  <2> QED
    BY <2>1 DEF Followed
<1> QED
  BY <1>1, <1>2, <1>3, <1>4, <1>5 DEF Next, PartitionLoader, Minimize

(* More nodes leave the heaps alike.                                        *)
LEMMA TwinGrows ==
  ASSUME Collecting, phase # "done", UNCHANGED <<heap, original>>, Range(nodes) \subseteq Range(nodes')
  PROVE  Collecting'
<1>1. Twin(original, heap, nodes')
  BY DEF Collecting, Twin
<1> QED
  BY <1>1 DEF Collecting

(* The graph stays what it is until it is reduced.                          *)
LEMMA GraphNext ==
  ASSUME IInv, Graph, Collecting, Next
  PROVE  Graph' /\ Collecting'
<1>1. CASE LoadInt \/ LoadSeen
  <2>1. phase # "done" /\ UNCHANGED <<heap, original, nodes>>
    BY <1>1 DEF LoadInt, LoadSeen, AtBlock, Loading
  <2> QED
    BY <1>1, <2>1, TwinGrows, LoadIntKeepsGraph, LoadSeenKeepsGraph
<1>2. CASE LoadNew
  <2>1. phase # "done" /\ UNCHANGED <<heap, original>> /\ nodes' = Append(nodes, Value[2])
    BY <1>2 DEF LoadNew, InsertNode, AtBlock, Loading
  <2>2. PICK s, b : s = nodes /\ b = Value[2]
    OBVIOUS
  <2>3. s \in Seq(Nat) /\ nodes' = Append(s, b)
    BY <2>1, <2>2 DEF IInv, Collected
  <2>4. Range(s) \subseteq Range(Append(s, b))
    <3>1. s \in Seq(Nat \cup {b}) /\ b \in Nat \cup {b}
      BY <2>3
    <3>2. PICK T : T = Nat \cup {b}
      OBVIOUS
    <3> QED
      BY <3>1, <3>2, AppendRange
  <2> QED
    BY <1>2, <2>1, <2>2, <2>3, <2>4, TwinGrows, LoadNewKeepsGraph
<1>3. CASE BindTransient \/ Assign
  BY <1>3, BindTransientKeepsGraph, AssignKeepsGraph
<1>4. CASE LoadTransient \/ Resume \/ LoadDone
  <2>1. phase # "done" /\ UNCHANGED <<heap, original, nodes, preds, stack>>
    BY <1>4 DEF LoadTransient, Resume, LoadDone, Loading, loader
  <2> QED
    BY <2>1, SameGraph, TwinGrows
<1>5. CASE InitBlocks \/ PopAgenda \/ FollowEdge \/ ClassDone \/ AllMarked \/ SplitClass
  <2>1. phase # "done" /\ UNCHANGED <<heap, original, nodes, preds, stack>>
    BY <1>5 DEF InitBlocks, PopAgenda, FollowEdge, ClassDone, AllMarked, SplitClass, loader
  <2> QED
    BY <2>1, SameGraph, TwinGrows
<1>6. CASE NothingToDo \/ ReduceGraph
  BY <1>6 DEF NothingToDo, ReduceGraph, Graph, Collecting
<1> QED
  BY <1>1, <1>2, <1>3, <1>4, <1>5, <1>6 DEF Next, PartitionLoader, Minimize

(* Every step keeps the invariant.                                          *)
LEMMA RInvNext == RInv /\ [Next]_vars => RInv'
<1> SUFFICES ASSUME RInv, [Next]_vars
             PROVE  RInv'
  OBVIOUS
<1>1. IInv /\ Graph /\ Collecting /\ Followed
  BY DEF RInv
<1>2. IInv'
  BY <1>1, IInvNext
<1>3. CASE Next
  BY <1>1, <1>2, <1>3, GraphNext, FollowedNext DEF RInv
<1>4. CASE UNCHANGED vars
  <2>1. UNCHANGED <<heap, phase, stack, nodes, preds, original>>
    BY <1>4 DEF vars, loader
  <2> QED
    BY <1>1, <1>2, <2>1 DEF RInv, Graph, Collecting, Followed
<1> QED
  BY <1>3, <1>4

(* Only ReduceGraph ends the refinement.                                    *)
LEMMA ReducedNext == RInv /\ [Next]_vars => [ReducedStep]_vars
<1> SUFFICES ASSUME RInv, Next, phase = "refine", phase' = "done"
             PROVE  ReducedStep
  BY DEF ReducedStep
<1>1. CASE ReduceGraph
  BY <1>1, ReduceGraphReduces DEF RInv
<1>2. CASE ~ReduceGraph
  BY <1>2 DEF Next, PartitionLoader, Minimize, LoadTransient, LoadInt, LoadNew, LoadSeen, LoadDone,
     Resume, BindTransient, Assign, OthersRun, NothingToDo, InitBlocks, PopAgenda, FollowEdge,
     ClassDone, AllMarked, SplitClass, AtBlock, Loading
<1> QED
  BY <1>1, <1>2

(* When a graph of any shape is reduced, whatever other threads have bound  *)
(* and assigned since it was loaded, each argument that has not been        *)
(* assigned to since its block was collected is the integer it was or leads *)
(* to a block of the class that it led into, and they and the root lead to  *)
(* one block of a class (Partition::ReduceGraph of Minimizer.cc). What was  *)
(* assigned since stays, or a block of the class that was recorded for the  *)
(* argument takes its place.                                                *)
THEOREM GraphIsReduced == Spec => Reduced
  BY RInvInit, RInvNext, ReducedNext, PTL DEF Spec, Reduced

=============================================================================
