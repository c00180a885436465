----------------------------- MODULE QueueProofs -----------------------------
(***************************************************************************)
(* The ring buffer of adt/Queue.hh implements a first-in first-out queue,  *)
(* for every set of words, initial size and number of entries, as long as  *)
(* no buffer becomes larger than MaxBlockSize.                             *)
(***************************************************************************)
EXTENDS Queue, SequenceTheorems, WellFoundedInduction, TLAPS

Cell == Word \cup {Zero, Junk}

\* The sizes that Enlarge reaches with MaxEntries entries fit in a header.
BuffersFit ==
  /\ InitialSize <= MaxBlockSize
  /\ MaxEntries + MaxEntries \div 2 <= MaxBlockSize

HeaderOK ==
  /\ header \in [size : Nat, big : {FALSE}]
  /\ header.size <= MaxBlockSize

BufferOK == array \in [0..(GetSize - 1) -> Cell]

IInv == LayoutOK /\ HeaderOK /\ BufferOK

-----------------------------------------------------------------------------
LessThan == {p \in Nat \X Nat : p[1] < p[2]}

\* Scan finds something: a non-empty set of numbers has a least element.
LEMMA Least ==
  ASSUME NEW T \in SUBSET Nat, T # {}
  PROVE  \E x \in T : \A y \in T : x <= y
<1>1. IsWellFoundedOn(LessThan, Nat)
  BY NatLessThanWellFounded, Zenon DEF OpToRel, LessThan
<1>2. PICK x \in T : \A y \in T : ~(<<y, x>> \in LessThan)
  BY <1>1, WFMin
<1>3. ASSUME NEW y \in T
      PROVE  x <= y
  <2>1. <<y, x>> \in Nat \X Nat /\ <<y, x>>[1] = y /\ <<y, x>>[2] = x
    OBVIOUS
  <2>2. ~(y < x)
    BY <1>2, <2>1 DEF LessThan
  <2> QED
    BY <2>2
<1> QED
  BY <1>3

-----------------------------------------------------------------------------
(***************************************************************************)
(* Rings: what the indices r and w, the buffer a and its size s stand for. *)
(***************************************************************************)
Entries(r, w, s) == IF w >= r THEN w - r ELSE w + s - r
Address(r, n, s) == IF r + n >= s THEN r + n - s ELSE r + n
View(r, w, a, s) == [i \in 1..Entries(r, w, s) |-> a[Address(r, i - 1, s)]]

IsRing(r, w, a, s) ==
  /\ s \in Nat /\ s >= 2
  /\ r \in 0..(s - 1) /\ w \in 0..(s - 1)
  /\ a \in [0..(s - 1) -> Cell]

(* The entries of a ring are between its indices, and the write index is    *)
(* just behind them.                                                        *)
LEMMA RingEntries ==
  ASSUME NEW s \in Nat, s >= 2, NEW r \in 0..(s - 1), NEW w \in 0..(s - 1)
  PROVE  /\ Entries(r, w, s) \in 0..(s - 1)
         /\ \A n \in 0..Entries(r, w, s) :
              /\ Address(r, n, s) \in 0..(s - 1)
              /\ Address(r, n, s) = w <=> n = Entries(r, w, s)
  BY DEF Entries, Address

\* How GetNumberOfElements counts them.
Count(r, w, s) == LET n == w + s - r IN IF n >= s THEN n - s ELSE n

(* GetNumberOfElements counts the entries.                                  *)
LEMMA CountIs ==
  ASSUME NEW s \in Nat, NEW r \in 0..(s - 1), NEW w \in 0..(s - 1)
  PROVE  Count(r, w, s) = Entries(r, w, s)
  BY DEF Count, Entries

(* The view of a ring is a sequence of its entries.                         *)
LEMMA ViewIs ==
  ASSUME NEW r, NEW w, NEW a, NEW s, IsRing(r, w, a, s)
  PROVE  /\ View(r, w, a, s) \in Seq(Cell)
         /\ Len(View(r, w, a, s)) = Entries(r, w, s)
         /\ \A i \in 1..Entries(r, w, s) : View(r, w, a, s)[i] = a[Address(r, i - 1, s)]
<1>1. /\ Entries(r, w, s) \in Nat
      /\ \A i \in 1..Entries(r, w, s) : a[Address(r, i - 1, s)] \in Cell
  <2>1. /\ Entries(r, w, s) \in 0..(s - 1)
        /\ \A n \in 0..Entries(r, w, s) : Address(r, n, s) \in 0..(s - 1)
    BY RingEntries DEF IsRing
  <2>2. ASSUME NEW i \in 1..Entries(r, w, s)
        PROVE  a[Address(r, i - 1, s)] \in Cell
    <3>1. i - 1 \in 0..Entries(r, w, s)
      BY <2>1
    <3> QED
      BY <2>1, <3>1 DEF IsRing
  <2> QED
    BY <2>1, <2>2
<1> QED
  BY <1>1 DEF View

\* A view is known by its length and its entries.
LEMMA ViewEquals ==
  ASSUME NEW r, NEW w, NEW a, NEW s, IsRing(r, w, a, s),
         NEW c \in Seq(Cell), Len(c) = Entries(r, w, s),
         \A i \in 1..Len(c) : c[i] = a[Address(r, i - 1, s)]
  PROVE  View(r, w, a, s) = c
  BY ViewIs, SeqEqual

-----------------------------------------------------------------------------
(***************************************************************************)
(* The variables of a queue are a ring.                                    *)
(***************************************************************************)
Buffer == View(readIndex, writeIndex, array, GetSize)

(* Up to MAX_BLOCKSIZE a header encodes the size itself.                    *)
LEMMA SmallHeader ==
  ASSUME ConstantsAssumption, NEW s \in Nat, s <= MaxBlockSize
  PROVE  /\ TranslateSize(s) = s
         /\ EncodeHeader(s) = [size |-> s, big |-> FALSE]
  BY DEF TranslateSize, EncodeHeader, ConstantsAssumption

(* What the invariant says of the ring.                                     *)
LEMMA Layout ==
  ASSUME IInv
  PROVE  /\ IsRing(readIndex, writeIndex, array, GetSize)
         /\ GetSize <= MaxBlockSize
         /\ header = [size |-> GetSize, big |-> FALSE]
<1>1. GetSize = header.size
  BY DEF IInv, HeaderOK, GetSize, DecodeSize
<1> QED
  BY <1>1 DEF IInv, LayoutOK, HeaderOK, BufferOK, IsRing

(* GetNthElement sees the view of the ring.                                 *)
LEMMA ContentsIs ==
  ASSUME IInv
  PROVE  /\ GetNumberOfElements = Entries(readIndex, writeIndex, GetSize)
         /\ Contents = Buffer
<1>1. GetNumberOfElements = Entries(readIndex, writeIndex, GetSize)
  BY Layout DEF GetNumberOfElements, Entries, IsRing
<1>2. \A i : GetNthElement(i - 1) = array[Address(readIndex, i - 1, GetSize)]
  BY DEF GetNthElement, NthIndex, Address
<1> QED
  BY <1>1, <1>2 DEF Contents, Buffer, View

\* The same for the next state, from what an operation makes of it.
LEMMA LayoutNext ==
  ASSUME NEW s, s <= MaxBlockSize,
         header' = [size |-> s, big |-> FALSE],
         IsRing(readIndex', writeIndex', array', s)
  PROVE  /\ IInv' /\ GetSize' = s
         /\ Contents' = View(readIndex', writeIndex', array', s)
<1>1. GetSize' = s
  BY DEF GetSize, DecodeSize
<1>2. HeaderOK'
  BY DEF HeaderOK, IsRing
<1>3. LayoutOK' /\ BufferOK'
  BY <1>1 DEF LayoutOK, BufferOK, IsRing, Cell
<1>4. GetNumberOfElements' = Entries(readIndex', writeIndex', s)
  <2>1. GetNumberOfElements' = Count(readIndex', writeIndex', s)
    BY <1>1 DEF GetNumberOfElements, Count
  <2> QED
    BY <2>1, CountIs DEF IsRing
<1>5. \A i : GetNthElement(i - 1)' = array'[Address(readIndex', i - 1, s)]
  BY <1>1 DEF GetNthElement, NthIndex, Address
<1>6. Contents' = View(readIndex', writeIndex', array', s)
  BY <1>4, <1>5 DEF Contents, View
<1> QED
  BY <1>1, <1>2, <1>3, <1>6 DEF IInv

-----------------------------------------------------------------------------
(***************************************************************************)
(* What the operations do to a ring.                                       *)
(***************************************************************************)
Next1(i, s) == IF i + 1 = s THEN 0 ELSE i + 1

Put(a, i, x) == [a EXCEPT ![i] = x]

Without(c, n) == SubSeq(c, 1, n) \o SubSeq(c, n + 2, Len(c))

\* A word written at w comes after the entries that are there.
LEMMA Written ==
  ASSUME NEW r, NEW w, NEW a, NEW s, IsRing(r, w, a, s), NEW x \in Cell
  PROVE  LET n == Entries(r, w, s)
             c == Append(View(r, w, a, s), x)
         IN  /\ n \in 0..(s - 1)
             /\ c \in Seq(Cell) /\ Len(c) = n + 1
             /\ \A i \in 1..(n + 1) : c[i] = [a EXCEPT ![w] = x][Address(r, i - 1, s)]
<1> DEFINE b == [a EXCEPT ![w] = x]
           n == Entries(r, w, s)
           c == Append(View(r, w, a, s), x)
<1>1. n \in 0..(s - 1) /\ n \in Nat
  BY RingEntries DEF IsRing
<1>2. c \in Seq(Cell) /\ Len(c) = n + 1 /\ c[n + 1] = x
      /\ \A i \in 1..n : c[i] = a[Address(r, i - 1, s)]
  BY ViewIs, <1>1
<1>3. ASSUME NEW i \in 1..(n + 1)
      PROVE  c[i] = b[Address(r, i - 1, s)]
  <2>1. i - 1 \in 0..n /\ (i - 1 = n <=> i = n + 1)
    BY <1>1
  <2>2. /\ Address(r, i - 1, s) \in 0..(s - 1)
        /\ Address(r, i - 1, s) = w <=> i = n + 1
    BY <2>1, RingEntries DEF IsRing
  <2>3. CASE i = n + 1
    BY <1>2, <2>2, <2>3 DEF IsRing
  <2>4. CASE i # n + 1
    <3>1. i \in 1..n
      BY <1>1, <2>4
    <3> QED
      BY <1>2, <2>2, <2>4, <3>1 DEF IsRing
  <2> QED
    BY <2>3, <2>4
<1> QED
  BY <1>1, <1>2, <1>3

(* Enqueue appends the word if the ring is not full.                        *)
LEMMA AddEntry ==
  ASSUME NEW r, NEW w, NEW a, NEW s, IsRing(r, w, a, s), NEW x \in Cell,
         Next1(w, s) # r
  PROVE  /\ IsRing(r, Next1(w, s), Put(a, w, x), s)
         /\ View(r, Next1(w, s), Put(a, w, x), s) = Append(View(r, w, a, s), x)
<1> DEFINE b == Put(a, w, x)
           v == Next1(w, s)
           n == Entries(r, w, s)
           c == Append(View(r, w, a, s), x)
<1>1. IsRing(r, v, b, s)
  BY DEF IsRing, Next1, Put
<1>2. Entries(r, v, s) = n + 1
  BY DEF IsRing, Entries, Next1
<1>3. c \in Seq(Cell) /\ Len(c) = n + 1
      /\ \A i \in 1..(n + 1) : c[i] = b[Address(r, i - 1, s)]
  BY Written DEF Put
<1> HIDE DEF b, c, v, n
<1>4. View(r, v, b, s) = c
  BY <1>1, <1>2, <1>3, ViewEquals
<1> QED
  BY <1>1, <1>4 DEF b, c, v

\* The array that Enlarge makes of a full ring starts with the entries in order.
Unrolled(a, r, s, t) ==
  [i \in 0..(t - 1) |-> IF i < s - r THEN a[r + i]
                        ELSE IF i < s THEN a[i - (s - r)]
                        ELSE Junk]

(* Enlarge copies the two parts of the ring to the front of a larger        *)
(* buffer, in order.                                                        *)
LEMMA Unroll ==
  ASSUME NEW r, NEW w, NEW a, NEW s, IsRing(r, w, a, s), NEW t \in Nat, t > s
  PROVE  /\ IsRing(0, s, Unrolled(a, r, s, t), t)
         /\ \A i \in 0..(s - 1) : Unrolled(a, r, s, t)[i] = a[Address(r, i, s)]
<1> DEFINE b == Unrolled(a, r, s, t)
<1>1. ASSUME NEW i \in 0..(s - 1)
      PROVE  b[i] = a[Address(r, i, s)] /\ b[i] \in Cell
  <2>1. /\ s \in Nat /\ r \in 0..(s - 1) /\ i \in 0..(t - 1)
        /\ i - (s - r) = r + i - s
        /\ i < s - r <=> ~(r + i >= s)
        /\ Address(r, i, s) \in 0..(s - 1)
    BY DEF IsRing, Address
  <2>2. b[i] = a[Address(r, i, s)]
    BY <2>1 DEF Unrolled, Address
  <2> QED
    BY <2>1, <2>2 DEF IsRing
<1>2. ASSUME NEW i \in 0..(t - 1), i \notin 0..(s - 1)
      PROVE  b[i] = Junk
  BY <1>2 DEF IsRing, Unrolled
<1>3. b \in [0..(t - 1) -> Cell]
  BY <1>1, <1>2 DEF Unrolled, Cell
<1> QED
  BY <1>1, <1>3 DEF IsRing

(* Enqueue appends the word to a full ring, which it enlarges.              *)
LEMMA GrowRing ==
  ASSUME NEW r, NEW w, NEW a, NEW s, IsRing(r, w, a, s), NEW x \in Cell,
         Next1(w, s) = r, NEW t \in Nat, t > s
  PROVE  /\ IsRing(0, s, Unrolled(Put(a, w, x), r, s, t), t)
         /\ View(0, s, Unrolled(Put(a, w, x), r, s, t), t)
              = Append(View(r, w, a, s), x)
<1> DEFINE e == Put(a, w, x)
           b == Unrolled(e, r, s, t)
           n == Entries(r, w, s)
           c == Append(View(r, w, a, s), x)
<1>1. IsRing(r, w, e, s)
  BY DEF IsRing, Put
<1>2. IsRing(0, s, b, t) /\ \A i \in 0..(s - 1) : b[i] = e[Address(r, i, s)]
  <2> HIDE DEF e
  <2> QED
    BY <1>1, Unroll
<1>3. s \in Nat /\ n + 1 = s /\ Entries(0, s, t) = s
  BY DEF IsRing, Entries, Next1
<1>4. c \in Seq(Cell) /\ Len(c) = n + 1
      /\ \A i \in 1..(n + 1) : c[i] = e[Address(r, i - 1, s)]
  BY Written DEF Put
<1>5. ASSUME NEW i \in 1..s
      PROVE  c[i] = b[Address(0, i - 1, t)]
  <2>1. i - 1 \in 0..(s - 1) /\ Address(0, i - 1, t) = i - 1
    BY <1>3 DEF Address
  <2> HIDE DEF b, c, e, n
  <2> QED
    BY <1>2, <1>3, <1>4, <2>1
<1> HIDE DEF b, c, e, n
<1>6. View(0, s, b, t) = c
  BY <1>2, <1>3, <1>4, <1>5, ViewEquals
<1> QED
  BY <1>2, <1>6 DEF b, c, e

(* Dequeue takes the first entry.                                           *)
LEMMA DropFirst ==
  ASSUME NEW r, NEW w, NEW a, NEW s, IsRing(r, w, a, s), w # r
  PROVE  /\ IsRing(Next1(r, s), w, a, s)
         /\ View(r, w, a, s) # <<>>
         /\ a[r] = Head(View(r, w, a, s))
         /\ View(Next1(r, s), w, a, s) = Tail(View(r, w, a, s))
<1> DEFINE q == Next1(r, s)
           n == Entries(r, w, s)
           c == View(r, w, a, s)
<1>1. IsRing(q, w, a, s) /\ s \in Nat /\ r \in 0..(s - 1)
  BY DEF IsRing, Next1
<1>2. n \in 1..(s - 1) /\ Entries(q, w, s) = n - 1
  BY DEF IsRing, Entries, Next1
<1>3. /\ c \in Seq(Cell) /\ Len(c) = n /\ n \in Nat /\ n >= 1
      /\ \A i \in 1..n : c[i] = a[Address(r, i - 1, s)]
  BY <1>1, <1>2, ViewIs
<1> HIDE DEF c
<1>4. c # <<>>
  BY <1>3
<1>5. Head(c) = a[r]
  <2>1. Address(r, 0, s) = r
    BY <1>1 DEF Address
  <2>2. 1 \in 1..n /\ 1 - 1 = 0
    BY <1>3
  <2>3. c[1] = a[r]
    BY <1>3, <2>1, <2>2
  <2> QED
    BY <1>4, <2>3
<1>6. Tail(c) \in Seq(Cell) /\ Len(Tail(c)) = n - 1
      /\ \A i \in 1..(n - 1) : Tail(c)[i] = c[i + 1]
  BY <1>3, <1>4, HeadTailProperties
<1>7. ASSUME NEW i \in 1..(n - 1)
      PROVE  Tail(c)[i] = a[Address(q, i - 1, s)]
  <2>1. i + 1 \in 1..n /\ (i + 1) - 1 = i /\ i \in 1..(s - 1)
    BY <1>1, <1>2
  <2>2. Address(r, i, s) = Address(q, i - 1, s)
    BY <1>1, <2>1 DEF Address, Next1
  <2>3. c[i + 1] = a[Address(r, (i + 1) - 1, s)]
    BY <1>3, <2>1
  <2> QED
    BY <1>6, <2>1, <2>2, <2>3
<1> HIDE DEF n, q
<1>8. View(q, w, a, s) = Tail(c)
  <2> DEFINE d == Tail(c)
  <2>1. /\ d \in Seq(Cell) /\ Len(d) = Entries(q, w, s)
        /\ \A i \in 1..Len(d) : d[i] = a[Address(q, i - 1, s)]
    BY <1>2, <1>6, <1>7
  <2> HIDE DEF d
  <2>2. View(q, w, a, s) = d
    BY <1>1, <2>1, ViewEquals
  <2> QED
    BY <2>2 DEF d
<1> QED
  BY <1>1, <1>4, <1>5, <1>8 DEF c, q

-----------------------------------------------------------------------------
(***************************************************************************)
(* An entry leaves from within a ring.                                     *)
(***************************************************************************)
LEMMA RemoveAtIs ==
  ASSUME NEW c \in Seq(Cell), NEW n \in 0..(Len(c) - 1)
  PROVE  LET d == SubSeq(c, 1, n) \o SubSeq(c, n + 2, Len(c))
         IN  /\ d \in Seq(Cell) /\ Len(d) = Len(c) - 1
             /\ \A i \in 1..(Len(c) - 1) : d[i] = IF i <= n THEN c[i] ELSE c[i + 1]
<1> DEFINE m == Len(c)
           d1 == SubSeq(c, 1, n)
           d2 == SubSeq(c, n + 2, m)
<1>1. m \in Nat /\ n \in Nat /\ n < m /\ \A i \in 1..m : c[i] \in Cell
  OBVIOUS
<1> HIDE DEF m
<1>2. d1 \in Seq(Cell) /\ Len(d1) = n /\ \A i \in 1..n : d1[i] = c[i]
  BY <1>1, SubSeqProperties
<1>3. d2 \in Seq(Cell) /\ Len(d2) = m - n - 1
      /\ \A i \in 1..(m - n - 1) : d2[i] = c[i + n + 1]
  BY <1>1, SubSeqProperties
<1> HIDE DEF d1, d2
<1>4. /\ d1 \o d2 \in Seq(Cell) /\ Len(d1 \o d2) = m - 1
      /\ \A i \in 1..(m - 1) : (d1 \o d2)[i] = IF i <= n THEN d1[i] ELSE d2[i - n]
  <2> DEFINE e == d1 \o d2
  <2>1. /\ e \in Seq(Cell) /\ Len(e) = Len(d1) + Len(d2)
        /\ \A i \in 1..(Len(d1) + Len(d2)) :
             e[i] = IF i <= Len(d1) THEN d1[i] ELSE d2[i - Len(d1)]
    <3>1. d1 \in Seq(Cell) /\ d2 \in Seq(Cell)
      BY <1>2, <1>3
    <3> QED
      BY <3>1, ConcatProperties
  <2> HIDE DEF e
  <2>2. Len(d1) = n /\ Len(d1) + Len(d2) = m - 1
    BY <1>1, <1>2, <1>3
  <2>3. e \in Seq(Cell) /\ Len(e) = m - 1
        /\ \A i \in 1..(m - 1) : e[i] = IF i <= n THEN d1[i] ELSE d2[i - n]
    BY <2>1, <2>2
  <2> QED
    BY <2>3 DEF e
<1>5. ASSUME NEW i \in 1..(m - 1)
      PROVE  (d1 \o d2)[i] = IF i <= n THEN c[i] ELSE c[i + 1]
  <2>1. CASE i <= n
    BY <1>1, <1>2, <1>4, <2>1
  <2>2. CASE i > n
    <3>1. i - n \in 1..(m - n - 1) /\ (i - n) + n + 1 = i + 1 /\ ~(i <= n)
      BY <1>1, <2>2
    <3> QED
      BY <1>3, <1>4, <3>1
  <2> QED
    <3>1. i <= n \/ i > n
      BY <1>1
    <3> QED
      BY <2>1, <2>2, <3>1
<1> QED
  BY <1>4, <1>5 DEF m, d1, d2

\* MemMove on an array of size s.
Moved(a, dst, src, n, s) ==
  [i \in 0..(s - 1) |-> IF dst <= i /\ i < dst + n THEN a[src + (i - dst)] ELSE a[i]]

(* memmove within the buffer leaves words in it.                            *)
LEMMA MovedIsRing ==
  ASSUME NEW r, NEW w, NEW a, NEW s, IsRing(r, w, a, s),
         NEW dst \in Nat, NEW src \in Nat, NEW n \in Nat,
         dst + n <= s, src + n <= s
  PROVE  Moved(a, dst, src, n, s) \in [0..(s - 1) -> Cell]
<1>1. ASSUME NEW i \in 0..(s - 1)
      PROVE  Moved(a, dst, src, n, s)[i] \in Cell
  <2>1. CASE dst <= i /\ i < dst + n
    <3>1. src + (i - dst) \in 0..(s - 1)
      BY <2>1 DEF IsRing
    <3> QED
      BY <2>1, <3>1 DEF IsRing, Moved
  <2>2. CASE ~(dst <= i /\ i < dst + n)
    BY <2>2 DEF IsRing, Moved
  <2> QED
    BY <2>1, <2>2
<1> QED
  BY <1>1 DEF Moved

\* ShortenAtBeginning: the entry n is not behind the end of the buffer.
LEMMA RemoveBefore ==
  ASSUME NEW r, NEW w, NEW a, NEW s, IsRing(r, w, a, s),
         NEW n \in 0..(Entries(r, w, s) - 1), r + n < s
  PROVE  /\ IsRing(Next1(r, s), w, Moved(a, r + 1, r, n, s), s)
         /\ View(Next1(r, s), w, Moved(a, r + 1, r, n, s), s)
              = Without(View(r, w, a, s), n)
<1> DEFINE b == Moved(a, r + 1, r, n, s)
           q == Next1(r, s)
           m == Entries(r, w, s)
           c == View(r, w, a, s)
           d == SubSeq(c, 1, n) \o SubSeq(c, n + 2, Len(c))
<1>1. /\ s \in Nat /\ s >= 2 /\ r \in 0..(s - 1) /\ w \in 0..(s - 1)
      /\ q \in 0..(s - 1)
      /\ m \in 1..(s - 1) /\ n \in Nat /\ n < m /\ Entries(q, w, s) = m - 1
  BY DEF IsRing, Entries, Next1
<1>2. IsRing(q, w, b, s)
  <2>1. r + 1 \in Nat /\ r \in Nat /\ r + 1 + n <= s /\ r + n <= s
    BY <1>1
  <2>2. b \in [0..(s - 1) -> Cell]
    BY <1>1, <2>1, MovedIsRing
  <2> QED
    BY <1>1, <2>2 DEF IsRing
<1>3. /\ c \in Seq(Cell) /\ Len(c) = m
      /\ \A i \in 1..m : c[i] = a[Address(r, i - 1, s)]
  BY ViewIs
<1>4. /\ d \in Seq(Cell) /\ Len(d) = m - 1
      /\ \A i \in 1..(m - 1) : d[i] = IF i <= n THEN c[i] ELSE c[i + 1]
  <2>1. n \in 0..(Len(c) - 1)
    BY <1>3
  <2> HIDE DEF c
  <2>2. /\ d \in Seq(Cell) /\ Len(d) = Len(c) - 1
        /\ \A i \in 1..(Len(c) - 1) : d[i] = IF i <= n THEN c[i] ELSE c[i + 1]
    BY <1>3, <2>1, RemoveAtIs
  <2> HIDE DEF d, m
  <2> QED
    BY <1>3, <2>2
<1>5. ASSUME NEW i \in 1..(m - 1)
      PROVE  d[i] = b[Address(q, i - 1, s)]
  <2>1. /\ i \in Nat /\ i >= 1 /\ i < s /\ i \in 1..m /\ i + 1 \in 1..m
        /\ (i + 1) - 1 = i
    BY <1>1
  <2>2. Address(q, i - 1, s) = Address(r, i, s) /\ Address(r, i, s) \in 0..(s - 1)
    BY <1>1, <2>1 DEF Address, Next1
  <2>3. CASE i <= n
    <3>1. /\ Address(r, i, s) = r + i /\ Address(r, i - 1, s) = r + (i - 1)
          /\ r + 1 <= r + i /\ r + i < r + 1 + n
          /\ r + ((r + i) - (r + 1)) = r + (i - 1)
      BY <1>1, <2>1, <2>3 DEF Address
    <3>2. b[r + i] = a[r + (i - 1)]
      BY <2>2, <3>1 DEF Moved
    <3>3. d[i] = c[i]
      BY <1>4, <2>3
    <3> QED
      BY <1>3, <2>1, <2>2, <3>1, <3>2, <3>3
  <2>4. CASE i > n
    <3>1. ~(r + 1 <= Address(r, i, s) /\ Address(r, i, s) < r + 1 + n)
      BY <1>1, <2>1, <2>4 DEF Address
    <3>2. b[Address(r, i, s)] = a[Address(r, i, s)]
      BY <2>2, <3>1 DEF Moved
    <3>3. d[i] = c[i + 1]
      <4>1. ~(i <= n)
        BY <1>1, <2>4
      <4> QED
        BY <1>4, <4>1
    <3> QED
      BY <1>3, <2>1, <2>2, <3>2, <3>3
  <2> HIDE DEF b, c, d
  <2> QED
    BY <1>1, <2>1, <2>3, <2>4
<1> HIDE DEF b, q, m, c, d
<1>6. View(q, w, b, s) = d
  <2>1. Len(d) = Entries(q, w, s) /\ \A i \in 1..Len(d) : d[i] = b[Address(q, i - 1, s)]
    BY <1>1, <1>4, <1>5
  <2> QED
    BY <1>2, <1>4, <2>1, ViewEquals
<1> QED
  BY <1>2, <1>6 DEF b, q, c, d, Without

\* ShortenAtEnd: the entry n lies before the write index.
LEMMA RemoveBehind ==
  ASSUME NEW r, NEW w, NEW a, NEW s, IsRing(r, w, a, s),
         NEW n \in 0..(Entries(r, w, s) - 1), NEW p, p = Address(r, n, s), p < w,
         NEW k \in Nat, p + k <= w, w <= p + k + 1
  PROVE  /\ IsRing(r, w - 1, Moved(a, p, p + 1, k, s), s)
         /\ View(r, w - 1, Moved(a, p, p + 1, k, s), s)
              = Without(View(r, w, a, s), n)
<1> DEFINE b == Moved(a, p, p + 1, k, s)
           v == w - 1
           m == Entries(r, w, s)
           c == View(r, w, a, s)
           d == SubSeq(c, 1, n) \o SubSeq(c, n + 2, Len(c))
<1>1. /\ s \in Nat /\ s >= 2 /\ r \in 0..(s - 1) /\ w \in 0..(s - 1)
      /\ m \in 1..(s - 1) /\ n \in Nat /\ n < m
  BY DEF IsRing, Entries
<1>2. /\ p \in 0..(s - 1) /\ k \in Nat /\ v \in 0..(s - 1)
      /\ p + k <= w /\ v <= p + k /\ Entries(r, v, s) = m - 1
  BY <1>1 DEF Address, Entries
<1>3. IsRing(r, v, b, s)
  <2>1. p + 1 \in Nat /\ p \in Nat /\ p + k <= s /\ p + 1 + k <= s
    BY <1>1, <1>2
  <2>2. b \in [0..(s - 1) -> Cell]
    BY <1>2, <2>1, MovedIsRing
  <2> QED
    BY <1>1, <1>2, <2>2 DEF IsRing
<1>4. /\ c \in Seq(Cell) /\ Len(c) = m
      /\ \A i \in 1..m : c[i] = a[Address(r, i - 1, s)]
  BY ViewIs
<1>5. /\ d \in Seq(Cell) /\ Len(d) = m - 1
      /\ \A i \in 1..(m - 1) : d[i] = IF i <= n THEN c[i] ELSE c[i + 1]
  <2>1. n \in 0..(Len(c) - 1)
    BY <1>4
  <2> HIDE DEF c
  <2>2. /\ d \in Seq(Cell) /\ Len(d) = Len(c) - 1
        /\ \A i \in 1..(Len(c) - 1) : d[i] = IF i <= n THEN c[i] ELSE c[i + 1]
    BY <1>4, <2>1, RemoveAtIs
  <2> HIDE DEF d, m
  <2> QED
    BY <1>4, <2>2
<1>6. ASSUME NEW i \in 1..(m - 1)
      PROVE  d[i] = b[Address(r, i - 1, s)]
  <2>1. /\ i \in Nat /\ i >= 1 /\ i < s /\ i \in 1..m /\ i + 1 \in 1..m
        /\ (i + 1) - 1 = i
    BY <1>1
  <2>2. Address(r, i - 1, s) \in 0..(s - 1)
    BY <1>1, <2>1 DEF Address
  <2>3. CASE i <= n
    <3>1. ~(p <= Address(r, i - 1, s) /\ Address(r, i - 1, s) < p + k)
      BY <1>1, <1>2, <2>1, <2>3 DEF Address, Entries
    <3>2. b[Address(r, i - 1, s)] = a[Address(r, i - 1, s)]
      BY <2>2, <3>1 DEF Moved
    <3>3. d[i] = c[i]
      BY <1>5, <2>3
    <3> QED
      BY <1>4, <2>1, <3>2, <3>3
  <2>4. CASE i > n
    <3>1. /\ p <= Address(r, i - 1, s) /\ Address(r, i - 1, s) < p + k
          /\ p + 1 + (Address(r, i - 1, s) - p) = Address(r, i, s)
      BY <1>1, <1>2, <2>1, <2>4 DEF Address, Entries
    <3>2. b[Address(r, i - 1, s)] = a[Address(r, i, s)]
      BY <2>2, <3>1 DEF Moved
    <3>3. d[i] = c[i + 1]
      <4>1. ~(i <= n)
        BY <1>1, <2>4
      <4> QED
        BY <1>5, <4>1
    <3> QED
      BY <1>4, <2>1, <3>2, <3>3
  <2> HIDE DEF b, c, d
  <2> QED
    BY <1>1, <2>1, <2>3, <2>4
<1> HIDE DEF b, v, m, c, d
<1>7. View(r, v, b, s) = d
  <2>1. Len(d) = Entries(r, v, s) /\ \A i \in 1..Len(d) : d[i] = b[Address(r, i - 1, s)]
    BY <1>2, <1>5, <1>6
  <2> QED
    BY <1>3, <1>5, <2>1, ViewEquals
<1> QED
  BY <1>3, <1>7 DEF b, v, c, d, Without

-----------------------------------------------------------------------------
(***************************************************************************)
(* The operations of the queue.                                            *)
(***************************************************************************)
LEMMA MemMoveIs ==
  ASSUME IInv, NEW dst, NEW src, NEW n
  PROVE  MemMove(array, dst, src, n) = Moved(array, dst, src, n, GetSize)
<1>1. DOMAIN array = 0..(GetSize - 1)
  BY DEF IInv, LayoutOK
<1> QED
  BY <1>1 DEF MemMove, Moved

(* The successor of an index is the next one around the ring.               *)
LEMMA SuccessorIs ==
  ASSUME NEW i
  PROVE  Successor(i) = Next1(i, GetSize)
  BY DEF Successor, Next1

(* Queue::Enqueue appends.                                                  *)
LEMMA EnqueueStep ==
  ASSUME ConstantsAssumption, BuffersFit, IInv, NEW x \in Word, Enqueue(x)
  PROVE  IInv' /\ Contents' = Append(Contents, x)
<1> DEFINE s == GetSize
           t == s + s \div 2
           b == Put(array, writeIndex, x)
<1>1. /\ IsRing(readIndex, writeIndex, array, s)
      /\ s <= MaxBlockSize /\ header = [size |-> s, big |-> FALSE]
  BY Layout
<1>2. /\ GetNumberOfElements = Entries(readIndex, writeIndex, s)
      /\ Contents = View(readIndex, writeIndex, array, s)
  BY ContentsIs DEF Buffer
<1>3. x \in Cell /\ Successor(writeIndex) = Next1(writeIndex, s)
  BY SuccessorIs DEF Cell
<1>4. CASE Next1(writeIndex, s) # readIndex
  <2>1. /\ array' = b /\ writeIndex' = Next1(writeIndex, s)
        /\ readIndex' = readIndex /\ header' = header
    BY <1>3, <1>4 DEF Enqueue, Put
  <2> HIDE DEF s
  <2>2. /\ IsRing(readIndex', writeIndex', array', s)
        /\ View(readIndex', writeIndex', array', s) = Append(Contents, x)
    <3>1. /\ IsRing(readIndex, Next1(writeIndex, s), b, s)
          /\ View(readIndex, Next1(writeIndex, s), b, s)
               = Append(View(readIndex, writeIndex, array, s), x)
      BY <1>1, <1>3, <1>4, AddEntry
    <3> HIDE DEF b
    <3> QED
      BY <1>2, <2>1, <3>1
  <2> QED
    BY <1>1, <2>1, <2>2, LayoutNext
<1>5. CASE Next1(writeIndex, s) = readIndex
  <2>1. s \in Nat /\ s <= MaxEntries /\ s >= 2
    BY <1>1, <1>2, <1>5 DEF Enqueue, ConstantsAssumption, IsRing, Entries, Next1
  <2>2. t \in Nat /\ t > s /\ t <= MaxBlockSize
    BY <2>1 DEF BuffersFit, ConstantsAssumption
  <2>3. TranslateSize(t) = t /\ EncodeHeader(t) = [size |-> t, big |-> FALSE]
    BY <2>2, SmallHeader
  <2>4. Enlarge(b, s \div 2)
    BY <1>3, <1>5 DEF Enqueue, Put
  <2>5. /\ array' = Unrolled(b, readIndex, s, t)
        /\ readIndex' = 0 /\ writeIndex' = s
        /\ header' = [size |-> t, big |-> FALSE]
    <3> HIDE DEF b
    <3> QED
      BY <1>3, <1>5, <2>3, <2>4 DEF Enlarge, Unrolled
  <2> HIDE DEF s, t
  <2>6. /\ IsRing(readIndex', writeIndex', array', t)
        /\ View(readIndex', writeIndex', array', t) = Append(Contents, x)
    <3>1. /\ IsRing(0, s, Unrolled(b, readIndex, s, t), t)
          /\ View(0, s, Unrolled(b, readIndex, s, t), t)
               = Append(View(readIndex, writeIndex, array, s), x)
      BY <1>1, <1>3, <1>5, <2>2, GrowRing
    <3> HIDE DEF b
    <3> QED
      BY <1>2, <2>5, <3>1
  <2> QED
    BY <2>2, <2>5, <2>6, LayoutNext
<1> QED
  BY <1>4, <1>5

(* Queue::Dequeue takes the first entry.                                    *)
LEMMA DequeueStep ==
  ASSUME IInv, Dequeue
  PROVE  /\ IInv' /\ Contents # <<>>
         /\ result' = Head(Contents) /\ Contents' = Tail(Contents)
<1> DEFINE s == GetSize
<1>1. /\ IsRing(readIndex, writeIndex, array, s)
      /\ s <= MaxBlockSize /\ header = [size |-> s, big |-> FALSE]
  BY Layout
<1>2. Contents = View(readIndex, writeIndex, array, s)
  BY ContentsIs DEF Buffer
<1>3. /\ writeIndex # readIndex /\ result' = array[readIndex]
      /\ readIndex' = Next1(readIndex, s) /\ writeIndex' = writeIndex
      /\ array' = array /\ header' = header
  BY SuccessorIs DEF Dequeue, IsEmpty
<1> HIDE DEF s
<1>4. /\ IsRing(readIndex', writeIndex', array', s)
      /\ View(readIndex', writeIndex', array', s) = Tail(Contents)
      /\ Contents # <<>> /\ result' = Head(Contents)
  BY <1>1, <1>2, <1>3, DropFirst
<1> QED
  BY <1>1, <1>3, <1>4, LayoutNext

(* ShortenAtBeginning, called with the address of an entry, removes it.     *)
LEMMA BeginningStep ==
  ASSUME IInv, NEW n \in 0..(GetNumberOfElements - 1),
         NEW p, p = readIndex + n, p < GetSize, ShortenAtBeginning(p)
  PROVE  IInv' /\ Contents' = Without(Contents, n)
<1> DEFINE s == GetSize
<1>1. /\ IsRing(readIndex, writeIndex, array, s)
      /\ s <= MaxBlockSize /\ header = [size |-> s, big |-> FALSE]
  BY Layout
<1>2. /\ GetNumberOfElements = Entries(readIndex, writeIndex, s)
      /\ Contents = View(readIndex, writeIndex, array, s)
  BY ContentsIs DEF Buffer
<1>3. p - readIndex = n
  BY <1>1, <1>2 DEF IsRing, Entries
<1>4. /\ array' = Moved(array, readIndex + 1, readIndex, n, s)
      /\ readIndex' = Next1(readIndex, s) /\ writeIndex' = writeIndex
      /\ header' = header
  <2>1. array' = MemMove(array, readIndex + 1, readIndex, n)
    BY <1>3 DEF ShortenAtBeginning
  <2> QED
    BY <2>1, MemMoveIs, SuccessorIs DEF ShortenAtBeginning
<1>5. n \in 0..(Entries(readIndex, writeIndex, s) - 1) /\ readIndex + n < s
  BY <1>2
<1> HIDE DEF s
<1>6. /\ IsRing(readIndex', writeIndex', array', s)
      /\ View(readIndex', writeIndex', array', s) = Without(Contents, n)
  BY <1>1, <1>2, <1>4, <1>5, RemoveBefore
<1> QED
  BY <1>1, <1>4, <1>6, LayoutNext

(* ShortenAtEnd, called with the address of an entry, removes it.           *)
LEMMA EndStep ==
  ASSUME IInv, NEW n \in 0..(GetNumberOfElements - 1),
         NEW p, p = Address(readIndex, n, GetSize), p < writeIndex,
         NEW k \in Nat, p + k <= writeIndex, writeIndex <= p + k + 1,
         ShortenAtEnd(p, k)
  PROVE  IInv' /\ Contents' = Without(Contents, n)
<1> DEFINE s == GetSize
<1>1. /\ IsRing(readIndex, writeIndex, array, s)
      /\ s <= MaxBlockSize /\ header = [size |-> s, big |-> FALSE]
  BY Layout
<1>2. /\ GetNumberOfElements = Entries(readIndex, writeIndex, s)
      /\ Contents = View(readIndex, writeIndex, array, s)
  BY ContentsIs DEF Buffer
<1>3. /\ array' = Moved(array, p, p + 1, k, s)
      /\ writeIndex' = writeIndex - 1 /\ readIndex' = readIndex
      /\ header' = header
  BY MemMoveIs DEF ShortenAtEnd
<1>4. n \in 0..(Entries(readIndex, writeIndex, s) - 1) /\ p = Address(readIndex, n, s)
  BY <1>2
<1> HIDE DEF s
<1>5. /\ IsRing(readIndex', writeIndex', array', s)
      /\ View(readIndex', writeIndex', array', s) = Without(Contents, n)
  <2>1. /\ IsRing(readIndex, writeIndex - 1, Moved(array, p, p + 1, k, s), s)
        /\ View(readIndex, writeIndex - 1, Moved(array, p, p + 1, k, s), s)
             = Without(View(readIndex, writeIndex, array, s), n)
    BY <1>1, <1>4, RemoveBehind
  <2> QED
    BY <1>2, <1>3, <2>1
<1> QED
  BY <1>1, <1>3, <1>5, LayoutNext

(* Queue::RemoveNthElement removes that entry, whatever the layout.         *)
LEMMA RemoveNthStep ==
  ASSUME IInv, NEW n \in Nat, RemoveNthElement(n)
  PROVE  /\ IInv' /\ n \in 0..(Len(Contents) - 1)
         /\ Contents' = Without(Contents, n)
<1> DEFINE s == GetSize
           m == GetNumberOfElements
<1>1. IsRing(readIndex, writeIndex, array, s)
  BY Layout
<1>2. m = Entries(readIndex, writeIndex, s) /\ Len(Contents) = m
  BY <1>1, ContentsIs, ViewIs DEF Buffer
<1>3. n \in 0..(m - 1) /\ n < Entries(readIndex, writeIndex, s)
  BY <1>1, <1>2 DEF RemoveNthElement, IsRing, Entries
<1>4. CASE readIndex + n >= s
  <2> DEFINE p == NthIndex(n)
  <2>1. ShortenAtEnd(p, writeIndex - p - 1)
    BY <1>4 DEF RemoveNthElement
  <2>2. p = Address(readIndex, n, s)
    BY DEF NthIndex, Address
  <2>3. /\ p < writeIndex /\ writeIndex - p - 1 \in Nat
        /\ p + (writeIndex - p - 1) <= writeIndex
        /\ writeIndex <= p + (writeIndex - p - 1) + 1
    BY <1>1, <1>3, <1>4, <2>2 DEF IsRing, Entries, Address
  <2> HIDE DEF p
  <2> QED
    BY <1>2, <1>3, <2>1, <2>2, <2>3, EndStep
<1>5. CASE ~(readIndex + n >= s)
  <2>1. NthIndex(n) = readIndex + n /\ readIndex + n < s
    BY <1>1, <1>5 DEF NthIndex, IsRing
  <2>2. ShortenAtBeginning(readIndex + n)
    BY <1>5, <2>1 DEF RemoveNthElement
  <2> QED
    BY <1>2, <1>3, <2>1, <2>2, BeginningStep
<1> QED
  BY <1>4, <1>5

\* Scan returns the first address that holds x, or the end of the range.
LEMMA ScanIs ==
  ASSUME NEW x, NEW f \in Nat, NEW t \in Nat, f <= t
  PROVE  /\ Scan(x, f, t) \in f..t
         /\ Scan(x, f, t) = t \/ array[Scan(x, f, t)] = x
         /\ \A j \in f..(Scan(x, f, t) - 1) : array[j] # x
<1> DEFINE T == {i \in f..t : i = t \/ array[i] = x}
           P(i) == (i = t \/ array[i] = x) /\ \A j \in f..(i - 1) : array[j] # x
<1>1. T \in SUBSET Nat /\ T # {}
  <2>1. t \in T
    OBVIOUS
  <2> QED
    BY <2>1
<1>2. PICK i \in T : \A y \in T : i <= y
  <2> HIDE DEF T
  <2> QED
    BY <1>1, Least
<1>3. i \in f..t /\ P(i)
  <2>1. ASSUME NEW j \in f..(i - 1), array[j] = x
        PROVE  FALSE
    <3>1. j \in T
      BY <1>2, <2>1
    <3>2. j < i
      BY <1>2
    <3> QED
      BY <1>2, <3>1, <3>2
  <2> QED
    BY <1>2, <2>1
<1>4. \E k \in f..t : P(k)
  BY <1>3
<1>5. Scan(x, f, t) = CHOOSE k \in f..t : P(k)
  BY DEF Scan
<1> HIDE DEF P
<1>6. Scan(x, f, t) \in f..t /\ P(Scan(x, f, t))
  BY <1>4, <1>5
<1> QED
  BY <1>6 DEF P

\* Which addresses the entries of a ring have, and which come before another.
LEMMA Addresses ==
  ASSUME NEW s \in Nat, NEW r \in 0..(s - 1), NEW v \in 0..(s - 1)
  PROVE  \A i \in 0..(Entries(r, v, s) - 1) :
           IF r > v THEN Address(r, i, s) \in r..(s - 1) \/ Address(r, i, s) \in 0..(v - 1)
                    ELSE Address(r, i, s) \in r..(v - 1)
  BY DEF Entries, Address

(* In a ring of two parts every address from the read index is that of an   *)
(* entry, and those before it hold earlier entries.                         *)
LEMMA UpperAddress ==
  ASSUME NEW s \in Nat, NEW r \in 0..(s - 1), NEW v \in 0..(s - 1), r > v,
         NEW u \in r..(s - 1)
  PROVE  \E n \in 0..(Entries(r, v, s) - 1) :
           /\ u = r + n /\ u = Address(r, n, s)
           /\ \A i \in 0..(n - 1) : Address(r, i, s) \in r..(u - 1)
<1> DEFINE n == u - r
<1>1. n \in 0..(Entries(r, v, s) - 1) /\ u = r + n /\ u = Address(r, n, s)
  BY DEF Entries, Address
<1>2. \A i \in 0..(n - 1) : Address(r, i, s) \in r..(u - 1)
  BY DEF Address
<1> QED
  BY <1>1, <1>2

Precede(n, f, l, r, v, s) ==
  \A i \in 0..(n - 1) : \/ Address(r, i, s) \in f..(l - 1)
                        \/ r > v /\ Address(r, i, s) \in r..(s - 1)

(* Every address of the lower part is that of an entry, too.                *)
LEMMA LowerAddress ==
  ASSUME NEW s \in Nat, NEW r \in 0..(s - 1), NEW v \in 0..(s - 1),
         NEW f, r > v => f = 0, ~(r > v) => f = r, NEW l \in f..(v - 1)
  PROVE  \E n \in 0..(Entries(r, v, s) - 1) :
           l = Address(r, n, s) /\ Precede(n, f, l, r, v, s)
<1>1. CASE r > v
  <2> DEFINE n == l + s - r
  <2>1. n \in 0..(Entries(r, v, s) - 1) /\ l = Address(r, n, s)
    BY <1>1 DEF Entries, Address
  <2>2. \A i \in 0..(n - 1) :
          \/ Address(r, i, s) \in f..(l - 1)
          \/ Address(r, i, s) \in r..(s - 1)
    BY <1>1 DEF Address
  <2> QED
    BY <1>1, <2>1, <2>2 DEF Precede
<1>2. CASE ~(r > v)
  <2> DEFINE n == l - r
  <2>1. n \in 0..(Entries(r, v, s) - 1) /\ l = Address(r, n, s)
    BY <1>2 DEF Entries, Address
  <2>2. \A i \in 0..(n - 1) : Address(r, i, s) \in f..(l - 1)
    BY <1>2 DEF Address
  <2> QED
    BY <2>1, <2>2 DEF Precede
<1> QED
  BY <1>1, <1>2

\* What Remove promises: the first occurrence leaves, or there is none.
Withdrawn(c, d, x) ==
  \/ \E i \in DOMAIN c : /\ c[i] = x
                         /\ \A j \in 1..(i - 1) : c[j] # x
                         /\ d = Without(c, i - 1)
  \/ (\A i \in DOMAIN c : c[i] # x) /\ d = c

(* Queue::Remove withdraws the first entry that is the word, if there is    *)
(* one.                                                                     *)
LEMMA RemoveStep ==
  ASSUME IInv, NEW x \in Word, Remove(x)
  PROVE  IInv' /\ Withdrawn(Contents, Contents', x)
<1> DEFINE r == readIndex
           v == writeIndex
           s == GetSize
           m == Entries(r, v, s)
           c == Contents
           from == IF r > v THEN 0 ELSE r
           upper == Scan(x, r, s)
           lower == Scan(x, from, v)
<1>1. /\ s \in Nat /\ s >= 2 /\ r \in 0..(s - 1) /\ v \in 0..(s - 1)
      /\ r \in Nat /\ v \in Nat /\ r <= s /\ from \in Nat /\ from <= v
  BY Layout DEF IsRing
<1>2. /\ GetNumberOfElements = m /\ m \in Nat
      /\ DOMAIN c = 1..m
      /\ \A i \in 1..m : c[i] = array[Address(r, i - 1, s)]
  <2>1. GetNumberOfElements = m /\ c = View(r, v, array, s) /\ IsRing(r, v, array, s)
    BY Layout, ContentsIs DEF Buffer
  <2>2. m \in Nat
    BY <1>1 DEF Entries
  <2>3. /\ c \in Seq(Cell) /\ Len(c) = m
        /\ \A i \in 1..m : c[i] = array[Address(r, i - 1, s)]
    <3> HIDE DEF c, s
    <3> QED
      BY <2>1, ViewIs
  <2> HIDE DEF c, m
  <2> QED
    BY <2>1, <2>2, <2>3
<1>3. /\ upper \in r..s
      /\ upper = s \/ array[upper] = x
      /\ \A j \in r..(upper - 1) : array[j] # x
  BY <1>1, ScanIs
<1>4. /\ lower \in from..v
      /\ lower = v \/ array[lower] = x
      /\ \A j \in from..(lower - 1) : array[j] # x
  BY <1>1, ScanIs
<1>5. /\ ~IsEmpty <=> r # v
      /\ r > v => from = 0
      /\ ~(r > v) => from = r
  BY DEF IsEmpty
<1>6. \/ r > v /\ upper # s /\ ShortenAtBeginning(upper)
      \/ /\ ~(r > v /\ upper # s) /\ ~IsEmpty /\ lower # v
         /\ ShortenAtEnd(lower, v - lower)
      \/ /\ ~(r > v /\ upper # s) /\ ~(~IsEmpty /\ lower # v)
         /\ UNCHANGED bufferVars
  BY DEF Remove
<1> HIDE DEF m, from, upper, lower
\* An entry that is found at the address of the nth element.
<1>7. ASSUME NEW n \in 0..(m - 1), array[Address(r, n, s)] = x,
             \A i \in 0..(n - 1) : array[Address(r, i, s)] # x,
             IInv', Contents' = Without(c, n)
      PROVE  IInv' /\ Withdrawn(c, Contents', x)
  <2>1. n + 1 \in 1..m /\ (n + 1) - 1 = n
    BY <1>2
  <2>2. c[n + 1] = x
    BY <1>2, <1>7, <2>1
  <2>3. ASSUME NEW j \in 1..((n + 1) - 1)
        PROVE  c[j] # x
    <3>1. j \in 1..m /\ j - 1 \in 0..(n - 1)
      BY <1>2
    <3> QED
      BY <1>2, <1>7, <3>1
  <2>4. Contents' = Without(c, (n + 1) - 1)
    BY <1>7, <2>1
  <2> HIDE DEF c
  <2> QED
    BY <1>2, <1>7, <2>1, <2>2, <2>3, <2>4 DEF Withdrawn
<1>8. CASE r > v /\ upper # s /\ ShortenAtBeginning(upper)
  <2>1. upper \in r..(s - 1)
    BY <1>1, <1>3, <1>8
  <2>2. PICK n \in 0..(m - 1) :
          /\ upper = r + n /\ upper = Address(r, n, s)
          /\ \A i \in 0..(n - 1) : Address(r, i, s) \in r..(upper - 1)
    BY <1>1, <1>8, <2>1, UpperAddress DEF m
  <2>3. upper < s
    BY <1>1, <2>1
  <2>4. IInv' /\ Contents' = Without(c, n)
    BY <1>2, <1>8, <2>2, <2>3, BeginningStep
  <2>5. array[Address(r, n, s)] = x /\ \A i \in 0..(n - 1) : array[Address(r, i, s)] # x
    BY <1>3, <1>8, <2>2
  <2> QED
    BY <1>7, <2>4, <2>5
<1>9. CASE /\ ~(r > v /\ upper # s) /\ ~IsEmpty /\ lower # v
           /\ ShortenAtEnd(lower, v - lower)
  <2>1. /\ lower \in from..(v - 1) /\ lower < v /\ v - lower \in Nat
        /\ lower + (v - lower) <= v /\ v <= lower + (v - lower) + 1
    BY <1>1, <1>4, <1>9
  <2>2. PICK n \in 0..(m - 1) :
          lower = Address(r, n, s) /\ Precede(n, from, lower, r, v, s)
    BY <1>1, <1>5, <2>1, LowerAddress DEF m
  <2>3. IInv' /\ Contents' = Without(c, n)
    BY <1>2, <1>9, <2>1, <2>2, EndStep
  <2>4. array[Address(r, n, s)] = x /\ \A i \in 0..(n - 1) : array[Address(r, i, s)] # x
    BY <1>3, <1>4, <1>9, <2>2 DEF Precede
  <2> QED
    BY <1>7, <2>3, <2>4
<1>10. CASE /\ ~(r > v /\ upper # s) /\ ~(~IsEmpty /\ lower # v)
            /\ UNCHANGED bufferVars
  <2>1. /\ s <= MaxBlockSize /\ header' = [size |-> s, big |-> FALSE]
        /\ IsRing(readIndex', writeIndex', array', s)
        /\ View(readIndex', writeIndex', array', s) = c
    BY <1>10, Layout, ContentsIs DEF bufferVars, Buffer
  <2>2. IInv' /\ Contents' = c
    <3> HIDE DEF s, c
    <3> QED
      BY <2>1, LayoutNext
  <2>3. ASSUME NEW i \in 1..m
        PROVE  c[i] # x
    <3>1. i - 1 \in 0..(m - 1) /\ r # v
      BY <1>1, <1>2 DEF m, Entries
    <3>2. lower = v /\ (r > v => upper = s)
      BY <1>5, <1>10, <3>1
    <3>3. \/ Address(r, i - 1, s) \in from..(v - 1)
          \/ r > v /\ Address(r, i - 1, s) \in r..(s - 1)
      BY <1>1, <1>5, <3>1, Addresses DEF m
    <3>4. array[Address(r, i - 1, s)] # x
      BY <1>3, <1>4, <3>2, <3>3
    <3> QED
      BY <1>2, <3>4
  <2>4. Withdrawn(c, c, x)
    <3> HIDE DEF c
    <3> QED
      BY <1>2, <2>3 DEF Withdrawn
  <2> QED
    BY <2>2, <2>4
<1> QED
  BY <1>6, <1>8, <1>9, <1>10

-----------------------------------------------------------------------------
(***************************************************************************)
(* Blank.                                                                  *)
(***************************************************************************)

\* The array that Blank leaves: n words are moved from src to dst, those
\* outside the ring of q and v are zeroed, and b words are kept.
Kept(a, dst, src, n, q, v, s, b) ==
  [i \in 0..(b - 1) |-> IF Unused(i, q, v) THEN Zero ELSE Moved(a, dst, src, n, s)[i]]

(* The addresses of entries are not zeroed by Blank.                        *)
LEMMA InUse ==
  ASSUME NEW b \in Nat, NEW q \in 0..(b - 1), NEW v \in 0..(b - 1)
  PROVE  \A i \in 0..(Entries(q, v, b) - 1) : ~Unused(Address(q, i, b), q, v)
  BY DEF Entries, Address, Unused

\* Entry i is still entry i.
SameEntry(i, a, d, k, q, b, r, s) ==
  Moved(a, d, r, k, s)[Address(q, i, b)] = a[Address(r, i, s)]

\* What BlankMove returns: nothing moves, or the entries move to the beginning,
\* or those before the end of the buffer move to the end of the smaller one.
IsMove(r, w, s, b, d, k, q, v) ==
  \/ (b = s \/ (r < w /\ w < b)) /\ d = r /\ k = 0 /\ q = r /\ v = w
  \/ r < w /\ w - r < b /\ d = 0 /\ k = w - r /\ q = 0 /\ v = w - r
  \/ r > w /\ w + s - r < b /\ d = b - (s - r) /\ k = s - r /\ q = d /\ v = w

(* The move of Blank keeps the entries in order.                            *)
LEMMA MoveKeepsEntries ==
  ASSUME NEW r, NEW w, NEW a, NEW s, IsRing(r, w, a, s),
         NEW b \in Nat, b >= 2, b <= s, NEW d, NEW k, NEW q, NEW v,
         IsMove(r, w, s, b, d, k, q, v)
  PROVE  /\ d \in Nat /\ k \in Nat /\ q \in 0..(b - 1) /\ v \in 0..(b - 1)
         /\ d + k <= s /\ r + k <= s
         /\ Entries(q, v, b) = Entries(r, w, s)
         /\ \A i \in 0..(Entries(r, w, s) - 1) : SameEntry(i, a, d, k, q, b, r, s)
<1>1. /\ d \in Nat /\ k \in Nat /\ q \in 0..(b - 1) /\ v \in 0..(b - 1)
      /\ d + k <= s /\ r + k <= s
      /\ Entries(q, v, b) = Entries(r, w, s)
  BY DEF IsRing, IsMove, Entries
<1>2. ASSUME NEW i \in 0..(Entries(r, w, s) - 1)
      PROVE  SameEntry(i, a, d, k, q, b, r, s)
  <2> DEFINE x == Address(q, i, b)
             y == Address(r, i, s)
  <2>1. x \in 0..(s - 1)
    BY <1>1 DEF IsRing, Address, Entries
  <2>2. \/ x = y /\ ~(d <= x /\ x < d + k)
        \/ d <= x /\ x < d + k /\ r + (x - d) = y
    BY <1>1 DEF IsRing, IsMove, Address, Entries
  <2>3. Moved(a, d, r, k, s)[x] = IF d <= x /\ x < d + k THEN a[r + (x - d)] ELSE a[x]
    BY <2>1 DEF Moved
  <2> HIDE DEF x, y
  <2>4. Moved(a, d, r, k, s)[x] = a[y]
    BY <2>2, <2>3
  <2> QED
    BY <2>4 DEF SameEntry, x, y
<1> QED
  BY <1>1, <1>2

(* After Blank the ring has the same view, and words only where there are   *)
(* entries.                                                                 *)
LEMMA BlankRing ==
  ASSUME NEW r, NEW w, NEW a, NEW s, IsRing(r, w, a, s),
         NEW b \in Nat, b >= 2, b <= s, NEW d, NEW k, NEW q, NEW v,
         IsMove(r, w, s, b, d, k, q, v)
  PROVE  /\ IsRing(q, v, Kept(a, d, r, k, q, v, s, b), b)
         /\ View(q, v, Kept(a, d, r, k, q, v, s, b), b) = View(r, w, a, s)
<1> DEFINE e == Kept(a, d, r, k, q, v, s, b)
           c == View(r, w, a, s)
           n == Entries(r, w, s)
           f == Moved(a, d, r, k, s)
<1>0. /\ d \in Nat /\ k \in Nat /\ q \in 0..(b - 1) /\ v \in 0..(b - 1)
      /\ d + k <= s /\ r + k <= s
      /\ Entries(q, v, b) = Entries(r, w, s)
      /\ \A i \in 0..(Entries(r, w, s) - 1) : SameEntry(i, a, d, k, q, b, r, s)
  BY MoveKeepsEntries
<1>1. s \in Nat /\ r \in Nat /\ n \in 0..(s - 1) /\ n \in Nat
  BY RingEntries DEF IsRing
<1>2. f \in [0..(s - 1) -> Cell]
  BY <1>0, <1>1, MovedIsRing
<1>3. IsRing(q, v, e, b)
  <2>1. \A i \in 0..(b - 1) : i \in 0..(s - 1)
    BY <1>1
  <2> HIDE DEF f
  <2>2. e \in [0..(b - 1) -> Cell]
    BY <1>2, <2>1 DEF Kept, Cell, f
  <2> QED
    BY <1>0, <2>2 DEF IsRing
<1>4. c \in Seq(Cell) /\ Len(c) = n /\ \A i \in 1..n : c[i] = a[Address(r, i - 1, s)]
  BY ViewIs
<1>5. ASSUME NEW i \in 1..n
      PROVE  c[i] = e[Address(q, i - 1, b)]
  <2>1. i - 1 \in 0..(n - 1) /\ i - 1 \in 0..Entries(q, v, b)
        /\ i - 1 \in 0..(Entries(q, v, b) - 1)
    BY <1>0, <1>1
  <2>2. Address(q, i - 1, b) \in 0..(b - 1) /\ ~Unused(Address(q, i - 1, b), q, v)
    BY <1>0, <2>1, RingEntries, InUse
  <2>3. e[Address(q, i - 1, b)] = f[Address(q, i - 1, b)]
    BY <2>2 DEF Kept
  <2>4. f[Address(q, i - 1, b)] = a[Address(r, i - 1, s)]
    BY <1>0, <2>1 DEF SameEntry
  <2> HIDE DEF c, e, f, n
  <2> QED
    BY <1>4, <2>3, <2>4
<1> HIDE DEF c, e, n
<1>6. View(q, v, e, b) = c
  <2>1. Len(c) = Entries(q, v, b) /\ \A i \in 1..Len(c) : c[i] = e[Address(q, i - 1, b)]
    BY <1>0, <1>4, <1>5 DEF n
  <2> QED
    BY <1>3, <1>4, <2>1, ViewEquals
<1> QED
  BY <1>3, <1>6 DEF c, e

\* The size that Blank wants has room for the entries.
Wanted(n, s) == (((n * 3) \div 2 + 1) + s) \div 2

(* The size that Blank wants is larger than the number of entries.          *)
LEMMA WantedFits ==
  ASSUME NEW s \in Nat, NEW n \in 1..s
  PROVE  /\ Wanted(n, s) \in Nat
         /\ n < s => Wanted(n, s) > n
         /\ n = s => Wanted(n, s) >= s
<1> DEFINE h == (n * 3) \div 2
<1>1. h \in Nat /\ 2 * h <= n * 3 /\ n * 3 <= 2 * h + 1
  OBVIOUS
<1> HIDE DEF h
<1>2. /\ (h + 1 + s) \div 2 \in Nat
      /\ n < s => (h + 1 + s) \div 2 > n
      /\ n = s => (h + 1 + s) \div 2 >= s
  BY <1>1
<1> QED
  BY <1>2 DEF Wanted, h

(* The size that Blank chooses is at most the old one and leaves a free     *)
(* slot.                                                                    *)
LEMMA BlankSizeFits ==
  ASSUME IInv
  PROVE  LET n == Entries(readIndex, writeIndex, GetSize)
         IN  /\ BlankSize \in Nat /\ BlankSize >= 2 /\ BlankSize <= GetSize
             /\ readIndex = writeIndex => BlankSize = GetSize
             /\ readIndex # writeIndex => /\ BlankEntries = n
                                          /\ BlankSize < GetSize => n < BlankSize
<1> DEFINE s == GetSize
           n == Entries(readIndex, writeIndex, s)
           e == BlankEntries
<1>1. /\ s \in Nat /\ s >= 2 /\ readIndex \in 0..(s - 1) /\ writeIndex \in 0..(s - 1)
  BY Layout DEF IsRing
<1>2. /\ readIndex = writeIndex => e = s
      /\ readIndex # writeIndex => e = n /\ n \in 1..(s - 1)
  BY <1>1 DEF BlankEntries, Entries
<1>3. e \in 1..s
  BY <1>1, <1>2
<1>4. BlankSize = LET newSize == IF Wanted(e, s) < 2 THEN 2 ELSE Wanted(e, s)
                  IN IF newSize >= s THEN s ELSE newSize
  BY DEF BlankSize, Wanted
<1> HIDE DEF e, s, n
<1>5. /\ Wanted(e, s) \in Nat
      /\ e < s => Wanted(e, s) > e
      /\ e = s => Wanted(e, s) >= s
  BY <1>1, <1>3, WantedFits
<1>6. /\ BlankSize \in Nat /\ BlankSize >= 2 /\ BlankSize <= s
      /\ readIndex = writeIndex => BlankSize = s
      /\ readIndex # writeIndex => e = n /\ (BlankSize < s => n < BlankSize)
  BY <1>1, <1>2, <1>4, <1>5
<1> QED
  BY <1>6 DEF e, s, n

(* The three cases of Blank are moves that keep the entries.                *)
LEMMA BlankMoves ==
  ASSUME IInv
  PROVE  LET m == BlankMove
         IN  IsMove(readIndex, writeIndex, GetSize, BlankSize,
                    m.dst, m.len, m.read, m.write)
<1> DEFINE s == GetSize
           b == BlankSize
<1>1. /\ s \in Nat /\ s >= 2 /\ readIndex \in 0..(s - 1) /\ writeIndex \in 0..(s - 1)
  BY Layout DEF IsRing
<1>2. /\ b \in Nat /\ b >= 2 /\ b <= s
      /\ readIndex = writeIndex => b = s
      /\ readIndex # writeIndex => /\ BlankEntries = Entries(readIndex, writeIndex, s)
                                   /\ b < s => Entries(readIndex, writeIndex, s) < b
  BY BlankSizeFits
<1>3. CASE b = s \/ (readIndex < writeIndex /\ writeIndex < b)
  BY <1>3 DEF BlankMove, IsMove
<1>4. CASE ~(b = s \/ (readIndex < writeIndex /\ writeIndex < b)) /\ readIndex < writeIndex
  <2>1. BlankEntries = writeIndex - readIndex /\ writeIndex - readIndex < b
    BY <1>1, <1>2, <1>4 DEF Entries
  <2> HIDE DEF b
  <2> QED
    BY <1>4, <2>1 DEF BlankMove, IsMove, b
<1>5. CASE ~(b = s \/ (readIndex < writeIndex /\ writeIndex < b)) /\ ~(readIndex < writeIndex)
  <2>1. readIndex > writeIndex /\ writeIndex + s - readIndex < b
    BY <1>1, <1>2, <1>5 DEF Entries
  <2> QED
    BY <1>5, <2>1 DEF BlankMove, IsMove
<1> QED
  BY <1>3, <1>4, <1>5

(* Queue::Blank keeps the entries, and the entries only.                    *)
LEMMA BlankStep ==
  ASSUME ConstantsAssumption, IInv, Blank
  PROVE  IInv' /\ Contents' = Contents /\ (~IsEmpty => NoStaleEntry)'
<1> DEFINE r == readIndex
           w == writeIndex
           s == GetSize
           b == BlankSize
           d == BlankMove.dst
           k == BlankMove.len
           q == BlankMove.read
           v == BlankMove.write
<1>1. /\ IsRing(r, w, array, s)
      /\ s \in Nat /\ s <= MaxBlockSize /\ header = [size |-> s, big |-> FALSE]
      /\ Contents = View(r, w, array, s)
  BY Layout, ContentsIs DEF Buffer, IsRing
<1>2. b \in Nat /\ b >= 2 /\ b <= s
  BY BlankSizeFits
<1>3. IsMove(r, w, s, b, d, k, q, v)
  BY BlankMoves
<1>4. /\ array' = Kept(array, d, r, k, q, v, s, b)
      /\ readIndex' = q /\ writeIndex' = v
  BY MemMoveIs DEF Blank, Kept
<1>5. header' = [size |-> b, big |-> FALSE]
  <2>1. header' = IF b < s THEN EncodeSize(header, b) ELSE header
    BY DEF Blank
  <2>2. EncodeSize(header, b) = [size |-> b, big |-> FALSE]
    BY <1>1 DEF EncodeSize
  <2>3. ~(b < s) => b = s
    BY <1>1, <1>2
  <2> HIDE DEF b, s
  <2> QED
    BY <1>1, <2>1, <2>2, <2>3
<1> HIDE DEF b, d, k, q, v
<1>6. q \in 0..(b - 1) /\ v \in 0..(b - 1)
  BY <1>1, <1>2, <1>3, MoveKeepsEntries
<1>7. /\ IsRing(q, v, Kept(array, d, r, k, q, v, s, b), b)
      /\ View(q, v, Kept(array, d, r, k, q, v, s, b), b) = View(r, w, array, s)
  <2> HIDE DEF r, w, s
  <2> QED
    BY <1>1, <1>2, <1>3, BlankRing
<1>8. IInv' /\ Contents' = Contents
  <2>1. b <= MaxBlockSize
    BY <1>1, <1>2 DEF ConstantsAssumption
  <2> HIDE DEF r, w, s
  <2> QED
    BY <1>1, <1>4, <1>5, <1>7, <2>1, LayoutNext
<1>9. (~IsEmpty => NoStaleEntry)'
  <2>1. SUFFICES ASSUME v # q, NEW i \in 0..(b - 1),
                        IF q <= v THEN i < q \/ i >= v ELSE v <= i /\ i < q
                 PROVE  array'[i] = Zero
    BY <1>4 DEF IsEmpty, NoStaleEntry, OutsideRing, Kept
  <2>2. Unused(i, q, v)
    BY <1>6, <2>1 DEF Unused
  <2> QED
    BY <1>4, <2>2 DEF Kept
<1> QED
  BY <1>8, <1>9

-----------------------------------------------------------------------------
(***************************************************************************)
(* The theorems.                                                           *)
(***************************************************************************)
LEMMA InitInv ==
  ASSUME ConstantsAssumption, BuffersFit, Init
  PROVE  IInv /\ BlankForgets /\ Contents = <<>>
<1>1. /\ InitialSize \in Nat /\ InitialSize >= 2 /\ InitialSize <= MaxBlockSize
  BY DEF ConstantsAssumption, BuffersFit
<1>2. /\ readIndex = 0 /\ writeIndex = 0
      /\ array = AllocArray(InitialSize)
      /\ header = [size |-> InitialSize, big |-> FALSE]
  BY <1>1, SmallHeader DEF Init
<1>3. GetSize = InitialSize /\ HeaderOK
  BY <1>1, <1>2 DEF GetSize, DecodeSize, HeaderOK
<1>4. LayoutOK /\ BufferOK
  BY <1>1, <1>2, <1>3 DEF LayoutOK, BufferOK, AllocArray, Cell
<1>5. IInv
  BY <1>3, <1>4 DEF IInv
<1>6. Contents = <<>>
  <2>1. GetNumberOfElements = 0
    BY <1>1, <1>2, <1>3 DEF GetNumberOfElements
  <2> QED
    BY <2>1 DEF Contents
<1> QED
  BY <1>5, <1>6 DEF BlankForgets, Init

(* What a step keeps that changes nothing.                                  *)
LEMMA NoSteps ==
  ASSUME IInv, BlankForgets, UNCHANGED vars
  PROVE  IInv' /\ BlankForgets' /\ Contents' = Contents
<1>1. GetSize' = GetSize
  BY DEF vars, bufferVars, GetSize
<1>2. Contents' = Contents
  BY <1>1 DEF vars, bufferVars, Contents, GetNumberOfElements, GetNthElement, NthIndex
<1>3. IInv'
  BY <1>1 DEF IInv, LayoutOK, HeaderOK, BufferOK, vars, bufferVars
<1>4. BlankForgets'
  BY DEF BlankForgets, IsEmpty, NoStaleEntry, OutsideRing, vars, bufferVars
<1> QED
  BY <1>2, <1>3, <1>4

(* Every step of the ring buffer is one of the abstract queue.              *)
LEMMA Steps ==
  ASSUME ConstantsAssumption, BuffersFit, IInv, BlankForgets, [Next]_vars
  PROVE  IInv' /\ BlankForgets' /\ [Fifo!Next]_(Fifo!vars)
<1>1. ASSUME NEW x \in Word, Enqueue(x)
      PROVE  IInv' /\ BlankForgets' /\ Fifo!Next
  <2>1. IInv' /\ Contents' = Append(Contents, x)
    BY <1>1, EnqueueStep
  <2>2. UNCHANGED result /\ ~purged'
    BY <1>1 DEF Enqueue
  <2> QED
    BY <2>1, <2>2 DEF BlankForgets, Fifo!Next, Fifo!Enqueue
<1>2. ASSUME NEW x \in Word, Remove(x)
      PROVE  IInv' /\ BlankForgets' /\ Fifo!Next
  <2>1. IInv' /\ Withdrawn(Contents, Contents', x)
    BY <1>2, RemoveStep
  <2>2. UNCHANGED result /\ ~purged'
    BY <1>2 DEF Remove
  <2>3. ASSUME NEW i \in DOMAIN Contents
        PROVE  Fifo!RemoveAt(Contents, i) = Without(Contents, i - 1)
    <3>1. i \in Int
      BY DEF Contents
    <3>2. (i - 1) + 2 = i + 1
      BY <3>1
    <3> QED
      BY <3>2 DEF Fifo!RemoveAt, Without
  <2>4. Fifo!Withdraw(x)
    BY <2>1, <2>2, <2>3 DEF Withdrawn, Fifo!Withdraw
  <2> QED
    BY <2>1, <2>2, <2>4 DEF BlankForgets, Fifo!Next
<1>3. CASE Dequeue
  <2>1. /\ IInv' /\ Contents # <<>>
        /\ result' = Head(Contents) /\ Contents' = Tail(Contents)
    BY <1>3, DequeueStep
  <2>2. ~purged'
    BY <1>3 DEF Dequeue
  <2> QED
    BY <2>1, <2>2 DEF BlankForgets, Fifo!Next, Fifo!Dequeue
<1>4. ASSUME NEW n \in 0..MaxEntries, RemoveNthElement(n)
      PROVE  IInv' /\ BlankForgets' /\ Fifo!Next
  <2>1. /\ IInv' /\ n \in 0..(Len(Contents) - 1)
        /\ Contents' = Without(Contents, n)
    <3>1. n \in Nat
      BY DEF ConstantsAssumption
    <3> QED
      BY <1>4, <3>1, RemoveNthStep
  <2>2. UNCHANGED result /\ ~purged'
    BY <1>4 DEF RemoveNthElement
  <2>3. Fifo!RemoveAt(Contents, n + 1) = Without(Contents, n)
    <3>1. (n + 1) - 1 = n /\ (n + 1) + 1 = n + 2
      BY DEF ConstantsAssumption
    <3> QED
      BY <3>1 DEF Fifo!RemoveAt, Without
  <2> QED
    BY <2>1, <2>2, <2>3 DEF BlankForgets, Fifo!Next, Fifo!WithdrawNth
<1>5. CASE Blank
  <2>1. IInv' /\ Contents' = Contents /\ (~IsEmpty => NoStaleEntry)'
    BY <1>5, BlankStep
  <2>2. UNCHANGED result
    BY <1>5 DEF Blank
  <2> QED
    BY <2>1, <2>2 DEF BlankForgets, Fifo!vars
<1>6. CASE UNCHANGED vars
  <2>1. UNCHANGED result
    BY <1>6 DEF vars
  <2> QED
    BY <1>6, <2>1, NoSteps DEF Fifo!vars
<1> QED
  BY <1>1, <1>2, <1>3, <1>4, <1>5, <1>6 DEF Next

\* The asserts of SetReadIndex, SetWriteIndex and Blank hold after every
\* operation: the indices address the buffer, whose size the header tells.
THEOREM LayoutCorrect ==
  ASSUME BuffersFit
  PROVE  Spec => []LayoutOK
<1>1. Init => IInv /\ BlankForgets
  BY ConstantsAssumption, InitInv
<1>2. IInv /\ BlankForgets /\ [Next]_vars
        => (IInv /\ BlankForgets)'
  BY ConstantsAssumption, Steps
<1>3. IInv => LayoutOK
  BY DEF IInv
<1> QED
  BY <1>1, <1>2, <1>3, PTL DEF Spec

\* Blank leaves no word outside the ring of a queue that is not empty, so that
\* the collection that follows does not keep words that left the queue.
THEOREM BlankCorrect ==
  ASSUME BuffersFit
  PROVE  Spec => []BlankForgets
<1>1. Init => IInv /\ BlankForgets
  BY ConstantsAssumption, InitInv
<1>2. IInv /\ BlankForgets /\ [Next]_vars
        => (IInv /\ BlankForgets)'
  BY ConstantsAssumption, Steps
<1> QED
  BY <1>1, <1>2, PTL DEF Spec

\* The ring buffer implements a first-in first-out queue: wrapping, growing,
\* shrinking and removing from within neither lose nor reorder an entry.
THEOREM QueueIsFifo ==
  ASSUME BuffersFit
  PROVE  Spec => IsFifo
<1>1. Init => IInv /\ BlankForgets /\ Fifo!Init
  BY ConstantsAssumption, InitInv DEF Init, Fifo!Init
<1>2. IInv /\ BlankForgets /\ [Next]_vars
        => (IInv /\ BlankForgets)' /\ [Fifo!Next]_(Fifo!vars)
  BY ConstantsAssumption, Steps
<1> QED
  BY <1>1, <1>2, PTL DEF Spec, IsFifo, Fifo!Spec

=============================================================================
