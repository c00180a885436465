---------------------------- MODULE StoreProofs ----------------------------
(* No collection of Store leaves a stale pointer, the remembered set is     *)
(* exact, and a major collection keeps what can be reached and no more, for *)
(* any number of objects, fields and keys and whatever the program does     *)
(* between two collections.                                                 *)
EXTENDS StoreHeap

(* The only weak map is the one that is there from the start and that the   *)
(* root refers to for ever, as FinalizationSet::Init makes it. For others    *)
(* the properties are false: see the README.                                *)
MapsAreRooted == "WEAK_MAP" \notin Labels

-----------------------------------------------------------------------------
(***************************************************************************)
(* The inductive invariant. NoStalePointer and Remembered speak of the     *)
(* time between two collections; it says what is true in the middle of     *)
(* one, and of garbage, too, which the remembered set keeps alive.         *)
(***************************************************************************)
Outside == {"mutator", "finalize"}
BeforeOld == {"scanRoots", "intgen", "entry"}
BeforeDicts == BeforeOld \cup {"scanOld"}
Phases == Outside \cup BeforeDicts \cup {"dicts", "entries", "scanFinal"}

Bound == IF phase \in Outside THEN 0 ELSE gen

MapAt == heap[root].args[1]
TableAt == heap[MapAt].args[1]

PendingHere(f) ==
  \/ f \in Range(scan)
  \/ phase = "scanRoots" /\ f[1] \in Range(intgenSet)
  \/ phase = "intgen" /\ f[1] \in Range(todo)
  \/ phase = "entry" /\ (f[1] \in Range(Tail(todo)) \/ f \in Range(slots))
  \/ phase \in BeforeDicts /\ f[1][1] = StartupMap
  \/ phase = "dicts" /\ todo # <<>> /\ f[1][1] = StartupMap
  \/ phase = "dicts" /\ todo = <<>> /\ f[1] = TableAt
  \/ phase = "entries" /\ f[1] = TableAt /\ <<MapAt, f[2]>> \in Range(slots)
PendingFields == {f \in FieldRef : PendingHere(f)}

(* The entries of intgenSet that the loop has yet to visit are in todo.    *)
ToVisit == IF phase \in {"intgen", "entry"} THEN todo ELSE <<>>
RememberedBlocks == Range(intgenSet) \cup Range(ToVisit)

HeapInv ==
  Sound(heap, Bound, PendingFields, RememberedBlocks) /\ RootOK(heap, Bound, root)

PhaseOK ==
  /\ MapsAreRooted
  /\ phase \in Phases
  /\ IF phase = "mutator" THEN gen = Youngest ELSE gen \in 1..ToSpace
  /\ phase \in Outside => \A a \in Addr : ~AlreadyMoved(heap, a)
  /\ phase \notin {"intgen", "entry", "dicts"} => todo = <<>>

ScanOK ==
  /\ scan \in Seq(FieldRef) /\ IsInjective(scan)
  /\ phase \in Outside \cup {"dicts"} => scan = <<>>
  /\ \A f \in Range(scan) :
       /\ Stays(heap, gen, f[1]) /\ heap[f[1]].space = gen /\ f[1][1] # StartupMap
       /\ f[2] \in DOMAIN heap[f[1]].args /\ heap[f[1]].args[f[2]] \in Word
       /\ gen = ToSpace \/ phase \in {"entries", "scanFinal"} => f[1][1] \notin Table

IntgenOK ==
  /\ intgenSet \in Seq(Addr) /\ IsInjective(intgenSet)
  /\ ToVisit \in Seq(Addr) /\ IsInjective(ToVisit) /\ Range(intgenSet) \cap Range(ToVisit) = {}
  /\ phase # "scanRoots" => \A a \in Range(intgenSet) : Stays(heap, Bound, a)
  /\ phase \in BeforeOld =>
       /\ \A a \in Addr : AlreadyMoved(heap, a) => heap[a].fwd \notin RememberedBlocks
       /\ gen = ToSpace => \A a \in RememberedBlocks : ~Stays(heap, gen, a)
  /\ phase = "entry" =>
       /\ todo # <<>> /\ Stays(heap, gen, Head(todo))
       /\ slots \in Seq(FieldRef)
       /\ \A f \in Range(slots) :
            /\ f[1] = Head(todo) /\ f[2] \in DOMAIN heap[f[1]].args
            /\ heap[f[1]].args[f[2]] \in Word

(* The startup map, where it was and where it is.                          *)
WasMap(d) ==
  /\ d \in Addr /\ Alloc(heap, d) /\ (d = MapAt \/ heap[d].fwd = MapAt)
  /\ gen = ToSpace => ~Stays(heap, gen, d)

ValueOK(h, g, w) ==
  w \in Word /\ (w \in Addr => Stays(h, g, w) /\ w[1] \notin Table \cup {RootObj})

MapOK ==
  /\ wkDictSet \in Seq(Addr)
  /\ StartupMap = None =>
       wkDictSet = <<>> /\ finSet = <<>> /\ phase \notin {"dicts", "entries", "scanFinal"}
  /\ StartupMap # None =>
       /\ phase \in Outside \cup {"entries", "scanFinal"} => wkDictSet = <<MapAt>>
       /\ phase \in BeforeDicts => \E d \in Addr : wkDictSet = <<d>> /\ WasMap(d)
       /\ phase = "dicts" =>
            \/ wkDictSet = <<>> /\ slots = <<>> /\ \E d \in Addr : todo = <<d>> /\ WasMap(d)
            \/ wkDictSet = <<MapAt>> /\ slots = <<MapAt>> /\ todo = <<>>
       /\ phase \in {"dicts", "entries", "scanFinal"} => Stays(heap, gen, MapAt)
  /\ gen = ToSpace /\ (phase \in BeforeDicts \/ (phase = "dicts" /\ todo # <<>>)) =>
       \A a \in Addr : Stays(heap, gen, a) => a[1] \notin Table

FinEntry == [value : Word, map : Object]

FinalOK ==
  /\ finSet \in Seq(FinEntry)
  /\ phase = "finalize" => slots \in Seq(FinEntry)
  /\ phase \in {"dicts", "entries", "scanFinal"} =>
       \A n \in DOMAIN finSet : ValueOK(heap, gen, finSet[n].value)
  /\ phase = "entries" =>
       /\ slots \in Seq(FieldRef) /\ IsInjective(slots)
       /\ \A f \in Range(slots) :
            f[1] = MapAt /\ f[2] \in Keys /\ Entries(heap, MapAt)[f[2]] \in Word
  /\ phase = "finalize" => \A n \in DOMAIN slots : ValueOK(heap, 0, slots[n].value)
  /\ phase \notin {"entry", "dicts", "entries", "finalize"} => slots = <<>>

IInv == PhaseOK /\ HeapInv /\ ScanOK /\ IntgenOK /\ MapOK /\ FinalOK

-----------------------------------------------------------------------------
(***************************************************************************)
(* The invariant holds at the start.                                       *)
(***************************************************************************)

(* What is known of the startup map and its table.                         *)
LEMMA StartupIs ==
  /\ RootObj \notin Obj /\ RootObj \notin Table /\ RootObj \in Object
  /\ None \notin Object /\ Integer \notin Addr /\ Empty \notin Addr /\ Integer # Empty
  /\ \/ StartupMap \in Obj /\ StartupMap \notin Table /\ StartupMap # RootObj /\ StartupMap # None
        /\ StartupTable \in Table
     \/ StartupMap = None /\ StartupTable = None
  /\ None \notin 0..3
  BY FiniteAddr, StoreAssumption DEF StoreAssumption, Object, Youngest, ToSpace

(* The first heap: the root block and perhaps the map that is rooted.       *)
LEMMA InitHeap ==
  ASSUME Init
  PROVE  /\ Sound(heap, 0, {}, {}) /\ RootOK(heap, 0, root)
         /\ \A a \in Addr : ~AlreadyMoved(heap, a)
         /\ StartupMap # None => MapAt = <<StartupMap, 0>>
<1> DEFINE m == <<StartupMap, 0>>
           t == <<StartupTable, 0>>
           fields == [i \in 1..RootArity |-> IF StartupMap # None /\ i = 1 THEN m ELSE Integer]
           b1 == Fresh("BLOCK", fields)
           b2 == Fresh("WEAK_MAP", <<t>>)
           b3 == Fresh("TABLE", Fill(KeyCount, Empty))
<1>1. /\ root = <<RootObj, 0>>
      /\ heap = [a \in Addr |->
                  IF a = root THEN b1
                  ELSE IF a = m THEN b2
                  ELSE IF a = t /\ StartupMap # None THEN b3
                  ELSE Free]
  BY DEF Init
<1>2. root \in Addr /\ root[1] = RootObj /\ 0 \in Copies
  BY <1>1, StartupIs DEF Addr, Copies
<1>3. CASE StartupMap # None
  <2>1. /\ m \in Addr /\ t \in Addr /\ m[1] = StartupMap /\ t[1] = StartupTable
        /\ StartupTable \in Table /\ m # root /\ t # root /\ m # t
    BY <1>1, <1>2, <1>3, StartupIs, StoreAssumption DEF Addr, Object, StoreAssumption
  <2>2. /\ fields \in Seq(Field) /\ Len(fields) = RootArity /\ DOMAIN fields = 1..RootArity
        /\ 1 \in 1..RootArity /\ fields[1] = m /\ \A i \in 1..RootArity : fields[i] \in {m, Integer}
    <3>1. RootArity \in Nat /\ 1 \in 1..RootArity
      BY StoreAssumption DEF StoreAssumption
    <3> HIDE DEF m
    <3>2. \A i \in 1..RootArity : fields[i] \in Field
      BY <2>1 DEF Field, Word
    <3> QED
      BY <1>3, <3>1, <3>2
  <2>3. /\ b1 \in Blocks /\ b1.space = 0 /\ b1.label = "BLOCK" /\ b1.args = fields
        /\ b1.childish = FALSE /\ b1.fwd = None
    <3> HIDE DEF fields
    <3> QED
      BY <2>2 DEF Fresh, Blocks, BlockLabels, Youngest, ToSpace
  <2>4. /\ b2 \in Blocks /\ b2.space = 0 /\ b2.label = "WEAK_MAP" /\ b2.args = <<t>>
        /\ b2.childish = FALSE /\ b2.fwd = None
    <3> HIDE DEF t
    <3>1. <<t>> \in Seq(Field)
      BY <2>1 DEF Field, Word
    <3> QED
      BY <3>1 DEF Fresh, Blocks, BlockLabels, Youngest, ToSpace
  <2>5. /\ Fill(KeyCount, Empty) \in Seq(Field) /\ Len(Fill(KeyCount, Empty)) = KeyCount
        /\ DOMAIN Fill(KeyCount, Empty) = 1..KeyCount
        /\ \A i \in 1..KeyCount : Fill(KeyCount, Empty)[i] = Empty
    <3>1. KeyCount \in Nat
      BY StoreAssumption DEF StoreAssumption
    <3> QED
      BY <3>1 DEF Fill, Field
  <2>6. /\ b3 \in Blocks /\ b3.space = 0 /\ b3.label = "TABLE" /\ b3.args = Fill(KeyCount, Empty)
        /\ b3.childish = FALSE /\ b3.fwd = None
    BY <2>5 DEF Fresh, Blocks, BlockLabels, Youngest, ToSpace
  <2>7. Free \in Blocks /\ Free.space = None /\ Free.fwd = None /\ 0 # None
    BY StartupIs DEF Free, Blocks, BlockLabels
  <2> HIDE DEF b1, b2, b3, m, t, fields
  <2>8. /\ heap[root] = b1 /\ heap[m] = b2 /\ heap[t] = b3
        /\ \A a \in Addr : a # root /\ a # m /\ a # t => heap[a] = Free
    BY <1>1, <1>2, <1>3, <2>1
  <2>9. heap \in [Addr -> Blocks]
    BY <1>1, <2>3, <2>4, <2>6, <2>7
  <2>10. \A a \in Addr : Alloc(heap, a) <=> a \in {root, m, t}
    BY <2>3, <2>4, <2>6, <2>7, <2>8 DEF Alloc
  <2>11. \A a \in Addr : ~AlreadyMoved(heap, a)
    BY <2>3, <2>4, <2>6, <2>7, <2>8 DEF AlreadyMoved
  <2>12. \A a \in Addr : Live(heap, a) <=> a \in {root, m, t}
    BY <2>10, <2>11 DEF Live
  <2>13. \A a \in Addr : Stays(heap, 0, a) <=> a \in {root, m, t}
    BY <2>3, <2>4, <2>6, <2>8, <2>12 DEF Stays
  <2>14. HeapType(heap, 0)
    <3>1. \A a \in {root, m, t} : heap[a].space # ToSpace
      BY <2>3, <2>4, <2>6, <2>8 DEF ToSpace
    <3> QED
      BY <2>3, <2>4, <2>6, <2>8, <2>9, <2>10, <3>1 DEF HeapType
  <2>15. Linked(heap)
    <3>1. Shape(root, b1) /\ \A i \in DOMAIN b1.args : LinkOK(heap, root, b1.args[i])
      <4>1. Shape(root, b1)
        BY <1>2, <2>2, <2>3, StartupIs DEF Shape
      <4>2. LinkOK(heap, root, m)
        BY <1>2, <1>3, <2>1, <2>10, StartupIs, FiniteAddr DEF LinkOK
      <4>3. LinkOK(heap, root, Integer)
        BY <1>2, <1>3, StartupIs DEF LinkOK
      <4> QED
        BY <2>2, <2>3, <4>1, <4>2, <4>3
    <3>2. Shape(m, b2) /\ \A i \in DOMAIN b2.args : LinkOK(heap, m, b2.args[i])
      <4>1. Shape(m, b2)
        BY <1>3, <2>1, <2>4, StartupIs DEF Shape
      <4>2. LinkOK(heap, m, t)
        BY <1>3, <2>1, <2>10, StartupIs DEF LinkOK
      <4>3. DOMAIN b2.args = {1} /\ b2.args[1] = t
        BY <2>4
      <4> QED
        BY <4>1, <4>2, <4>3
    <3>3. Shape(t, b3) /\ \A i \in DOMAIN b3.args : LinkOK(heap, t, b3.args[i])
      <4>1. Shape(t, b3)
        BY <2>1, <2>5, <2>6 DEF Shape
      <4>2. LinkOK(heap, t, Empty)
        BY <1>3, <2>1, StartupIs DEF LinkOK
      <4> QED
        BY <2>5, <2>6, <4>1, <4>2
    <3> QED
      BY <2>8, <2>12, <3>1, <3>2, <3>3 DEF Linked
  <2>16. CopiesOK(heap)
    BY <1>2, <1>3, <2>1, <2>10, StartupIs DEF CopiesOK
  <2>17. HeapOK(heap, 0)
    BY <2>11, <2>14, <2>15, <2>16 DEF HeapOK, ForwardsOK, NotAhead, ToSpace
  <2>18. \A a \in {root, m, t} : \A i \in DOMAIN heap[a].args :
           heap[a].args[i] \in Addr => heap[a].args[i] \in {m, t}
    <3>1. \A i \in DOMAIN b1.args : b1.args[i] \in Addr => b1.args[i] = m
      BY <2>2, <2>3, StartupIs
    <3>2. \A i \in DOMAIN b2.args : b2.args[i] = t
      BY <2>4
    <3>3. \A i \in DOMAIN b3.args : b3.args[i] \notin Addr
      BY <2>5, <2>6, StartupIs
    <3> QED
      BY <2>8, <3>1, <3>2, <3>3
  <2>19. AllPending(heap, 0, {})
    BY <2>1, <2>13, <2>18 DEF AllPending
  <2>20. RememberedOK(heap, 0, {})
    <3>1. \A a \in {root, m, t} : heap[a].space = 0 /\ heap[a].childish = FALSE
      BY <2>3, <2>4, <2>6, <2>8
    <3> QED
      BY <2>13, <3>1 DEF RememberedOK
  <2>21. RootOK(heap, 0, root)
    BY <1>2, <2>1, <2>2, <2>3, <2>8, <2>13 DEF RootOK
  <2>22. MapAt = m
    BY <2>2, <2>3, <2>8 DEF MapAt
  <2> QED
    BY <2>11, <2>17, <2>19, <2>20, <2>21, <2>22 DEF Sound, NoneVisited, m
<1>4. CASE StartupMap = None
  <2>1. m \notin Addr
    BY <1>4, StartupIs DEF Addr
  <2>2. /\ fields \in Seq(Field) /\ Len(fields) = RootArity /\ DOMAIN fields = 1..RootArity
        /\ \A i \in 1..RootArity : fields[i] = Integer
    <3>1. RootArity \in Nat
      BY StoreAssumption DEF StoreAssumption
    <3> QED
      BY <1>4, <3>1 DEF Field, Word
  <2>3. /\ b1 \in Blocks /\ b1.space = 0 /\ b1.label = "BLOCK" /\ b1.args = fields
        /\ b1.childish = FALSE /\ b1.fwd = None
    <3> HIDE DEF fields
    <3> QED
      BY <2>2 DEF Fresh, Blocks, BlockLabels, Youngest, ToSpace
  <2>7. Free \in Blocks /\ Free.space = None /\ Free.fwd = None /\ 0 # None
    BY StartupIs DEF Free, Blocks, BlockLabels
  <2> HIDE DEF b1, b2, b3, m, t, fields
  <2>8. heap[root] = b1 /\ \A a \in Addr : a # root => heap[a] = Free
    BY <1>1, <1>2, <1>4, <2>1
  <2>9. heap \in [Addr -> Blocks]
    <3>1. heap = [a \in Addr |-> IF a = root THEN b1 ELSE Free]
      BY <1>1, <1>4, <2>1
    <3> QED
      BY <2>3, <2>7, <3>1
  <2>10. \A a \in Addr : Alloc(heap, a) <=> a = root
    BY <2>3, <2>7, <2>8 DEF Alloc
  <2>11. \A a \in Addr : ~AlreadyMoved(heap, a)
    BY <2>3, <2>7, <2>8 DEF AlreadyMoved
  <2>12. \A a \in Addr : Live(heap, a) <=> a = root
    BY <2>10, <2>11 DEF Live
  <2>13. \A a \in Addr : Stays(heap, 0, a) <=> a = root
    BY <2>3, <2>8, <2>12 DEF Stays
  <2>14. HeapType(heap, 0)
    BY <2>3, <2>8, <2>9, <2>10 DEF HeapType, ToSpace
  <2>15. Linked(heap)
    <3>1. Shape(root, b1)
      BY <1>2, <2>2, <2>3, StartupIs DEF Shape
    <3>2. LinkOK(heap, root, Integer)
      BY <1>2, <1>4, StartupIs DEF LinkOK
    <3> QED
      BY <2>2, <2>3, <2>8, <2>12, <3>1, <3>2 DEF Linked
  <2>16. CopiesOK(heap)
    BY <2>10 DEF CopiesOK
  <2>17. HeapOK(heap, 0)
    BY <2>11, <2>14, <2>15, <2>16 DEF HeapOK, ForwardsOK, NotAhead, ToSpace
  <2>18. \A i \in DOMAIN heap[root].args : heap[root].args[i] \notin Addr
    BY <2>2, <2>3, <2>8, StartupIs
  <2>19. AllPending(heap, 0, {})
    BY <2>13, <2>18 DEF AllPending
  <2>20. RememberedOK(heap, 0, {})
    BY <2>3, <2>8, <2>13, <2>18 DEF RememberedOK
  <2>21. RootOK(heap, 0, root)
    BY <1>2, <1>4, <2>13 DEF RootOK
  <2> QED
    BY <1>4, <2>11, <2>17, <2>19, <2>20, <2>21 DEF Sound, NoneVisited
<1> QED
  BY <1>3, <1>4

(* Between two collections nothing is pending.                             *)
LEMMA NothingPending ==
  ASSUME phase \in Outside, scan = <<>>
  PROVE  Bound = 0 /\ PendingFields = {} /\ RememberedBlocks = Range(intgenSet)
<1>1. Range(scan) = {} /\ Range(<<>>) = {}
  BY DEF Range
<1>2. \A f : ~PendingHere(f)
  BY <1>1 DEF PendingHere, Outside, BeforeDicts, BeforeOld
<1> QED
  BY <1>1, <1>2 DEF Bound, PendingFields, RememberedBlocks, ToVisit, Outside

(* The invariant holds initially.                                           *)
LEMMA InvInit ==
  ASSUME Init, MapsAreRooted
  PROVE  IInv
<1>1. /\ phase = "mutator" /\ gen = 0 /\ scan = <<>> /\ todo = <<>> /\ slots = <<>>
      /\ intgenSet = <<>> /\ finSet = <<>>
      /\ wkDictSet = IF StartupMap = None THEN <<>> ELSE <<<<StartupMap, 0>>>>
  BY DEF Init, Youngest
<1>2. /\ Sound(heap, 0, {}, {}) /\ RootOK(heap, 0, root) /\ \A a \in Addr : ~AlreadyMoved(heap, a)
      /\ StartupMap # None => MapAt = <<StartupMap, 0>>
  BY InitHeap
<1>3. Range(<<>>) = {} /\ IsInjective(<<>>)
  BY DEF Range, IsInjective
<1>4. phase \in Outside /\ phase \notin BeforeDicts /\ phase \notin BeforeOld /\ phase \in Phases
  BY <1>1 DEF Outside, BeforeDicts, BeforeOld, Phases
<1>5. PhaseOK
  BY <1>1, <1>2, <1>4 DEF PhaseOK, Youngest
<1>6. HeapInv
  <2>1. Bound = 0 /\ PendingFields = {} /\ RememberedBlocks = {}
    BY <1>1, <1>3, <1>4, NothingPending
  <2> QED
    BY <1>2, <2>1 DEF HeapInv
<1>7. ScanOK
  BY <1>1, <1>3 DEF ScanOK
<1>8. IntgenOK
  BY <1>1, <1>3, <1>4 DEF IntgenOK, ToVisit
<1>9. MapOK
  <2>1. StartupMap # None => wkDictSet = <<MapAt>> /\ <<StartupMap, 0>> \in Addr
    BY <1>1, <1>2, StartupIs DEF Addr, Object, Copies
  <2>2. wkDictSet \in Seq(Addr)
    BY <1>1, <1>2, <2>1
  <2> QED
    BY <1>1, <1>4, <2>1, <2>2 DEF MapOK
<1>10. FinalOK
  BY <1>1 DEF FinalOK
<1> QED
  BY <1>5, <1>6, <1>7, <1>8, <1>9, <1>10 DEF IInv

-----------------------------------------------------------------------------
(***************************************************************************)
(* The steps of the program, and of the finalizers.                        *)
(***************************************************************************)

(* What the invariant comes to between two collections.                    *)
OutsideInv ==
  /\ MapsAreRooted
  /\ phase \in Outside
  /\ IF phase = "mutator" THEN gen = Youngest /\ slots = <<>> ELSE gen \in 1..ToSpace
  /\ scan = <<>> /\ todo = <<>>
  /\ Sound(heap, 0, {}, Range(intgenSet)) /\ RootOK(heap, 0, root)
  /\ \A a \in Addr : ~AlreadyMoved(heap, a)
  /\ intgenSet \in Seq(Addr) /\ IsInjective(intgenSet)
  /\ \A a \in Range(intgenSet) : Stays(heap, 0, a)
  /\ IF StartupMap = None THEN wkDictSet = <<>> /\ finSet = <<>>
     ELSE wkDictSet = <<MapAt>> /\ MapAt \in Addr
  /\ finSet \in Seq(FinEntry) /\ slots \in Seq(FinEntry)
  /\ phase = "finalize" => \A n \in DOMAIN slots : ValueOK(heap, 0, slots[n].value)

(* Outside collections the invariant is a simpler one.                      *)
LEMMA OutsideIs == IInv /\ phase \in Outside <=> OutsideInv
<1>1. /\ Range(<<>>) = {} /\ IsInjective(<<>>) /\ <<>> \in Seq(Addr)
      /\ <<>> \in Seq(FieldRef) /\ <<>> \in Seq(FinEntry)
  BY DEF Range, IsInjective
<1>2. ASSUME phase \in Outside
      PROVE  /\ phase \notin {"scanRoots", "intgen", "entry", "scanOld", "dicts", "entries", "scanFinal"}
             /\ phase \notin BeforeDicts /\ phase \notin BeforeOld /\ phase \in Phases
             /\ phase = "mutator" \/ phase = "finalize"
  BY <1>2 DEF Outside, BeforeDicts, BeforeOld, Phases
<1>3. ASSUME IInv, phase \in Outside
      PROVE  OutsideInv
  <2>1. scan = <<>> /\ todo = <<>> /\ MapsAreRooted
    BY <1>2, <1>3 DEF IInv, ScanOK, PhaseOK
  <2>2. Bound = 0 /\ PendingFields = {} /\ RememberedBlocks = Range(intgenSet)
    BY <1>3, <2>1, NothingPending
  <2>3. Sound(heap, 0, {}, Range(intgenSet)) /\ RootOK(heap, 0, root)
    BY <1>3, <2>2 DEF IInv, HeapInv
  <2>4. /\ IF phase = "mutator" THEN gen = Youngest /\ slots = <<>> ELSE gen \in 1..ToSpace
        /\ \A a \in Addr : ~AlreadyMoved(heap, a)
    BY <1>2, <1>3 DEF IInv, PhaseOK, FinalOK
  <2>5. /\ intgenSet \in Seq(Addr) /\ IsInjective(intgenSet)
        /\ \A a \in Range(intgenSet) : Stays(heap, 0, a)
    BY <1>2, <1>3, <2>2 DEF IInv, IntgenOK
  <2>6. IF StartupMap = None THEN wkDictSet = <<>> /\ finSet = <<>>
        ELSE wkDictSet = <<MapAt>> /\ MapAt \in Addr
    BY <1>3, <2>3 DEF IInv, MapOK, RootOK, MapAt
  <2>7. /\ finSet \in Seq(FinEntry)
        /\ phase = "finalize" => slots \in Seq(FinEntry)
        /\ phase = "finalize" => \A n \in DOMAIN slots : ValueOK(heap, 0, slots[n].value)
    BY <1>3 DEF IInv, FinalOK
  <2>8. slots \in Seq(FinEntry)
    BY <1>1, <1>2, <1>3, <2>4, <2>7
  <2> QED
    BY <1>3, <2>1, <2>3, <2>4, <2>5, <2>6, <2>7, <2>8 DEF OutsideInv
<1>4. ASSUME OutsideInv
      PROVE  IInv /\ phase \in Outside
  <2>0. phase \in Outside /\ scan = <<>> /\ todo = <<>>
    BY <1>4 DEF OutsideInv
  <2>1. Bound = 0 /\ PendingFields = {} /\ RememberedBlocks = Range(intgenSet)
    BY <2>0, NothingPending
  <2>2. PhaseOK
    BY <1>2, <1>4, <2>0 DEF PhaseOK, OutsideInv
  <2>3. HeapInv
    BY <1>4, <2>1 DEF HeapInv, OutsideInv
  <2>4. ScanOK
    BY <1>1, <2>0 DEF ScanOK
  <2>5. IntgenOK
    BY <1>1, <1>2, <1>4, <2>0, <2>1 DEF IntgenOK, OutsideInv, ToVisit
  <2>6. MapOK
    <3>1. wkDictSet \in Seq(Addr)
      <4>1. wkDictSet = <<>> \/ (wkDictSet = <<MapAt>> /\ MapAt \in Addr)
        BY <1>4 DEF OutsideInv
      <4>2. CASE wkDictSet = <<>>
        BY <4>2
      <4>3. CASE wkDictSet = <<MapAt>> /\ MapAt \in Addr
        BY <4>3
      <4> QED
        BY <4>1, <4>2, <4>3
    <3> QED
      BY <1>2, <1>4, <2>0, <3>1 DEF MapOK, OutsideInv
  <2>7. FinalOK
    BY <1>2, <1>4, <2>0 DEF FinalOK, OutsideInv
  <2> QED
    BY <2>0, <2>2, <2>3, <2>4, <2>5, <2>6, <2>7 DEF IInv
<1> QED
  BY <1>3, <1>4

(* A step that ends outside a collection keeps the invariant if it keeps    *)
(* the simpler one.                                                         *)
LEMMA OutsideNext == OutsideInv' => IInv'
  BY OutsideIs, PTL

(* A heap and a remembered set as they are between two collections; r is    *)
(* the root and m the startup map.                                         *)
Good(h, set, r, m) ==
  /\ Sound(h, 0, {}, Range(set)) /\ RootOK(h, 0, r)
  /\ \A a \in Addr : ~AlreadyMoved(h, a)
  /\ set \in Seq(Addr) /\ IsInjective(set) /\ \A a \in Range(set) : Stays(h, 0, a)
  /\ StartupMap # None => h[r].args[1] = m

(* Store::ReplaceArg by the program.                                        *)
LEMMA GoodWrite ==
  ASSUME NEW h, NEW set, NEW r, NEW m, Good(h, set, r, m),
         NEW a \in Addr, NEW i \in DOMAIN h[a].args, NEW w \in Field,
         Stays(h, 0, a), LinkOK(h, a, w), w \in Addr => Stays(h, 0, w),
         StartupMap # None => a # r \/ i # 1
  PROVE  /\ Good(WriteHeap(h, a, i, w), WriteSet(set, h, a, w), r, m)
         /\ \E c : Stored(h, WriteHeap(h, a, i, w), a, i, w, c)
<1> DEFINE k == WriteHeap(h, a, i, w)
           set2 == WriteSet(set, h, a, w)
<1>1. /\ Sound(h, 0, {}, Range(set)) /\ RootOK(h, 0, r) /\ set \in Seq(Addr) /\ IsInjective(set)
      /\ \A b \in Range(set) : Stays(h, 0, b)
      /\ \A b \in Addr : ~AlreadyMoved(h, b)
      /\ StartupMap # None => h[r].args[1] = m
  BY DEF Good
<1>2. 0 \in 0..ToSpace /\ Visited(0, {}, {}, <<a, i>>)
  BY DEF ToSpace, Visited
<1>3. /\ Sound(k, 0, {}, Range(set2)) /\ SetWritten(set, set2, a)
      /\ \E c : Stored(h, k, a, i, w, c)
  <2> HIDE DEF k, set2
  <2>1. /\ Sound(WriteHeap(h, a, i, w), 0, {}, Range(WriteSet(set, h, a, w)))
        /\ SetWritten(set, WriteSet(set, h, a, w), a)
        /\ \E c : Stored(h, WriteHeap(h, a, i, w), a, i, w, c)
    BY <1>1, <1>2, WriteSound
  <2> QED
    BY <2>1 DEF k, set2
<1> HIDE DEF k, set2
<1>4. ButOneField(h, k, 0, a, i)
  BY <1>3, StoredKeeps
<1>5. set2 \in Seq(Addr) /\ IsInjective(set2) /\ \A b \in Range(set2) : Stays(k, 0, b)
  <2>1. set2 \in Seq(Addr) /\ IsInjective(set2) /\ (set2 = set \/ set2 = Append(set, a))
    BY <1>3 DEF SetWritten
  <2>2. Range(Append(set, a)) = Range(set) \cup {a}
    BY <1>1, AppendRange
  <2>3. Range(set2) \subseteq Range(set) \cup {a}
    BY <2>1, <2>2
  <2>4. Range(set) \subseteq Addr
    BY <1>1 DEF Range
  <2> QED
    BY <1>1, <1>4, <2>1, <2>3, <2>4 DEF ButOneField
<1>6. \A b \in Addr : ~AlreadyMoved(k, b)
  BY <1>1, <1>4 DEF ButOneField
<1>7. RootOK(k, 0, r) /\ (StartupMap # None => k[r].args[1] = m)
  <2>1. r \in Addr /\ r[1] = RootObj /\ Stays(k, 0, r)
    BY <1>1, <1>4 DEF RootOK, ButOneField
  <2>2. ASSUME StartupMap # None
        PROVE  k[r].args[1] = h[r].args[1]
    <3>1. CASE a # r
      BY <1>4, <2>1, <3>1 DEF ButOneField
    <3>2. CASE a = r /\ i # 1
      <4>1. 1 \in DOMAIN h[r].args
        <5>1. Live(h, r)
          BY <1>1 DEF RootOK, Stays
        <5>2. Len(h[r].args) = RootArity /\ h[r].args \in Seq(Field)
          BY <1>1, <2>1, <5>1, StartupIs DEF Sound, HeapOK, Linked, Shape, HeapType, Blocks
        <5> QED
          BY <5>2, StoreAssumption DEF StoreAssumption
      <4> QED
        BY <1>4, <2>1, <3>2, <4>1 DEF ButOneField
    <3> QED
      BY <2>2, <3>1, <3>2
  <2> QED
    BY <1>1, <2>1, <2>2 DEF RootOK
<1>8. Good(k, set2, r, m)
  BY <1>3, <1>5, <1>6, <1>7 DEF Good
<1> QED
  BY <1>3, <1>8 DEF k, set2

(* k has a block at b, besides those of h.                                 *)
Grown(h, k, b) ==
  /\ \A c \in Addr : Stays(k, 0, c) <=> c = b \/ Stays(h, 0, c)
  /\ \A c \in Addr : Stays(h, 0, c) => k[c] = h[c] /\ c # b

(* Store::AllocBlock by the program.                                        *)
LEMMA GoodAdd ==
  ASSUME NEW h, NEW k, NEW set, NEW r, NEW m, Good(h, set, r, m), NEW b, Added(h, k, b)
  PROVE  Good(k, set, r, m) /\ Grown(h, k, b)
<1>1. Sound(h, 0, {}, Range(set)) /\ RootOK(h, 0, r)
  BY DEF Good
<1>2. /\ Sound(k, 0, {}, Range(set))
      /\ \A c \in Addr : Stays(k, 0, c) <=> c = b \/ Stays(h, 0, c)
      /\ \A c \in Addr : Stays(h, 0, c) => k[c] = h[c] /\ c # b
      /\ \A c \in Addr : AlreadyMoved(k, c) <=> AlreadyMoved(h, c)
  BY <1>1, AddSound
<1>3. RootOK(k, 0, r) /\ k[r] = h[r]
  BY <1>1, <1>2 DEF RootOK
<1>4. Range(set) \subseteq Addr
  BY <1>1 DEF Sound, RememberedOK
<1> QED
  BY <1>2, <1>3, <1>4 DEF Good, Grown

(* What the operations of the program rely on.                              *)
LEMMA OutsideGood ==
  ASSUME OutsideInv
  PROVE  Good(heap, intgenSet, root, MapAt)
  BY DEF OutsideInv, Good, MapAt

(* What the operations of the program have to keep.                         *)
LEMMA GoodOutside ==
  ASSUME OutsideInv, Good(heap', intgenSet', root, MapAt),
         UNCHANGED <<root, wkDictSet, finSet, gen, scan, todo, phase>>,
         slots' = slots \/ (phase = "finalize" /\ slots # <<>> /\ slots' = Front(slots)),
         \A a \in Addr : Stays(heap, 0, a) => Stays(heap', 0, a)
  PROVE  OutsideInv'
<1>1. /\ Sound(heap', 0, {}, Range(intgenSet')) /\ RootOK(heap', 0, root)
      /\ \A a \in Addr : ~AlreadyMoved(heap', a)
      /\ intgenSet' \in Seq(Addr) /\ IsInjective(intgenSet')
      /\ \A a \in Range(intgenSet') : Stays(heap', 0, a)
      /\ StartupMap # None => heap'[root].args[1] = MapAt
  BY DEF Good
<1>2. IF StartupMap = None THEN wkDictSet' = <<>> /\ finSet' = <<>>
      ELSE wkDictSet' = <<MapAt'>> /\ MapAt' \in Addr
  BY <1>1 DEF OutsideInv, MapAt
<1>0. /\ slots' \in Seq(FinEntry)
      /\ \A n \in DOMAIN slots' : \E j \in DOMAIN slots : slots'[n] = slots[j]
  <2>1. slots \in Seq(FinEntry)
    BY DEF OutsideInv
  <2>2. CASE slots' = slots
    BY <2>1, <2>2
  <2>3. CASE slots # <<>> /\ slots' = Front(slots)
    BY <2>1, <2>3 DEF Front
  <2> QED
    BY <2>2, <2>3
<1>3. ASSUME phase' = "finalize", NEW n \in DOMAIN slots'
      PROVE  ValueOK(heap', 0, slots'[n].value)
  <2>1. PICK j \in DOMAIN slots : slots'[n] = slots[j]
    BY <1>0
  <2>2. ValueOK(heap, 0, slots[j].value)
    BY <1>3 DEF OutsideInv
  <2> QED
    BY <2>1, <2>2 DEF ValueOK
<1>4. IF phase' = "mutator" THEN gen' = Youngest /\ slots' = <<>> ELSE gen' \in 1..ToSpace
  BY DEF OutsideInv
<1>5. /\ MapsAreRooted' /\ phase' \in Outside /\ scan' = <<>> /\ todo' = <<>>
      /\ RootOK(heap', 0, root') /\ finSet' \in Seq(FinEntry)
  BY <1>1 DEF OutsideInv, MapsAreRooted
<1> QED
  BY <1>0, <1>1, <1>2, <1>3, <1>4, <1>5 DEF OutsideInv

(* What the program can have in its hands is alive, and no table.          *)
LEMMA VisibleIs ==
  ASSUME OutsideInv
  PROVE  \A a \in Visible : a \in Addr /\ Stays(heap, 0, a) /\ a[1] \notin Table
<1> DEFINE C == {a \in Addr : Stays(heap, 0, a) /\ a[1] \notin Table}
<1>1. Good(heap, intgenSet, root, MapAt)
  BY OutsideGood
<1>2. /\ HeapOK(heap, 0) /\ AllPending(heap, 0, {}) /\ RootOK(heap, 0, root)
      /\ \A a \in Addr : ~AlreadyMoved(heap, a)
  BY <1>1 DEF Good, Sound
<1>3. HeapType(heap, 0) /\ Linked(heap)
  BY <1>2 DEF HeapOK
<1>4. ASSUME NEW a \in Addr, Alloc(heap, a)
      PROVE  Stays(heap, 0, a)
  BY <1>2, <1>3, <1>4 DEF Stays, Live, HeapType, Blocks, Alloc, ToSpace
<1>5. ASSUME NEW a \in C
      PROVE  Edges(heap, a) \subseteq C
  <2>1. a \in Addr /\ Live(heap, a) /\ a[1] \notin Table
    BY DEF Stays
  <2> DEFINE args == IF heap[a].label = "WEAK_MAP" THEN Entries(heap, a) ELSE heap[a].args
  <2>2. \E b \in Addr : Live(heap, b) /\ b[1] # StartupMap /\ args = heap[b].args
    <3>1. Shape(a, heap[a]) /\ \A i \in DOMAIN heap[a].args : LinkOK(heap, a, heap[a].args[i])
      BY <1>3, <2>1 DEF Linked
    <3>2. CASE heap[a].label = "WEAK_MAP"
      <4>1. a[1] = StartupMap /\ Len(heap[a].args) = 1
        BY <2>1, <3>1, <3>2, StartupIs DEF Shape
      <4>2. 1 \in DOMAIN heap[a].args
        BY <1>3, <2>1, <4>1 DEF HeapType, Blocks
      <4>3. LinkOK(heap, a, heap[a].args[1])
        BY <3>1, <4>2
      <4>4. heap[a].args[1] \in Addr /\ Alloc(heap, heap[a].args[1]) /\ heap[a].args[1][1] \in Table
        BY <4>1, <4>3 DEF LinkOK
      <4>5. Live(heap, heap[a].args[1])
        BY <1>4, <4>4 DEF Stays
      <4>6. heap[a].args[1][1] # StartupMap
        BY <2>1, <4>1, <4>4
      <4> QED
        BY <3>2, <4>4, <4>5, <4>6 DEF Entries, TableOf
    <3>3. CASE heap[a].label # "WEAK_MAP"
      <4>1. a[1] # StartupMap
        <5>1. CASE a[1] = RootObj
          BY <5>1, StartupIs
        <5>2. CASE a[1] # RootObj
          BY <2>1, <3>1, <3>3, <5>2 DEF Shape
        <5> QED
          BY <5>1, <5>2
      <4> QED
        BY <2>1, <3>3, <4>1
    <3> QED
      BY <3>2, <3>3
  <2> HIDE DEF args
  <2>3. PICK b \in Addr : Live(heap, b) /\ b[1] # StartupMap /\ args = heap[b].args
    BY <2>2
  <2>4. Edges(heap, a) = {Deref(heap, w) : w \in Range(args) \cap Addr} \cap Addr
    BY DEF Edges, args
  <2>5. ASSUME NEW w \in Range(args) \cap Addr, Deref(heap, w) \in Addr
        PROVE  Deref(heap, w) \in C
    <3>1. PICK i \in DOMAIN heap[b].args : w = heap[b].args[i]
      BY <2>3 DEF Range
    <3>2. LinkOK(heap, b, w)
      BY <1>3, <2>3, <3>1 DEF Linked
    <3>3. Alloc(heap, w) /\ w[1] # RootObj /\ w[1] \notin Table /\ w \in Word
      BY <2>3, <3>2 DEF LinkOK, Word
    <3>4. LeadsTo(heap, 0, w, Deref(heap, w))
      BY <1>2, <3>3, DerefIs
    <3>5. Alloc(heap, Deref(heap, w)) /\ Deref(heap, w)[1] \notin Table
      BY <2>5, <3>3, <3>4 DEF LeadsTo
    <3> QED
      BY <1>4, <2>5, <3>5
  <2> HIDE DEF C
  <2> QED
    BY <2>4, <2>5
<1>6. root \in C
  BY <1>2, StartupIs DEF RootOK
<1>7. Reach(heap, {root}, Edges) \subseteq C
  <2>1. C \in SUBSET Addr /\ {root} \in SUBSET C
    BY <1>6
  <2> HIDE DEF C
  <2> QED
    BY <1>5, <2>1, ReachEdges
<1> QED
  BY <1>7 DEF Visible

(* A value that the program has is an integer or a block that stays.        *)
LEMMA ValuesAre ==
  ASSUME OutsideInv, NEW w \in Values
  PROVE  w \in Word /\ (w \in Addr => Stays(heap, 0, w) /\ w[1] \notin Table \cup {RootObj})
<1>1. CASE w = Integer
  BY <1>1, StartupIs DEF Word
<1>2. CASE w \in Visible \ {root}
  <2>1. w \in Addr /\ Stays(heap, 0, w) /\ w[1] \notin Table
    BY <1>2, VisibleIs
  <2>2. RootOK(heap, 0, root) /\ CopiesOK(heap) /\ \A a \in Addr : ~AlreadyMoved(heap, a)
    BY DEF OutsideInv, Sound, HeapOK
  <2>3. ASSUME w[1] = RootObj
        PROVE  FALSE
    <3>1. Alloc(heap, w) /\ Alloc(heap, root) /\ root \in Addr /\ root[1] = w[1] /\ root # w
      BY <1>2, <2>1, <2>2, <2>3 DEF RootOK, Stays, Live
    <3>2. heap[w].fwd = root \/ heap[root].fwd = w
      BY <2>1, <2>2, <3>1 DEF CopiesOK
    <3> QED
      BY <2>1, <2>2, <3>1, <3>2, FiniteAddr DEF AlreadyMoved
  <2> QED
    BY <2>1, <2>3 DEF Word
<1> QED
  BY <1>1, <1>2 DEF Values

(* A field that the program may write is not one of a table, of the rooted  *)
(* map, or the root's own reference to it.                                  *)
LEMMA WritableIs ==
  ASSUME OutsideInv, NEW a \in Visible, NEW i \in Writable(a)
  PROVE  /\ a \in Addr /\ Stays(heap, 0, a) /\ a[1] \notin Table /\ a[1] # StartupMap
         /\ i \in DOMAIN heap[a].args /\ (StartupMap # None => a # root \/ i # 1)
<1>1. a \in Addr /\ Stays(heap, 0, a) /\ a[1] \notin Table /\ Live(heap, a)
  BY VisibleIs DEF Stays
<1>2. /\ Linked(heap) /\ HeapType(heap, 0) /\ RootOK(heap, 0, root)
      /\ \A b \in Addr : ~AlreadyMoved(heap, b)
  BY DEF OutsideInv, Sound, HeapOK
<1>3. Shape(a, heap[a]) /\ heap[a].args \in Seq(Field)
  BY <1>1, <1>2 DEF Linked, HeapType, Blocks
<1>4. heap[a].label = "BLOCK" /\ IF a = root THEN i \in RootField ELSE i \in DOMAIN heap[a].args
  BY DEF Writable
<1>5. a[1] # StartupMap
  <2>1. CASE a[1] = RootObj
    BY <2>1, StartupIs
  <2>2. CASE a[1] # RootObj
    BY <1>1, <1>3, <1>4, <2>2 DEF Shape
  <2> QED
    BY <2>1, <2>2
<1>6. CASE a = root
  <2>1. a[1] = RootObj /\ DOMAIN heap[a].args = 1..RootArity
    BY <1>1, <1>2, <1>3, <1>6, StartupIs DEF RootOK, Shape
  <2>2. i \in 1..RootArity /\ (StartupMap # None => i # 1)
    BY <1>4, <1>6 DEF RootField
  <2> QED
    BY <1>1, <1>5, <2>1, <2>2
<1>7. CASE a # root
  BY <1>1, <1>4, <1>5, <1>7
<1> QED
  BY <1>6, <1>7

(* The write that ReplaceArg, New and a finalizer end with.                 *)
LEMMA ReplaceGood ==
  ASSUME NEW h, NEW set, Good(h, set, root, MapAt), NEW a \in Addr, Stays(h, 0, a),
         a[1] \notin Table, a[1] # StartupMap, NEW i \in DOMAIN h[a].args,
         StartupMap # None => a # root \/ i # 1,
         NEW w \in Word, w \in Addr => Stays(h, 0, w) /\ w[1] \notin Table \cup {RootObj}
  PROVE  /\ Good(WriteHeap(h, a, i, w), WriteSet(set, h, a, w), root, MapAt)
         /\ \A b \in Addr : Stays(WriteHeap(h, a, i, w), 0, b) <=> Stays(h, 0, b)
<1>1. LinkOK(h, a, w) /\ w \in Field
  BY StartupIs DEF LinkOK, Stays, Live, Word, Field
<1>2. /\ Good(WriteHeap(h, a, i, w), WriteSet(set, h, a, w), root, MapAt)
      /\ \E c : Stored(h, WriteHeap(h, a, i, w), a, i, w, c)
  BY <1>1, GoodWrite
<1>3. ButOneField(h, WriteHeap(h, a, i, w), 0, a, i)
  BY <1>2, StoredKeeps
<1> QED
  BY <1>2, <1>3 DEF ButOneField

(* A block of an object that has none.                                     *)
LEMMA FreshAdded ==
  ASSUME NEW h, NEW set, NEW r, NEW m, Good(h, set, r, m),
         NEW o \in Object, \A c \in Copies : h[<<o, c>>] = Free,
         NEW l \in BlockLabels, NEW args \in Seq(Field), Shape(<<o, 0>>, Fresh(l, args)),
         \A i \in DOMAIN args :
           LinkOK(h, <<o, 0>>, args[i]) /\ (args[i] \in Addr => Stays(h, 0, args[i]))
  PROVE  Added(h, [h EXCEPT ![<<o, 0>>] = Fresh(l, args)], <<o, 0>>)
<1> DEFINE a == <<o, 0>>
           b == Fresh(l, args)
           k == [h EXCEPT ![a] = b]
<1>1. h \in [Addr -> Blocks]
  BY DEF Good, Sound, HeapOK, HeapType
<1>2. a \in Addr
  BY DEF Addr, Copies
<1>3. /\ b \in Blocks /\ b.space = Youngest /\ b.label = l /\ b.args = args
      /\ b.childish = FALSE /\ b.fwd = None
  BY DEF Fresh, Blocks, Youngest, ToSpace
<1>4. \A c \in Addr : Alloc(h, c) => c[1] # a[1]
  <2> SUFFICES ASSUME NEW c \in Addr, Alloc(h, c), c[1] = o
               PROVE  FALSE
    OBVIOUS
  <2>1. PICK n \in Copies : c = <<o, n>>
    BY DEF Addr
  <2>2. h[c] = Free
    BY <2>1
  <2> QED
    BY <2>2 DEF Alloc, Free
<1> HIDE DEF a, b
<1>5. k \in [Addr -> Blocks] /\ k[a] = b /\ \A c \in Addr : c # a => k[c] = h[c]
  BY <1>1, <1>2, <1>3
<1>6. Added(h, k, a)
  <2>1. Shape(a, k[a])
    BY <1>5 DEF a, b
  <2>2. \A i \in DOMAIN k[a].args :
          LinkOK(h, a, k[a].args[i]) /\ (k[a].args[i] \in Addr => Stays(h, 0, k[a].args[i]))
    BY <1>3, <1>5 DEF a
  <2> QED
    BY <1>2, <1>3, <1>4, <1>5, <2>1, <2>2 DEF Added
<1> QED
  BY <1>6 DEF a, b

(* Store::AllocBlock and the constructors of transients keep the invariant, *)
(* with the write that makes the new block reachable.                       *)
LEMMA NewStep ==
  ASSUME OutsideInv, NEW p \in Visible, NEW i \in Writable(p),
         NEW o \in Obj, NEW l \in Labels, New(o, l, p, i)
  PROVE  OutsideInv'
<1> DEFINE a == <<o, 0>>
           n == IF l = "BLOCK" THEN Arity ELSE 1
           args == Fill(n, Integer)
           k == [heap EXCEPT ![a] = Fresh(l, args)]
<1>1. /\ phase = "mutator" /\ \A c \in Copies : heap[<<o, c>>] = Free
      /\ l \in {"BLOCK", "HOLE"}
      /\ heap' = WriteHeap(k, p, i, a) /\ intgenSet' = WriteSet(intgenSet, k, p, a)
      /\ UNCHANGED <<root, wkDictSet, finSet, finSpace, finMax, phase, gen, loops>>
  BY StoreAssumption DEF New, Write, Unused, StoreAssumption
<1>2. Good(heap, intgenSet, root, MapAt)
  BY OutsideGood
<1>3. o \in Object /\ a \in Addr /\ o \notin Table /\ o # RootObj
  BY StartupIs, StoreAssumption DEF Object, Addr, Copies, StoreAssumption
<1>4. o # StartupMap
  <2> SUFFICES ASSUME o = StartupMap
               PROVE  FALSE
    OBVIOUS
  <2>1. StartupMap # None
    BY <1>3, StartupIs
  <2>2. RootOK(heap, 0, root) /\ Linked(heap) /\ HeapType(heap, 0)
    BY <1>2 DEF Good, Sound, HeapOK
  <2>3. MapAt \in Addr /\ MapAt[1] = o
    BY <2>1, <2>2 DEF RootOK, MapAt
  <2>4. 1 \in DOMAIN heap[root].args
    <3>1. root \in Addr /\ Live(heap, root) /\ root[1] = RootObj
      BY <2>2 DEF RootOK, Stays
    <3>2. Len(heap[root].args) = RootArity /\ heap[root].args \in Seq(Field)
      BY <2>2, <3>1, StartupIs DEF Linked, Shape, HeapType, Blocks
    <3> QED
      BY <3>2, StoreAssumption DEF StoreAssumption
  <2>5. Alloc(heap, MapAt)
    BY <2>2, <2>3, <2>4 DEF RootOK, Linked, LinkOK, Stays, MapAt
  <2>6. PICK c \in Copies : MapAt = <<o, c>>
    BY <2>3 DEF Addr
  <2> QED
    BY <1>1, <2>5, <2>6 DEF Alloc, Free
<1>5. n \in Nat /\ args \in Seq(Field) /\ Len(args) = n /\ \A j \in DOMAIN args : args[j] = Integer
  <2>1. n \in Nat
    BY StoreAssumption DEF StoreAssumption
  <2> QED
    BY <2>1 DEF Fill, Field, Word
<1>6. Shape(a, Fresh(l, args))
  BY <1>1, <1>3, <1>4, <1>5 DEF Shape, Fresh
<1>7. \A j \in DOMAIN args :
        LinkOK(heap, a, args[j]) /\ (args[j] \in Addr => Stays(heap, 0, args[j]))
  BY <1>4, <1>5, StartupIs DEF LinkOK
<1>8. Added(heap, k, a)
  <2> HIDE DEF args
  <2>1. l \in BlockLabels
    BY <1>1 DEF BlockLabels
  <2> QED
    BY <1>1, <1>2, <1>3, <1>5, <1>6, <1>7, <2>1, FreshAdded
<1> HIDE DEF k, a
<1>9. Good(k, intgenSet, root, MapAt) /\ Grown(heap, k, a)
  BY <1>2, <1>8, GoodAdd
<1>10. /\ \A c \in Addr : Stays(k, 0, c) <=> c = a \/ Stays(heap, 0, c)
       /\ \A c \in Addr : Stays(heap, 0, c) => k[c] = heap[c] /\ c # a
  BY <1>9 DEF Grown
<1>11. /\ p \in Addr /\ Stays(heap, 0, p) /\ p[1] \notin Table /\ p[1] # StartupMap
       /\ i \in DOMAIN heap[p].args /\ (StartupMap # None => p # root \/ i # 1)
  BY WritableIs
<1>12. /\ Good(heap', intgenSet', root, MapAt)
       /\ \A b \in Addr : Stays(heap', 0, b) <=> Stays(k, 0, b)
  <2>1. Stays(k, 0, p) /\ i \in DOMAIN k[p].args
    BY <1>10, <1>11
  <2>2. a \in Word /\ Stays(k, 0, a) /\ a[1] \notin Table \cup {RootObj}
    BY <1>3, <1>10 DEF Word, a
  <2> QED
    BY <1>1, <1>9, <1>11, <2>1, <2>2, ReplaceGood
<1>13. \A b \in Addr : Stays(heap, 0, b) => Stays(heap', 0, b)
  BY <1>10, <1>12
<1> QED
  BY <1>1, <1>12, <1>13, GoodOutside DEF loops

(* Block::ReplaceArg.                                                      *)
LEMMA ReplaceStep ==
  ASSUME OutsideInv, NEW a \in Visible, NEW i \in Writable(a), NEW w \in Values,
         ReplaceArg(a, i, w)
  PROVE  OutsideInv'
<1>1. /\ heap' = WriteHeap(heap, a, i, w) /\ intgenSet' = WriteSet(intgenSet, heap, a, w)
      /\ UNCHANGED <<root, wkDictSet, finSet, finSpace, finMax, phase, gen, loops>>
  BY DEF ReplaceArg, Write
<1>2. Good(heap, intgenSet, root, MapAt)
  BY OutsideGood
<1>3. /\ a \in Addr /\ Stays(heap, 0, a) /\ a[1] \notin Table /\ a[1] # StartupMap
      /\ i \in DOMAIN heap[a].args /\ (StartupMap # None => a # root \/ i # 1)
  BY WritableIs
<1>4. w \in Word /\ (w \in Addr => Stays(heap, 0, w) /\ w[1] \notin Table \cup {RootObj})
  BY ValuesAre
<1>5. /\ Good(heap', intgenSet', root, MapAt)
      /\ \A b \in Addr : Stays(heap', 0, b) <=> Stays(heap, 0, b)
  BY <1>1, <1>2, <1>3, <1>4, ReplaceGood
<1> QED
  BY <1>1, <1>5, GoodOutside DEF loops

(* Transient::Become: the hole becomes a reference, and its field is         *)
(* written like any other.                                                 *)
LEMMA BecomeStep ==
  ASSUME OutsideInv, NEW a \in Visible, NEW w \in Values, Become(a, w)
  PROVE  OutsideInv'
<1> DEFINE k == [heap EXCEPT ![a].label = "REF"]
<1>1. /\ heap[a].label = "HOLE"
      /\ heap' = WriteHeap(k, a, 1, w) /\ intgenSet' = WriteSet(intgenSet, k, a, w)
      /\ UNCHANGED <<root, wkDictSet, finSet, finSpace, finMax, phase, gen, loops>>
  BY DEF Become, Write
<1>2. Good(heap, intgenSet, root, MapAt)
  BY OutsideGood
<1>3. a \in Addr /\ Stays(heap, 0, a) /\ a[1] \notin Table /\ Live(heap, a)
  BY VisibleIs DEF Stays
<1>4. w \in Word /\ (w \in Addr => Stays(heap, 0, w) /\ w[1] \notin Table \cup {RootObj})
  BY ValuesAre
<1>5. /\ Linked(heap) /\ HeapType(heap, 0) /\ RememberedOK(heap, 0, Range(intgenSet))
      /\ Sound(heap, 0, {}, Range(intgenSet)) /\ RootOK(heap, 0, root)
      /\ \A b \in Addr : ~AlreadyMoved(heap, b)
      /\ intgenSet \in Seq(Addr) /\ IsInjective(intgenSet)
      /\ \A b \in Range(intgenSet) : Stays(heap, 0, b)
      /\ StartupMap # None => heap[root].args[1] = MapAt
  BY <1>2 DEF Good, Sound, HeapOK
<1>6. Shape(a, heap[a]) /\ heap \in [Addr -> Blocks] /\ heap[a] \in Blocks
  BY <1>3, <1>5 DEF Linked, HeapType
<1>7. a[1] # StartupMap /\ a[1] # RootObj /\ Len(heap[a].args) = 1
  BY <1>1, <1>3, <1>6 DEF Shape
<1>8. Retagged(heap, k, a)
  <2> DEFINE b == [heap[a] EXCEPT !.label = "REF"]
  <2>1. /\ b \in Blocks /\ b.space = heap[a].space /\ b.fwd = heap[a].fwd
        /\ b.args = heap[a].args /\ b.label = "REF" /\ b.childish = heap[a].childish
    BY <1>6 DEF Blocks, BlockLabels
  <2>2. k = [heap EXCEPT ![a] = b]
    BY <1>6
  <2> HIDE DEF b, k
  <2>3. k \in [Addr -> Blocks] /\ k[a] = b /\ \A c \in Addr : c # a => k[c] = heap[c]
    BY <1>3, <1>6, <2>1, <2>2
  <2>4. Shape(a, b)
    BY <1>3, <1>7, <2>1 DEF Shape
  <2> QED
    BY <2>1, <2>3, <2>4 DEF Retagged
<1>9. Reflagged(heap, k, 0, a, Range(intgenSet), Range(intgenSet))
  <2>1. k[a].childish = heap[a].childish
    BY <1>3, <1>6 DEF Blocks
  <2> HIDE DEF k
  <2> QED
    BY <1>3, <1>5, <2>1 DEF RememberedOK, Reflagged
<1> HIDE DEF k
<1>10. /\ Sound(k, 0, {}, Range(intgenSet))
       /\ \A b \in Addr : Stays(k, 0, b) <=> Stays(heap, 0, b)
       /\ \A b \in Addr : k[b].args = heap[b].args /\ k[b].space = heap[b].space /\ k[b].fwd = heap[b].fwd
  BY <1>3, <1>5, <1>8, <1>9, RetagSound
<1>11. Good(k, intgenSet, root, MapAt)
  <2>1. RootOK(k, 0, root)
    BY <1>5, <1>10 DEF RootOK
  <2>2. \A b \in Addr : ~AlreadyMoved(k, b)
    BY <1>5, <1>10 DEF AlreadyMoved
  <2>3. Range(intgenSet) \subseteq Addr
    BY <1>5 DEF RememberedOK
  <2>4. StartupMap # None => k[root].args[1] = MapAt
    BY <1>5, <1>10 DEF RootOK
  <2> QED
    BY <1>5, <1>10, <2>1, <2>2, <2>3, <2>4 DEF Good
<1>12. /\ Good(heap', intgenSet', root, MapAt)
       /\ \A b \in Addr : Stays(heap', 0, b) <=> Stays(k, 0, b)
  <2>1. 1 \in DOMAIN k[a].args /\ Stays(k, 0, a)
    BY <1>3, <1>6, <1>7, <1>10 DEF Blocks
  <2>2. StartupMap # None => a # root \/ 1 # 1
    BY <1>5, <1>7 DEF RootOK
  <2>3. w \in Addr => Stays(k, 0, w) /\ w[1] \notin Table \cup {RootObj}
    BY <1>4, <1>10
  <2> QED
    BY <1>1, <1>3, <1>4, <1>7, <1>11, <2>1, <2>2, <2>3, ReplaceGood
<1> QED
  BY <1>1, <1>10, <1>12, GoodOutside DEF loops

(* What is known of a weak map and its table.                              *)
LEMMA MapIs ==
  ASSUME NEW h, NEW set, NEW r, NEW m0, Good(h, set, r, m0),
         NEW m \in Addr, Stays(h, 0, m), h[m].label = "WEAK_MAP"
  PROVE  /\ m[1] = StartupMap /\ StartupMap # None /\ m # r /\ 1 \in DOMAIN h[m].args
         /\ TableOf(h, m) \in Addr /\ TableOf(h, m)[1] \in Table /\ TableOf(h, m) # r
         /\ Stays(h, 0, TableOf(h, m))
         /\ Entries(h, m) \in Seq(Field) /\ Len(Entries(h, m)) = KeyCount
         /\ DOMAIN Entries(h, m) = Keys
<1> DEFINE t == TableOf(h, m)
<1>1. /\ Linked(h) /\ HeapType(h, 0) /\ RootOK(h, 0, r) /\ \A a \in Addr : ~AlreadyMoved(h, a)
  BY DEF Good, Sound, HeapOK
<1>2. Live(h, m) /\ Shape(m, h[m]) /\ h[m].args \in Seq(Field)
  BY <1>1 DEF Stays, Linked, HeapType, Blocks
<1>3. m[1] \notin Table /\ m[1] # RootObj
  BY <1>2 DEF Shape
<1>4. m[1] = StartupMap /\ Len(h[m].args) = 1
  BY <1>2, <1>3 DEF Shape
<1>5. StartupMap # None /\ 1 \in DOMAIN h[m].args /\ m # r
  <2>1. m[1] # None
    BY StartupIs DEF Addr
  <2> QED
    BY <1>1, <1>2, <1>3, <1>4, <2>1 DEF RootOK
<1>6. t \in Addr /\ Alloc(h, t) /\ t[1] \in Table
  BY <1>1, <1>2, <1>4, <1>5 DEF Linked, LinkOK, TableOf
<1> HIDE DEF t
<1>7. t # r /\ Live(h, t) /\ Stays(h, 0, t)
  <2>1. t # r
    BY <1>1, <1>6, StartupIs DEF RootOK
  <2>2. h[t].space \in 0..3
    BY <1>1, <1>6 DEF Alloc, HeapType, Blocks, ToSpace
  <2> QED
    BY <1>1, <1>6, <2>1, <2>2 DEF Stays, Live
<1>8. h[t].args \in Seq(Field) /\ Len(h[t].args) = KeyCount
  BY <1>1, <1>6, <1>7 DEF Linked, Shape, HeapType, Blocks
<1>9. DOMAIN h[t].args = Keys
  BY <1>8 DEF Keys
<1> QED
  BY <1>4, <1>5, <1>6, <1>7, <1>8, <1>9 DEF t, Entries

(* BaseMap::Remove.                                                        *)
LEMMA RemoveStep ==
  ASSUME OutsideInv, NEW m \in Visible, NEW k \in Keys, RemoveKey(m, k)
  PROVE  OutsideInv'
<1> DEFINE t == TableOf(heap, m)
<1>1. /\ heap[m].label = "WEAK_MAP"
      /\ heap' = WriteHeap(heap, t, k, Empty) /\ intgenSet' = WriteSet(intgenSet, heap, t, Empty)
      /\ UNCHANGED <<root, wkDictSet, finSet, finSpace, finMax, phase, gen, loops>>
  BY DEF RemoveKey, Write
<1>2. Good(heap, intgenSet, root, MapAt)
  BY OutsideGood
<1>3. m \in Addr /\ Stays(heap, 0, m)
  BY VisibleIs
<1>4. /\ t \in Addr /\ t[1] \in Table /\ t # root /\ Stays(heap, 0, t)
      /\ DOMAIN heap[t].args = Keys
  BY <1>1, <1>2, <1>3, MapIs DEF Entries
<1> HIDE DEF t
<1>5. Empty \in Field /\ Empty \notin Addr /\ LinkOK(heap, t, Empty)
  BY <1>4, StartupIs DEF Field, LinkOK, Object
<1>6. /\ Good(heap', intgenSet', root, MapAt)
      /\ \E c : Stored(heap, heap', t, k, Empty, c)
  BY <1>1, <1>2, <1>4, <1>5, GoodWrite
<1>7. ButOneField(heap, heap', 0, t, k)
  BY <1>4, <1>6, StoredKeeps
<1> QED
  BY <1>1, <1>6, <1>7, GoodOutside DEF loops, ButOneField

(* BaseMap::Resize: the map refers to a larger table with the same entries.  *)
LEMMA Resized ==
  ASSUME OutsideInv, NEW m \in Visible, heap[m].label = "WEAK_MAP", HasUnusedTable,
         NEW k, NEW set, k = WriteHeap(WithLargeTable(m), m, 1, UnusedTable),
         set = WriteSet(intgenSet, WithLargeTable(m), m, UnusedTable)
  PROVE  /\ Good(k, set, root, MapAt) /\ k[m].label = "WEAK_MAP"
         /\ \A c \in Addr : Stays(heap, 0, c) => Stays(k, 0, c)
<1> DEFINE o == CHOOSE t \in Table : Unused(t)
           a == <<o, 0>>
           args == Entries(heap, m)
           h == [heap EXCEPT ![a] = Fresh("LARGE_TABLE", args)]
<1>1. Good(heap, intgenSet, root, MapAt)
  BY OutsideGood
<1>2. m \in Addr /\ Stays(heap, 0, m)
  BY VisibleIs
<1>3. /\ m[1] = StartupMap /\ StartupMap # None /\ m # root /\ 1 \in DOMAIN heap[m].args
      /\ TableOf(heap, m) \in Addr /\ TableOf(heap, m)[1] \in Table
      /\ Stays(heap, 0, TableOf(heap, m))
      /\ args \in Seq(Field) /\ Len(args) = KeyCount
  BY <1>1, <1>2, MapIs
<1>4. o \in Table /\ \A c \in Copies : heap[<<o, c>>] = Free
  BY DEF HasUnusedTable, Unused
<1> HIDE DEF o, args
<1>5. a \in Addr /\ a[1] \in Table /\ a[1] # StartupMap /\ o \in Object /\ o # RootObj
  BY <1>3, <1>4, StartupIs DEF Addr, Object, Copies
<1>6. UnusedTable = a /\ WithLargeTable(m) = h
  BY DEF UnusedTable, WithLargeTable, o, args
<1>7. Shape(<<o, 0>>, Fresh("LARGE_TABLE", args))
  BY <1>3, <1>4 DEF Shape, Fresh
<1>8. \A i \in DOMAIN args :
        LinkOK(heap, <<o, 0>>, args[i]) /\ (args[i] \in Addr => Stays(heap, 0, args[i]))
  <2> SUFFICES ASSUME NEW i \in DOMAIN args
               PROVE  LinkOK(heap, a, args[i]) /\ (args[i] \in Addr => Stays(heap, 0, args[i]))
    OBVIOUS
  <2>1. Linked(heap) /\ HeapType(heap, 0) /\ \A b \in Addr : ~AlreadyMoved(heap, b)
    BY <1>1 DEF Good, Sound, HeapOK
  <2>2. LinkOK(heap, TableOf(heap, m), args[i])
    BY <1>3, <2>1 DEF Linked, Stays, Entries, args
  <2>3. LinkOK(heap, a, args[i])
    BY <1>3, <1>5, <2>2, StartupIs DEF LinkOK
  <2>4. ASSUME args[i] \in Addr
        PROVE  Stays(heap, 0, args[i])
    <3>1. Alloc(heap, args[i])
      BY <2>2, <2>4 DEF LinkOK
    <3>2. heap[args[i]].space \in 0..3
      BY <2>1, <2>4, <3>1 DEF Alloc, HeapType, Blocks, ToSpace
    <3> QED
      BY <2>1, <2>4, <3>1, <3>2 DEF Stays, Live
  <2> QED
    BY <2>3, <2>4
<1>9. Added(heap, h, a)
  <2>1. "LARGE_TABLE" \in BlockLabels
    BY DEF BlockLabels
  <2> QED
    BY <1>1, <1>3, <1>4, <1>5, <1>7, <1>8, <2>1, FreshAdded
<1> HIDE DEF h, a
<1>10. Good(h, intgenSet, root, MapAt) /\ Grown(heap, h, a)
  BY <1>1, <1>9, GoodAdd
<1>11. Stays(h, 0, m) /\ h[m] = heap[m] /\ Stays(h, 0, a)
  BY <1>2, <1>5, <1>10 DEF Grown
<1>12. /\ Good(k, set, root, MapAt)
       /\ \E c : Stored(h, k, m, 1, a, c)
  <2>1. a \in Field /\ a \in Addr /\ LinkOK(h, m, a)
    BY <1>3, <1>5, <1>11, StartupIs DEF Field, Word, LinkOK, Stays, Live
  <2> QED
    BY <1>2, <1>3, <1>6, <1>10, <1>11, <2>1, GoodWrite
<1>13. ButOneField(h, k, 0, m, 1)
  BY <1>2, <1>12, StoredKeeps
<1> QED
  BY <1>2, <1>10, <1>11, <1>12, <1>13 DEF ButOneField, Grown

(* BaseMap::Put.                                                           *)
LEMMA PutStep ==
  ASSUME OutsideInv, NEW m \in Visible, NEW i \in Keys, NEW w \in Values, Put(m, i, w)
  PROVE  OutsideInv'
<1> DEFINE full == Counter(heap, m) > Percent(heap, m)
           h == IF full THEN WriteHeap(WithLargeTable(m), m, 1, UnusedTable) ELSE heap
           set == IF full THEN WriteSet(intgenSet, WithLargeTable(m), m, UnusedTable)
                  ELSE intgenSet
           t == TableOf(h, m)
<1>1. /\ heap[m].label = "WEAK_MAP" /\ (full => HasUnusedTable)
      /\ heap' = WriteHeap(h, t, i, w) /\ intgenSet' = WriteSet(set, h, t, w)
      /\ UNCHANGED <<root, wkDictSet, finSet, finSpace, finMax, phase, gen, loops>>
  BY DEF Put
<1>2. Good(heap, intgenSet, root, MapAt)
  BY OutsideGood
<1>3. m \in Addr /\ Stays(heap, 0, m)
  BY VisibleIs
<1>4. w \in Word /\ (w \in Addr => Stays(heap, 0, w) /\ w[1] \notin Table \cup {RootObj})
  BY ValuesAre
<1> HIDE DEF full
<1>5. /\ Good(h, set, root, MapAt) /\ h[m].label = "WEAK_MAP"
      /\ \A c \in Addr : Stays(heap, 0, c) => Stays(h, 0, c)
  <2>1. CASE full
    <3> DEFINE k == WriteHeap(WithLargeTable(m), m, 1, UnusedTable)
               s == WriteSet(intgenSet, WithLargeTable(m), m, UnusedTable)
    <3>1. h = k /\ set = s
      BY <2>1
    <3> HIDE DEF h, set
    <3> QED
      BY <1>1, <2>1, <3>1, Resized
  <2>2. CASE ~full
    BY <1>1, <1>2, <2>2
  <2> QED
    BY <2>1, <2>2
<1> HIDE DEF h, set
<1>6. Stays(h, 0, m) /\ (w \in Addr => Stays(h, 0, w))
  BY <1>3, <1>4, <1>5
<1>7. /\ t \in Addr /\ t[1] \in Table /\ t # root /\ Stays(h, 0, t)
      /\ DOMAIN h[t].args = Keys
  BY <1>3, <1>5, <1>6, MapIs DEF Entries
<1> HIDE DEF t
<1>8. w \in Field /\ LinkOK(h, t, w)
  BY <1>4, <1>6, <1>7, StartupIs DEF Field, Word, LinkOK, Object, Stays, Live
<1>9. /\ Good(heap', intgenSet', root, MapAt)
      /\ \E c : Stored(h, heap', t, i, w, c)
  BY <1>1, <1>5, <1>6, <1>7, <1>8, GoodWrite
<1>10. ButOneField(h, heap', 0, t, i)
  BY <1>7, <1>9, StoredKeeps
<1> QED
  BY <1>1, <1>5, <1>9, <1>10, GoodOutside DEF loops, ButOneField

(* A program cannot make another weak map.                                 *)
LEMMA MutatorStep ==
  ASSUME IInv, Mutator
  PROVE  IInv'
<1>1. phase = "mutator" /\ OutsideInv
  <2>1. phase = "mutator"
    BY DEF Mutator, New, NewMap, ReplaceArg, Become, Put, RemoveKey
  <2> QED
    BY <2>1, OutsideIs DEF Outside
<1>2. ASSUME NEW o, NEW a, NEW i, NewMap(o, a, i)
      PROVE  FALSE
  BY <1>1, <1>2 DEF NewMap, OutsideInv, MapsAreRooted
<1>3. OutsideInv'
  BY <1>1, <1>2, NewStep, ReplaceStep, BecomeStep, PutStep, RemoveStep DEF Mutator
<1> QED
  BY <1>3, OutsideNext

(* Store::DoFinalize: the value that a finalizer gets is alive, and may be   *)
(* put where the program can reach it.                                     *)
LEMMA RunFinalizerStep ==
  ASSUME IInv, RunFinalizer
  PROVE  IInv'
<1> DEFINE w == Last(slots).value
<1>1. /\ phase = "finalize" /\ slots # <<>> /\ slots' = Front(slots)
      /\ UNCHANGED <<root, wkDictSet, finSet, finSpace, finMax, phase, gen, scan, todo>>
      /\ \/ UNCHANGED <<heap, intgenSet>>
         \/ w \in Addr /\ \E i \in RootField : Write(heap, root, i, w)
  BY DEF RunFinalizer
<1>2. OutsideInv
  BY <1>1, OutsideIs DEF Outside
<1>3. Good(heap, intgenSet, root, MapAt)
  BY <1>2, OutsideGood
<1>4. CASE UNCHANGED <<heap, intgenSet>>
  <2>1. OutsideInv'
    BY <1>1, <1>2, <1>3, <1>4, GoodOutside
  <2> QED
    BY <2>1, OutsideNext
<1>5. CASE w \in Addr /\ \E i \in RootField : Write(heap, root, i, w)
  <2>1. PICK i \in RootField : Write(heap, root, i, w)
    BY <1>5
  <2>2. heap' = WriteHeap(heap, root, i, w) /\ intgenSet' = WriteSet(intgenSet, heap, root, w)
    BY <2>1 DEF Write
  <2>3. slots \in Seq(FinEntry) /\ \A n \in DOMAIN slots : ValueOK(heap, 0, slots[n].value)
    BY <1>1, <1>2 DEF OutsideInv
  <2>4. ValueOK(heap, 0, w)
    BY <1>1, <2>3 DEF Last
  <2>5. w \in Word /\ Stays(heap, 0, w) /\ w[1] \notin Table \cup {RootObj}
    BY <1>5, <2>4 DEF ValueOK
  <2>6. root \in Addr /\ Stays(heap, 0, root) /\ root[1] = RootObj /\ Live(heap, root)
    BY <1>3 DEF Good, RootOK, Stays
  <2>7. i \in DOMAIN heap[root].args /\ (StartupMap # None => i # 1)
    <3>1. Len(heap[root].args) = RootArity /\ heap[root].args \in Seq(Field)
      BY <1>3, <2>6, StartupIs DEF Good, Sound, HeapOK, Linked, Shape, HeapType, Blocks
    <3>2. i \in 1..RootArity /\ (StartupMap # None => i # 1)
      BY StoreAssumption DEF StoreAssumption, RootField
    <3> QED
      BY <3>1, <3>2
  <2>8. root[1] \notin Table /\ root[1] # StartupMap
    BY <2>6, StartupIs
  <2> HIDE DEF w
  <2>9. /\ Good(heap', intgenSet', root, MapAt)
        /\ \A b \in Addr : Stays(heap', 0, b) <=> Stays(heap, 0, b)
    BY <1>3, <2>2, <2>5, <2>6, <2>7, <2>8, ReplaceGood
  <2>10. OutsideInv'
    BY <1>1, <1>2, <2>9, GoodOutside
  <2> QED
    BY <2>10, OutsideNext
<1> QED
  BY <1>1, <1>4, <1>5

(* The end of Store::DoFinalize keeps the invariant.                        *)
LEMMA FinishGCStep ==
  ASSUME IInv, FinishGC
  PROVE  IInv'
<1>1. /\ phase = "finalize" /\ slots = <<>> /\ phase' = "mutator" /\ gen' = Youngest
      /\ UNCHANGED <<heap, root, intgenSet, wkDictSet, finSet, scan, todo, slots>>
  BY DEF FinishGC, sets, loops
<1>2. OutsideInv
  BY <1>1, OutsideIs DEF Outside
<1>3. MapAt' = MapAt /\ MapsAreRooted' /\ phase' \in Outside
  BY <1>1, <1>2 DEF MapAt, MapsAreRooted, OutsideInv, Outside
<1>4. OutsideInv'
  BY <1>1, <1>2, <1>3 DEF OutsideInv
<1> QED
  BY <1>4, OutsideNext

-----------------------------------------------------------------------------
(***************************************************************************)
(* The steps of a collection.                                              *)
(***************************************************************************)

(* What refers from a generation that is not collected to one that is, is   *)
(* remembered when a collection starts; the root block is copied in any     *)
(* case.                                                                   *)
LEMMA StartGCStep ==
  ASSUME IInv, NEW n \in Collections, StartGC(n)
  PROVE  /\ IInv' /\ Bound' = gen' /\ root' \in Addr /\ root'[1] = RootObj
         /\ gen' = ToSpace => \A a \in Addr : Stays(heap', gen', a) => a = root'
<1> DEFINE g == n + 1
           b == NewPlace(heap, root)
           r == Range(intgenSet)
           p == {f \in FieldRef : f[1] \in r \/ f[1][1] = StartupMap}
<1>1. /\ phase = "mutator" /\ phase' = "scanRoots" /\ gen' = g
      /\ heap' = CloneBlock(heap, root, g) /\ root' = b /\ scan' = Fields(b, heap[root])
      /\ UNCHANGED <<intgenSet, wkDictSet, finSet, todo, slots>>
  BY DEF StartGC
<1>2. g \in 1..ToSpace
  <2>1. n \in Youngest..Oldest
    BY StoreAssumption DEF StoreAssumption
  <2> QED
    BY <2>1 DEF Youngest, Oldest, ToSpace
<1> HIDE DEF g
<1>3. OutsideInv
  BY <1>1, OutsideIs DEF Outside
<1>4. /\ Sound(heap, 0, {}, r) /\ RootOK(heap, 0, root) /\ \A a \in Addr : ~AlreadyMoved(heap, a)
      /\ intgenSet \in Seq(Addr) /\ IsInjective(intgenSet)
      /\ slots = <<>> /\ todo = <<>> /\ MapsAreRooted
      /\ finSet \in Seq(FinEntry)
      /\ IF StartupMap = None THEN wkDictSet = <<>> /\ finSet = <<>>
         ELSE wkDictSet = <<MapAt>> /\ MapAt \in Addr
  BY <1>1, <1>3 DEF OutsideInv
<1>5. /\ HeapType(heap, 0) /\ Linked(heap) /\ CopiesOK(heap) /\ RememberedOK(heap, 0, r)
      /\ HeapOK(heap, 0)
  BY <1>4 DEF Sound, HeapOK
<1>6. root \in Addr /\ root[1] = RootObj /\ Live(heap, root)
  BY <1>4 DEF RootOK, Stays
<1>7. \A a \in r : a \in Addr /\ Alloc(heap, a) /\ Live(heap, a)
  BY <1>4, <1>5 DEF RememberedOK, Live
<1>8. Sound(heap, g, p, r)
  <2>1. \A a \in r : \A i \in DOMAIN heap[a].args : heap[a].args[i] \in Addr => <<a, i>> \in p
    BY <1>5, <1>7, FieldNumbers
  <2> HIDE DEF p, r
  <2> QED
    BY <1>2, <1>4, <2>1, RaiseSound
<1>9. HeapOK(heap, g) /\ HeapType(heap, g)
  BY <1>8 DEF Sound, HeapOK
<1>10. Alone(heap, root)
  <2> SUFFICES ASSUME NEW c \in Addr, Alloc(heap, c), c[1] = root[1], c # root
               PROVE  FALSE
    BY DEF Alone
  <2>1. heap[c].fwd = root \/ heap[root].fwd = c
    BY <1>5, <1>6 DEF CopiesOK, Live
  <2> QED
    BY <1>4, <1>6, <2>1, FiniteAddr DEF AlreadyMoved
<1>11. Cloned(heap, heap', root, b, g)
  BY <1>1, <1>2, <1>6, <1>9, <1>10, CloneIs
<1> HIDE DEF b
<1>12. /\ b \in Addr /\ b[1] = RootObj /\ ~Alloc(heap, b) /\ heap'[b].args = heap[root].args
       /\ heap'[b].space = g /\ heap'[root].fwd = b
  BY <1>6, <1>11 DEF Cloned
<1>13. /\ \A c \in Addr : Alloc(heap', c) <=> c = b \/ Alloc(heap, c)
       /\ \A c \in Addr : AlreadyMoved(heap', c) <=> c = root \/ AlreadyMoved(heap, c)
       /\ \A c \in Addr : Stays(heap', g, c) <=> c = b \/ (c # root /\ Stays(heap, g, c))
  BY <1>2, <1>6, <1>9, <1>11, ClonedBlocks
<1>14. /\ scan' \in Seq(FieldRef) /\ IsInjective(scan')
       /\ \A f : f \in Range(scan') <=>
            \E i \in DOMAIN heap[root].args : heap[root].args[i] \in Addr /\ f = <<b, i>>
       /\ \A i \in DOMAIN heap[root].args : <<b, i>> \in FieldRef
  <2>1. heap[root].args \in Seq(Field)
    BY <1>5, <1>6 DEF HeapType, Blocks
  <2>2. AddressFields(b, heap[root], scan')
    BY <1>1, <1>12, <2>1, FieldsIs
  <2>3. /\ scan' \in Seq({b} \X DOMAIN heap[root].args) /\ IsInjective(scan')
        /\ \A f : f \in Range(scan') <=>
             \E i \in DOMAIN heap[root].args : heap[root].args[i] \in Addr /\ f = <<b, i>>
    BY <2>2 DEF AddressFields
  <2>4. \A i \in DOMAIN heap[root].args : <<b, i>> \in FieldRef
    <3>1. \A i \in DOMAIN heap[root].args : <<root, i>> \in FieldRef
      BY <1>5, <1>6, FieldNumbers
    <3> QED
      BY <1>12, <3>1 DEF FieldRef
  <2>5. {b} \X DOMAIN heap[root].args \subseteq FieldRef
    BY <2>4
  <2> QED
    BY <2>3, <2>4, <2>5
<1>15. gen' = ToSpace => \A a \in Addr : Stays(heap', gen', a) => a = b
  <2>1. \A a \in Addr : Alloc(heap, a) => heap[a].space \in 0..2
    BY <1>5 DEF HeapType, Blocks, Alloc, ToSpace
  <2>2. \A a \in Addr : ~Stays(heap, ToSpace, a)
    BY <2>1 DEF Stays, Live, ToSpace
  <2> QED
    BY <1>1, <1>13, <2>2
<1>16. /\ phase' \in BeforeDicts /\ phase' \in BeforeOld /\ phase' \in Phases
       /\ phase' \notin Outside /\ Bound' = g
       /\ phase' \notin {"mutator", "intgen", "entry", "scanOld", "dicts", "entries", "scanFinal", "finalize"}
  BY <1>1 DEF BeforeDicts, BeforeOld, Outside, Phases, Bound
<1>17. /\ ToVisit' = <<>> /\ RememberedBlocks' = r
       /\ \A f : f \in PendingFields' <=> f \in FieldRef /\ (f \in Range(scan') \/ f \in p)
  <2>1. Range(<<>>) = {}
    BY DEF Range
  <2>2. ToVisit' = <<>> /\ RememberedBlocks' = r
    BY <1>1, <2>1 DEF ToVisit, RememberedBlocks
  <2>3. \A f : PendingHere(f)' <=> f \in Range(scan') \/ f[1] \in r \/ f[1][1] = StartupMap
    BY <1>1, <1>16 DEF PendingHere
  <2> QED
    BY <2>2, <2>3 DEF PendingFields
<1>18. PhaseOK'
  BY <1>1, <1>2, <1>4, <1>16 DEF PhaseOK, MapsAreRooted
<1>19. MapAt' = MapAt
  BY <1>1, <1>12 DEF MapAt
<1>20. HeapInv'
  <2>1. MorePending(heap, root, b, p, PendingFields')
    BY <1>14, <1>17 DEF MorePending
  <2>2. Stays(heap, g, root) => root[1] = RootObj /\ g # ToSpace
    <3>1. \A a \in Addr : Alloc(heap, a) => heap[a].space \in 0..2
      BY <1>5 DEF HeapType, Blocks, Alloc, ToSpace
    <3> QED
      BY <1>6, <3>1 DEF Stays, Live, ToSpace
  <2>3. Sound(heap', g, PendingFields', r)
    BY <1>2, <1>6, <1>8, <1>10, <1>11, <2>1, <2>2, CloneSound
  <2>4. RootOK(heap', g, root')
    BY <1>1, <1>4, <1>12, <1>13 DEF RootOK
  <2> QED
    BY <1>16, <1>17, <2>3, <2>4 DEF HeapInv
<1>21. ScanOK'
  <2>1. \A f \in Range(scan') :
          /\ f[1] = b /\ f[2] \in DOMAIN heap[root].args /\ heap[root].args[f[2]] \in Addr
    BY <1>14
  <2>2. Stays(heap', gen', b) /\ heap'[b].space = gen'
    BY <1>1, <1>12, <1>13
  <2> QED
    BY <1>12, <1>14, <1>16, <2>1, <2>2, StartupIs DEF ScanOK, Word
<1>22. IntgenOK'
  <2>1. Range(<<>>) = {} /\ IsInjective(<<>>) /\ <<>> \in Seq(Addr)
    BY DEF Range, IsInjective
  <2>2. \A a \in Addr : AlreadyMoved(heap', a) => heap'[a].fwd = b
    BY <1>4, <1>12, <1>13
  <2>3. b \notin r
    BY <1>7, <1>12
  <2>4. gen' = ToSpace => \A a \in r : ~Stays(heap', gen', a)
    BY <1>7, <1>15, <2>3
  <2> QED
    BY <1>1, <1>4, <1>16, <1>17, <2>1, <2>2, <2>3, <2>4 DEF IntgenOK
<1>23. MapOK'
  <2>1. wkDictSet' \in Seq(Addr)
    BY <1>1, <1>3, OutsideIs DEF IInv, MapOK
  <2>2. StartupMap = None => wkDictSet' = <<>> /\ finSet' = <<>>
    BY <1>1, <1>4
  <2>3. ASSUME StartupMap # None
        PROVE  \E d \in Addr : wkDictSet' = <<d>> /\ WasMap(d)'
    <3>1. MapAt \in Addr /\ MapAt[1] = StartupMap /\ MapAt # b
      BY <1>4, <1>12, <2>3, StartupIs DEF RootOK, MapAt
    <3>2. Alloc(heap', MapAt)
      <4>1. 1 \in DOMAIN heap[root].args
        <5>1. Len(heap[root].args) = RootArity /\ heap[root].args \in Seq(Field)
          BY <1>5, <1>6, StartupIs DEF Linked, Shape, HeapType, Blocks
        <5> QED
          BY <5>1, StoreAssumption DEF StoreAssumption
      <4>2. Alloc(heap, MapAt)
        BY <1>5, <1>6, <3>1, <4>1 DEF Linked, LinkOK, MapAt
      <4> QED
        BY <1>13, <3>1, <4>2
    <3>3. PICK d \in Addr : d = MapAt
      BY <3>1
    <3>4. WasMap(d)'
      BY <1>1, <1>15, <1>19, <3>1, <3>2, <3>3 DEF WasMap
    <3> QED
      BY <1>1, <1>4, <2>3, <3>3, <3>4
  <2>4. gen' = ToSpace => \A a \in Addr : Stays(heap', gen', a) => a[1] \notin Table
    BY <1>12, <1>15, StartupIs
  <2>5. StartupMap # None => MapAt \in Addr
    BY <1>4
  <2> QED
    BY <1>16, <2>1, <2>2, <2>3, <2>4, <2>5 DEF MapOK
<1>24. FinalOK'
  BY <1>1, <1>4, <1>16 DEF FinalOK
<1> QED
  BY <1>1, <1>12, <1>15, <1>16, <1>18, <1>20, <1>21, <1>22, <1>23, <1>24 DEF IInv

(* What CheneyScan has yet to visit, after the visit of a field.            *)
LEMMA VisitScan ==
  ASSUME ScanOK, phase \notin Outside \cup {"dicts"}, UNCHANGED <<gen, phase>>,
         gen \in 1..ToSpace, NEW p, NEW r, Sound(heap, gen, p, r),
         NEW a, NEW i, NEW w, NEW u, NEW v, Found(heap, gen, a, w),
         Forwarded(heap, ForwardHeap(heap, w, gen), gen, w, u), u = ForwardWord(heap, w, gen),
         Visits(heap, heap', gen, w, u, a, i, v),
         NEW s \in Seq(FieldRef), IsInjective(s), Range(s) \subseteq Range(scan),
         <<a, i>> \in Range(s) => v \in Word,
         scan' = s \o NewFields(heap, w, gen),
         gen = ToSpace \/ phase \in {"entries", "scanFinal"} => a[1] # StartupMap
  PROVE  /\ ScanOK'
         /\ Range(scan') = Range(s) \cup Range(NewFields(heap, w, gen))
         /\ Range(s) \cap Range(NewFields(heap, w, gen)) = {}
<1> DEFINE t == NewFields(heap, w, gen)
<1>1. HeapOK(heap, gen) /\ HeapType(heap, gen) /\ Linked(heap)
  BY DEF Sound, HeapOK
<1>2. /\ t \in Seq(FieldRef) /\ IsInjective(t)
      /\ \A f : f \in Range(t) <=>
           /\ ToForward(heap, w, gen) /\ heap[w].label # "WEAK_MAP"
           /\ \E j \in DOMAIN heap[w].args : heap[w].args[j] \in Addr /\ f = <<u, j>>
  BY <1>1, NewFieldsIs
<1> HIDE DEF t
<1>3. \A f \in Range(scan) :
        /\ Stays(heap, gen, f[1]) /\ heap[f[1]].space = gen /\ f[1][1] # StartupMap
        /\ f[2] \in DOMAIN heap[f[1]].args /\ heap[f[1]].args[f[2]] \in Word
        /\ gen = ToSpace \/ phase \in {"entries", "scanFinal"} => f[1][1] \notin Table
  BY DEF ScanOK
<1>4. /\ \A c \in Addr : Alloc(heap, c) => Alloc(heap', c) /\ heap'[c].space = heap[c].space
      /\ \A c \in Addr : Stays(heap, gen, c) => Stays(heap', gen, c)
      /\ \A c \in Addr : Alloc(heap, c) => DOMAIN heap'[c].args = DOMAIN heap[c].args
      /\ \A c \in Addr : Alloc(heap, c) =>
           \A j \in DOMAIN heap[c].args : c # a \/ j # i => heap'[c].args[j] = heap[c].args[j]
      /\ heap'[a].args[i] = v
      /\ ToForward(heap, w, gen) =>
           /\ w \in Addr /\ u \in Addr /\ ~Alloc(heap, u) /\ Live(heap, w)
           /\ u[1] = w[1] /\ heap'[u].space = gen /\ heap'[u].args = heap[w].args
      /\ u \in Addr => Stays(heap', gen, u)
  BY DEF Visits
<1>5. Range(s) \cap Range(t) = {}
  BY <1>2, <1>3, <1>4 DEF Stays, Live
<1>6. scan' \in Seq(FieldRef) /\ IsInjective(scan') /\ Range(scan') = Range(s) \cup Range(t)
  BY <1>2, <1>5, JoinRange DEF t
<1>7. ASSUME NEW f \in Range(s)
      PROVE  /\ Stays(heap', gen, f[1]) /\ heap'[f[1]].space = gen /\ f[1][1] # StartupMap
             /\ f[2] \in DOMAIN heap'[f[1]].args /\ heap'[f[1]].args[f[2]] \in Word
             /\ gen = ToSpace \/ phase \in {"entries", "scanFinal"} => f[1][1] \notin Table
  <2>0. Range(s) \subseteq FieldRef
    BY DEF Range
  <2>1. f \in FieldRef /\ f \in Range(scan)
    BY <1>7, <2>0
  <2>2. f[1] \in Addr /\ f = <<f[1], f[2]>>
    BY <2>1 DEF FieldRef
  <2>3. Alloc(heap, f[1])
    BY <1>3, <2>1 DEF Stays, Live
  <2>4. CASE f = <<a, i>>
    BY <1>3, <1>4, <1>7, <2>1, <2>2, <2>3, <2>4
  <2>5. CASE f # <<a, i>>
    BY <1>3, <1>4, <2>1, <2>2, <2>3, <2>5
  <2> QED
    BY <2>4, <2>5
<1>8. ASSUME NEW f \in Range(t)
      PROVE  /\ Stays(heap', gen, f[1]) /\ heap'[f[1]].space = gen /\ f[1][1] # StartupMap
             /\ f[2] \in DOMAIN heap'[f[1]].args /\ heap'[f[1]].args[f[2]] \in Word
             /\ gen = ToSpace \/ phase \in {"entries", "scanFinal"} => f[1][1] \notin Table
  <2>1. PICK j \in DOMAIN heap[w].args : heap[w].args[j] \in Addr /\ f = <<u, j>>
    BY <1>2
  <2>2. ToForward(heap, w, gen) /\ heap[w].label # "WEAK_MAP"
    BY <1>2
  <2>3. w[1] # StartupMap
    <3>1. Shape(w, heap[w]) /\ w[1] # RootObj
      BY <1>1, <1>4, <2>2 DEF Linked, Found, Live
    <3>2. w[1] # None
      BY <1>4, <2>2, StartupIs DEF Addr
    <3> QED
      BY <2>2, <3>1, <3>2, StartupIs DEF Shape
  <2>4. gen = ToSpace \/ phase \in {"entries", "scanFinal"} => w[1] \notin Table
    BY <1>4, <2>2 DEF Found
  <2> QED
    BY <1>4, <2>1, <2>2, <2>3, <2>4 DEF Word
<1>9. ScanOK'
  <2>1. \A f \in Range(scan') :
             /\ Stays(heap', gen, f[1]) /\ heap'[f[1]].space = gen /\ f[1][1] # StartupMap
             /\ f[2] \in DOMAIN heap'[f[1]].args /\ heap'[f[1]].args[f[2]] \in Word
             /\ gen = ToSpace \/ phase \in {"entries", "scanFinal"} => f[1][1] \notin Table
    BY <1>6, <1>7, <1>8
  <2> QED
    BY <1>6, <2>1 DEF ScanOK
<1> QED
  BY <1>5, <1>6, <1>9 DEF t

(* The startup map, after the visit of a field, which may be the root's.    *)
LEMMA VisitMap ==
  ASSUME UNCHANGED <<gen, root>>, gen \in 1..ToSpace,
         NEW p, NEW r, Sound(heap, gen, p, r), RootOK(heap, gen, root),
         NEW a, NEW i, NEW w, NEW u, NEW v, Visits(heap, heap', gen, w, u, a, i, v),
         a = root /\ i = 1 =>
           v = u /\ w = Deref(heap, MapAt) /\ u = ForwardWord(heap, w, gen)
  PROVE  /\ RootOK(heap', gen, root)
         /\ StartupMap # None => \A d : WasMap(d) => WasMap(d)'
         /\ StartupMap # None /\ Stays(heap, gen, MapAt) => MapAt' = MapAt
<1>1. /\ HeapOK(heap, gen) /\ HeapType(heap, gen) /\ Linked(heap) /\ ForwardsOK(heap, gen)
  BY DEF Sound, HeapOK
<1>2. root \in Addr /\ root[1] = RootObj /\ Stays(heap, gen, root) /\ Live(heap, root) /\ Alloc(heap, root)
  BY DEF RootOK, Stays, Live
<1>3. 1 \in DOMAIN heap[root].args
  <2>1. Len(heap[root].args) = RootArity /\ heap[root].args \in Seq(Field)
    BY <1>1, <1>2, StartupIs DEF Linked, Shape, HeapType, Blocks
  <2> QED
    BY <2>1, StoreAssumption DEF StoreAssumption
<1>4. /\ \A c \in Addr : Alloc(heap, c) => Alloc(heap', c)
      /\ \A c \in Addr : Stays(heap, gen, c) => Stays(heap', gen, c)
      /\ \A c \in Addr : Stays(heap', gen, c) =>
           Stays(heap, gen, c) \/ (c = u /\ ToForward(heap, w, gen))
      /\ \A c \in Addr : AlreadyMoved(heap, c) => heap'[c].fwd = heap[c].fwd
      /\ root # a \/ 1 # i => heap'[root].args[1] = heap[root].args[1]
      /\ heap'[a].args[i] = v
      /\ ToForward(heap, w, gen) =>
           /\ w \in Addr /\ u \in Addr /\ ~Alloc(heap, u) /\ ~Stays(heap, gen, w)
           /\ u[1] = w[1] /\ heap'[w].fwd = u
      /\ u \in Addr => Stays(heap', gen, u)
  BY <1>2, <1>3 DEF Visits
<1>5. Stays(heap', gen, root)
  BY <1>2, <1>4
<1>6. CASE StartupMap = None
  BY <1>2, <1>5, <1>6 DEF RootOK
<1>7. CASE StartupMap # None
  <2>1. MapAt \in Addr /\ MapAt[1] = StartupMap /\ Alloc(heap, MapAt)
    BY <1>1, <1>2, <1>3, <1>7 DEF RootOK, MapAt, Linked, LinkOK
  <2>2. Deref(heap, MapAt) = MapAt
    <3>1. ASSUME IsRef(heap, MapAt)
          PROVE  FALSE
      <4>1. Live(heap, MapAt)
        BY <2>1, <3>1 DEF IsRef, Live
      <4>2. Shape(MapAt, heap[MapAt])
        BY <1>1, <2>1, <4>1 DEF Linked
      <4> QED
        BY <1>7, <2>1, <3>1, <4>2, StartupIs DEF Shape, IsRef
    <3> QED
      BY <1>1, <2>1, <3>1, DerefSelf DEF Word
  <2>3. ASSUME NEW d, WasMap(d)
        PROVE  /\ d \in Addr /\ Alloc(heap, d) /\ (d = MapAt \/ heap[d].fwd = MapAt)
               /\ gen = ToSpace => ~Stays(heap, gen, d)
               /\ heap[d].fwd = MapAt => AlreadyMoved(heap, d) /\ Stays(heap, gen, MapAt)
    <3>1. /\ d \in Addr /\ Alloc(heap, d) /\ (d = MapAt \/ heap[d].fwd = MapAt)
          /\ gen = ToSpace => ~Stays(heap, gen, d)
      BY <2>3 DEF WasMap
    <3>2. heap[d].fwd = MapAt => AlreadyMoved(heap, d)
      BY <2>1, FiniteAddr DEF AlreadyMoved
    <3> QED
      BY <1>1, <3>1, <3>2 DEF ForwardsOK
  <2>4. ASSUME NEW d, WasMap(d)
        PROVE  gen' = ToSpace => ~Stays(heap', gen', d)
    BY <1>4, <2>3, <2>4
  <2>5. CASE a = root /\ i = 1
    <3>1. w = MapAt /\ MapAt' = u /\ u = ForwardWord(heap, MapAt, gen)
      BY <1>4, <2>2, <2>5 DEF MapAt
    <3>2. CASE ToForward(heap, MapAt, gen)
      <4>1. u \in Addr /\ u[1] = StartupMap /\ heap'[MapAt].fwd = u /\ ~Stays(heap, gen, MapAt)
        BY <1>4, <2>1, <3>1, <3>2
      <4>2. RootOK(heap', gen, root)
        BY <1>2, <1>5, <3>1, <4>1 DEF RootOK, MapAt
      <4>3. ASSUME NEW d, WasMap(d)
            PROVE  WasMap(d)'
        <5>1. d = MapAt
          BY <2>3, <4>1, <4>3
        <5> QED
          BY <1>4, <2>3, <2>4, <3>1, <4>1, <4>3, <5>1 DEF WasMap
      <4> QED
        BY <4>1, <4>2, <4>3
    <3>3. CASE AlreadyMoved(heap, MapAt)
      <4>1. u = heap[MapAt].fwd /\ heap'[MapAt].fwd = u /\ ~Stays(heap, gen, MapAt)
        BY <1>4, <2>1, <3>1, <3>3 DEF ForwardWord, Stays, Live
      <4>2. u[1] = StartupMap /\ u \in Addr
        BY <1>1, <2>1, <3>3, <4>1 DEF ForwardsOK, HeapType, Blocks, AlreadyMoved
      <4>3. RootOK(heap', gen, root)
        BY <1>2, <1>5, <3>1, <4>2 DEF RootOK, MapAt
      <4>4. ASSUME NEW d, WasMap(d)
            PROVE  WasMap(d)'
        <5>1. d = MapAt
          BY <2>3, <4>1, <4>4
        <5> QED
          BY <1>4, <2>3, <2>4, <3>1, <4>1, <4>4, <5>1 DEF WasMap
      <4> QED
        BY <4>1, <4>3, <4>4
    <3>4. CASE ~ToForward(heap, MapAt, gen) /\ ~AlreadyMoved(heap, MapAt)
      <4>1. u = MapAt
        BY <3>1, <3>4 DEF ForwardWord
      <4>2. RootOK(heap', gen, root)
        BY <1>2, <1>5, <2>1, <3>1, <4>1 DEF RootOK, MapAt
      <4>3. ASSUME NEW d, WasMap(d)
            PROVE  WasMap(d)'
        BY <1>4, <2>3, <2>4, <3>1, <4>1, <4>3 DEF WasMap
      <4> QED
        BY <3>1, <4>1, <4>2, <4>3
    <3> QED
      BY <3>2, <3>3, <3>4
  <2>6. CASE ~(a = root /\ i = 1)
    <3>1. MapAt' = MapAt
      BY <1>4, <2>6 DEF MapAt
    <3>2. RootOK(heap', gen, root)
      BY <1>2, <1>5, <2>1, <3>1 DEF RootOK, MapAt
    <3>3. ASSUME NEW d, WasMap(d)
          PROVE  WasMap(d)'
      BY <1>4, <2>3, <2>4, <3>1, <3>3 DEF WasMap
    <3> QED
      BY <3>1, <3>2, <3>3
  <2> QED
    BY <2>5, <2>6
<1> QED
  BY <1>6, <1>7

(* The rest of the invariant, after the visit of a field by CheneyScan or by *)
(* HandleInterGenerationalPointers.                                        *)
LEMMA VisitRest ==
  ASSUME IInv, phase \in {"scanRoots", "scanOld", "scanFinal", "entry"},
         UNCHANGED <<root, intgenSet, wkDictSet, finSet, phase, gen, todo>>,
         slots' = slots \/ (phase = "entry" /\ slots # <<>> /\ slots' = Tail(slots)),
         NEW a, NEW i, NEW w, NEW u, NEW v, Visits(heap, heap', gen, w, u, a, i, v),
         v \in Word, Found(heap, gen, a, w),
         a = root /\ i = 1 =>
           v = u /\ w = Deref(heap, MapAt) /\ u = ForwardWord(heap, w, gen),
         gen = ToSpace => a[1] # StartupMap,
         Sound(heap', gen, PendingFields', RememberedBlocks)
  PROVE  PhaseOK' /\ HeapInv' /\ IntgenOK' /\ MapOK' /\ FinalOK'
<1>1. /\ phase # "mutator" /\ phase \notin Outside /\ phase \in Phases
      /\ phase \notin {"intgen", "dicts", "entries", "finalize"}
      /\ MapsAreRooted /\ gen \in 1..ToSpace /\ Bound = gen /\ Bound' = gen
      /\ ToVisit' = ToVisit
  BY DEF IInv, PhaseOK, Outside, Bound, ToVisit
<1>2. RememberedBlocks' = RememberedBlocks
  BY <1>1 DEF RememberedBlocks
<1>3. Sound(heap, gen, PendingFields, RememberedBlocks) /\ RootOK(heap, gen, root)
  BY <1>1 DEF IInv, HeapInv
<1>4. /\ HeapType(heap, gen) /\ RememberedOK(heap, gen, RememberedBlocks)
  BY <1>3 DEF Sound, HeapOK
<1>5. /\ RootOK(heap', gen, root)
      /\ StartupMap # None => \A d : WasMap(d) => WasMap(d)'
      /\ StartupMap # None /\ Stays(heap, gen, MapAt) => MapAt' = MapAt
  BY <1>1, <1>3, VisitMap
<1>6. /\ \A c \in Addr : Stays(heap, gen, c) => Stays(heap', gen, c)
      /\ \A c \in Addr : Stays(heap', gen, c) =>
           Stays(heap, gen, c) \/ (c = u /\ ToForward(heap, w, gen))
      /\ \A c \in Addr : AlreadyMoved(heap, c) => heap'[c].fwd = heap[c].fwd
      /\ \A c \in Addr : AlreadyMoved(heap', c) =>
           AlreadyMoved(heap, c) \/ (c = w /\ heap'[c].fwd = u /\ ToForward(heap, w, gen))
      /\ \A c \in Addr : Alloc(heap, c) => DOMAIN heap'[c].args = DOMAIN heap[c].args
      /\ \A c \in Addr : Alloc(heap, c) =>
           \A j \in DOMAIN heap[c].args : c # a \/ j # i => heap'[c].args[j] = heap[c].args[j]
      /\ heap'[a].args[i] = v
      /\ ToForward(heap, w, gen) =>
           w \in Addr /\ u \in Addr /\ ~Alloc(heap, u) /\ u[1] = w[1]
  BY DEF Visits
<1>7. \A c \in RememberedBlocks : c \in Addr /\ Alloc(heap, c)
  BY <1>4 DEF RememberedOK
<1>8. PhaseOK'
  BY <1>1 DEF IInv, PhaseOK, MapsAreRooted
<1>9. HeapInv'
  BY <1>1, <1>2, <1>5 DEF HeapInv
<1>10. IntgenOK'
  <2>1. /\ intgenSet' \in Seq(Addr) /\ IsInjective(intgenSet')
        /\ ToVisit' \in Seq(Addr) /\ IsInjective(ToVisit') /\ Range(intgenSet') \cap Range(ToVisit') = {}
    BY <1>1 DEF IInv, IntgenOK
  <2>2. phase' # "scanRoots" => \A c \in Range(intgenSet') : Stays(heap', Bound', c)
    <3>1. Range(intgenSet) \subseteq RememberedBlocks
      BY DEF RememberedBlocks
    <3> QED
      BY <1>1, <1>6, <1>7, <3>1 DEF IInv, IntgenOK
  <2>3. phase' \in BeforeOld =>
          /\ \A c \in Addr : AlreadyMoved(heap', c) => heap'[c].fwd \notin RememberedBlocks'
          /\ gen' = ToSpace => \A c \in RememberedBlocks' : ~Stays(heap', gen', c)
    <3> SUFFICES ASSUME phase \in BeforeOld
                 PROVE  /\ \A c \in Addr : AlreadyMoved(heap', c) => heap'[c].fwd \notin RememberedBlocks
                        /\ gen = ToSpace => \A c \in RememberedBlocks : ~Stays(heap', gen, c)
      BY <1>2
    <3>1. /\ \A c \in Addr : AlreadyMoved(heap, c) => heap[c].fwd \notin RememberedBlocks
          /\ gen = ToSpace => \A c \in RememberedBlocks : ~Stays(heap, gen, c)
      BY DEF IInv, IntgenOK
    <3>2. ToForward(heap, w, gen) => u \notin RememberedBlocks
      BY <1>6, <1>7
    <3> QED
      BY <1>6, <1>7, <3>1, <3>2
  <2>4. phase' = "entry" =>
          /\ todo' # <<>> /\ Stays(heap', gen', Head(todo'))
          /\ slots' \in Seq(FieldRef)
          /\ \A f \in Range(slots') :
               /\ f[1] = Head(todo') /\ f[2] \in DOMAIN heap'[f[1]].args
               /\ heap'[f[1]].args[f[2]] \in Word
    <3> SUFFICES ASSUME phase = "entry"
                 PROVE  /\ todo # <<>> /\ Stays(heap', gen, Head(todo))
                        /\ slots' \in Seq(FieldRef)
                        /\ \A f \in Range(slots') :
                             /\ f[1] = Head(todo) /\ f[2] \in DOMAIN heap'[f[1]].args
                             /\ heap'[f[1]].args[f[2]] \in Word
      OBVIOUS
    <3>1. /\ todo # <<>> /\ Stays(heap, gen, Head(todo)) /\ slots \in Seq(FieldRef)
          /\ \A f \in Range(slots) :
               /\ f[1] = Head(todo) /\ f[2] \in DOMAIN heap[f[1]].args
               /\ heap[f[1]].args[f[2]] \in Word
          /\ todo \in Seq(Addr)
      BY DEF IInv, IntgenOK, ToVisit
    <3>2. Head(todo) \in Addr /\ Alloc(heap, Head(todo))
      BY <3>1, TailRange DEF Stays, Live
    <3>3. slots' \in Seq(FieldRef) /\ Range(slots') \subseteq Range(slots)
      <4>1. CASE slots' = slots
        BY <3>1, <4>1
      <4>2. CASE slots # <<>> /\ slots' = Tail(slots)
        <5>1. Tail(slots) \in Seq(FieldRef) /\ Range(slots) = {Head(slots)} \cup Range(Tail(slots))
          BY <3>1, <4>2, TailRange
        <5> QED
          BY <4>2, <5>1
      <4> QED
        BY <4>1, <4>2
    <3>4. ASSUME NEW f \in Range(slots)
          PROVE  f[2] \in DOMAIN heap'[f[1]].args /\ heap'[f[1]].args[f[2]] \in Word
      <4>1. /\ f[1] \in Addr /\ Alloc(heap, f[1]) /\ f[2] \in DOMAIN heap[f[1]].args
            /\ heap[f[1]].args[f[2]] \in Word
        BY <3>1, <3>2
      <4>2. CASE f[1] = a /\ f[2] = i
        BY <1>6, <4>1, <4>2
      <4>3. CASE f[1] # a \/ f[2] # i
        BY <1>6, <4>1, <4>3
      <4> QED
        BY <4>2, <4>3
    <3> QED
      BY <1>6, <3>1, <3>2, <3>3, <3>4
  <2> QED
    BY <2>1, <2>2, <2>3, <2>4 DEF IntgenOK
<1>11. MapOK'
  <2>1. wkDictSet' \in Seq(Addr)
    BY DEF IInv, MapOK
  <2>2. StartupMap = None => wkDictSet' = <<>> /\ finSet' = <<>> /\ phase' \notin {"dicts", "entries", "scanFinal"}
    BY DEF IInv, MapOK
  <2>3. ASSUME StartupMap # None
        PROVE  /\ phase' \in Outside \cup {"entries", "scanFinal"} => wkDictSet' = <<MapAt'>>
               /\ phase' \in BeforeDicts => \E d \in Addr : wkDictSet' = <<d>> /\ WasMap(d)'
               /\ phase' \in {"dicts", "entries", "scanFinal"} => Stays(heap', gen', MapAt')
    <3>1. ASSUME phase \in BeforeDicts
          PROVE  \E d \in Addr : wkDictSet' = <<d>> /\ WasMap(d)'
      <4>1. PICK d \in Addr : wkDictSet = <<d>> /\ WasMap(d)
        BY <2>3, <3>1 DEF IInv, MapOK
      <4>2. WasMap(d)'
        BY <1>5, <2>3, <4>1
      <4> QED
        BY <4>1, <4>2
    <3>2. ASSUME phase = "scanFinal"
          PROVE  wkDictSet' = <<MapAt'>> /\ Stays(heap', gen', MapAt')
      <4>1. wkDictSet = <<MapAt>> /\ Stays(heap, gen, MapAt)
        BY <2>3, <3>2 DEF IInv, MapOK
      <4>2. MapAt \in Addr
        BY <1>3, <2>3 DEF RootOK, MapAt
      <4> QED
        BY <1>5, <1>6, <2>3, <4>1, <4>2
    <3> QED
      BY <1>1, <3>1, <3>2
  <2>4. gen' = ToSpace /\ phase' \in BeforeDicts =>
          \A c \in Addr : Stays(heap', gen', c) => c[1] \notin Table
    <3> SUFFICES ASSUME gen = ToSpace, phase \in BeforeDicts, NEW c \in Addr, Stays(heap', gen, c)
                 PROVE  c[1] \notin Table
      OBVIOUS
    <3>1. \A b \in Addr : Stays(heap, gen, b) => b[1] \notin Table
      BY DEF IInv, MapOK
    <3>2. ToForward(heap, w, gen) => u[1] \notin Table
      BY <1>6 DEF Found
    <3> QED
      BY <1>6, <3>1, <3>2
  <2> QED
    BY <1>1, <2>1, <2>2, <2>3, <2>4 DEF MapOK
<1>12. FinalOK'
  <2>1. \A x : ValueOK(heap, gen, x) => ValueOK(heap', gen, x)
    BY <1>6 DEF ValueOK
  <2>2. finSet' \in Seq(FinEntry)
    BY DEF IInv, FinalOK
  <2>3. phase' = "scanFinal" => \A n \in DOMAIN finSet' : ValueOK(heap', gen', finSet'[n].value)
    BY <2>1 DEF IInv, FinalOK
  <2>4. phase' # "entry" => slots' = <<>>
    BY <1>1 DEF IInv, FinalOK
  <2> QED
    BY <1>1, <2>2, <2>3, <2>4 DEF FinalOK
<1> QED
  BY <1>8, <1>9, <1>10, <1>11, <1>12

(* A copy in to-space, which FinalizeCheneyScan leaves alone, is not         *)
(* forwarded in any case.                                                  *)
LEMMA ScanGenIs ==
  ASSUME NEW a, NEW w, Found(heap, gen, a, w)
  PROVE  /\ ForwardHeap(heap, w, ScanGen(w)) = ForwardHeap(heap, w, gen)
         /\ ForwardWord(heap, w, ScanGen(w)) = ForwardWord(heap, w, gen)
         /\ NewFields(heap, w, ScanGen(w)) = NewFields(heap, w, gen)
<1>1. CASE ScanGen(w) = gen
  BY <1>1
<1>2. CASE ScanGen(w) # gen
  <2>1. gen = ToSpace /\ w \in Addr /\ heap[w].space = ToSpace
    BY <1>2 DEF ScanGen, IsInFromSpace
  <2>2. AlreadyMoved(heap, w)
    BY <2>1 DEF Found, Stays, Live, ToSpace
  <2> QED
    BY <2>1, <2>2 DEF ForwardHeap, ForwardWord, NewFields, ToForward
<1> QED
  BY <1>1, <1>2

(* What ForwardField does to the heap.                                     *)
LEMMA VisitField ==
  ASSUME gen \in 1..ToSpace, NEW p, NEW r, Sound(heap, gen, p, r),
         NEW a, NEW i, CanVisit(heap, gen, p, a, i),
         NEW w, w = Deref(heap, heap[a].args[i]), NEW u, u = ForwardWord(heap, w, gen),
         NEW f, f = <<a, i>>, heap' = [ForwardHeap(heap, w, gen) EXCEPT ![f[1]].args[f[2]] = u]
  PROVE  /\ Found(heap, gen, a, w)
         /\ Forwarded(heap, ForwardHeap(heap, w, gen), gen, w, u)
         /\ Stored(ForwardHeap(heap, w, gen), heap', a, i, u, heap[a].childish)
         /\ Visits(heap, heap', gen, w, u, a, i, u)
         /\ u \in Word
<1> DEFINE k == ForwardHeap(heap, w, gen)
<1>1. Found(heap, gen, a, w) /\ Forwarded(heap, k, gen, w, u)
  BY FoundIs
<1> HIDE DEF k
<1>2. a \in Addr /\ Stays(heap, gen, a) /\ i \in DOMAIN heap[a].args /\ HeapType(heap, gen)
  BY DEF CanVisit, Sound, HeapOK
<1>3. k[a] = heap[a]
  BY <1>1, <1>2, ForwardKeeps
<1>4. k \in [Addr -> Blocks] /\ heap[a].childish \in BOOLEAN /\ u \in Word /\ u \in Field
  BY <1>1, <1>2 DEF Forwarded, Cloned, HeapType, Blocks, Field
<1>5. Stored(k, heap', a, i, u, heap[a].childish)
  <2>1. heap' = [k EXCEPT ![a].args[i] = u]
    BY DEF k
  <2>2. Stores(k, heap', a, i, u, heap[a].childish)
    BY <1>3, <2>1 DEF Stores
  <2> QED
    BY <1>2, <1>3, <1>4, <2>2, StoredIs
<1>6. Visits(heap, heap', gen, w, u, a, i, u)
  BY <1>1, <1>2, <1>5, VisitsIs
<1> QED
  BY <1>1, <1>4, <1>5, <1>6 DEF k

(* What is pending once a block has been forwarded and its fields are to be   *)
(* visited; the table of the startup map is, anyway.                       *)
LEMMA ForwardPending ==
  ASSUME NEW h, NEW g \in 1..ToSpace, HeapOK(h, g), NEW p, NEW w, NEW u,
         u = ForwardWord(h, w, g), Forwarded(h, ForwardHeap(h, w, g), g, w, u),
         h[w].label = "WEAK_MAP" /\ ToForward(h, w, g) =>
           \A f \in FieldRef : f[1][1] = StartupMap => f \in p
  PROVE  IF ToForward(h, w, g)
         THEN MorePending(h, w, u, p, p \cup Range(NewFields(h, w, g)))
         ELSE p \cup Range(NewFields(h, w, g)) = p
<1> DEFINE t == NewFields(h, w, g)
<1>1. \A f : f \in Range(t) <=>
           /\ ToForward(h, w, g) /\ h[w].label # "WEAK_MAP"
           /\ \E j \in DOMAIN h[w].args : h[w].args[j] \in Addr /\ f = <<u, j>>
  BY NewFieldsIs
<1> HIDE DEF t
<1>2. CASE ToForward(h, w, g)
  <2>1. w \in Addr /\ Live(h, w) /\ u \in Addr /\ u[1] = w[1]
    BY <1>2 DEF Forwarded, Cloned
  <2>2. CASE h[w].label # "WEAK_MAP"
    BY <1>1, <1>2, <2>2 DEF MorePending, t
  <2>3. CASE h[w].label = "WEAK_MAP"
    <3>1. Shape(w, h[w])
      BY <2>1 DEF HeapOK, Linked
    <3>2. w[1] = StartupMap
      BY <2>3, <3>1 DEF Shape
    <3>3. \A j \in DOMAIN h[w].args : <<u, j>> \in FieldRef
      <4>1. \A j \in DOMAIN h[w].args : <<w, j>> \in FieldRef
        BY <2>1, FieldNumbers
      <4> QED
        BY <2>1, <4>1 DEF FieldRef
    <3>4. \A j \in DOMAIN h[w].args : <<u, j>> \in p
      BY <1>2, <2>1, <2>3, <3>2, <3>3
    <3> QED
      BY <1>1, <1>2, <2>3, <3>4 DEF MorePending, t
  <2> QED
    BY <2>2, <2>3
<1>3. CASE ~ToForward(h, w, g)
  BY <1>1, <1>3 DEF t
<1> QED
  BY <1>2, <1>3

(* A step has visited field i of the block at a: it found w, which is at u   *)
(* now, and stored v.                                                      *)
VisitedField(a, i, w, u, v) ==
  /\ a \in Addr /\ Stays(heap, gen, a) /\ i \in DOMAIN heap[a].args
  /\ <<a, i>> \in PendingFields /\ <<a, i>> \notin PendingFields'
  /\ Visits(heap, heap', gen, w, u, a, i, v)
  /\ \A f \in PendingFields' : f \in PendingFields \/ (ToForward(heap, w, gen) /\ f[1] = u)
  /\ ToForward(heap, w, gen) => (u[1] \in Table <=> a[1] = StartupMap)

(* CheneyScan, FinalizeCheneyScan.                                          *)
LEMMA ScanFieldStep ==
  ASSUME IInv, ScanField
  PROVE  /\ IInv'
         /\ gen = ToSpace =>
              \E a, i, w, u : /\ VisitedField(a, i, w, u, u)
                              /\ a[1] # StartupMap /\ a[1] \notin Table
<1> DEFINE f == Head(scan)
           a == f[1]
           i == f[2]
           w == Deref(heap, heap[a].args[i])
           u == ForwardWord(heap, w, gen)
           t == NewFields(heap, w, gen)
<1>1. /\ phase \in {"scanRoots", "scanOld", "scanFinal"} /\ scan # <<>>
      /\ heap' = [ForwardHeap(heap, w, ScanGen(w)) EXCEPT
                    ![a].args[i] = ForwardWord(heap, w, ScanGen(w))]
      /\ scan' = Tail(scan) \o NewFields(heap, w, ScanGen(w))
      /\ UNCHANGED <<root, intgenSet, wkDictSet, finSet, phase, gen, todo, slots>>
  BY DEF ScanField, ForwardField, sets
<1>2. /\ phase # "mutator" /\ phase \notin Outside /\ phase \notin Outside \cup {"dicts"}
      /\ phase \notin {"intgen", "entry", "dicts", "entries"}
      /\ phase = "scanRoots" \/ phase = "scanOld" \/ phase = "scanFinal"
      /\ phase # "scanFinal" => phase \in BeforeDicts
      /\ phase = "scanRoots" => phase \in BeforeOld
      /\ gen \in 1..ToSpace /\ Bound = gen
  BY <1>1 DEF IInv, PhaseOK, Outside, Bound, BeforeDicts, BeforeOld
<1>3. Sound(heap, gen, PendingFields, RememberedBlocks) /\ HeapOK(heap, gen) /\ ScanOK
  BY <1>2 DEF IInv, HeapInv, Sound
<1>4. /\ scan \in Seq(FieldRef) /\ f \in FieldRef /\ f \in Range(scan)
      /\ Tail(scan) \in Seq(FieldRef) /\ IsInjective(Tail(scan)) /\ f \notin Range(Tail(scan))
      /\ Range(scan) = {f} \cup Range(Tail(scan))
  <2>1. scan \in Seq(FieldRef) /\ IsInjective(scan)
    BY <1>3 DEF ScanOK
  <2> QED
    BY <1>1, <2>1, TailRange
<1>5. a \in Addr /\ f = <<a, i>>
  BY <1>4 DEF FieldRef
<1>6. /\ Stays(heap, gen, a) /\ heap[a].space = gen /\ a[1] # StartupMap
      /\ i \in DOMAIN heap[a].args /\ heap[a].args[i] \in Word
  BY <1>3, <1>4 DEF ScanOK
<1>7. CanVisit(heap, gen, PendingFields, a, i)
  <2>1. f \in PendingFields
    BY <1>4 DEF PendingFields, PendingHere
  <2> QED
    BY <1>5, <1>6, <2>1 DEF CanVisit
<1> HIDE DEF a, i, f, u, t
<1>8. Found(heap, gen, a, w)
  BY <1>2, <1>3, <1>7, FoundIs
<1>9. PICK x : x = w
  OBVIOUS
<1>10. heap' = [ForwardHeap(heap, x, gen) EXCEPT ![f[1]].args[f[2]] = u] /\ scan' = Tail(scan) \o t
  BY <1>1, <1>8, <1>9, ScanGenIs DEF u, t, a, i
<1>11. u = ForwardWord(heap, x, gen) /\ t = NewFields(heap, x, gen)
  BY <1>9 DEF u, t
<1> HIDE DEF w
<1>12. /\ Found(heap, gen, a, w)
       /\ Forwarded(heap, ForwardHeap(heap, w, gen), gen, w, u)
       /\ Stored(ForwardHeap(heap, w, gen), heap', a, i, u, heap[a].childish)
       /\ Visits(heap, heap', gen, w, u, a, i, u)
       /\ u \in Word
  BY <1>2, <1>3, <1>5, <1>7, <1>9, <1>10, <1>11, VisitField DEF w
<1>13. /\ ScanOK' /\ Range(scan') = Range(Tail(scan)) \cup Range(t)
       /\ Range(Tail(scan)) \cap Range(t) = {}
  <2>1. UNCHANGED <<gen, phase>>
    BY <1>1
  <2>2. t = NewFields(heap, w, gen) /\ u = ForwardWord(heap, w, gen)
    BY <1>9, <1>11
  <2>3. scan' = Tail(scan) \o NewFields(heap, w, gen)
    BY <1>10, <2>2
  <2>4. PICK s : s = Tail(scan)
    OBVIOUS
  <2>5. /\ s \in Seq(FieldRef) /\ IsInjective(s) /\ Range(s) \subseteq Range(scan)
        /\ scan' = s \o NewFields(heap, w, gen)
    BY <1>4, <2>3, <2>4
  <2>6. <<a, i>> \in Range(s) => u \in Word
    BY <1>12
  <2>7. gen = ToSpace \/ phase \in {"entries", "scanFinal"} => a[1] # StartupMap
    BY <1>6
  <2>8. /\ ScanOK' /\ Range(scan') = Range(s) \cup Range(NewFields(heap, w, gen))
        /\ Range(s) \cap Range(NewFields(heap, w, gen)) = {}
    BY <1>2, <1>3, <1>12, <2>1, <2>2, <2>5, <2>6, <2>7, VisitScan
  <2> QED
    BY <2>2, <2>4, <2>8
<1>14. /\ \A e : e \in Range(t) <=>
                /\ ToForward(heap, w, gen) /\ heap[w].label # "WEAK_MAP"
                /\ \E j \in DOMAIN heap[w].args : heap[w].args[j] \in Addr /\ e = <<u, j>>
       /\ t \in Seq(FieldRef)
  BY <1>2, <1>3, <1>9, <1>11, <1>12, NewFieldsIs
<1>15. \A e : e \in PendingFields' <=>
                e \in FieldRef /\ (e \in Range(scan') \/ (e \in PendingFields /\ e \notin Range(scan))
                  \/ (phase = "scanRoots" /\ e[1] \in Range(intgenSet))
                  \/ (phase \in BeforeDicts /\ e[1][1] = StartupMap))
  BY <1>1, <1>2 DEF PendingFields, PendingHere
<1>16. \A e : e \in PendingFields <=>
                e \in FieldRef /\ (e \in Range(scan)
                  \/ (phase = "scanRoots" /\ e[1] \in Range(intgenSet))
                  \/ (phase \in BeforeDicts /\ e[1][1] = StartupMap))
  BY <1>1, <1>2 DEF PendingFields, PendingHere
<1>17. gen = ToSpace => f \notin PendingFields'
  <2> SUFFICES ASSUME gen = ToSpace, f \in PendingFields'
               PROVE  FALSE
    OBVIOUS
  <2>1. f \notin Range(scan')
    <3>1. f \notin Range(t)
      <4>1. ToForward(heap, w, gen) => u # a
        BY <1>6, <1>12 DEF Visits, Stays, Live
      <4> QED
        BY <1>5, <1>14, <4>1
    <3> QED
      BY <1>4, <1>13, <3>1
  <2>2. phase = "scanRoots" => a \notin Range(intgenSet)
    <3>1. phase = "scanRoots" => \A c \in RememberedBlocks : ~Stays(heap, gen, c)
      BY <1>2 DEF IInv, IntgenOK
    <3> QED
      BY <1>6, <3>1 DEF RememberedBlocks
  <2>3. f[1] = a /\ a[1] # StartupMap
    BY <1>6 DEF a
  <2> QED
    BY <1>4, <1>15, <2>1, <2>2, <2>3
<1>18. Sound(heap', gen, PendingFields', RememberedBlocks)
  <2> DEFINE p1 == PendingFields \cup Range(t)
  <2>1. IF ToForward(heap, w, gen) THEN MorePending(heap, w, u, PendingFields, p1)
        ELSE p1 = PendingFields
    <3>1. ASSUME heap[w].label = "WEAK_MAP", ToForward(heap, w, gen)
          PROVE  phase \in BeforeDicts
      <4> SUFFICES ASSUME phase = "scanFinal"
                   PROVE  FALSE
        BY <1>2
      <4>1. w \in Addr /\ Live(heap, w) /\ Alone(heap, w) /\ ~Stays(heap, gen, w)
        BY <1>12, <3>1 DEF Forwarded, Cloned
      <4>2. Shape(w, heap[w])
        BY <1>3, <4>1 DEF HeapOK, Linked
      <4>3. w[1] = StartupMap /\ StartupMap # None
        BY <3>1, <4>1, <4>2, StartupIs DEF Shape, Addr
      <4>4. MapAt \in Addr /\ MapAt[1] = StartupMap /\ Stays(heap, gen, MapAt)
        BY <1>2, <4>3 DEF IInv, MapOK, HeapInv, RootOK, MapAt
      <4> QED
        BY <4>1, <4>3, <4>4 DEF Alone, Stays, Live
    <3>2. ASSUME heap[w].label = "WEAK_MAP", ToForward(heap, w, gen)
          PROVE  \A e \in FieldRef : e[1][1] = StartupMap => e \in PendingFields
      BY <1>16, <3>1, <3>2
    <3> QED
      BY <1>2, <1>3, <1>9, <1>11, <1>12, <3>2, ForwardPending
  <2>2. Visited(gen, PendingFields \cup Range(t), PendingFields', <<a, i>>)
    <3>1. PendingFields' \subseteq PendingFields \cup Range(t)
      BY <1>4, <1>13, <1>14, <1>15, <1>16
    <3>2. \A e \in PendingFields \cup Range(t) : e \in PendingFields' \/ e = f
      <4>1. \A e \in Range(t) : e \in FieldRef
        BY <1>14 DEF Range
      <4> QED
        BY <1>4, <1>13, <1>15, <1>16, <4>1
    <3> QED
      BY <1>5, <1>17, <3>1, <3>2 DEF Visited
  <2> QED
    BY <1>2, <1>3, <1>6, <1>7, <1>12, <2>1, <2>2, VisitSound
<1>19. a = root /\ i = 1 =>
         u = u /\ w = Deref(heap, MapAt) /\ u = ForwardWord(heap, w, gen)
  BY DEF w, u, MapAt
<1>20. PhaseOK' /\ HeapInv' /\ IntgenOK' /\ MapOK' /\ FinalOK'
  <2>1. phase \in {"scanRoots", "scanOld", "scanFinal", "entry"}
    BY <1>1
  <2> QED
    BY <1>1, <1>6, <1>12, <1>18, <1>19, <2>1, VisitRest
<1>21. ASSUME gen = ToSpace
       PROVE  VisitedField(a, i, w, u, u) /\ a[1] \notin Table
  <2>1. <<a, i>> \in PendingFields /\ a[1] \notin Table
    BY <1>3, <1>4, <1>7, <1>21 DEF CanVisit, ScanOK, a
  <2>2. ASSUME NEW e \in PendingFields', e \notin PendingFields
        PROVE  ToForward(heap, w, gen) /\ e[1] = u
    BY <1>4, <1>13, <1>14, <1>15, <1>16, <2>2
  <2>3. ToForward(heap, w, gen) => (u[1] \in Table <=> a[1] = StartupMap)
    BY <1>8, <1>9, <1>12 DEF Found, Visits
  <2> QED
    BY <1>5, <1>6, <1>12, <1>17, <1>21, <2>1, <2>2, <2>3 DEF VisitedField
<1> QED
  BY <1>6, <1>13, <1>20, <1>21 DEF IInv

(* HandleInterGenerationalPointers starts and ends: intgenSet becomes the    *)
(* list to visit.                                                          *)
LEMMA StartIntgenStep ==
  ASSUME IInv, StartIntgen
  PROVE  IInv'
<1>1. /\ phase = "scanRoots" /\ phase' = "intgen" /\ scan = <<>>
      /\ todo' = intgenSet /\ intgenSet' = <<>>
      /\ UNCHANGED <<heap, root, wkDictSet, finSet, gen, scan, slots>>
  BY DEF StartIntgen
<1>2. Range(<<>>) = {} /\ IsInjective(<<>>) /\ <<>> \in Seq(Addr)
  BY DEF Range, IsInjective
<1>3. /\ phase # "mutator" /\ phase \notin Outside /\ phase \in BeforeOld /\ phase \in BeforeDicts
      /\ phase' \notin Outside /\ phase' \in Phases /\ phase' \in BeforeOld /\ phase' \in BeforeDicts
      /\ gen \in 1..ToSpace /\ Bound = gen /\ Bound' = gen
      /\ phase' \notin {"mutator", "scanRoots", "entry", "scanOld", "dicts", "entries", "scanFinal", "finalize"}
      /\ phase \notin {"mutator", "intgen", "entry", "scanOld", "dicts", "entries", "scanFinal", "finalize"}
  BY <1>1 DEF IInv, PhaseOK, Outside, Bound, Phases, BeforeDicts, BeforeOld
<1>4. /\ ToVisit = <<>> /\ ToVisit' = intgenSet /\ RememberedBlocks = Range(intgenSet)
      /\ RememberedBlocks' = RememberedBlocks
  BY <1>1, <1>2 DEF ToVisit, RememberedBlocks
<1>5. PendingFields' = PendingFields
  <2>1. \A f : PendingHere(f)' <=> PendingHere(f)
    BY <1>1, <1>3 DEF PendingHere
  <2> QED
    BY <2>1 DEF PendingFields
<1>6. PhaseOK'
  BY <1>1, <1>3 DEF IInv, PhaseOK, MapsAreRooted
<1>7. HeapInv'
  BY <1>1, <1>3, <1>4, <1>5 DEF IInv, HeapInv
<1>8. ScanOK'
  BY <1>1, <1>2, <1>3 DEF IInv, ScanOK
<1>9. IntgenOK'
  BY <1>1, <1>2, <1>3, <1>4 DEF IInv, IntgenOK
<1>10. MapOK'
  <2>1. \A d : WasMap(d)' <=> WasMap(d)
    BY <1>1 DEF WasMap, MapAt
  <2> QED
    BY <1>1, <1>3, <2>1 DEF IInv, MapOK
<1>11. FinalOK'
  BY <1>1, <1>3 DEF IInv, FinalOK
<1> QED
  BY <1>6, <1>7, <1>8, <1>9, <1>10, <1>11 DEF IInv

(* After the last entry all old blocks with young pointers have been        *)
(* visited and remembered again.                                            *)
LEMMA EndIntgenStep ==
  ASSUME IInv, EndIntgen
  PROVE  IInv'
<1>1. /\ phase = "intgen" /\ phase' = "scanOld" /\ todo = <<>>
      /\ UNCHANGED <<heap, root, intgenSet, wkDictSet, finSet, gen, scan, todo, slots>>
  BY DEF EndIntgen, sets, loops
<1>2. Range(<<>>) = {}
  BY DEF Range
<1>3. /\ phase # "mutator" /\ phase \notin Outside /\ phase \in BeforeOld /\ phase \in BeforeDicts
      /\ phase' \notin Outside /\ phase' \in Phases /\ phase' \in BeforeDicts
      /\ gen \in 1..ToSpace /\ Bound = gen /\ Bound' = gen
      /\ phase' \notin {"mutator", "scanRoots", "intgen", "entry", "dicts", "entries", "scanFinal", "finalize"}
      /\ phase \notin {"mutator", "scanRoots", "entry", "scanOld", "dicts", "entries", "scanFinal", "finalize"}
      /\ phase' \notin BeforeOld
  BY <1>1 DEF IInv, PhaseOK, Outside, Bound, Phases, BeforeDicts, BeforeOld
<1>4. /\ ToVisit = <<>> /\ ToVisit' = <<>> /\ RememberedBlocks' = RememberedBlocks
  BY <1>1 DEF ToVisit, RememberedBlocks
<1>5. PendingFields' = PendingFields
  <2>1. \A f : PendingHere(f)' <=> PendingHere(f)
    BY <1>1, <1>2, <1>3 DEF PendingHere
  <2> QED
    BY <2>1 DEF PendingFields
<1>6. PhaseOK'
  BY <1>1, <1>3 DEF IInv, PhaseOK, MapsAreRooted
<1>7. HeapInv'
  BY <1>1, <1>3, <1>4, <1>5 DEF IInv, HeapInv
<1>8. ScanOK'
  BY <1>1, <1>3 DEF IInv, ScanOK
<1>9. IntgenOK'
  BY <1>1, <1>3, <1>4 DEF IInv, IntgenOK
<1>10. MapOK'
  <2>1. \A d : WasMap(d)' <=> WasMap(d)
    BY <1>1 DEF WasMap, MapAt
  <2> QED
    BY <1>1, <1>3, <2>1 DEF IInv, MapOK
<1>11. FinalOK'
  BY <1>1, <1>3 DEF IInv, FinalOK
<1> QED
  BY <1>6, <1>7, <1>8, <1>9, <1>10, <1>11 DEF IInv

(* The flag of a copy is not set, so that clearing it changes nothing.      *)
LEMMA CopyUnflagged ==
  ASSUME IInv, phase = "intgen", NEW e \in Addr, AlreadyMoved(heap, e)
  PROVE  [heap EXCEPT ![heap[e].fwd].childish = FALSE] = heap
<1> DEFINE b == heap[e].fwd
<1>1. Bound = gen /\ phase \in BeforeOld
  BY DEF Bound, Outside, BeforeOld
<1>2. Sound(heap, gen, PendingFields, RememberedBlocks) /\ b \notin RememberedBlocks
  BY <1>1 DEF IInv, HeapInv, IntgenOK
<1>3. HeapType(heap, gen) /\ ForwardsOK(heap, gen) /\ RememberedOK(heap, gen, RememberedBlocks)
  BY <1>2 DEF Sound, HeapOK
<1>4. b \in Addr /\ Stays(heap, gen, b)
  BY <1>3 DEF HeapType, Blocks, AlreadyMoved, ForwardsOK
<1> HIDE DEF b
<1>5. heap \in [Addr -> Blocks] /\ heap[b] \in Blocks /\ heap[b].childish = FALSE
  BY <1>2, <1>3, <1>4 DEF HeapType, RememberedOK, Blocks
<1>6. [heap[b] EXCEPT !.childish = FALSE] = heap[b]
  BY <1>5 DEF Blocks
<1>7. [heap EXCEPT ![b].childish = FALSE] = heap
  BY <1>4, <1>5, <1>6
<1> QED
  BY <1>7 DEF b

(* The next entry of intgenSet: it is still old, or it is not live.         *)
LEMMA IntgenEntryStep ==
  ASSUME IInv, IntgenEntry
  PROVE  IInv'
<1> DEFINE e == Head(todo)
           old == ~AlreadyMoved(heap, e) /\ Generation(heap, e) >= gen
<1>1. /\ phase = "intgen" /\ todo # <<>>
      /\ heap' = IF AlreadyMoved(heap, e)
                 THEN [heap EXCEPT ![heap[e].fwd].childish = FALSE] ELSE heap
      /\ phase' = IF old THEN "entry" ELSE "intgen"
      /\ slots' = IF old THEN Fields(e, heap[e]) ELSE <<>>
      /\ todo' = IF old THEN todo ELSE Tail(todo)
      /\ UNCHANGED <<root, intgenSet, wkDictSet, finSet, gen, scan>>
  BY DEF IntgenEntry, sets
<1>2. /\ phase \notin {"mutator", "scanRoots", "entry", "scanOld", "dicts", "entries", "scanFinal", "finalize"}
      /\ phase' \notin {"mutator", "scanRoots", "scanOld", "dicts", "entries", "scanFinal", "finalize"}
      /\ phase \notin Outside /\ phase \in BeforeOld /\ phase \in BeforeDicts
      /\ phase' \notin Outside /\ phase' \in Phases /\ phase' \in BeforeOld /\ phase' \in BeforeDicts
      /\ gen \in 1..ToSpace /\ Bound = gen /\ Bound' = gen
      /\ ToVisit = todo /\ ToVisit' = todo'
  BY <1>1 DEF IInv, PhaseOK, Outside, Bound, Phases, BeforeDicts, BeforeOld, ToVisit
<1>3. /\ todo \in Seq(Addr) /\ IsInjective(todo) /\ Range(intgenSet) \cap Range(todo) = {}
      /\ intgenSet \in Seq(Addr) /\ IsInjective(intgenSet)
      /\ \A a \in Range(intgenSet) : Stays(heap, gen, a)
      /\ \A a \in Addr : AlreadyMoved(heap, a) => heap[a].fwd \notin RememberedBlocks
      /\ gen = ToSpace => \A a \in RememberedBlocks : ~Stays(heap, gen, a)
      /\ RememberedBlocks = Range(intgenSet) \cup Range(todo)
  BY <1>2 DEF IInv, IntgenOK, RememberedBlocks
<1>4. /\ e \in Addr /\ e \in Range(todo) /\ Tail(todo) \in Seq(Addr)
      /\ IsInjective(Tail(todo)) /\ e \notin Range(Tail(todo))
      /\ Range(todo) = {e} \cup Range(Tail(todo))
  BY <1>1, <1>3, TailRange
<1> HIDE DEF e
<1>5. heap' = heap
  BY <1>1, <1>4, CopyUnflagged
<1>6. Sound(heap, gen, PendingFields, RememberedBlocks) /\ RootOK(heap, gen, root)
  BY <1>2 DEF IInv, HeapInv
<1>7. /\ HeapType(heap, gen) /\ HeapOK(heap, gen) /\ RememberedOK(heap, gen, RememberedBlocks)
  BY <1>6 DEF Sound, HeapOK
<1>8. Alloc(heap, e) /\ heap[e].space \in 0..3 /\ (heap[e].space = 3 => gen = 3)
  BY <1>3, <1>4, <1>7 DEF RememberedOK, HeapType, Blocks, Alloc, ToSpace
<1>9. old <=> Stays(heap, gen, e)
  <2>1. gen \in 1..3
    BY <1>2 DEF ToSpace
  <2>2. gen = 3 => ~Stays(heap, gen, e)
    BY <1>3, <1>4 DEF ToSpace
  <2> QED
    BY <1>8, <2>1, <2>2 DEF Stays, Live, Generation, Oldest, ToSpace
<1> HIDE DEF old
<1>10. PhaseOK'
  BY <1>1, <1>2, <1>5 DEF IInv, PhaseOK, MapsAreRooted
<1>11. ScanOK'
  BY <1>1, <1>2, <1>5 DEF IInv, ScanOK
<1>12. MapOK'
  <2>1. \A d : WasMap(d)' <=> WasMap(d)
    BY <1>1, <1>5 DEF WasMap, MapAt
  <2> QED
    BY <1>1, <1>2, <1>5, <2>1 DEF IInv, MapOK
<1>13. FinalOK'
  BY <1>1, <1>2, <1>5 DEF IInv, FinalOK
<1>14. \A f : f \in PendingFields <=>
         f \in FieldRef /\ (f \in Range(scan) \/ f[1] \in Range(todo) \/ f[1][1] = StartupMap)
  BY <1>1, <1>2 DEF PendingFields, PendingHere
<1>15. CASE old
  <2>1. phase' = "entry" /\ slots' = Fields(e, heap[e]) /\ todo' = todo /\ Stays(heap, gen, e)
    BY <1>1, <1>9, <1>15
  <2>2. /\ slots' \in Seq(FieldRef)
        /\ \A f : f \in Range(slots') <=>
             \E i \in DOMAIN heap[e].args : heap[e].args[i] \in Addr /\ f = <<e, i>>
    <3>1. heap[e].args \in Seq(Field)
      BY <1>4, <1>7 DEF HeapType, Blocks
    <3>2. AddressFields(e, heap[e], slots')
      BY <1>4, <2>1, <3>1, FieldsIs
    <3>3. {e} \X DOMAIN heap[e].args \subseteq FieldRef
      BY <1>4, <1>7, <2>1, FieldNumbers DEF Stays
    <3> QED
      BY <3>2, <3>3 DEF AddressFields
  <2>3. RememberedBlocks' = RememberedBlocks
    BY <1>1, <1>2, <2>1 DEF RememberedBlocks
  <2>4. PICK t : t = Tail(todo)
    OBVIOUS
  <2>5. \A f : f \in PendingFields' <=>
          f \in FieldRef /\ (f \in Range(scan) \/ f[1] \in Range(t) \/ f \in Range(slots')
                              \/ f[1][1] = StartupMap)
    BY <1>1, <1>2, <2>1, <2>4 DEF PendingFields, PendingHere
  <2>6. SamePending(heap, gen, PendingFields, PendingFields')
    <3>1. \A f \in PendingFields' : f \in PendingFields
      BY <1>4, <1>14, <2>2, <2>4, <2>5
    <3>2. ASSUME NEW a \in Addr, NEW i \in DOMAIN heap[a].args, heap[a].args[i] \in Addr,
                 <<a, i>> \in PendingFields
          PROVE  <<a, i>> \in PendingFields'
      BY <1>4, <1>14, <2>2, <2>4, <2>5, <3>2
    <3> QED
      BY <3>1, <3>2 DEF SamePending
  <2>7. HeapInv'
    <3>1. SameRemembered(heap, gen, RememberedBlocks, RememberedBlocks)
      BY <1>7 DEF RememberedOK, SameRemembered
    <3>2. Sound(heap, gen, PendingFields', RememberedBlocks)
      BY <1>6, <2>6, <3>1, SoundChange
    <3> QED
      BY <1>1, <1>2, <1>5, <1>6, <2>3, <3>2 DEF HeapInv
  <2>8. IntgenOK'
    <3>1. \A f \in Range(slots') :
            /\ f[1] = e /\ f[2] \in DOMAIN heap[f[1]].args /\ heap[f[1]].args[f[2]] \in Word
      BY <2>2 DEF Word
    <3> QED
      BY <1>1, <1>2, <1>3, <1>5, <2>1, <2>2, <2>3, <3>1 DEF IntgenOK, e
  <2> QED
    BY <1>10, <1>11, <1>12, <1>13, <2>7, <2>8 DEF IInv
<1>16. CASE ~old
  <2>1. phase' = "intgen" /\ slots' = <<>> /\ todo' = Tail(todo) /\ ~Stays(heap, gen, e)
    BY <1>1, <1>9, <1>16
  <2>2. /\ todo' \in Seq(Addr) /\ IsInjective(todo') /\ Range(todo) = {e} \cup Range(todo')
    BY <1>4, <2>1
  <2>3. RememberedBlocks' = Range(intgenSet) \cup Range(todo')
    BY <1>1, <1>2 DEF RememberedBlocks
  <2>4. \A f : f \in PendingFields' <=>
          f \in FieldRef /\ (f \in Range(scan) \/ f[1] \in Range(todo') \/ f[1][1] = StartupMap)
    BY <1>1, <1>2, <2>1 DEF PendingFields, PendingHere
  <2>5. SamePending(heap, gen, PendingFields, PendingFields')
    BY <1>14, <2>1, <2>2, <2>4 DEF SamePending
  <2>6. SameRemembered(heap, gen, RememberedBlocks, RememberedBlocks')
    BY <1>3, <1>7, <2>1, <2>2, <2>3 DEF RememberedOK, SameRemembered
  <2>7. HeapInv'
    <3>1. Sound(heap, gen, PendingFields', RememberedBlocks')
      BY <1>6, <2>5, <2>6, SoundChange
    <3> QED
      BY <1>1, <1>2, <1>5, <1>6, <3>1 DEF HeapInv
  <2>8. IntgenOK'
    BY <1>1, <1>2, <1>3, <1>5, <2>1, <2>2, <2>3 DEF IntgenOK
  <2> QED
    BY <1>10, <1>11, <1>12, <1>13, <2>7, <2>8 DEF IInv
<1> QED
  BY <1>15, <1>16

(* A field of an old block in intgenSet.                                   *)
LEMMA IntgenFieldStep ==
  ASSUME IInv, IntgenField
  PROVE  IInv'
<1> DEFINE f == Head(slots)
           a == f[1]
           i == f[2]
           w == Deref(heap, heap[a].args[i])
           u == ForwardWord(heap, w, gen)
           t == NewFields(heap, w, gen)
<1>1. /\ phase = "entry" /\ slots # <<>>
      /\ heap' = [ForwardHeap(heap, w, gen) EXCEPT ![a].args[i] = u]
      /\ scan' = scan \o t /\ slots' = Tail(slots)
      /\ UNCHANGED <<root, intgenSet, wkDictSet, finSet, phase, gen, todo>>
  BY DEF IntgenField, ForwardField, sets
<1>2. /\ phase # "mutator" /\ phase \notin Outside /\ phase \notin Outside \cup {"dicts"}
      /\ phase \in BeforeDicts /\ phase \in BeforeOld
      /\ phase \notin {"scanRoots", "intgen", "dicts", "entries", "scanFinal"}
      /\ gen \in 1..ToSpace /\ Bound = gen /\ ToVisit = todo
  BY <1>1 DEF IInv, PhaseOK, Outside, Bound, BeforeDicts, BeforeOld, ToVisit
<1>3. Sound(heap, gen, PendingFields, RememberedBlocks) /\ HeapOK(heap, gen) /\ ScanOK
  BY <1>2 DEF IInv, HeapInv, Sound
<1>4. /\ todo \in Seq(Addr) /\ todo # <<>> /\ Stays(heap, gen, Head(todo))
      /\ slots \in Seq(FieldRef)
      /\ \A e \in Range(slots) : /\ e[1] = Head(todo) /\ e[2] \in DOMAIN heap[e[1]].args
                                 /\ heap[e[1]].args[e[2]] \in Word
      /\ gen = ToSpace => \A c \in RememberedBlocks : ~Stays(heap, gen, c)
      /\ RememberedBlocks = Range(intgenSet) \cup Range(todo)
  BY <1>1, <1>2 DEF IInv, IntgenOK, RememberedBlocks
<1>5. PICK rest : rest = Tail(slots)
  OBVIOUS
<1>6. /\ f \in FieldRef /\ f \in Range(slots) /\ rest \in Seq(FieldRef)
      /\ Range(slots) = {f} \cup Range(rest)
  <2>1. slots \in Seq(FieldRef) /\ slots # <<>>
    BY <1>1, <1>4
  <2>2. /\ Tail(slots) \in Seq(FieldRef) /\ Head(slots) \in FieldRef
        /\ Range(slots) = {Head(slots)} \cup Range(Tail(slots))
    BY <2>1, TailRange
  <2> QED
    BY <1>5, <2>2
<1>7. a \in Addr /\ f = <<a, i>>
  BY <1>6 DEF FieldRef
<1>8. /\ a = Head(todo) /\ a \in RememberedBlocks /\ gen # ToSpace
      /\ Stays(heap, gen, a) /\ i \in DOMAIN heap[a].args /\ heap[a].args[i] \in Word
  <2>1. Head(todo) \in Range(todo)
    BY <1>4, TailRange
  <2> QED
    BY <1>4, <1>6, <2>1
<1>9. CanVisit(heap, gen, PendingFields, a, i)
  BY <1>7, <1>8 DEF CanVisit
<1> HIDE DEF a, i, f, u, t
<1>10. PICK x : x = w
  OBVIOUS
<1>11. heap' = [ForwardHeap(heap, x, gen) EXCEPT ![f[1]].args[f[2]] = u] /\ scan' = scan \o t
  BY <1>1, <1>10 DEF a, i
<1>12. u = ForwardWord(heap, x, gen) /\ t = NewFields(heap, x, gen)
  BY <1>10 DEF u, t
<1> HIDE DEF w
<1>13. /\ Found(heap, gen, a, w)
       /\ Forwarded(heap, ForwardHeap(heap, w, gen), gen, w, u)
       /\ Stored(ForwardHeap(heap, w, gen), heap', a, i, u, heap[a].childish)
       /\ Visits(heap, heap', gen, w, u, a, i, u)
       /\ u \in Word
  BY <1>2, <1>3, <1>7, <1>9, <1>10, <1>11, <1>12, VisitField DEF w
<1>14. ScanOK' /\ Range(scan') = Range(scan) \cup Range(t)
  <2>1. UNCHANGED <<gen, phase>>
    BY <1>1
  <2>2. t = NewFields(heap, w, gen) /\ u = ForwardWord(heap, w, gen)
    BY <1>10, <1>12
  <2>3. scan' = scan \o NewFields(heap, w, gen) /\ scan \in Seq(FieldRef) /\ IsInjective(scan)
    BY <1>3, <1>11, <2>2 DEF ScanOK
  <2>4. Range(scan) \subseteq Range(scan)
    OBVIOUS
  <2>6. <<a, i>> \in Range(scan) => u \in Word
    BY <1>13
  <2>7. gen = ToSpace \/ phase \in {"entries", "scanFinal"} => a[1] # StartupMap
    BY <1>2, <1>8
  <2>8. ScanOK' /\ Range(scan') = Range(scan) \cup Range(NewFields(heap, w, gen))
    BY <1>2, <1>3, <1>13, <2>1, <2>2, <2>3, <2>4, <2>6, <2>7, VisitScan
  <2> QED
    BY <2>2, <2>8
<1>15. t \in Seq(FieldRef)
  BY <1>2, <1>3, <1>10, <1>12, <1>13, NewFieldsIs
<1>16. PICK later : later = Tail(todo)
  OBVIOUS
<1>17. \A e : e \in PendingFields' <=>
                e \in FieldRef /\ (e \in Range(scan') \/ e[1] \in Range(later)
                  \/ e \in Range(rest) \/ e[1][1] = StartupMap)
  BY <1>1, <1>2, <1>5, <1>16 DEF PendingFields, PendingHere
<1>18. \A e : e \in PendingFields <=>
                e \in FieldRef /\ (e \in Range(scan) \/ e[1] \in Range(later)
                  \/ e \in Range(slots) \/ e[1][1] = StartupMap)
  BY <1>1, <1>2, <1>16 DEF PendingFields, PendingHere
<1>19. Sound(heap', gen, PendingFields', RememberedBlocks)
  <2> DEFINE p1 == PendingFields \cup Range(t)
  <2>1. IF ToForward(heap, w, gen) THEN MorePending(heap, w, u, PendingFields, p1)
        ELSE p1 = PendingFields
    <3>1. \A e \in FieldRef : e[1][1] = StartupMap => e \in PendingFields
      BY <1>18
    <3> QED
      BY <1>2, <1>3, <1>10, <1>12, <1>13, <3>1, ForwardPending
  <2>2. Visited(gen, PendingFields \cup Range(t), PendingFields', <<a, i>>)
    <3>1. PendingFields' \subseteq PendingFields \cup Range(t)
      BY <1>6, <1>14, <1>17, <1>18
    <3>2. \A e \in PendingFields \cup Range(t) : e \in PendingFields' \/ e = f
      <4>1. \A e \in Range(t) : e \in FieldRef
        BY <1>15 DEF Range
      <4> QED
        BY <1>6, <1>14, <1>17, <1>18, <4>1
    <3> QED
      BY <1>7, <1>8, <3>1, <3>2 DEF Visited
  <2> QED
    BY <1>2, <1>3, <1>8, <1>9, <1>13, <2>1, <2>2, VisitSound
<1>20. a = root /\ i = 1 =>
         u = u /\ w = Deref(heap, MapAt) /\ u = ForwardWord(heap, w, gen)
  BY DEF w, u, MapAt
<1>21. PhaseOK' /\ HeapInv' /\ IntgenOK' /\ MapOK' /\ FinalOK'
  <2>1. phase \in {"scanRoots", "scanOld", "scanFinal", "entry"}
    BY <1>1
  <2>2. slots' = Tail(slots) /\ slots # <<>>
    BY <1>1
  <2> QED
    BY <1>1, <1>8, <1>13, <1>19, <1>20, <2>1, <2>2, VisitRest
<1> QED
  BY <1>14, <1>21 DEF IInv

(* The entry is kept if it still refers to a younger block, and its flag     *)
(* says so.                                                                *)
LEMMA IntgenKeepStep ==
  ASSUME IInv, IntgenKeep
  PROVE  IInv'
<1> DEFINE e == Head(todo)
           keep == FoundYoungPtrs(e)
<1>1. /\ phase = "entry" /\ phase' = "intgen" /\ slots = <<>> /\ slots' = <<>>
      /\ intgenSet' = IF keep THEN Append(intgenSet, e) ELSE intgenSet
      /\ heap' = [heap EXCEPT ![e].childish = keep]
      /\ todo' = Tail(todo)
      /\ UNCHANGED <<root, wkDictSet, finSet, gen, scan>>
  BY DEF IntgenKeep
<1>2. /\ phase \notin {"mutator", "scanRoots", "intgen", "scanOld", "dicts", "entries", "scanFinal", "finalize"}
      /\ phase' \notin {"mutator", "scanRoots", "entry", "scanOld", "dicts", "entries", "scanFinal", "finalize"}
      /\ phase \notin Outside /\ phase \in BeforeOld /\ phase \in BeforeDicts
      /\ phase' \notin Outside /\ phase' \in Phases /\ phase' \in BeforeOld /\ phase' \in BeforeDicts
      /\ gen \in 1..ToSpace /\ Bound = gen /\ Bound' = gen
      /\ ToVisit = todo /\ ToVisit' = todo'
  BY <1>1 DEF IInv, PhaseOK, Outside, Bound, Phases, BeforeDicts, BeforeOld, ToVisit
<1>3. /\ todo \in Seq(Addr) /\ todo # <<>> /\ IsInjective(todo)
      /\ Range(intgenSet) \cap Range(todo) = {}
      /\ intgenSet \in Seq(Addr) /\ IsInjective(intgenSet)
      /\ \A a \in Range(intgenSet) : Stays(heap, gen, a)
      /\ \A a \in Addr : AlreadyMoved(heap, a) => heap[a].fwd \notin RememberedBlocks
      /\ gen = ToSpace => \A a \in RememberedBlocks : ~Stays(heap, gen, a)
      /\ Stays(heap, gen, e)
      /\ RememberedBlocks = Range(intgenSet) \cup Range(todo)
  BY <1>1, <1>2 DEF IInv, IntgenOK, RememberedBlocks
<1>4. /\ e \in Addr /\ e \in Range(todo) /\ todo' \in Seq(Addr)
      /\ IsInjective(todo') /\ e \notin Range(todo')
      /\ Range(todo) = {e} \cup Range(todo')
  BY <1>1, <1>3, TailRange
<1>5. gen # ToSpace /\ e \notin Range(intgenSet) /\ e \in RememberedBlocks
  BY <1>3, <1>4
<1> HIDE DEF e
<1>6. Sound(heap, gen, PendingFields, RememberedBlocks) /\ RootOK(heap, gen, root)
  BY <1>2 DEF IInv, HeapInv
<1>7. /\ HeapType(heap, gen) /\ HeapOK(heap, gen) /\ RememberedOK(heap, gen, RememberedBlocks)
      /\ Linked(heap)
  BY <1>6 DEF Sound, HeapOK
<1>8. keep \in BOOLEAN
  BY DEF FoundYoungPtrs
<1>9. Retagged(heap, heap', e)
  <2> DEFINE b == [heap[e] EXCEPT !.childish = keep]
  <2>1. heap \in [Addr -> Blocks] /\ heap[e] \in Blocks
    BY <1>4, <1>7 DEF HeapType
  <2> HIDE DEF keep
  <2>2. /\ b \in Blocks /\ b.space = heap[e].space /\ b.fwd = heap[e].fwd
        /\ b.args = heap[e].args /\ b.label = heap[e].label /\ b.childish = keep
    BY <1>8, <2>1 DEF Blocks
  <2>3. heap' = [heap EXCEPT ![e] = b]
    BY <1>1, <2>1
  <2> HIDE DEF b
  <2>4. heap' \in [Addr -> Blocks] /\ heap'[e] = b /\ \A c \in Addr : c # e => heap'[c] = heap[c]
    BY <1>4, <2>1, <2>2, <2>3
  <2>5. Shape(e, b)
    <3>1. Shape(e, heap[e])
      BY <1>3, <1>4, <1>7 DEF Linked, Stays
    <3> QED
      BY <2>2, <3>1 DEF Shape
  <2> QED
    BY <2>2, <2>4, <2>5 DEF Retagged
<1>10. heap'[e].childish = keep
  <2> HIDE DEF keep
  <2>1. heap \in [Addr -> Blocks] /\ heap[e] \in Blocks
    BY <1>4, <1>7 DEF HeapType
  <2> QED
    BY <1>1, <1>4, <1>8, <2>1 DEF Blocks
<1>11. /\ intgenSet' \in Seq(Addr) /\ IsInjective(intgenSet')
       /\ Range(intgenSet') = IF keep THEN Range(intgenSet) \cup {e} ELSE Range(intgenSet)
  <2> HIDE DEF keep
  <2>1. CASE keep
    BY <1>1, <1>3, <1>4, <1>5, <2>1, AppendRange
  <2>2. CASE ~keep
    BY <1>1, <1>3, <2>2
  <2> QED
    BY <2>1, <2>2
<1>12. RememberedBlocks' = Range(intgenSet') \cup Range(todo')
  BY <1>2 DEF RememberedBlocks
<1>13. Reflagged(heap, heap', gen, e, RememberedBlocks, RememberedBlocks')
  <2>1. e \in RememberedBlocks' <=> keep
    BY <1>4, <1>5, <1>8, <1>11, <1>12
  <2>2. /\ \A b \in RememberedBlocks : b \in RememberedBlocks' \/ b = e
        /\ \A b \in RememberedBlocks' : b \in RememberedBlocks \/ b = e
    BY <1>3, <1>4, <1>11, <1>12
  <2>3. ASSUME NEW j \in DOMAIN heap[e].args, NEW v, v = heap[e].args[j],
               v \in Addr, Stays(heap, gen, v), heap[v].space < heap[e].space
        PROVE  keep
    <3>1. \A c \in Addr : Stays(heap, gen, c) => heap[c].space # ToSpace
      BY <1>5, <1>7 DEF HeapType, Stays, Live
    <3>2. Generation(heap, v) = heap[v].space /\ Generation(heap, e) = heap[e].space
      BY <1>3, <1>4, <2>3, <3>1 DEF Generation
    <3> QED
      BY <2>3, <3>2 DEF FoundYoungPtrs
  <2> HIDE DEF keep
  <2> QED
    BY <1>10, <2>1, <2>2, <2>3 DEF Reflagged
<1> HIDE DEF keep
<1>14. /\ Sound(heap', gen, PendingFields, RememberedBlocks')
       /\ \A b \in Addr : Stays(heap', gen, b) <=> Stays(heap, gen, b)
       /\ \A b \in Addr : /\ heap'[b].args = heap[b].args /\ heap'[b].space = heap[b].space
                          /\ heap'[b].fwd = heap[b].fwd
  BY <1>3, <1>4, <1>6, <1>9, <1>13, RetagSound
<1>15. PendingFields' = PendingFields
  <2>1. Range(<<>>) = {}
    BY DEF Range
  <2>2. \A f : PendingHere(f)' <=> PendingHere(f)
    BY <1>1, <1>2, <2>1 DEF PendingHere
  <2> QED
    BY <2>2 DEF PendingFields
<1>16. root' = root /\ root \in Addr /\ MapAt' = MapAt
  BY <1>1, <1>6, <1>14 DEF RootOK, MapAt
<1>17. PhaseOK'
  BY <1>1, <1>2 DEF IInv, PhaseOK, MapsAreRooted
<1>18. HeapInv'
  <2>1. RootOK(heap', gen, root')
    BY <1>6, <1>14, <1>16 DEF RootOK
  <2> QED
    BY <1>2, <1>14, <1>15, <2>1 DEF HeapInv
<1>19. ScanOK'
  <2>1. \A f \in Range(scan) : f[1] \in Addr
    <3>1. scan \in Seq(FieldRef)
      BY DEF IInv, ScanOK
    <3>2. \A f \in Range(scan) : f \in FieldRef
      BY <3>1 DEF Range
    <3> QED
      BY <3>2 DEF FieldRef
  <2> QED
    BY <1>1, <1>2, <1>14, <2>1 DEF IInv, ScanOK
<1>20. IntgenOK'
  <2>1. \A a \in RememberedBlocks' : a \in RememberedBlocks
    BY <1>3, <1>4, <1>11, <1>12
  <2>2. \A a \in Range(intgenSet') : a \in Addr /\ Stays(heap', gen, a)
    <3>1. Range(intgenSet) \subseteq Addr
      BY <1>3 DEF Range
    <3> QED
      BY <1>3, <1>4, <1>11, <1>14, <3>1
  <2>3. \A a \in Addr : AlreadyMoved(heap', a) => heap'[a].fwd \notin RememberedBlocks'
    BY <1>3, <1>14, <2>1 DEF AlreadyMoved
  <2>4. Range(intgenSet') \cap Range(todo') = {}
    BY <1>3, <1>4, <1>11
  <2> QED
    BY <1>1, <1>2, <1>4, <1>5, <1>11, <2>2, <2>3, <2>4 DEF IntgenOK
<1>21. MapOK'
  <2>1. \A d : WasMap(d) => WasMap(d)'
    BY <1>1, <1>14, <1>16 DEF WasMap, Alloc
  <2>2. gen' = ToSpace => FALSE
    BY <1>1, <1>5
  <2> QED
    BY <1>1, <1>2, <2>1, <2>2 DEF IInv, MapOK
<1>22. FinalOK'
  BY <1>1, <1>2 DEF IInv, FinalOK
<1> QED
  BY <1>17, <1>18, <1>19, <1>20, <1>21, <1>22 DEF IInv

-----------------------------------------------------------------------------
(***************************************************************************)
(* HandleWeakDictionaries.                                                 *)
(***************************************************************************)

(* Every copy has been visited: the root refers to a copy of the map.      *)
LEMMA MapCopied ==
  ASSUME IInv, phase = "scanOld", scan = <<>>, StartupMap # None
  PROVE  MapAt \in Addr /\ MapAt[1] = StartupMap /\ Stays(heap, gen, MapAt)
<1>1. /\ phase \notin Outside /\ Bound = gen
      /\ Range(scan) = {}
  BY DEF Outside, Bound, Range
<1>2. /\ Sound(heap, gen, PendingFields, RememberedBlocks) /\ RootOK(heap, gen, root)
  BY <1>1 DEF IInv, HeapInv
<1>3. /\ root \in Addr /\ root[1] = RootObj /\ Stays(heap, gen, root)
      /\ MapAt \in Addr /\ MapAt[1] = StartupMap
  BY <1>2 DEF RootOK, MapAt
<1>4. 1 \in DOMAIN heap[root].args
  <2>1. Len(heap[root].args) = RootArity /\ heap[root].args \in Seq(Field)
    BY <1>2, <1>3, StartupIs
    DEF Sound, HeapOK, HeapType, Blocks, Linked, Shape, Stays
  <2> QED
    BY <2>1, StoreAssumption DEF StoreAssumption
<1>5. <<root, 1>> \notin PendingFields
  BY <1>1, <1>3, StartupIs DEF PendingFields, PendingHere
<1> QED
  BY <1>2, <1>3, <1>4, <1>5 DEF Sound, AllPending, MapAt

(* HandleWeakDictionaries begins when all strong references have been       *)
(* visited.                                                                 *)
LEMMA StartDictsStep ==
  ASSUME IInv, StartDicts
  PROVE  IInv'
<1>1. /\ phase = "scanOld" /\ phase' = "dicts" /\ scan = <<>> /\ wkDictSet # <<>>
      /\ todo' = wkDictSet /\ wkDictSet' = <<>> /\ finSet' = <<>>
      /\ UNCHANGED <<heap, root, intgenSet, gen, scan, slots>>
  BY DEF StartDicts
<1>2. Range(<<>>) = {} /\ <<>> \in Seq(Addr) /\ <<>> \in Seq(FinEntry)
  BY DEF Range
<1>3. /\ phase # "mutator" /\ phase \notin Outside /\ phase \in BeforeDicts
      /\ phase' \notin Outside /\ phase' \in Phases /\ phase' \notin BeforeDicts
      /\ gen \in 1..ToSpace /\ Bound = gen /\ Bound' = gen
      /\ phase' \notin {"mutator", "scanRoots", "intgen", "entry", "scanOld", "entries", "scanFinal", "finalize"}
      /\ phase \notin {"mutator", "scanRoots", "intgen", "entry", "dicts", "entries", "scanFinal", "finalize"}
      /\ phase' \notin BeforeOld /\ phase' \notin Outside \cup {"entries", "scanFinal"}
  BY <1>1 DEF IInv, PhaseOK, Outside, Bound, Phases, BeforeDicts, BeforeOld
<1>4. /\ ToVisit = <<>> /\ ToVisit' = <<>> /\ RememberedBlocks' = RememberedBlocks
  BY <1>1, <1>3 DEF ToVisit, RememberedBlocks
<1>5. StartupMap # None
  BY <1>1 DEF IInv, MapOK
<1>6. PICK d \in Addr : wkDictSet = <<d>> /\ WasMap(d)
  BY <1>3, <1>5 DEF IInv, MapOK
<1>7. todo' = <<d>> /\ todo' # <<>> /\ WasMap(d)'
  BY <1>1, <1>6 DEF WasMap, MapAt
<1>8. PendingFields' = PendingFields
  <2>1. \A f : PendingHere(f)' <=> PendingHere(f)
    BY <1>1, <1>2, <1>3, <1>7 DEF PendingHere
  <2> QED
    BY <2>1 DEF PendingFields
<1>9. PhaseOK'
  BY <1>1, <1>3 DEF IInv, PhaseOK, MapsAreRooted
<1>10. HeapInv'
  BY <1>1, <1>3, <1>4, <1>8 DEF IInv, HeapInv
<1>11. ScanOK'
  BY <1>1, <1>2, <1>3 DEF IInv, ScanOK
<1>12. IntgenOK'
  BY <1>1, <1>3, <1>4 DEF IInv, IntgenOK
<1>13. MapOK'
  <2>1. Stays(heap', gen', MapAt')
    BY <1>1, <1>5, MapCopied DEF MapAt
  <2>2. slots' = <<>>
    BY <1>1, <1>3 DEF IInv, FinalOK
  <2>3. \E e \in Addr : todo' = <<e>> /\ WasMap(e)'
    BY <1>7
  <2>4. gen' = ToSpace => \A a \in Addr : Stays(heap', gen', a) => a[1] \notin Table
    BY <1>1, <1>3 DEF IInv, MapOK
  <2> QED
    BY <1>1, <1>2, <1>3, <1>5, <2>1, <2>2, <2>3, <2>4 DEF MapOK
<1>14. FinalOK'
  BY <1>1, <1>2, <1>3 DEF IInv, FinalOK
<1> QED
  BY <1>9, <1>10, <1>11, <1>12, <1>13, <1>14 DEF IInv

(* The first loop: the map was reached, so that its table is what is left   *)
(* to copy.                                                                *)
LEMMA ForwardDictIs ==
  ASSUME IInv, phase = "dicts", todo # <<>>
  PROVE  /\ StartupMap # None /\ gen \in 1..ToSpace /\ Bound = gen
         /\ wkDictSet = <<>> /\ slots = <<>> /\ scan = <<>> /\ Front(todo) = <<>>
         /\ MapAt \in Addr /\ MapAt[1] = StartupMap /\ Stays(heap, gen, MapAt)
         /\ ForwardWord(heap, Last(todo), gen) = MapAt
         /\ ~ToForward(heap, Last(todo), gen)
         /\ Sound(heap, gen, PendingFields, Range(intgenSet)) /\ RootOK(heap, gen, root)
         /\ gen = ToSpace => \A a \in Addr : Stays(heap, gen, a) => a[1] \notin Table
<1>1. phase \notin Outside /\ phase \notin BeforeDicts /\ phase # "mutator"
  BY DEF Outside, BeforeDicts, BeforeOld
<1>2. gen \in 1..ToSpace /\ Bound = gen
  BY <1>1 DEF IInv, PhaseOK, Bound
<1>3. RememberedBlocks = Range(intgenSet)
  BY DEF RememberedBlocks, ToVisit, Range
<1>4. Sound(heap, gen, PendingFields, Range(intgenSet)) /\ RootOK(heap, gen, root)
  BY <1>2, <1>3 DEF IInv, HeapInv
<1>5. StartupMap # None /\ scan = <<>>
  BY DEF IInv, MapOK, ScanOK
<1>6. PICK d \in Addr : todo = <<d>> /\ WasMap(d)
  BY <1>5 DEF IInv, MapOK
<1>7. wkDictSet = <<>> /\ slots = <<>> /\ Stays(heap, gen, MapAt)
  BY <1>5 DEF IInv, MapOK
<1>8. MapAt \in Addr /\ MapAt[1] = StartupMap
  BY <1>4, <1>5 DEF RootOK, MapAt
<1>9. Last(todo) = d /\ Front(todo) = <<>>
  BY <1>6 DEF Last, Front
<1>10. /\ d \in Addr /\ Alloc(heap, d) /\ (d = MapAt \/ heap[d].fwd = MapAt)
       /\ gen = ToSpace => ~Stays(heap, gen, d)
  BY <1>6 DEF WasMap
<1>11. ForwardWord(heap, d, gen) = MapAt /\ ~ToForward(heap, d, gen)
  <2>1. CASE d = MapAt
    <3>1. ToForward(heap, d, gen) <=> d \in Addr /\ Live(heap, d) /\ ~Stays(heap, gen, d)
      BY <1>2, <1>4, <1>10, ToForwardIs DEF Sound, Word
    <3>2. ~AlreadyMoved(heap, d)
      BY <1>7, <2>1 DEF Stays, Live
    <3> QED
      BY <1>7, <2>1, <3>1, <3>2 DEF ForwardWord
  <2>2. CASE heap[d].fwd = MapAt
    <3>1. AlreadyMoved(heap, d)
      BY <1>8, <2>2, FiniteAddr DEF AlreadyMoved
    <3> QED
      BY <1>10, <2>2, <3>1 DEF ForwardWord, ToForward
  <2> QED
    BY <1>10, <2>1, <2>2
<1>12. gen = ToSpace => \A a \in Addr : Stays(heap, gen, a) => a[1] \notin Table
  BY DEF IInv, MapOK
<1> QED
  BY <1>2, <1>4, <1>5, <1>7, <1>8, <1>9, <1>11, <1>12

(* The table of the startup map.                                           *)
LEMMA TableIs ==
  ASSUME NEW g, NEW h, HeapOK(h, g), StartupMap # None,
         NEW m \in Addr, m[1] = StartupMap, Stays(h, g, m)
  PROVE  /\ Live(h, m) /\ h[m].label = "WEAK_MAP" /\ DOMAIN h[m].args = {1}
         /\ TableOf(h, m) \in Addr /\ Alloc(h, TableOf(h, m)) /\ TableOf(h, m)[1] \in Table
         /\ \A c \in Addr : Live(h, c) /\ c[1] = StartupMap => c = m
<1>1. Linked(h) /\ HeapType(h, g) /\ CopiesOK(h)
  BY DEF HeapOK
<1>2. Live(h, m) /\ Shape(m, h[m]) /\ h[m].args \in Seq(Field)
  BY <1>1 DEF Stays, Linked, HeapType, Blocks
<1>3. h[m].label = "WEAK_MAP" /\ Len(h[m].args) = 1
  BY <1>2, StartupIs DEF Shape
<1>4. DOMAIN h[m].args = {1}
  BY <1>2, <1>3
<1>5. LinkOK(h, m, h[m].args[1])
  BY <1>1, <1>2, <1>4 DEF Linked
<1>6. TableOf(h, m) \in Addr /\ Alloc(h, TableOf(h, m)) /\ TableOf(h, m)[1] \in Table
  BY <1>5 DEF LinkOK, TableOf
<1>7. ASSUME NEW c \in Addr, Live(h, c), c[1] = StartupMap, c # m
      PROVE  FALSE
  BY <1>1, <1>2, <1>7, FiniteAddr DEF CopiesOK, Live, AlreadyMoved
<1> QED
  BY <1>2, <1>3, <1>4, <1>6, <1>7

(* HandleWeakDictionaries, the first loop.                                  *)
LEMMA ForwardDictStep ==
  ASSUME IInv, ForwardDict
  PROVE  /\ IInv' /\ MapAt' = MapAt /\ finSet' = finSet
         /\ gen = ToSpace => VisitedField(MapAt, 1, TableAt, TableAt', TableAt')
<1> DEFINE t == ForwardWord(heap, TableAt, gen)
           copied == ForwardHeap(heap, TableAt, gen)
<1>1. phase = "dicts" /\ todo # <<>>
  BY DEF ForwardDict
<1>2. /\ StartupMap # None /\ gen \in 1..ToSpace /\ Bound = gen
      /\ wkDictSet = <<>> /\ slots = <<>> /\ scan = <<>> /\ Front(todo) = <<>>
      /\ MapAt \in Addr /\ MapAt[1] = StartupMap /\ Stays(heap, gen, MapAt)
      /\ ForwardWord(heap, Last(todo), gen) = MapAt
      /\ ~ToForward(heap, Last(todo), gen)
      /\ Sound(heap, gen, PendingFields, Range(intgenSet)) /\ RootOK(heap, gen, root)
      /\ gen = ToSpace => \A a \in Addr : Stays(heap, gen, a) => a[1] \notin Table
  BY <1>1, ForwardDictIs
<1>3. HeapOK(heap, gen) /\ HeapType(heap, gen) /\ RememberedOK(heap, gen, Range(intgenSet))
  BY <1>2 DEF Sound, HeapOK
<1>4. /\ Live(heap, MapAt) /\ heap[MapAt].label = "WEAK_MAP" /\ DOMAIN heap[MapAt].args = {1}
      /\ TableAt \in Addr /\ Alloc(heap, TableAt) /\ TableAt[1] \in Table
      /\ \A c \in Addr : Live(heap, c) /\ c[1] = StartupMap => c = MapAt
  <2>1. TableOf(heap, MapAt) = TableAt
    BY DEF TableOf, TableAt
  <2> QED
    BY <1>2, <1>3, <2>1, TableIs
<1>5. /\ heap' = WriteHeap(copied, MapAt, 1, t)
      /\ intgenSet' = WriteSet(intgenSet, copied, MapAt, t)
      /\ wkDictSet' = Append(wkDictSet, MapAt) /\ slots' = Append(slots, MapAt)
      /\ todo' = <<>> /\ UNCHANGED <<root, finSet, phase, gen, scan>>
  <2>1. ForwardHeap(heap, Last(todo), gen) = heap
    BY <1>2 DEF ForwardHeap
  <2>2. ~IsDying(Last(todo))
    BY <1>2 DEF IsDying
  <2> QED
    BY <1>2, <2>1, <2>2 DEF ForwardDict, TableAt, TableOf
<1>6. Forwarded(heap, copied, gen, TableAt, t)
  <2>1. TableAt \in Word /\ (gen = ToSpace => ~Stays(heap, gen, TableAt))
    BY <1>2, <1>4 DEF Word
  <2> QED
    BY <1>2, <1>3, <1>4, <2>1, ForwardIs
<1> HIDE DEF t, copied
<1>7. t \in Addr /\ t[1] = TableAt[1] /\ Stays(copied, gen, t)
  BY <1>4, <1>6 DEF Forwarded
<1>8. copied[MapAt] = heap[MapAt] /\ Stays(copied, gen, MapAt) /\ DOMAIN copied[MapAt].args = {1}
  BY <1>2, <1>3, <1>4, <1>6, ForwardKeeps
<1> DEFINE fields == {f \in FieldRef : f[1] = t}
           p1 == IF ToForward(heap, TableAt, gen) THEN PendingFields \cup fields
                 ELSE PendingFields
           p2 == p1 \ {<<MapAt, 1>>}
<1>9. \A f : f \in PendingFields <=> f \in FieldRef /\ f[1][1] = StartupMap
  <2>1. Range(scan) = {}
    BY <1>2 DEF Range
  <2> QED
    BY <1>1, <2>1 DEF PendingFields, PendingHere, BeforeDicts, BeforeOld
<1>10. Sound(copied, gen, p1, Range(intgenSet))
  <2>1. ASSUME ToForward(heap, TableAt, gen)
        PROVE  MorePending(heap, TableAt, t, PendingFields, p1)
    <3>1. Live(heap, TableAt)
      BY <1>6, <2>1 DEF Forwarded
    <3>2. \A j \in DOMAIN heap[TableAt].args : <<TableAt, j>> \in FieldRef
      BY <1>3, <1>4, <3>1, FieldNumbers
    <3>3. \A j \in DOMAIN heap[TableAt].args : <<t, j>> \in fields
      BY <1>7, <3>2 DEF FieldRef
    <3> QED
      BY <2>1, <3>3 DEF MorePending
  <2>2. IF ToForward(heap, TableAt, gen)
        THEN MorePending(heap, TableAt, t, PendingFields, p1) ELSE p1 = PendingFields
    BY <2>1
  <2> HIDE DEF p1
  <2> QED
    BY <1>2, <1>6, <2>2, ForwardSound
<1>11. /\ Sound(heap', gen, p2, Range(intgenSet'))
       /\ SetWritten(intgenSet, intgenSet', MapAt)
       /\ \E c : Stored(copied, heap', MapAt, 1, t, c)
  <2>1. intgenSet \in Seq(Addr) /\ IsInjective(intgenSet) /\ gen \in 0..ToSpace
    BY <1>2 DEF IInv, IntgenOK, ToSpace
  <2>2. LinkOK(copied, MapAt, t)
    BY <1>2, <1>4, <1>7, StartupIs DEF LinkOK, Stays, Live
  <2>3. Visited(gen, p1, p2, <<MapAt, 1>>)
    BY DEF Visited
  <2>4. t \in Field /\ 1 \in DOMAIN copied[MapAt].args
    BY <1>7, <1>8 DEF Field, Word
  <2> HIDE DEF p1, p2
  <2> QED
    BY <1>2, <1>5, <1>7, <1>8, <1>10, <2>1, <2>2, <2>3, <2>4, WriteSound
<1>12. Visits(heap, heap', gen, TableAt, t, MapAt, 1, t)
  <2>1. PICK c : Stored(copied, heap', MapAt, 1, t, c)
    BY <1>11
  <2> QED
    BY <1>2, <1>3, <1>6, <2>1, VisitsIs
<1>13. RootOK(heap', gen, root) /\ MapAt' = MapAt
  <2>1. MapAt # root
    BY <1>2, StartupIs DEF RootOK
  <2>2. UNCHANGED <<gen, root>>
    BY <1>5
  <2> QED
    BY <1>2, <1>12, <2>1, <2>2, VisitMap
<1>14. TableAt' = t
  <2>1. heap'[MapAt].args[1] = t
    BY <1>12 DEF Visits
  <2> QED
    BY <1>13, <2>1 DEF TableAt
<1>15. /\ \A c \in Addr : Stays(heap, gen, c) => Stays(heap', gen, c)
       /\ \A c \in Addr : Stays(heap', gen, c) =>
            Stays(heap, gen, c) \/ (c = t /\ ToForward(heap, TableAt, gen))
  BY <1>12 DEF Visits
<1>16. /\ phase # "mutator" /\ phase \notin Outside /\ phase \notin BeforeDicts
       /\ phase \notin BeforeOld /\ phase \notin Outside \cup {"entries", "scanFinal"}
       /\ phase \notin {"mutator", "scanRoots", "intgen", "entry", "scanOld", "entries", "scanFinal", "finalize"}
       /\ phase \in Phases
  BY <1>1 DEF Outside, BeforeDicts, BeforeOld, Phases
<1>17. Bound' = gen /\ ToVisit' = <<>> /\ Range(<<>>) = {}
  BY <1>5, <1>16 DEF Bound, ToVisit, Range
<1>18. PendingFields' = fields
  <2>1. Range(scan') = {}
    BY <1>2, <1>5, <1>17
  <2>2. \A f : PendingHere(f)' <=> f[1] = t
    BY <1>1, <1>5, <1>14, <1>16, <2>1 DEF PendingHere
  <2> QED
    BY <2>2 DEF PendingFields
<1>19. HeapInv'
  <2>1. HeapOK(heap', gen)
    BY <1>11 DEF Sound
  <2>2. SamePending(heap', gen, p2, fields)
    <3> SUFFICES ASSUME NEW a \in Addr, Stays(heap', gen, a), NEW i \in DOMAIN heap'[a].args
                 PROVE  /\ <<a, i>> \in p2 => <<a, i>> \in fields
                        /\ <<a, i>> \in fields /\ gen = ToSpace => <<a, i>> \in p2
      BY DEF SamePending
    <3>1. ASSUME <<a, i>> \in p2, <<a, i>> \notin fields
          PROVE  FALSE
      <4>1. <<a, i>> \in PendingFields /\ <<a, i>> # <<MapAt, 1>>
        BY <3>1
      <4>2. a[1] = StartupMap
        BY <1>9, <4>1
      <4>3. a = MapAt /\ i = 1
        <5>1. Stays(heap', gen, MapAt)
          BY <1>2, <1>15
        <5>2. DOMAIN heap'[MapAt].args = {1} /\ \A c \in Addr : Live(heap', c) /\ c[1] = StartupMap => c = MapAt
          BY <1>2, <2>1, <5>1, TableIs
        <5> QED
          BY <4>2, <5>2 DEF Stays
      <4> QED
        BY <4>1, <4>3
    <3>2. ASSUME <<a, i>> \in fields, gen = ToSpace
          PROVE  <<a, i>> \in p2
      <4>1. a = t /\ a[1] \in Table
        BY <1>4, <1>7, <3>2
      <4>2. ToForward(heap, TableAt, gen)
        BY <1>2, <1>15, <3>2, <4>1
      <4>3. a # MapAt
        BY <1>2, <4>1, StartupIs
      <4> QED
        BY <3>2, <4>2, <4>3
    <3> QED
      BY <3>1, <3>2
  <2>3. SameRemembered(heap', gen, Range(intgenSet'), Range(intgenSet'))
    BY <1>11 DEF Sound, RememberedOK, SameRemembered
  <2> HIDE DEF p2, fields
  <2>4. Sound(heap', gen, fields, Range(intgenSet'))
    BY <1>11, <2>2, <2>3, SoundChange
  <2> QED
    BY <1>5, <1>13, <1>17, <1>18, <2>4 DEF HeapInv, RememberedBlocks
<1>20. PhaseOK'
  BY <1>5, <1>16 DEF IInv, PhaseOK, MapsAreRooted
<1>21. ScanOK'
  BY <1>2, <1>5, <1>17 DEF IInv, ScanOK
<1>22. IntgenOK'
  <2>1. /\ intgenSet' \in Seq(Addr) /\ IsInjective(intgenSet')
        /\ intgenSet' = intgenSet \/ intgenSet' = Append(intgenSet, MapAt)
    BY <1>11 DEF SetWritten
  <2>2. \A a \in Range(intgenSet') : a \in Range(intgenSet) \/ a = MapAt
    <3>1. intgenSet \in Seq(Addr)
      BY DEF IInv, IntgenOK
    <3>2. Range(Append(intgenSet, MapAt)) = Range(intgenSet) \cup {MapAt}
      BY <1>2, <3>1, AppendRange
    <3> QED
      BY <2>1, <3>2
  <2>3. \A a \in Range(intgenSet) : a \in Addr /\ Stays(heap, gen, a)
    BY <1>2, <1>3, <1>16 DEF IInv, IntgenOK, RememberedOK
  <2>4. \A a \in Range(intgenSet') : Stays(heap', gen, a)
    BY <1>2, <1>15, <2>2, <2>3
  <2>5. <<>> \in Seq(Addr) /\ IsInjective(<<>>)
    BY DEF IsInjective
  <2> QED
    BY <1>5, <1>16, <1>17, <2>1, <2>4, <2>5 DEF IntgenOK
<1>23. MapOK'
  <2>1. wkDictSet' = <<MapAt>> /\ slots' = <<MapAt>> /\ wkDictSet' \in Seq(Addr)
    BY <1>2, <1>5
  <2>2. Stays(heap', gen, MapAt)
    BY <1>2, <1>15
  <2> QED
    BY <1>2, <1>5, <1>13, <1>16, <2>1, <2>2 DEF MapOK
<1>24. FinalOK'
  <2>1. finSet \in Seq(FinEntry) /\ \A n \in DOMAIN finSet : ValueOK(heap, gen, finSet[n].value)
    BY <1>1 DEF IInv, FinalOK
  <2>2. \A n \in DOMAIN finSet : ValueOK(heap', gen, finSet[n].value)
    BY <1>15, <2>1 DEF ValueOK
  <2> QED
    BY <1>1, <1>5, <2>1, <2>2 DEF FinalOK
<1>25. ASSUME gen = ToSpace
       PROVE  VisitedField(MapAt, 1, TableAt, t, t)
  <2>1. <<MapAt, 1>> \in PendingFields
    BY <1>2, <1>3, <1>4, <1>9, FieldNumbers
  <2>2. ToForward(heap, TableAt, gen)
    <3>1. Stays(heap', gen, t)
      BY <1>7, <1>12 DEF Visits
    <3> QED
      BY <1>2, <1>4, <1>7, <1>15, <1>25, <3>1
  <2>3. \A f \in PendingFields' : f[1] = t
    BY <1>18
  <2>4. <<MapAt, 1>> \notin PendingFields'
    BY <1>2, <1>4, <1>7, <2>3, StartupIs
  <2> QED
    BY <1>2, <1>4, <1>7, <1>12, <2>1, <2>2, <2>3, <2>4 DEF VisitedField
<1> QED
  BY <1>5, <1>13, <1>14, <1>19, <1>20, <1>21, <1>22, <1>23, <1>24, <1>25 DEF IInv

(* Phase two begins: slots becomes the list of the entries of the map.      *)
LEMMA StartEntriesStep ==
  ASSUME IInv, StartEntries
  PROVE  /\ IInv' /\ MapAt' = MapAt /\ TableAt' = TableAt
         /\ \A k \in Keys : heap[TableAt].args[k] # Empty => <<MapAt, k>> \in Range(slots')
<1> DEFINE row == [k \in Keys |-> <<MapAt, KeyCount + 1 - k>>]
           wanted == {f \in Range(slots) \X Keys : Entries(heap, f[1])[f[2]] # Empty}
<1>1. /\ phase = "dicts" /\ todo = <<>> /\ phase' = "entries"
      /\ slots' = Filter(
                    FlattenSeq([n \in DOMAIN slots |->
                                  [k \in Keys |-> <<slots[n], KeyCount + 1 - k>>]]), wanted)
      /\ UNCHANGED <<heap, root, intgenSet, wkDictSet, finSet, gen, scan, todo>>
  BY DEF StartEntries, sets
<1>2. /\ phase # "mutator" /\ phase \notin Outside /\ phase \notin BeforeDicts /\ phase \notin BeforeOld
      /\ phase' \notin Outside /\ phase' \in Phases /\ phase' \notin BeforeDicts
      /\ gen \in 1..ToSpace /\ Bound = gen /\ Bound' = gen
      /\ phase' \notin {"mutator", "scanRoots", "intgen", "entry", "scanOld", "dicts", "scanFinal", "finalize"}
      /\ phase \notin {"mutator", "scanRoots", "intgen", "entry", "scanOld", "entries", "scanFinal", "finalize"}
      /\ phase' \notin BeforeOld /\ phase' \notin Outside \cup {"dicts"}
  BY <1>1 DEF IInv, PhaseOK, Outside, Bound, Phases, BeforeDicts, BeforeOld
<1>3. /\ ToVisit = <<>> /\ ToVisit' = <<>> /\ RememberedBlocks' = RememberedBlocks
      /\ Range(<<>>) = {}
  BY <1>1, <1>2 DEF ToVisit, RememberedBlocks, Range
<1>4. /\ Sound(heap, gen, PendingFields, RememberedBlocks) /\ RootOK(heap, gen, root)
      /\ HeapOK(heap, gen) /\ HeapType(heap, gen) /\ Linked(heap)
  BY <1>2 DEF IInv, HeapInv, Sound, HeapOK
<1>5. /\ StartupMap # None /\ wkDictSet = <<MapAt>> /\ slots = <<MapAt>>
      /\ Stays(heap, gen, MapAt) /\ scan = <<>>
  BY <1>1 DEF IInv, MapOK, ScanOK
<1>6. MapAt \in Addr /\ MapAt[1] = StartupMap
  BY <1>4, <1>5 DEF RootOK, MapAt
<1>7. /\ DOMAIN heap[MapAt].args = {1} /\ TableAt = TableOf(heap, MapAt)
      /\ TableAt \in Addr /\ TableAt[1] \in Table
  BY <1>4, <1>5, <1>6, TableIs DEF TableAt, TableOf
<1>8. \A f : f \in PendingFields <=> f \in FieldRef /\ f[1] = TableAt
  BY <1>1, <1>2, <1>3, <1>5 DEF PendingFields, PendingHere
<1>9. Stays(heap, gen, TableAt)
  <2>1. <<MapAt, 1>> \notin PendingFields
    BY <1>5, <1>6, <1>7, <1>8, StartupIs
  <2>2. heap[MapAt].args[1] = TableAt
    BY DEF TableAt
  <2> QED
    BY <1>4, <1>5, <1>6, <1>7, <2>1, <2>2 DEF Sound, AllPending
<1>10. /\ heap[TableAt].args \in Seq(Field) /\ DOMAIN heap[TableAt].args = Keys
       /\ Entries(heap, MapAt) = heap[TableAt].args /\ KeyCount \in Nat
  <2>1. Shape(TableAt, heap[TableAt]) /\ heap[TableAt] \in Blocks
    BY <1>4, <1>7, <1>9 DEF Linked, HeapType, Stays
  <2> QED
    BY <1>7, <2>1, StoreAssumption DEF Shape, Blocks, Keys, Entries, StoreAssumption
<1>11. /\ row \in Seq({MapAt} \X Keys) /\ IsInjective(row) /\ Range(row) = {MapAt} \X Keys
  <2>1. row \in Seq({MapAt} \X Keys)
    BY <1>10 DEF Keys
  <2>2. DOMAIN row = Keys /\ \A k \in Keys : row[k] = <<MapAt, KeyCount + 1 - k>>
    OBVIOUS
  <2>3. \A j, k \in Keys : KeyCount + 1 - j = KeyCount + 1 - k => j = k
    BY <1>10 DEF Keys
  <2>4. IsInjective(row)
    BY <2>2, <2>3 DEF IsInjective
  <2>5. ASSUME NEW k \in Keys
        PROVE  <<MapAt, k>> \in Range(row)
    <3>1. KeyCount + 1 - k \in Keys /\ KeyCount + 1 - (KeyCount + 1 - k) = k
      BY <1>10 DEF Keys
    <3> QED
      BY <2>2, <3>1 DEF Range
  <2>6. Range(row) \subseteq {MapAt} \X Keys
    BY <2>1 DEF Range
  <2> QED
    BY <2>1, <2>4, <2>5, <2>6
<1>12. [n \in DOMAIN slots |-> [k \in Keys |-> <<slots[n], KeyCount + 1 - k>>]] = <<row>>
  BY <1>5
<1> HIDE DEF row
<1>13. slots' = Filter(row, wanted)
  BY <1>1, <1>11, <1>12, FlattenOne
<1>14. /\ slots' \in Seq({MapAt} \X Keys) /\ IsInjective(slots')
       /\ Range(slots') = Range(row) \cap wanted
  <2> HIDE DEF wanted
  <2> QED
    BY <1>11, <1>13, FilterRange
<1>15. \A f : f \in Range(slots') <=> f \in {MapAt} \X Keys /\ heap[TableAt].args[f[2]] # Empty
  <2>1. Range(slots) = {MapAt}
    BY <1>5 DEF Range
  <2> QED
    BY <1>10, <1>11, <1>14, <2>1
<1>16. slots' \in Seq(FieldRef)
  <2>1. {MapAt} \X Keys \subseteq FieldRef
    BY <1>6 DEF FieldRef
  <2> QED
    BY <1>14, <2>1
<1>17. MapAt' = MapAt /\ TableAt' = TableAt /\ Entries(heap', MapAt') = Entries(heap, MapAt)
  BY <1>1 DEF MapAt, TableAt, Entries, TableOf
<1>18. \A f : f \in PendingFields' <=> f \in FieldRef /\ f[1] = TableAt /\ <<MapAt, f[2]>> \in Range(slots')
  BY <1>1, <1>2, <1>3, <1>5, <1>17 DEF PendingFields, PendingHere
<1>19. HeapInv'
  <2>1. SamePending(heap, gen, PendingFields, PendingFields')
    <3> SUFFICES ASSUME NEW a \in Addr, Stays(heap, gen, a), NEW i \in DOMAIN heap[a].args,
                        heap[a].args[i] \in Addr
                 PROVE  <<a, i>> \in PendingFields <=> <<a, i>> \in PendingFields'
      BY DEF SamePending
    <3>1. ASSUME <<a, i>> \in PendingFields
          PROVE  <<a, i>> \in PendingFields'
      <4>1. a = TableAt /\ <<a, i>> \in FieldRef
        BY <1>8, <3>1
      <4>2. i \in Keys /\ heap[TableAt].args[i] # Empty
        BY <1>10, <4>1, StartupIs
      <4>3. <<MapAt, i>> \in Range(slots')
        BY <1>15, <4>2
      <4> QED
        BY <1>18, <4>1, <4>3
    <3>2. <<a, i>> \in PendingFields' => <<a, i>> \in PendingFields
      BY <1>8, <1>18
    <3> QED
      BY <3>1, <3>2
  <2>2. SameRemembered(heap, gen, RememberedBlocks, RememberedBlocks)
    BY <1>4 DEF Sound, RememberedOK, SameRemembered
  <2>3. Sound(heap, gen, PendingFields', RememberedBlocks)
    BY <1>4, <2>1, <2>2, SoundChange
  <2> QED
    BY <1>1, <1>2, <1>3, <1>4, <2>3 DEF HeapInv
<1>20. PhaseOK'
  BY <1>1, <1>2 DEF IInv, PhaseOK, MapsAreRooted
<1>21. ScanOK'
  BY <1>1, <1>2, <1>3, <1>5 DEF IInv, ScanOK
<1>22. IntgenOK'
  BY <1>1, <1>2, <1>3 DEF IInv, IntgenOK
<1>23. MapOK'
  BY <1>1, <1>2, <1>5, <1>6, <1>17 DEF MapOK
<1>24. FinalOK'
  <2>1. \A f \in Range(slots') :
          f[1] = MapAt' /\ f[2] \in Keys /\ Entries(heap', MapAt')[f[2]] \in Word
    <3>1. \A k \in Keys : heap[TableAt].args[k] \in Field
      BY <1>10
    <3> QED
      BY <1>10, <1>15, <1>17, <3>1 DEF Field
  <2>2. finSet \in Seq(FinEntry) /\ \A n \in DOMAIN finSet : ValueOK(heap, gen, finSet[n].value)
    BY <1>1 DEF IInv, FinalOK
  <2> QED
    BY <1>1, <1>2, <1>14, <1>16, <2>1, <2>2 DEF FinalOK
<1>25. \A k \in Keys : heap[TableAt].args[k] # Empty => <<MapAt, k>> \in Range(slots')
  BY <1>15
<1> QED
  BY <1>17, <1>19, <1>20, <1>21, <1>22, <1>23, <1>24, <1>25 DEF IInv

(* The entry that phase two is at, and what it finds there.                 *)
LEMMA EntryFound ==
  ASSUME IInv, phase = "entries", slots # <<>>, NEW k, k = Head(slots)[2],
         NEW w, w = Deref(heap, heap[TableAt].args[k])
  PROVE  /\ StartupMap # None /\ gen \in 1..ToSpace /\ Bound = gen
         /\ Sound(heap, gen, PendingFields, Range(intgenSet)) /\ RootOK(heap, gen, root)
         /\ MapAt \in Addr /\ MapAt[1] = StartupMap /\ Stays(heap, gen, MapAt)
         /\ TableAt \in Addr /\ TableAt[1] \in Table /\ Stays(heap, gen, TableAt)
         /\ Head(slots) = <<MapAt, k>> /\ k \in Keys /\ DOMAIN heap[TableAt].args = Keys
         /\ Found(heap, gen, TableAt, w)
         /\ Forwarded(heap, ForwardHeap(heap, w, gen), gen, w, ForwardWord(heap, w, gen))
         /\ ForwardHeap(heap, w, gen)[MapAt] = heap[MapAt]
         /\ ForwardHeap(heap, w, gen)[TableAt] = heap[TableAt]
<1>1. /\ phase # "mutator" /\ phase \notin Outside /\ phase \notin BeforeDicts /\ phase \notin BeforeOld
      /\ phase \notin {"mutator", "scanRoots", "intgen", "entry", "scanOld", "dicts", "scanFinal", "finalize"}
  BY DEF Outside, BeforeDicts, BeforeOld
<1>2. gen \in 1..ToSpace /\ Bound = gen
  BY <1>1 DEF IInv, PhaseOK, Bound
<1>3. RememberedBlocks = Range(intgenSet)
  BY <1>1 DEF RememberedBlocks, ToVisit, Range
<1>4. /\ Sound(heap, gen, PendingFields, Range(intgenSet)) /\ RootOK(heap, gen, root)
      /\ HeapOK(heap, gen) /\ HeapType(heap, gen) /\ Linked(heap)
  BY <1>2, <1>3 DEF IInv, HeapInv, Sound, HeapOK
<1>5. StartupMap # None /\ Stays(heap, gen, MapAt)
  BY DEF IInv, MapOK
<1>6. MapAt \in Addr /\ MapAt[1] = StartupMap
  BY <1>4, <1>5 DEF RootOK, MapAt
<1>7. /\ DOMAIN heap[MapAt].args = {1} /\ TableAt \in Addr /\ TableAt[1] \in Table
  BY <1>4, <1>5, <1>6, TableIs DEF TableAt, TableOf
<1>8. \A f : f \in PendingFields <=>
               f \in FieldRef /\ (f \in Range(scan) \/ (f[1] = TableAt /\ <<MapAt, f[2]>> \in Range(slots)))
  BY <1>1 DEF PendingFields, PendingHere
<1>9. Stays(heap, gen, TableAt)
  <2>1. <<MapAt, 1>> \notin Range(scan)
    BY <1>6 DEF IInv, ScanOK
  <2>2. <<MapAt, 1>> \notin PendingFields
    BY <1>5, <1>6, <1>7, <1>8, <2>1, StartupIs
  <2>3. heap[MapAt].args[1] = TableAt
    BY DEF TableAt
  <2> QED
    BY <1>4, <1>5, <1>6, <1>7, <2>2, <2>3 DEF Sound, AllPending
<1>10. DOMAIN heap[TableAt].args = Keys
  <2>1. Shape(TableAt, heap[TableAt]) /\ heap[TableAt] \in Blocks
    BY <1>4, <1>7, <1>9 DEF Linked, HeapType, Stays
  <2> QED
    BY <1>7, <2>1, StoreAssumption DEF Shape, Blocks, Keys, StoreAssumption
<1>11. Head(slots) \in FieldRef /\ Head(slots) \in Range(slots)
  <2>1. slots \in Seq(FieldRef)
    BY DEF IInv, FinalOK
  <2> QED
    BY <2>1, TailRange
<1>12. /\ Head(slots) = <<MapAt, k>> /\ k \in Keys /\ heap[TableAt].args[k] \in Word
  <2>1. /\ Head(slots)[1] = MapAt /\ k \in Keys /\ Entries(heap, MapAt)[k] \in Word
    BY <1>11 DEF IInv, FinalOK
  <2>2. Head(slots) = <<Head(slots)[1], Head(slots)[2]>>
    BY <1>11 DEF FieldRef
  <2> QED
    BY <2>1, <2>2 DEF Entries, TableOf, TableAt
<1>13. CanVisit(heap, gen, PendingFields, TableAt, k)
  <2>1. <<TableAt, k>> \in FieldRef
    BY <1>7, <1>12 DEF FieldRef
  <2>2. <<TableAt, k>> \in PendingFields
    BY <1>8, <1>11, <1>12, <2>1
  <2> QED
    BY <1>7, <1>9, <1>10, <1>12, <2>2 DEF CanVisit
<1>14. /\ Found(heap, gen, TableAt, w)
       /\ Forwarded(heap, ForwardHeap(heap, w, gen), gen, w, ForwardWord(heap, w, gen))
  BY <1>2, <1>4, <1>13, FoundIs
<1>15. \A c \in Addr : Stays(heap, gen, c) => ForwardHeap(heap, w, gen)[c] = heap[c]
  BY <1>2, <1>4, <1>14, ForwardKeeps
<1> QED
  BY <1>2, <1>4, <1>5, <1>6, <1>7, <1>9, <1>10, <1>12, <1>14, <1>15

(* Set::Add.                                                               *)
LEMMA FinSetGrown ==
  ASSUME NEW h, NEW g, NEW s \in Seq(FinEntry), \A n \in DOMAIN s : ValueOK(h, g, s[n].value),
         NEW u, ValueOK(h, g, u), NEW m \in Object, NEW s2, s2 = Append(s, [value |-> u, map |-> m])
  PROVE  s2 \in Seq(FinEntry) /\ \A n \in DOMAIN s2 : ValueOK(h, g, s2[n].value)
<1> DEFINE e == [value |-> u, map |-> m]
<1>1. e \in FinEntry /\ e.value = u
  BY DEF FinEntry, ValueOK
<1> HIDE DEF e
<1>2. s2 = Append(s, e)
  BY DEF e
<1>3. /\ s2 \in Seq(FinEntry)
      /\ \A n \in DOMAIN s2 : s2[n] = e \/ (n \in DOMAIN s /\ s2[n] = s[n])
  BY <1>1, <1>2, AppendIs
<1> QED
  BY <1>1, <1>3

(* A pending field is a block and an index.                                 *)
LEMMA FieldRefIs == \A f \in FieldRef : f[1] \in Addr /\ f = <<f[1], f[2]>>
  BY DEF FieldRef

(* HandleWeakDictionaries, the second loop: the entry is removed or updated. *)
EntryAt(k, w, u) ==
  /\ slots # <<>> /\ k = Head(slots)[2]
  /\ w = Deref(heap, heap[TableAt].args[k]) /\ u = ForwardWord(heap, w, gen)
EntryWritten(k, w, u, v) ==
  /\ v = u \/ v = Empty
  /\ heap' = WriteHeap(ForwardHeap(heap, w, gen), TableAt, k, v)
  /\ intgenSet' = WriteSet(intgenSet, ForwardHeap(heap, w, gen), TableAt, v)
  /\ scan' = scan \o NewFields(heap, w, gen) /\ slots' = Tail(slots)
  /\ finSet' = finSet \/ finSet' = Append(finSet, [value |-> u, map |-> MapAt[1]])

(* A visit of an entry of the weak map, whatever is written to it.          *)
LEMMA EntryVisit ==
  ASSUME IInv, phase = "entries", NEW k, NEW w, NEW u, EntryAt(k, w, u),
         NEW v, EntryWritten(k, w, u, v), UNCHANGED <<root, wkDictSet, phase, gen, todo>>
  PROVE  IInv' /\ VisitedField(TableAt, k, w, u, v) /\ MapAt' = MapAt /\ TableAt' = TableAt
<1> DEFINE k1 == ForwardHeap(heap, w, gen)
           t == NewFields(heap, w, gen)
           p1 == PendingFields \cup Range(t)
           p2 == p1 \ {<<TableAt, k>>}
<1>0. /\ slots # <<>> /\ k = Head(slots)[2] /\ w = Deref(heap, heap[TableAt].args[k])
      /\ u = ForwardWord(heap, w, gen)
  BY DEF EntryAt
<1>a. u = ForwardWord(heap, w, gen)
  BY DEF EntryAt
<1>1. /\ StartupMap # None /\ gen \in 1..ToSpace /\ Bound = gen
      /\ Sound(heap, gen, PendingFields, Range(intgenSet)) /\ RootOK(heap, gen, root)
      /\ MapAt \in Addr /\ MapAt[1] = StartupMap /\ Stays(heap, gen, MapAt)
      /\ TableAt \in Addr /\ TableAt[1] \in Table /\ Stays(heap, gen, TableAt)
      /\ Head(slots) = <<MapAt, k>> /\ k \in Keys /\ DOMAIN heap[TableAt].args = Keys
      /\ Found(heap, gen, TableAt, w)
      /\ Forwarded(heap, k1, gen, w, u)
      /\ k1[TableAt] = heap[TableAt]
  BY <1>0, EntryFound
<1>2. /\ HeapOK(heap, gen) /\ HeapType(heap, gen) /\ Linked(heap)
      /\ RememberedOK(heap, gen, Range(intgenSet))
  BY <1>1 DEF Sound, HeapOK
<1>3. /\ phase # "mutator" /\ phase \notin Outside /\ phase \notin BeforeDicts /\ phase \notin BeforeOld
      /\ phase \notin {"mutator", "scanRoots", "intgen", "entry", "scanOld", "dicts", "scanFinal", "finalize"}
      /\ phase \notin Outside \cup {"dicts"} /\ phase \in {"entries", "scanFinal"} /\ phase \in Phases
      /\ phase' = phase /\ gen' = gen
  BY DEF Outside, BeforeDicts, BeforeOld, Phases
<1>4. ScanOK /\ scan \in Seq(FieldRef) /\ IsInjective(scan)
  BY DEF IInv, ScanOK
<1>5. /\ t \in Seq(FieldRef) /\ IsInjective(t)
      /\ \A f : f \in Range(t) <=>
           /\ ToForward(heap, w, gen) /\ heap[w].label # "WEAK_MAP"
           /\ \E j \in DOMAIN heap[w].args : heap[w].args[j] \in Addr /\ f = <<u, j>>
  BY <1>a, <1>1, <1>2, NewFieldsIs
<1> HIDE DEF k1, t, p1, p2
<1>6. /\ u \in Word /\ (u \in Addr <=> w \in Addr)
      /\ u \in Addr => /\ Stays(k1, gen, u) /\ u[1] = w[1] /\ u[1] # RootObj /\ u[1] \notin Table
      /\ TableAt[1] # StartupMap
  <2>1. TableAt[1] # StartupMap
    BY <1>1, StartupIs
  <2> QED
    BY <1>1, <2>1 DEF Forwarded, Found
<1>7. Sound(k1, gen, p1, Range(intgenSet))
  <2>1. ASSUME heap[w].label = "WEAK_MAP", ToForward(heap, w, gen)
        PROVE  FALSE
    <3>1. w \in Addr /\ Live(heap, w) /\ ~Stays(heap, gen, w)
      BY <1>1, <2>1 DEF Forwarded, Cloned
    <3>2. Shape(w, heap[w])
      BY <1>2, <3>1 DEF Linked
    <3>3. w[1] = StartupMap
      BY <2>1, <3>2 DEF Shape
    <3>4. w = MapAt
      BY <1>1, <1>2, <3>1, <3>3, TableIs
    <3> QED
      BY <1>1, <3>1, <3>4
  <2>2. heap[w].label = "WEAK_MAP" /\ ToForward(heap, w, gen) =>
          \A f \in FieldRef : f[1][1] = StartupMap => f \in PendingFields
    BY <2>1
  <2>3. Forwarded(heap, ForwardHeap(heap, w, gen), gen, w, u)
    BY <1>1 DEF k1
  <2>4. IF ToForward(heap, w, gen)
        THEN MorePending(heap, w, u, PendingFields, PendingFields \cup Range(NewFields(heap, w, gen)))
        ELSE PendingFields \cup Range(NewFields(heap, w, gen)) = PendingFields
    BY <1>a, <1>1, <1>2, <2>2, <2>3, ForwardPending
  <2>5. IF ToForward(heap, w, gen) THEN MorePending(heap, w, u, PendingFields, p1)
        ELSE p1 = PendingFields
    BY <2>4 DEF t, p1
  <2> QED
    BY <1>1, <2>5, ForwardSound
<1>8. /\ Sound(heap', gen, p2, Range(intgenSet'))
      /\ SetWritten(intgenSet, intgenSet', TableAt)
      /\ \E c : Stored(k1, heap', TableAt, k, v, c)
  <2>1. intgenSet \in Seq(Addr) /\ IsInjective(intgenSet) /\ gen \in 0..ToSpace
    BY <1>1 DEF IInv, IntgenOK, ToSpace
  <2>2. Stays(k1, gen, TableAt)
    BY <1>1, <1>2, ForwardKeeps
  <2>3. LinkOK(k1, TableAt, v) /\ (v \in Addr => Stays(k1, gen, v))
    BY <1>1, <1>6, FiniteAddr DEF LinkOK, Stays, Live, Word, EntryWritten
  <2>4. Visited(gen, p1, p2, <<TableAt, k>>)
    BY DEF Visited, p2
  <2>5. v \in Field /\ k \in DOMAIN k1[TableAt].args
    BY <1>1, <1>6 DEF Field, EntryWritten
  <2>6. heap' = WriteHeap(k1, TableAt, k, v) /\ intgenSet' = WriteSet(intgenSet, k1, TableAt, v)
    BY DEF k1, EntryWritten
  <2> QED
    BY <1>1, <1>7, <2>1, <2>2, <2>3, <2>4, <2>5, <2>6, WriteSound
<1>9. Visits(heap, heap', gen, w, u, TableAt, k, v)
  <2>1. PICK c : Stored(k1, heap', TableAt, k, v, c)
    BY <1>8
  <2> QED
    BY <1>1, <1>2, <2>1, VisitsIs
<1>10. RootOK(heap', gen, root) /\ MapAt' = MapAt
  <2>1. TableAt # root
    BY <1>1, StartupIs DEF RootOK
  <2>2. UNCHANGED <<gen, root>>
    OBVIOUS
  <2> QED
    BY <1>1, <1>9, <2>1, <2>2, VisitMap
<1>11. /\ \A c \in Addr : Stays(heap, gen, c) => Stays(heap', gen, c)
       /\ \A c \in Addr : Alloc(heap, c) => DOMAIN heap'[c].args = DOMAIN heap[c].args
       /\ \A c \in Addr : Alloc(heap, c) =>
            \A j \in DOMAIN heap[c].args : c # TableAt \/ j # k => heap'[c].args[j] = heap[c].args[j]
       /\ u \in Addr => Stays(heap', gen, u)
  BY <1>9 DEF Visits
<1>12. TableAt' = TableAt
  <2>1. Alloc(heap, MapAt) /\ MapAt # TableAt /\ 1 \in DOMAIN heap[MapAt].args
    BY <1>1, <1>2, <1>6, TableIs DEF Stays, Live
  <2>2. heap'[MapAt].args[1] = heap[MapAt].args[1]
    BY <1>1, <1>11, <2>1
  <2> QED
    BY <1>10, <2>2 DEF TableAt
<1>13. /\ \A f \in Range(scan) : f[1][1] \notin Table
       /\ \A f \in Range(t) : f[1][1] \notin Table
  <2>1. \A f \in Range(scan) : f[1][1] \notin Table
    BY <1>3, <1>4 DEF ScanOK
  <2>2. ToForward(heap, w, gen) => u \in Addr
    BY <1>9 DEF Visits
  <2> QED
    BY <1>5, <1>6, <2>1, <2>2
<1>14. /\ ScanOK' /\ Range(scan') = Range(scan) \cup Range(t)
  <2>1. UNCHANGED <<gen, phase>>
    OBVIOUS
  <2>2. <<TableAt, k>> \notin Range(scan)
    BY <1>1, <1>13
  <2>3. scan' = scan \o NewFields(heap, w, gen)
    BY DEF EntryWritten
  <2> QED
    BY <1>a, <1>1, <1>3, <1>4, <1>6, <1>9, <2>1, <2>2, <2>3, VisitScan DEF k1, t
<1>15. /\ slots \in Seq(FieldRef) /\ slots' \in Seq(FieldRef) /\ IsInjective(slots')
       /\ Range(slots) = {<<MapAt, k>>} \cup Range(slots') /\ <<MapAt, k>> \notin Range(slots')
  <2>1. slots \in Seq(FieldRef) /\ IsInjective(slots)
    BY DEF IInv, FinalOK
  <2>2. slots # <<>> /\ slots' = Tail(slots)
    BY <1>0 DEF EntryWritten
  <2> QED
    BY <1>1, <2>1, <2>2, TailRange
<1>16. PendingFields' = p2
  <2>1. \A f : f \in PendingFields' <=>
                 f \in FieldRef /\ (f \in Range(scan') \/ (f[1] = TableAt /\ <<MapAt, f[2]>> \in Range(slots')))
    BY <1>3, <1>10, <1>12 DEF PendingFields, PendingHere
  <2>2. \A f : f \in PendingFields <=>
                 f \in FieldRef /\ (f \in Range(scan) \/ (f[1] = TableAt /\ <<MapAt, f[2]>> \in Range(slots)))
    BY <1>3 DEF PendingFields, PendingHere
  <2>3. \A f \in Range(t) : f \in FieldRef
    BY <1>5, RangeIn
  <2>4. \A f \in FieldRef : f = <<f[1], f[2]>>
    BY FieldRefIs
  <2>5. <<TableAt, k>> \notin Range(scan) /\ <<TableAt, k>> \notin Range(t)
    BY <1>1, <1>13
  <2>6. \A f : f \in PendingFields' => f \in p2
    <3> SUFFICES ASSUME NEW f, f \in PendingFields'
                 PROVE  f \in p2
      OBVIOUS
    <3>1. CASE f \in Range(scan')
      BY <1>14, <2>1, <2>2, <2>5, <3>1 DEF p1, p2
    <3>2. CASE f[1] = TableAt /\ <<MapAt, f[2]>> \in Range(slots')
      <4>1. f \in FieldRef /\ <<MapAt, f[2]>> \in Range(slots)
        BY <1>15, <2>1, <3>2
      <4>2. f \in PendingFields
        BY <2>2, <3>2, <4>1
      <4>3. f # <<TableAt, k>>
        <5>1. f[2] # k
          BY <1>15, <3>2
        <5> QED
          BY <5>1
      <4> QED
        BY <4>2, <4>3 DEF p1, p2
    <3> QED
      BY <2>1, <3>1, <3>2
  <2>7. \A f : f \in p2 => f \in PendingFields'
    <3> SUFFICES ASSUME NEW f, f \in p2
                 PROVE  f \in PendingFields'
      OBVIOUS
    <3>1. f \in FieldRef /\ f # <<TableAt, k>>
      BY <2>2, <2>3 DEF p1, p2
    <3>2. CASE f \in Range(scan) \/ f \in Range(t)
      BY <1>14, <2>1, <3>1, <3>2
    <3>3. CASE f[1] = TableAt /\ <<MapAt, f[2]>> \in Range(slots)
      <4>1. f[2] # k
        BY <2>4, <3>1, <3>3
      <4>2. <<MapAt, f[2]>> \in Range(slots')
        BY <1>15, <3>3, <4>1
      <4> QED
        BY <2>1, <3>1, <3>3, <4>2
    <3> QED
      BY <2>2, <3>2, <3>3 DEF p1, p2
  <2> QED
    BY <2>6, <2>7
<1>17. Bound' = gen /\ ToVisit' = <<>> /\ Range(<<>>) = {}
  BY <1>3 DEF Bound, ToVisit, Range
<1>18. HeapInv'
  BY <1>8, <1>10, <1>16, <1>17 DEF HeapInv, RememberedBlocks
<1>19. PhaseOK'
  BY <1>3 DEF IInv, PhaseOK, MapsAreRooted
<1>20. IntgenOK'
  <2>1. /\ intgenSet' \in Seq(Addr) /\ IsInjective(intgenSet')
        /\ intgenSet' = intgenSet \/ intgenSet' = Append(intgenSet, TableAt)
    BY <1>8 DEF SetWritten
  <2>2. \A a \in Range(intgenSet') : a \in Range(intgenSet) \/ a = TableAt
    <3>1. intgenSet \in Seq(Addr)
      BY DEF IInv, IntgenOK
    <3>2. Range(Append(intgenSet, TableAt)) = Range(intgenSet) \cup {TableAt}
      BY <1>1, <3>1, AppendRange
    <3> QED
      BY <2>1, <3>2
  <2>3. \A a \in Range(intgenSet) : a \in Addr /\ Stays(heap, gen, a)
    BY <1>1, <1>2, <1>3 DEF IInv, IntgenOK, RememberedOK
  <2>4. \A a \in Range(intgenSet') : Stays(heap', gen, a)
    BY <1>1, <1>11, <2>2, <2>3
  <2>5. <<>> \in Seq(Addr) /\ IsInjective(<<>>)
    BY DEF IsInjective
  <2> QED
    BY <1>3, <1>17, <2>1, <2>4, <2>5 DEF IntgenOK
<1>21. MapOK'
  <2>1. wkDictSet' = <<MapAt>> /\ wkDictSet' \in Seq(Addr)
    BY <1>1 DEF IInv, MapOK
  <2>2. Stays(heap', gen, MapAt)
    BY <1>1, <1>11
  <2> QED
    BY <1>1, <1>3, <1>10, <2>1, <2>2 DEF MapOK
<1>22. FinalOK'
  <2>1. finSet \in Seq(FinEntry) /\ \A n \in DOMAIN finSet : ValueOK(heap, gen, finSet[n].value)
    BY DEF IInv, FinalOK
  <2>2. \A n \in DOMAIN finSet : ValueOK(heap', gen, finSet[n].value)
    BY <1>11, <2>1 DEF ValueOK
  <2>3. finSet' \in Seq(FinEntry) /\ \A n \in DOMAIN finSet' : ValueOK(heap', gen, finSet'[n].value)
    <3>1. CASE finSet' = finSet
      BY <2>1, <2>2, <3>1
    <3>2. CASE finSet' = Append(finSet, [value |-> u, map |-> MapAt[1]])
      <4>1. ValueOK(heap', gen, u) /\ MapAt[1] \in Object
        BY <1>1, <1>6, <1>11 DEF ValueOK, Addr
      <4> QED
        BY <2>1, <2>2, <3>2, <4>1, FinSetGrown
    <3> QED
      BY <3>1, <3>2 DEF EntryWritten
  <2>4. \A f \in Range(slots') :
          f[1] = MapAt' /\ f[2] \in Keys /\ Entries(heap', MapAt')[f[2]] \in Word
    <3> SUFFICES ASSUME NEW f \in Range(slots')
                 PROVE  f[1] = MapAt' /\ f[2] \in Keys /\ Entries(heap', MapAt')[f[2]] \in Word
      OBVIOUS
    <3>1. f \in Range(slots) /\ f \in FieldRef
      <4>1. \A e \in Range(slots) : e \in FieldRef
        BY <1>15, RangeIn
      <4> QED
        BY <1>15, <4>1
    <3>2. f[1] = MapAt /\ f[2] \in Keys /\ Entries(heap, MapAt)[f[2]] \in Word
      BY <3>1 DEF IInv, FinalOK
    <3>3. f[2] # k
      <4>1. f = <<f[1], f[2]>>
        BY <3>1, FieldRefIs
      <4> QED
        BY <1>15, <3>2, <4>1
    <3>4. Entries(heap, MapAt) = heap[TableAt].args /\ Entries(heap', MapAt') = heap'[TableAt'].args
      BY DEF Entries, TableOf, TableAt
    <3>5. heap'[TableAt].args[f[2]] = heap[TableAt].args[f[2]]
      BY <1>1, <1>11, <3>2, <3>3 DEF Stays, Live
    <3> QED
      BY <1>10, <1>12, <3>2, <3>4, <3>5
  <2> QED
    BY <1>3, <1>15, <2>3, <2>4 DEF FinalOK
<1>23. VisitedField(TableAt, k, w, u, v)
  <2>1. <<TableAt, k>> \in PendingFields
    <3>1. <<TableAt, k>> \in FieldRef
      BY <1>1 DEF FieldRef
    <3> QED
      BY <1>3, <1>15, <3>1 DEF PendingFields, PendingHere
  <2>2. <<TableAt, k>> \notin PendingFields'
    BY <1>16 DEF p2
  <2>3. \A f \in PendingFields' : f \in PendingFields \/ (ToForward(heap, w, gen) /\ f[1] = u)
    BY <1>5, <1>16 DEF p1, p2
  <2>4. ToForward(heap, w, gen) => (u[1] \in Table <=> TableAt[1] = StartupMap)
    BY <1>6, <1>9 DEF Visits
  <2> QED
    BY <1>1, <1>9, <2>1, <2>2, <2>3, <2>4 DEF VisitedField
<1> QED
  BY <1>10, <1>12, <1>14, <1>18, <1>19, <1>20, <1>21, <1>22, <1>23 DEF IInv

(* What the second loop does with one entry.                                *)
EntryVisited(k, w, u, v) ==
  /\ EntryAt(k, w, u) /\ EntryWritten(k, w, u, v) /\ VisitedField(TableAt, k, w, u, v)
  /\ MapAt' = MapAt /\ TableAt' = TableAt

(* The names the actions use, in terms of the startup map.                  *)
LEMMA EntryNames ==
  ASSUME IInv, phase = "entries", slots # <<>>
  PROVE  LET m == Head(slots)[1]
             k == Head(slots)[2]
             w == Deref(heap, Entries(heap, m)[k])
         IN /\ m = MapAt /\ w = Deref(heap, heap[TableAt].args[k])
            /\ TableOf(ForwardHeap(heap, w, gen), m) = TableAt
<1> DEFINE k == Head(slots)[2]
           w == Deref(heap, heap[TableAt].args[k])
<1>1. Head(slots) = <<MapAt, k>> /\ ForwardHeap(heap, w, gen)[MapAt] = heap[MapAt]
  BY EntryFound
<1>2. Head(slots)[1] = MapAt
  BY <1>1
<1>3. Entries(heap, MapAt) = heap[TableAt].args
  BY DEF Entries, TableOf, TableAt
<1>4. TableOf(ForwardHeap(heap, w, gen), MapAt) = TableAt
  BY <1>1 DEF TableOf, TableAt
<1> QED
  BY <1>2, <1>3, <1>4

(* Finalizing an entry keeps the invariant.                                 *)
LEMMA FinalizeEntryStep ==
  ASSUME IInv, FinalizeEntry
  PROVE  /\ IInv'
         /\ \E k, w, u : /\ EntryVisited(k, w, u, Empty)
                         /\ finSet' = Append(finSet, [value |-> u, map |-> MapAt[1]])
<1> DEFINE k == Head(slots)[2]
           w == Deref(heap, heap[TableAt].args[k])
           u == ForwardWord(heap, w, gen)
<1>1. phase = "entries" /\ slots # <<>>
  BY DEF FinalizeEntry
<1>2. /\ Head(slots)[1] = MapAt /\ Deref(heap, Entries(heap, MapAt)[k]) = w
      /\ TableOf(ForwardHeap(heap, w, gen), MapAt) = TableAt
  BY <1>1, EntryNames
<1>3. EntryAt(k, w, u)
  BY <1>1 DEF EntryAt
<1>4. /\ EntryWritten(k, w, u, Empty) /\ UNCHANGED <<root, wkDictSet, phase, gen, todo>>
      /\ finSet' = Append(finSet, [value |-> u, map |-> MapAt[1]])
  BY <1>2 DEF FinalizeEntry, Write, AddToFinSet, EntryWritten
<1> HIDE DEF k, w, u
<1>5. IInv' /\ EntryVisited(k, w, u, Empty)
  BY <1>1, <1>3, <1>4, EntryVisit DEF EntryVisited
<1> QED
  BY <1>4, <1>5

(* Keeping an entry of a weak map keeps the invariant.                      *)
LEMMA KeepEntryStep ==
  ASSUME IInv, KeepEntry
  PROVE  /\ IInv' /\ finSet' = finSet
         /\ \E k, w, u : /\ EntryVisited(k, w, u, u) /\ w # Integer
                         /\ spared' = spared \/ spared' = spared \cup {u}
                         /\ ToForward(heap, w, gen) => u \in spared'
                         /\ spared' # spared => ToForward(heap, w, gen)
<1> DEFINE k == Head(slots)[2]
           w == Deref(heap, heap[TableAt].args[k])
           u == ForwardWord(heap, w, gen)
<1>1. phase = "entries" /\ slots # <<>>
  BY DEF KeepEntry
<1>2. /\ Head(slots)[1] = MapAt /\ Deref(heap, Entries(heap, MapAt)[k]) = w
      /\ TableOf(ForwardHeap(heap, w, gen), MapAt) = TableAt
  BY <1>1, EntryNames
<1>3. EntryAt(k, w, u)
  BY <1>1 DEF EntryAt
<1>4. /\ EntryWritten(k, w, u, u) /\ UNCHANGED <<root, wkDictSet, phase, gen, todo>>
      /\ finSet' = finSet /\ w # Integer
      /\ \/ ~ToForward(heap, w, gen) /\ UNCHANGED spared
         \/ \E clash \in Clash :
              /\ ToForward(heap, w, gen) /\ ~Permitted(clash)
              /\ spared' = IF clash THEN spared \cup {u} ELSE spared
  BY <1>2 DEF KeepEntry, Write, EntryWritten
<1> HIDE DEF k, w, u
<1>5. IInv' /\ EntryVisited(k, w, u, u)
  BY <1>1, <1>3, <1>4, EntryVisit DEF EntryVisited
<1>6. /\ spared' = spared \/ spared' = spared \cup {u}
      /\ ToForward(heap, w, gen) => u \in spared'
      /\ spared' # spared => ToForward(heap, w, gen)
  BY <1>4 DEF Permitted
<1> QED
  BY <1>4, <1>5, <1>6

(* The fields of the copies are all that is left to visit.                  *)
LEMMA EndEntriesStep ==
  ASSUME IInv, EndEntries
  PROVE  IInv'
<1>1. /\ phase = "entries" /\ slots = <<>> /\ phase' = "scanFinal"
      /\ UNCHANGED <<heap, root, intgenSet, wkDictSet, finSet, gen, scan, todo, slots>>
  BY DEF EndEntries, sets, loops
<1>2. /\ phase # "mutator" /\ phase \notin Outside /\ phase \notin BeforeDicts /\ phase \notin BeforeOld
      /\ phase' \notin Outside /\ phase' \in Phases /\ phase' \notin BeforeDicts
      /\ gen \in 1..ToSpace /\ Bound = gen /\ Bound' = gen
      /\ phase' \notin {"mutator", "scanRoots", "intgen", "entry", "scanOld", "dicts", "entries", "finalize"}
      /\ phase \notin {"mutator", "scanRoots", "intgen", "entry", "scanOld", "dicts", "scanFinal", "finalize"}
      /\ phase' \notin BeforeOld /\ phase' \notin Outside \cup {"dicts"}
      /\ phase \in {"entries", "scanFinal"} /\ phase' \in {"entries", "scanFinal"}
  BY <1>1 DEF IInv, PhaseOK, Outside, Bound, Phases, BeforeDicts, BeforeOld
<1>3. /\ ToVisit = <<>> /\ ToVisit' = <<>> /\ RememberedBlocks' = RememberedBlocks
      /\ Range(slots) = {}
  BY <1>1, <1>2 DEF ToVisit, RememberedBlocks, Range
<1>4. PendingFields' = PendingFields
  <2>1. \A f : PendingHere(f)' <=> PendingHere(f)
    BY <1>1, <1>2, <1>3 DEF PendingHere
  <2> QED
    BY <2>1 DEF PendingFields
<1>5. PhaseOK'
  BY <1>1, <1>2 DEF IInv, PhaseOK, MapsAreRooted
<1>6. HeapInv'
  BY <1>1, <1>2, <1>3, <1>4 DEF IInv, HeapInv
<1>7. ScanOK'
  BY <1>1, <1>2 DEF IInv, ScanOK
<1>8. IntgenOK'
  BY <1>1, <1>2, <1>3 DEF IInv, IntgenOK
<1>9. MapOK'
  <2>1. MapAt' = MapAt
    BY <1>1 DEF MapAt
  <2> QED
    BY <1>1, <1>2, <2>1 DEF IInv, MapOK
<1>10. FinalOK'
  BY <1>1, <1>2 DEF IInv, FinalOK
<1> QED
  BY <1>5, <1>6, <1>7, <1>8, <1>9, <1>10 DEF IInv

-----------------------------------------------------------------------------
(***************************************************************************)
(* The end of the collection, and the theorems.                            *)
(***************************************************************************)

(* What is released is not live: nothing is pending any more.               *)
LEMMA ReleaseStep ==
  ASSUME IInv, Release
  PROVE  /\ IInv' /\ MapAt' = MapAt /\ PendingFields = {} /\ Bound = gen
         /\ phase = "scanFinal" \/ (StartupMap = None /\ finSet = <<>>)
         /\ \A a \in Addr : Stays(heap', 0, a) <=> Stays(heap, gen, a)
         /\ \A a \in Addr : Stays(heap, gen, a) => heap'[a].args = heap[a].args
<1>1. /\ scan = <<>> /\ phase' = "finalize" /\ slots' = finSet
      /\ phase = "scanFinal" \/ (phase = "scanOld" /\ wkDictSet = <<>>)
      /\ UNCHANGED <<root, intgenSet, wkDictSet, finSet, gen, scan, todo>>
  BY DEF Release
<1>2. /\ phase # "mutator" /\ phase \notin Outside /\ phase \notin {"intgen", "entry", "dicts", "entries"}
      /\ phase # "scanRoots" /\ gen \in 1..ToSpace /\ Bound = gen
      /\ phase' \in Outside /\ phase' # "mutator"
      /\ phase = "scanOld" => phase \in BeforeDicts
      /\ phase = "scanFinal" => phase \notin BeforeDicts
  BY <1>1 DEF IInv, PhaseOK, Outside, Bound, BeforeDicts, BeforeOld
<1>3. /\ Range(scan) = {} /\ todo = <<>> /\ RememberedBlocks = Range(intgenSet)
  BY <1>1, <1>2 DEF IInv, PhaseOK, Range, RememberedBlocks, ToVisit
<1>4. phase = "scanOld" => StartupMap = None /\ finSet = <<>>
  <2>1. phase = "scanOld" /\ StartupMap # None => \E d \in Addr : wkDictSet = <<d>>
    BY <1>2 DEF IInv, MapOK
  <2> QED
    BY <1>1, <2>1 DEF IInv, MapOK
<1>5. PendingFields = {}
  <2>1. \A f \in FieldRef : f[1][1] # None
    BY StartupIs DEF FieldRef, Addr
  <2> QED
    BY <1>1, <1>2, <1>3, <1>4, <2>1 DEF PendingFields, PendingHere
<1>6. /\ Sound(heap, gen, {}, Range(intgenSet)) /\ RootOK(heap, gen, root) /\ HeapType(heap, gen)
  BY <1>2, <1>3, <1>5 DEF IInv, HeapInv, Sound, HeapOK
<1>7. Released(heap, heap', gen)
  <2>1. heap' = [a \in Addr |->
                   IF heap[a] = Free \/ AlreadyMoved(heap, a) \/ heap[a].space < gen THEN Free
                   ELSE [heap[a] EXCEPT !.space = SpaceAfterSwap(@)]]
    BY DEF Release, Collected
  <2> QED
    BY <1>2, <1>6, <2>1, ReleaseIs
<1>8. \A a \in Range(intgenSet) : Stays(heap, gen, a)
  BY <1>2 DEF IInv, IntgenOK
<1>9. /\ Sound(heap', 0, {}, Range(intgenSet))
      /\ \A a \in Addr : Stays(heap', 0, a) <=> Stays(heap, gen, a)
      /\ \A a \in Addr : ~AlreadyMoved(heap', a)
      /\ \A a \in Addr : Stays(heap, gen, a) => heap'[a].args = heap[a].args
  BY <1>2, <1>6, <1>7, <1>8, ReleaseSound
<1>10. RootOK(heap', 0, root) /\ MapAt' = MapAt /\ (StartupMap # None => MapAt \in Addr)
  <2>1. root \in Addr /\ Stays(heap, gen, root) /\ heap'[root].args = heap[root].args
    BY <1>6, <1>9 DEF RootOK
  <2> QED
    BY <1>1, <1>6, <1>9, <2>1 DEF RootOK, MapAt
<1>11. /\ intgenSet \in Seq(Addr) /\ IsInjective(intgenSet)
       /\ \A a \in Range(intgenSet) : Stays(heap', 0, a)
  <2>1. intgenSet \in Seq(Addr) /\ IsInjective(intgenSet)
    BY DEF IInv, IntgenOK
  <2>2. \A a \in Range(intgenSet) : a \in Addr
    BY <2>1, RangeIn
  <2> QED
    BY <1>8, <1>9, <2>1, <2>2
<1>12. IF StartupMap = None THEN wkDictSet = <<>> /\ finSet = <<>> ELSE wkDictSet = <<MapAt>>
  BY <1>1, <1>2, <1>4 DEF IInv, MapOK
<1>13. finSet \in Seq(FinEntry) /\ \A n \in DOMAIN finSet : ValueOK(heap', 0, finSet[n].value)
  <2>1. finSet \in Seq(FinEntry)
    BY DEF IInv, FinalOK
  <2>2. CASE phase = "scanFinal"
    <3>1. \A n \in DOMAIN finSet : ValueOK(heap, gen, finSet[n].value)
      BY <2>2 DEF IInv, FinalOK
    <3> QED
      BY <1>9, <2>1, <3>1 DEF ValueOK
  <2>3. CASE phase = "scanOld"
    BY <1>4, <2>1, <2>3
  <2> QED
    BY <1>1, <2>2, <2>3
<1>14. MapsAreRooted
  BY DEF IInv, PhaseOK
<1>15. OutsideInv'
  BY <1>1, <1>2, <1>3, <1>9, <1>10, <1>11, <1>12, <1>13, <1>14 DEF OutsideInv, MapsAreRooted
<1> QED
  BY <1>1, <1>2, <1>4, <1>5, <1>9, <1>10, <1>15, OutsideNext

(* Every step keeps the invariant.                                          *)
LEMMA InvNext == IInv /\ [Next]_vars => IInv'
<1> SUFFICES ASSUME IInv, [Next]_vars
             PROVE  IInv'
  OBVIOUS
<1>1. CASE Mutator
  BY <1>1, MutatorStep
<1>2. CASE \E g \in Collections : StartGC(g)
  BY <1>2, StartGCStep
<1>3. CASE Collector
  BY <1>3, ScanFieldStep, StartIntgenStep, IntgenEntryStep, IntgenFieldStep, IntgenKeepStep,
     EndIntgenStep, StartDictsStep, ForwardDictStep, StartEntriesStep, FinalizeEntryStep,
     KeepEntryStep, EndEntriesStep, ReleaseStep, RunFinalizerStep, FinishGCStep
  DEF Collector
<1>4. CASE UNCHANGED vars
  <2>1. /\ UNCHANGED <<heap, root, intgenSet, wkDictSet, finSet, phase, gen, scan, todo, slots>>
    BY <1>4 DEF vars, sets, loops
  <2>2. /\ PendingFields' = PendingFields /\ Bound' = Bound /\ RememberedBlocks' = RememberedBlocks
        /\ MapAt' = MapAt /\ ToVisit' = ToVisit
    BY <2>1 DEF PendingFields, PendingHere, Bound, RememberedBlocks, ToVisit, MapAt, TableAt
  <2>3. PhaseOK'
    BY <2>1 DEF IInv, PhaseOK, MapsAreRooted
  <2>4. HeapInv'
    BY <2>1, <2>2 DEF IInv, HeapInv
  <2>5. ScanOK'
    BY <2>1 DEF IInv, ScanOK
  <2>6. IntgenOK'
    BY <2>1, <2>2 DEF IInv, IntgenOK
  <2>7. MapOK'
    <3>1. \A d : WasMap(d)' <=> WasMap(d)
      BY <2>1 DEF WasMap, MapAt
    <3> QED
      BY <2>1, <2>2, <3>1 DEF IInv, MapOK
  <2>8. FinalOK'
    <3>1. Entries(heap, MapAt)' = Entries(heap, MapAt)
      BY <2>1 DEF Entries, TableOf, MapAt
    <3> QED
      BY <2>1, <2>2, <3>1 DEF IInv, FinalOK
  <2> QED
    BY <2>3, <2>4, <2>5, <2>6, <2>7, <2>8 DEF IInv
<1> QED
  BY <1>1, <1>2, <1>3, <1>4 DEF Next

(* What can be reached from live blocks is live, between collections.       *)
LEMMA ReachedStays ==
  ASSUME OutsideInv, NEW S \in SUBSET Addr, \A a \in S : Stays(heap, 0, a)
  PROVE  \A a \in Reach(heap, S, StoredWords) :
           a \in Addr /\ Stays(heap, 0, a) /\ heap[a].space # ToSpace /\ ~IsStale(a)
<1> DEFINE C == {a \in Addr : Stays(heap, 0, a)}
<1>1. /\ HeapType(heap, 0) /\ AllPending(heap, 0, {})
  BY DEF OutsideInv, Sound, HeapOK
<1>2. ASSUME NEW a \in C
      PROVE  StoredWords(heap, a) \subseteq C
  <2>1. ASSUME NEW i \in DOMAIN heap[a].args, heap[a].args[i] \in Addr
        PROVE  heap[a].args[i] \in C
    BY <1>1, <2>1 DEF AllPending
  <2> QED
    BY <2>1 DEF StoredWords, Range
<1>3. S \in SUBSET C /\ C \in SUBSET Addr
  OBVIOUS
<1>4. ASSUME NEW a \in C
      PROVE  a \in Addr /\ Stays(heap, 0, a) /\ heap[a].space # ToSpace /\ ~IsStale(a)
  <2>1. Alloc(heap, a) /\ ~AlreadyMoved(heap, a) /\ heap[a].space # ToSpace
    BY <1>1 DEF HeapType, Stays, Live, ToSpace
  <2> QED
    BY <2>1 DEF IsStale, Alloc, Free
<1> HIDE DEF C
<1>5. Reach(heap, S, StoredWords) \subseteq C
  BY <1>2, <1>3, ReachStoredWords
<1> QED
  BY <1>4, <1>5

(* What the program can reach from the root block stays and is not stale.   *)
LEMMA RootReached ==
  ASSUME IInv, phase = "mutator"
  PROVE  \A a \in Reach(heap, {root}, StoredWords) :
           a \in Addr /\ Stays(heap, 0, a) /\ heap[a].space # ToSpace /\ ~IsStale(a)
<1>1. OutsideInv
  BY OutsideIs DEF Outside
<1>2. {root} \in SUBSET Addr /\ \A a \in {root} : Stays(heap, 0, a)
  BY <1>1 DEF OutsideInv, RootOK
<1> QED
  BY <1>1, <1>2, ReachedStays

(* The invariant implies NoStalePointer.                                    *)
LEMMA NoStaleIs == IInv => NoStalePointer
  BY RootReached DEF NoStalePointer

(* The invariant implies FinalizersGetLiveValues.                           *)
LEMMA FinalizersIs == IInv => FinalizersGetLiveValues
<1> SUFFICES ASSUME IInv, phase = "finalize"
             PROVE  \A a \in Reach(heap, {slots[n].value : n \in DOMAIN slots} \cap Addr, StoredWords) :
                      ~IsStale(a)
  BY DEF FinalizersGetLiveValues
<1> DEFINE S == {slots[n].value : n \in DOMAIN slots} \cap Addr
<1>1. OutsideInv
  BY OutsideIs DEF Outside
<1>2. S \in SUBSET Addr /\ \A a \in S : Stays(heap, 0, a)
  BY <1>1 DEF OutsideInv, ValueOK
<1> HIDE DEF S
<1>3. \A a \in Reach(heap, S, StoredWords) : ~IsStale(a)
  BY <1>1, <1>2, ReachedStays
<1> QED
  BY <1>3 DEF S

(* The invariant implies Remembered.                                        *)
LEMMA RememberedIs == IInv => Remembered
<1> SUFFICES ASSUME IInv, phase = "mutator", NEW a \in Reach(heap, {root}, StoredWords)
             PROVE  /\ (\E b \in StoredWords(heap, a) : Generation(heap, b) < Generation(heap, a))
                         => heap[a].childish
                    /\ Cardinality({n \in DOMAIN intgenSet : intgenSet[n] = a})
                         = (IF heap[a].childish THEN 1 ELSE 0)
  BY DEF Remembered
<1>1. OutsideInv
  BY OutsideIs DEF Outside
<1>2. /\ RememberedOK(heap, 0, Range(intgenSet)) /\ AllPending(heap, 0, {}) /\ HeapType(heap, 0)
      /\ intgenSet \in Seq(Addr) /\ IsInjective(intgenSet)
  BY <1>1 DEF OutsideInv, Sound, HeapOK
<1>3. a \in Addr /\ Stays(heap, 0, a) /\ heap[a].space # ToSpace
  BY RootReached
<1>4. heap[a].childish <=> a \in Range(intgenSet)
  BY <1>2, <1>3 DEF RememberedOK
<1>5. ASSUME NEW b \in StoredWords(heap, a), Generation(heap, b) < Generation(heap, a)
      PROVE  heap[a].childish
  <2>1. PICK i \in DOMAIN heap[a].args : heap[a].args[i] = b /\ b \in Addr
    BY <1>5 DEF StoredWords, Range
  <2>2. Stays(heap, 0, b)
    BY <1>2, <1>3, <2>1 DEF AllPending
  <2>3. heap[b].space # ToSpace
    BY <1>2, <2>1, <2>2 DEF HeapType, Stays, Live, ToSpace
  <2>4. heap[b].space < heap[a].space
    BY <1>3, <1>5, <2>3 DEF Generation
  <2> QED
    BY <1>2, <1>3, <1>4, <2>1, <2>2, <2>4 DEF RememberedOK
<1>6. Cardinality({n \in DOMAIN intgenSet : intgenSet[n] = a})
        = (IF heap[a].childish THEN 1 ELSE 0)
  BY <1>2, <1>4, Occurrences
<1> QED
  BY <1>5, <1>6

(* The invariant is one: it holds at the start, and every step of the       *)
(* program, of DoGCWithoutFinalize and of DoFinalize preserves it.          *)
THEOREM Invariant == ASSUME MapsAreRooted PROVE Spec => []IInv
<1>1. Init => IInv
  BY InvInit
<1> QED
  BY <1>1, InvNext, PTL DEF Spec

(* What Store::Verify checks: between two collections every word that the    *)
(* root leads to is an integer or refers to a block that is alive and was    *)
(* not moved, whatever the program allocated and stored in between.         *)
THEOREM NoPointerIsStale == ASSUME MapsAreRooted PROVE Spec => []NoStalePointer
  BY Invariant, NoStaleIs, PTL

(* Block::ReplaceArgUnchecked and HandleInterGenerationalPointers keep      *)
(* intgenSet exact: every live block with a pointer to a younger one is in   *)
(* it once, and the childish flag says which blocks are.                    *)
THEOREM RememberedSetIsExact == ASSUME MapsAreRooted PROVE Spec => []Remembered
  BY Invariant, RememberedIs, PTL

(* HandleWeakDictionaries and FinalizeCheneyScan: what DoFinalize hands to   *)
(* a finalizer is intact, with everything that can be reached from it.      *)
THEOREM FinalizedValuesAreLive == ASSUME MapsAreRooted PROVE Spec => []FinalizersGetLiveValues
  BY Invariant, FinalizersIs, PTL

-----------------------------------------------------------------------------
(***************************************************************************)
(* The finalization set.                                                   *)
(***************************************************************************)

(* The set never has to be enlarged: one collection finalizes at most the   *)
(* entries of one map. With the 1024 words it has at the start these may be  *)
(* 511; when it is enlarged, FinSetIsAllocated fails (see the README).       *)
FinSetSuffices == 2 * KeyCount < FinSetSize

(* What FinSetIsAllocated needs: the set is not enlarged, hence where it     *)
(* was, and each entry of the map is in it or yet to be visited.            *)
RoomInv ==
  /\ finMax = FinSetSize
  /\ finSpace = IF phase \notin Outside /\ gen = ToSpace THEN ToSpace ELSE Oldest
  /\ phase = "dicts" => finSet = <<>>
  /\ phase = "entries" => Len(finSet) + Len(slots) <= KeyCount

(* A step that neither enlarges the set nor swaps the semispaces.           *)
LEMMA RoomKept ==
  ASSUME RoomInv, UNCHANGED <<finSpace, finMax>>,
         phase' \notin Outside /\ gen' = ToSpace <=> phase \notin Outside /\ gen = ToSpace,
         phase' = "dicts" => finSet' = <<>>,
         phase' = "entries" => Len(finSet') + Len(slots') <= KeyCount
  PROVE  RoomInv'
  BY DEF RoomInv

(* The entries of one map are no more than the keys.                        *)
EntriesFit == slots \in Seq(FieldRef) /\ Len(slots) <= KeyCount

(* The entries finalized and those yet to be visited are different keys.    *)
LEMMA EntriesAreKeys == IInv /\ phase = "entries" => EntriesFit
<1> SUFFICES ASSUME IInv, phase = "entries"
             PROVE  EntriesFit
  OBVIOUS
<1> DEFINE key == [n \in 1..Len(slots) |-> slots[n][2]]
<1>1. /\ slots \in Seq(FieldRef) /\ IsInjective(slots)
      /\ \A f \in Range(slots) : f[1] = MapAt /\ f[2] \in Keys
  BY DEF IInv, FinalOK
<1>2. /\ DOMAIN slots = 1..Len(slots) /\ Len(slots) \in Nat
      /\ \A n \in 1..Len(slots) : slots[n] \in FieldRef /\ slots[n] \in Range(slots)
  BY <1>1 DEF Range
<1>3. \A n \in 1..Len(slots) : slots[n] = <<MapAt, slots[n][2]>> /\ slots[n][2] \in Keys
  BY <1>1, <1>2, FieldRefIs
<1>4. key \in [1..Len(slots) -> Keys]
  BY <1>3
<1>5. \A i, j \in 1..Len(slots) : key[i] = key[j] => i = j
  <2>1. \A i, j \in 1..Len(slots) : slots[i] = slots[j] => i = j
    BY <1>1, <1>2 DEF IsInjective
  <2> QED
    BY <1>3, <2>1
<1> HIDE DEF key
<1>6. KeyCount \in Nat /\ IsFiniteSet(Keys) /\ Cardinality(Keys) = KeyCount
  BY StoreAssumption, FS_Interval DEF Keys, StoreAssumption
<1>7. IsFiniteSet(1..Len(slots)) /\ Cardinality(1..Len(slots)) = Len(slots)
  BY <1>2, FS_Interval
<1>8. ~(KeyCount < Len(slots))
  BY <1>4, <1>5, <1>6, <1>7, FS_PigeonHole
<1> QED
  BY <1>1, <1>2, <1>6, <1>8 DEF EntriesFit

(* The same at the end of a step.                                           *)
LEMMA EntriesFitNext == (IInv /\ phase = "entries" => EntriesFit)'
  BY EntriesAreKeys, PTL

(* HandleWeakDictionaries, phase two.                                       *)
LEMMA RoomEntries ==
  ASSUME IInv, RoomInv, FinSetSuffices, FinalizeEntry \/ KeepEntry
  PROVE  RoomInv'
<1>1. phase = "entries" /\ slots # <<>> /\ slots' = Tail(slots) /\ UNCHANGED <<phase, gen>>
  BY DEF FinalizeEntry, KeepEntry
<1>2. /\ finMax = FinSetSize /\ FinSetSize \in Nat /\ KeyCount \in Nat
      /\ Len(finSet) + Len(slots) <= KeyCount
  BY <1>1, StoreAssumption DEF RoomInv, StoreAssumption
<1>3. finSet \in Seq(FinEntry) /\ Len(finSet) \in Nat
  BY DEF IInv, FinalOK
<1>4. Len(slots) \in Nat \ {0} /\ Len(slots') = Len(slots) - 1
  BY <1>1, EntriesAreKeys DEF EntriesFit
<1>5. CASE finSet' = finSet /\ UNCHANGED <<finSpace, finMax>>
  <2>1. Len(finSet') + Len(slots') <= KeyCount
    BY <1>2, <1>3, <1>4, <1>5
  <2> QED
    BY <1>1, <1>5, <2>1, RoomKept
<1>6. CASE \E w, m : AddToFinSet(w, m)
  <2>1. PICK e : finSet' = Append(finSet, e)
    BY <1>6 DEF AddToFinSet
  <2>2. Len(finSet') = Len(finSet) + 1
    BY <1>3, <2>1
  <2>3. FinSetMax = finMax
    <3>1. 2 * Len(finSet) + 1 + 1 < finMax
      BY <1>2, <1>3, <1>4 DEF FinSetSuffices
    <3> QED
      BY <1>2, <1>3, <3>1 DEF FinSetMax, EnlargedMax
  <2>4. UNCHANGED <<finSpace, finMax>>
    BY <1>6, <2>3 DEF AddToFinSet
  <2>5. Len(finSet') + Len(slots') <= KeyCount
    BY <1>2, <1>3, <1>4, <2>2
  <2> QED
    BY <1>1, <2>4, <2>5, RoomKept
<1> QED
  BY <1>5, <1>6 DEF FinalizeEntry, KeepEntry

(* Every step keeps room for the entries to come.                           *)
LEMMA RoomNext ==
  ASSUME IInv, RoomInv, FinSetSuffices, [Next]_vars, IInv'
  PROVE  RoomInv'
<1> USE DEF Outside
<1>1. CASE UNCHANGED vars
  BY <1>1, RoomKept DEF vars, sets, loops, RoomInv
<1>2. CASE Mutator
  <2>1. /\ phase = "mutator" /\ UNCHANGED <<phase, gen, finSpace, finMax>>
    BY <1>2 DEF Mutator, New, NewMap, ReplaceArg, Become, Put, RemoveKey
  <2> QED
    BY <2>1, RoomKept
<1>3. ASSUME NEW g \in Collections, StartGC(g)
      PROVE  RoomInv'
  <2>1. /\ phase = "mutator" /\ phase' = "scanRoots" /\ gen' = g + 1 /\ finMax' = finMax
        /\ finSpace' = IF g = Oldest /\ finSpace # None THEN ToSpace ELSE finSpace
    BY <1>3 DEF StartGC
  <2>2. finSpace = Oldest /\ finMax = FinSetSize /\ Oldest # None
    BY <2>1, StartupIs DEF RoomInv, Oldest
  <2>3. g \in 0..2
    BY StoreAssumption DEF StoreAssumption, Youngest, Oldest
  <2>4. g = Oldest <=> gen' = ToSpace
    BY <2>1, <2>3 DEF Oldest, ToSpace
  <2> QED
    BY <2>1, <2>2, <2>4 DEF RoomInv
<1>4. CASE Release
  <2>1. /\ phase \in {"scanFinal", "scanOld"} /\ phase' = "finalize" /\ finMax' = finMax
        /\ finSpace' = IF finSpace = None \/ finSpace < gen THEN None
                       ELSE SpaceAfterSwap(finSpace)
    BY <1>4 DEF Release
  <2>2. gen \in 1..ToSpace /\ finMax = FinSetSize
    BY <2>1 DEF IInv, PhaseOK, RoomInv
  <2>3. finSpace = IF gen = ToSpace THEN ToSpace ELSE Oldest
    BY <2>1 DEF RoomInv
  <2>4. finSpace # None /\ ~(finSpace < gen) /\ SpaceAfterSwap(finSpace) = Oldest
    BY <2>2, <2>3, StartupIs DEF Oldest, ToSpace, SpaceAfterSwap
  <2> QED
    BY <2>1, <2>2, <2>4 DEF RoomInv
<1>5. CASE ScanField \/ StartIntgen \/ IntgenEntry \/ IntgenField \/ IntgenKeep \/ EndIntgen \/ EndEntries
  <2>1. UNCHANGED <<gen, finSpace, finMax>>
    BY <1>5
    DEF ScanField, StartIntgen, IntgenEntry, IntgenField, IntgenKeep, EndIntgen, EndEntries, sets, loops
  <2>2. phase \notin Outside /\ phase' \notin Outside \cup {"dicts", "entries"}
    BY <1>5 DEF ScanField, StartIntgen, IntgenEntry, IntgenField, IntgenKeep, EndIntgen, EndEntries
  <2> QED
    BY <2>1, <2>2, RoomKept
<1>6. CASE StartDicts
  BY <1>6, RoomKept DEF StartDicts
<1>7. CASE ForwardDict
  <2>1. phase = "dicts" /\ todo # <<>> /\ UNCHANGED <<phase, gen>>
    BY <1>7 DEF ForwardDict
  <2>2. ~ToForward(heap, Last(todo), gen)
    BY <2>1, ForwardDictIs
  <2>3. UNCHANGED <<finSet, finSpace, finMax>>
    BY <1>7, <2>2 DEF ForwardDict, IsDying
  <2>4. finSet' = <<>>
    BY <2>1, <2>3 DEF RoomInv
  <2> QED
    BY <2>1, <2>3, <2>4, RoomKept
<1>8. CASE StartEntries
  <2>1. phase = "dicts" /\ phase' = "entries" /\ UNCHANGED <<finSet, gen, finSpace, finMax>>
    BY <1>8 DEF StartEntries, sets
  <2>2. slots' \in Seq(FieldRef) /\ Len(slots') <= KeyCount
    BY <2>1, EntriesFitNext DEF EntriesFit
  <2>3. finSet' = <<>> /\ Len(<<>>) = 0
    BY <2>1 DEF RoomInv
  <2>4. Len(finSet') + Len(slots') <= KeyCount
    <3>1. Len(slots') \in Nat
      BY <2>2
    <3>2. Len(finSet') = 0
      BY <2>3
    <3> QED
      BY <2>2, <3>1, <3>2
  <2> QED
    BY <2>1, <2>4, RoomKept
<1>9. CASE FinalizeEntry \/ KeepEntry
  BY <1>9, RoomEntries
<1>10. CASE RunFinalizer \/ FinishGC
  <2>1. UNCHANGED <<finSpace, finMax>> /\ phase \in Outside /\ phase' \in Outside
    BY <1>10 DEF RunFinalizer, FinishGC, sets
  <2> QED
    BY <2>1, RoomKept
<1> QED
  BY <1>1, <1>2, <1>3, <1>4, <1>5, <1>6, <1>7, <1>8, <1>9, <1>10 DEF Next, Collector

(* A finalization set with room for all entries of the map is never freed:   *)
(* what DoGC finalizes is read from where Set::New put it, or from its copy. *)
THEOREM LargeFinSetStays == ASSUME MapsAreRooted, FinSetSuffices PROVE Spec => []FinSetIsAllocated
<1>1. Spec => []IInv
  BY Invariant
<1>2. Init => RoomInv
  BY DEF Init, RoomInv, Outside
<1>3. IInv /\ IInv' /\ RoomInv /\ [Next]_vars => RoomInv'
  BY RoomNext
<1>4. RoomInv => FinSetIsAllocated
  BY StartupIs DEF FinSetIsAllocated, RoomInv, Outside, Oldest
<1> QED
  BY <1>1, <1>2, <1>3, <1>4, PTL DEF Spec

-----------------------------------------------------------------------------
(***************************************************************************)
(* The types.                                                              *)
(***************************************************************************)

(* What has been taken for a map was copied.                                *)
SparedOK == spared \subseteq Addr

(* Every step keeps the type of spared.                                     *)
LEMMA SparedNext == IInv /\ SparedOK /\ [Next]_vars => SparedOK'
<1> SUFFICES ASSUME IInv, SparedOK, [Next]_vars
             PROVE  SparedOK'
  OBVIOUS
<1>1. CASE KeepEntry
  <2>1. PICK k, w, u : /\ EntryVisited(k, w, u, u)
                       /\ spared' = spared \/ spared' = spared \cup {u}
                       /\ spared' # spared => ToForward(heap, w, gen)
    BY <1>1, KeepEntryStep
  <2>2. ToForward(heap, w, gen) => u \in Addr
    BY <2>1 DEF EntryVisited, VisitedField, Visits
  <2> QED
    BY <2>1, <2>2 DEF SparedOK
<1>2. CASE FinishGC
  BY <1>2 DEF FinishGC, SparedOK
<1>3. CASE ~KeepEntry /\ ~FinishGC
  <2>1. UNCHANGED spared
    <3>1. Mutator => UNCHANGED spared
      BY DEF Mutator, New, NewMap, ReplaceArg, Become, Put, RemoveKey
    <3>2. (\E g \in Collections : StartGC(g)) => UNCHANGED spared
      BY DEF StartGC
    <3>3. Collector => UNCHANGED spared
      BY <1>3
      DEF Collector, ScanField, StartIntgen, IntgenEntry, IntgenField, IntgenKeep, EndIntgen,
          StartDicts, ForwardDict, StartEntries, FinalizeEntry, EndEntries, Release, RunFinalizer, sets
    <3>4. UNCHANGED vars => UNCHANGED spared
      BY DEF vars, sets
    <3> QED
      BY <3>1, <3>2, <3>3, <3>4 DEF Next
  <2> QED
    BY <2>1 DEF SparedOK
<1> QED
  BY <1>1, <1>2, <1>3

(* Hence it has that type in every state.                                   *)
LEMMA SparedAlways == ASSUME MapsAreRooted PROVE Spec => []SparedOK
<1>1. Spec => []IInv
  BY Invariant
<1>2. Init => SparedOK
  BY DEF Init, SparedOK
<1> QED
  BY <1>1, <1>2, SparedNext, PTL DEF Spec

(* What the invariant says about types.                                     *)
LEMMA TypesAre ==
  ASSUME IInv, SparedOK
  PROVE  TypeOK
<1>1. HeapType(heap, Bound) /\ RootOK(heap, Bound, root)
  BY DEF IInv, HeapInv, Sound, HeapOK
<1>2. spared \subseteq Addr
  BY DEF SparedOK
<1>3. ASSUME NEW a \in Addr
      PROVE  /\ heap[a].space \in 0..(IF phase \in {"mutator", "finalize"} THEN Oldest ELSE ToSpace)
                                   \cup {None}
             /\ heap[a].label \in {"FREE", "MOVED", "BLOCK", "HOLE", "REF", "WEAK_MAP",
                                   "TABLE", "LARGE_TABLE"}
             /\ Range(heap[a].args) \subseteq Field
             /\ heap[a].childish \in BOOLEAN /\ heap[a].fwd \in Addr \cup {None}
  <2>1. heap[a] \in Blocks
    BY <1>1 DEF HeapType
  <2>2. /\ heap[a].space \in 0..ToSpace \cup {None} /\ heap[a].label \in BlockLabels
        /\ heap[a].args \in Seq(Field) /\ heap[a].childish \in BOOLEAN
        /\ heap[a].fwd \in Addr \cup {None}
    BY <2>1 DEF Blocks
  <2>3. phase \in {"mutator", "finalize"} /\ heap[a].space # None => heap[a].space # ToSpace
    BY <1>1 DEF HeapType, Alloc, Bound, Outside, ToSpace
  <2>4. heap[a].space \in 0..(IF phase \in {"mutator", "finalize"} THEN Oldest ELSE ToSpace) \cup {None}
    BY <2>2, <2>3 DEF Oldest, ToSpace
  <2>5. Range(heap[a].args) \subseteq Field
    BY <2>2, RangeIn
  <2> QED
    BY <2>2, <2>4, <2>5 DEF BlockLabels
<1>4. root \in Addr
  BY <1>1 DEF RootOK
<1>5. Range(intgenSet) \subseteq Addr /\ Range(wkDictSet) \subseteq Addr
  <2>1. intgenSet \in Seq(Addr) /\ wkDictSet \in Seq(Addr)
    BY DEF IInv, IntgenOK, MapOK
  <2> QED
    BY <2>1, RangeIn
<1>6. Range(scan) \subseteq FieldRef
  BY RangeIn DEF IInv, ScanOK
<1>7. todo \in Seq(Addr)
  <2>1. CASE phase \in {"intgen", "entry"}
    BY <2>1 DEF IInv, IntgenOK, ToVisit
  <2>2. CASE phase = "dicts"
    <3>1. (\E d \in Addr : todo = <<d>>) \/ todo = <<>>
      BY <2>2 DEF IInv, MapOK
    <3>2. <<>> \in Seq(Addr) /\ \A d \in Addr : <<d>> \in Seq(Addr)
      OBVIOUS
    <3> QED
      BY <3>1, <3>2
  <2>3. CASE phase \notin {"intgen", "entry", "dicts"}
    BY <2>3 DEF IInv, PhaseOK
  <2> QED
    BY <2>1, <2>2, <2>3
<1>8. Range(todo) \subseteq Addr
  BY <1>7, RangeIn
<1> QED
  BY <1>2, <1>3, <1>4, <1>5, <1>6, <1>8 DEF TypeOK

(* Blocks, sets and loop variables keep their types through every step, and  *)
(* no block is left in to-space when a collection ends.                     *)
THEOREM TypeCorrect == ASSUME MapsAreRooted PROVE Spec => []TypeOK
<1>1. Spec => []IInv
  BY Invariant
<1>2. IInv /\ SparedOK => TypeOK
  BY TypesAre
<1> QED
  BY <1>1, <1>2, SparedAlways, PTL

-----------------------------------------------------------------------------
(***************************************************************************)
(* What a major collection leaves. A block is copied because the root, a   *)
(* value to finalize or a copy leads to it; the copies that are reached    *)
(* only when the fields that are pending have been visited make a set that *)
(* is closed under the fields that are not. So the invariant says of every *)
(* such set, whatever it is, that it has all the copies: at the end the    *)
(* set of what can be reached is one of them.                              *)
(***************************************************************************)

(* S has what the fields of its copies refer to, but for the fields that are *)
(* pending and, unless c says so, the weak map's own.                       *)
ClosedIn(c, h, g, p, S) ==
  \A a \in S : Stays(h, g, a) /\ (c \/ a[1] # StartupMap) =>
    \A i \in DOMAIN h[a].args : h[a].args[i] \in Addr /\ <<a, i>> \notin p => h[a].args[i] \in S

(* Whatever has been copied is in every such set that has the root and the   *)
(* values to finalize.                                                      *)
Reclaimed(c, h, g, p, r, V) ==
  \A S \in SUBSET Addr : r \in S /\ V \subseteq S /\ ClosedIn(c, h, g, p, S) =>
    \A a \in Addr : Stays(h, g, a) /\ a[1] \notin Table => a \in S

(* A step that copies nothing, and leaves nothing pending that was not.      *)
LEMMA ReclaimedSame ==
  ASSUME NEW q \in BOOLEAN, NEW h, NEW g, NEW p, NEW r, NEW V, Reclaimed(q, h, g, p, r, V),
         NEW k, NEW g2, NEW p2, NEW V2, V \subseteq V2,
         \A a \in Addr : Stays(k, g2, a) <=> Stays(h, g, a),
         \A a \in Addr : Stays(h, g, a) => k[a].args = h[a].args,
         \A a \in Addr : Stays(h, g, a) => \A i \in DOMAIN h[a].args :
           h[a].args[i] \in Addr /\ <<a, i>> \in p2 => <<a, i>> \in p
  PROVE  Reclaimed(q, k, g2, p2, r, V2)
<1> SUFFICES ASSUME NEW S \in SUBSET Addr, r \in S, V2 \subseteq S, ClosedIn(q, k, g2, p2, S)
             PROVE  \A a \in Addr : Stays(k, g2, a) /\ a[1] \notin Table => a \in S
  BY DEF Reclaimed
<1>1. ClosedIn(q, h, g, p, S)
  BY DEF ClosedIn
<1> QED
  BY <1>1 DEF Reclaimed

(* The visit of a pending field: a block that it copies is a table, or is    *)
(* to be finalized, or was found by way of a block that was copied already.  *)
LEMMA ReclaimedVisit ==
  ASSUME NEW q \in BOOLEAN, NEW h, NEW g, NEW p, NEW r, NEW V, Reclaimed(q, h, g, p, r, V),
         NEW a \in Addr, Stays(h, g, a), NEW i \in DOMAIN h[a].args, <<a, i>> \in p,
         NEW k, NEW w, NEW u, NEW v, Visits(h, k, g, w, u, a, i, v),
         \A b \in Addr : Stays(h, g, b) => Alloc(h, b),
         NEW p2, \A f \in p2 : f \in p \/ (ToForward(h, w, g) /\ f[1] = u),
         <<a, i>> \notin p2, NEW V2, V \subseteq V2,
         NEW m \in Addr,
         ToForward(h, w, g) =>
           \/ u[1] \in Table \/ u \in V2
           \/ v = u /\ a[1] \notin Table /\ a[1] # StartupMap
           \/ /\ v = u /\ q /\ Stays(h, g, m) /\ m[1] \notin Table
              /\ 1 \in DOMAIN k[m].args /\ k[m].args[1] = a /\ <<m, 1>> \notin p2
  PROVE  Reclaimed(q, k, g, p2, r, V2)
<1> SUFFICES ASSUME NEW S \in SUBSET Addr, r \in S, V2 \subseteq S, ClosedIn(q, k, g, p2, S),
                    NEW b \in Addr, Stays(k, g, b), b[1] \notin Table
             PROVE  b \in S
  BY DEF Reclaimed
<1>1. /\ \A c \in Addr : Stays(h, g, c) => Stays(k, g, c)
      /\ Stays(k, g, b) => Stays(h, g, b) \/ (b = u /\ ToForward(h, w, g))
      /\ \A c \in Addr : Alloc(h, c) => DOMAIN k[c].args = DOMAIN h[c].args
      /\ \A c \in Addr : Alloc(h, c) =>
           \A j \in DOMAIN h[c].args : c # a \/ j # i => k[c].args[j] = h[c].args[j]
      /\ k[a].args[i] = v
      /\ ToForward(h, w, g) => u \in Addr /\ ~Alloc(h, u)
  BY DEF Visits
<1>2. ClosedIn(q, h, g, p, S)
  <2> SUFFICES ASSUME NEW c \in S, Stays(h, g, c), q \/ c[1] # StartupMap,
                      NEW j \in DOMAIN h[c].args, h[c].args[j] \in Addr, <<c, j>> \notin p
               PROVE  h[c].args[j] \in S
    BY DEF ClosedIn
  <2>1. Alloc(h, c) /\ Stays(k, g, c) /\ j \in DOMAIN k[c].args
    BY <1>1
  <2>2. c # a \/ j # i
    OBVIOUS
  <2>3. k[c].args[j] = h[c].args[j]
    BY <1>1, <2>1, <2>2
  <2>4. <<c, j>> \notin p2
    <3>1. ToForward(h, w, g) => c # u
      BY <1>1, <2>1
    <3> QED
      BY <3>1
  <2> QED
    BY <2>1, <2>3, <2>4 DEF ClosedIn
<1>3. \A c \in Addr : Stays(h, g, c) /\ c[1] \notin Table => c \in S
  BY <1>2 DEF Reclaimed
<1>4. CASE Stays(h, g, b)
  BY <1>3, <1>4
<1>5. CASE b = u /\ ToForward(h, w, g)
  <2>1. i \in DOMAIN k[a].args /\ Stays(k, g, a) /\ u \in Addr
    BY <1>1, <1>5
  <2>2. CASE u \in V2
    BY <1>5, <2>2
  <2>3. CASE v = u /\ a[1] \notin Table /\ a[1] # StartupMap
    <3>1. a \in S
      BY <1>3, <2>3
    <3> QED
      BY <1>1, <1>5, <2>1, <2>3, <3>1 DEF ClosedIn
  <2>4. CASE /\ v = u /\ q /\ Stays(h, g, m) /\ m[1] \notin Table
             /\ 1 \in DOMAIN k[m].args /\ k[m].args[1] = a /\ <<m, 1>> \notin p2
    <3>1. m \in S /\ Stays(k, g, m)
      BY <1>1, <1>3, <2>4
    <3>2. a \in S
      BY <2>4, <3>1 DEF ClosedIn
    <3> QED
      BY <1>1, <1>5, <2>1, <2>4, <3>2 DEF ClosedIn
  <2> QED
    BY <1>5, <2>2, <2>3, <2>4
<1> QED
  BY <1>1, <1>4, <1>5

(* The phases in which finSet is what this collection has put there.        *)
AfterOld == {"dicts", "entries", "scanFinal", "finalize"}

(* A major collection, until the first finalizer runs.                      *)
Major ==
  gen = ToSpace /\ phase # "mutator" /\ (phase = "finalize" => Len(slots) = Len(finSet))

(* The values that will be finalized.                                      *)
ToFinalize ==
  IF phase \in AfterOld THEN {finSet[n].value : n \in DOMAIN finSet} \cap Addr ELSE {}

(* What is kept whether something that stays refers to it or not. A value    *)
(* that was taken for a map is, unless the fields of the weak map count.    *)
Kept(c) == IF c THEN ToFinalize ELSE ToFinalize \cup spared

(* The table that has been copied is that of the map: a table that Resize   *)
(* has replaced is garbage.                                                *)
OneTable ==
  \A a \in Addr : Stays(heap, Bound, a) /\ a[1] \in Table => StartupMap # None /\ a = TableAt

(* An entry that holds an integer is yet to be visited.                    *)
EntriesLeft ==
  StartupMap # None /\ phase \in {"entries", "scanFinal", "finalize"} =>
    \A k \in Keys : heap[TableAt].args[k] = Integer =>
      phase = "entries" /\ <<MapAt, k>> \in Range(slots)

(* The inductive invariant: a finalizer that has run is one fewer to run.   *)
ReclaimInv ==
  /\ phase = "finalize" => Len(slots) <= Len(finSet)
  /\ Major => /\ \A c \in BOOLEAN : Reclaimed(c, heap, Bound, PendingFields, root, Kept(c))
              /\ OneTable /\ EntriesLeft

(* Steps that leave the heap as it is.                                     *)
LEMMA ReclaimQuiet ==
  ASSUME ReclaimInv, gen = ToSpace, phase \notin Outside, phase' \notin Outside,
         UNCHANGED <<heap, root, gen>>, PendingFields' \subseteq PendingFields,
         phase \in AfterOld => phase' \in AfterOld /\ finSet' = finSet, spared' = spared, EntriesLeft'
  PROVE  ReclaimInv'
<1>1. Major /\ Bound = gen /\ Bound' = gen /\ phase' # "finalize"
  BY DEF Major, Outside, Bound
<1>2. /\ \A c \in BOOLEAN : Reclaimed(c, heap, gen, PendingFields, root, Kept(c))
      /\ OneTable
  BY <1>1 DEF ReclaimInv
<1>3. \A c \in BOOLEAN : Kept(c) \subseteq Kept(c)'
  BY DEF Kept, ToFinalize
<1>4. ASSUME NEW c \in BOOLEAN
      PROVE  Reclaimed(c, heap, gen, PendingFields', root, Kept(c)')
  <2>1. PICK V, V2 : V = Kept(c) /\ V2 = Kept(c)'
    OBVIOUS
  <2>2. V \subseteq V2 /\ Reclaimed(c, heap, gen, PendingFields, root, V)
    BY <1>2, <1>3, <2>1
  <2>3. Reclaimed(c, heap, gen, PendingFields', root, V2)
    BY <2>2, ReclaimedSame
  <2> QED
    BY <2>1, <2>3
<1>5. OneTable'
  BY <1>1, <1>2 DEF OneTable, TableAt, MapAt
<1> QED
  BY <1>1, <1>4, <1>5 DEF ReclaimInv

(* The steps that begin or end a loop, and HandleInterGenerationalPointers   *)
(* at a block that is copied or garbage.                                    *)
LEMMA ReclaimLoops ==
  ASSUME IInv, ReclaimInv, gen = ToSpace,
         StartIntgen \/ IntgenEntry \/ EndIntgen \/ StartDicts \/ EndEntries
  PROVE  ReclaimInv'
<1> USE DEF Outside, AfterOld
<1>0. Range(<<>>) = {}
  BY DEF Range
<1>1. CASE StartIntgen
  <2>1. /\ phase = "scanRoots" /\ phase' = "intgen" /\ todo' = intgenSet
        /\ UNCHANGED <<heap, root, gen, scan, spared>>
    BY <1>1 DEF StartIntgen
  <2>2. \A f : PendingHere(f)' => PendingHere(f)
    BY <2>1 DEF PendingHere, BeforeDicts, BeforeOld
  <2>3. PendingFields' \subseteq PendingFields
    BY <2>2 DEF PendingFields
  <2>4. EntriesLeft'
    BY <2>1 DEF EntriesLeft
  <2> QED
    BY <2>1, <2>3, <2>4, ReclaimQuiet
<1>2. CASE IntgenEntry
  <2>1. /\ phase = "intgen" /\ todo # <<>> /\ phase' \in {"intgen", "entry"}
        /\ phase' = "intgen" => todo' = Tail(todo)
        /\ heap' = IF AlreadyMoved(heap, Head(todo))
                   THEN [heap EXCEPT ![heap[Head(todo)].fwd].childish = FALSE] ELSE heap
        /\ UNCHANGED <<root, gen, scan, intgenSet, spared>>
    BY <1>2 DEF IntgenEntry, sets
  <2>2. IInv'
    BY <1>2, IntgenEntryStep
  <2>3. phase' = "intgen"
    <3> SUFFICES ASSUME phase' = "entry"
                 PROVE  FALSE
      BY <2>1
    <3>1. todo' # <<>> /\ Stays(heap', gen', Head(todo'))
      BY <2>2 DEF IInv, IntgenOK
    <3>2. /\ ToVisit' = todo' /\ todo' \in Seq(Addr)
          /\ \A a \in RememberedBlocks' : ~Stays(heap', gen', a)
      BY <2>1, <2>2 DEF IInv, IntgenOK, ToVisit, BeforeOld
    <3>3. Head(todo') \in Range(todo')
      BY <3>1, <3>2, TailRange
    <3> QED
      BY <3>1, <3>2, <3>3 DEF RememberedBlocks
  <2>4. todo \in Seq(Addr) /\ IsInjective(todo)
    BY <2>1 DEF IInv, IntgenOK, ToVisit
  <2>5. Head(todo) \in Addr /\ Head(todo) \in Range(todo) /\ Range(Tail(todo)) \subseteq Range(todo)
    BY <2>1, <2>4, TailRange
  <2>6. UNCHANGED heap
    BY <2>1, <2>5, CopyUnflagged
  <2>7. \A f : PendingHere(f)' => PendingHere(f)
    BY <2>1, <2>3, <2>5 DEF PendingHere, BeforeDicts, BeforeOld
  <2>8. PendingFields' \subseteq PendingFields
    BY <2>7 DEF PendingFields
  <2>9. EntriesLeft'
    BY <2>3 DEF EntriesLeft
  <2> QED
    BY <2>1, <2>3, <2>6, <2>8, <2>9, ReclaimQuiet
<1>3. CASE EndIntgen
  <2>1. phase = "intgen" /\ phase' = "scanOld" /\ UNCHANGED <<heap, root, gen, scan, spared>>
    BY <1>3 DEF EndIntgen, loops, sets
  <2>2. \A f : PendingHere(f)' => PendingHere(f)
    BY <2>1 DEF PendingHere, BeforeDicts, BeforeOld
  <2>3. PendingFields' \subseteq PendingFields
    BY <2>2 DEF PendingFields
  <2>4. EntriesLeft'
    BY <2>1 DEF EntriesLeft
  <2> QED
    BY <2>1, <2>3, <2>4, ReclaimQuiet
<1>4. CASE StartDicts
  <2>1. /\ phase = "scanOld" /\ phase' = "dicts" /\ wkDictSet # <<>> /\ todo' = wkDictSet
        /\ UNCHANGED <<heap, root, gen, scan, spared>>
    BY <1>4 DEF StartDicts
  <2>2. \A f : PendingHere(f)' => PendingHere(f)
    BY <2>1 DEF PendingHere, BeforeDicts, BeforeOld
  <2>3. PendingFields' \subseteq PendingFields
    BY <2>2 DEF PendingFields
  <2>4. EntriesLeft'
    BY <2>1 DEF EntriesLeft
  <2> QED
    BY <2>1, <2>3, <2>4, ReclaimQuiet
<1>5. CASE EndEntries
  <2>1. /\ phase = "entries" /\ phase' = "scanFinal" /\ slots = <<>>
        /\ UNCHANGED <<heap, root, gen, scan, finSet, spared>>
    BY <1>5 DEF EndEntries, loops, sets
  <2>2. \A f : PendingHere(f)' => PendingHere(f)
    BY <2>1 DEF PendingHere, BeforeDicts, BeforeOld
  <2>3. PendingFields' \subseteq PendingFields
    BY <2>2 DEF PendingFields
  <2>4. EntriesLeft'
    <3>1. EntriesLeft
      BY <2>1 DEF ReclaimInv, Major
    <3>2. MapAt' = MapAt /\ TableAt' = TableAt
      BY <2>1 DEF MapAt, TableAt
    <3> QED
      BY <1>0, <2>1, <3>1, <3>2 DEF EntriesLeft
  <2> QED
    BY <2>1, <2>3, <2>4, ReclaimQuiet
<1> QED
  BY <1>1, <1>2, <1>3, <1>4, <1>5

(* Phase two begins with every entry of the map.                            *)
LEMMA ReclaimEntries ==
  ASSUME IInv, ReclaimInv, gen = ToSpace, StartEntries
  PROVE  ReclaimInv'
<1> USE DEF Outside, AfterOld
<1>1. /\ phase = "dicts" /\ todo = <<>> /\ phase' = "entries"
      /\ UNCHANGED <<heap, root, gen, scan, finSet, spared>>
  BY DEF StartEntries, sets
<1>2. /\ MapAt' = MapAt /\ TableAt' = TableAt
      /\ \A k \in Keys : heap[TableAt].args[k] # Empty => <<MapAt, k>> \in Range(slots')
  BY StartEntriesStep
<1>3. \A f : PendingHere(f)' => PendingHere(f)
  BY <1>1, <1>2 DEF PendingHere, BeforeDicts, BeforeOld
<1>4. PendingFields' \subseteq PendingFields
  BY <1>3 DEF PendingFields
<1>5. EntriesLeft'
  BY <1>1, <1>2, FiniteAddr DEF EntriesLeft
<1> QED
  BY <1>1, <1>4, <1>5, ReclaimQuiet

(* The map that is rooted, and its table, once phase two has begun.         *)
LEMMA MapAndTable ==
  ASSUME IInv, phase \in {"entries", "scanFinal"}, StartupMap # None
  PROVE  /\ gen \in 1..ToSpace /\ Bound = gen /\ phase \notin Outside
         /\ Sound(heap, gen, PendingFields, RememberedBlocks) /\ RootOK(heap, gen, root)
         /\ 1 \in DOMAIN heap[root].args
         /\ MapAt \in Addr /\ MapAt[1] = StartupMap /\ Stays(heap, gen, MapAt)
         /\ DOMAIN heap[MapAt].args = {1}
         /\ TableAt \in Addr /\ TableAt[1] \in Table /\ Stays(heap, gen, TableAt)
         /\ DOMAIN heap[TableAt].args = Keys
<1>1. gen \in 1..ToSpace /\ Bound = gen /\ phase \notin Outside /\ phase \notin BeforeDicts
  BY DEF IInv, PhaseOK, Bound, Outside, BeforeDicts, BeforeOld
<1>2. Sound(heap, gen, PendingFields, RememberedBlocks) /\ RootOK(heap, gen, root)
  BY <1>1 DEF IInv, HeapInv
<1>3. HeapOK(heap, gen) /\ Linked(heap) /\ HeapType(heap, gen)
  BY <1>2 DEF Sound, HeapOK
<1>4. MapAt \in Addr /\ MapAt[1] = StartupMap /\ Stays(heap, gen, MapAt)
  BY <1>1, <1>2 DEF IInv, MapOK, RootOK, MapAt
<1>5. /\ DOMAIN heap[MapAt].args = {1}
      /\ TableAt \in Addr /\ Alloc(heap, TableAt) /\ TableAt[1] \in Table
  <2>1. TableOf(heap, MapAt) = TableAt
    BY DEF TableOf, TableAt
  <2> QED
    BY <1>3, <1>4, <2>1, TableIs
<1>6. Stays(heap, gen, TableAt)
  <2> SUFFICES ASSUME ~Stays(heap, gen, TableAt)
               PROVE  FALSE
    OBVIOUS
  <2>1. <<MapAt, 1>> \in PendingFields
    BY <1>2, <1>4, <1>5 DEF Sound, AllPending, TableAt
  <2>2. PendingHere(<<MapAt, 1>>)
    BY <2>1 DEF PendingFields
  <2>3. MapAt # TableAt
    BY <1>4, <1>5, StartupIs
  <2>4. <<MapAt, 1>> \in Range(scan)
    BY <1>1, <2>2, <2>3 DEF PendingHere, BeforeDicts, BeforeOld
  <2> QED
    BY <1>4, <2>4 DEF IInv, ScanOK
<1>7. DOMAIN heap[TableAt].args = Keys
  <2>1. Len(heap[TableAt].args) = KeyCount /\ heap[TableAt].args \in Seq(Field)
    BY <1>3, <1>5, <1>6 DEF Linked, Shape, Stays, HeapType, Blocks
  <2> QED
    BY <2>1 DEF Keys
<1>8. 1 \in DOMAIN heap[root].args
  <2>1. Len(heap[root].args) = RootArity /\ heap[root].args \in Seq(Field)
    BY <1>2, <1>3, StartupIs DEF Linked, Shape, Stays, HeapType, Blocks, RootOK
  <2> QED
    BY <2>1, StoreAssumption DEF StoreAssumption
<1> QED
  BY <1>1, <1>2, <1>4, <1>5, <1>6, <1>7, <1>8

(* A step that visits a field.                                             *)
LEMMA ReclaimVisit ==
  ASSUME ReclaimInv, gen = ToSpace, phase \notin Outside, UNCHANGED <<root, gen, phase>>,
         NEW a, NEW i, NEW w, NEW u, NEW v, VisitedField(a, i, w, u, v),
         \A c \in BOOLEAN : Kept(c) \subseteq Kept(c)', NEW m \in Addr,
         \A c \in BOOLEAN : ToForward(heap, w, gen) =>
           \/ u[1] \in Table \/ u \in Kept(c)'
           \/ v = u /\ a[1] \notin Table /\ a[1] # StartupMap
           \/ /\ v = u /\ c /\ Stays(heap, gen, m) /\ m[1] \notin Table
              /\ 1 \in DOMAIN heap'[m].args /\ heap'[m].args[1] = a
              /\ <<m, 1>> \notin PendingFields',
         OneTable', EntriesLeft'
  PROVE  ReclaimInv'
<1>1. Major /\ Bound = gen /\ Bound' = gen /\ phase' # "finalize"
  BY DEF Major, Outside, Bound
<1>2. \A c \in BOOLEAN : Reclaimed(c, heap, gen, PendingFields, root, Kept(c))
  BY <1>1 DEF ReclaimInv
<1>3. ASSUME NEW c \in BOOLEAN
      PROVE  Reclaimed(c, heap', gen, PendingFields', root, Kept(c)')
  <2>1. \A b \in Addr : Stays(heap, gen, b) => Alloc(heap, b)
    BY DEF Stays, Live
  <2>2. PICK k, p, p2, V, V2 : /\ k = heap' /\ p = PendingFields /\ p2 = PendingFields'
                               /\ V = Kept(c) /\ V2 = Kept(c)'
    OBVIOUS
  <2>3. /\ a \in Addr /\ Stays(heap, gen, a) /\ i \in DOMAIN heap[a].args
        /\ <<a, i>> \in p /\ <<a, i>> \notin p2 /\ Visits(heap, k, gen, w, u, a, i, v)
        /\ \A f \in p2 : f \in p \/ (ToForward(heap, w, gen) /\ f[1] = u)
    BY <2>2 DEF VisitedField
  <2>4. V \subseteq V2 /\ Reclaimed(c, heap, gen, p, root, V)
    BY <1>2, <2>2
  <2>5. ToForward(heap, w, gen) =>
           \/ u[1] \in Table \/ u \in V2
           \/ v = u /\ a[1] \notin Table /\ a[1] # StartupMap
           \/ /\ v = u /\ c /\ Stays(heap, gen, m) /\ m[1] \notin Table
              /\ 1 \in DOMAIN k[m].args /\ k[m].args[1] = a /\ <<m, 1>> \notin p2
    BY <2>2
  <2>6. Reclaimed(c, k, gen, p2, root, V2)
    BY <2>1, <2>3, <2>4, <2>5, ReclaimedVisit
  <2> QED
    BY <2>2, <2>6
<1> QED
  BY <1>1, <1>3 DEF ReclaimInv

(* CheneyScan and FinalizeCheneyScan.                                      *)
LEMMA ReclaimScan ==
  ASSUME IInv, ReclaimInv, gen = ToSpace, ScanField
  PROVE  ReclaimInv'
<1>1. /\ phase \in {"scanRoots", "scanOld", "scanFinal"} /\ phase \notin Outside
      /\ UNCHANGED <<root, gen, phase, finSet, spared>>
  BY DEF ScanField, sets, Outside
<1>2. PICK a, i, w, u : /\ VisitedField(a, i, w, u, u)
                        /\ a[1] # StartupMap /\ a[1] \notin Table
  BY ScanFieldStep
<1>3. /\ a \in Addr /\ <<a, i>> \in PendingFields /\ Visits(heap, heap', gen, w, u, a, i, u)
      /\ ToForward(heap, w, gen) => u[1] \notin Table
  BY <1>2 DEF VisitedField
<1>4. /\ \A c \in Addr : Stays(heap', gen, c) => Stays(heap, gen, c) \/ (c = u /\ ToForward(heap, w, gen))
      /\ \A c \in Addr : Alloc(heap, c) =>
           \A j \in DOMAIN heap[c].args : c # a \/ j # i => heap'[c].args[j] = heap[c].args[j]
  BY <1>3 DEF Visits
<1>5. Major /\ Bound = gen /\ Bound' = gen
  BY <1>1 DEF Major, Outside, Bound
<1>6. ASSUME phase = "scanFinal"
      PROVE  /\ StartupMap # None /\ MapAt' = MapAt /\ TableAt' = TableAt
             /\ \A k \in Keys : heap'[TableAt].args[k] = heap[TableAt].args[k]
  <2>1. StartupMap # None
    BY <1>6 DEF IInv, MapOK
  <2>2. /\ Sound(heap, gen, PendingFields, RememberedBlocks) /\ RootOK(heap, gen, root)
        /\ 1 \in DOMAIN heap[root].args
        /\ MapAt \in Addr /\ MapAt[1] = StartupMap /\ Stays(heap, gen, MapAt)
        /\ DOMAIN heap[MapAt].args = {1}
        /\ TableAt \in Addr /\ TableAt[1] \in Table /\ Stays(heap, gen, TableAt)
        /\ DOMAIN heap[TableAt].args = Keys
    BY <1>6, <2>1, MapAndTable
  <2>3. root \in Addr /\ Stays(heap, gen, root) /\ Alloc(heap, root) /\ Alloc(heap, MapAt)
        /\ Alloc(heap, TableAt)
    BY <2>2 DEF RootOK, Stays, Live
  <2>4. a # root \/ i # 1
    <3>1. <<root, 1>> \notin PendingFields
      BY <2>2, <2>3 DEF Sound, NoneVisited, MapAt
    <3> QED
      BY <1>3, <3>1
  <2>5. heap'[root].args[1] = heap[root].args[1]
    BY <1>4, <2>2, <2>3, <2>4
  <2>6. MapAt' = MapAt
    BY <1>1, <2>5 DEF MapAt
  <2>7. a # MapAt /\ a # TableAt
    BY <1>2, <2>2
  <2>8. heap'[MapAt].args[1] = heap[MapAt].args[1]
    BY <1>4, <2>2, <2>3, <2>7
  <2>9. TableAt' = TableAt
    BY <2>6, <2>8 DEF TableAt
  <2> QED
    BY <1>4, <2>1, <2>2, <2>3, <2>6, <2>7, <2>9
<1>7. OneTable'
  <2> SUFFICES ASSUME NEW c \in Addr, Stays(heap', gen, c), c[1] \in Table
               PROVE  StartupMap # None /\ c = TableAt'
    BY <1>5 DEF OneTable
  <2>1. Stays(heap, gen, c)
    BY <1>3, <1>4
  <2>2. phase = "scanFinal"
    BY <1>1, <2>1 DEF IInv, MapOK, BeforeDicts, BeforeOld
  <2>3. c = TableAt
    BY <1>5, <2>1 DEF ReclaimInv, OneTable
  <2> QED
    BY <1>6, <2>2, <2>3
<1>8. EntriesLeft'
  <2>1. EntriesLeft
    BY <1>5 DEF ReclaimInv
  <2> QED
    BY <1>1, <1>6, <2>1 DEF EntriesLeft
<1>9. \A c \in BOOLEAN : Kept(c) \subseteq Kept(c)'
  BY <1>1 DEF Kept, ToFinalize
<1> QED
  BY <1>1, <1>2, <1>3, <1>7, <1>8, <1>9, ReclaimVisit

(* HandleWeakDictionaries copies the table of the map.                      *)
LEMMA ReclaimDict ==
  ASSUME IInv, ReclaimInv, gen = ToSpace, ForwardDict
  PROVE  ReclaimInv'
<1>1. phase = "dicts" /\ todo # <<>> /\ phase \notin Outside /\ UNCHANGED <<root, gen, phase, spared>>
  BY DEF ForwardDict, Outside
<1>2. /\ MapAt' = MapAt /\ finSet' = finSet
      /\ VisitedField(MapAt, 1, TableAt, TableAt', TableAt')
  BY ForwardDictStep
<1>3. /\ StartupMap # None /\ Bound = gen /\ MapAt[1] = StartupMap /\ MapAt \in Addr
      /\ \A a \in Addr : Stays(heap, gen, a) => a[1] \notin Table
  BY <1>1, ForwardDictIs
<1>4. /\ Visits(heap, heap', gen, TableAt, TableAt', MapAt, 1, TableAt')
      /\ ToForward(heap, TableAt, gen) => TableAt'[1] \in Table
  BY <1>2, <1>3 DEF VisitedField
<1>5. Bound' = gen
  BY <1>1 DEF Bound, Outside
<1>6. OneTable'
  BY <1>3, <1>4, <1>5 DEF OneTable, Visits
<1>7. EntriesLeft'
  BY <1>1 DEF EntriesLeft
<1>8. \A c \in BOOLEAN : Kept(c) \subseteq Kept(c)'
  BY <1>1, <1>2 DEF Kept, ToFinalize
<1>9. PICK w, u : w = TableAt /\ u = TableAt'
  OBVIOUS
<1>10. VisitedField(MapAt, 1, w, u, u) /\ (ToForward(heap, w, gen) => u[1] \in Table)
  BY <1>2, <1>4, <1>9
<1> QED
  BY <1>1, <1>3, <1>6, <1>7, <1>8, <1>10, ReclaimVisit

(* An entry of the map is visited and does not hold an integer any more.    *)
LEMMA ReclaimEntry ==
  ASSUME IInv, IInv', ReclaimInv, gen = ToSpace, phase = "entries",
         UNCHANGED <<root, gen, phase>>,
         NEW k, NEW w, NEW u, NEW v, EntryVisited(k, w, u, v), v # Integer,
         \A c \in BOOLEAN : Kept(c) \subseteq Kept(c)',
         \A c \in BOOLEAN : ToForward(heap, w, gen) => u \in Kept(c)' \/ (v = u /\ c)
  PROVE  ReclaimInv'
<1>1. /\ slots # <<>> /\ k = Head(slots)[2] /\ w = Deref(heap, heap[TableAt].args[k])
      /\ slots' = Tail(slots) /\ VisitedField(TableAt, k, w, u, v)
      /\ MapAt' = MapAt /\ TableAt' = TableAt
  BY DEF EntryVisited, EntryAt, EntryWritten
<1>2. /\ StartupMap # None /\ Bound = gen
      /\ Sound(heap, gen, PendingFields, Range(intgenSet))
      /\ MapAt \in Addr /\ MapAt[1] = StartupMap /\ Stays(heap, gen, MapAt)
      /\ TableAt \in Addr /\ TableAt[1] \in Table /\ Stays(heap, gen, TableAt)
      /\ Head(slots) = <<MapAt, k>> /\ k \in Keys /\ DOMAIN heap[TableAt].args = Keys
      /\ Found(heap, gen, TableAt, w)
  BY <1>1, EntryFound
<1>3. /\ phase \notin Outside /\ Bound' = gen /\ Major
      /\ Alloc(heap, MapAt) /\ Alloc(heap, TableAt) /\ MapAt[1] \notin Table
  BY <1>2, StartupIs DEF Outside, Bound, Major, Stays, Live
<1>4. /\ Visits(heap, heap', gen, w, u, TableAt, k, v)
      /\ ToForward(heap, w, gen) => u[1] \notin Table
  BY <1>1, <1>2, <1>3 DEF VisitedField
<1>5. DOMAIN heap[MapAt].args = {1}
  BY <1>2, MapAndTable
<1>6. 1 \in DOMAIN heap'[MapAt].args /\ heap'[MapAt].args[1] = TableAt
  BY <1>1, <1>2, <1>3, <1>4, <1>5 DEF Visits, TableAt
<1>7. <<MapAt, 1>> \notin PendingFields'
  <2>1. ScanOK' /\ phase' = "entries"
    BY DEF IInv
  <2>2. <<MapAt, 1>> \notin Range(scan')
    BY <1>2, <2>1 DEF ScanOK
  <2> QED
    BY <1>1, <1>2, <1>3, <2>1, <2>2 DEF PendingFields, PendingHere, BeforeDicts, BeforeOld
<1>8. OneTable'
  <2> SUFFICES ASSUME NEW c \in Addr, Stays(heap', gen, c), c[1] \in Table
               PROVE  c = TableAt
    BY <1>1, <1>2, <1>3 DEF OneTable
  <2>1. Stays(heap, gen, c)
    BY <1>4 DEF Visits
  <2> QED
    BY <1>2, <1>3, <2>1 DEF ReclaimInv, OneTable
<1>9. EntriesLeft'
  <2>1. slots \in Seq(FieldRef)
    BY DEF IInv, FinalOK
  <2>2. Range(slots) = {<<MapAt, k>>} \cup Range(slots')
    BY <1>1, <1>2, <2>1, TailRange
  <2>3. ASSUME NEW j \in Keys, heap'[TableAt].args[j] = Integer
        PROVE  <<MapAt, j>> \in Range(slots')
    <3>1. heap'[TableAt].args[k] = v
      BY <1>4 DEF Visits
    <3>2. j # k
      BY <2>3, <3>1
    <3>3. heap'[TableAt].args[j] = heap[TableAt].args[j]
      BY <1>2, <1>3, <1>4, <3>2 DEF Visits
    <3>4. <<MapAt, j>> \in Range(slots)
      BY <1>2, <1>3, <2>3, <3>3 DEF ReclaimInv, EntriesLeft
    <3> QED
      BY <2>2, <3>2, <3>4
  <2> QED
    BY <1>1, <2>3 DEF EntriesLeft
<1> QED
  BY <1>1, <1>2, <1>3, <1>6, <1>7, <1>8, <1>9, ReclaimVisit

(* Phase two of HandleWeakDictionaries: the value of an entry is finalized,  *)
(* or was taken for a map.                                                 *)
LEMMA ReclaimEntriesStep ==
  ASSUME IInv, ReclaimInv, gen = ToSpace, FinalizeEntry \/ KeepEntry
  PROVE  ReclaimInv'
<1>1. phase = "entries" /\ UNCHANGED <<root, gen, phase>>
  BY DEF FinalizeEntry, KeepEntry
<1>2. finSet \in Seq(FinEntry)
  BY DEF IInv, FinalOK
<1>3. CASE FinalizeEntry
  <2>1. PICK k, w, u : /\ EntryVisited(k, w, u, Empty)
                       /\ finSet' = Append(finSet, [value |-> u, map |-> MapAt[1]])
    BY <1>3, FinalizeEntryStep
  <2>2. IInv'
    BY <1>3, FinalizeEntryStep
  <2>3. /\ \A c \in BOOLEAN : Kept(c) \subseteq Kept(c)'
        /\ u \in Addr => \A c \in BOOLEAN : u \in Kept(c)'
    <3>1. PICK e : e = [value |-> u, map |-> MapAt[1]]
      OBVIOUS
    <3>2. e.value = u /\ finSet' = Append(finSet, e)
      BY <2>1, <3>1
    <3>3. finSet \in Seq(FinEntry \cup {e}) /\ e \in FinEntry \cup {e}
      BY <1>2
    <3>4. /\ \A n \in DOMAIN finSet : n \in DOMAIN finSet' /\ finSet'[n] = finSet[n]
          /\ \E n \in DOMAIN finSet' : finSet'[n] = e
      <4>1. Len(finSet) \in Nat /\ DOMAIN finSet = 1..Len(finSet)
        BY <3>3
      <4>2. /\ DOMAIN finSet' = 1..(Len(finSet) + 1) /\ finSet'[Len(finSet) + 1] = e
            /\ \A n \in 1..Len(finSet) : finSet'[n] = finSet[n]
        BY <3>2, <3>3
      <4> QED
        BY <4>1, <4>2
    <3>5. ToFinalize \subseteq ToFinalize' /\ (u \in Addr => u \in ToFinalize')
      BY <1>1, <3>2, <3>4 DEF ToFinalize, AfterOld
    <3>6. spared' = spared
      BY <1>3 DEF FinalizeEntry
    <3> QED
      BY <3>5, <3>6 DEF Kept
  <2>4. ToForward(heap, w, gen) => u \in Addr
    BY <2>1 DEF EntryVisited, VisitedField, Visits
  <2>5. Empty # Integer
    BY FiniteAddr
  <2> QED
    BY <1>1, <2>1, <2>2, <2>3, <2>4, <2>5, ReclaimEntry
<1>4. CASE KeepEntry
  <2>1. PICK k, w, u : /\ EntryVisited(k, w, u, u) /\ w # Integer
                       /\ spared' = spared \/ spared' = spared \cup {u}
                       /\ ToForward(heap, w, gen) => u \in spared'
    BY <1>4, KeepEntryStep
  <2>2. IInv' /\ finSet' = finSet
    BY <1>4, KeepEntryStep
  <2>3. /\ \A c \in BOOLEAN : Kept(c) \subseteq Kept(c)'
        /\ \A c \in BOOLEAN : ToForward(heap, w, gen) => u \in Kept(c)' \/ c
    <3>1. ToFinalize' = ToFinalize
      BY <1>1, <2>2 DEF ToFinalize
    <3> QED
      BY <2>1, <3>1 DEF Kept
  <2>4. u # Integer
    <3>1. slots # <<>> /\ k = Head(slots)[2] /\ w = Deref(heap, heap[TableAt].args[k])
          /\ u = ForwardWord(heap, w, gen)
      BY <2>1 DEF EntryVisited, EntryAt
    <3>2. /\ Found(heap, gen, TableAt, w)
          /\ Forwarded(heap, ForwardHeap(heap, w, gen), gen, w, ForwardWord(heap, w, gen))
      BY <1>1, <3>1, EntryFound
    <3>3. w \in Addr
      BY <2>1, <3>2 DEF Found, Word
    <3> QED
      BY <3>1, <3>2, <3>3, FiniteAddr DEF Forwarded
  <2> QED
    BY <1>1, <2>1, <2>2, <2>3, <2>4, ReclaimEntry
<1> QED
  BY <1>3, <1>4

(* DoGCWithoutFinalize begins: the root block is all there is in to-space.  *)
LEMMA ReclaimStart ==
  ASSUME IInv, NEW n \in Collections, StartGC(n)
  PROVE  ReclaimInv'
<1>1. /\ Bound' = gen' /\ root' \in Addr /\ root'[1] = RootObj
      /\ gen' = ToSpace => \A a \in Addr : Stays(heap', gen', a) => a = root'
  BY StartGCStep
<1>2. phase' = "scanRoots"
  BY DEF StartGC
<1>3. gen' = ToSpace => OneTable'
  BY <1>1, StartupIs DEF OneTable
<1>4. EntriesLeft'
  BY <1>2 DEF EntriesLeft
<1>5. gen' = ToSpace => \A c \in BOOLEAN : Reclaimed(c, heap', gen', PendingFields', root', Kept(c)')
  BY <1>1 DEF Reclaimed
<1> QED
  BY <1>1, <1>2, <1>3, <1>4, <1>5 DEF ReclaimInv, Major

(* Heap::Shrink and the swap of the semispaces.                            *)
LEMMA ReclaimRelease ==
  ASSUME IInv, ReclaimInv, Release
  PROVE  ReclaimInv'
<1>1. /\ phase' = "finalize" /\ slots' = finSet /\ UNCHANGED <<root, finSet, gen, spared>>
      /\ phase \in {"scanOld", "scanFinal"} /\ Bound' = 0
  BY DEF Release, Bound, Outside
<1>2. /\ MapAt' = MapAt /\ PendingFields = {} /\ Bound = gen
      /\ phase = "scanFinal" \/ (StartupMap = None /\ finSet = <<>>)
      /\ \A a \in Addr : Stays(heap', 0, a) <=> Stays(heap, gen, a)
      /\ \A a \in Addr : Stays(heap, gen, a) => heap'[a].args = heap[a].args
  BY ReleaseStep
<1>3. PendingFields' = {}
  <2>1. scan' = <<>> /\ Range(<<>>) = {}
    BY <1>1 DEF Release, Range
  <2> QED
    BY <1>1, <2>1 DEF PendingFields, PendingHere, BeforeDicts, BeforeOld
<1>4. Len(slots') <= Len(finSet')
  <2>1. finSet \in Seq(FinEntry)
    BY DEF IInv, FinalOK
  <2> QED
    BY <1>1, <2>1
<1>5. SUFFICES ASSUME gen = ToSpace
               PROVE  /\ \A c \in BOOLEAN : Reclaimed(c, heap', 0, {}, root, Kept(c)')
                      /\ OneTable' /\ EntriesLeft'
  BY <1>1, <1>3, <1>4 DEF ReclaimInv, Major
<1>6. /\ \A c \in BOOLEAN : Reclaimed(c, heap, gen, {}, root, Kept(c))
      /\ OneTable /\ EntriesLeft
  BY <1>1, <1>2, <1>5 DEF ReclaimInv, Major
<1>7. \A c \in BOOLEAN : Kept(c) \subseteq Kept(c)'
  <2>1. ToFinalize \subseteq ToFinalize'
    BY <1>1, <1>2 DEF ToFinalize, AfterOld
  <2> QED
    BY <1>1, <2>1 DEF Kept
<1>8. ASSUME NEW c \in BOOLEAN
      PROVE  Reclaimed(c, heap', 0, {}, root, Kept(c)')
  <2>1. PICK V, V2 : V = Kept(c) /\ V2 = Kept(c)'
    OBVIOUS
  <2>2. /\ Reclaimed(c, heap, gen, {}, root, V) /\ V \subseteq V2
    BY <1>6, <1>7, <2>1
  <2>3. Reclaimed(c, heap', 0, {}, root, V2)
    BY <1>2, <2>2, ReclaimedSame
  <2> QED
    BY <2>1, <2>3
<1>9. ASSUME StartupMap # None
      PROVE  /\ phase = "scanFinal" /\ TableAt' = TableAt
             /\ heap'[TableAt].args = heap[TableAt].args
  <2>1. phase = "scanFinal"
    BY <1>2, <1>9
  <2>2. /\ MapAt \in Addr /\ Stays(heap, gen, MapAt)
        /\ TableAt \in Addr /\ Stays(heap, gen, TableAt)
    BY <1>9, <2>1, MapAndTable
  <2> QED
    BY <1>2, <2>1, <2>2 DEF TableAt
<1>10. OneTable'
  BY <1>1, <1>2, <1>6, <1>9 DEF OneTable
<1>11. EntriesLeft'
  BY <1>6, <1>9 DEF EntriesLeft
<1> QED
  BY <1>8, <1>10, <1>11

(* Every step keeps ReclaimInv.                                            *)
LEMMA ReclaimNext == IInv /\ ReclaimInv /\ [Next]_vars => ReclaimInv'
<1> SUFFICES ASSUME IInv, ReclaimInv, [Next]_vars
             PROVE  ReclaimInv'
  OBVIOUS
<1>0. gen = ToSpace => phase # "entry"
  <2> SUFFICES ASSUME gen = ToSpace, phase = "entry"
               PROVE  FALSE
    OBVIOUS
  <2>1. todo # <<>> /\ Stays(heap, gen, Head(todo)) /\ ToVisit = todo /\ todo \in Seq(Addr)
    BY DEF IInv, IntgenOK, ToVisit
  <2>2. \A a \in RememberedBlocks : ~Stays(heap, gen, a)
    BY DEF IInv, IntgenOK, BeforeOld
  <2>3. Head(todo) \in Range(todo)
    BY <2>1, TailRange
  <2> QED
    BY <2>1, <2>2, <2>3 DEF RememberedBlocks
<1>1. CASE phase' = "mutator"
  BY <1>1 DEF ReclaimInv, Major
<1>2. CASE Mutator \/ FinishGC
  <2>1. phase' = "mutator"
    BY <1>2 DEF Mutator, New, NewMap, ReplaceArg, Become, Put, RemoveKey, FinishGC
  <2> QED
    BY <1>1, <2>1
<1>3. CASE \E n \in Collections : StartGC(n)
  BY <1>3, ReclaimStart
<1>4. CASE RunFinalizer
  <2>1. phase = "finalize" /\ phase' = "finalize" /\ slots # <<>> /\ slots' = Front(slots)
        /\ finSet' = finSet
    BY <1>4 DEF RunFinalizer
  <2>2. slots \in Seq(FinEntry) /\ finSet \in Seq(FinEntry) /\ Len(slots) <= Len(finSet)
    BY <2>1 DEF IInv, FinalOK, ReclaimInv
  <2>3. Len(slots') < Len(finSet)
    BY <2>1, <2>2 DEF Front
  <2>4. Len(slots') \in Nat /\ Len(finSet) \in Nat
    BY <2>1, <2>2 DEF Front
  <2> QED
    BY <2>1, <2>3, <2>4 DEF ReclaimInv, Major
<1>5. CASE Release
  BY <1>5, ReclaimRelease
<1>6. CASE ScanField \/ StartIntgen \/ IntgenEntry \/ IntgenField \/ IntgenKeep
           \/ EndIntgen \/ StartDicts \/ ForwardDict \/ StartEntries \/ FinalizeEntry
           \/ KeepEntry \/ EndEntries
  <2>1. phase' # "finalize" /\ gen' = gen
    BY <1>6 DEF ScanField, StartIntgen, IntgenEntry, IntgenField, IntgenKeep, EndIntgen, StartDicts,
       ForwardDict, StartEntries, FinalizeEntry, KeepEntry, EndEntries
  <2>2. CASE gen # ToSpace
    BY <2>1, <2>2 DEF ReclaimInv, Major
  <2>3. CASE gen = ToSpace
    <3>1. ~IntgenField /\ ~IntgenKeep
      BY <1>0, <2>3 DEF IntgenField, IntgenKeep
    <3> QED
      BY <1>6, <2>3, <3>1, ReclaimScan, ReclaimLoops, ReclaimDict, ReclaimEntries,
         ReclaimEntriesStep
  <2> QED
    BY <2>2, <2>3
<1>7. CASE UNCHANGED vars
  <2>1. UNCHANGED <<heap, root, intgenSet, wkDictSet, finSet, spared, phase, gen, scan, todo, slots>>
    BY <1>7 DEF vars, sets, loops
  <2>2. MapAt' = MapAt /\ TableAt' = TableAt
    BY <2>1 DEF MapAt, TableAt
  <2>3. /\ PendingFields' = PendingFields /\ Bound' = Bound
        /\ \A c \in BOOLEAN : Kept(c)' = Kept(c)
    BY <2>1, <2>2 DEF PendingFields, PendingHere, Bound, Kept, ToFinalize
  <2>4. (Major' <=> Major) /\ (OneTable' <=> OneTable) /\ (EntriesLeft' <=> EntriesLeft)
    BY <2>1, <2>2, <2>3 DEF Major, OneTable, EntriesLeft
  <2> QED
    BY <2>1, <2>3, <2>4 DEF ReclaimInv
<1> QED
  BY <1>2, <1>3, <1>4, <1>5, <1>6, <1>7 DEF Next, Collector

(* The invariant holds initially.                                           *)
LEMMA ReclaimInit == Init => ReclaimInv
  BY DEF Init, ReclaimInv, Major

(* What is known after a major collection, before the first finalizer runs. *)
LEMMA AfterMajor ==
  ASSUME IInv, ReclaimInv, phase = "finalize", gen = ToSpace, slots = finSet
  PROVE  LET V == {finSet[n].value : n \in DOMAIN finSet} \cap Addr
         IN /\ Reclaimed(TRUE, heap, 0, {}, root, V) /\ Reclaimed(FALSE, heap, 0, {}, root, V \cup spared)
            /\ OneTable /\ EntriesLeft
            /\ root \in Addr /\ Bound = 0 /\ Linked(heap) /\ AllPending(heap, 0, {})
            /\ \A a \in Addr : heap[a] # Free => Stays(heap, 0, a)
            /\ wkDictSet = IF StartupMap = None THEN <<>> ELSE <<MapAt>>
            /\ StartupMap # None =>
                 /\ MapAt \in Addr /\ 1 \in DOMAIN heap[MapAt].args
                 /\ TableAt \in Addr /\ TableAt[1] \in Table /\ Stays(heap, 0, TableAt)
                 /\ heap[TableAt].args \in Seq(Field) /\ DOMAIN heap[TableAt].args = Keys
<1>1. OutsideInv /\ scan = <<>>
  BY OutsideIs DEF Outside, OutsideInv
<1>2. Bound = 0 /\ PendingFields = {}
  BY <1>1, NothingPending DEF Outside
<1>3. Major /\ ToFinalize = {finSet[n].value : n \in DOMAIN finSet} \cap Addr
  BY DEF Major, ToFinalize, AfterOld
<1>4. /\ Reclaimed(TRUE, heap, 0, {}, root, ToFinalize)
      /\ Reclaimed(FALSE, heap, 0, {}, root, ToFinalize \cup spared)
      /\ OneTable /\ EntriesLeft
  BY <1>2, <1>3 DEF ReclaimInv, Kept
<1>5. /\ Good(heap, intgenSet, root, MapAt)
      /\ root \in Addr /\ Linked(heap) /\ HeapType(heap, 0) /\ AllPending(heap, 0, {})
      /\ \A a \in Addr : ~AlreadyMoved(heap, a)
  BY <1>1, OutsideGood DEF OutsideInv, RootOK, Sound, HeapOK
<1>6. \A a \in Addr : heap[a] # Free => Stays(heap, 0, a)
  <2> SUFFICES ASSUME NEW a \in Addr, heap[a] # Free
               PROVE  Stays(heap, 0, a)
    OBVIOUS
  <2>1. Alloc(heap, a) /\ ~AlreadyMoved(heap, a) /\ heap[a] \in Blocks
    BY <1>5 DEF HeapType
  <2>2. heap[a].space \in 0..3
    BY <2>1 DEF Alloc, Blocks, ToSpace
  <2> QED
    BY <2>1, <2>2 DEF Stays, Live
<1>7. wkDictSet = IF StartupMap = None THEN <<>> ELSE <<MapAt>>
  BY <1>1 DEF OutsideInv
<1>8. ASSUME StartupMap # None
      PROVE  /\ MapAt \in Addr /\ 1 \in DOMAIN heap[MapAt].args
             /\ TableAt \in Addr /\ TableAt[1] \in Table /\ Stays(heap, 0, TableAt)
             /\ heap[TableAt].args \in Seq(Field) /\ DOMAIN heap[TableAt].args = Keys
  <2>1. MapAt \in Addr /\ MapAt[1] = StartupMap
    BY <1>1, <1>8 DEF OutsideInv, RootOK, MapAt
  <2>2. 1 \in DOMAIN heap[root].args
    <3>1. Len(heap[root].args) = RootArity /\ heap[root].args \in Seq(Field)
      BY <1>1, <1>5, StartupIs DEF OutsideInv, RootOK, Linked, Shape, Stays, HeapType, Blocks
    <3> QED
      BY <3>1, StoreAssumption DEF StoreAssumption
  <2>3. Stays(heap, 0, MapAt)
    BY <1>1, <1>5, <2>1, <2>2 DEF OutsideInv, RootOK, AllPending, MapAt
  <2>4. heap[MapAt].label = "WEAK_MAP"
    <3>1. Shape(MapAt, heap[MapAt])
      BY <1>5, <2>1, <2>3 DEF Linked, Stays
    <3> QED
      BY <1>8, <2>1, <3>1, StartupIs DEF Shape
  <2>5. TableOf(heap, MapAt) = TableAt /\ Entries(heap, MapAt) = heap[TableAt].args
    BY DEF TableOf, TableAt, Entries
  <2> QED
    BY <1>5, <2>1, <2>3, <2>4, <2>5, MapIs
<1> QED
  BY <1>2, <1>3, <1>4, <1>5, <1>6, <1>7, <1>8

(* The invariant implies MajorReclaims.                                    *)
LEMMA MajorReclaimsIs == IInv /\ ReclaimInv => MajorReclaims
<1> SUFFICES ASSUME IInv, ReclaimInv, phase = "finalize", gen = ToSpace, slots = finSet,
                    NEW a \in Addr, heap[a] # Free
             PROVE  LET maps == Range(wkDictSet)
                        values == {finSet[n].value : n \in DOMAIN finSet} \cap Addr
                    IN a \in Reach(heap, {root} \cup maps \cup values, StoredWords)
  BY DEF MajorReclaims
<1> DEFINE maps == Range(wkDictSet)
           values == {finSet[n].value : n \in DOMAIN finSet} \cap Addr
           X == {root} \cup maps \cup values
           S == Reach(heap, X, StoredWords)
<1>1. /\ Reclaimed(TRUE, heap, 0, {}, root, values) /\ OneTable
      /\ root \in Addr /\ Bound = 0 /\ Stays(heap, 0, a)
      /\ wkDictSet = IF StartupMap = None THEN <<>> ELSE <<MapAt>>
      /\ StartupMap # None =>
           MapAt \in Addr /\ 1 \in DOMAIN heap[MapAt].args /\ TableAt \in Addr
  BY AfterMajor
<1>2. maps \subseteq Addr /\ (StartupMap # None => MapAt \in maps)
  BY <1>1 DEF Range
<1>3. X \in SUBSET Addr /\ root \in X /\ values \subseteq X /\ maps \subseteq X
  BY <1>1, <1>2
<1> HIDE DEF X, maps, values
<1>4. S \in SUBSET Addr /\ X \subseteq S /\ \A b \in S : StoredWords(heap, b) \subseteq S
  BY <1>3, StoredWordsReached
<1> HIDE DEF S
<1>5. ClosedIn(TRUE, heap, 0, {}, S)
  <2> SUFFICES ASSUME NEW b \in S, NEW i \in DOMAIN heap[b].args, heap[b].args[i] \in Addr
               PROVE  heap[b].args[i] \in S
    BY DEF ClosedIn
  <2>1. heap[b].args[i] \in StoredWords(heap, b)
    BY DEF StoredWords, Range
  <2> QED
    BY <1>4, <2>1
<1>6. CASE a[1] \notin Table
  BY <1>1, <1>3, <1>4, <1>5, <1>6 DEF Reclaimed, S, X, maps, values
<1>7. CASE a[1] \in Table
  <2>1. StartupMap # None /\ a = TableAt
    BY <1>1, <1>7 DEF OneTable
  <2>2. a \in StoredWords(heap, MapAt)
    BY <1>1, <2>1 DEF StoredWords, Range, TableAt
  <2> QED
    BY <1>2, <1>3, <1>4, <2>1, <2>2 DEF S, X, maps, values
<1> QED
  BY <1>6, <1>7

(* The invariant implies EntriesFinalized.                                 *)
LEMMA EntriesFinalizedIs == IInv /\ ReclaimInv /\ SparedOK => EntriesFinalized
<1> SUFFICES ASSUME IInv, ReclaimInv, SparedOK,
                    phase = "finalize", gen = ToSpace, slots = finSet,
                    NEW n \in DOMAIN wkDictSet, NEW k \in Keys
             PROVE  LET values == {finSet[j].value : j \in DOMAIN finSet} \cap Addr
                    IN Entries(heap, wkDictSet[n])[k] \in
                         Reach(heap, {root} \cup values \cup spared, StrongWords) \cup {Empty}
  BY DEF EntriesFinalized, EntriesHold
<1> DEFINE values == {finSet[j].value : j \in DOMAIN finSet} \cap Addr
           X == {root} \cup values \cup spared
           S == Reach(heap, X, StrongWords)
           v == heap[TableAt].args[k]
<1>1. /\ Reclaimed(FALSE, heap, 0, {}, root, values \cup spared) /\ EntriesLeft
      /\ root \in Addr /\ Linked(heap) /\ AllPending(heap, 0, {})
      /\ wkDictSet = IF StartupMap = None THEN <<>> ELSE <<MapAt>>
      /\ StartupMap # None =>
           /\ TableAt \in Addr /\ TableAt[1] \in Table /\ Stays(heap, 0, TableAt)
           /\ heap[TableAt].args \in Seq(Field) /\ DOMAIN heap[TableAt].args = Keys
  BY AfterMajor
<1>2. StartupMap # None /\ wkDictSet[n] = MapAt
  BY <1>1
<1>3. Entries(heap, wkDictSet[n])[k] = v
  BY <1>2 DEF Entries, TableOf, TableAt
<1>4. X \in SUBSET Addr /\ root \in X /\ values \cup spared \subseteq X
  BY <1>1 DEF SparedOK
<1> HIDE DEF X, values
<1>5. S \in SUBSET Addr /\ X \subseteq S /\ \A b \in S : StrongWords(heap, b) \subseteq S
  BY <1>4, StrongWordsReached
<1> HIDE DEF S
<1>6. ClosedIn(FALSE, heap, 0, {}, S)
  <2> SUFFICES ASSUME NEW b \in S, Stays(heap, 0, b), b[1] # StartupMap,
                      NEW i \in DOMAIN heap[b].args, heap[b].args[i] \in Addr
               PROVE  heap[b].args[i] \in S
    BY DEF ClosedIn
  <2>1. heap[b].label # "WEAK_MAP"
    <3>1. Shape(b, heap[b])
      BY <1>1, <1>5 DEF Linked, Stays
    <3> QED
      BY <3>1 DEF Shape
  <2>2. heap[b].args[i] \in StrongWords(heap, b)
    BY <2>1 DEF StrongWords, StoredWords, Range
  <2> QED
    BY <1>5, <2>2
<1>7. v \in Field /\ LinkOK(heap, TableAt, v)
  BY <1>1, <1>2 DEF Linked, Stays
<1>8. v # Integer
  BY <1>1, <1>2 DEF EntriesLeft
<1>9. v \in Addr => Stays(heap, 0, v) /\ v[1] \notin Table
  BY <1>1, <1>2, <1>7, StartupIs DEF AllPending, LinkOK
<1>10. v \in Addr => v \in S
  BY <1>1, <1>4, <1>5, <1>6, <1>9 DEF Reclaimed
<1>11. v \in Addr \/ v = Empty
  BY <1>7, <1>8 DEF Field, Word
<1> QED
  BY <1>3, <1>10, <1>11 DEF S, X, values

(* ReclaimInv holds in every state.                                        *)
LEMMA ReclaimAlways == ASSUME MapsAreRooted PROVE Spec => [](IInv /\ ReclaimInv)
<1>1. Spec => []IInv
  BY Invariant
<1>2. Init => ReclaimInv
  BY ReclaimInit
<1>3. IInv /\ ReclaimInv /\ [Next]_vars => ReclaimInv'
  BY ReclaimNext
<1> QED
  BY <1>1, <1>2, <1>3, PTL DEF Spec

(* After DoGCWithoutFinalize of every generation what is left in the heap    *)
(* can be reached from the root, the weak map or a value to finalize: a     *)
(* dead object, an old table of the map or the original of a copied block   *)
(* never survives a major collection.                                      *)
THEOREM GarbageIsReclaimed == ASSUME MapsAreRooted PROVE Spec => []MajorReclaims
  BY ReclaimAlways, MajorReclaimsIs, PTL

(* After such a collection an entry of a weak map holds a value only if      *)
(* something other than the map refers to it: HandleWeakDictionaries has     *)
(* finalized the others, but for those whose forwarding address was taken    *)
(* for the header of a map, which keep what they refer to as well.          *)
THEOREM DeadEntriesAreFinalized ==
  ASSUME MapsAreRooted PROVE Spec => []EntriesFinalized
<1>1. IInv /\ ReclaimInv /\ SparedOK => EntriesFinalized
  BY EntriesFinalizedIs
<1> QED
  BY <1>1, ReclaimAlways, SparedAlways, PTL
=============================================================================
