-------------------------------- MODULE Store --------------------------------
(***************************************************************************)
(* The heap and the generational copying collector of store/Store.cc, with *)
(* the write barrier (store/Value.hh), weak maps (store/BaseMap.cc,        *)
(* store/WeakMap.hh) and finalization.                                     *)
(*                                                                         *)
(* A block lives at an address <<o, c>>: o names the object, c one of the  *)
(* places its copies may be at.  Allocation order and chunk layout are     *)
(* left out; what is kept of an address is which region it is in.  The     *)
(* nodes of a weak map are part of its table, one entry per key.           *)
(***************************************************************************)
EXTENDS Naturals, Sequences, SequencesExt, FiniteSets, Filter, TLC

CONSTANTS
  Obj,           \* objects a program allocates
  Table,         \* tables of weak maps
  RootObj,       \* the object the root word refers to
  StartupMap,    \* a weak map that is always registered, or None
  StartupTable,
  Arity,         \* fields of an ordinary block
  RootArity,     \* fields of the root block
  KeyCount,      \* keys a program uses with a weak map
  Labels,        \* the labels of the objects the program allocates
  AnyValue,      \* may any word be put into a weak map, or only a block that
                 \* is in no other entry, as FinalizationSet::Register does?
  Resurrect,     \* may a finalizer make the value reachable again?
  Collections,   \* generations whose size may exceed its limit
  LabelClash,    \* may a forwarding address look like a weak map's header?
  FinSetSize,    \* words the finalization set has room for at the start
  Integer, Empty, None

Youngest == 0
Oldest == 2
ToSpace == 3                 \* STORE_GENERATION_NUM - 1
Keys == 1..KeyCount
Object == Obj \cup Table \cup {RootObj}
Copies == 0..2
Addr == Object \X Copies
Word == Addr \cup {Integer}
RootField == IF StartupMap = None THEN 1..RootArity ELSE 2..RootArity

ASSUME StoreAssumption ==
  /\ Arity \in Nat \ {0} /\ RootArity \in Nat \ {0} /\ KeyCount \in Nat \ {0}
  /\ FinSetSize \in Nat /\ Collections \subseteq Youngest..Oldest
  /\ Labels \subseteq {"BLOCK", "HOLE", "WEAK_MAP"}
  /\ {AnyValue, Resurrect, LabelClash} \subseteq BOOLEAN
  /\ IsFiniteSet(Obj) /\ IsFiniteSet(Table)
  /\ RootObj \notin Obj \cup Table /\ Obj \cap Table = {}
  /\ \/ StartupMap \in Obj /\ StartupTable \in Table
     \/ StartupMap = None /\ StartupTable = None
  /\ Integer # Empty /\ None \notin Object /\ None \notin Youngest..ToSpace
  /\ {Integer, Empty, None} \cap Addr = {}

VARIABLES
  heap,       \* the block at each address
  root,       \* the root word
  intgenSet,  \* old blocks with pointers to younger ones
  wkDictSet,  \* registered weak maps
  finSet,     \* values to finalize, with the map whose handler gets them
  finSpace,   \* region the finalization set itself is in
  finMax,     \* words it has room for
  spared,     \* values taken for maps in this collection (for properties)
  phase,      \* where the collector is
  gen,        \* the generation blocks are copied to
  scan,       \* fields of copied blocks that CheneyScan has yet to visit
  todo,       \* sets: entries the current loop has yet to visit
  slots       \* fields (or keys) of the current entry yet to visit

sets == <<intgenSet, wkDictSet, finSet, finSpace, finMax, spared>>
loops == <<scan, todo, slots>>
vars == <<heap, root, sets, phase, gen, loops>>

-----------------------------------------------------------------------------
(***************************************************************************)
(* Blocks and words.                                                       *)
(***************************************************************************)
Free == [space |-> None, label |-> "FREE", args |-> <<>>, childish |-> FALSE,
         fwd |-> None]

Fresh(l, args) ==
  [space |-> Youngest, label |-> l, args |-> args, childish |-> FALSE, fwd |-> None]

Fill(n, w) == [i \in 1..n |-> w]

\* The header of a block in to-space says that it is in the oldest generation.
Generation(h, a) == IF h[a].space = ToSpace THEN Oldest ELSE h[a].space

AlreadyMoved(h, a) == h[a].fwd # None

\* GCHelper::Deref, PointerOp::Deref.
IsRef(h, w) == w \in Addr /\ ~AlreadyMoved(h, w) /\ h[w].label = "REF"
Deref(h, w) ==
  LET to[n \in 0..Cardinality(Obj)] ==
        [v \in Word |-> IF n = 0 \/ ~IsRef(h, v) THEN v ELSE to[n - 1][h[v].args[1]]]
  IN to[Cardinality(Obj)][w]

\* The address the next copy of the block at a goes to.
NewPlace(h, a) ==
  <<a[1], CHOOSE c \in Copies : h[<<a[1], c>>] = Free>>

\* Store::CloneBlock: the copy is neither childish nor forwarded; MarkMoved
\* overwrites the header of the original.
CloneBlock(h, a, g) ==
  LET b == NewPlace(h, a)
  IN [h EXCEPT ![b] = [h[a] EXCEPT !.space = g, !.childish = FALSE],
               ![a].fwd = b, ![a].label = "MOVED", ![a].childish = FALSE]

\* FORWARD: what a word becomes when its block is copied to generation g, and
\* the heap with the copy.
ToForward(h, w, g) ==
  w \in Addr /\ ~AlreadyMoved(h, w) /\ Generation(h, w) < g
ForwardHeap(h, w, g) == IF ToForward(h, w, g) THEN CloneBlock(h, w, g) ELSE h
ForwardWord(h, w, g) ==
  IF w \in Addr /\ AlreadyMoved(h, w) THEN h[w].fwd
  ELSE IF ToForward(h, w, g) THEN NewPlace(h, w) ELSE w

\* The fields CheneyScan visits of a new copy of the block at a.
IsScanned(b) == b.label # "WEAK_MAP"
Fields(a, b) ==
  LET n == Len(b.args)
  IN Filter([i \in 1..n |-> <<a, n + 1 - i>>], {f \in {a} \X (1..n) : b.args[f[2]] \in Addr})
NewFields(h, w, g) ==
  IF ToForward(h, w, g) /\ IsScanned(h[w]) THEN Fields(NewPlace(h, w), h[w]) ELSE <<>>

\* Copy what field f refers to, and update the field.
ForwardField(f, w, g) ==
  heap' = [ForwardHeap(heap, w, g) EXCEPT
             ![f[1]].args[f[2]] = ForwardWord(heap, w, g)]

\* Mutant: only a block in the oldest generation is remembered.
RememberOldest(h, a, w) ==
  /\ w \in Addr /\ Generation(h, a) = Oldest /\ Generation(h, w) < Oldest
  /\ ~h[a].childish

\* Block::ReplaceArgUnchecked: the write barrier.
Remember(h, a, w) ==
  w \in Addr /\ Generation(h, w) < Generation(h, a) /\ ~h[a].childish
WriteHeap(h, a, i, w) ==
  [h EXCEPT ![a].args[i] = w, ![a].childish = @ \/ Remember(h, a, w)]
WriteSet(set, h, a, w) == IF Remember(h, a, w) THEN Append(set, a) ELSE set
Write(h, a, i, w) ==
  /\ heap' = WriteHeap(h, a, i, w)
  /\ intgenSet' = WriteSet(intgenSet, h, a, w)

\* BaseMap: the table of a weak map, the number of entries in it, and the
\* number from which it is replaced by a larger one.
TableOf(h, m) == h[m].args[1]
Entries(h, m) == h[TableOf(h, m)].args
Counter(h, m) == Cardinality({k \in Keys : Entries(h, m)[k] # Empty})
Percent(h, m) == IF h[TableOf(h, m)].label = "TABLE" THEN 1 ELSE 3

-----------------------------------------------------------------------------
(***************************************************************************)
(* The program, between two collections.  It has a word in its hands only  *)
(* if the root leads to it, perhaps through a weak map.                    *)
(***************************************************************************)
Edges(h, a) ==
  LET args == IF h[a].label = "WEAK_MAP" THEN Entries(h, a) ELSE h[a].args
  IN {Deref(h, w) : w \in Range(args) \cap Addr} \cap Addr
Reach(h, S, Next(_, _)) ==
  LET closure[n \in 0..Cardinality(Addr)] ==
        [T \in SUBSET Addr |->
           LET near == T \cup UNION {Next(h, a) : a \in T}
           IN IF n = 0 \/ near = T THEN T ELSE closure[n - 1][near]]
  IN closure[Cardinality(Addr)][S]

Visible == Reach(heap, {root}, Edges)
Values == (Visible \ {root}) \cup {Integer}
Unused(o) == \A c \in Copies : heap[<<o, c>>] = Free
UnusedTable == <<CHOOSE t \in Table : Unused(t), 0>>
HasUnusedTable == \E t \in Table : Unused(t)

\* The fields of a block the program writes; the startup map stays where it is.
Writable(a) ==
  IF heap[a].label # "BLOCK" THEN {}
  ELSE IF a = root THEN RootField ELSE DOMAIN heap[a].args

\* Store::AllocBlock, Transient::New; the result goes into field i of block p.
New(o, l, p, i) ==
  LET a == <<o, 0>>
      n == IF l = "BLOCK" THEN Arity ELSE 1
  IN /\ phase = "mutator" /\ Unused(o) /\ l \in Labels \ {"WEAK_MAP"}
     /\ Write([heap EXCEPT ![a] = Fresh(l, Fill(n, Integer))], p, i, a)
     /\ UNCHANGED <<root, wkDictSet, finSet, finSpace, finMax, spared, phase, gen, loops>>

\* WeakMap::New, BaseMap::New.
NewMap(o, p, i) ==
  LET a == <<o, 0>>
  IN /\ phase = "mutator" /\ Unused(o) /\ HasUnusedTable /\ "WEAK_MAP" \in Labels
     /\ Write([heap EXCEPT ![a] = Fresh("WEAK_MAP", <<UnusedTable>>),
                           ![UnusedTable] = Fresh("TABLE", Fill(KeyCount, Empty))],
              p, i, a)
     /\ wkDictSet' = Append(wkDictSet, a)
     /\ UNCHANGED <<root, finSet, finSpace, finMax, spared, phase, gen, loops>>

\* Block::ReplaceArg.
ReplaceArg(a, i, w) ==
  /\ phase = "mutator"
  /\ Write(heap, a, i, w)
  /\ UNCHANGED <<root, wkDictSet, finSet, finSpace, finMax, spared, phase, gen, loops>>

\* Mutant: Become does without the write barrier.
BecomeUnremembered(a, w) ==
  /\ phase = "mutator" /\ heap[a].label = "HOLE" /\ w # a
  /\ heap' = [heap EXCEPT ![a].label = "REF", ![a].args[1] = w]
  /\ UNCHANGED <<root, sets, phase, gen, loops>>

\* Transient::Become(REF_LABEL, w).
Become(a, w) ==
  /\ phase = "mutator" /\ heap[a].label = "HOLE" /\ w # a
  /\ Write([heap EXCEPT ![a].label = "REF"], a, 1, w)
  /\ UNCHANGED <<root, wkDictSet, finSet, finSpace, finMax, spared, phase, gen, loops>>

\* FinalizationSet::Register gives the map a block that is in no other entry.
MayPut(m, k, w) ==
  \/ AnyValue
  \/ /\ w \in Addr /\ heap[w].label = "BLOCK"
     /\ \A n \in DOMAIN wkDictSet, j \in Keys :
          Entries(heap, wkDictSet[n])[j] = w => wkDictSet[n] = m /\ j = k

\* BaseMap::Resize: a new table with the entries of the old one.
WithLargeTable(m) ==
  [heap EXCEPT ![UnusedTable] = Fresh("LARGE_TABLE", Entries(heap, m))]

\* BaseMap::Put.
Put(m, k, w) ==
  LET full == Counter(heap, m) > Percent(heap, m)
      h == IF full THEN WriteHeap(WithLargeTable(m), m, 1, UnusedTable) ELSE heap
      set == IF full THEN WriteSet(intgenSet, WithLargeTable(m), m, UnusedTable)
             ELSE intgenSet
  IN /\ phase = "mutator" /\ heap[m].label = "WEAK_MAP" /\ MayPut(m, k, w)
     /\ full => HasUnusedTable
     /\ heap' = WriteHeap(h, TableOf(h, m), k, w)
     /\ intgenSet' = WriteSet(set, h, TableOf(h, m), w)
     /\ UNCHANGED <<root, wkDictSet, finSet, finSpace, finMax, spared, phase, gen, loops>>

\* BaseMap::Remove.
RemoveKey(m, k) ==
  /\ phase = "mutator" /\ heap[m].label = "WEAK_MAP"
  /\ Entries(heap, m)[k] # Empty
  /\ Write(heap, TableOf(heap, m), k, Empty)
  /\ UNCHANGED <<root, wkDictSet, finSet, finSpace, finMax, spared, phase, gen, loops>>

-----------------------------------------------------------------------------
(***************************************************************************)
(* Store::DoGCWithoutFinalize(root), collecting generations 0..g.          *)
(***************************************************************************)

\* A major collection copies the sets first; every collection copies the root
\* block, whatever its generation.
StartGC(g) ==
  /\ phase = "mutator"
  /\ gen' = g + 1
  /\ heap' = CloneBlock(heap, root, g + 1)
  /\ root' = NewPlace(heap, root)
  /\ scan' = Fields(NewPlace(heap, root), heap[root])
  /\ finSpace' = IF g = Oldest /\ finSpace # None THEN ToSpace ELSE finSpace
  /\ phase' = "scanRoots"
  /\ UNCHANGED <<intgenSet, wkDictSet, finSet, finMax, spared, todo, slots>>

\* FinalizeCheneyScan leaves alone what is in to-space, although its header
\* says that it is in the oldest generation.
IsInFromSpace(w) == w \in Addr => heap[w].space # ToSpace
ScanGen(w) ==
  IF phase = "scanFinal" /\ gen = ToSpace /\ ~IsInFromSpace(w) THEN Oldest ELSE gen

\* CheneyScan, FinalizeCheneyScan, one field: references are skipped, the block
\* is copied if it is in a collected generation.
ScanField ==
  LET f == Head(scan)
      w == Deref(heap, heap[f[1]].args[f[2]])
  IN /\ phase \in {"scanRoots", "scanOld", "scanFinal"} /\ scan # <<>>
     /\ ForwardField(f, w, ScanGen(w))
     /\ scan' = Tail(scan) \o NewFields(heap, w, ScanGen(w))
     /\ UNCHANGED <<root, sets, phase, gen, todo, slots>>

\* HandleInterGenerationalPointers.
StartIntgen ==
  /\ phase = "scanRoots" /\ scan = <<>>
  /\ todo' = intgenSet /\ intgenSet' = <<>>
  /\ phase' = "intgen"
  /\ UNCHANGED <<heap, root, wkDictSet, finSet, finSpace, finMax, spared, gen, scan, slots>>

\* Mutant: an entry that is garbage is not stepped over.
IntgenEntryStuck ==
  LET e == Head(todo)
      old == ~AlreadyMoved(heap, e) /\ Generation(heap, e) >= gen
  IN /\ phase = "intgen" /\ todo # <<>>
     /\ heap' = IF AlreadyMoved(heap, e)
                THEN [heap EXCEPT ![heap[e].fwd].childish = FALSE] ELSE heap
     /\ phase' = IF old THEN "entry" ELSE "intgen"
     /\ slots' = IF old THEN Fields(e, heap[e]) ELSE <<>>
     /\ todo' = IF AlreadyMoved(heap, e) THEN Tail(todo) ELSE todo
     /\ UNCHANGED <<root, sets, gen, scan>>

\* The next entry: it was copied, is still old, or is garbage.
IntgenEntry ==
  LET e == Head(todo)
      old == ~AlreadyMoved(heap, e) /\ Generation(heap, e) >= gen
  IN /\ phase = "intgen" /\ todo # <<>>
     /\ heap' = IF AlreadyMoved(heap, e)
                THEN [heap EXCEPT ![heap[e].fwd].childish = FALSE] ELSE heap
     /\ phase' = IF old THEN "entry" ELSE "intgen"
     /\ slots' = IF old THEN Fields(e, heap[e]) ELSE <<>>
     /\ todo' = IF old THEN todo ELSE Tail(todo)
     /\ UNCHANGED <<root, sets, gen, scan>>

IntgenField ==
  LET f == Head(slots)
      w == Deref(heap, heap[f[1]].args[f[2]])
  IN /\ phase = "entry" /\ slots # <<>>
     /\ ForwardField(f, w, gen)
     /\ scan' = scan \o NewFields(heap, w, gen)
     /\ slots' = Tail(slots)
     /\ UNCHANGED <<root, sets, phase, gen, todo>>

\* Mutant: pointers are compared with the generation that is copied to.
FoundCollectedPtrs(e) ==
  \E i \in DOMAIN heap[e].args :
    heap[e].args[i] \in Addr /\ Generation(heap, heap[e].args[i]) < gen

FoundYoungPtrs(e) ==
  \E i \in DOMAIN heap[e].args :
    /\ heap[e].args[i] \in Addr
    /\ Generation(heap, heap[e].args[i]) < Generation(heap, e)

IntgenKeep ==
  LET e == Head(todo)
  IN /\ phase = "entry" /\ slots = <<>>
     /\ intgenSet' = IF FoundYoungPtrs(e) THEN Append(intgenSet, e) ELSE intgenSet
     /\ heap' = [heap EXCEPT ![e].childish = FoundYoungPtrs(e)]
     /\ todo' = Tail(todo) /\ phase' = "intgen"
     /\ UNCHANGED <<root, wkDictSet, finSet, finSpace, finMax, spared, gen, scan, slots>>

EndIntgen ==
  /\ phase = "intgen" /\ todo = <<>>
  /\ phase' = "scanOld"
  /\ UNCHANGED <<heap, root, sets, gen, loops>>

\* Mutant: the finalization set still holds what was finalized before.
StartDictsUncleared ==
  /\ phase = "scanOld" /\ scan = <<>> /\ wkDictSet # <<>>
  /\ todo' = wkDictSet /\ wkDictSet' = <<>>
  /\ phase' = "dicts"
  /\ UNCHANGED <<heap, root, intgenSet, finSet, finSpace, finMax, spared, gen, scan, slots>>

\* HandleWeakDictionaries, if any is registered.
StartDicts ==
  /\ phase = "scanOld" /\ scan = <<>> /\ wkDictSet # <<>>
  /\ todo' = wkDictSet /\ wkDictSet' = <<>> /\ finSet' = <<>>
  /\ phase' = "dicts"
  /\ UNCHANGED <<heap, root, intgenSet, finSpace, finMax, spared, gen, scan, slots>>

\* Set::Add, twice: the value and the handler of its map.  An enlarged set is
\* allocated in the generation that is copied to.
EnlargedMax(top, max) == IF top + 1 < max THEN max ELSE (max * 3) \div 2
FinSetMax == EnlargedMax(2 * Len(finSet) + 1, EnlargedMax(2 * Len(finSet), finMax))
AddToFinSet(w, m) ==
  /\ finSet' = Append(finSet, [value |-> w, map |-> m[1]])
  /\ finMax' = FinSetMax
  /\ finSpace' = IF FinSetMax = finMax THEN finSpace ELSE gen

\* Phase one: a map that was not reached is finalized if it is empty and kept
\* otherwise; its table is copied but not what the entries refer to.
IsDying(m) == ToForward(heap, m, gen) /\ Counter(heap, m) = 0

ForwardDict ==
  LET d == Last(todo)
      m == ForwardWord(heap, d, gen)
      h == ForwardHeap(heap, d, gen)
      t == ForwardWord(h, TableOf(h, m), gen)
      copied == ForwardHeap(h, TableOf(h, m), gen)
  IN /\ phase = "dicts" /\ todo # <<>>
     /\ heap' = WriteHeap(copied, m, 1, t)
     /\ intgenSet' = WriteSet(intgenSet, copied, m, t)
     /\ IF IsDying(d)
        THEN AddToFinSet(m, m) /\ UNCHANGED wkDictSet
        ELSE /\ wkDictSet' = Append(wkDictSet, m)
             /\ UNCHANGED <<finSet, finSpace, finMax>>
     /\ todo' = Front(todo) /\ slots' = Append(slots, m)
     /\ UNCHANGED <<root, spared, phase, gen, scan>>

StartEntries ==
  /\ phase = "dicts" /\ todo = <<>>
  /\ slots' = Filter(
                FlattenSeq([n \in DOMAIN slots |->
                              [k \in Keys |-> <<slots[n], KeyCount + 1 - k>>]]),
                {f \in Range(slots) \X Keys : Entries(heap, f[1])[f[2]] # Empty})
  /\ phase' = "entries"
  /\ UNCHANGED <<heap, root, sets, gen, scan, todo>>

\* Whether the forwarding address, which MarkMoved has put where the header of
\* a value was, is taken for the header of a map with entries.
Clash == IF LabelClash THEN BOOLEAN ELSE {FALSE}

\* Mutant: the test is inverted.
PermittedIfMap(clash) == clash

\* FINALIZE_PERMITTED(valp) reads that header.
Permitted(clash) == ~clash

\* Phase two, an entry that is removed.
FinalizeEntry ==
  LET m == Head(slots)[1]
      k == Head(slots)[2]
      w == Deref(heap, Entries(heap, m)[k])
      h == ForwardHeap(heap, w, gen)
  IN /\ phase = "entries" /\ slots # <<>>
     /\ w = Integer \/ (ToForward(heap, w, gen) /\ \E clash \in Clash : Permitted(clash))
     /\ Write(h, TableOf(h, m), k, Empty)
     /\ AddToFinSet(ForwardWord(heap, w, gen), m)
     /\ scan' = scan \o NewFields(heap, w, gen)
     /\ slots' = Tail(slots)
     /\ UNCHANGED <<root, wkDictSet, spared, phase, gen, todo>>

\* Phase two, an entry that stays: its value was reached, or is too old to
\* tell, or was taken for a map that is not empty.
KeepEntry ==
  LET m == Head(slots)[1]
      k == Head(slots)[2]
      w == Deref(heap, Entries(heap, m)[k])
      h == ForwardHeap(heap, w, gen)
  IN /\ phase = "entries" /\ slots # <<>>
     /\ w # Integer
     /\ \/ ~ToForward(heap, w, gen) /\ UNCHANGED spared
        \/ \E clash \in Clash :
             /\ ToForward(heap, w, gen) /\ ~Permitted(clash)
             /\ spared' = IF clash THEN spared \cup {ForwardWord(heap, w, gen)} ELSE spared
     /\ Write(h, TableOf(h, m), k, ForwardWord(heap, w, gen))
     /\ scan' = scan \o NewFields(heap, w, gen)
     /\ slots' = Tail(slots)
     /\ UNCHANGED <<root, wkDictSet, finSet, finSpace, finMax, phase, gen, todo>>

\* Mutant: what finalized values refer to is not copied.
EndEntriesUnscanned ==
  /\ phase = "entries" /\ slots = <<>>
  /\ phase' = "scanFinal" /\ scan' = <<>>
  /\ UNCHANGED <<heap, root, sets, gen, todo, slots>>

EndEntries ==
  /\ phase = "entries" /\ slots = <<>>
  /\ phase' = "scanFinal"
  /\ UNCHANGED <<heap, root, sets, gen, loops>>

\* Mutant: the oldest collected generation is not freed.
CollectedBelow(a) == AlreadyMoved(heap, a) \/ heap[a].space + 1 < gen

\* Mutant: the semispaces are not swapped.
SpaceUnswapped(s) == s

\* Heap::Shrink frees the collected regions, and a major collection swaps the
\* semispaces.  The old root block is dead whatever its region.
Collected(a) == AlreadyMoved(heap, a) \/ heap[a].space < gen
SpaceAfterSwap(s) == IF s = ToSpace THEN Oldest ELSE s

Release ==
  /\ scan = <<>>
  /\ phase = "scanFinal" \/ (phase = "scanOld" /\ wkDictSet = <<>>)
  /\ heap' = [a \in Addr |->
                IF heap[a] = Free \/ Collected(a) THEN Free
                ELSE [heap[a] EXCEPT !.space = SpaceAfterSwap(@)]]
  /\ finSpace' = IF finSpace = None \/ finSpace < gen THEN None
                 ELSE SpaceAfterSwap(finSpace)
  /\ slots' = finSet
  /\ phase' = "finalize"
  /\ UNCHANGED <<root, intgenSet, wkDictSet, finSet, finMax, spared, gen, scan, todo>>

\* Store::DoFinalize: the last value first.
RunFinalizer ==
  LET w == Last(slots).value
  IN /\ phase = "finalize" /\ slots # <<>>
     /\ \/ UNCHANGED <<heap, intgenSet>>
        \/ /\ Resurrect /\ w \in Addr /\ heap[w] # Free
           /\ \E i \in RootField : Write(heap, root, i, w)
     /\ slots' = Front(slots)
     /\ UNCHANGED <<root, wkDictSet, finSet, finSpace, finMax, spared, phase, gen, scan, todo>>

FinishGC ==
  /\ phase = "finalize" /\ slots = <<>>
  /\ phase' = "mutator" /\ gen' = Youngest /\ spared' = {}
  /\ UNCHANGED <<heap, root, intgenSet, wkDictSet, finSet, finSpace, finMax, loops>>

-----------------------------------------------------------------------------
Init ==
  LET m == <<StartupMap, 0>>
      t == <<StartupTable, 0>>
      fields == [i \in 1..RootArity |->
                   IF StartupMap # None /\ i = 1 THEN m ELSE Integer]
  IN /\ root = <<RootObj, 0>>
     /\ heap = [a \in Addr |->
                  IF a = root THEN Fresh("BLOCK", fields)
                  ELSE IF a = m THEN Fresh("WEAK_MAP", <<t>>)
                  ELSE IF a = t /\ StartupMap # None
                  THEN Fresh("TABLE", Fill(KeyCount, Empty))
                  ELSE Free]
     /\ wkDictSet = IF StartupMap = None THEN <<>> ELSE <<m>>
     /\ intgenSet = <<>> /\ finSet = <<>>
     /\ finSpace = Oldest /\ finMax = FinSetSize /\ spared = {}
     /\ phase = "mutator" /\ gen = Youngest
     /\ scan = <<>> /\ todo = <<>> /\ slots = <<>>

Mutator ==
  \/ \E a \in Visible : \E i \in Writable(a) :
       \/ \E o \in Obj, l \in Labels : New(o, l, a, i)
       \/ \E o \in Obj : NewMap(o, a, i)
       \/ \E w \in Values : ReplaceArg(a, i, w)
  \/ \E a \in Visible, w \in Values :
       \/ Become(a, w)
       \/ \E k \in Keys : Put(a, k, w)
  \/ \E a \in Visible, k \in Keys : RemoveKey(a, k)

Collector ==
  \/ ScanField \/ StartIntgen \/ IntgenEntry \/ IntgenField \/ IntgenKeep
  \/ EndIntgen \/ StartDicts \/ ForwardDict \/ StartEntries \/ FinalizeEntry
  \/ KeepEntry \/ EndEntries \/ Release \/ RunFinalizer \/ FinishGC

Next ==
  \/ Mutator
  \/ \E g \in Collections : StartGC(g)
  \/ Collector

Spec == Init /\ [][Next]_vars
FairSpec == Spec /\ WF_vars(Collector)

-----------------------------------------------------------------------------
(***************************************************************************)
(* Properties.                                                             *)
(***************************************************************************)
Field == Word \cup {Empty}
FieldRef == Addr \X (Keys \cup 1..(Arity + RootArity))

\* homepage/manual/store.html:95 says that it is always safe to call DoGC, so
\* DoFinalize reads the finalization set from memory that has not been freed.
FinSetIsAllocated == phase = "finalize" => finSpace # None

\* Types: outside a collection nothing is left in to-space, and the sets hold
\* addresses.
TypeOK ==
  /\ \A a \in Addr :
       /\ heap[a].space \in 0..(IF phase \in {"mutator", "finalize"} THEN Oldest ELSE ToSpace)
                            \cup {None}
       /\ heap[a].label \in {"FREE", "MOVED", "BLOCK", "HOLE", "REF", "WEAK_MAP",
                             "TABLE", "LARGE_TABLE"}
       /\ Range(heap[a].args) \subseteq Field
       /\ heap[a].childish \in BOOLEAN /\ heap[a].fwd \in Addr \cup {None}
  /\ root \in Addr /\ spared \subseteq Addr
  /\ Range(intgenSet) \subseteq Addr /\ Range(wkDictSet) \subseteq Addr
  /\ Range(scan) \subseteq FieldRef /\ Range(todo) \subseteq Addr

\* Verify: after a collection every word that can be reached is an integer or
\* the address of a block that is alive and not a forward pointer.
StoredWords(h, a) == Range(h[a].args) \cap Addr
IsStale(a) == heap[a] = Free \/ AlreadyMoved(heap, a) \/ heap[a].space = ToSpace
NoStalePointer ==
  phase = "mutator" => \A a \in Reach(heap, {root}, StoredWords) : ~IsStale(a)

\* The write barrier and HandleInterGenerationalPointers between them keep the
\* remembered set exact enough: between collections a live block with a pointer
\* to a younger one is in intgenSet, and the childish flag says that a block is
\* in the set, once.
Remembered ==
  phase = "mutator" =>
    \A a \in Reach(heap, {root}, StoredWords) :
      /\ (\E b \in StoredWords(heap, a) : Generation(heap, b) < Generation(heap, a))
           => heap[a].childish
      /\ Cardinality({n \in DOMAIN intgenSet : intgenSet[n] = a})
           = (IF heap[a].childish THEN 1 ELSE 0)

\* A finalizer gets a value that is still intact, with all it refers to.
FinalizersGetLiveValues ==
  phase = "finalize" =>
    \A a \in Reach(heap, {slots[n].value : n \in DOMAIN slots} \cap Addr, StoredWords) :
      ~IsStale(a)

\* A major collection leaves only what the root, a registered map or a
\* finalizer can reach.
MajorReclaims ==
  phase = "finalize" /\ gen = ToSpace /\ slots = finSet =>
    LET maps == Range(wkDictSet)
        values == {finSet[n].value : n \in DOMAIN finSet} \cap Addr
    IN \A a \in Addr :
         heap[a] # Free => a \in Reach(heap, {root} \cup maps \cup values, StoredWords)

\* After a major collection no entry of a weak map holds a value that nothing
\* but weak maps, finalizers and the values in S refer to.
StrongWords(h, a) == IF h[a].label = "WEAK_MAP" THEN {} ELSE StoredWords(h, a)
EntriesHold(S) ==
  phase = "finalize" /\ gen = ToSpace /\ slots = finSet =>
    LET values == {finSet[n].value : n \in DOMAIN finSet} \cap Addr
    IN \A n \in DOMAIN wkDictSet, k \in Keys :
         Entries(heap, wkDictSet[n])[k] \in
           Reach(heap, {root} \cup values \cup S, StrongWords) \cup {Empty}

\* Clashes apart, a major collection finalizes every entry whose value only weak
\* maps refer to: a value that is taken for a map keeps itself and what it
\* refers to, and nothing else does.
EntriesFinalized == EntriesHold(spared)

\* homepage/manual/store.html:441-443 and test/store/basic/wk.cc: when only weak
\* maps refer to a block and it is finalized, no entry of any of them keeps it.
NoEntryOfFinalizedValue ==
  phase = "finalize" /\ slots = finSet =>
    \A n \in DOMAIN wkDictSet, k \in Keys, j \in DOMAIN finSet :
      LET w == finSet[j].value
      IN w \in Addr /\ heap[w].label = "BLOCK" => Entries(heap, wkDictSet[n])[k] # w

\* A collection comes to its end.
CollectionEnds == phase # "mutator" ~> phase = "mutator"

-----------------------------------------------------------------------------
(***************************************************************************)
(* The refinement of Memory: in the middle of a collection an object is    *)
(* wherever its newest copy is.                                            *)
(***************************************************************************)
Resolve(w) ==
  LET to[n \in Nat, v \in Word] ==
        IF n = 0 \/ v \notin Addr THEN v
        ELSE IF AlreadyMoved(heap, v) THEN to[n - 1, heap[v].fwd]
        ELSE IF IsRef(heap, v) THEN to[n - 1, heap[v].args[1]]
        ELSE v
  IN to[Cardinality(Addr), w]

Name(w) ==
  IF w = Empty THEN Empty
  ELSE IF Resolve(w) \in Addr THEN Resolve(w)[1] ELSE Integer

CurrentArgs(a) ==
  IF heap[a].label = "WEAK_MAP" THEN heap[Resolve(TableOf(heap, a))].args
  ELSE heap[a].args
CurrentEdges(h, a) ==
  {Resolve(w) : w \in Range(CurrentArgs(a)) \ {Empty}} \cap Addr

Pending ==
  IF phase \in {"dicts", "entries", "scanFinal"} THEN finSet
  ELSE IF phase = "finalize" THEN slots ELSE <<>>
Registered == Range(wkDictSet) \cup (IF phase = "dicts" THEN Range(todo) ELSE {})

MemoryPending ==
  [n \in DOMAIN Pending |->
     [value |-> Name(Pending[n].value), map |-> Pending[n].map]]
MemoryRegistered == {m[1] : m \in Registered}
MemoryObjects ==
  LET start == {root} \cup Registered \cup {Pending[n].value : n \in DOMAIN Pending}
      live == Reach(heap, {Resolve(w) : w \in start} \cap Addr, CurrentEdges)
  IN [o \in {a[1] : a \in live} |->
        LET a == CHOOSE b \in live : b[1] = o
            args == CurrentArgs(a)
        IN [label |-> heap[a].label, args |-> [i \in DOMAIN args |-> Name(args[i])]]]

Abstract == INSTANCE Memory WITH
  mem <- MemoryObjects, registered <- MemoryRegistered, pending <- MemoryPending

\* No collection changes what a program sees, apart from finalizing entries
\* and maps that nothing refers to, each once.
IsMemory == Abstract!Init /\ [][UNCHANGED Abstract!vars \/ Abstract!Next]_vars
=============================================================================
