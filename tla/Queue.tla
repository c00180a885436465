-------------------------------- MODULE Queue --------------------------------
(***************************************************************************)
(* adt/Queue.hh: a queue in a ring buffer that grows when it is full and,  *)
(* by Blank, shrinks and forgets its unused entries before a garbage       *)
(* collection.  The buffer is a store block, whose header holds its size   *)
(* in a field of limited width (store/HeaderOp.hh).                        *)
(***************************************************************************)
EXTENDS Naturals, Sequences

CONSTANTS
  Word,          \* words that are enqueued
  Zero,          \* Store::IntToWord(0)
  Junk,          \* what a fresh block contains
  None,          \* no word
  InitialSize,   \* argument of New
  MaxBlockSize,  \* largest size that fits in the size field of a header
  SizeShift,     \* larger sizes are stored shifted by this many bits
  MaxEntries     \* bound: a queue with this many entries is not enlarged

ASSUME ConstantsAssumption ==
  /\ {Zero, Junk, None} \cap Word = {}
  /\ InitialSize \in Nat \ {0, 1} /\ MaxEntries \in Nat
  /\ MaxBlockSize \in Nat \ {0} /\ SizeShift \in Nat

VARIABLES
  readIndex,
  writeIndex,
  array,     \* words of the buffer, from index 0
  header,    \* size field of the buffer's header, and whether it is shifted
  result,    \* what the last Dequeue returned
  purged     \* history: the last operation was Blank

bufferVars == <<readIndex, writeIndex, array, header>>
vars == <<bufferVars, result, purged>>

-----------------------------------------------------------------------------
(***************************************************************************)
(* The buffer.                                                             *)
(***************************************************************************)
BigUnit == 2 ^ SizeShift

\* HeaderOp::TranslateSize: the size that is allocated.
TranslateSize(s) ==
  IF s <= MaxBlockSize THEN s ELSE ((s + BigUnit - 1) \div BigUnit) * BigUnit

\* HeaderOp::EncodeHeader.
EncodeHeader(s) ==
  IF s <= MaxBlockSize THEN [size |-> s, big |-> FALSE]
                       ELSE [size |-> s \div BigUnit, big |-> TRUE]

\* HeaderOp::EncodeSize leaves the flag of a big block alone.
EncodeSize(h, s) == [size |-> s, big |-> h.big]

\* HeaderOp::DecodeSize.
DecodeSize(h) == IF h.big THEN h.size * BigUnit ELSE h.size

AllocArray(s) == [i \in 0..(s - 1) |-> Junk]

GetSize == DecodeSize(header)

\* std::memmove(base + dst, base + src, n).
MemMove(base, dst, src, n) ==
  [i \in DOMAIN base |-> IF dst <= i /\ i < dst + n THEN base[src + (i - dst)]
                                                    ELSE base[i]]

IsEmpty == writeIndex = readIndex

GetNumberOfElements ==
  LET nentries == writeIndex + GetSize - readIndex
  IN IF nentries >= GetSize THEN nentries - GetSize ELSE nentries

\* The address of the nth element.
NthIndex(n) ==
  IF readIndex + n >= GetSize THEN readIndex + n - GetSize ELSE readIndex + n

GetNthElement(n) == array[NthIndex(n)]

Contents == [i \in 1..GetNumberOfElements |-> GetNthElement(i - 1)]

\* Mutant: the index is not wrapped.
SuccessorUnwrapped(i) == i + 1

Successor(i) == IF i + 1 = GetSize THEN 0 ELSE i + 1

-----------------------------------------------------------------------------
(***************************************************************************)
(* Operations.                                                             *)
(***************************************************************************)

\* Mutant: the two halves of the ring are copied in the order of the buffer.
EnlargeInPlace(base, threshold) ==
  LET newSize == TranslateSize(GetSize + threshold)
  IN /\ array' = [i \in 0..(newSize - 1) |-> IF i < GetSize THEN base[i] ELSE Junk]
     /\ header' = EncodeHeader(newSize)
     /\ readIndex' = 0
     /\ writeIndex' = GetSize

\* Enlarge(threshold), when the queue has become full.
Enlarge(base, threshold) ==
  LET oldSize == GetSize
      newSize == TranslateSize(oldSize + threshold)
      index == Successor(writeIndex)
  IN /\ array' = [i \in 0..(newSize - 1) |->
                    IF i < oldSize - index THEN base[index + i]
                    ELSE IF i < oldSize THEN base[i - (oldSize - index)]
                    ELSE Junk]
     /\ header' = EncodeHeader(newSize)
     /\ readIndex' = 0
     /\ writeIndex' = oldSize

Enqueue(w) ==
  LET base == [array EXCEPT ![writeIndex] = w]
  IN /\ GetNumberOfElements < MaxEntries
     /\ IF Successor(writeIndex) = readIndex
        THEN Enlarge(base, GetSize \div 2)
        ELSE /\ array' = base
             /\ writeIndex' = Successor(writeIndex)
             /\ UNCHANGED <<readIndex, header>>
     /\ UNCHANGED result
     /\ purged' = FALSE

Dequeue ==
  /\ ~IsEmpty
  /\ result' = array[readIndex]
  /\ readIndex' = Successor(readIndex)
  /\ UNCHANGED <<writeIndex, array, header>>
  /\ purged' = FALSE

\* The entry leaves, those before it move up by one.
ShortenAtBeginning(index) ==
  /\ array' = MemMove(array, readIndex + 1, readIndex, index - readIndex)
  /\ readIndex' = Successor(readIndex)
  /\ UNCHANGED <<writeIndex, header>>

\* The entry leaves, those behind it move down by one.
ShortenAtEnd(index, moved) ==
  /\ array' = MemMove(array, index, index + 1, moved)
  /\ writeIndex' = writeIndex - 1
  /\ UNCHANGED <<readIndex, header>>

RemoveNthElement(n) ==
  /\ n < GetNumberOfElements
  /\ IF readIndex + n >= GetSize
     THEN ShortenAtEnd(NthIndex(n), writeIndex - NthIndex(n) - 1)
     ELSE ShortenAtBeginning(NthIndex(n))
  /\ UNCHANGED result
  /\ purged' = FALSE

\* The first address between from and to that holds w, or to.
Scan(w, from, to) ==
  CHOOSE i \in from..to : (i = to \/ array[i] = w)
                          /\ \A j \in from..(i - 1) : array[j] # w

Remove(w) ==
  LET wraps == readIndex > writeIndex
      upper == Scan(w, readIndex, GetSize)
      lower == Scan(w, IF wraps THEN 0 ELSE readIndex, writeIndex)
  IN /\ IF wraps /\ upper # GetSize
        THEN ShortenAtBeginning(upper)
        ELSE IF ~IsEmpty /\ lower # writeIndex
             THEN ShortenAtEnd(lower, writeIndex - lower)
             ELSE UNCHANGED bufferVars
     /\ UNCHANGED result
     /\ purged' = FALSE

-----------------------------------------------------------------------------
(***************************************************************************)
(* Blank.                                                                  *)
(***************************************************************************)

\* As in the code, the number of entries of an empty queue counts as the size
\* of its buffer.
BlankEntries ==
  LET nentries == writeIndex + GetSize - readIndex
  IN IF nentries > GetSize THEN nentries - GetSize ELSE nentries

BlankSize ==
  LET wanted == (((BlankEntries * 3) \div 2 + 1) + GetSize) \div 2
      newSize == IF wanted < 2 THEN 2 ELSE wanted
  IN IF newSize >= GetSize THEN GetSize ELSE newSize

\* Where the entries are moved to if the buffer shrinks: dst, and what part of
\* the ring moves.
BlankMove ==
  IF BlankSize = GetSize \/ (readIndex < writeIndex /\ writeIndex < BlankSize)
  THEN [dst |-> readIndex, len |-> 0, read |-> readIndex, write |-> writeIndex]
  ELSE IF readIndex < writeIndex
  THEN [dst |-> 0, len |-> BlankEntries, read |-> 0, write |-> BlankEntries]
  ELSE LET length == GetSize - readIndex
           new == BlankSize - length
       IN [dst |-> new, len |-> length, read |-> new, write |-> writeIndex]

\* Mutant: the entry after the last one is not zeroed.
UnusedOffByOne(i, r, w) ==
  IF r < w THEN i < r \/ i > w ELSE w <= i /\ i < r

\* The entries that are zeroed in a queue with the given indices.
Unused(i, r, w) ==
  IF r < w THEN i < r \/ i >= w ELSE w <= i /\ i < r

Blank ==
  LET m == BlankMove
      base == MemMove(array, m.dst, readIndex, m.len)
  IN /\ array' = [i \in 0..(BlankSize - 1) |->
                    IF Unused(i, m.read, m.write) THEN Zero ELSE base[i]]
     /\ readIndex' = m.read
     /\ writeIndex' = m.write
     /\ header' = IF BlankSize < GetSize THEN EncodeSize(header, BlankSize)
                                         ELSE header
     /\ UNCHANGED result
     /\ purged' = TRUE

-----------------------------------------------------------------------------
Init ==
  /\ readIndex = 0 /\ writeIndex = 0
  /\ array = AllocArray(TranslateSize(InitialSize))
  /\ header = EncodeHeader(TranslateSize(InitialSize))
  /\ result = None
  /\ purged = FALSE

Next ==
  \/ \E w \in Word : Enqueue(w) \/ Remove(w)
  \/ Dequeue
  \/ \E n \in 0..MaxEntries : RemoveNthElement(n)
  \/ Blank

Spec == Init /\ [][Next]_vars

-----------------------------------------------------------------------------
(***************************************************************************)
(* Properties.                                                             *)
(***************************************************************************)

\* The asserts of SetReadIndex, SetWriteIndex and Blank: the indices address
\* the buffer, the header tells its size, and the size is never 1.
LayoutOK ==
  /\ GetSize >= 2
  /\ DOMAIN array = 0..(GetSize - 1)
  /\ readIndex \in 0..(GetSize - 1) /\ writeIndex \in 0..(GetSize - 1)
  /\ \A i \in DOMAIN array : array[i] \in Word \cup {Zero, Junk}

\* Whatever the layout of the ring, the queue is first-in first-out: growing,
\* shrinking and removing neither lose nor reorder an entry.
Fifo == INSTANCE Fifo WITH entries <- Contents
IsFifo == Fifo!Spec

\* An address outside the ring, counted from the indices.
OutsideRing(i) ==
  IF readIndex <= writeIndex THEN i < readIndex \/ i >= writeIndex
                             ELSE writeIndex <= i /\ i < readIndex

NoStaleEntry == \A i \in DOMAIN array : OutsideRing(i) => array[i] = Zero

\* Before a collection Blank makes a queue that is in use forget the words
\* that left it, so that they do not stay alive.
BlankForgets == purged /\ ~IsEmpty => NoStaleEntry

=============================================================================
