-------------------------- MODULE EventsProofs --------------------------
(* The invariants of Events and AlarmsOnTime hold for all threads,         *)
(* signals, limits and file descriptors, whatever is closed, collected or  *)
(* opened again.                                                           *)
EXTENDS Events, SequenceLemmas

Kinds == [type : {"FD", "CLOSED"}, dir : {"reader", "writer"}, fd : FDs]

(* What the program and the frames of threads refer to are IODescs.       *)
DescsOK ==
    /\ descs \in Seq(Kinds)
    /\ reach \subseteq DOMAIN descs
    /\ retry \in [Threads -> {0} \cup DOMAIN descs]

DescInv == DescsOK /\ OpenIffRegistered

descVars == <<descs, keys, reach, open, retry>>

(* There are no descriptors to begin with.                                  *)
LEMMA DescInit == Init => DescInv
  BY DEF Init, DescriptorsInit, DescInv, DescsOK, OpenIffRegistered, IsOpen

(* Most steps change neither an IODesc nor who refers to it.              *)
LEMMA DescStutter == DescInv /\ UNCHANGED descVars => DescInv'
  BY DEF DescInv, DescsOK, OpenIffRegistered, IsOpen, descVars

(* A new IODesc takes a number that no open one has.                        *)
LEMMA DescNewFromFD ==
  ASSUME DescInv, NEW dir \in {"reader", "writer"}, NewFromFD(dir)
  PROVE  DescInv'
<1>1. PICK f \in FDs \ open :
        /\ descs' = Append(descs, [type |-> "FD", dir |-> dir, fd |-> f])
        /\ open' = open \cup {f}
  BY DEF NewFromFD
<1> DEFINE n == Len(descs) + 1
<1>2. /\ descs' \in Seq(Kinds)
      /\ DOMAIN descs' = DOMAIN descs \cup {n} /\ n \notin DOMAIN descs
      /\ \A d \in DOMAIN descs : descs'[d] = descs[d]
      /\ descs'[n] = [type |-> "FD", dir |-> dir, fd |-> f]
  <2>1. [type |-> "FD", dir |-> dir, fd |-> f] \in Kinds
    BY DEF Kinds
  <2> QED
    BY <1>1, <2>1 DEF DescInv, DescsOK
<1>3. DescsOK'
  BY <1>2 DEF DescInv, DescsOK, NewFromFD
<1>4. OpenIffRegistered'
  <2>1. {d \in DOMAIN descs' : IsOpen(d)'} = {d \in DOMAIN descs : IsOpen(d)} \cup {n}
    BY <1>2 DEF IsOpen
  <2>2. keys' = keys \cup {n}
    BY DEF NewFromFD
  <2>3. \A d \in DOMAIN descs : IsOpen(d) => descs[d].fd # f
    BY <1>1 DEF DescInv, OpenIffRegistered
  <2> QED
    BY <1>1, <1>2, <2>1, <2>2, <2>3 DEF DescInv, OpenIffRegistered
<1> QED
  BY <1>3, <1>4 DEF DescInv

(* Only the file descriptor of the IODesc itself is closed, and only if it *)
(* is open still.                                                         *)
LEMMA DescCloseDesc ==
  ASSUME DescInv, NEW d \in DOMAIN descs, CloseDesc(d)
  PROVE  DescInv'
<1>1. /\ DOMAIN descs' = DOMAIN descs
      /\ descs' \in Seq(Kinds)
      /\ descs'[d].type = "CLOSED"
      /\ \A e \in DOMAIN descs : e # d => descs'[e] = descs[e]
  <2> DEFINE closed == [descs[d] EXCEPT !.type = "CLOSED"]
  <2>0. descs' = [descs EXCEPT ![d].type = "CLOSED"]
    BY DEF CloseDesc
  <2>1. descs' = [descs EXCEPT ![d] = closed]
    BY <2>0
  <2>2. closed \in Kinds /\ closed.type = "CLOSED"
    <3>1. descs[d] \in Kinds
      BY DEF DescInv, DescsOK
    <3> DEFINE desc == descs[d]
    <3> HIDE DEF desc
    <3>2. desc \in Kinds => [desc EXCEPT !.type = "CLOSED"] \in Kinds
      BY DEF Kinds
    <3>3. desc \in Kinds => [desc EXCEPT !.type = "CLOSED"].type = "CLOSED"
      BY DEF Kinds
    <3> QED
      BY <3>1, <3>2, <3>3 DEF desc
  <2> HIDE DEF closed
  <2> QED
    BY <2>1, <2>2 DEF DescInv, DescsOK
<1>2. DescsOK'
  BY <1>1 DEF DescInv, DescsOK, CloseDesc
<1>3. OpenIffRegistered'
  <2>1. {e \in DOMAIN descs' : IsOpen(e)'} = {e \in DOMAIN descs : IsOpen(e)} \ {d}
    BY <1>1 DEF IsOpen
  <2>2. keys' = keys \ {d}
    BY DEF CloseDesc
  <2>3. CASE IsOpen(d)
    <3>1. open' = open \ {descs[d].fd}
      BY <2>3 DEF CloseDesc
    <3> QED
      BY <1>1, <2>1, <2>2, <2>3, <3>1 DEF DescInv, OpenIffRegistered
  <2>4. CASE ~IsOpen(d)
    <3>1. open' = open
      BY <2>4 DEF CloseDesc
    <3> QED
      BY <1>1, <2>1, <2>2, <2>4, <3>1 DEF DescInv, OpenIffRegistered
  <2> QED
    BY <2>3, <2>4
<1> QED
  BY <1>2, <1>3 DEF DescInv

(* The loop of Scheduler::Run opens and closes nothing.                     *)
LEMMA DescLoopStep ==
  ASSUME DescInv, LoopStep
  PROVE  DescInv'
<1>1. UNCHANGED descVars
  BY DEF LoopStep, Dequeue, QueueEmpty, Preempt, CollectGarbage, Poll, Block,
         EndSelect, Schedule, TestSignalStatus, HandlePendingSignals, ClearStatus,
         descriptors, system, descVars
<1> QED
  BY <1>1, DescStutter

(* Of the calls of a thread only Close closes, once.                        *)
LEMMA DescRunThread ==
  ASSUME DescInv, RunThread
  PROVE  DescInv'
<1>1. PICK t \in Threads \cup Handlers : Call(t)
  BY DEF RunThread
<1>2. CASE UNCHANGED descriptors
  BY <1>2, DescStutter DEF descriptors, system, descVars
<1>3. ASSUME t \in Threads, NEW d \in Reachable \ {0}, ReadOrWrite(t, d)
      PROVE  DescInv'
  <2>1. d \in DOMAIN descs
    BY DEF DescInv, DescsOK, Reachable
  <2>2. retry' \in [Threads -> {0} \cup DOMAIN descs]
    BY <1>3, <2>1 DEF DescInv, DescsOK, ReadOrWrite
  <2>3. UNCHANGED <<descs, keys, reach, open>>
    BY <1>3 DEF ReadOrWrite
  <2> QED
    BY <2>2, <2>3 DEF DescInv, DescsOK, OpenIffRegistered, IsOpen
<1>4. CASE WaitForDesc(t)
  BY <1>4, DescStutter DEF WaitForDesc, system, descVars
<1>5. CASE \E dir \in {"reader", "writer"} : NewFromFD(dir)
  BY <1>5, DescNewFromFD
<1>6. ASSUME NEW d \in reach,
             ReadOrWriteNonblocking(t, d) \/ DoBlock(t, d) \/ WaitConnected(t, d)
      PROVE  DescInv'
  BY <1>6, DescStutter DEF ReadOrWriteNonblocking, DoBlock, WaitConnected, system, descVars
<1>7. ASSUME NEW d \in reach, Close(d)
      PROVE  DescInv'
  <2>1. d \in DOMAIN descs
    BY DEF DescInv, DescsOK
  <2> QED
    BY <1>7, <2>1, DescCloseDesc DEF Close
<1>8. ASSUME NEW d \in reach, Forget(d)
      PROVE  DescInv'
  BY <1>8 DEF Forget, system, DescInv, DescsOK, OpenIffRegistered, IsOpen
<1> QED
  BY <1>1, <1>2, <1>3, <1>4, <1>5, <1>6, <1>7, <1>8 DEF Call

(* The finalization set closes what the program has lost, once.             *)
LEMMA DescFinalize ==
  ASSUME DescInv, FinalizeSome
  PROVE  DescInv'
  BY DescCloseDesc DEF FinalizeSome, Finalize

(* Ticks, signals and readiness open and close nothing.                     *)
LEMMA DescOutside ==
  ASSUME DescInv, Outside
  PROVE  DescInv'
<1>1. UNCHANGED descVars
  BY DEF Outside, BecomeReady, descriptors, system, descVars
<1> QED
  BY <1>1, DescStutter

(* A thread that ends leaves its descriptors to the finalization set.       *)
LEMMA DescTerminate ==
  ASSUME DescInv, Terminate
  PROVE  DescInv'
  BY DescStutter DEF Terminate, descriptors, system, descVars

(* Every step keeps the first invariant.                                    *)
LEMMA DescNext == DescInv /\ [Next]_vars => DescInv'
<1>1. CASE UNCHANGED vars
  BY <1>1, DescStutter DEF vars, descriptors, system, descVars
<1>2. ASSUME DescInv, Next
      PROVE  DescInv'
  BY <1>2, DescLoopStep, DescRunThread, DescFinalize, DescOutside, DescTerminate DEF Next
<1> QED
  BY <1>1, <1>2

-----------------------------------------------------------------------------
(***************************************************************************)
(* The sets of IOHandler: a file descriptor has one entry, and a thread     *)
(* waits in one of them, once.                                             *)
(***************************************************************************)
Entry == [fd : FDs, waiters : Seq(Threads)]

WaitsFor(set, u, g) == \E e \in Range(set) : e.fd = g /\ u \in Range(e.waiters)
FDsOf(set) == {e.fd : e \in Range(set)}

SetOK(set) ==
    /\ set \in Seq(Entry)
    /\ \A i, j \in DOMAIN set : set[i].fd = set[j].fd => i = j
    /\ \A e \in Range(set) : IsInjective(e.waiters)
    /\ \A u, g, h : WaitsFor(set, u, g) /\ WaitsFor(set, u, h) => g = h

(* An entry of a set is a file descriptor and the threads that wait.        *)
LEMMA EntryIs ==
    /\ \A e \in Entry : e.fd \in FDs /\ e.waiters \in Seq(Threads)
    /\ \A f \in FDs, w \in Seq(Threads) :
          /\ [fd |-> f, waiters |-> w] \in Entry
          /\ [fd |-> f, waiters |-> w].fd = f /\ [fd |-> f, waiters |-> w].waiters = w
    /\ \A e \in Entry, w \in Seq(Threads) :
          LET changed == [e EXCEPT !.waiters = w]
          IN  changed \in Entry /\ changed.fd = e.fd /\ changed.waiters = w
  BY DEF Entry

(* Those who wait in a set are threads, and for its entries.               *)
LEMMA WaitsIs ==
  ASSUME NEW set, SetOK(set), NEW u, NEW g, WaitsFor(set, u, g)
  PROVE  u \in Threads /\ g \in FDs /\ g \in FDsOf(set)
<1>1. PICK e \in Range(set) : e.fd = g /\ u \in Range(e.waiters)
  BY DEF WaitsFor
<1>2. e \in Entry
  BY <1>1, RangeIn DEF SetOK
<1> QED
  BY <1>1, <1>2, EntryIs, RangeIn DEF FDsOf

(* A set without some of its entries.                                      *)
LEMMA FewerEntries ==
  ASSUME NEW set, SetOK(set), NEW fs, NEW rest \in Seq(Entry),
         Range(rest) = {e \in Range(set) : e.fd \in fs}, IsInjective(rest)
  PROVE  /\ SetOK(rest) /\ FDsOf(rest) = FDsOf(set) \cap fs
         /\ \A u, g : WaitsFor(rest, u, g) <=> WaitsFor(set, u, g) /\ g \in fs
<1>1. \A d, e \in Range(set) : d.fd = e.fd => d = e
  BY DEF SetOK, Range
<1>2. \A i, j \in DOMAIN rest : rest[i].fd = rest[j].fd => i = j
  <2>1. \A i \in DOMAIN rest : rest[i] \in Range(set)
    BY DEF Range
  <2> QED
    BY <1>1, <2>1 DEF IsInjective
<1>3. \A u, g : WaitsFor(rest, u, g) <=> WaitsFor(set, u, g) /\ g \in fs
  BY DEF WaitsFor
<1>4. FDsOf(rest) = FDsOf(set) \cap fs
  BY DEF FDsOf
<1> QED
  BY <1>2, <1>3, <1>4 DEF SetOK

(* Set::Schedule and Set::Remove: what stays and what leaves.              *)
LEMMA ScheduleIs ==
  ASSUME NEW set, SetOK(set), NEW fs
  PROVE  /\ SetOK(Left(set, fs)) /\ SetOK(Gone(set, fs))
         /\ FDsOf(Left(set, fs)) = FDsOf(set) \ fs
         /\ \A u, g : /\ WaitsFor(Left(set, fs), u, g) <=> WaitsFor(set, u, g) /\ g \notin fs
                      /\ WaitsFor(Gone(set, fs), u, g) <=> WaitsFor(set, u, g) /\ g \in fs
<1> DEFINE stay == {e \in Range(set) : e.fd \notin fs}
           go == {e \in Range(set) : e.fd \in fs}
<1>1. set \in Seq(Entry) /\ IsInjective(set)
  BY DEF SetOK, IsInjective
<1>2. /\ Left(set, fs) = Filter(set, stay) /\ Gone(set, fs) = Filter(set, go)
      /\ Range(set) \cap stay = stay /\ Range(set) \cap go = go
  BY DEF Left, Gone
<1>3. /\ Left(set, fs) \in Seq(Entry) /\ IsInjective(Left(set, fs))
      /\ Range(Left(set, fs)) = stay
      /\ Gone(set, fs) \in Seq(Entry) /\ IsInjective(Gone(set, fs))
      /\ Range(Gone(set, fs)) = go
  <2> HIDE DEF stay, go
  <2>1. \A w : /\ Filter(set, w) \in Seq(Entry) /\ IsInjective(Filter(set, w))
               /\ Range(Filter(set, w)) = Range(set) \cap w
    BY <1>1, FilterRange
  <2> QED
    BY <1>2, <2>1
<1>4. PICK others : others = FDs \ fs
  OBVIOUS
<1>5. \A e \in Range(set) : e.fd \in FDs
  BY <1>1, RangeIn, EntryIs
<1>6. Range(Left(set, fs)) = {e \in Range(set) : e.fd \in others}
  BY <1>3, <1>4, <1>5
<1>7. /\ SetOK(Left(set, fs)) /\ FDsOf(Left(set, fs)) = FDsOf(set) \cap others
      /\ \A u, g : WaitsFor(Left(set, fs), u, g) <=> WaitsFor(set, u, g) /\ g \in others
  BY <1>3, <1>6, FewerEntries
<1>8. /\ SetOK(Gone(set, fs))
      /\ \A u, g : WaitsFor(Gone(set, fs), u, g) <=> WaitsFor(set, u, g) /\ g \in fs
  BY <1>3, FewerEntries
<1>9. FDsOf(set) \subseteq FDs /\ \A u, g : WaitsFor(set, u, g) => g \in FDs
  BY <1>5 DEF FDsOf, WaitsFor
<1> QED
  BY <1>4, <1>7, <1>8, <1>9

(* The entry that Set::Add and Set::Remove look for.                        *)
LEMMA FirstEntry ==
  ASSUME NEW set, SetOK(set), NEW f, NEW at, at = Position(set, f)
  PROVE  \/ at = 0 /\ f \notin FDsOf(set)
         \/ at \in DOMAIN set /\ set[at].fd = f
<1> DEFINE I == {i \in 1..Len(set) : set[i].fd = f}
<1>1. at = IF I # {} THEN Min(I) ELSE 0
  BY DEF Position, SelectInSeq
<1>2. DOMAIN set = 1..Len(set) /\ I \in SUBSET Nat
  BY DEF SetOK
<1>3. CASE I = {}
  BY <1>1, <1>2, <1>3 DEF FDsOf, Range
<1>4. CASE I # {}
  <2> HIDE DEF I
  <2>1. \E x \in I : \A y \in I : x <= y
    BY <1>2, <1>4, Least
  <2>2. Min(I) \in I
    BY <2>1 DEF Min
  <2> QED
    BY <1>1, <1>2, <1>4, <2>2 DEF I
<1> QED
  BY <1>3, <1>4

(* Set::Remove takes away the entry of a file descriptor and nothing else.  *)
LEMMA RemoveEntryIs ==
  ASSUME NEW set, SetOK(set), NEW f
  PROVE  /\ SetOK(RemoveEntry(set, f)) /\ FDsOf(RemoveEntry(set, f)) = FDsOf(set) \ {f}
         /\ \A u, g : WaitsFor(RemoveEntry(set, f), u, g) <=> WaitsFor(set, u, g) /\ g # f
<1>1. PICK at : at = Position(set, f)
  OBVIOUS
<1>2. RemoveEntry(set, f) = IF at = 0 THEN set ELSE RemoveAt(set, at)
  BY <1>1 DEF RemoveEntry
<1>3. set \in Seq(Entry) /\ \A i, j \in DOMAIN set : set[i].fd = set[j].fd => i = j
  BY DEF SetOK
<1>4. CASE at = 0 /\ f \notin FDsOf(set)
  BY <1>2, <1>4, WaitsIs
<1>5. CASE at \in DOMAIN set /\ set[at].fd = f
  <2>1. PICK n \in Nat : n = Len(set)
    BY <1>3
  <2>2. at \in 1..n /\ at # 0 /\ DOMAIN set = 1..n
    BY <1>3, <1>5, <2>1
  <2>3. PICK rest : rest = RemoveAt(set, at)
    OBVIOUS
  <2>4. /\ rest \in Seq(Entry) /\ DOMAIN rest = 1..(n - 1)
        /\ \A x \in 1..(n - 1) : rest[x] = IF x < at THEN set[x] ELSE set[x + 1]
    BY <1>3, <2>1, <2>2, <2>3, RemoveAtIs
  <2>5. ASSUME NEW x \in 1..(n - 1)
        PROVE  rest[x] \in Range(set) /\ rest[x].fd # f
    <3>1. x \in 1..n /\ x + 1 \in 1..n
      BY <2>1
    <3>2. \A y \in 1..n : set[y] \in Range(set) /\ (y # at => set[y].fd # f)
      BY <1>3, <1>5, <2>2 DEF Range
    <3> QED
      BY <2>2, <2>4, <3>1, <3>2
  <2>6. ASSUME NEW y \in 1..n, set[y].fd # f
        PROVE  set[y] \in Range(rest)
    <3>1. CASE y < at
      <4>1. y \in 1..(n - 1) /\ rest[y] = set[y]
        BY <2>2, <2>4, <3>1
      <4> QED
        BY <2>4, <4>1 DEF Range
    <3>2. CASE at < y
      <4>1. y - 1 \in 1..(n - 1) /\ ~(y - 1 < at) /\ (y - 1) + 1 = y
        BY <2>2, <3>2
      <4>2. rest[y - 1] = set[y]
        BY <2>4, <4>1
      <4> QED
        BY <2>4, <4>1, <4>2 DEF Range
    <3>3. y # at
      BY <1>5, <2>6
    <3> QED
      BY <2>2, <3>1, <3>2, <3>3
  <2>7. IsInjective(rest)
    <3>1. ASSUME NEW x \in 1..(n - 1), NEW y \in 1..(n - 1), rest[x] = rest[y]
          PROVE  x = y
      <4>1. PICK j \in 1..n : rest[x] = set[j] /\ j = IF x < at THEN x ELSE x + 1
        BY <2>1, <2>4
      <4>2. PICK k \in 1..n : rest[y] = set[k] /\ k = IF y < at THEN y ELSE y + 1
        BY <2>1, <2>4
      <4>3. j = k
        BY <1>3, <2>2, <3>1, <4>1, <4>2
      <4> QED
        BY <2>2, <4>1, <4>2, <4>3
    <3> QED
      BY <2>4, <3>1 DEF IsInjective
  <2>8. PICK others : others = FDs \ {f}
    OBVIOUS
  <2>9. Range(rest) = {e \in Range(set) : e.fd \in others}
    <3>1. \A e \in Range(set) : e.fd \in FDs
      BY <1>3, RangeIn, EntryIs
    <3>2. \A e \in Range(rest) : e \in Range(set) /\ e.fd # f
      BY <2>4, <2>5 DEF Range
    <3>3. \A e \in Range(set) : e.fd # f => e \in Range(rest)
      BY <2>2, <2>6 DEF Range
    <3> QED
      BY <2>8, <3>1, <3>2, <3>3
  <2>10. /\ SetOK(rest) /\ FDsOf(rest) = FDsOf(set) \cap others
         /\ \A u, g : WaitsFor(rest, u, g) <=> WaitsFor(set, u, g) /\ g \in others
    BY <2>4, <2>7, <2>9, FewerEntries
  <2>11. FDsOf(set) \subseteq FDs
    BY <1>3, RangeIn, EntryIs DEF FDsOf
  <2> QED
    BY <1>2, <2>2, <2>3, <2>8, <2>10, <2>11, WaitsIs
<1>6. (at = 0 /\ f \notin FDsOf(set)) \/ (at \in DOMAIN set /\ set[at].fd = f)
  BY <1>1, FirstEntry
<1> QED
  BY <1>4, <1>5, <1>6

(* The threads that wait in a set, one after the other.                     *)
LEMMA WaitersIs ==
  ASSUME NEW set, SetOK(set)
  PROVE  /\ Waiters(set) \in Seq(Threads) /\ IsInjective(Waiters(set))
         /\ \A u : u \in Range(Waiters(set)) <=> \E g : WaitsFor(set, u, g)
<1> DEFINE ss == [i \in DOMAIN set |-> set[i].waiters]
<1>1. set \in Seq(Entry) /\ \A i \in DOMAIN set : set[i] \in Entry /\ set[i] \in Range(set)
  BY DEF SetOK, Range
<1>2. \A i \in DOMAIN set : set[i].waiters \in Seq(Threads) /\ IsInjective(set[i].waiters)
  BY <1>1, EntryIs DEF SetOK
<1>3. DOMAIN ss = DOMAIN set /\ \A i \in DOMAIN set : ss[i] = set[i].waiters
  OBVIOUS
<1>4. ss \in Seq(Seq(Threads))
  <2>1. DOMAIN set = 1..Len(set) /\ Len(set) \in Nat
    BY <1>1
  <2>2. ss \in [1..Len(set) -> Seq(Threads)]
    BY <1>2, <2>1
  <2> QED
    BY <2>1, <2>2
<1> HIDE DEF ss
<1>5. Waiters(set) = FlattenSeq(ss)
  BY DEF Waiters, ss
<1>6. ASSUME NEW i \in DOMAIN set, NEW j \in DOMAIN set, NEW u, u \in Range(ss[i]), u \in Range(ss[j])
      PROVE  i = j
  <2>1. WaitsFor(set, u, set[i].fd) /\ WaitsFor(set, u, set[j].fd)
    BY <1>1, <1>3, <1>6 DEF WaitsFor
  <2> QED
    BY <2>1 DEF SetOK
<1>7. OnceInAll(ss)
  BY <1>2, <1>3, <1>6 DEF OnceInAll
<1>8. /\ FlattenSeq(ss) \in Seq(Threads) /\ IsInjective(FlattenSeq(ss))
      /\ \A u : u \in Range(FlattenSeq(ss)) <=> \E i \in DOMAIN ss : u \in Range(ss[i])
  BY <1>4, <1>7, FlattenRange
<1>9. \A u : (\E i \in DOMAIN ss : u \in Range(ss[i])) <=> \E g : WaitsFor(set, u, g)
  <2>1. \A e \in Range(set) : \E i \in DOMAIN set : e = set[i]
    BY DEF Range
  <2> QED
    BY <1>1, <1>3, <2>1 DEF WaitsFor
<1> QED
  BY <1>5, <1>8, <1>9

(* Set::Add: one more thread waits.                                         *)
LEMMA AddIs ==
  ASSUME NEW set, SetOK(set), NEW f \in FDs, NEW t \in Threads, \A g : ~WaitsFor(set, t, g)
  PROVE  /\ SetOK(Add(set, f, t)) /\ FDsOf(Add(set, f, t)) = FDsOf(set) \cup {f}
         /\ \A u, g : WaitsFor(Add(set, f, t), u, g) <=> WaitsFor(set, u, g) \/ (u = t /\ g = f)
<1>1. PICK at : at = Position(set, f)
  OBVIOUS
<1>2. PICK more : more = Add(set, f, t)
  OBVIOUS
<1>3. /\ set \in Seq(Entry) /\ \A i, j \in DOMAIN set : set[i].fd = set[j].fd => i = j
      /\ \A i \in DOMAIN set : set[i] \in Entry /\ set[i] \in Range(set) /\ IsInjective(set[i].waiters)
  BY DEF SetOK, Range
<1>4. \A e \in Range(set) : \E i \in DOMAIN set : e = set[i]
  BY DEF Range
<1>5. ASSUME NEW n, NEW e \in Entry, e.fd = f, IsInjective(e.waiters),
             \A u : u \in Range(e.waiters) <=> u = t \/ WaitsFor(set, u, f),
             more \in Seq(Entry), DOMAIN more = DOMAIN set \cup {n}, more[n] = e,
             \A i \in DOMAIN set : i # n => more[i] = set[i],
             \A i \in DOMAIN set : set[i].fd = f <=> i = n
      PROVE  /\ SetOK(more) /\ FDsOf(more) = FDsOf(set) \cup {f}
             /\ \A u, g : WaitsFor(more, u, g) <=> WaitsFor(set, u, g) \/ (u = t /\ g = f)
  <2>1. \A d : d \in Range(more) <=> d = e \/ (d \in Range(set) /\ d.fd # f)
    <3>1. ASSUME NEW i \in DOMAIN more
          PROVE  more[i] = e \/ (more[i] \in Range(set) /\ more[i].fd # f)
      BY <1>3, <1>5
    <3>2. e \in Range(more)
      BY <1>5 DEF Range
    <3>3. ASSUME NEW d \in Range(set), d.fd # f
          PROVE  d \in Range(more)
      <4>1. PICK i \in DOMAIN set : d = set[i]
        BY <1>4
      <4>2. i \in DOMAIN more /\ more[i] = d
        BY <1>5, <3>3, <4>1
      <4> QED
        BY <4>2 DEF Range
    <3>4. \A d \in Range(more) : \E i \in DOMAIN more : d = more[i]
      BY DEF Range
    <3> QED
      BY <3>1, <3>2, <3>3, <3>4
  <2>2. \A u, g : WaitsFor(more, u, g) <=> WaitsFor(set, u, g) \/ (u = t /\ g = f)
    <3> SUFFICES ASSUME NEW u, NEW g
                 PROVE  WaitsFor(more, u, g) <=> WaitsFor(set, u, g) \/ (u = t /\ g = f)
      OBVIOUS
    <3>1. CASE g = f
      <4>1. WaitsFor(more, u, g) <=> u \in Range(e.waiters)
        BY <1>5, <2>1, <3>1 DEF WaitsFor
      <4> QED
        BY <1>5, <3>1, <4>1
    <3>2. CASE g # f
      BY <1>5, <2>1, <3>2 DEF WaitsFor
    <3> QED
      BY <3>1, <3>2
  <2>3. FDsOf(more) = FDsOf(set) \cup {f}
    BY <1>5, <2>1 DEF FDsOf
  <2>4. \A i, j \in DOMAIN more : more[i].fd = more[j].fd => i = j
    BY <1>3, <1>5
  <2>5. \A d \in Range(more) : IsInjective(d.waiters)
    BY <1>5, <2>1 DEF SetOK
  <2>6. \A u, g, h : WaitsFor(more, u, g) /\ WaitsFor(more, u, h) => g = h
    BY <2>2 DEF SetOK
  <2> QED
    BY <1>5, <2>2, <2>3, <2>4, <2>5, <2>6 DEF SetOK
<1>6. CASE at = 0 /\ f \notin FDsOf(set)
  <2>1. PICK e : e = [fd |-> f, waiters |-> <<t>>]
    OBVIOUS
  <2>2. more = Append(set, e)
    BY <1>1, <1>2, <1>6, <2>1 DEF Add
  <2>3. <<t>> \in Seq(Threads) /\ IsInjective(<<t>>) /\ Range(<<t>>) = {t}
    BY DEF IsInjective, Range
  <2>4. e \in Entry /\ e.fd = f /\ e.waiters = <<t>>
    BY <2>1, <2>3, EntryIs
  <2>5. PICK n : n = Len(set) + 1
    OBVIOUS
  <2>6. /\ more \in Seq(Entry) /\ DOMAIN more = DOMAIN set \cup {n} /\ more[n] = e
        /\ n \notin DOMAIN set /\ \A i \in DOMAIN set : more[i] = set[i]
    BY <1>3, <2>2, <2>4, <2>5
  <2>7. \A i \in DOMAIN set : set[i].fd # f
    BY <1>3, <1>6 DEF FDsOf
  <2>8. \A u : ~WaitsFor(set, u, f)
    BY <1>6 DEF WaitsFor, FDsOf
  <2>9. \A u : u \in Range(e.waiters) <=> u = t \/ WaitsFor(set, u, f)
    BY <2>3, <2>4, <2>8
  <2>10. \A i \in DOMAIN set : set[i].fd = f <=> i = n
    BY <2>6, <2>7
  <2> QED
    BY <1>2, <1>5, <2>3, <2>4, <2>6, <2>9, <2>10
<1>7. CASE at \in DOMAIN set /\ set[at].fd = f
  <2>1. PICK old : old = set[at]
    OBVIOUS
  <2>2. /\ old \in Entry /\ old.fd = f /\ IsInjective(old.waiters) /\ old \in Range(set)
        /\ old.waiters \in Seq(Threads)
    BY <1>3, <1>7, <2>1, EntryIs
  <2>3. PICK w : w = Append(old.waiters, t)
    OBVIOUS
  <2>4. \A u : WaitsFor(set, u, f) <=> u \in Range(old.waiters)
    <3>1. \A e \in Range(set) : e.fd = f <=> e = old
      BY <1>3, <1>4, <1>7, <2>1, <2>2
    <3> QED
      BY <2>2, <3>1 DEF WaitsFor
  <2>5. w \in Seq(Threads) /\ Range(w) = Range(old.waiters) \cup {t} /\ IsInjective(w)
    BY <2>2, <2>3, <2>4, AppendRange
  <2>6. PICK e : e = [old EXCEPT !.waiters = w]
    OBVIOUS
  <2>7. e \in Entry /\ e.fd = f /\ e.waiters = w
    BY <2>2, <2>5, <2>6, EntryIs
  <2>8. more = [set EXCEPT ![at] = e]
    <3>1. at # 0
      BY <1>3, <1>7
    <3> QED
      BY <1>1, <1>2, <2>1, <2>3, <2>6, <3>1 DEF Add
  <2>9. /\ more \in Seq(Entry) /\ DOMAIN more = DOMAIN set \cup {at} /\ more[at] = e
        /\ \A i \in DOMAIN set : i # at => more[i] = set[i]
    <3>1. DOMAIN set = 1..Len(set) /\ Len(set) \in Nat /\ set \in [1..Len(set) -> Entry]
      BY <1>3
    <3>2. more \in [1..Len(set) -> Entry]
      BY <2>7, <2>8, <3>1
    <3>3. more \in Seq(Entry)
      BY <3>1, <3>2
    <3>4. DOMAIN more = DOMAIN set \cup {at}
      BY <1>7, <2>8
    <3> QED
      BY <1>7, <2>8, <3>3, <3>4
  <2>10. \A i \in DOMAIN set : set[i].fd = f <=> i = at
    BY <1>3, <1>7
  <2>11. \A u : u \in Range(e.waiters) <=> u = t \/ WaitsFor(set, u, f)
    BY <2>4, <2>5, <2>7
  <2> QED
    BY <1>2, <1>5, <2>5, <2>7, <2>9, <2>10, <2>11
<1> QED
  BY <1>1, <1>6, <1>7, FirstEntry

-----------------------------------------------------------------------------
(***************************************************************************)
(* Where threads are. ThreadsAccounted counts occurrences; the invariant    *)
(* says that a thread is in one place, in one position of it.              *)
(***************************************************************************)
Everyone == Threads \cup Handlers
Alive == (Threads \cup called) \ terminated

LoopOK ==
    /\ queue \in Seq(Everyone) /\ IsInjective(queue)
    /\ current \in Everyone \cup {NoThread} /\ (current # NoThread <=> pc = "run")
    /\ terminated \subseteq Threads \cup called
    /\ limit \in Limits

HandlersOK ==
    /\ called \subseteq Handlers
    /\ handlers \in [SignalNames -> Seq(Handlers)]
    /\ \A s \in SignalNames : /\ IsInjective(handlers[s])
                              /\ \A h \in Range(handlers[s]) : h \notin called
    /\ \A r, s \in SignalNames : \A h : h \in Range(handlers[r]) /\ h \in Range(handlers[s]) => r = s

AlarmsOK ==
    /\ now \in Nat /\ due \in Seq(Nat)
    /\ alarms \in Seq(DOMAIN due) /\ IsInjective(alarms)
    /\ sleepers \in Seq(Seq(Threads)) /\ Len(sleepers) = Len(due)
    /\ \A a \in Range(alarms) : IsInjective(sleepers[a])
    /\ \A a, b \in Range(alarms) : \A u : u \in Range(sleepers[a]) /\ u \in Range(sleepers[b]) => a = b

SetsOK == DOMAIN sets = SetNames /\ \A s \in SetNames : SetOK(sets[s])

Asleep == {u \in Threads : \E a \in Range(alarms) : u \in Range(sleepers[a])}

PlaceNames == {"queue", "current", "alarms"} \cup SetNames
Where ==
    [p \in PlaceNames |->
       IF p = "queue" THEN Range(queue)
       ELSE IF p = "current" THEN {current} \ {NoThread}
       ELSE IF p = "alarms" THEN Asleep
       ELSE {u \in Threads : \E g : WaitsFor(sets[p], u, g)}]

Accounted(at, alive) ==
    /\ \A p, q \in PlaceNames : \A u : u \in at[p] /\ u \in at[q] => p = q
    /\ \A u : u \in alive <=> \E p \in PlaceNames : u \in at[p]

PlacesInv == LoopOK /\ HandlersOK /\ AlarmsOK /\ SetsOK /\ Accounted(Where, Alive)

(* What the parameters are.                                                *)
LEMMA NamesAre ==
  /\ NoThread \notin Everyone /\ Threads \cap Handlers = {} /\ NoThread = 0
  /\ \A l \in Limits : l.handlers \in 0..MaxHandlers
  /\ IsFiniteSet(Threads) /\ IsFiniteSet(SignalNames)
<1>1. 0 \notin Handlers
  BY ThreadsAssumption DEF ThreadsAssumption, Handlers
<1>2. \A l \in [alarms : Nat, handlers : 0..MaxHandlers, descs : Nat, time : Nat] :
        l.handlers \in 0..MaxHandlers
  OBVIOUS
<1> QED
  BY <1>1, <1>2, ThreadsAssumption, SignalsAssumption
  DEF ThreadsAssumption, SignalsAssumption, NoThread, Everyone

(* The places, written out.                                                 *)
LEMMA WhereIs ==
  /\ Where["queue"] = Range(queue) /\ Where["current"] = {current} \ {NoThread}
  /\ Where["alarms"] = Asleep
  /\ \A s \in SetNames : Where[s] = {u \in Threads : \E g : WaitsFor(sets[s], u, g)}
  BY DEF Where, PlaceNames, SetNames

(* The places after a step, written out.                                    *)
LEMMA WhereNext ==
  (/\ Where["queue"] = Range(queue) /\ Where["current"] = {current} \ {NoThread}
   /\ Where["alarms"] = Asleep
   /\ \A s \in SetNames : Where[s] = {u \in Threads : \E g : WaitsFor(sets[s], u, g)})'
  BY WhereIs, PTL

(* A thread that is in one place is in no other.                           *)
LEMMA Elsewhere ==
  ASSUME NEW at, NEW alive, Accounted(at, alive), NEW p \in PlaceNames, NEW u \in at[p]
  PROVE  u \in alive /\ \A q \in PlaceNames : q # p => u \notin at[q]
  BY DEF Accounted

(* Threads go to a place, from others or from nowhere.                      *)
LEMMA MoveMany ==
  ASSUME NEW at, NEW alive, Accounted(at, alive), NEW M, NEW r \in PlaceNames, NEW to,
         \A u : u \in to[r] <=> u \in at[r] \/ u \in M,
         \A q \in PlaceNames : q # r => \A u : u \in to[q] <=> u \in at[q] /\ u \notin M
  PROVE  Accounted(to, alive \cup M)
  BY DEF Accounted

(* One thread goes from a place to another.                                 *)
LEMMA MoveOne ==
  ASSUME NEW at, NEW alive, Accounted(at, alive), NEW p \in PlaceNames, NEW r \in PlaceNames,
         NEW u \in at[p], p # r, NEW to,
         to[p] = at[p] \ {u}, to[r] = at[r] \cup {u},
         \A q \in PlaceNames \ {p, r} : to[q] = at[q]
  PROVE  Accounted(to, alive)
<1>1. \A q \in PlaceNames : q # p => u \notin at[q]
  BY Elsewhere
<1>2. Accounted(to, alive \cup {u})
  <2>1. \A q \in PlaceNames : q # r => \A v : v \in to[q] <=> v \in at[q] /\ v \notin {u}
    BY <1>1
  <2> QED
    BY <2>1, MoveMany
<1>3. alive \cup {u} = alive
  BY Elsewhere
<1> QED
  BY <1>2, <1>3

(* A step that moves nobody.                                                *)
placeVars == <<queue, current, terminated, limit, called, handlers, alarms, due, sleepers, sets>>

(* A step that leaves queues, alarms, handlers and sets alone moves nobody. *)
LEMMA NobodyMoves ==
  ASSUME PlacesInv, UNCHANGED placeVars, pc' = "run" <=> pc = "run", now' \in Nat
  PROVE  PlacesInv'
<1>1. Where' = Where /\ Alive' = Alive
  BY DEF placeVars, Where, Alive, Asleep
<1>2. LoopOK'
  BY DEF PlacesInv, LoopOK, placeVars
<1>3. HandlersOK' /\ AlarmsOK' /\ SetsOK'
  BY DEF PlacesInv, HandlersOK, AlarmsOK, SetsOK, placeVars
<1>4. Accounted(Where, Alive)'
  BY <1>1 DEF PlacesInv
<1> QED
  BY <1>2, <1>3, <1>4 DEF PlacesInv

-----------------------------------------------------------------------------
(***************************************************************************)
(* The steps of the loop between the run queue and the thread that runs.    *)
(***************************************************************************)

(* Steps of the loop that change nothing but the queue, the thread that     *)
(* runs and those that have terminated.                                    *)
elsewhere == <<limit, called, handlers, alarms, due, sleepers, now, sets>>

(* A step that moves threads between the run queue and the processor only.  *)
LEMMA LoopMoves ==
  ASSUME PlacesInv, LoopOK', UNCHANGED elsewhere,
         Accounted(Where', Alive')
  PROVE  PlacesInv'
<1>1. HandlersOK' /\ AlarmsOK' /\ SetsOK'
  BY DEF PlacesInv, HandlersOK, AlarmsOK, SetsOK, elsewhere
<1> QED
  BY <1>1 DEF PlacesInv

(* The threads that are elsewhere are so after such a step.                 *)
LEMMA OthersStay ==
  ASSUME UNCHANGED elsewhere
  PROVE  \A q \in PlaceNames \ {"queue", "current"} : Where'[q] = Where[q]
<1>1. Where'["alarms"] = Where["alarms"]
  BY WhereIs, WhereNext DEF elsewhere, Asleep
<1>2. \A s \in SetNames : Where'[s] = Where[s]
  BY WhereIs, WhereNext DEF elsewhere
<1> QED
  BY <1>1, <1>2 DEF PlaceNames

(* Who waits for descriptors.                                              *)
LEMMA SetsStay ==
  ASSUME UNCHANGED sets
  PROVE  \A s \in SetNames : Where'[s] = Where[s]
  BY WhereIs, WhereNext

(* The thread that is dequeued runs.                                        *)
LEMMA PlaceDequeue ==
  ASSUME PlacesInv, Dequeue
  PROVE  PlacesInv'
<1>1. /\ pc = "dequeue" /\ pc' = "run" /\ queue # <<>> /\ queue' = Tail(queue)
      /\ current' = Head(queue) /\ UNCHANGED <<terminated, limit>> /\ UNCHANGED elsewhere
  BY DEF Dequeue, signals, timers, descriptors, elsewhere
<1>2. /\ queue \in Seq(Everyone) /\ IsInjective(queue) /\ current = NoThread
      /\ Accounted(Where, Alive)
  BY <1>1 DEF PlacesInv, LoopOK
<1>3. PICK u, rest : u = Head(queue) /\ rest = Tail(queue)
  OBVIOUS
<1>4. /\ rest \in Seq(Everyone) /\ IsInjective(rest) /\ u \in Everyone
      /\ Range(queue) = {u} \cup Range(rest) /\ u \notin Range(rest)
  BY <1>1, <1>2, <1>3, TailRange
<1>5. LoopOK'
  BY <1>1, <1>3, <1>4, NamesAre DEF PlacesInv, LoopOK, elsewhere
<1>6. /\ Where["queue"] = Range(queue) /\ Where'["queue"] = Range(rest)
      /\ Where["current"] = {} /\ Where'["current"] = {u}
  BY <1>1, <1>2, <1>3, <1>4, NamesAre, WhereIs, WhereNext
<1>7. Alive' = Alive
  BY <1>1 DEF Alive, elsewhere
<1>8. Accounted(Where', Alive)
  <2>1. /\ u \in Where["queue"] /\ Where'["queue"] = Where["queue"] \ {u}
        /\ Where'["current"] = Where["current"] \cup {u}
    BY <1>4, <1>6
  <2>2. "queue" \in PlaceNames /\ "current" \in PlaceNames
    BY DEF PlaceNames
  <2> QED
    BY <1>1, <1>2, <2>1, <2>2, OthersStay, MoveOne
<1> QED
  BY <1>1, <1>5, <1>7, <1>8, LoopMoves

(* The thread that is preempted is enqueued.                                *)
LEMMA PlacePreempt ==
  ASSUME PlacesInv, Preempt
  PROVE  PlacesInv'
<1>1. /\ pc = "run" /\ pc' = "gc" /\ queue' = Append(queue, current)
      /\ current' = NoThread /\ UNCHANGED <<terminated, limit>> /\ UNCHANGED elsewhere
  BY DEF Preempt, Leave, signals, timers, descriptors, elsewhere
<1>2. /\ queue \in Seq(Everyone) /\ IsInjective(queue) /\ current \in Everyone /\ current # NoThread
      /\ Accounted(Where, Alive)
  BY <1>1, NamesAre DEF PlacesInv, LoopOK
<1>3. /\ Where["queue"] = Range(queue) /\ Where["current"] = {current}
      /\ Where'["queue"] = Range(queue') /\ Where'["current"] = {}
  BY <1>1, <1>2, WhereIs, WhereNext
<1>4. "queue" \in PlaceNames /\ "current" \in PlaceNames
  BY DEF PlaceNames
<1>5. current \notin Range(queue)
  BY <1>2, <1>3, <1>4, Elsewhere
<1>6. /\ queue' \in Seq(Everyone) /\ IsInjective(queue')
      /\ Range(queue') = Range(queue) \cup {current}
  BY <1>1, <1>2, <1>5, AppendRange
<1>7. LoopOK'
  BY <1>1, <1>6 DEF PlacesInv, LoopOK, elsewhere
<1>8. Alive' = Alive
  BY <1>1 DEF Alive, elsewhere
<1>9. Accounted(Where', Alive)
  <2>1. /\ current \in Where["current"] /\ Where'["current"] = Where["current"] \ {current}
        /\ Where'["queue"] = Where["queue"] \cup {current}
    BY <1>3, <1>6
  <2> QED
    BY <1>1, <1>2, <1>4, <2>1, OthersStay, MoveOne
<1> QED
  BY <1>1, <1>7, <1>8, <1>9, LoopMoves

(* The thread that terminates is nowhere.                                   *)
LEMMA PlaceTerminate ==
  ASSUME PlacesInv, Terminate
  PROVE  PlacesInv'
<1>1. /\ pc = "run" /\ pc' = "gc" /\ queue' = queue /\ terminated' = terminated \cup {current}
      /\ current' = NoThread /\ limit' = limit /\ UNCHANGED elsewhere
  BY DEF Terminate, Leave, signals, timers, descriptors, elsewhere
<1>2. /\ current \in Everyone /\ current # NoThread /\ Accounted(Where, Alive)
  BY <1>1, NamesAre DEF PlacesInv, LoopOK
<1>3. /\ Where["queue"] = Range(queue) /\ Where["current"] = {current}
      /\ Where'["queue"] = Range(queue) /\ Where'["current"] = {}
  BY <1>1, <1>2, WhereIs, WhereNext
<1>4. "queue" \in PlaceNames /\ "current" \in PlaceNames
  BY DEF PlaceNames
<1>5. current \in Alive /\ \A q \in PlaceNames : q # "current" => current \notin Where[q]
  BY <1>2, <1>3, <1>4, Elsewhere
<1>6. LoopOK'
  BY <1>1, <1>5 DEF PlacesInv, LoopOK, elsewhere, Alive
<1>7. Alive' = Alive \ {current}
  BY <1>1 DEF Alive, elsewhere
<1>8. \A q \in PlaceNames : q # "current" => Where'[q] = Where[q]
  BY <1>1, <1>3, OthersStay
<1>9. Accounted(Where', Alive \ {current})
  BY <1>2, <1>3, <1>4, <1>5, <1>8 DEF Accounted
<1> QED
  BY <1>1, <1>6, <1>7, <1>9, LoopMoves

-----------------------------------------------------------------------------
(***************************************************************************)
(* Handlers and alarms.                                                    *)
(***************************************************************************)

(* Nobody moves when the handlers change.                                   *)
LEMMA HandlersChange ==
  ASSUME PlacesInv, HandlersOK',
         UNCHANGED <<queue, current, pc, terminated, limit, called, alarms, due, sleepers, now, sets>>
  PROVE  PlacesInv'
<1>1. Where' = Where /\ Alive' = Alive
  BY DEF Where, Alive, Asleep
<1>2. LoopOK' /\ AlarmsOK' /\ SetsOK'
  BY DEF PlacesInv, LoopOK, AlarmsOK, SetsOK
<1> QED
  BY <1>1, <1>2 DEF PlacesInv

(* RegisterSignal gives the signal a handler that has none yet.             *)
LEMMA PlaceRegisterSignal ==
  ASSUME PlacesInv, NEW s \in SignalNames, RegisterSignal(s), UNCHANGED sets
  PROVE  PlacesInv'
<1>1. PICK h \in (1..limit.handlers) \ Registered :
        handlers' = [handlers EXCEPT ![s] = <<h>> \o @]
  BY DEF RegisterSignal
<1>2. /\ UNCHANGED <<queue, current, pc, terminated, limit, called, alarms, due, sleepers, now, sets>>
      /\ called \subseteq Handlers /\ handlers \in [SignalNames -> Seq(Handlers)]
  BY DEF RegisterSignal, threads, timers, PlacesInv, HandlersOK
<1>3. h \in Handlers
  BY <1>1, NamesAre, ThreadsAssumption DEF PlacesInv, LoopOK, Handlers, ThreadsAssumption
<1>4. h \notin called /\ \A r \in SignalNames : h \notin Range(handlers[r])
  BY <1>1 DEF Registered
<1>5. PICK hs : hs = <<h>> \o handlers[s]
  OBVIOUS
<1>6. /\ hs \in Seq(Handlers) /\ IsInjective(hs)
      /\ Range(hs) = {h} \cup Range(handlers[s])
  <2>1. PICK one, old : one = <<h>> /\ old = handlers[s]
    OBVIOUS
  <2>2. one \in Seq(Handlers) /\ Range(one) = {h} /\ IsInjective(one)
    BY <1>3, <2>1 DEF Range, IsInjective
  <2>3. old \in Seq(Handlers) /\ IsInjective(old)
    BY <1>2, <2>1 DEF PlacesInv, HandlersOK
  <2>4. Range(one) \cap Range(old) = {}
    BY <1>4, <2>1, <2>2
  <2>5. /\ one \o old \in Seq(Handlers) /\ IsInjective(one \o old)
        /\ Range(one \o old) = Range(one) \cup Range(old)
    BY <2>2, <2>3, <2>4, JoinRange
  <2> QED
    BY <1>5, <2>1, <2>2, <2>5
<1>7. /\ handlers' \in [SignalNames -> Seq(Handlers)] /\ handlers'[s] = hs
      /\ \A r \in SignalNames : r # s => handlers'[r] = handlers[r]
  BY <1>1, <1>2, <1>5, <1>6
<1>8. HandlersOK'
  <2>1. \A r \in SignalNames : \A g : g \in Range(handlers'[r]) <=>
          g \in Range(handlers[r]) \/ (r = s /\ g = h)
    BY <1>6, <1>7
  <2>2. \A r \in SignalNames : IsInjective(handlers'[r])
    BY <1>6, <1>7 DEF PlacesInv, HandlersOK
  <2>3. \A r \in SignalNames : \A g : g \in Range(handlers'[r]) => g \notin called
    BY <1>4, <2>1 DEF PlacesInv, HandlersOK
  <2>4. ASSUME NEW q \in SignalNames, NEW r \in SignalNames, NEW g,
               g \in Range(handlers'[q]), g \in Range(handlers'[r])
        PROVE  q = r
    <3>1. g \in Range(handlers[q]) /\ g \in Range(handlers[r]) => q = r
      BY DEF PlacesInv, HandlersOK
    <3>2. g \in Range(handlers[q]) \/ (q = s /\ g = h)
      BY <2>1, <2>4
    <3>3. g \in Range(handlers[r]) \/ (r = s /\ g = h)
      BY <2>1, <2>4
    <3> QED
      BY <1>4, <3>1, <3>2, <3>3
  <2>5. called' = called
    BY <1>2
  <2> QED
    BY <1>2, <1>7, <2>2, <2>3, <2>4, <2>5 DEF HandlersOK
<1> QED
  BY <1>2, <1>8, HandlersChange

(* The alarms: a new one finds its place behind those that are not later.   *)
LEMMA InsertAlarmIs ==
  ASSUME PlacesInv, NEW a, a \notin DOMAIN due, a \in Nat, NEW time
  PROVE  /\ InsertAlarm(a, time) \in Seq(Nat) /\ IsInjective(InsertAlarm(a, time))
         /\ Range(InsertAlarm(a, time)) = Range(alarms) \cup {a}
<1> DEFINE notLater == {b \in DOMAIN due : due[b] <= time}
           first == Filter(alarms, notLater)
           last == Filter(alarms, DOMAIN due \ notLater)
<1>1. /\ alarms \in Seq(DOMAIN due) /\ IsInjective(alarms) /\ DOMAIN due \subseteq Nat
      /\ \A b \in Range(alarms) : b \in DOMAIN due
  BY RangeIn DEF PlacesInv, AlarmsOK
<1>2. alarms \in Seq(Nat)
  BY <1>1
<1>3. InsertAlarm(a, time) = first \o <<a>> \o last
  BY DEF InsertAlarm
<1>4. PICK early : early = notLater
  OBVIOUS
<1>5. PICK others : others = DOMAIN due \ early
  OBVIOUS
<1>6. first = Filter(alarms, early) /\ last = Filter(alarms, others)
  BY <1>4, <1>5
<1> HIDE DEF notLater, first, last
<1>7. /\ first \in Seq(Nat) /\ IsInjective(first) /\ Range(first) = Range(alarms) \cap early
      /\ last \in Seq(Nat) /\ IsInjective(last) /\ Range(last) = Range(alarms) \cap others
  BY <1>1, <1>2, <1>6, FilterRange
<1>8. PICK one : one = <<a>>
  OBVIOUS
<1>9. one \in Seq(Nat) /\ Range(one) = {a} /\ IsInjective(one)
  BY <1>8 DEF Range, IsInjective
<1>10. PICK two : two = first \o one
  OBVIOUS
<1>11. two \in Seq(Nat) /\ IsInjective(two) /\ Range(two) = Range(first) \cup {a}
  BY <1>1, <1>7, <1>9, <1>10, JoinRange
<1>12. /\ two \o last \in Seq(Nat) /\ IsInjective(two \o last)
       /\ Range(two \o last) = Range(two) \cup Range(last)
  <2>1. Range(two) \cap Range(last) = {}
    BY <1>1, <1>5, <1>7, <1>11
  <2> QED
    BY <1>7, <1>11, <2>1, JoinRange
<1>13. Range(two) \cup Range(last) = Range(alarms) \cup {a}
  BY <1>1, <1>5, <1>7, <1>11
<1> QED
  BY <1>3, <1>8, <1>10, <1>12, <1>13

(* A new alarm has no sleepers.                                             *)
LEMMA PlaceRegisterAlarm ==
  ASSUME PlacesInv, NEW ms \in Delays, RegisterAlarm(ms), UNCHANGED sets
  PROVE  PlacesInv'
<1>1. PICK a : a = Len(due) + 1
  OBVIOUS
<1>2. /\ due' = Append(due, now + ms) /\ sleepers' = Append(sleepers, <<>>)
      /\ alarms' = InsertAlarm(a, now + ms)
      /\ UNCHANGED <<queue, current, pc, terminated, limit, called, handlers, now, sets>>
  BY <1>1 DEF RegisterAlarm, threads, signals
<1>3. /\ now \in Nat /\ due \in Seq(Nat) /\ Len(sleepers) = Len(due)
      /\ sleepers \in Seq(Seq(Threads)) /\ alarms \in Seq(DOMAIN due)
      /\ \A b \in Range(alarms) : b \in DOMAIN due
  BY RangeIn DEF PlacesInv, AlarmsOK
<1>4. now + ms \in Nat
  BY <1>3, DelaysAssumption DEF DelaysAssumption
<1>5. /\ due' \in Seq(Nat) /\ DOMAIN due' = DOMAIN due \cup {a} /\ a \notin DOMAIN due /\ a \in Nat
  BY <1>1, <1>2, <1>3, <1>4
<1>6. /\ sleepers' \in Seq(Seq(Threads)) /\ Len(sleepers') = Len(due')
      /\ sleepers'[a] = <<>> /\ \A b \in DOMAIN due : sleepers'[b] = sleepers[b]
  <2>1. <<>> \in Seq(Threads)
    OBVIOUS
  <2>2. Len(due') = Len(due) + 1
    BY <1>2, <1>3
  <2> QED
    BY <1>1, <1>2, <1>3, <2>1, <2>2
<1>7. /\ alarms' \in Seq(Nat) /\ IsInjective(alarms') /\ Range(alarms') = Range(alarms) \cup {a}
  BY <1>2, <1>5, InsertAlarmIs
<1>8. alarms' \in Seq(DOMAIN due')
  <2>1. PICK as : as = alarms'
    OBVIOUS
  <2>2. \A b \in Range(as) : b \in DOMAIN due'
    BY <1>3, <1>5, <1>7, <2>1
  <2>3. as \in Seq(Nat)
    BY <1>7, <2>1
  <2>4. as \in Seq(DOMAIN due')
    BY <2>2, <2>3, SeqIn
  <2> QED
    BY <2>1, <2>4
<1>9. Range(<<>>) = {} /\ IsInjective(<<>>)
  BY DEF Range, IsInjective
<1>10. AlarmsOK'
  <2>1. \A b \in Range(alarms') : IsInjective(sleepers'[b])
    BY <1>3, <1>6, <1>7, <1>9 DEF PlacesInv, AlarmsOK
  <2>2. \A b, c \in Range(alarms') : \A u :
          u \in Range(sleepers'[b]) /\ u \in Range(sleepers'[c]) => b = c
    BY <1>3, <1>6, <1>7, <1>9 DEF PlacesInv, AlarmsOK
  <2> QED
    BY <1>2, <1>3, <1>5, <1>6, <1>7, <1>8, <2>1, <2>2 DEF AlarmsOK
<1>11. Asleep' = Asleep
  BY <1>3, <1>6, <1>7, <1>9 DEF Asleep
<1>12. Where' = Where
  BY <1>2, <1>11 DEF Where
<1>13. Alive' = Alive
  BY <1>2 DEF Alive
<1>14. LoopOK' /\ HandlersOK' /\ SetsOK'
  BY <1>2 DEF PlacesInv, LoopOK, HandlersOK, SetsOK
<1> QED
  BY <1>10, <1>12, <1>13, <1>14 DEF PlacesInv

(* The program requests the future of an alarm.                             *)
LEMMA PlaceSleep ==
  ASSUME PlacesInv, NEW t \in Threads, Running(t), NEW a \in DOMAIN due, Sleep(t, a), UNCHANGED sets
  PROVE  PlacesInv'
<1>1. /\ a \in Range(alarms) /\ pc = "run" /\ current = t /\ pc' = "gc" /\ current' = NoThread
      /\ sleepers' = [sleepers EXCEPT ![a] = Append(@, t)]
      /\ UNCHANGED <<queue, terminated, limit, called, handlers, alarms, due, now, sets>>
  BY DEF Sleep, Leave, Running, signals
<1>2. /\ sleepers \in Seq(Seq(Threads)) /\ Len(sleepers) = Len(due) /\ Accounted(Where, Alive)
      /\ due \in Seq(Nat)
      /\ \A b \in Range(alarms) : b \in DOMAIN due /\ IsInjective(sleepers[b])
      /\ \A b, c \in Range(alarms) : \A u : u \in Range(sleepers[b]) /\ u \in Range(sleepers[c]) => b = c
  BY RangeIn DEF PlacesInv, AlarmsOK
<1>3. DOMAIN sleepers = DOMAIN due
  BY <1>2
<1>4. "alarms" \in PlaceNames /\ "current" \in PlaceNames
  BY DEF PlaceNames
<1>5. t # NoThread /\ Where["current"] = {t} /\ Where["alarms"] = Asleep
  BY <1>1, NamesAre, WhereIs DEF Everyone
<1>6. t \notin Asleep
  BY <1>2, <1>4, <1>5, Elsewhere
<1>7. \A b \in Range(alarms) : t \notin Range(sleepers[b])
  BY <1>6 DEF Asleep
<1>8. PICK old, new : old = sleepers[a] /\ new = Append(old, t)
  OBVIOUS
<1>9. /\ old \in Seq(Threads) /\ new \in Seq(Threads) /\ Range(new) = Range(old) \cup {t}
      /\ IsInjective(new)
  <2>1. old \in Seq(Threads) /\ IsInjective(old) /\ t \notin Range(old)
    BY <1>1, <1>2, <1>3, <1>7, <1>8
  <2> QED
    BY <1>8, <2>1, AppendRange
<1>10. /\ sleepers' \in Seq(Seq(Threads)) /\ Len(sleepers') = Len(due)
       /\ \A b \in DOMAIN due : sleepers'[b] = IF b = a THEN new ELSE sleepers[b]
  <2>1. DOMAIN sleepers = 1..Len(sleepers) /\ sleepers \in [1..Len(sleepers) -> Seq(Threads)]
    BY <1>2
  <2>2. sleepers' = [sleepers EXCEPT ![a] = new]
    BY <1>1, <1>8
  <2>3. sleepers' \in [1..Len(sleepers) -> Seq(Threads)] /\ Len(sleepers) \in Nat
    BY <1>2, <1>9, <2>1, <2>2
  <2>4. sleepers' \in Seq(Seq(Threads)) /\ Len(sleepers') = Len(sleepers)
    BY <2>3
  <2>5. \A b \in DOMAIN sleepers : sleepers'[b] = IF b = a THEN new ELSE sleepers[b]
    BY <2>2
  <2> QED
    BY <1>2, <1>3, <2>4, <2>5
<1>11. PICK sl : sl = sleepers'
  OBVIOUS
<1>12. /\ \A b \in Range(alarms) : \A u :
             u \in Range(sl[b]) <=> u \in Range(sleepers[b]) \/ (u = t /\ b = a)
       /\ \A b \in Range(alarms) : IsInjective(sl[b])
  <2> SUFFICES ASSUME NEW b \in Range(alarms)
               PROVE  /\ IsInjective(sl[b])
                      /\ \A u : u \in Range(sl[b]) <=>
                                 u \in Range(sleepers[b]) \/ (u = t /\ b = a)
    OBVIOUS
  <2>1. b \in DOMAIN due /\ IsInjective(sleepers[b])
    BY <1>2
  <2>2. CASE b = a
    <3>1. sl[b] = new /\ sleepers[b] = old
      BY <1>8, <1>10, <1>11, <2>1, <2>2
    <3> QED
      BY <1>9, <2>2, <3>1
  <2>3. CASE b # a
    BY <1>10, <1>11, <2>1, <2>3
  <2> QED
    BY <2>2, <2>3
<1>13. AlarmsOK'
  <2>1. ASSUME NEW b \in Range(alarms), NEW c \in Range(alarms), NEW u,
               u \in Range(sl[b]), u \in Range(sl[c])
        PROVE  b = c
    <3>1. u \in Range(sleepers[b]) /\ u \in Range(sleepers[c]) => b = c
      BY <1>2
    <3>2. u \in Range(sleepers[b]) \/ (u = t /\ b = a)
      BY <1>12, <2>1
    <3>3. u \in Range(sleepers[c]) \/ (u = t /\ c = a)
      BY <1>12, <2>1
    <3> QED
      BY <1>7, <3>1, <3>2, <3>3
  <2>2. alarms' = alarms /\ due' = due /\ now' = now
    BY <1>1
  <2> QED
    BY <1>10, <1>11, <1>12, <2>1, <2>2 DEF PlacesInv, AlarmsOK
<1>14. Asleep' = Asleep \cup {t}
  <2>1. Asleep' = {u \in Threads : \E b \in Range(alarms) : u \in Range(sl[b])}
    BY <1>1, <1>11 DEF Asleep
  <2> QED
    BY <1>1, <1>12, <2>1 DEF Asleep
<1>15. /\ Where'["current"] = {} /\ Where'["alarms"] = Where["alarms"] \cup {t}
       /\ \A q \in PlaceNames \ {"current", "alarms"} : Where'[q] = Where[q]
  <2>1. Where'["current"] = {} /\ Where'["queue"] = Where["queue"]
    BY <1>1, WhereIs, WhereNext
  <2>2. Where'["alarms"] = Where["alarms"] \cup {t}
    BY <1>14, WhereIs, WhereNext
  <2>3. \A s \in SetNames : Where'[s] = Where[s]
    BY SetsStay
  <2> QED
    BY <2>1, <2>2, <2>3 DEF PlaceNames
<1>16. Accounted(Where', Alive)
  <2>1. t \in Where["current"] /\ Where'["current"] = Where["current"] \ {t}
    BY <1>5, <1>15
  <2>2. Accounted(Where, Alive)
    BY <1>2
  <2> QED
    BY <1>4, <1>15, <2>1, <2>2, MoveOne
<1>17. Accounted(Where, Alive)'
  <2>1. Alive' = Alive
    BY <1>1 DEF Alive
  <2> QED
    BY <1>16, <2>1
<1>18. LoopOK' /\ HandlersOK' /\ SetsOK'
  <2>1. LoopOK'
    BY <1>1 DEF PlacesInv, LoopOK
  <2> QED
    BY <1>1, <2>1 DEF PlacesInv, HandlersOK, SetsOK
<1> QED
  BY <1>13, <1>17, <1>18 DEF PlacesInv

-----------------------------------------------------------------------------
(***************************************************************************)
(* Descriptors.                                                            *)
(***************************************************************************)

(* A thread goes to wait in a set.                                          *)
LEMMA PlaceAdd ==
  ASSUME PlacesInv, NEW t \in Threads, Running(t), NEW s \in SetNames, NEW f \in FDs,
         sets' = [sets EXCEPT ![s] = Add(@, f, t)], Leave,
         UNCHANGED <<queue, terminated, limit, called, handlers, alarms, due, sleepers, now>>
  PROVE  PlacesInv'
<1>1. pc = "run" /\ current = t /\ pc' = "gc" /\ current' = NoThread
  BY DEF Leave, Running
<1>2. DOMAIN sets = SetNames /\ Accounted(Where, Alive) /\ \A r \in SetNames : SetOK(sets[r])
  BY DEF PlacesInv, SetsOK
<1>3. s \in PlaceNames /\ "current" \in PlaceNames /\ s # "current"
  BY DEF PlaceNames, SetNames
<1>4. t # NoThread /\ Where["current"] = {t}
  BY <1>1, NamesAre, WhereIs DEF Everyone
<1>5. \A g : ~WaitsFor(sets[s], t, g)
  <2>1. t \notin Where[s]
    BY <1>2, <1>3, <1>4, Elsewhere
  <2> QED
    BY <2>1, WhereIs
<1>6. PICK old, new : old = sets[s] /\ new = Add(old, f, t)
  OBVIOUS
<1>7. /\ SetOK(new)
      /\ \A u, g : WaitsFor(new, u, g) <=> WaitsFor(old, u, g) \/ (u = t /\ g = f)
  BY <1>2, <1>5, <1>6, AddIs
<1>8. /\ DOMAIN sets' = SetNames /\ sets'[s] = new
      /\ \A r \in SetNames : r # s => sets'[r] = sets[r]
  BY <1>2, <1>6
<1>9. SetsOK'
  BY <1>2, <1>7, <1>8 DEF SetsOK
<1>10. Where'[s] = Where[s] \cup {t}
  <2>1. /\ Where[s] = {u \in Threads : \E g : WaitsFor(old, u, g)}
        /\ Where'[s] = {u \in Threads : \E g : WaitsFor(new, u, g)}
    BY <1>6, <1>8, WhereIs, WhereNext
  <2> QED
    BY <1>7, <2>1
<1>11. Where'["current"] = {} /\ \A q \in PlaceNames \ {"current", s} : Where'[q] = Where[q]
  <2>1. Asleep' = Asleep
    BY DEF Asleep
  <2>2. ASSUME NEW q \in SetNames, q # s
        PROVE  Where'[q] = Where[q]
    <3>1. sets'[q] = sets[q]
      BY <1>8, <2>2
    <3>2. Where'[q] = {u \in Threads : \E g : WaitsFor(sets'[q], u, g)}
      BY WhereNext
    <3> QED
      BY <3>1, <3>2, WhereIs
  <2>3. Where'["current"] = {} /\ Where'["queue"] = Where["queue"] /\ Where'["alarms"] = Where["alarms"]
    BY <1>1, <2>1, WhereIs, WhereNext
  <2> QED
    BY <2>2, <2>3 DEF PlaceNames
<1>12. Accounted(Where, Alive)'
  <2>1. Alive' = Alive
    BY DEF Alive
  <2>2. t \in Where["current"] /\ Where'["current"] = Where["current"] \ {t}
    BY <1>4, <1>11
  <2>3. Accounted(Where', Alive)
    BY <1>2, <1>3, <1>10, <1>11, <2>2, MoveOne
  <2> QED
    BY <2>1, <2>3
<1>13. LoopOK'
  BY <1>1 DEF PlacesInv, LoopOK
<1>14. HandlersOK' /\ AlarmsOK'
  BY DEF PlacesInv, HandlersOK, AlarmsOK
<1> QED
  BY <1>9, <1>12, <1>13, <1>14 DEF PlacesInv

(* The threads that are woken for the file descriptors in fs.                *)
LEMMA WokenIs ==
  ASSUME PlacesInv, NEW fs
  PROVE  /\ Woken(fs) \in Seq(Threads) /\ IsInjective(Woken(fs))
         /\ \A u : u \in Range(Woken(fs)) <=> \E s \in SetNames, g \in fs : WaitsFor(sets[s], u, g)
<1> DEFINE gone(s) == Waiters(Gone(sets[s], fs))
<1>1. /\ \A s \in SetNames : SetOK(sets[s])
      /\ Accounted(Where, Alive)
  BY DEF PlacesInv, SetsOK
<1>2. ASSUME NEW s \in SetNames
      PROVE  /\ gone(s) \in Seq(Threads) /\ IsInjective(gone(s))
             /\ \A u : u \in Range(gone(s)) <=> \E g \in fs : WaitsFor(sets[s], u, g)
  <2>1. PICK set, out : set = sets[s] /\ out = Gone(set, fs)
    OBVIOUS
  <2>2. SetOK(set)
    BY <1>1, <2>1
  <2>3. SetOK(out) /\ \A u, g : WaitsFor(out, u, g) <=> WaitsFor(set, u, g) /\ g \in fs
    BY <2>1, <2>2, ScheduleIs
  <2>4. /\ Waiters(out) \in Seq(Threads) /\ IsInjective(Waiters(out))
        /\ \A u : u \in Range(Waiters(out)) <=> \E g : WaitsFor(out, u, g)
    BY <2>3, WaitersIs
  <2>5. gone(s) = Waiters(out)
    BY <2>1
  <2> HIDE DEF gone
  <2> QED
    BY <2>1, <2>3, <2>4, <2>5
<1>3. ASSUME NEW r \in SetNames, NEW s \in SetNames, r # s
      PROVE  Range(gone(r)) \cap Range(gone(s)) = {}
  <2>1. r \in PlaceNames /\ s \in PlaceNames
    BY DEF PlaceNames
  <2>2. ASSUME NEW u \in Range(gone(r)), u \in Range(gone(s))
        PROVE  FALSE
    <3>1. (\E g : WaitsFor(sets[r], u, g)) /\ (\E g : WaitsFor(sets[s], u, g))
      <4> HIDE DEF gone
      <4> QED
        BY <1>2, <2>2
    <3>2. u \in Threads
      BY <1>1, <3>1, WaitsIs
    <3>3. u \in Where[r] /\ u \in Where[s]
      BY <3>1, <3>2, WhereIs
    <3> QED
      BY <1>1, <1>3, <2>1, <3>3 DEF Accounted
  <2> QED
    BY <2>2
<1>4. PICK a, b, c : a = gone("Readable") /\ b = gone("Writable") /\ c = gone("Connected")
  OBVIOUS
<1>5. Woken(fs) = (a \o b) \o c
  BY <1>4 DEF Woken
<1> HIDE DEF gone
<1>6. "Readable" \in SetNames /\ "Writable" \in SetNames /\ "Connected" \in SetNames
  BY DEF SetNames
<1>7. /\ a \in Seq(Threads) /\ IsInjective(a) /\ b \in Seq(Threads) /\ IsInjective(b)
      /\ c \in Seq(Threads) /\ IsInjective(c)
  BY <1>2, <1>4, <1>6
<1>8. /\ Range(a) \cap Range(b) = {} /\ Range(a) \cap Range(c) = {}
      /\ Range(b) \cap Range(c) = {}
  <2>1. "Readable" # "Writable" /\ "Readable" # "Connected" /\ "Writable" # "Connected"
    OBVIOUS
  <2> QED
    BY <1>3, <1>4, <1>6, <2>1
<1>9. PICK ab : ab = a \o b
  OBVIOUS
<1>10. ab \in Seq(Threads) /\ IsInjective(ab) /\ Range(ab) = Range(a) \cup Range(b)
  BY <1>7, <1>8, <1>9, JoinRange
<1>11. Range(ab) \cap Range(c) = {}
  BY <1>8, <1>10
<1>12. /\ ab \o c \in Seq(Threads) /\ IsInjective(ab \o c)
       /\ Range(ab \o c) = Range(ab) \cup Range(c)
  BY <1>7, <1>10, <1>11, JoinRange
<1>13. \A u : u \in Range(a) \/ u \in Range(b) \/ u \in Range(c) <=>
              \E s \in SetNames, g \in fs : WaitsFor(sets[s], u, g)
  <2> SUFFICES ASSUME NEW u
               PROVE  u \in Range(a) \/ u \in Range(b) \/ u \in Range(c) <=>
                        \E s \in SetNames : u \in Range(gone(s))
    BY <1>2
  <2> QED
    BY <1>4 DEF SetNames
<1> QED
  BY <1>5, <1>9, <1>10, <1>12, <1>13

(* Threads that waited run again: those that wait for fs leave the sets.    *)
LEMMA PlaceWoken ==
  ASSUME PlacesInv, NEW fs, queue' = queue \o Woken(fs),
         DOMAIN sets' = SetNames,
         \A s \in SetNames : /\ SetOK(sets'[s])
                             /\ \A u, g : WaitsFor(sets'[s], u, g) <=>
                                            WaitsFor(sets[s], u, g) /\ g \notin fs,
         UNCHANGED <<current, terminated, limit, called, handlers, alarms, due, sleepers, now>>,
         pc' = "run" <=> pc = "run"
  PROVE  PlacesInv'
<1>1. /\ queue \in Seq(Everyone) /\ IsInjective(queue) /\ Accounted(Where, Alive)
      /\ \A s \in SetNames : SetOK(sets[s])
  BY DEF PlacesInv, LoopOK, SetsOK
<1>2. PICK out : out = Woken(fs)
  OBVIOUS
<1>3. /\ out \in Seq(Threads) /\ IsInjective(out)
      /\ \A u : u \in Range(out) <=> \E s \in SetNames, g \in fs : WaitsFor(sets[s], u, g)
  BY <1>2, WokenIs
<1>4. out \in Seq(Everyone)
  <2>1. \A u \in Range(out) : u \in Everyone
    BY <1>3, RangeIn DEF Everyone
  <2> QED
    BY <1>3, <2>1, SeqIn
<1>5. "queue" \in PlaceNames /\ \A s \in SetNames : s \in PlaceNames /\ s # "queue"
  BY DEF PlaceNames, SetNames
<1>6. ASSUME NEW u \in Range(out)
      PROVE  u \in Alive /\ \E s \in SetNames : u \in Where[s]
  <2>1. PICK s \in SetNames, g \in fs : WaitsFor(sets[s], u, g)
    BY <1>3
  <2>2. u \in Threads
    BY <1>1, <2>1, WaitsIs
  <2>3. u \in Where[s]
    BY <2>1, <2>2, WhereIs
  <2> QED
    BY <1>1, <1>5, <2>3, Elsewhere
<1>7. Range(queue) \cap Range(out) = {}
  <2>1. ASSUME NEW u \in Range(out), u \in Range(queue)
        PROVE  FALSE
    <3>1. PICK s \in SetNames : u \in Where[s]
      BY <1>6
    <3>2. u \in Where["queue"]
      BY <2>1, WhereIs
    <3> QED
      BY <1>1, <1>5, <3>1, <3>2 DEF Accounted
  <2> QED
    BY <2>1
<1>8. /\ queue' \in Seq(Everyone) /\ IsInjective(queue')
      /\ Range(queue') = Range(queue) \cup Range(out)
  BY <1>1, <1>2, <1>4, <1>3, <1>7, JoinRange
<1>9. Where'["queue"] = Where["queue"] \cup Range(out)
  BY <1>8, WhereIs, WhereNext
<1>10. \A s \in SetNames : Where'[s] = Where[s] \ Range(out)
  <2> SUFFICES ASSUME NEW s \in SetNames, NEW u
               PROVE  u \in Where'[s] <=> u \in Where[s] /\ u \notin Range(out)
    OBVIOUS
  <2>1. u \in Where'[s] <=> u \in Threads /\ \E g : WaitsFor(sets[s], u, g) /\ g \notin fs
    BY WhereNext
  <2>2. u \in Where[s] <=> u \in Threads /\ \E g : WaitsFor(sets[s], u, g)
    BY WhereIs
  <2>3. ASSUME NEW g, WaitsFor(sets[s], u, g), u \in Range(out)
        PROVE  g \in fs
    <3>1. PICK r \in SetNames, h \in fs : WaitsFor(sets[r], u, h)
      BY <1>3, <2>3
    <3>2. u \in Threads
      BY <1>1, <2>3, WaitsIs
    <3>3. u \in Where[r] /\ u \in Where[s]
      <4>1. (\E v : WaitsFor(sets[r], u, v)) /\ (\E v : WaitsFor(sets[s], u, v))
        BY <2>3, <3>1
      <4>2. u \in Where[r]
        BY <3>2, <4>1, WhereIs
      <4>3. u \in Where[s]
        BY <2>2, <3>2, <4>1
      <4> QED
        BY <4>2, <4>3
    <3>4. r = s
      BY <1>1, <1>5, <3>3 DEF Accounted
    <3> QED
      BY <1>1, <2>3, <3>1, <3>4 DEF SetOK
  <2>4. ASSUME NEW g \in fs, WaitsFor(sets[s], u, g)
        PROVE  u \in Range(out)
    BY <1>3, <2>4
  <2> QED
    BY <2>1, <2>2, <2>3, <2>4
<1>11. Where'["current"] = Where["current"] /\ Where'["alarms"] = Where["alarms"]
  <2>1. Asleep' = Asleep
    BY DEF Asleep
  <2> QED
    BY <2>1, WhereIs, WhereNext
<1>12. \A q \in PlaceNames : q # "queue" => \A u : u \in Where'[q] <=> u \in Where[q] /\ u \notin Range(out)
  <2>1. ASSUME NEW q \in {"current", "alarms"}, NEW u \in Range(out)
        PROVE  u \notin Where[q]
    <3>1. PICK s \in SetNames : u \in Where[s]
      BY <1>6
    <3>2. q \in PlaceNames /\ s \in PlaceNames /\ q # s
      BY DEF PlaceNames, SetNames
    <3> QED
      BY <1>1, <3>1, <3>2 DEF Accounted
  <2> QED
    BY <1>10, <1>11, <2>1 DEF PlaceNames
<1>13. Accounted(Where', Alive \cup Range(out))
  <2>1. \A u : u \in Where'["queue"] <=> u \in Where["queue"] \/ u \in Range(out)
    BY <1>9
  <2> QED
    BY <1>1, <1>5, <1>12, <2>1, MoveMany
<1>14. Accounted(Where, Alive)'
  <2>1. Alive' = Alive
    BY DEF Alive
  <2>2. Alive \cup Range(out) = Alive
    BY <1>6
  <2> QED
    BY <1>13, <2>1, <2>2
<1>15. LoopOK' /\ SetsOK'
  BY <1>8 DEF PlacesInv, LoopOK, SetsOK
<1>16. HandlersOK' /\ AlarmsOK'
  BY DEF PlacesInv, HandlersOK, AlarmsOK
<1> QED
  BY <1>14, <1>15, <1>16 DEF PlacesInv

(* IOHandler::Select.                                                      *)
LEMMA PlaceSchedule ==
  ASSUME PlacesInv, NEW fs, Schedule(fs),
         UNCHANGED <<current, terminated, limit, called, handlers, alarms, due, sleepers, now>>,
         pc' = "run" <=> pc = "run"
  PROVE  PlacesInv'
<1>1. /\ queue' = queue \o Woken(fs) /\ DOMAIN sets' = SetNames
      /\ \A s \in SetNames : sets'[s] = Left(sets[s], fs) /\ SetOK(sets[s])
  BY DEF Schedule, PlacesInv, SetsOK
<1>2. ASSUME NEW s \in SetNames
      PROVE  /\ SetOK(sets'[s])
             /\ \A u, g : WaitsFor(sets'[s], u, g) <=> WaitsFor(sets[s], u, g) /\ g \notin fs
  <2>1. PICK set : set = sets[s]
    OBVIOUS
  <2>2. SetOK(set)
    BY <1>1, <2>1
  <2>3. /\ SetOK(Left(set, fs))
        /\ \A u, g : WaitsFor(Left(set, fs), u, g) <=> WaitsFor(set, u, g) /\ g \notin fs
    BY <2>2, ScheduleIs
  <2> QED
    BY <1>1, <2>1, <2>3
<1> QED
  BY <1>1, <1>2, PlaceWoken

(* The steps of the loop that call select move threads from the sets to the *)
(* run queue.                                                               *)
LEMMA PlacePoll ==
  ASSUME PlacesInv, Poll \/ Block \/ EndSelect, UNCHANGED <<status, signals, timers>>
  PROVE  PlacesInv'
<1>1. PICK fs : fs = EntryFDs \cap ready
  OBVIOUS
<1>2. Schedule(fs) /\ UNCHANGED <<current, terminated, limit>> /\ pc # "run" /\ pc' # "run"
  BY <1>1 DEF Poll, Block, EndSelect
<1>3. UNCHANGED <<called, handlers, alarms, due, sleepers, now>>
  BY DEF signals, timers
<1> QED
  BY <1>2, <1>3, PlaceSchedule

(* IODesc::Close, by a thread or by finalization.                           *)
LEMMA PlaceCloseDesc ==
  ASSUME PlacesInv, NEW d, CloseDesc(d), UNCHANGED <<current, pc, terminated, limit>>,
         UNCHANGED <<status, signals, timers>>
  PROVE  PlacesInv'
<1>1. UNCHANGED <<called, handlers, alarms, due, sleepers, now>>
  BY DEF signals, timers
<1>2. CASE IsOpen(d)
  <2>1. PICK f : f = descs[d].fd
    OBVIOUS
  <2>2. /\ queue' = queue \o Woken({f}) /\ DOMAIN sets' = SetNames
        /\ \A s \in SetNames : sets'[s] = RemoveEntry(sets[s], f) /\ SetOK(sets[s])
    BY <1>2, <2>1 DEF CloseDesc, PlacesInv, SetsOK
  <2>3. ASSUME NEW s \in SetNames
        PROVE  /\ SetOK(sets'[s])
               /\ \A u, g : WaitsFor(sets'[s], u, g) <=> WaitsFor(sets[s], u, g) /\ g # f
    <3>1. PICK set : set = sets[s]
      OBVIOUS
    <3>2. SetOK(set)
      BY <2>2, <3>1
    <3>3. /\ SetOK(RemoveEntry(set, f))
          /\ \A u, g : WaitsFor(RemoveEntry(set, f), u, g) <=> WaitsFor(set, u, g) /\ g # f
      BY <3>2, RemoveEntryIs
    <3> QED
      BY <2>2, <3>1, <3>3
  <2>4. \A s \in SetNames : \A u, g : WaitsFor(sets'[s], u, g) <=>
                                        WaitsFor(sets[s], u, g) /\ g \notin {f}
    BY <2>3
  <2> QED
    BY <1>1, <2>2, <2>3, <2>4, PlaceWoken
<1>3. CASE ~IsOpen(d)
  <2>1. UNCHANGED placeVars /\ (pc' = "run" <=> pc = "run")
    BY <1>1, <1>3 DEF CloseDesc, placeVars
  <2>2. now' \in Nat
    BY <1>1 DEF PlacesInv, AlarmsOK
  <2> QED
    BY <2>1, <2>2, NobodyMoves
<1> QED
  BY <1>2, <1>3

(* IODesc's other operations.                                              *)
LEMMA PlaceWaitForDesc ==
  ASSUME PlacesInv, DescInv, NEW t \in Threads, Running(t), WaitForDesc(t),
         operation.desc \in DOMAIN descs, UNCHANGED <<status, signals, timers>>
  PROVE  PlacesInv'
<1>1. /\ UNCHANGED <<called, handlers, alarms, due, sleepers, now>>
      /\ UNCHANGED <<queue, terminated, limit>>
  BY DEF signals, timers, WaitForDesc
<1>2. PICK d, f : d = operation.desc /\ f = descs[d].fd
  OBVIOUS
<1>3. descs[d] \in Kinds
  BY <1>2 DEF DescInv, DescsOK
<1>4. f \in FDs /\ SetOf(d) \in SetNames
  BY <1>2, <1>3 DEF Kinds, SetOf, SetNames
<1>5. CASE f \in ready
  <2>1. UNCHANGED placeVars /\ (pc' = "run" <=> pc = "run")
    BY <1>1, <1>2, <1>5 DEF WaitForDesc, placeVars
  <2>2. now' \in Nat
    BY <1>1 DEF PlacesInv, AlarmsOK
  <2> QED
    BY <2>1, <2>2, NobodyMoves
<1>6. CASE f \notin ready
  <2>1. PICK s : s = SetOf(d)
    OBVIOUS
  <2>2. sets' = [sets EXCEPT ![s] = Add(@, f, t)] /\ Leave
    BY <1>2, <1>6, <2>1 DEF WaitForDesc
  <2>3. s \in SetNames
    BY <1>4, <2>1
  <2> QED
    BY <1>1, <1>4, <2>2, <2>3, PlaceAdd
<1> QED
  BY <1>5, <1>6

(* A thread that waits for a connection goes to the set Connected.          *)
LEMMA PlaceWaitConnected ==
  ASSUME PlacesInv, DescInv, NEW t \in Threads, Running(t), NEW d \in DOMAIN descs,
         WaitConnected(t, d), UNCHANGED <<status, signals, timers>>
  PROVE  PlacesInv'
<1>1. UNCHANGED <<queue, terminated, limit, called, handlers, alarms, due, sleepers, now>>
  BY DEF signals, timers, WaitConnected
<1>2. PICK f, s : f = descs[d].fd /\ s = "Connected"
  OBVIOUS
<1>3. f \in FDs /\ s \in SetNames
  <2>1. descs[d] \in Kinds
    BY DEF DescInv, DescsOK
  <2> QED
    BY <1>2, <2>1 DEF Kinds, SetNames
<1>4. sets' = [sets EXCEPT ![s] = Add(@, f, t)] /\ Leave
  BY <1>2 DEF WaitConnected
<1> QED
  BY <1>1, <1>3, <1>4, PlaceAdd

-----------------------------------------------------------------------------
(***************************************************************************)
(* HandlePendingSignals: who sleeps until the alarms that are triggered and *)
(* the handlers of the signals that are pending go to the run queue.       *)
(***************************************************************************)

(* The alarms are cut in two; n of them are late.                           *)
LEMMA TriggeredIs ==
  ASSUME alarms \in Seq(Nat)
  PROVE  \E n \in 0..Len(alarms) :
           /\ Triggered \in Seq(Nat) /\ Len(Triggered) = n
           /\ \A i \in 1..n : Triggered[i] = alarms[i] /\ ~(due[alarms[i]] > now)
           /\ Kept = SubSeq(alarms, n + 1, Len(alarms))
           /\ n < Len(alarms) => due[alarms[n + 1]] > now
<1> DEFINE I == {i \in 1..Len(alarms) : due[alarms[i]] > now}
<1>1. PICK late : late = IF I # {} THEN Min(I) ELSE 0
  OBVIOUS
<1>2. Triggered = IF late = 0 THEN alarms ELSE SubSeq(alarms, 1, late - 1)
  BY <1>1 DEF Triggered, SelectInSeq
<1>3. I \in SUBSET Nat /\ I \subseteq 1..Len(alarms) /\ Len(alarms) \in Nat
  OBVIOUS
<1>4. CASE I = {}
  <2>1. Triggered = alarms
    BY <1>1, <1>2, <1>4
  <2>2. \A i \in 1..Len(alarms) : ~(due[alarms[i]] > now)
    BY <1>4
  <2>3. Len(alarms) \in 0..Len(alarms)
    BY <1>3
  <2> QED
    BY <1>3, <2>1, <2>2, <2>3 DEF Kept
<1>5. CASE I # {}
  <2>1. late \in I /\ \A y \in I : late <= y
    <3> HIDE DEF I
    <3>1. \E x \in I : \A y \in I : x <= y
      BY <1>3, <1>5, Least
    <3> QED
      BY <1>1, <1>5, <3>1 DEF Min
  <2>2. PICK n : n = late - 1
    OBVIOUS
  <2>3. late \in 1..Len(alarms) /\ n \in 0..Len(alarms) /\ late = n + 1 /\ n < Len(alarms) /\ late # 0
    BY <1>3, <2>1, <2>2
  <2>4. Triggered = SubSeq(alarms, 1, n)
    BY <1>2, <2>2, <2>3
  <2>5. /\ Triggered \in Seq(Nat) /\ Len(Triggered) = n
        /\ \A i \in 1..n : Triggered[i] = alarms[i]
    BY <2>3, <2>4
  <2>6. ASSUME NEW i \in 1..n
        PROVE  ~(due[alarms[i]] > now)
    <3>1. i \in 1..Len(alarms) /\ ~(late <= i)
      BY <2>3
    <3>2. i \notin I
      BY <2>1, <3>1
    <3> QED
      BY <3>1, <3>2
  <2>7. due[alarms[n + 1]] > now
    BY <2>1, <2>3
  <2>8. Kept = SubSeq(alarms, n + 1, Len(alarms))
    BY <2>5 DEF Kept
  <2> QED
    BY <2>3, <2>5, <2>6, <2>7, <2>8
<1> QED
  BY <1>4, <1>5

(* The alarms are those that are triggered and those that are kept.         *)
LEMMA CheckAlarmsIs ==
  ASSUME PlacesInv
  PROVE  /\ Triggered \in Seq(Nat) /\ Kept \in Seq(DOMAIN due)
         /\ IsInjective(Triggered) /\ IsInjective(Kept)
         /\ Range(alarms) = Range(Triggered) \cup Range(Kept)
         /\ Range(Triggered) \cap Range(Kept) = {}
<1>1. /\ alarms \in Seq(DOMAIN due) /\ IsInjective(alarms) /\ DOMAIN due \subseteq Nat
  BY DEF PlacesInv, AlarmsOK
<1>2. alarms \in Seq(Nat)
  BY <1>1
<1>3. PICK n \in 0..Len(alarms) :
         /\ Triggered \in Seq(Nat) /\ Len(Triggered) = n
         /\ \A i \in 1..n : Triggered[i] = alarms[i]
         /\ Kept = SubSeq(alarms, n + 1, Len(alarms))
  BY <1>2, TriggeredIs
<1>4. PICK first, rest : first = Triggered /\ rest = Kept
  OBVIOUS
<1>5. /\ first \in Seq(Nat) /\ Len(first) = n /\ \A i \in 1..n : first[i] = alarms[i]
      /\ rest = SubSeq(alarms, n + 1, Len(alarms))
  BY <1>3, <1>4
<1>6. /\ rest \in Seq(DOMAIN due) /\ Range(alarms) = Range(first) \cup Range(rest)
      /\ IsInjective(first) /\ IsInjective(rest) /\ Range(first) \cap Range(rest) = {}
  <2>1. PICK D, all : D = DOMAIN due /\ all = alarms
    OBVIOUS
  <2>2. all \in Seq(D) /\ IsInjective(all)
    BY <1>1, <2>1
  <2>3. Cuts(all, n, first, rest)
    BY <1>5, <2>1 DEF Cuts
  <2>4. /\ rest \in Seq(D) /\ Range(all) = Range(first) \cup Range(rest)
        /\ IsInjective(all) => /\ IsInjective(first) /\ IsInjective(rest)
                               /\ Range(first) \cap Range(rest) = {}
    <3>1. first \in Seq(Nat) /\ all \in Seq(D)
      BY <1>5, <2>2
    <3> QED
      BY <2>3, <3>1, CutRange
  <2> QED
    BY <2>1, <2>2, <2>4
<1> QED
  BY <1>4, <1>5, <1>6

(* Whoever sleeps until some of the alarms, one after the other.            *)
SleepersOf(late) == FlattenSeq([i \in DOMAIN late |-> sleepers[late[i]]])

(* The threads that sleep for some of the alarms, in one sequence.          *)
LEMMA SleepersAre ==
  ASSUME PlacesInv, NEW late \in Seq(Nat), IsInjective(late),
         \A a \in Range(late) : a \in Range(alarms)
  PROVE  /\ SleepersOf(late) \in Seq(Threads) /\ IsInjective(SleepersOf(late))
         /\ \A u : u \in Range(SleepersOf(late)) <=> \E a \in Range(late) : u \in Range(sleepers[a])
<1> DEFINE ss == [i \in DOMAIN late |-> sleepers[late[i]]]
<1>1. /\ sleepers \in Seq(Seq(Threads)) /\ Len(sleepers) = Len(due) /\ due \in Seq(Nat)
      /\ \A a \in Range(alarms) : a \in DOMAIN due /\ IsInjective(sleepers[a])
      /\ \A a, b \in Range(alarms) : \A u : u \in Range(sleepers[a]) /\ u \in Range(sleepers[b]) => a = b
  BY RangeIn DEF PlacesInv, AlarmsOK
<1>4. /\ late \in Seq(Nat) /\ DOMAIN late = 1..Len(late) /\ Len(late) \in Nat
      /\ \A i \in DOMAIN late : late[i] \in Range(late)
  BY DEF Range
<1>5. ASSUME NEW i \in DOMAIN late
      PROVE  late[i] \in Range(alarms) /\ sleepers[late[i]] \in Seq(Threads)
  <2>1. late[i] \in Range(alarms) /\ late[i] \in DOMAIN due
    BY <1>1, <1>4
  <2>2. DOMAIN sleepers = DOMAIN due
    BY <1>1
  <2> QED
    BY <1>1, <2>1, <2>2
<1>6. DOMAIN ss = DOMAIN late /\ \A i \in DOMAIN late : ss[i] = sleepers[late[i]]
  OBVIOUS
<1>7. ss \in Seq(Seq(Threads))
  <2>1. ss \in [1..Len(late) -> Seq(Threads)]
    BY <1>4, <1>5
  <2> QED
    BY <1>4, <2>1
<1>8. SleepersOf(late) = FlattenSeq(ss)
  BY DEF SleepersOf
<1> HIDE DEF ss
<1>9. OnceInAll(ss)
  <2>1. \A i \in DOMAIN ss : IsInjective(ss[i])
    BY <1>1, <1>5, <1>6
  <2>2. ASSUME NEW i \in DOMAIN late, NEW j \in DOMAIN late, NEW u,
               u \in Range(sleepers[late[i]]), u \in Range(sleepers[late[j]])
        PROVE  i = j
    <3>1. late[i] = late[j]
      BY <1>1, <1>5, <2>2
    <3> QED
      BY <3>1 DEF IsInjective
  <2> QED
    BY <1>6, <2>1, <2>2 DEF OnceInAll
<1>10. /\ FlattenSeq(ss) \in Seq(Threads) /\ IsInjective(FlattenSeq(ss))
       /\ \A u : u \in Range(FlattenSeq(ss)) <=> \E i \in DOMAIN ss : u \in Range(ss[i])
  BY <1>7, <1>9, FlattenRange
<1>11. \A u : (\E i \in DOMAIN ss : u \in Range(ss[i])) <=>
                 \E a \in Range(late) : u \in Range(sleepers[a])
  <2>1. \A a \in Range(late) : \E i \in DOMAIN late : a = late[i]
    BY DEF Range
  <2> QED
    BY <1>4, <1>6, <2>1
<1> QED
  BY <1>8, <1>10, <1>11

(* Whoever sleeps until a triggered alarm awakens.                          *)
LEMMA AwakenedIs ==
  ASSUME PlacesInv
  PROVE  /\ Awakened \in Seq(Threads) /\ IsInjective(Awakened)
         /\ \A u : u \in Range(Awakened) <=> \E a \in Range(Triggered) : u \in Range(sleepers[a])
<1>1. /\ Triggered \in Seq(Nat) /\ IsInjective(Triggered)
      /\ \A a \in Range(Triggered) : a \in Range(alarms)
  BY CheckAlarmsIs
<1>2. Awakened = SleepersOf(Triggered)
  BY DEF Awakened, SleepersOf
<1>3. PICK late : late = Triggered
  OBVIOUS
<1>4. late \in Seq(Nat) /\ IsInjective(late) /\ \A a \in Range(late) : a \in Range(alarms)
  BY <1>1, <1>3
<1> QED
  BY <1>2, <1>3, <1>4, SleepersAre

(* The handlers of the pending signals are called.                          *)
LEMMA CallsAre ==
  ASSUME PlacesInv
  PROVE  /\ Calls \in Seq(Handlers) /\ IsInjective(Calls)
         /\ \A h : h \in Range(Calls) <=> \E s \in Pending : h \in Range(handlers[s])
<1> DEFINE hs == [i \in 1..Cardinality(Pending) |-> handlers[SetToSeq(Pending)[i]]]
<1>1. /\ handlers \in [SignalNames -> Seq(Handlers)]
      /\ \A s \in SignalNames : IsInjective(handlers[s])
      /\ \A r, s \in SignalNames : \A h : h \in Range(handlers[r]) /\ h \in Range(handlers[s]) => r = s
  BY DEF PlacesInv, HandlersOK
<1>2. PICK names : names = SetToSeq(Pending)
  OBVIOUS
<1>3. IsFiniteSet(Pending) /\ Pending \subseteq SignalNames
  BY NamesAre, FS_Subset DEF Pending
<1>4. names \in Seq(Pending) /\ Range(names) = Pending /\ IsInjective(names)
  BY <1>2, <1>3, SetToSeqIs
<1>5. DOMAIN names = 1..Cardinality(Pending) /\ Cardinality(Pending) \in Nat
  <2>1. Cardinality(Pending) \in Nat
    BY <1>3, FS_CardinalityType
  <2>2. PICK n \in Nat : n = Len(names)
    BY <1>4
  <2>3. names \in Bijection(1..n, Pending)
    <3>1. names \in [1..n -> Pending]
      BY <1>4, <2>2
    <3> QED
      BY <1>4, <2>2, <3>1, Zenon DEF Bijection, Injection, Surjection, IsInjective, Range
  <2>4. Cardinality(Pending) = n
    BY <1>3, <2>3, FS_CountingElements DEF ExistsBijection
  <2> QED
    BY <1>4, <2>2, <2>4
<1>6. \A i \in DOMAIN names : names[i] \in Pending /\ names[i] \in SignalNames
  BY <1>3, <1>4 DEF Range
<1>7. DOMAIN hs = DOMAIN names /\ \A i \in DOMAIN names : hs[i] = handlers[names[i]]
  BY <1>2, <1>5
<1>8. Calls = FlattenSeq(hs)
  BY DEF Calls
<1> HIDE DEF hs
<1>9. hs \in Seq(Seq(Handlers))
  <2>1. PICK n \in Nat : n = Cardinality(Pending)
    BY <1>5
  <2>2. DOMAIN hs = 1..n /\ \A i \in 1..n : hs[i] \in Seq(Handlers)
    BY <1>1, <1>5, <1>6, <1>7, <2>1
  <2>3. hs = [i \in 1..n |-> hs[i]]
    BY <1>5, <2>1 DEF hs
  <2>4. hs \in [1..n -> Seq(Handlers)]
    BY <2>2, <2>3
  <2> QED
    BY <2>4
<1>10. OnceInAll(hs)
  <2>1. \A i \in DOMAIN hs : IsInjective(hs[i])
    BY <1>1, <1>6, <1>7
  <2>2. ASSUME NEW i \in DOMAIN names, NEW j \in DOMAIN names, NEW h,
               h \in Range(handlers[names[i]]), h \in Range(handlers[names[j]])
        PROVE  i = j
    <3>1. names[i] = names[j]
      BY <1>1, <1>6, <2>2
    <3> QED
      BY <1>4, <3>1 DEF IsInjective
  <2> QED
    BY <1>7, <2>1, <2>2 DEF OnceInAll
<1>11. /\ FlattenSeq(hs) \in Seq(Handlers) /\ IsInjective(FlattenSeq(hs))
       /\ \A h : h \in Range(FlattenSeq(hs)) <=> \E i \in DOMAIN hs : h \in Range(hs[i])
  BY <1>9, <1>10, FlattenRange
<1>12. \A h : (\E i \in DOMAIN hs : h \in Range(hs[i])) <=> \E s \in Pending : h \in Range(handlers[s])
  <2>1. \A s \in Pending : \E i \in DOMAIN names : s = names[i]
    BY <1>4 DEF Range
  <2> QED
    BY <1>6, <1>7, <2>1
<1> QED
  BY <1>8, <1>11, <1>12

(* HandlePendingSignals moves sleepers to the run queue and puts handlers   *)
(* there that were nowhere.                                                 *)
LEMMA PlaceHandle ==
  ASSUME PlacesInv, HandlePendingSignals, UNCHANGED sets
  PROVE  PlacesInv'
<1>1. PICK woken, calls, late, kept :
        woken = Awakened /\ calls = Calls /\ late = Triggered /\ kept = Kept
  OBVIOUS
<1>2. /\ pc = "handle" /\ pc' = "clear" /\ queue' = (queue \o woken) \o calls
      /\ alarms' = kept /\ called' = called \cup Range(calls)
      /\ sleepers' = [a \in DOMAIN sleepers |-> IF a \in Range(late) THEN <<>> ELSE sleepers[a]]
      /\ handlers' = [s \in SignalNames |-> IF s \in Pending THEN <<>> ELSE handlers[s]]
      /\ UNCHANGED <<due, now, current, terminated, limit>>
  BY <1>1 DEF HandlePendingSignals, CheckAlarms, CallHandlers
<1>3. /\ late \in Seq(Nat) /\ kept \in Seq(DOMAIN due) /\ IsInjective(kept)
      /\ Range(alarms) = Range(late) \cup Range(kept) /\ Range(late) \cap Range(kept) = {}
  BY <1>1, CheckAlarmsIs
<1>4. /\ woken \in Seq(Threads) /\ IsInjective(woken)
      /\ \A u : u \in Range(woken) <=> \E a \in Range(late) : u \in Range(sleepers[a])
  BY <1>1, AwakenedIs
<1>5. /\ calls \in Seq(Handlers) /\ IsInjective(calls)
      /\ \A h : h \in Range(calls) <=> \E s \in Pending : h \in Range(handlers[s])
  BY <1>1, CallsAre
<1>6. /\ queue \in Seq(Everyone) /\ IsInjective(queue) /\ current = NoThread
      /\ Accounted(Where, Alive) /\ terminated \subseteq Threads \cup called
  BY <1>2 DEF PlacesInv, LoopOK
<1>7. /\ handlers \in [SignalNames -> Seq(Handlers)] /\ called \subseteq Handlers
      /\ \A s \in SignalNames : \A h : h \in Range(handlers[s]) => h \notin called
      /\ \A r, s \in SignalNames : \A h : h \in Range(handlers[r]) /\ h \in Range(handlers[s]) => r = s
  BY DEF PlacesInv, HandlersOK
<1>8. /\ sleepers \in Seq(Seq(Threads)) /\ Len(sleepers) = Len(due) /\ due \in Seq(Nat)
      /\ \A a \in Range(alarms) : a \in DOMAIN due /\ IsInjective(sleepers[a])
      /\ \A a, b \in Range(alarms) : \A u : u \in Range(sleepers[a]) /\ u \in Range(sleepers[b]) => a = b
  BY RangeIn DEF PlacesInv, AlarmsOK
<1>9. /\ \A h \in Range(calls) : h \in Handlers /\ h \in Everyone /\ h \notin Threads
                                  /\ h \notin called /\ h \notin Alive /\ h \notin terminated
      /\ \A u \in Range(woken) : u \in Threads /\ u \in Everyone /\ u \in Asleep /\ u \notin Handlers
  <2>1. ASSUME NEW h \in Range(calls)
        PROVE  h \in Handlers /\ h \notin called
    <3>1. PICK s \in Pending : h \in Range(handlers[s])
      BY <1>5
    <3>2. s \in SignalNames
      BY <3>1 DEF Pending
    <3> QED
      BY <1>5, <1>7, <3>1, <3>2, RangeIn
  <2>2. ASSUME NEW u \in Range(woken)
        PROVE  u \in Threads /\ u \in Asleep
    <3>1. u \in Threads
      BY <1>4, RangeIn
    <3>2. \E a \in Range(alarms) : u \in Range(sleepers[a])
      BY <1>3, <1>4
    <3> QED
      BY <3>1, <3>2 DEF Asleep
  <2> QED
    BY <1>6, <2>1, <2>2, NamesAre DEF Everyone, Alive
<1>10. "queue" \in PlaceNames /\ "alarms" \in PlaceNames
  BY DEF PlaceNames
<1>11. /\ \A u \in Range(woken) : u \in Where["alarms"] /\ u \in Alive
       /\ \A q \in PlaceNames : q # "alarms" => \A u \in Range(woken) : u \notin Where[q]
  <2>1. \A u \in Range(woken) : u \in Where["alarms"]
    BY <1>9, WhereIs
  <2> QED
    BY <1>6, <1>10, <2>1, Elsewhere
<1>12. \A q \in PlaceNames : \A h \in Range(calls) : h \notin Where[q]
  BY <1>6, <1>9 DEF Accounted
<1>13. PICK some : some = queue \o woken
  OBVIOUS
<1>14. /\ some \in Seq(Everyone) /\ IsInjective(some) /\ Range(some) = Range(queue) \cup Range(woken)
  <2>1. woken \in Seq(Everyone)
    BY <1>4, <1>9, SeqIn
  <2>2. Range(queue) \cap Range(woken) = {}
    BY <1>10, <1>11, WhereIs
  <2> QED
    BY <1>4, <1>6, <1>13, <2>1, <2>2, JoinRange
<1>15. /\ queue' \in Seq(Everyone) /\ IsInjective(queue')
       /\ Range(queue') = Range(some) \cup Range(calls)
  <2>1. calls \in Seq(Everyone)
    BY <1>5, <1>9, SeqIn
  <2>2. Range(some) \cap Range(calls) = {}
    <3>1. Range(queue) \cap Range(calls) = {}
      BY <1>10, <1>12, WhereIs
    <3>2. Range(woken) \cap Range(calls) = {}
      BY <1>9
    <3> QED
      BY <1>14, <3>1, <3>2
  <2>3. queue' = some \o calls
    BY <1>2, <1>13
  <2>4. /\ some \o calls \in Seq(Everyone) /\ IsInjective(some \o calls)
        /\ Range(some \o calls) = Range(some) \cup Range(calls)
    BY <1>5, <1>14, <2>1, <2>2, JoinRange
  <2> QED
    BY <2>3, <2>4
<1>16. LoopOK'
  BY <1>2, <1>6, <1>15 DEF PlacesInv, LoopOK
<1>17. HandlersOK'
  <2>1. Range(<<>>) = {} /\ IsInjective(<<>>) /\ <<>> \in Seq(Handlers)
    BY DEF Range, IsInjective
  <2>2. /\ handlers' \in [SignalNames -> Seq(Handlers)]
        /\ \A s \in SignalNames : IsInjective(handlers'[s])
    BY <1>2, <1>7, <2>1 DEF PlacesInv, HandlersOK
  <2>3. \A s \in SignalNames : \A h : h \in Range(handlers'[s]) => s \notin Pending /\ h \in Range(handlers[s])
    BY <1>2, <2>1
  <2>4. called' \subseteq Handlers
    BY <1>2, <1>7, <1>9
  <2>5. ASSUME NEW s \in SignalNames, NEW h, h \in Range(handlers'[s])
        PROVE  h \notin called'
    <3>1. s \notin Pending /\ h \in Range(handlers[s]) /\ h \notin called
      BY <1>7, <2>3, <2>5
    <3>2. ASSUME h \in Range(calls)
          PROVE  FALSE
      <4>1. PICK r \in Pending : h \in Range(handlers[r])
        BY <1>5, <3>2
      <4>2. r \in SignalNames
        BY <4>1 DEF Pending
      <4> QED
        BY <1>7, <3>1, <4>1, <4>2
    <3> QED
      BY <1>2, <3>1, <3>2
  <2>6. \A r, s \in SignalNames : \A h : h \in Range(handlers'[r]) /\ h \in Range(handlers'[s]) => r = s
    BY <1>7, <2>3
  <2> QED
    BY <2>2, <2>4, <2>5, <2>6 DEF HandlersOK
<1>18. PICK sl : sl = sleepers'
  OBVIOUS
<1>19. /\ sl \in Seq(Seq(Threads)) /\ Len(sl) = Len(due)
       /\ \A a \in DOMAIN due : sl[a] = IF a \in Range(late) THEN <<>> ELSE sleepers[a]
  <2>1. PICK n \in Nat : n = Len(sleepers)
    BY <1>8
  <2>0. DOMAIN sleepers = 1..n /\ DOMAIN due = 1..n
    BY <1>8, <2>1
  <2>2. DOMAIN sleepers = 1..n /\ DOMAIN due = 1..n /\ \A a \in 1..n : sleepers[a] \in Seq(Threads)
    BY <1>8, <2>0
  <2>3. <<>> \in Seq(Threads)
    OBVIOUS
  <2>4. sl \in [1..n -> Seq(Threads)]
    BY <1>2, <1>18, <2>2, <2>3
  <2>5. sl \in Seq(Seq(Threads)) /\ Len(sl) = Len(due)
    <3>1. sl \in Seq(Seq(Threads)) /\ Len(sl) = n
      BY <2>4
    <3> QED
      BY <1>8, <2>1, <3>1
  <2>6. \A a \in 1..n : sl[a] = IF a \in Range(late) THEN <<>> ELSE sleepers[a]
    BY <1>2, <1>18, <2>2
  <2> QED
    BY <2>2, <2>5, <2>6
<1>20. \A a \in Range(kept) : a \in Range(alarms) /\ sl[a] = sleepers[a]
  BY <1>3, <1>8, <1>19
<1>21. AlarmsOK'
  <2>1. \A a \in Range(kept) : IsInjective(sl[a])
    BY <1>8, <1>20
  <2>2. \A a, b \in Range(kept) : \A u : u \in Range(sl[a]) /\ u \in Range(sl[b]) => a = b
    BY <1>8, <1>20
  <2>3. alarms' = kept /\ due' = due /\ now' = now /\ sleepers' = sl
    BY <1>2, <1>18
  <2>4. now \in Nat /\ kept \in Seq(DOMAIN due) /\ sl \in Seq(Seq(Threads)) /\ Len(sl) = Len(due)
    BY <1>3, <1>19 DEF PlacesInv, AlarmsOK
  <2> QED
    BY <1>3, <1>8, <2>1, <2>2, <2>3, <2>4 DEF AlarmsOK
<1>22. \A u : u \in Asleep' <=> u \in Asleep /\ u \notin Range(woken)
  <2> SUFFICES ASSUME NEW u
               PROVE  u \in Asleep' <=> u \in Asleep /\ u \notin Range(woken)
    OBVIOUS
  <2>1. u \in Asleep' <=> u \in Threads /\ \E a \in Range(kept) : u \in Range(sleepers[a])
    <3>1. Asleep' = {v \in Threads : \E a \in Range(kept) : v \in Range(sl[a])}
      BY <1>2, <1>18 DEF Asleep
    <3> QED
      BY <1>20, <3>1
  <2>2. u \in Asleep <=> u \in Threads /\ \E a \in Range(alarms) : u \in Range(sleepers[a])
    BY DEF Asleep
  <2>3. ASSUME NEW a \in Range(kept), u \in Range(sleepers[a]), u \in Range(woken)
        PROVE  FALSE
    <3>1. PICK b \in Range(late) : u \in Range(sleepers[b])
      BY <1>4, <2>3
    <3>2. a \in Range(alarms) /\ b \in Range(alarms)
      BY <1>3
    <3>3. a = b
      BY <1>8, <2>3, <3>1, <3>2
    <3> QED
      BY <1>3, <3>1, <3>3
  <2>4. ASSUME NEW a \in Range(alarms), u \in Range(sleepers[a]), u \notin Range(woken)
        PROVE  a \in Range(kept)
    BY <1>3, <1>4, <2>4
  <2> QED
    BY <1>3, <2>1, <2>2, <2>3, <2>4
<1>23. PICK M : M = Range(woken) \cup Range(calls)
  OBVIOUS
<1>24. \A u : u \in Where'["queue"] <=> u \in Where["queue"] \/ u \in M
  BY <1>14, <1>15, <1>23, WhereIs, WhereNext
<1>25. \A q \in PlaceNames : q # "queue" => \A u : u \in Where'[q] <=> u \in Where[q] /\ u \notin M
  <2>1. \A u : u \in Where'["alarms"] <=> u \in Where["alarms"] /\ u \notin M
    <3>1. \A u : u \in Where'["alarms"] <=> u \in Where["alarms"] /\ u \notin Range(woken)
      BY <1>22, WhereIs, WhereNext
    <3> QED
      BY <1>10, <1>12, <1>23, <3>1
  <2>2. \A q \in PlaceNames : q # "alarms" => \A u \in M : u \notin Where[q]
    BY <1>11, <1>12, <1>23
  <2>3. Where'["current"] = Where["current"]
    BY <1>2, WhereIs, WhereNext
  <2>4. \A s \in SetNames : Where'[s] = Where[s]
    BY SetsStay
  <2>5. \A q \in PlaceNames : q # "queue" /\ q # "alarms" => Where'[q] = Where[q]
    BY <2>3, <2>4 DEF PlaceNames
  <2> QED
    BY <2>1, <2>2, <2>5
<1>26. Accounted(Where', Alive \cup M)
  BY <1>6, <1>10, <1>24, <1>25, MoveMany
<1>27. Accounted(Where, Alive)'
  <2>1. Alive' = Alive \cup M
    BY <1>2, <1>9, <1>11, <1>23 DEF Alive
  <2> QED
    BY <1>26, <2>1
<1>28. SetsOK'
  BY DEF PlacesInv, SetsOK
<1> QED
  BY <1>16, <1>17, <1>21, <1>27, <1>28 DEF PlacesInv

-----------------------------------------------------------------------------
(***************************************************************************)
(* The system call of a thread that is running concerns an IODesc that is   *)
(* open, and the one it is to try again.                                    *)
(***************************************************************************)
OpInv ==
    operation # NoOperation =>
      /\ pc = "run" /\ current \in Threads
      /\ operation.desc \in DOMAIN descs /\ IsOpen(operation.desc)
      /\ retry[current] \in {0, operation.desc}

(* Without a system call there is nothing to prove.                         *)
LEMMA OpNone == operation' = NoOperation => OpInv'
  BY DEF OpInv

(* A step that leaves the thread, its call and the descriptors alone.       *)
LEMMA OpStays == OpInv /\ UNCHANGED <<operation, pc, current, descs, retry>> => OpInv'
  BY DEF OpInv, IsOpen

(* A read or write is begun by a thread on an IODesc that is open.          *)
LEMMA OpReadOrWrite ==
  ASSUME DescInv, OpInv, NEW t \in Threads, Running(t), NEW d \in DOMAIN descs, ReadOrWrite(t, d)
  PROVE  OpInv'
<1>1. /\ pc' = "run" /\ current' = t /\ UNCHANGED descs
      /\ retry \in [Threads -> {0} \cup DOMAIN descs]
  BY DEF ReadOrWrite, Running, threads, DescInv, DescsOK
<1>2. CASE operation' = NoOperation
  BY <1>2, OpNone
<1>3. CASE operation' # NoOperation
  <2>1. /\ operation' = [call |-> "wait", desc |-> d] /\ IsOpen(d)
        /\ retry' = [retry EXCEPT ![t] = d]
    BY <1>3 DEF ReadOrWrite
  <2>2. operation'.desc = d /\ retry'[t] = d /\ d \in DOMAIN descs' /\ IsOpen(d)'
    BY <1>1, <2>1 DEF IsOpen
  <2> QED
    BY <1>1, <2>2 DEF OpInv, IsOpen
<1> QED
  BY <1>2, <1>3

(* The wait ends the system call.                                           *)
LEMMA OpWaitForDesc ==
  ASSUME OpInv, NEW t \in Threads, Running(t), WaitForDesc(t)
  PROVE  OpInv'
<1>1. operation # NoOperation /\ UNCHANGED <<descs, retry>>
  BY DEF WaitForDesc, NoOperation
<1>2. CASE operation' = NoOperation
  BY <1>2, OpNone
<1>3. CASE operation' # NoOperation
  <2>1. /\ operation' = [call |-> "retry", desc |-> operation.desc]
        /\ retry[t] = operation.desc /\ UNCHANGED <<pc, current>>
    BY <1>3 DEF WaitForDesc
  <2>2. operation'.desc = operation.desc
    BY <2>1
  <2> QED
    BY <1>1, <2>1, <2>2 DEF OpInv, IsOpen
<1> QED
  BY <1>2, <1>3

(* DoBlock waits for an IODesc that is open.                                *)
LEMMA OpDoBlock ==
  ASSUME DescInv, NEW t \in Threads, Running(t), NEW d \in DOMAIN descs, DoBlock(t, d)
  PROVE  OpInv'
<1>1. /\ pc' = "run" /\ current' = t /\ UNCHANGED <<descs, retry>> /\ retry[t] = 0 /\ IsOpen(d)
      /\ operation' = [call |-> "wait", desc |-> d]
  BY DEF DoBlock, Running, threads
<1>2. operation'.desc = d
  BY <1>1
<1> QED
  BY <1>1, <1>2 DEF OpInv, IsOpen

(* What the steps of a thread are about.                                    *)
LEMMA DescsNamed ==
  DescInv => reach \subseteq DOMAIN descs /\ Reachable \ {0} \subseteq DOMAIN descs
  BY DEF DescInv, DescsOK, Reachable

(* No call of a thread leaves a system call behind that is another's.       *)
LEMMA OpRunThread ==
  ASSUME DescInv, OpInv, NEW t \in Threads \cup Handlers, Running(t), Call(t)
  PROVE  OpInv'
<1>1. CASE operation = NoOperation /\ UNCHANGED descriptors
  BY <1>1, OpNone DEF descriptors
<1>2. ASSUME t \in Threads, NEW d \in Reachable \ {0}, ReadOrWrite(t, d)
      PROVE  OpInv'
  BY <1>2, DescsNamed, OpReadOrWrite
<1>3. CASE t \in Threads /\ WaitForDesc(t)
  BY <1>3, OpWaitForDesc
<1>4. CASE \E dir \in {"reader", "writer"} : NewFromFD(dir)
  BY <1>4, OpNone DEF NewFromFD
<1>5. ASSUME t \in Threads, NEW d \in reach,
             ReadOrWriteNonblocking(t, d) \/ DoBlock(t, d) \/ WaitConnected(t, d) \/ Close(d) \/ Forget(d)
      PROVE  OpInv'
  <2>1. CASE DoBlock(t, d)
    BY <1>5, <2>1, DescsNamed, OpDoBlock
  <2>2. CASE ~DoBlock(t, d)
    <3>1. operation' = NoOperation
      BY <1>5, <2>2 DEF ReadOrWriteNonblocking, WaitConnected, Close, CloseDesc, Forget
    <3> QED
      BY <3>1, OpNone
  <2> QED
    BY <2>1, <2>2
<1> QED
  BY <1>1, <1>2, <1>3, <1>4, <1>5 DEF Call

(* Every step keeps the invariant of the system call.                       *)
LEMMA OpNext ==
  ASSUME DescInv, OpInv, [Next]_vars
  PROVE  OpInv'
<1>1. CASE UNCHANGED vars
  BY <1>1, OpStays DEF vars, threads, descriptors
<1>2. CASE RunThread
  BY <1>2, OpRunThread DEF RunThread
<1>3. CASE LoopStep \/ Terminate
  <2>1. operation' = operation /\ (operation = NoOperation \/ pc # "run")
    BY <1>3 DEF LoopStep, Terminate, Dequeue, QueueEmpty, Preempt, CollectGarbage, Poll, Block,
         EndSelect, Schedule, TestSignalStatus, HandlePendingSignals, ClearStatus, descriptors
  <2>2. operation' = NoOperation
    BY <2>1 DEF OpInv
  <2> QED
    BY <2>2, OpNone
<1>4. CASE FinalizeSome
  <2>1. operation' = operation /\ pc = "gc"
    BY <1>4 DEF FinalizeSome, Finalize, CloseDesc
  <2> QED
    BY <2>1, OpNone DEF OpInv
<1>5. CASE Outside
  <2>1. UNCHANGED <<operation, current, descs, retry>> /\ (pc = "run" => pc' = pc)
    BY <1>5 DEF Outside, Tick, TimePasses, Deliver, Interrupt, BecomeReady, threads, descriptors
  <2>2. CASE operation = NoOperation
    BY <2>1, <2>2, OpNone
  <2>3. CASE operation # NoOperation
    BY <2>1, <2>3, OpStays DEF OpInv
  <2> QED
    BY <2>2, <2>3
<1> QED
  BY <1>1, <1>2, <1>3, <1>4, <1>5 DEF Next

-----------------------------------------------------------------------------
(***************************************************************************)
(* Every step keeps every thread in its place, or moves it.                *)
(***************************************************************************)
LEMMA PlacesInit == Init => PlacesInv
<1> SUFFICES ASSUME Init
             PROVE  PlacesInv
  OBVIOUS
<1>1. /\ queue = SetToSeq(Threads) /\ current = NoThread /\ pc = "dequeue" /\ terminated = {}
      /\ limit \in Limits /\ handlers = [s \in SignalNames |-> <<>>] /\ called = {}
      /\ alarms = <<>> /\ due = <<>> /\ sleepers = <<>> /\ now = 0
      /\ sets = [s \in SetNames |-> <<>>]
  BY DEF Init, SignalsInit, DescriptorsInit
<1>2. queue \in Seq(Threads) /\ Range(queue) = Threads /\ IsInjective(queue)
  BY <1>1, NamesAre, SetToSeqIs
<1>3. queue \in Seq(Everyone)
  BY <1>2, SeqIn DEF Everyone
<1>4. Range(<<>>) = {} /\ IsInjective(<<>>) /\ DOMAIN <<>> = {}
  BY DEF Range, IsInjective
<1>5. LoopOK /\ HandlersOK
  BY <1>1, <1>3, <1>2, <1>4, NamesAre DEF LoopOK, HandlersOK
<1>6. AlarmsOK
  BY <1>1, <1>4 DEF AlarmsOK
<1>7. SetsOK
  <2>1. SetOK(<<>>)
    BY <1>4 DEF SetOK, WaitsFor
  <2> QED
    BY <1>1, <2>1 DEF SetsOK
<1>8. Where["queue"] = Threads /\ \A q \in PlaceNames : q # "queue" => Where[q] = {}
  <2>1. Where["alarms"] = {} /\ Where["current"] = {}
    BY <1>1, <1>4, WhereIs DEF Asleep
  <2>2. \A s \in SetNames : Where[s] = {}
    BY <1>1, <1>4, WhereIs DEF WaitsFor
  <2> QED
    BY <1>2, <2>1, <2>2, WhereIs DEF PlaceNames
<1>9. "queue" \in PlaceNames /\ Alive = Threads
  BY <1>1 DEF PlaceNames, Alive
<1>10. Accounted(Where, Alive)
  BY <1>8, <1>9 DEF Accounted
<1> QED
  BY <1>5, <1>6, <1>7, <1>10 DEF PlacesInv

(* The loop of Scheduler::Run loses no thread.                              *)
LEMMA PlaceLoopStep ==
  ASSUME PlacesInv, LoopStep
  PROVE  PlacesInv'
<1>0. now \in Nat
  BY DEF PlacesInv, AlarmsOK
<1>1. CASE QueueEmpty \/ CollectGarbage
  BY <1>0, <1>1, NobodyMoves DEF QueueEmpty, CollectGarbage, signals, timers, descriptors, placeVars
<1>2. CASE (TestSignalStatus \/ ClearStatus) /\ UNCHANGED descriptors
  <2>1. UNCHANGED placeVars /\ pc # "run" /\ pc' # "run" /\ now' = now
    BY <1>2 DEF TestSignalStatus, ClearStatus, signals, timers, descriptors, placeVars
  <2> QED
    BY <1>0, <2>1, NobodyMoves
<1>3. CASE HandlePendingSignals /\ UNCHANGED descriptors
  BY <1>3, PlaceHandle DEF descriptors
<1> QED
  BY <1>1, <1>2, <1>3, PlaceDequeue, PlacePreempt, PlacePoll DEF LoopStep

(* No call of a thread loses a thread.                                      *)
LEMMA PlaceRunThread ==
  ASSUME DescInv, OpInv, PlacesInv, NEW t \in Threads \cup Handlers, Running(t), Call(t)
  PROVE  PlacesInv'
<1>0. now \in Nat
  BY DEF PlacesInv, AlarmsOK
<1>1. ASSUME UNCHANGED descriptors, NEW s \in SignalNames, RegisterSignal(s)
      PROVE  PlacesInv'
  BY <1>1, PlaceRegisterSignal DEF descriptors
<1>2. ASSUME UNCHANGED descriptors, NEW ms \in Delays, RegisterAlarm(ms)
      PROVE  PlacesInv'
  BY <1>2, PlaceRegisterAlarm DEF descriptors
<1>3. ASSUME UNCHANGED descriptors, t \in Threads, NEW a \in DOMAIN due, Sleep(t, a)
      PROVE  PlacesInv'
  BY <1>3, PlaceSleep DEF descriptors
<1>4. ASSUME NEW d, ReadOrWrite(t, d) \/ ReadOrWriteNonblocking(t, d) \/ DoBlock(t, d) \/ Forget(d),
             UNCHANGED <<status, signals, timers>>
      PROVE  PlacesInv'
  <2>1. UNCHANGED placeVars /\ pc' = pc /\ now' = now
    BY <1>4 DEF ReadOrWrite, ReadOrWriteNonblocking, DoBlock, Forget, threads, signals, timers, placeVars
  <2> QED
    BY <1>0, <2>1, NobodyMoves
<1>5. ASSUME NEW dir, NewFromFD(dir), UNCHANGED <<status, signals, timers>>
      PROVE  PlacesInv'
  <2>1. UNCHANGED placeVars /\ pc' = pc /\ now' = now
    BY <1>5 DEF NewFromFD, threads, signals, timers, placeVars
  <2> QED
    BY <1>0, <2>1, NobodyMoves
<1>6. CASE t \in Threads /\ WaitForDesc(t) /\ UNCHANGED <<status, signals, timers>>
  <2>1. operation.desc \in DOMAIN descs
    BY <1>6 DEF WaitForDesc, NoOperation, OpInv
  <2> QED
    BY <1>6, <2>1, PlaceWaitForDesc
<1>7. ASSUME t \in Threads, NEW d \in reach, WaitConnected(t, d), UNCHANGED <<status, signals, timers>>
      PROVE  PlacesInv'
  BY <1>7, DescsNamed, PlaceWaitConnected
<1>8. ASSUME NEW d, Close(d), UNCHANGED <<status, signals, timers>>
      PROVE  PlacesInv'
  BY <1>8, PlaceCloseDesc DEF Close
<1> QED
  BY <1>1, <1>2, <1>3, <1>4, <1>5, <1>6, <1>7, <1>8 DEF Call

(* Every step keeps every thread in its one place.                          *)
LEMMA PlacesNext ==
  ASSUME DescInv, OpInv, PlacesInv, [Next]_vars
  PROVE  PlacesInv'
<1>0. now \in Nat
  BY DEF PlacesInv, AlarmsOK
<1>1. CASE UNCHANGED vars
  <2>1. UNCHANGED placeVars /\ pc' = pc /\ now' = now
    BY <1>1 DEF vars, threads, signals, timers, descriptors, placeVars
  <2> QED
    BY <1>0, <2>1, NobodyMoves
<1>2. CASE RunThread
  BY <1>2, PlaceRunThread DEF RunThread
<1>3. CASE FinalizeSome
  BY <1>3, PlaceCloseDesc DEF FinalizeSome, Finalize
<1>4. CASE Outside
  <2>1. UNCHANGED placeVars /\ (pc' = "run" <=> pc = "run") /\ now' \in Nat
    BY <1>0, <1>4 DEF Outside, Tick, TimePasses, Deliver, Interrupt, BecomeReady,
         threads, signals, timers, descriptors, placeVars
  <2> QED
    BY <2>1, NobodyMoves
<1> QED
  BY <1>1, <1>2, <1>3, <1>4, PlaceLoopStep, PlaceTerminate DEF Next

-----------------------------------------------------------------------------
(***************************************************************************)
(* The invariants of Spec.                                                 *)
(***************************************************************************)
IInv == DescInv /\ OpInv /\ PlacesInv

(* The invariants hold initially.                                           *)
LEMMA IInvInit == Init => IInv
<1>1. Init => operation = NoOperation
  BY DEF Init, DescriptorsInit
<1> QED
  BY <1>1, DescInit, PlacesInit DEF IInv, OpInv

(* Together they are inductive.                                             *)
LEMMA IInvNext == IInv /\ [Next]_vars => IInv'
  BY DescNext, OpNext, PlacesNext DEF IInv

(* In a sequence that has a thread at most once Places counts it once.      *)
Times(q, t) == Cardinality({i \in DOMAIN q : q[i] = t})

(* What occurs at most once is counted once or not at all.                  *)
LEMMA TimesIs ==
  ASSUME NEW T, NEW q \in Seq(T), IsInjective(q), NEW t
  PROVE  Times(q, t) = IF t \in Range(q) THEN 1 ELSE 0
  BY Occurrences DEF Times

(* One place for each thread that lives, none for the others.               *)
LEMMA PlacesAre ==
  ASSUME PlacesInv, NEW t \in Everyone
  PROVE  Places(t) = IF t \in Alive THEN 1 ELSE 0
<1> DEFINE one(p) == IF t \in Where[p] THEN 1 ELSE 0
<1>1. /\ queue \in Seq(Everyone) /\ IsInjective(queue) /\ Accounted(Where, Alive)
      /\ \A s \in SetNames : SetOK(sets[s])
      /\ alarms \in Seq(DOMAIN due) /\ IsInjective(alarms) /\ DOMAIN due \subseteq Nat
  BY DEF PlacesInv, LoopOK, SetsOK, AlarmsOK
<1>2. PICK q : q = queue
  OBVIOUS
<1>3. Times(q, t) = one("queue")
  BY <1>1, <1>2, TimesIs, WhereIs
<1>4. PICK as, sleep : as = alarms /\ sleep = SleepersOf(as)
  OBVIOUS
<1>5. Times(sleep, t) = one("alarms")
  <2>1. as \in Seq(Nat) /\ IsInjective(as) /\ \A a \in Range(as) : a \in Range(alarms)
    BY <1>1, <1>4
  <2>2. /\ sleep \in Seq(Threads) /\ IsInjective(sleep)
        /\ \A u : u \in Range(sleep) <=> \E a \in Range(as) : u \in Range(sleepers[a])
    BY <1>4, <2>1, SleepersAre
  <2>3. \A u \in Range(sleep) : u \in Threads
    BY <2>2, RangeIn
  <2>4. t \in Range(sleep) <=> t \in Where["alarms"]
    BY <1>4, <2>2, <2>3, WhereIs DEF Asleep
  <2> QED
    BY <2>2, <2>4, TimesIs
<1>6. ASSUME NEW s \in SetNames
      PROVE  Times(Waiters(sets[s]), t) = one(s)
  <2>1. PICK set, w : set = sets[s] /\ w = Waiters(set)
    OBVIOUS
  <2>2. SetOK(set)
    BY <1>1, <2>1
  <2>3. /\ w \in Seq(Threads) /\ IsInjective(w)
        /\ \A u : u \in Range(w) <=> \E g : WaitsFor(set, u, g)
    BY <2>1, <2>2, WaitersIs
  <2>4. \A u \in Range(w) : u \in Threads
    BY <2>3, RangeIn
  <2>5. t \in Range(w) <=> t \in Where[s]
    BY <2>1, <2>3, <2>4, WhereIs
  <2> QED
    BY <2>1, <2>3, <2>5, TimesIs
<1>7. (IF current = t THEN 1 ELSE 0) = one("current")
  BY NamesAre, WhereIs
<1>8. Places(t) = Times(queue, t) + (IF current = t THEN 1 ELSE 0) + Times(SleepersOf(alarms), t)
                  + Times(Waiters(sets["Readable"]), t) + Times(Waiters(sets["Writable"]), t)
                  + Times(Waiters(sets["Connected"]), t)
  BY DEF Places, Times, SleepersOf
<1>9. "Readable" \in SetNames /\ "Writable" \in SetNames /\ "Connected" \in SetNames
  BY DEF SetNames
<1>10. Places(t) = one("queue") + one("current") + one("alarms")
                   + one("Readable") + one("Writable") + one("Connected")
  <2> HIDE DEF one
  <2> QED
    BY <1>2, <1>3, <1>4, <1>5, <1>6, <1>7, <1>8, <1>9
<1>11. PlaceNames = {"queue", "current", "alarms", "Readable", "Writable", "Connected"}
  BY DEF PlaceNames, SetNames
<1>12. CASE t \notin Alive
  <2>1. \A p \in PlaceNames : one(p) = 0
    BY <1>1, <1>12 DEF Accounted
  <2> HIDE DEF one
  <2> QED
    BY <1>10, <1>11, <1>12, <2>1
<1>13. CASE t \in Alive
  <2>1. PICK p \in PlaceNames : t \in Where[p]
    BY <1>1, <1>13 DEF Accounted
  <2>2. one(p) = 1 /\ \A r \in PlaceNames : r # p => one(r) = 0
    BY <1>1, <2>1, Elsewhere
  <2>3. /\ p = "queue" \/ p = "current" \/ p = "alarms" \/ p = "Readable"
           \/ p = "Writable" \/ p = "Connected"
    BY <1>11
  <2> HIDE DEF one
  <2> QED
    BY <1>10, <1>11, <1>13, <2>2, <2>3
<1> QED
  BY <1>12, <1>13

(* IODesc::Close, also when it is called again or by the garbage           *)
(* collector, closes no file descriptor of another IODesc and leaves none *)
(* open that nobody would close.                                          *)
THEOREM DescriptorsCorrect == Spec => []OpenIffRegistered
<1>1. DescInv => OpenIffRegistered
  BY DEF DescInv
<1> QED
  BY DescInit, DescNext, <1>1, PTL DEF Spec

(* No interleaving of signals, alarms, descriptors that become ready, are   *)
(* closed or finalized, and the loop of Scheduler::Run loses a thread or    *)
(* puts it in two places.                                                  *)
THEOREM NoThreadIsLost == Spec => []ThreadsAccounted
<1>1. ASSUME PlacesInv
      PROVE  ThreadsAccounted
  <2>1. current # NoThread <=> pc = "run"
    BY <1>1 DEF PlacesInv, LoopOK
  <2>2. \A t \in Threads : Places(t) = (IF t \in terminated THEN 0 ELSE 1)
    BY <1>1, PlacesAre DEF Everyone, Alive
  <2>3. \A h \in Handlers : Places(h) = (IF h \in called \ terminated THEN 1 ELSE 0)
    BY <1>1, PlacesAre, NamesAre DEF Everyone, Alive
  <2> QED
    BY <2>1, <2>2, <2>3 DEF ThreadsAccounted
<1>2. IInv => ThreadsAccounted
  BY <1>1 DEF IInv
<1> QED
  BY IInvInit, IInvNext, <1>2, PTL DEF Spec

-----------------------------------------------------------------------------
(***************************************************************************)
(* Whom threads wait for: a file descriptor that is open, and that of the   *)
(* IODesc they will try again.                                             *)
(***************************************************************************)
TriesAgain(u, s, g) ==
    retry[u] # 0 => IsOpen(retry[u]) /\ descs[retry[u]].fd = g /\ SetOf(retry[u]) = s

StaleInv ==
    \A s \in SetNames :
      /\ FDsOf(sets[s]) \subseteq open
      /\ \A u, g : WaitsFor(sets[s], u, g) => TriesAgain(u, s, g)

(* What a step that adds nobody to a set keeps.                             *)
LEMMA StaleFewer ==
  ASSUME StaleInv,
         \A s \in SetNames : /\ FDsOf(sets'[s]) \subseteq FDsOf(sets[s])
                             /\ FDsOf(sets'[s]) \subseteq open'
                             /\ \A u, g : WaitsFor(sets'[s], u, g) => WaitsFor(sets[s], u, g),
         \A s \in SetNames : \A u, g :
            /\ WaitsFor(sets[s], u, g) => retry'[u] = retry[u]
            /\ WaitsFor(sets'[s], u, g) /\ retry[u] # 0 => descs'[retry[u]] = descs[retry[u]]
  PROVE  StaleInv'
<1>1. ASSUME NEW s \in SetNames, NEW u, NEW g, WaitsFor(sets'[s], u, g)
      PROVE  TriesAgain(u, s, g)'
  <2>1. WaitsFor(sets[s], u, g) /\ retry'[u] = retry[u]
    BY <1>1
  <2>2. TriesAgain(u, s, g)
    BY <2>1 DEF StaleInv
  <2>3. retry[u] # 0 => descs'[retry[u]] = descs[retry[u]]
    BY <1>1
  <2> QED
    BY <2>1, <2>2, <2>3 DEF TriesAgain, IsOpen, SetOf
<1> QED
  BY <1>1 DEF StaleInv

(* A step that leaves sets, descriptors and retried operations alone.       *)
LEMMA StaleStutter == StaleInv /\ UNCHANGED <<sets, open, retry, descs>> => StaleInv'
  BY DEF StaleInv, TriesAgain, IsOpen, SetOf

(* The thread that runs waits for nothing.                                  *)
LEMMA RunnerWaitsNot ==
  ASSUME PlacesInv, NEW t \in Threads, Running(t)
  PROVE  \A s \in SetNames : \A g : ~WaitsFor(sets[s], t, g)
<1>1. t \in Where["current"]
  BY NamesAre, WhereIs DEF Running, Everyone
<1>2. "current" \in PlaceNames /\ \A s \in SetNames : s \in PlaceNames /\ s # "current"
  BY DEF PlaceNames, SetNames
<1>3. \A s \in SetNames : t \notin Where[s]
  BY <1>1, <1>2, Elsewhere DEF PlacesInv
<1> QED
  BY <1>3, WhereIs

(* Poll and Block take entries away and nothing else.                       *)
LEMMA StaleSchedule ==
  ASSUME PlacesInv, StaleInv, NEW fs, Schedule(fs)
  PROVE  StaleInv'
<1>1. UNCHANGED <<open, retry, descs>> /\ \A s \in SetNames : sets'[s] = Left(sets[s], fs)
  BY DEF Schedule, system
<1>2. ASSUME NEW s \in SetNames
      PROVE  /\ FDsOf(sets'[s]) \subseteq FDsOf(sets[s])
             /\ FDsOf(sets'[s]) \subseteq open'
             /\ \A u, g : WaitsFor(sets'[s], u, g) => WaitsFor(sets[s], u, g)
  <2>1. PICK set : set = sets[s]
    OBVIOUS
  <2>2. SetOK(set)
    BY <2>1 DEF PlacesInv, SetsOK
  <2>3. /\ FDsOf(Left(set, fs)) = FDsOf(set) \ fs
        /\ \A u, g : WaitsFor(Left(set, fs), u, g) => WaitsFor(set, u, g)
    BY <2>2, ScheduleIs
  <2>4. FDsOf(set) \subseteq open
    BY <2>1 DEF StaleInv
  <2> QED
    BY <1>1, <2>1, <2>3, <2>4
<1> QED
  BY <1>1, <1>2, StaleFewer

(* Threads that wait for the file descriptor of the IODesc that is closed   *)
(* are woken, so that no other IODesc with that number can wake them.       *)
LEMMA StaleCloseDesc ==
  ASSUME DescInv, PlacesInv, StaleInv, NEW d \in DOMAIN descs, CloseDesc(d)
  PROVE  StaleInv'
<1>1. CASE ~IsOpen(d)
  <2>1. UNCHANGED <<sets, open, retry>>
    BY <1>1 DEF CloseDesc
  <2>2. descs' = descs
    <3>1. descs[d] \in Kinds /\ descs[d].type = "CLOSED"
      <4>1. descs[d] \in Kinds
        BY DEF DescInv, DescsOK
      <4> QED
        BY <1>1, <4>1 DEF Kinds, IsOpen
    <3>2. descs' = [descs EXCEPT ![d].type = "CLOSED"]
      BY DEF CloseDesc
    <3>3. [descs[d] EXCEPT !.type = "CLOSED"] = descs[d]
      BY <3>1 DEF Kinds
    <3>4. descs = [e \in DOMAIN descs |-> descs[e]]
      BY DEF DescInv, DescsOK
    <3> QED
      BY <3>2, <3>3, <3>4
  <2> QED
    BY <2>1, <2>2, StaleStutter
<1>2. CASE IsOpen(d)
  <2>1. PICK f : f = descs[d].fd
    OBVIOUS
  <2>2. /\ retry' = retry /\ open' = open \ {f}
        /\ \A s \in SetNames : sets'[s] = RemoveEntry(sets[s], f)
        /\ \A e \in DOMAIN descs : e # d => descs'[e] = descs[e]
    BY <1>2, <2>1 DEF CloseDesc
  <2>3. ASSUME NEW s \in SetNames
        PROVE  /\ FDsOf(sets'[s]) = FDsOf(sets[s]) \ {f} /\ FDsOf(sets[s]) \subseteq open
               /\ \A u, g : WaitsFor(sets'[s], u, g) <=> WaitsFor(sets[s], u, g) /\ g # f
    <3>1. PICK set : set = sets[s]
      OBVIOUS
    <3>2. SetOK(set)
      BY <3>1 DEF PlacesInv, SetsOK
    <3>3. /\ FDsOf(RemoveEntry(set, f)) = FDsOf(set) \ {f}
          /\ \A u, g : WaitsFor(RemoveEntry(set, f), u, g) <=> WaitsFor(set, u, g) /\ g # f
      BY <3>2, RemoveEntryIs
    <3>4. FDsOf(set) \subseteq open
      BY <3>1 DEF StaleInv
    <3> QED
      BY <2>2, <3>1, <3>3, <3>4
  <2>4. ASSUME NEW s \in SetNames, NEW u, NEW g, WaitsFor(sets'[s], u, g), retry[u] # 0
        PROVE  descs'[retry[u]] = descs[retry[u]]
    <3>1. WaitsFor(sets[s], u, g) /\ g # f
      BY <2>3, <2>4
    <3>2. TriesAgain(u, s, g)
      BY <3>1 DEF StaleInv
    <3>3. retry[u] # d
      BY <2>1, <2>4, <3>1, <3>2 DEF TriesAgain
    <3>4. u \in Threads
      BY <3>1, WaitsIs DEF PlacesInv, SetsOK
    <3>5. retry[u] \in DOMAIN descs
      BY <2>4, <3>4 DEF DescInv, DescsOK
    <3> QED
      BY <2>2, <3>3, <3>5
  <2>5. \A s \in SetNames : /\ FDsOf(sets'[s]) \subseteq FDsOf(sets[s])
                            /\ FDsOf(sets'[s]) \subseteq open'
                            /\ \A u, g : WaitsFor(sets'[s], u, g) => WaitsFor(sets[s], u, g)
    BY <2>2, <2>3
  <2> QED
    BY <2>2, <2>4, <2>5, StaleFewer
<1> QED
  BY <1>1, <1>2

(* Who waits for an IODesc that is open, and tries no other again.          *)
LEMMA StaleAdd ==
  ASSUME DescInv, PlacesInv, StaleInv, NEW t \in Threads, Running(t), NEW s \in SetNames,
         NEW d \in DOMAIN descs, IsOpen(d), retry[t] # 0 => retry[t] = d /\ SetOf(d) = s,
         sets' = [sets EXCEPT ![s] = Add(@, descs[d].fd, t)], UNCHANGED <<open, retry, descs>>
  PROVE  StaleInv'
<1>1. PICK f, old, new : f = descs[d].fd /\ old = sets[s] /\ new = Add(old, f, t)
  OBVIOUS
<1>2. f \in FDs /\ f \in open
  <2>1. descs[d] \in Kinds
    BY DEF DescInv, DescsOK
  <2> QED
    BY <1>1, <2>1 DEF Kinds, DescInv, OpenIffRegistered
<1>3. DOMAIN sets = SetNames /\ SetOK(old)
  BY <1>1 DEF PlacesInv, SetsOK
<1>4. \A g : ~WaitsFor(old, t, g)
  BY <1>1, RunnerWaitsNot
<1>5. /\ FDsOf(new) = FDsOf(old) \cup {f}
      /\ \A u, g : WaitsFor(new, u, g) <=> WaitsFor(old, u, g) \/ (u = t /\ g = f)
  BY <1>1, <1>2, <1>3, <1>4, AddIs
<1>6. /\ sets'[s] = new /\ \A r \in SetNames : r # s => sets'[r] = sets[r]
  BY <1>1, <1>3
<1>7. \A r \in SetNames : \A u, g : TriesAgain(u, r, g) => TriesAgain(u, r, g)'
  BY DEF TriesAgain, IsOpen, SetOf
<1>8. TriesAgain(t, s, f)'
  BY <1>1 DEF TriesAgain, IsOpen, SetOf
<1>9. ASSUME NEW r \in SetNames
      PROVE  /\ FDsOf(sets'[r]) \subseteq open
             /\ \A u, g : WaitsFor(sets'[r], u, g) => TriesAgain(u, r, g)'
  <2>1. /\ FDsOf(sets[r]) \subseteq open
        /\ \A u, g : WaitsFor(sets[r], u, g) => TriesAgain(u, r, g)
    BY DEF StaleInv
  <2>2. CASE r # s
    BY <1>6, <1>7, <2>1, <2>2
  <2>3. CASE r = s
    <3>1. FDsOf(old) \subseteq open /\ \A u, g : WaitsFor(old, u, g) => TriesAgain(u, s, g)'
      BY <1>1, <1>7, <2>1, <2>3
    <3> QED
      BY <1>2, <1>5, <1>6, <1>8, <2>3, <3>1
  <2> QED
    BY <2>2, <2>3
<1> QED
  BY <1>9 DEF StaleInv

(* Changes to what nobody who waits refers to.                              *)
LEMMA StaleElsewhere ==
  ASSUME DescInv, PlacesInv, StaleInv, NEW t \in Threads, Running(t), sets' = sets,
         open \subseteq open', \A u \in Threads : u # t => retry'[u] = retry[u],
         \A e \in DOMAIN descs : descs'[e] = descs[e]
  PROVE  StaleInv'
<1>1. ASSUME NEW s \in SetNames, NEW u, NEW g, WaitsFor(sets[s], u, g)
      PROVE  retry'[u] = retry[u] /\ retry[u] \in {0} \cup DOMAIN descs
  <2>1. u # t
    BY <1>1, RunnerWaitsNot
  <2>2. u \in Threads
    BY <1>1, WaitsIs DEF PlacesInv, SetsOK
  <2> QED
    BY <2>1, <2>2 DEF DescInv, DescsOK
<1>2. \A s \in SetNames : FDsOf(sets[s]) \subseteq open
  BY DEF StaleInv
<1> QED
  BY <1>1, <1>2, StaleFewer

(* Nobody waits initially.                                                  *)
LEMMA StaleInit == Init => StaleInv
<1> SUFFICES ASSUME Init
             PROVE  StaleInv
  OBVIOUS
<1>1. \A s \in SetNames : sets[s] = <<>>
  BY DEF Init, DescriptorsInit
<1>2. Range(<<>>) = {}
  BY DEF Range
<1> QED
  BY <1>1, <1>2 DEF StaleInv, FDsOf, WaitsFor

(* A thread enters a set with the number of the IODesc that it will try     *)
(* again, and Close wakes those that wait for the number.                   *)
LEMMA StaleRunThread ==
  ASSUME DescInv, OpInv, PlacesInv, StaleInv, NEW t \in Threads \cup Handlers, Running(t), Call(t)
  PROVE  StaleInv'
<1>1. CASE UNCHANGED descriptors
  BY <1>1, StaleStutter DEF descriptors
<1>2. ASSUME t \in Threads, NEW d, ReadOrWrite(t, d)
      PROVE  StaleInv'
  <2>1. sets' = sets /\ open' = open /\ descs' = descs
    BY <1>2 DEF ReadOrWrite
  <2>2. \A u \in Threads : u # t => retry'[u] = retry[u]
    BY <1>2 DEF ReadOrWrite, DescInv, DescsOK
  <2> QED
    BY <1>2, <2>1, <2>2, StaleElsewhere
<1>3. ASSUME t \in Threads, NEW dir \in {"reader", "writer"}, NewFromFD(dir)
      PROVE  StaleInv'
  <2>1. sets' = sets /\ open \subseteq open' /\ retry' = retry
    BY <1>3 DEF NewFromFD
  <2>2. \A e \in DOMAIN descs : descs'[e] = descs[e]
    BY <1>3 DEF NewFromFD, DescInv, DescsOK
  <2> QED
    BY <1>3, <2>1, <2>2, StaleElsewhere
<1>4. CASE t \in Threads /\ WaitForDesc(t)
  <2>1. PICK d : d = operation.desc
    OBVIOUS
  <2>2. operation # NoOperation
    BY <1>4 DEF WaitForDesc, NoOperation
  <2>3. d \in DOMAIN descs /\ IsOpen(d) /\ retry[t] \in {0, d}
    BY <2>1, <2>2 DEF OpInv, Running
  <2>4. SetOf(d) \in SetNames /\ UNCHANGED <<open, retry, descs>>
    BY <1>4 DEF SetOf, SetNames, WaitForDesc, system
  <2>5. CASE descs[d].fd \in ready
    BY <1>4, <2>1, <2>4, <2>5, StaleStutter DEF WaitForDesc
  <2>6. CASE descs[d].fd \notin ready
    <3>1. PICK s : s = SetOf(d)
      OBVIOUS
    <3>2. sets' = [sets EXCEPT ![s] = Add(@, descs[d].fd, t)]
      BY <1>4, <2>1, <2>6, <3>1 DEF WaitForDesc
    <3>3. retry[t] # 0 => retry[t] = d /\ SetOf(d) = s
      BY <2>3, <3>1
    <3> QED
      BY <1>4, <2>3, <2>4, <3>1, <3>2, <3>3, StaleAdd
  <2> QED
    BY <2>5, <2>6
<1>5. ASSUME t \in Threads, NEW d \in reach, WaitConnected(t, d)
      PROVE  StaleInv'
  <2>1. PICK s : s = "Connected"
    OBVIOUS
  <2>2. /\ sets' = [sets EXCEPT ![s] = Add(@, descs[d].fd, t)] /\ retry[t] = 0 /\ IsOpen(d)
        /\ UNCHANGED <<open, retry, descs>>
    BY <1>5, <2>1 DEF WaitConnected, system
  <2>3. s \in SetNames /\ d \in DOMAIN descs
    BY <2>1, DescsNamed DEF SetNames
  <2> QED
    BY <1>5, <2>2, <2>3, StaleAdd
<1>6. ASSUME NEW d \in reach, ReadOrWriteNonblocking(t, d) \/ DoBlock(t, d) \/ Forget(d)
      PROVE  StaleInv'
  BY <1>6, StaleStutter DEF ReadOrWriteNonblocking, DoBlock, Forget, system
<1>7. ASSUME NEW d \in reach, Close(d)
      PROVE  StaleInv'
  BY <1>7, DescsNamed, StaleCloseDesc DEF Close
<1> QED
  BY <1>1, <1>2, <1>3, <1>4, <1>5, <1>6, <1>7 DEF Call

(* Every step keeps those that wait up to date.                             *)
LEMMA StaleNext ==
  ASSUME DescInv, OpInv, PlacesInv, StaleInv, [Next]_vars
  PROVE  StaleInv'
<1>1. CASE UNCHANGED vars
  BY <1>1, StaleStutter DEF vars, descriptors
<1>2. CASE RunThread
  BY <1>2, StaleRunThread DEF RunThread
<1>3. CASE Poll \/ Block \/ EndSelect
  BY <1>3, StaleSchedule DEF Poll, Block, EndSelect
<1>4. CASE Terminate \/ (LoopStep /\ ~(Poll \/ Block \/ EndSelect))
  <2>1. UNCHANGED descriptors
    BY <1>4 DEF LoopStep, Terminate, Dequeue, QueueEmpty, Preempt, CollectGarbage
  <2> QED
    BY <2>1, StaleStutter DEF descriptors
<1>5. CASE FinalizeSome
  BY <1>5, StaleCloseDesc DEF FinalizeSome, Finalize
<1>6. CASE Outside
  <2>1. UNCHANGED <<sets, open, retry, descs>>
    BY <1>6 DEF Outside, BecomeReady, descriptors
  <2> QED
    BY <2>1, StaleStutter
<1> QED
  BY <1>1, <1>2, <1>3, <1>4, <1>5, <1>6 DEF Next

(* A thread never waits for a number that was closed, or that belongs to    *)
(* another IODesc than the one it will read or write again: IODesc::Close   *)
(* and finalization wake those that wait before the number can be given to  *)
(* another.                                                                *)
THEOREM NobodyWaitsForAnother == Spec => []WaitersNotStale
<1>1. ASSUME PlacesInv, StaleInv
      PROVE  WaitersNotStale
  <2> SUFFICES ASSUME NEW s \in SetNames, NEW i \in DOMAIN sets[s], NEW j \in DOMAIN sets[s]
               PROVE  /\ sets[s][i].fd \in open
                      /\ sets[s][i].fd = sets[s][j].fd => i = j
                      /\ \A t \in Range(sets[s][i].waiters) : TriesAgain(t, s, sets[s][i].fd)
    BY DEF WaitersNotStale, TriesAgain
  <2>1. PICK set, e : set = sets[s] /\ e = set[i]
    OBVIOUS
  <2>2. SetOK(set) /\ e \in Range(set)
    BY <1>1, <2>1 DEF PlacesInv, SetsOK, Range
  <2>3. FDsOf(set) \subseteq open /\ \A u, g : WaitsFor(set, u, g) => TriesAgain(u, s, g)
    BY <1>1, <2>1 DEF StaleInv
  <2>4. e.fd \in open /\ \A t \in Range(e.waiters) : WaitsFor(set, t, e.fd)
    BY <2>2, <2>3 DEF FDsOf, WaitsFor
  <2>5. set[i].fd = set[j].fd => i = j
    BY <2>1, <2>2 DEF SetOK
  <2> QED
    BY <2>1, <2>3, <2>4, <2>5
<1>2. Init => IInv /\ StaleInv
  BY IInvInit, StaleInit
<1>3. IInv /\ StaleInv /\ [Next]_vars => (IInv /\ StaleInv)'
  BY IInvNext, StaleNext DEF IInv
<1>4. IInv /\ StaleInv => WaitersNotStale
  BY <1>1 DEF IInv
<1> QED
  BY <1>2, <1>3, <1>4, PTL DEF Spec

-----------------------------------------------------------------------------
(***************************************************************************)
(* The list of alarms is sorted, so that CheckAlarms may stop at the first  *)
(* alarm that is not late.                                                 *)
(***************************************************************************)
Sorted == SortedBy(alarms, due)

(* The new alarm is behind those that are not later, and they are before    *)
(* those that are.                                                         *)
LEMMA InsertAlarmSorted ==
  ASSUME PlacesInv, Sorted, NEW time \in Nat, NEW a, a \in Nat, NEW key,
         key[a] = time, a \notin DOMAIN due, \A b \in DOMAIN due : key[b] = due[b]
  PROVE  SortedBy(InsertAlarm(a, time), key)
<1> DEFINE notLater == {b \in DOMAIN due : due[b] <= time}
           first == Filter(alarms, notLater)
           last == Filter(alarms, DOMAIN due \ notLater)
<1>1. /\ alarms \in Seq(DOMAIN due) /\ due \in Seq(Nat) /\ DOMAIN due \subseteq Nat
      /\ \A b \in Range(alarms) : b \in DOMAIN due
  BY RangeIn DEF PlacesInv, AlarmsOK
<1>2. PICK all : all = alarms
  OBVIOUS
<1>3. all \in Seq(Nat) /\ DOMAIN all = 1..Len(all) /\ \A i \in DOMAIN all : all[i] \in DOMAIN due
  <2>1. \A i \in DOMAIN all : all[i] \in Range(all)
    BY DEF Range
  <2>2. all \in Seq(Nat)
    BY <1>1, <1>2
  <2> QED
    BY <1>1, <1>2, <2>1, <2>2
<1>4. SortedBy(all, key)
  BY <1>2, <1>3 DEF Sorted, SortedBy
<1>5. InsertAlarm(a, time) = (first \o <<a>>) \o last
  BY DEF InsertAlarm
<1>6. PICK early, others : early = notLater /\ others = DOMAIN due \ early
  OBVIOUS
<1>7. first = Filter(all, early) /\ last = Filter(all, others)
  BY <1>2, <1>6
<1>8. /\ \A b \in early : b \in DOMAIN due /\ key[b] \in Nat /\ key[b] <= time
      /\ \A b \in others : b \in DOMAIN due /\ key[b] \in Nat /\ time <= key[b]
  BY <1>1, <1>6
<1> HIDE DEF notLater, first, last
<1>9. /\ first \in Seq(Nat) /\ SortedBy(first, key) /\ \A b \in Range(first) : b \in early
      /\ last \in Seq(Nat) /\ SortedBy(last, key) /\ \A b \in Range(last) : b \in others
  BY <1>3, <1>4, <1>7, FilterRange, FilterSorted
<1>10. PICK one : one = <<a>>
  OBVIOUS
<1>11. one \in Seq(Nat) /\ Range(one) = {a} /\ SortedBy(one, key)
  BY <1>10 DEF Range, SortedBy
<1>12. PICK two : two = first \o one
  OBVIOUS
<1>13. two \in Seq(Nat) /\ SortedBy(two, key) /\ Range(two) = Range(first) \cup {a}
  <2>1. \A x \in Range(first), y \in Range(one) : key[x] <= key[y]
    BY <1>8, <1>9, <1>11
  <2> QED
    BY <1>9, <1>11, <1>12, <2>1, JoinRange, JoinSorted
<1>14. SortedBy(two \o last, key)
  <2>1. \A x \in Range(two), y \in Range(last) : key[x] <= key[y]
    <3> SUFFICES ASSUME NEW x \in Range(two), NEW y \in Range(last)
                 PROVE  key[x] <= key[y]
      OBVIOUS
    <3>1. key[x] \in Nat /\ key[x] <= time
      BY <1>8, <1>9, <1>13
    <3>2. key[y] \in Nat /\ time <= key[y]
      BY <1>8, <1>9
    <3> QED
      BY <3>1, <3>2
  <2> QED
    BY <1>9, <1>13, <2>1, JoinSorted
<1> QED
  BY <1>5, <1>10, <1>12, <1>14

(* The alarms that CheckAlarms keeps are those whose time has not come.     *)
LEMMA KeptAre ==
  ASSUME PlacesInv, Sorted
  PROVE  /\ SortedBy(Kept, due)
         /\ \A a \in Range(alarms) : a \in Range(Kept) <=> due[a] > now
<1>1. /\ alarms \in Seq(DOMAIN due) /\ due \in Seq(Nat) /\ now \in Nat /\ DOMAIN due \subseteq Nat
      /\ \A b \in Range(alarms) : b \in DOMAIN due /\ due[b] \in Nat
  BY RangeIn DEF PlacesInv, AlarmsOK
<1>2. alarms \in Seq(Nat)
  BY <1>1
<1>3. PICK n \in 0..Len(alarms) :
         /\ \A i \in 1..n : ~(due[alarms[i]] > now)
         /\ Kept = SubSeq(alarms, n + 1, Len(alarms))
         /\ n < Len(alarms) => due[alarms[n + 1]] > now
  BY <1>2, TriggeredIs
<1>a. PICK all, rest : all = alarms /\ rest = Kept
  OBVIOUS
<1>b. PICK l \in Nat : l = Len(alarms)
  BY <1>2
<1>4. all = alarms /\ rest = Kept /\ l = Len(alarms)
  BY <1>a, <1>b
<1>5. /\ DOMAIN all = 1..l /\ n \in 0..l /\ rest \in Seq(Nat) /\ DOMAIN rest = 1..(l - n)
      /\ \A i \in 1..l : due[all[i]] \in Nat
  <2>1. DOMAIN all = 1..l /\ n \in 0..l
    BY <1>2, <1>4
  <2>2. rest \in Seq(Nat) /\ DOMAIN rest = 1..(l - n)
    <3>1. rest = SubSeq(all, n + 1, l) /\ all \in Seq(Nat) /\ l = Len(all)
      BY <1>2, <1>3, <1>4
    <3> QED
      BY <2>1, <3>1
  <2>3. \A i \in 1..l : all[i] \in Range(alarms)
    BY <1>4, <2>1 DEF Range
  <2> QED
    BY <1>1, <2>1, <2>2, <2>3
<1>6. \A i \in 1..(l - n) : n + i \in 1..l /\ rest[i] = all[n + i]
  <2> SUFFICES ASSUME NEW i \in 1..(l - n)
               PROVE  n + i \in 1..l /\ rest[i] = all[n + i]
    OBVIOUS
  <2>1. rest[i] = all[(n + 1) + i - 1]
    BY <1>2, <1>3, <1>4
  <2>2. (n + 1) + i - 1 = n + i /\ n + i \in 1..l
    BY <1>5
  <2> QED
    BY <2>1, <2>2
<1>7. \A i, j \in 1..l : i < j => due[all[i]] <= due[all[j]]
  BY <1>4, <1>5 DEF Sorted, SortedBy
<1>8. SortedBy(rest, due)
  <2> SUFFICES ASSUME NEW i \in 1..(l - n), NEW j \in 1..(l - n), i < j
               PROVE  due[rest[i]] <= due[rest[j]]
    BY <1>5 DEF SortedBy
  <2>1. n + i < n + j
    BY <1>5
  <2> QED
    BY <1>6, <1>7, <2>1
<1>9. \A i \in 1..l : due[all[i]] > now <=> ~(i <= n)
  <2> SUFFICES ASSUME NEW i \in 1..l
               PROVE  due[all[i]] > now <=> ~(i <= n)
    OBVIOUS
  <2>1. CASE i <= n
    <3>1. i \in 1..n
      BY <1>5, <2>1
    <3> QED
      BY <1>3, <1>4, <2>1, <3>1
  <2>2. CASE ~(i <= n)
    <3>1. n + 1 \in 1..l /\ (i = n + 1 \/ n + 1 < i) /\ n < l
      BY <1>5, <2>2
    <3>2. due[all[n + 1]] > now
      BY <1>3, <1>4, <3>1
    <3>3. due[all[n + 1]] <= due[all[i]]
      <4>1. CASE i = n + 1
        BY <1>5, <4>1
      <4>2. CASE n + 1 < i
        BY <1>7, <3>1, <4>2
      <4> QED
        BY <3>1, <4>1, <4>2
    <3>4. due[all[n + 1]] \in Nat /\ due[all[i]] \in Nat
      BY <1>5, <3>1
    <3> QED
      BY <1>1, <2>2, <3>2, <3>3, <3>4
  <2> QED
    BY <2>1, <2>2
<1>10. ASSUME NEW a \in Range(alarms)
       PROVE  a \in Range(Kept) <=> due[a] > now
  <2>1. PICK i \in 1..l : a = all[i]
    BY <1>4, <1>5 DEF Range
  <2>2. ASSUME a \in Range(rest)
        PROVE  due[a] > now
    <3>1. PICK j \in 1..(l - n) : a = rest[j]
      BY <1>5, <2>2 DEF Range
    <3>2. n + j \in 1..l /\ a = all[n + j] /\ ~(n + j <= n)
      BY <1>5, <1>6, <3>1
    <3> QED
      BY <1>9, <3>2
  <2>3. ASSUME due[a] > now
        PROVE  a \in Range(rest)
    <3>1. ~(i <= n)
      BY <1>9, <2>1, <2>3
    <3>2. i - n \in 1..(l - n) /\ n + (i - n) = i
      BY <1>5, <3>1
    <3>3. rest[i - n] = a
      BY <1>6, <2>1, <3>2
    <3> QED
      BY <1>5, <3>2, <3>3 DEF Range
  <2> QED
    BY <1>4, <2>2, <2>3
<1> QED
  BY <1>4, <1>8, <1>10

(* A step that leaves the alarms alone.                                     *)
LEMMA SortedStutter == Sorted /\ UNCHANGED <<alarms, due>> => Sorted'
  BY DEF Sorted

(* RegisterAlarm inserts in order, CheckAlarms takes from the front.        *)
LEMMA SortedNext ==
  ASSUME PlacesInv, Sorted, [Next]_vars
  PROVE  Sorted'
<1>1. CASE UNCHANGED <<alarms, due>>
  BY <1>1, SortedStutter
<1>2. CASE HandlePendingSignals
  <2>1. alarms' = Kept /\ due' = due
    BY <1>2 DEF HandlePendingSignals, CheckAlarms
  <2> QED
    BY <2>1, KeptAre DEF Sorted
<1>3. ASSUME NEW ms \in Delays, RegisterAlarm(ms)
      PROVE  Sorted'
  <2>1. PICK a, time : a = Len(due) + 1 /\ time = now + ms
    OBVIOUS
  <2>2. due' = Append(due, time) /\ alarms' = InsertAlarm(a, time)
    BY <1>3, <2>1 DEF RegisterAlarm
  <2>3. due \in Seq(Nat) /\ now \in Nat
    BY DEF PlacesInv, AlarmsOK
  <2>4. time \in Nat
    BY <2>1, <2>3, DelaysAssumption DEF DelaysAssumption
  <2>5. PICK key : key = due'
    OBVIOUS
  <2>6. /\ a \in Nat /\ a \notin DOMAIN due /\ key[a] = time
        /\ \A b \in DOMAIN due : key[b] = due[b]
    BY <2>1, <2>2, <2>3, <2>4, <2>5
  <2>7. SortedBy(InsertAlarm(a, time), key)
    BY <2>4, <2>6, InsertAlarmSorted
  <2> QED
    BY <2>2, <2>5, <2>7 DEF Sorted
<1>4. UNCHANGED <<alarms, due>> \/ HandlePendingSignals \/ \E ms \in Delays : RegisterAlarm(ms)
  <2>1. CASE UNCHANGED vars \/ Terminate \/ FinalizeSome \/ Outside
    BY <2>1 DEF vars, Terminate, FinalizeSome, Outside, Tick, TimePasses, Deliver, timers
  <2>2. CASE LoopStep
    BY <2>2 DEF LoopStep, Dequeue, QueueEmpty, Preempt, CollectGarbage, TestSignalStatus, ClearStatus, timers
  <2>3. CASE RunThread
    BY <2>3 DEF RunThread, Call, RegisterSignal, Sleep, timers
  <2> QED
    BY <2>1, <2>2, <2>3 DEF Next
<1> QED
  BY <1>1, <1>2, <1>3, <1>4

(* Only HandlePendingSignals leads from the step that handles signals to    *)
(* the one that clears the status word.                                    *)
LEMMA Handles ==
  ASSUME [Next]_vars, pc = "handle", pc' = "clear"
  PROVE  HandlePendingSignals
<1>1. CASE UNCHANGED vars \/ Terminate \/ FinalizeSome \/ Outside
  BY <1>1 DEF vars, Terminate, FinalizeSome, Finalize, Outside, Tick, TimePasses, Deliver, Interrupt,
     BecomeReady, threads
<1>2. CASE LoopStep
  BY <1>2 DEF LoopStep, Dequeue, QueueEmpty, Preempt, CollectGarbage, Poll, Block, EndSelect,
     TestSignalStatus, ClearStatus
<1>3. CASE RunThread
  BY <1>3 DEF RunThread, Running
<1> QED
  BY <1>1, <1>2, <1>3 DEF Next

(* CheckAlarms triggers all alarms that are due and no others, in whatever  *)
(* order and with whatever delays they were registered.                    *)
THEOREM AlarmsAreOnTime == Spec => AlarmsOnTime
<1>1. Init => IInv /\ Sorted
  <2>1. Init => alarms = <<>>
    BY DEF Init, SignalsInit
  <2>2. alarms = <<>> => Sorted
    BY DEF Sorted, SortedBy
  <2> QED
    BY <2>1, <2>2, IInvInit
<1>2. IInv /\ Sorted /\ [Next]_vars => (IInv /\ Sorted)'
  BY IInvNext, SortedNext DEF IInv
<1>3. ASSUME IInv, Sorted, [Next]_vars
      PROVE  [pc = "handle" /\ pc' = "clear" =>
                 \A a \in Range(alarms) : a \in Range(alarms') <=> due[a] > now]_vars
  <2>1. ASSUME pc = "handle", pc' = "clear"
        PROVE  \A a \in Range(alarms) : a \in Range(alarms') <=> due[a] > now
    <3>1. alarms' = Kept
      BY <1>3, <2>1, Handles DEF HandlePendingSignals, CheckAlarms
    <3> QED
      BY <1>3, <3>1, KeptAre DEF IInv
  <2> QED
    BY <2>1
<1> QED
  BY <1>1, <1>2, <1>3, PTL DEF Spec, AlarmsOnTime

=============================================================================
