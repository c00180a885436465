--------------------------- MODULE SchedulerProofs ---------------------------
(***************************************************************************)
(* The safety properties of Scheduler hold for any sets of threads,        *)
(* transients and values and any number of uncaught-exception closures.    *)
(***************************************************************************)
EXTENDS Scheduler, SequenceTheorems, TLAPS

(***************************************************************************)
(* Queues of distinct threads.                                             *)
(***************************************************************************)

\* Enqueueing a thread that does not occur (Queue::Enqueue).
LEMMA AppendDistinct ==
  ASSUME NEW S, NEW q \in Seq(S), NEW t \in S,
         NoDuplicates(q), ~Occurs(t, q)
  PROVE  /\ Append(q, t) \in Seq(S)
         /\ NoDuplicates(Append(q, t))
         /\ \A u : Occurs(u, Append(q, t)) <=> Occurs(u, q) \/ u = t
<1>1. /\ Append(q, t) \in Seq(S)
      /\ Len(Append(q, t)) = Len(q) + 1
      /\ DOMAIN Append(q, t) = 1..(Len(q) + 1)
      /\ \A i \in 1..Len(q) : Append(q, t)[i] = q[i]
      /\ Append(q, t)[Len(q) + 1] = t
  BY AppendProperties
<1>2. DOMAIN q = 1..Len(q) /\ Len(q) \in Nat
  BY LenProperties
<1>3. NoDuplicates(Append(q, t))
  BY <1>1, <1>2 DEF NoDuplicates, Occurs
<1>4. \A u : Occurs(u, Append(q, t)) <=> Occurs(u, q) \/ u = t
  BY <1>1, <1>2 DEF Occurs
<1>5. QED
  BY <1>1, <1>3, <1>4

\* Dequeueing from a queue that is not empty (Queue::Dequeue).
LEMMA TailDistinct ==
  ASSUME NEW S, NEW q \in Seq(S), q # <<>>, NoDuplicates(q)
  PROVE  /\ Head(q) \in S /\ Tail(q) \in Seq(S)
         /\ Occurs(Head(q), q)
         /\ NoDuplicates(Tail(q))
         /\ \A u : Occurs(u, Tail(q)) <=> Occurs(u, q) /\ u # Head(q)
<1>1. /\ Head(q) \in S /\ Tail(q) \in Seq(S)
      /\ Len(Tail(q)) = Len(q) - 1
      /\ \A i \in 1..Len(Tail(q)) : Tail(q)[i] = q[i + 1]
  BY HeadTailProperties
<1>2. DOMAIN q = 1..Len(q) /\ Len(q) \in Nat \ {0}
  BY LenProperties, EmptySeq
<1>3. DOMAIN Tail(q) = 1..Len(q) - 1
  BY <1>1, <1>2
<1>4. Head(q) = q[1]
  OBVIOUS
<1>5. Occurs(Head(q), q)
  BY <1>2, <1>4 DEF Occurs
<1>6. NoDuplicates(Tail(q))
  <2> SUFFICES ASSUME NEW i \in 1..Len(q) - 1, NEW j \in 1..Len(q) - 1,
                      Tail(q)[i] = Tail(q)[j]
               PROVE  i = j
    BY <1>3 DEF NoDuplicates
  <2>1. q[i + 1] = q[j + 1]
    BY <1>1, <1>2
  <2>2. QED
    BY <2>1, <1>2 DEF NoDuplicates
<1>7. ASSUME NEW u
      PROVE  Occurs(u, Tail(q)) <=> Occurs(u, q) /\ u # Head(q)
  <2>1. ASSUME NEW i \in 1..Len(q) - 1, Tail(q)[i] = u
        PROVE  Occurs(u, q) /\ u # Head(q)
    <3>1. i + 1 \in DOMAIN q /\ q[i + 1] = u /\ 1 \in DOMAIN q /\ i + 1 # 1
      BY <2>1, <1>1, <1>2
    <3>2. QED
      BY <3>1, <1>4 DEF Occurs, NoDuplicates
  <2>2. ASSUME NEW i \in 1..Len(q), q[i] = u, u # Head(q)
        PROVE  Occurs(u, Tail(q))
    <3>1. i # 1
      BY <2>2, <1>4
    <3>2. i - 1 \in 1..Len(q) - 1 /\ Tail(q)[i - 1] = q[i]
      BY <3>1, <1>1, <1>2
    <3>3. QED
      BY <3>2, <2>2, <1>3 DEF Occurs
  <2>3. QED
    BY <2>1, <2>2, <1>2, <1>3 DEF Occurs
<1>8. QED
  BY <1>1, <1>5, <1>6, <1>7

\* Removing a thread (Queue::Remove).
LEMMA RemoveDistinct ==
  ASSUME NEW S, NEW q \in Seq(S), NEW t, NoDuplicates(q)
  PROVE  /\ RemoveThread(q, t) \in Seq(S)
         /\ NoDuplicates(RemoveThread(q, t))
         /\ \A u : Occurs(u, RemoveThread(q, t)) <=> Occurs(u, q) /\ u # t
<1>1. DOMAIN q = 1..Len(q) /\ Len(q) \in Nat /\ \A i \in 1..Len(q) : q[i] \in S
  BY LenProperties, ElementOfSeq
<1>2. CASE ~Occurs(t, q)
  <2>1. RemoveThread(q, t) = q
    BY <1>1, <1>2 DEF RemoveThread, Occurs
  <2>2. QED
    BY <2>1, <1>2
<1>3. CASE Occurs(t, q)
  <2>1. PICK k \in 1..Len(q) : q[k] = t
    BY <1>1, <1>3 DEF Occurs
  <2>3. RemoveThread(q, t) = SubSeq(q, 1, k - 1) \o SubSeq(q, k + 1, Len(q))
    <3>1. k = CHOOSE j \in DOMAIN q :
                q[j] = t /\ \A i \in 1..(j - 1) : q[i] # t
      BY <1>1, <2>1 DEF NoDuplicates
    <3>2. QED
      BY <1>3, <3>1 DEF RemoveThread, RemoveAt
  <2> DEFINE a == SubSeq(q, 1, k - 1)
             b == SubSeq(q, k + 1, Len(q))
             r == a \o b
  <2>4. /\ a \in Seq(S) /\ Len(a) = k - 1
        /\ \A i \in 1..k - 1 : a[i] = q[i]
    BY <1>1, <2>1, SubSeqProperties
  <2>5. /\ b \in Seq(S) /\ Len(b) = Len(q) - k
        /\ \A i \in 1..Len(q) - k : b[i] = q[i + k]
    <3>1. /\ b \in Seq(S)
          /\ Len(b) = IF k + 1 <= Len(q) THEN Len(q) - (k + 1) + 1 ELSE 0
          /\ \A i \in 1..Len(q) - (k + 1) + 1 : b[i] = q[k + 1 + i - 1]
      BY <1>1, <2>1, SubSeqProperties
    <3> HIDE DEF b
    <3>2. ASSUME NEW i \in 1..Len(q) - k
          PROVE  b[i] = q[i + k]
      <4>1. i \in 1..Len(q) - (k + 1) + 1 /\ k + 1 + i - 1 = i + k
        BY <1>1
      <4>2. QED
        BY <3>1, <4>1
    <3>3. Len(b) = Len(q) - k
      <4>1. Len(b) = IF k + 1 <= Len(q) THEN Len(q) - (k + 1) + 1 ELSE 0
        BY <3>1
      <4>2. k \in Nat /\ k <= Len(q) /\ Len(q) \in Nat
        BY <1>1
      <4>3. QED
        BY <4>1, <4>2
    <3>4. QED
      BY <3>1, <3>2, <3>3
  <2>6. /\ r \in Seq(S) /\ Len(r) = Len(q) - 1
        /\ \A i \in 1..Len(q) - 1 : r[i] = IF i < k THEN q[i] ELSE q[i + 1]
    <3> HIDE DEF a, b
    <3>1. /\ a \o b \in Seq(S) /\ Len(a \o b) = Len(a) + Len(b)
          /\ \A i \in 1..Len(a) + Len(b) : (a \o b)[i] =
               IF i <= Len(a) THEN a[i] ELSE b[i - Len(a)]
      BY <2>4, <2>5, ConcatProperties
    <3>2. ASSUME NEW i \in 1..Len(q) - 1
          PROVE  r[i] = IF i < k THEN q[i] ELSE q[i + 1]
      <4>1. r[i] = IF i <= k - 1 THEN a[i] ELSE b[i - (k - 1)]
        BY <3>1, <2>4, <2>5, <1>1
      <4>2. CASE i < k
        BY <4>1, <4>2, <2>4, <1>1
      <4>3. CASE ~(i < k)
        <5>1. i - (k - 1) \in 1..Len(q) - k /\ i - (k - 1) + k = i + 1
          BY <4>3, <1>1
        <5>2. QED
          BY <4>1, <4>3, <5>1, <2>5, <1>1
      <4>4. QED
        BY <4>2, <4>3
    <3>3. QED
      BY <3>1, <3>2, <2>4, <2>5, <1>1
  <2>7. DOMAIN r = 1..Len(q) - 1
    BY <2>6, LenProperties
  <2> HIDE DEF r
  <2>8. NoDuplicates(r)
    <3> SUFFICES ASSUME NEW i \in 1..Len(q) - 1, NEW j \in 1..Len(q) - 1,
                        r[i] = r[j]
                 PROVE  i = j
      BY <2>7 DEF NoDuplicates
    <3> DEFINE at(m) == IF m < k THEN m ELSE m + 1
    <3>1. /\ at(i) \in DOMAIN q /\ at(j) \in DOMAIN q
          /\ q[at(i)] = q[at(j)]
      BY <2>6, <1>1
    <3>2. at(i) = at(j)
      BY <3>1 DEF NoDuplicates
    <3>3. QED
      BY <3>2, <1>1
  <2>9. ASSUME NEW u
        PROVE  Occurs(u, r) <=> Occurs(u, q) /\ u # t
    <3>1. ASSUME NEW i \in 1..Len(q) - 1, r[i] = u
          PROVE  Occurs(u, q) /\ u # t
      <4>1. PICK j \in 1..Len(q) : q[j] = u /\ j # k
        BY <3>1, <2>6, <1>1, <2>1
      <4>2. QED
        BY <4>1, <1>1, <2>1 DEF Occurs, NoDuplicates
    <3>2. ASSUME NEW j \in 1..Len(q), q[j] = u, u # t
          PROVE  Occurs(u, r)
      <4>1. j # k
        BY <3>2, <2>1
      <4>2. PICK i \in 1..Len(q) - 1 : r[i] = u
        <5>1. CASE j < k
          BY <5>1, <3>2, <2>6, <1>1, <2>1
        <5>2. CASE j > k
          <6>1. j - 1 \in 1..Len(q) - 1 /\ ~(j - 1 < k) /\ (j - 1) + 1 = j
            BY <5>2, <1>1, <2>1
          <6>2. QED
            BY <6>1, <3>2, <2>6
        <5>3. QED
          BY <5>1, <5>2, <4>1, <1>1, <2>1
      <4>3. QED
        BY <4>2, <2>7 DEF Occurs
    <3>3. QED
      BY <3>1, <3>2, <2>7, <1>1 DEF Occurs
  <2>10. QED
    BY <2>3, <2>6, <2>8, <2>9 DEF r
<1>4. QED
  BY <1>2, <1>3

-----------------------------------------------------------------------------
(***************************************************************************)
(* Chains of references.                                                   *)
(***************************************************************************)

\* A value is the end of its own chain.
LEMMA DerefValue ==
  ASSUME NEW w \in Value
  PROVE  Ends(w) = {w} /\ Deref(w) = w
<1>1. ~IsRef(w) /\ w \in Word
  BY ConstantsAssumption DEF IsRef, Word
<1>2. ASSUME NEW v \in Word, Reaches(w, v)
      PROVE  v = w
  <2>1. {w} \in SUBSET Word /\ ClosedUnderRef({w})
    BY <1>1 DEF ClosedUnderRef
  <2>2. QED
    BY <2>1, <1>2 DEF Reaches
<1>3. Reaches(w, w)
  BY DEF Reaches
<1>4. Ends(w) = {w}
  BY <1>1, <1>2, <1>3 DEF Ends
<1>5. QED
  BY <1>4 DEF Deref

OneEnd == \A w \in Word : \A u, v \in Ends(w) : u = v

\* A chain has one end.
LEMMA UniqueEnd == RefsResolve => OneEnd
<1> SUFFICES ASSUME RefsResolve,
                    NEW w \in Word, NEW u \in Ends(w), NEW v \in Ends(w)
             PROVE  u = v
  BY DEF OneEnd
<1> DEFINE R == {x \in Word : Reaches(x, u)}
<1>1. ~IsRef(u) /\ ~IsRef(v) /\ Reaches(w, u) /\ Reaches(w, v)
  BY DEF Ends
<1>2. ASSUME NEW x \in R, IsRef(x)
      PROVE  ref[x] \in R
  <2>1. ASSUME NEW S \in SUBSET Word, ref[x] \in S, ClosedUnderRef(S)
        PROVE  u \in S
    <3>1. S \cup {x} \in SUBSET Word /\ x \in S \cup {x}
      OBVIOUS
    <3>2. ClosedUnderRef(S \cup {x})
      BY <2>1 DEF ClosedUnderRef
    <3>3. u \in S \cup {x}
      BY <3>1, <3>2 DEF Reaches
    <3>4. QED
      BY <3>3, <1>1, <1>2
  <2>2. ref[x] \in Word
    BY <1>2 DEF RefsResolve
  <2>3. QED
    BY <2>1, <2>2 DEF Reaches
<1>3. v \in R
  BY <1>1, <1>2 DEF Reaches, ClosedUnderRef
<1>4. ClosedUnderRef({v})
  BY <1>1 DEF ClosedUnderRef
<1>5. QED
  BY <1>3, <1>4 DEF Reaches

\* A step that makes no transient a REF and rebinds none leaves every chain.
LEMMA SameChains ==
  ASSUME \A x \in Transient : label'[x] = "REF" <=> label[x] = "REF",
         ref' = ref
  PROVE  /\ \A w : IsRef(w)' <=> IsRef(w)
         /\ \A w : Ends(w)' = Ends(w)
         /\ \A w : Deref(w)' = Deref(w)
         /\ RefsResolve => RefsResolve'
<1>1. \A w : IsRef(w)' <=> IsRef(w)
  BY DEF IsRef
<1>2. \A S : ClosedUnderRef(S)' <=> ClosedUnderRef(S)
  BY <1>1 DEF ClosedUnderRef
<1>3. \A w, v : Reaches(w, v)' <=> Reaches(w, v)
  BY <1>2 DEF Reaches
<1>4. \A w : Ends(w)' = Ends(w)
  BY <1>1, <1>3 DEF Ends
<1>5. \A w : Deref(w)' = Deref(w)
  BY <1>4 DEF Deref
<1>6. RefsResolve => RefsResolve'
  BY <1>1, <1>4 DEF RefsResolve
<1>7. QED
  BY <1>1, <1>4, <1>5, <1>6

\* Binding unbound transients T to the end e of another chain: the chains
\* that ended in T now end in e, all others end where they did.
LEMMA BindChains ==
  ASSUME RefsResolve, NEW T \in SUBSET Transient,
         \A x \in T : ~IsRef(x),
         NEW e \in Word, ~IsRef(e), e \notin T,
         label' = [x \in Transient |-> IF x \in T THEN "REF" ELSE label[x]],
         ref' = [x \in Transient |-> IF x \in T THEN e ELSE ref[x]]
  PROVE  /\ RefsResolve'
         /\ \A w \in Word : \A v \in Ends(w) : v \notin T => Deref(w)' = v
<1>1. \A w : IsRef(w)' <=> IsRef(w) \/ w \in T
  BY DEF IsRef
<1>2. ASSUME NEW S, ClosedUnderRef(S)'
      PROVE  ClosedUnderRef(S) /\ (\A x \in S : x \in T => e \in S)
  <2>1. ASSUME NEW x \in S, IsRef(x)
        PROVE  ref[x] \in S
    <3>1. x \in Transient /\ x \notin T
      BY <2>1 DEF IsRef
    <3>2. ref'[x] = ref[x]
      BY <3>1
    <3>3. QED
      BY <3>2, <2>1, <1>1, <1>2 DEF ClosedUnderRef
  <2>2. ASSUME NEW x \in S, x \in T
        PROVE  e \in S
    <3>1. ref'[x] = e
      BY <2>2
    <3>2. QED
      BY <3>1, <2>2, <1>1, <1>2 DEF ClosedUnderRef
  <2>3. QED
    BY <2>1, <2>2 DEF ClosedUnderRef
<1>3. ASSUME NEW w \in Word, NEW v \in Ends(w), v \notin T
      PROVE  v \in Ends(w)'
  BY <1>1, <1>2, <1>3 DEF Ends, Reaches
<1>4. ASSUME NEW w \in Word, NEW v \in Ends(w), v \in T
      PROVE  e \in Ends(w)'
  <2>1. Reaches(w, e)'
    BY <1>2, <1>4 DEF Ends, Reaches
  <2>2. QED
    BY <2>1, <1>1 DEF Ends
<1>5. RefsResolve'
  <2>1. ASSUME NEW w \in Word
        PROVE  Ends(w)' # {}
    BY <1>3, <1>4 DEF RefsResolve
  <2>2. ASSUME NEW w \in Word, IsRef(w)'
        PROVE  ref'[w] \in Word
    <3>1. CASE w \in T
      BY <3>1
    <3>2. CASE w \notin T
      <4>1. IsRef(w) /\ w \in Transient
        BY <3>2, <2>2, <1>1 DEF IsRef
      <4>2. ref'[w] = ref[w]
        BY <4>1, <3>2
      <4>3. QED
        BY <4>1, <4>2 DEF RefsResolve
    <3>3. QED
      BY <3>1, <3>2
  <2>3. QED
    BY <2>1, <2>2 DEF RefsResolve
<1>6. ASSUME NEW w \in Word, NEW v \in Ends(w), v \notin T
      PROVE  Deref(w)' = v
  <2>1. v \in Ends(w)'
    BY <1>3, <1>6
  <2>2. \A u : u \in Ends(w)' => u = v
    <3>1. (RefsResolve => OneEnd)'
      BY UniqueEnd, PTL
    <3>2. QED
      BY <3>1, <2>1, <1>5 DEF OneEnd
  <2>3. QED
    BY <2>1, <2>2 DEF Deref
<1>7. QED
  BY <1>5, <1>6

-----------------------------------------------------------------------------
(***************************************************************************)
(* The inductive invariant.                                                *)
(***************************************************************************)
QueuesInv == RunQueueExact /\ WaitersExact

FramesInv == EvaluatorExact /\ StacksOK

TransientsInv == RefsResolve /\ HoleFutureAgree /\ BindingSound /\ Origins

IInv == TypeOK /\ QueuesInv /\ FramesInv /\ TransientsInv

\* The thread whose frame runs.
LEMMA CurrentThread ==
  ASSUME TypeOK, RunQueueExact, phase = "run"
  PROVE  /\ currentThread \in Thread
         /\ state[currentThread] = "RUNNABLE"
         /\ ~suspended[currentThread]
         /\ ~Occurs(currentThread, wThreadQueue)
BY DEF TypeOK, RunQueueExact

\* Steps that leave the transients and the binding in progress alone.
LEMMA SameTransients ==
  ASSUME TransientsInv, UNCHANGED <<label, ref, assoc, made, binding>>,
         binding # None => phase' = phase
  PROVE  TransientsInv'
<1>1. (\A w : Deref(w)' = Deref(w)) /\ RefsResolve'
  BY SameChains DEF TransientsInv
<1>2. HoleFutureAgree' /\ Origins'
  BY DEF TransientsInv, HoleFutureAgree, Origins
<1>3. BindingSound'
  BY <1>1 DEF TransientsInv, BindingSound, Targets
<1>4. QED
  BY <1>1, <1>2, <1>3 DEF TransientsInv

\* Scheduler::Init and the main thread: the invariant holds initially.
LEMMA InitInv == Init => IInv
<1> SUFFICES ASSUME Init PROVE IInv
  OBVIOUS
<1>1. PICK main \in Thread, closure \in Value :
        /\ wThreadQueue = <<main>>
        /\ state = [t \in Thread |-> IF t = main THEN "RUNNABLE" ELSE "UNBORN"]
        /\ callee = [t \in Thread |-> IF t = main THEN closure ELSE None]
  BY DEF Init
<1>2. TypeOK
  <2>1. wThreadQueue \in Seq(Thread) /\ waitQueue \in [Transient -> Seq(Thread)]
    BY <1>1 DEF Init
  <2>2. /\ currentThread = None /\ phase = "dispatch" /\ status = FALSE
        /\ binding = None
    BY DEF Init
  <2>3. state \in [Thread -> {"UNBORN", "RUNNABLE", "BLOCKED", "TERMINATED"}]
    BY <1>1
  <2>4. callee \in [Thread -> Word \cup {None}]
    BY <1>1 DEF Word
  <2>5. /\ suspended \in [Thread -> BOOLEAN]
        /\ future \in [Thread -> Transient \cup {None}]
        /\ code \in [Thread -> BOOLEAN]
        /\ binds \in [Thread -> Transient \cup {None}]
        /\ uncaught \in [Thread -> (0..ExnClosures) \cup {None}]
        /\ args \in [Thread -> Word \cup {None}]
    BY DEF Init
  <2>6. /\ label \in [Transient -> Labels]
        /\ ref \in [Transient -> Word \cup {None}]
        /\ assoc \in [Transient -> Transient \cup {None}]
        /\ made \in [Transient -> {"FREE", "HOLE", "FUTURE", "BYNEED", "ASSOC"}]
    BY DEF Init, Labels
  <2>7. QED
    BY <2>1, <2>2, <2>3, <2>4, <2>5, <2>6 DEF TypeOK
<1>3. RunQueueExact
  BY <1>1, ConstantsAssumption
     DEF Init, RunQueueExact, NoDuplicates, Occurs
<1>4. WaitersExact
  <2>1. \A x \in Transient : waitQueue[x] = <<>>
    BY DEF Init
  <2>2. NoDuplicates(<<>>) /\ \A t : ~Occurs(t, <<>>)
    BY DEF NoDuplicates, Occurs
  <2>3. \A t \in Thread : future[t] = None /\ state[t] # "BLOCKED"
    BY <1>1 DEF Init
  <2>4. QED
    BY <2>1, <2>2, <2>3, ConstantsAssumption DEF WaitersExact, Word
<1>5. FramesInv
  BY <1>1, ConstantsAssumption
     DEF Init, FramesInv, EvaluatorExact, StacksOK, Unborn
<1>6. RefsResolve
  <2>1. \A w : ~IsRef(w)
    BY DEF Init, IsRef
  <2>2. \A w \in Word : w \in Ends(w)
    BY <2>1 DEF Ends, Reaches
  <2>3. QED
    BY <2>1, <2>2 DEF RefsResolve
<1>7. HoleFutureAgree /\ BindingSound /\ Origins
  BY DEF Init, HoleFutureAgree, BindingSound, Origins
<1>8. QED
  BY <1>2, <1>3, <1>4, <1>5, <1>6, <1>7
     DEF IInv, QueuesInv, TransientsInv

-----------------------------------------------------------------------------
(***************************************************************************)
(* The outer loop.                                                         *)
(***************************************************************************)

\* Dequeueing the head of the run queue preserves the invariant
\* (Scheduler::Run, SwitchToThread).
LEMMA DispatchInv == ASSUME IInv, Dispatch PROVE IInv'
<1>1. currentThread = None
  BY DEF IInv, TypeOK, Dispatch
<1>2. /\ Head(wThreadQueue) \in Thread /\ Tail(wThreadQueue) \in Seq(Thread)
      /\ Occurs(Head(wThreadQueue), wThreadQueue)
      /\ NoDuplicates(Tail(wThreadQueue))
      /\ \A u : Occurs(u, Tail(wThreadQueue)) <=>
               Occurs(u, wThreadQueue) /\ u # Head(wThreadQueue)
  BY TailDistinct DEF IInv, TypeOK, QueuesInv, RunQueueExact, Dispatch
<1>3. TypeOK'
  BY <1>2, ConstantsAssumption
     DEF IInv, TypeOK, Dispatch, threadVars, stackVars, transientVars
<1>4. RunQueueExact'
  BY <1>1, <1>2, ConstantsAssumption
     DEF IInv, QueuesInv, RunQueueExact, Dispatch, threadVars
<1>5. WaitersExact'
  BY DEF IInv, QueuesInv, WaitersExact, Dispatch, threadVars, transientVars
<1>6. FramesInv'
  BY DEF IInv, FramesInv, EvaluatorExact, StacksOK, Unborn, Dispatch,
         threadVars, stackVars, transientVars
<1>7. TransientsInv'
  BY SameTransients
     DEF IInv, TransientsInv, BindingSound, Dispatch, transientVars
<1>8. QED
  BY <1>3, <1>4, <1>5, <1>6, <1>7 DEF IInv, QueuesInv

\* Steps of the loop, and results of workers, that change neither the run
\* queue nor a thread, a stack or a transient.
LEMMA PhaseInv ==
  ASSUME IInv, status' \in BOOLEAN,
         phase' \in {"dispatch", "run", "events", "exit"},
         currentThread # None <=> phase' \in {"run", "exit"},
         phase' = "run" => phase = "run",
         binding # None => phase' = phase,
         UNCHANGED <<wThreadQueue, currentThread, threadVars, stackVars,
                     transientVars, binding>>
  PROVE  IInv'
<1>1. TypeOK'
  BY DEF IInv, TypeOK, threadVars, stackVars, transientVars
<1>2. QueuesInv'
  BY DEF IInv, QueuesInv, RunQueueExact, WaitersExact, threadVars, transientVars
<1>3. FramesInv'
  BY DEF IInv, FramesInv, EvaluatorExact, StacksOK, Unborn,
         threadVars, stackVars, transientVars
<1>4. TransientsInv'
  BY SameTransients DEF IInv, transientVars
<1>5. QED
  BY <1>1, <1>2, <1>3, <1>4 DEF IInv

\* Waking the head of the wait queue of the future that is being bound.
LEMMA WakeupThreadInv == ASSUME IInv, WakeupThread PROVE IInv'
<1> DEFINE f == binding.future
           q == waitQueue[f]
           t == Head(q)
<1>1. f \in Transient /\ q \in Seq(Thread) /\ q # <<>> /\ binding # None
  BY DEF IInv, TypeOK, Bindings, WakeupThread
<1>2. /\ t \in Thread /\ Tail(q) \in Seq(Thread) /\ Occurs(t, q)
      /\ NoDuplicates(Tail(q))
      /\ \A u : Occurs(u, Tail(q)) <=> Occurs(u, q) /\ u # t
  BY <1>1, TailDistinct DEF IInv, QueuesInv, WaitersExact
<1>3. future[t] = f /\ state[t] = "BLOCKED"
  BY <1>1, <1>2, ConstantsAssumption DEF IInv, QueuesInv, WaitersExact, Word
<1>4. ~Occurs(t, wThreadQueue) /\ t # currentThread
  BY <1>2, <1>3, ConstantsAssumption
     DEF IInv, TypeOK, TransientsInv, BindingSound, QueuesInv, RunQueueExact,
         WakeupThread
<1>5. /\ Append(wThreadQueue, t) \in Seq(Thread)
      /\ NoDuplicates(Append(wThreadQueue, t))
      /\ \A u : Occurs(u, Append(wThreadQueue, t)) <=>
               Occurs(u, wThreadQueue) \/ u = t
  BY <1>2, <1>4, AppendDistinct DEF IInv, TypeOK, QueuesInv, RunQueueExact
<1>6. /\ waitQueue' = [waitQueue EXCEPT ![f] = Tail(q)]
      /\ state' = [state EXCEPT ![t] = "RUNNABLE"]
      /\ future' = [future EXCEPT ![t] = None]
      /\ wThreadQueue' = IF suspended[t] THEN wThreadQueue
                                         ELSE Append(wThreadQueue, t)
      /\ UNCHANGED <<currentThread, phase, status, suspended, stackVars,
                     label, ref, assoc, made, binding>>
  BY DEF WakeupThread, ScheduleUnlessSuspended
<1> HIDE DEF f, q, t
<1>7. TypeOK'
  BY <1>1, <1>2, <1>5, <1>6 DEF IInv, TypeOK, stackVars
<1>8. RunQueueExact'
  BY <1>2, <1>3, <1>4, <1>5, <1>6
     DEF IInv, TypeOK, QueuesInv, RunQueueExact
<1>9. WaitersExact'
  BY <1>1, <1>2, <1>3, <1>6, ConstantsAssumption
     DEF IInv, TypeOK, QueuesInv, WaitersExact, Word, q
<1>10. FramesInv'
  BY <1>2, <1>3, <1>6
     DEF IInv, TypeOK, FramesInv, EvaluatorExact, StacksOK, Unborn, stackVars
<1>11. TransientsInv'
  BY <1>6, SameTransients DEF IInv
<1>12. QED
  BY <1>7, <1>8, <1>9, <1>10, <1>11 DEF IInv, QueuesInv

\* Binding the targets: the argument follows the tests made in Hole::Fill,
\* Hole::Fail and BindFutureWorker, which BindingSound carries to this point.
LEMMA BecomeInv == ASSUME IInv, Become PROVE IInv'
<1> DEFINE T == Targets
<1>1. /\ binding \in Bindings /\ binding # None
      /\ label \in [Transient -> Labels] /\ ref \in [Transient -> Word \cup {None}]
  BY DEF IInv, TypeOK, Become
<1>2. /\ label' = [x \in Transient |->
                      IF x \in T THEN binding.label ELSE label[x]]
      /\ ref' = [x \in Transient |-> IF x \in T /\ binding.label = "REF"
                                     THEN Deref(binding.ref) ELSE ref[x]]
      /\ binding' = None
      /\ UNCHANGED <<schedVars, threadVars, stackVars, assoc, waitQueue, made>>
  BY DEF Become
<1>3. /\ T \subseteq Transient
      /\ \A x \in T : /\ x = binding.future \/ x = binding.hole
                      /\ label[x] \in {"HOLE", "FUTURE"}
                      /\ waitQueue[x] = <<>>
  BY <1>1 DEF IInv, TransientsInv, BindingSound, QueuesInv, WaitersExact,
              Bindings, Targets, Become
<1>4. Deref(binding.ref) \in Ends(binding.ref) /\ binding.ref \in Word
  <2>1. binding.ref \in Word
    BY <1>1 DEF Bindings
  <2>2. PICK v : v \in Ends(binding.ref)
    BY <2>1 DEF IInv, TransientsInv, RefsResolve
  <2>3. QED
    BY <2>1, <2>2 DEF Deref
<1>5. Deref(binding.ref) \in Word /\ ~IsRef(Deref(binding.ref))
  BY <1>4 DEF Ends
<1>6. binding.label = "REF" \/ binding.label = "CANCELLED"
  BY <1>1 DEF Bindings
<1>7. TypeOK'
  <2>1. label' \in [Transient -> Labels] /\ ref' \in [Transient -> Word \cup {None}]
    BY <1>1, <1>2, <1>5, <1>6 DEF Labels
  <2>2. QED
    BY <2>1, <1>2 DEF IInv, TypeOK, schedVars, threadVars, stackVars
<1>8. QueuesInv'
  BY <1>2, <1>3
     DEF IInv, QueuesInv, RunQueueExact, WaitersExact, schedVars, threadVars
<1>9. EvaluatorExact'
  <2>1. ASSUME NEW t \in Thread, binds[t] # None
        PROVE  binds[t] \notin T
    BY <2>1, <1>1 DEF IInv, TypeOK, FramesInv, EvaluatorExact, TransientsInv,
                      BindingSound, Targets
  <2>2. ASSUME NEW x \in Transient, made[x] = "BYNEED", label'[x] = "FUTURE"
        PROVE  \E t \in Thread : binds[t] = x
    <3>1. x \notin T /\ label[x] = "FUTURE"
      BY <2>2, <1>2, <1>6
    <3>2. x # binding.future
      BY <3>1, ConstantsAssumption DEF Targets, Word
    <3>3. QED
      BY <3>1, <3>2, <2>2 DEF IInv, FramesInv, EvaluatorExact
  <2>3. QED
    BY <2>1, <2>2, <1>2
       DEF IInv, TypeOK, FramesInv, EvaluatorExact, threadVars, stackVars
<1>10. StacksOK'
  BY <1>2 DEF IInv, FramesInv, StacksOK, Unborn, threadVars, stackVars
<1>11. RefsResolve'
  <2>1. CASE binding.label = "REF"
    <3>1. /\ label' = [x \in Transient |-> IF x \in T THEN "REF" ELSE label[x]]
          /\ ref' = [x \in Transient |-> IF x \in T THEN Deref(binding.ref)
                                                 ELSE ref[x]]
      BY <1>2, <2>1
    <3>2. Deref(binding.ref) \notin T
      BY <1>1, <2>1 DEF IInv, TransientsInv, BindingSound
    <3>3. \A x \in T : ~IsRef(x)
      BY <1>3 DEF IsRef
    <3> HIDE DEF T
    <3>4. QED
      BY <3>1, <3>2, <3>3, <1>3, <1>5, BindChains DEF IInv, TransientsInv
  <2>2. CASE binding.label = "CANCELLED"
    <3>1. ref' = ref
      BY <1>1, <1>2, <2>2
    <3>2. \A x \in Transient : label'[x] = "REF" <=> label[x] = "REF"
      BY <1>2, <1>3, <2>2
    <3>3. QED
      BY <3>1, <3>2, SameChains DEF IInv, TransientsInv
  <2>3. QED
    BY <1>6, <2>1, <2>2
<1>12. HoleFutureAgree'
  <2> SUFFICES ASSUME NEW h \in Transient, assoc[h] # None
               PROVE  \/ label'[h] = "HOLE" /\ label'[assoc[h]] = "FUTURE"
                      \/ /\ label'[h] = "REF" /\ label'[assoc[h]] = "REF"
                         /\ ref'[h] = ref'[assoc[h]]
                      \/ label'[h] = "CANCELLED" /\ label'[assoc[h]] = "CANCELLED"
    BY <1>2 DEF HoleFutureAgree
  <2>1. assoc[h] \in Transient
    BY DEF IInv, TypeOK
  <2>2. h \in T <=> h = binding.hole
    <3>1. h # None
      BY ConstantsAssumption DEF Word
    <3>2. h # binding.future \/ label[h] = "FUTURE"
      BY <1>1, <3>1 DEF IInv, TransientsInv, BindingSound
    <3>3. label[h] # "FUTURE"
      BY DEF IInv, TransientsInv, HoleFutureAgree
    <3>4. QED
      BY <3>1, <3>2, <3>3 DEF Targets
  <2>3. assoc[h] \in T <=> h = binding.hole
    <3>1. ASSUME assoc[h] \in T
          PROVE  h = binding.hole
      <4>1. CASE assoc[h] = binding.hole
        BY <4>1, <1>1, <2>1
           DEF IInv, TransientsInv, HoleFutureAgree, BindingSound
      <4>2. CASE assoc[h] = binding.future /\ binding.hole = None
        BY <4>2, <1>1 DEF IInv, TransientsInv, Origins, BindingSound
      <4>3. CASE assoc[h] = binding.future /\ binding.hole # None
        <5>1. binding.hole \in Transient /\ assoc[binding.hole] = assoc[h]
          BY <4>3, <1>1 DEF IInv, TransientsInv, BindingSound, Bindings
        <5>2. QED
          BY <5>1 DEF IInv, TransientsInv, Origins
      <4>4. QED
        BY <3>1, <4>1, <4>2, <4>3 DEF Targets
    <3>2. ASSUME h = binding.hole
          PROVE  assoc[h] \in T
      <4>1. h # None
        BY ConstantsAssumption DEF Word
      <4>2. assoc[h] = binding.future
        BY <3>2, <4>1, <1>1 DEF IInv, TransientsInv, BindingSound
      <4>3. QED
        BY <4>2 DEF Targets
    <3>3. QED
      BY <3>1, <3>2
  <2>4. QED
    BY <1>2, <1>6, <2>1, <2>2, <2>3 DEF IInv, TransientsInv, HoleFutureAgree
<1>13. BindingSound' /\ Origins'
  <2>1. BindingSound'
    BY <1>2 DEF BindingSound
  <2>2. \A x \in Transient :
          /\ label'[x] = "FREE" <=> label[x] = "FREE"
          /\ label'[x] \in {"HOLE", "BYNEED"} => label'[x] = label[x]
    BY <1>2, <1>3, <1>6
  <2>3. Origins'
    BY <1>2, <2>2 DEF IInv, TransientsInv, Origins
  <2>4. QED
    BY <2>1, <2>3
<1>14. QED
  BY <1>7, <1>8, <1>9, <1>10, <1>11, <1>12, <1>13
     DEF IInv, FramesInv, TransientsInv

-----------------------------------------------------------------------------
(***************************************************************************)
(* Results of workers.                                                     *)
(***************************************************************************)

\* Enqueueing the current thread.
LEMMA PreemptInv ==
  ASSUME TypeOK, RunQueueExact, WaitersExact, phase = "run", Preempt
  PROVE  /\ RunQueueExact' /\ WaitersExact'
         /\ wThreadQueue' \in Seq(Thread)
         /\ currentThread' = None /\ phase' = "events"
         /\ UNCHANGED <<status, threadVars, transientVars, binding>>
<1>1. currentThread \in Thread /\ ~Occurs(currentThread, wThreadQueue)
  BY CurrentThread
<1>2. /\ wThreadQueue' \in Seq(Thread) /\ NoDuplicates(wThreadQueue')
      /\ \A u : Occurs(u, wThreadQueue') <=>
               Occurs(u, wThreadQueue) \/ u = currentThread
  BY <1>1, AppendDistinct DEF TypeOK, RunQueueExact, Preempt
<1>3. /\ currentThread' = None /\ phase' = "events"
      /\ UNCHANGED <<status, threadVars, transientVars, binding>>
  BY DEF Preempt, EndSlice
<1>4. RunQueueExact'
  BY <1>1, <1>2, <1>3, ConstantsAssumption DEF RunQueueExact, threadVars
<1>5. WaitersExact'
  BY <1>3 DEF WaitersExact, threadVars, transientVars
<1>6. QED
  BY <1>2, <1>3, <1>4, <1>5

\* Steps of the running thread that only rearrange its stack.
LEMMA StackInv ==
  ASSUME IInv, phase = "run", binding = None,
         UNCHANGED <<wThreadQueue, currentThread, status, threadVars, binds,
                     transientVars, binding>>,
         phase' \in {"run", "exit"},
         callee' \in [Thread -> Word \cup {None}],
         code' \in [Thread -> BOOLEAN],
         uncaught' \in [Thread -> (0..ExnClosures) \cup {None}],
         args' \in [Thread -> Word \cup {None}],
         StacksOK'
  PROVE  IInv'
<1>1. TypeOK'
  BY DEF IInv, TypeOK, threadVars, transientVars
<1>2. QueuesInv'
  BY DEF IInv, QueuesInv, RunQueueExact, WaitersExact, threadVars, transientVars
<1>3. EvaluatorExact'
  BY DEF IInv, FramesInv, EvaluatorExact, threadVars, transientVars
<1>4. TransientsInv'
  BY SameTransients DEF IInv, transientVars
<1>5. QED
  BY <1>1, <1>2, <1>3, <1>4 DEF IInv, FramesInv

\* Starting to bind a future, a hole or both: f and h are unbound, w does not
\* refer to them.
LEMMA StartBindingInv ==
  ASSUME IInv, binding = None, phase \in {"run", "events"},
         NEW f \in Transient \cup {None}, NEW h \in Transient \cup {None},
         NEW l \in {"REF", "CANCELLED"}, NEW w \in Word,
         f # None => label[f] = "FUTURE",
         h # None => label[h] = "HOLE" /\ assoc[h] = f,
         h = None => f # None /\ made[f] \in {"FUTURE", "BYNEED"},
         l = "REF" => Deref(w) # f /\ Deref(w) # h,
         StartBinding(f, h, l, w),
         UNCHANGED <<schedVars, threadVars, transientVars>>
  PROVE  /\ QueuesInv' /\ TransientsInv'
         /\ binding' \in Bindings /\ binding' # None /\ binding'.future = f
<1>1. /\ binding' \in Bindings /\ binding' # None
      /\ binding'.future = f /\ binding'.hole = h
      /\ binding'.label = l /\ binding'.ref = w
  BY ConstantsAssumption DEF StartBinding, Bindings
<1>2. QueuesInv'
  BY DEF IInv, QueuesInv, RunQueueExact, WaitersExact,
         schedVars, threadVars, transientVars
<1>3. (\A v : Deref(v)' = Deref(v)) /\ RefsResolve'
  BY SameChains DEF IInv, TransientsInv, transientVars
<1>4. HoleFutureAgree' /\ Origins'
  BY DEF IInv, TransientsInv, HoleFutureAgree, Origins, transientVars
<1>5. BindingSound'
  BY <1>1, <1>3 DEF BindingSound, Targets, schedVars, transientVars
<1>6. QED
  BY <1>1, <1>2, <1>3, <1>4, <1>5 DEF TransientsInv

\* The future bound is that of the current thread's BindFuture frame, which
\* is popped.
LEMMA BindFrameInv ==
  ASSUME IInv, phase = "run", binding = None,
         NEW l \in {"REF", "CANCELLED"}, NEW w \in Word,
         binds[currentThread] # None,
         l = "REF" => Deref(w) # binds[currentThread],
         StartBinding(binds[currentThread], None, l, w),
         binds' = [binds EXCEPT ![currentThread] = None],
         callee' \in [Thread -> Word \cup {None}],
         code' \in [Thread -> BOOLEAN],
         args' \in [Thread -> Word \cup {None}],
         \A t \in Thread \ {currentThread} :
           callee'[t] = callee[t] /\ code'[t] = code[t] /\ args'[t] = args[t],
         UNCHANGED <<schedVars, threadVars, uncaught, transientVars>>
  PROVE  IInv'
<1> DEFINE c == currentThread
           f == binds[currentThread]
<1>1. c \in Thread
  BY CurrentThread DEF IInv, QueuesInv
<1>2. f \in Transient /\ f # None /\ label[f] = "FUTURE" /\ made[f] = "BYNEED"
  BY <1>1 DEF IInv, TypeOK, FramesInv, EvaluatorExact
<1>3. Deref(w) # None \/ l # "REF"
  <2>1. PICK v : v \in Ends(w)
    BY DEF IInv, TransientsInv, RefsResolve
  <2>2. Deref(w) \in Word
    BY <2>1 DEF Deref, Ends
  <2>3. QED
    BY <2>2, ConstantsAssumption
<1>4. /\ QueuesInv' /\ TransientsInv'
      /\ binding' \in Bindings /\ binding' # None /\ binding'.future = f
  BY <1>2, <1>3, StartBindingInv
<1>5. TypeOK'
  BY <1>4 DEF IInv, TypeOK, schedVars, threadVars, transientVars
<1>6. EvaluatorExact'
  BY <1>1, <1>2, <1>4
     DEF IInv, TypeOK, FramesInv, EvaluatorExact, threadVars, transientVars
<1>7. StacksOK'
  BY <1>1 DEF IInv, TypeOK, FramesInv, StacksOK, Unborn, threadVars
<1>8. QED
  BY <1>4, <1>5, <1>6, <1>7 DEF IInv, FramesInv

\* The future bound, if any, belongs to no BindFuture frame.
LEMMA BindOtherInv ==
  ASSUME IInv, binding = None, phase \in {"run", "events"},
         NEW f \in Transient \cup {None}, NEW h \in Transient \cup {None},
         NEW l \in {"REF", "CANCELLED"}, NEW w \in Word,
         f # None => label[f] = "FUTURE" /\ made[f] # "BYNEED",
         h # None => label[h] = "HOLE" /\ assoc[h] = f,
         h = None => f # None /\ made[f] = "FUTURE",
         l = "REF" => Deref(w) # f /\ Deref(w) # h,
         StartBinding(f, h, l, w),
         UNCHANGED <<schedVars, threadVars, stackVars, transientVars>>
  PROVE  IInv'
<1>1. /\ QueuesInv' /\ TransientsInv'
      /\ binding' \in Bindings /\ binding' # None /\ binding'.future = f
  BY StartBindingInv
<1>2. TypeOK'
  BY <1>1 DEF IInv, TypeOK, schedVars, threadVars, stackVars, transientVars
<1>3. EvaluatorExact'
  BY <1>1 DEF IInv, FramesInv, EvaluatorExact, threadVars, stackVars,
              transientVars
<1>4. StacksOK'
  BY DEF IInv, FramesInv, StacksOK, Unborn, threadVars, stackVars
<1>5. QED
  BY <1>1, <1>2, <1>3, <1>4 DEF IInv, FramesInv

\* Unwinding to any handler preserves the invariant (Scheduler::DoRaise).
LEMMA DoRaiseInv ==
  ASSUME IInv, phase = "run", binding = None, DoRaise
  PROVE  IInv'
<1>1. currentThread \in Thread
  BY CurrentThread DEF IInv, QueuesInv
<1>2. CASE RaiseInCode
  <2>1. StacksOK'
    BY <1>1, <1>2 DEF IInv, TypeOK, FramesInv, StacksOK, Unborn, RaiseInCode, threadVars
  <2>2. QED
    BY <1>2, <2>1, StackInv DEF IInv, TypeOK, RaiseInCode, schedVars
<1>3. CASE RaiseInUncaught
  <2>1. StacksOK'
    BY <1>1, <1>3 DEF IInv, TypeOK, FramesInv, StacksOK, Unborn, RaiseInUncaught, threadVars
  <2>2. QED
    BY <1>3, <2>1, StackInv DEF IInv, TypeOK, RaiseInUncaught, schedVars
<1>4. CASE RaiseInEmptyTask
  <2>1. StacksOK'
    BY <1>1, <1>4, CurrentThread
       DEF IInv, TypeOK, QueuesInv, FramesInv, StacksOK, Unborn, RaiseInEmptyTask, threadVars
  <2>2. /\ phase' \in {"run", "exit"}
        /\ uncaught' \in [Thread -> (0..ExnClosures) \cup {None}]
    <3>1. ExnClosures \in 0..ExnClosures
      BY ConstantsAssumption
    <3>2. QED
      BY <3>1, <1>4 DEF IInv, TypeOK, RaiseInEmptyTask
  <2>3. QED
    BY <1>4, <2>1, <2>2, StackInv DEF IInv, TypeOK, RaiseInEmptyTask
<1>5. CASE RaiseInBindFuture
  <2>1. binds[currentThread] \in Word
    BY <1>1, <1>5 DEF IInv, TypeOK, RaiseInBindFuture, Word
  <2>2. QED
    BY <1>1, <1>5, <2>1, BindFrameInv DEF IInv, TypeOK, RaiseInBindFuture
<1>6. QED
  BY <1>2, <1>3, <1>4, <1>5 DEF DoRaise

\* The current thread waits for an unbound future.
LEMMA RequestFutureInv ==
  ASSUME IInv, phase = "run", binding = None,
         NEW x \in Transient, NEW pending \in Word \cup {None},
         pending = None => code[currentThread],
         RequestFuture(x, pending)
  PROVE  IInv'
<1> DEFINE c == currentThread
<1>1. /\ c \in Thread /\ state[c] = "RUNNABLE" /\ ~suspended[c]
      /\ ~Occurs(c, wThreadQueue)
  BY CurrentThread DEF IInv, QueuesInv
<1>2. future[c] = None /\ ~Occurs(c, waitQueue[x])
  BY <1>1, ConstantsAssumption DEF IInv, QueuesInv, WaitersExact, Word
<1>3. /\ Append(waitQueue[x], c) \in Seq(Thread)
      /\ NoDuplicates(Append(waitQueue[x], c))
      /\ \A u : Occurs(u, Append(waitQueue[x], c)) <=>
               Occurs(u, waitQueue[x]) \/ u = c
  BY <1>1, <1>2, AppendDistinct DEF IInv, TypeOK, QueuesInv, WaitersExact
<1>4. /\ label[x] = "FUTURE"
      /\ waitQueue' = [waitQueue EXCEPT ![x] = Append(waitQueue[x], c)]
      /\ state' = [state EXCEPT ![c] = "BLOCKED"]
      /\ future' = [future EXCEPT ![c] = x]
      /\ callee' = [callee EXCEPT ![c] = pending]
      /\ currentThread' = None /\ phase' = "events"
      /\ UNCHANGED <<wThreadQueue, status, suspended, code, binds, uncaught,
                     args, label, ref, assoc, made, binding>>
  BY DEF RequestFuture, BlockOn, EndSlice
<1>5. TypeOK'
  BY <1>1, <1>3, <1>4 DEF IInv, TypeOK
<1>6. RunQueueExact'
  BY <1>1, <1>4, ConstantsAssumption DEF IInv, TypeOK, QueuesInv, RunQueueExact
<1>7. WaitersExact'
  BY <1>1, <1>2, <1>3, <1>4, ConstantsAssumption
     DEF IInv, TypeOK, QueuesInv, WaitersExact, Word
<1>8. FramesInv'
  BY <1>1, <1>4
     DEF IInv, TypeOK, FramesInv, EvaluatorExact, StacksOK, Unborn
<1>9. TransientsInv'
  BY <1>4, SameTransients DEF IInv
<1>10. QED
  BY <1>5, <1>6, <1>7, <1>8, <1>9 DEF IInv, QueuesInv

\* The current thread waits for a byneed, which a new thread evaluates.
LEMMA RequestByneedInv ==
  ASSUME IInv, phase = "run", binding = None,
         NEW x \in Transient, NEW pending \in Word \cup {None},
         pending = None => code[currentThread],
         RequestByneed(x, pending)
  PROVE  IInv'
<1> DEFINE c == currentThread
<1>1. /\ c \in Thread /\ state[c] = "RUNNABLE" /\ ~suspended[c]
      /\ ~Occurs(c, wThreadQueue) /\ future[c] = None
  BY CurrentThread DEF IInv, QueuesInv, WaitersExact
<1>2. PICK n \in Unborn, closure \in Value :
        /\ wThreadQueue' = Append(wThreadQueue, n)
        /\ waitQueue' = [waitQueue EXCEPT ![x] = <<c>>]
        /\ state' = [state EXCEPT ![n] = "RUNNABLE", ![c] = "BLOCKED"]
        /\ future' = [future EXCEPT ![c] = x]
        /\ callee' = [callee EXCEPT ![n] = closure, ![c] = pending]
        /\ binds' = [binds EXCEPT ![n] = x]
  BY DEF RequestByneed
<1>3. /\ label[x] = "BYNEED"
      /\ label' = [label EXCEPT ![x] = "FUTURE"]
      /\ currentThread' = None /\ phase' = "events"
      /\ UNCHANGED <<status, suspended, code, uncaught, args, ref, assoc, made,
                     binding>>
  BY DEF RequestByneed, IsByneed, BecomeFuture, EndSlice
<1>4. /\ n \in Thread /\ n # c /\ state[n] = "UNBORN" /\ ~suspended[n]
      /\ future[n] = None /\ binds[n] = None /\ uncaught[n] = None
      /\ ~Occurs(n, wThreadQueue)
  BY <1>1 DEF IInv, QueuesInv, FramesInv, RunQueueExact, WaitersExact,
              EvaluatorExact, StacksOK, Unborn
<1>5. /\ Append(wThreadQueue, n) \in Seq(Thread)
      /\ NoDuplicates(Append(wThreadQueue, n))
      /\ \A u : Occurs(u, Append(wThreadQueue, n)) <=>
               Occurs(u, wThreadQueue) \/ u = n
  BY <1>4, AppendDistinct DEF IInv, TypeOK, QueuesInv, RunQueueExact
<1>6. /\ <<c>> \in Seq(Thread) /\ NoDuplicates(<<c>>)
      /\ \A u : Occurs(u, <<c>>) <=> u = c
  BY <1>1 DEF NoDuplicates, Occurs
<1>7. /\ made[x] = "BYNEED"
      /\ \A t \in Thread : future[t] # x /\ binds[t] # x
      /\ assoc[x] = None
      /\ \A h \in Transient : assoc[h] # x
  BY <1>3, ConstantsAssumption
     DEF IInv, QueuesInv, WaitersExact, FramesInv, EvaluatorExact,
         TransientsInv, Origins, HoleFutureAgree, Word, Occurs
<1>8. TypeOK'
  BY <1>1, <1>2, <1>3, <1>4, <1>5, <1>6 DEF IInv, TypeOK, Labels, Word
<1>9. RunQueueExact'
  BY <1>1, <1>2, <1>3, <1>4, <1>5, ConstantsAssumption
     DEF IInv, TypeOK, QueuesInv, RunQueueExact
<1>10. WaitersExact'
  <2>1. /\ \A t \in Thread : state'[t] =
             IF t = n THEN "RUNNABLE" ELSE IF t = c THEN "BLOCKED" ELSE state[t]
        /\ \A t \in Thread : future'[t] = IF t = c THEN x ELSE future[t]
        /\ \A y \in Transient :
             /\ waitQueue'[y] = IF y = x THEN <<c>> ELSE waitQueue[y]
             /\ label'[y] = IF y = x THEN "FUTURE" ELSE label[y]
    BY <1>1, <1>2, <1>3, <1>4 DEF IInv, TypeOK
  <2>2. x # None /\ \A t \in Thread : future[t] # x
    BY <1>7, ConstantsAssumption DEF Word
  <2>3. \A t \in Thread : state'[t] = "BLOCKED" <=> future'[t] # None
    BY <1>1, <1>4, <2>1, <2>2 DEF IInv, QueuesInv, WaitersExact
  <2>4. ASSUME NEW t \in Thread, NEW y \in Transient
        PROVE  Occurs(t, waitQueue'[y]) <=> future'[t] = y
    <3>1. CASE y = x
      BY <3>1, <1>6, <2>1, <2>2
    <3>2. CASE y # x
      <4>1. y # None
        BY ConstantsAssumption DEF Word
      <4>2. Occurs(t, waitQueue[y]) <=> future[t] = y
        BY DEF IInv, QueuesInv, WaitersExact
      <4>3. QED
        BY <1>1, <2>1, <3>2, <4>1, <4>2
    <3>3. QED
      BY <3>1, <3>2
  <2>5. \A y \in Transient :
          /\ NoDuplicates(waitQueue'[y])
          /\ waitQueue'[y] # <<>> => label'[y] = "FUTURE"
    BY <1>6, <2>1 DEF IInv, QueuesInv, WaitersExact
  <2>6. QED
    BY <2>3, <2>4, <2>5 DEF WaitersExact
<1>11. EvaluatorExact'
  BY <1>1, <1>2, <1>3, <1>4, <1>7, ConstantsAssumption
     DEF IInv, TypeOK, FramesInv, EvaluatorExact, Word
<1>12. StacksOK'
  BY <1>1, <1>2, <1>3, <1>4, ConstantsAssumption
     DEF IInv, TypeOK, FramesInv, StacksOK, Unborn, Word
<1>13. RefsResolve'
  BY <1>3, SameChains DEF IInv, TypeOK, TransientsInv
<1>14. HoleFutureAgree' /\ BindingSound' /\ Origins'
  BY <1>3, <1>7
     DEF IInv, TypeOK, TransientsInv, HoleFutureAgree, BindingSound, Origins
<1>15. QED
  BY <1>8, <1>9, <1>10, <1>11, <1>12, <1>13, <1>14
     DEF IInv, QueuesInv, FramesInv, TransientsInv

\* Every case of Worker::REQUEST preserves the invariant.
LEMMA RequestInv ==
  ASSUME IInv, phase = "run", binding = None,
         NEW w, NEW pending \in Word \cup {None},
         pending = None => code[currentThread],
         Request(w, pending)
  PROVE  IInv'
<1> DEFINE x == Deref(w)
<1>1. x \in Transient
  BY DEF Request
<1>2. CASE RequestFuture(x, pending)
  BY <1>1, <1>2, RequestFutureInv
<1>3. CASE RequestByneed(x, pending)
  BY <1>1, <1>3, RequestByneedInv
<1>4. CASE OutOfStore(x)
  BY <1>4, PhaseInv DEF IInv, TypeOK, OutOfStore
<1>5. CASE RequestRaises(x)
  BY <1>5, DoRaiseInv DEF RequestRaises
<1>6. QED
  BY <1>2, <1>3, <1>4, <1>5 DEF Request

\* Calling a closure, or requesting it, preserves the invariant
\* (Scheduler::PushCall).
LEMMA PushCallInv ==
  ASSUME IInv, phase = "run", binding = None, NEW w \in Word, PushCall(w)
  PROVE  IInv'
<1> DEFINE c == currentThread
<1>1. c \in Thread
  BY CurrentThread DEF IInv, QueuesInv
<1>2. w # None
  BY ConstantsAssumption
<1>3. CASE Request(w, w)
  BY <1>2, <1>3, RequestInv
<1>4. CASE \E concreteCode \in Words : Request(concreteCode, w)
  BY <1>2, <1>4, RequestInv
<1>5. CASE /\ callee' = [callee EXCEPT ![c] = None]
           /\ code' = [code EXCEPT ![c] = TRUE]
           /\ UNCHANGED <<binds, uncaught, args>>
           /\ IF status THEN Preempt
                        ELSE UNCHANGED <<schedVars, threadVars, transientVars,
                                         binding>>
  <2>1. UNCHANGED <<threadVars, transientVars, binding>>
    BY <1>5 DEF Preempt
  <2>2. StacksOK'
    BY <1>1, <1>5, <2>1 DEF IInv, TypeOK, FramesInv, StacksOK, Unborn, threadVars
  <2>3. /\ callee' \in [Thread -> Word \cup {None}]
        /\ code' \in [Thread -> BOOLEAN]
    BY <1>5 DEF IInv, TypeOK
  <2>4. CASE ~status
    BY <1>5, <2>2, <2>3, <2>4, StackInv DEF IInv, TypeOK, schedVars
  <2>5. CASE status
    <3>1. Preempt
      BY <1>5, <2>5
    <3>2. /\ QueuesInv' /\ wThreadQueue' \in Seq(Thread)
          /\ currentThread' = None /\ phase' = "events" /\ status' = status
      BY <3>1, PreemptInv DEF IInv, QueuesInv
    <3>3. TypeOK'
      BY <1>5, <2>1, <2>3, <3>2 DEF IInv, TypeOK, threadVars, transientVars
    <3>4. EvaluatorExact'
      BY <1>5, <2>1 DEF IInv, FramesInv, EvaluatorExact, threadVars, transientVars
    <3>5. TransientsInv'
      BY <2>1, SameTransients DEF IInv, transientVars
    <3>6. QED
      BY <2>2, <3>2, <3>3, <3>4, <3>5 DEF IInv, FramesInv
  <2>6. QED
    BY <2>4, <2>5
<1>6. QED
  BY <1>3, <1>4, <1>5 DEF PushCall

-----------------------------------------------------------------------------
(***************************************************************************)
(* Workers of the scheduler's own frames.                                  *)
(***************************************************************************)

\* The workers of the scheduler's own frames preserve the invariant.
LEMMA RunFrameInv == ASSUME IInv, RunFrame PROVE IInv'
<1> DEFINE c == currentThread
<1>1. phase = "run" /\ binding = None
  BY DEF RunFrame, RunPushCall, RunBindFuture, RunUncaughtException,
         RunEmptyTask, Running
<1>2. c \in Thread /\ state[c] = "RUNNABLE" /\ ~suspended[c]
  BY <1>1, CurrentThread DEF IInv, QueuesInv
<1>3. CASE RunPushCall
  <2>1. callee[c] # None
    BY <1>3 DEF RunPushCall, Running, TopFrame
  <2>2. callee[c] \in Word
    BY <1>2, <2>1 DEF IInv, TypeOK
  <2>3. QED
    BY <1>1, <1>3, <2>2, PushCallInv DEF RunPushCall
<1>4. CASE RunBindFuture
  <2>1. callee[c] = None /\ ~code[c] /\ binds[c] # None
    BY <1>4 DEF RunBindFuture, Running, TopFrame
  <2>2. args[c] \in Word /\ binds[c] \in Word
    BY <1>2, <2>1 DEF IInv, TypeOK, FramesInv, StacksOK, Word
  <2>3. /\ binds' = [binds EXCEPT ![c] = None]
        /\ args' = [args EXCEPT ![c] = None]
        /\ UNCHANGED <<schedVars, threadVars, callee, code, uncaught, transientVars>>
    BY <1>4 DEF RunBindFuture
  <2>4. /\ args' \in [Thread -> Word \cup {None}]
        /\ callee' \in [Thread -> Word \cup {None}] /\ code' \in [Thread -> BOOLEAN]
        /\ \A t \in Thread \ {c} :
             callee'[t] = callee[t] /\ code'[t] = code[t] /\ args'[t] = args[t]
    BY <1>2, <2>3 DEF IInv, TypeOK
  <2>5. CASE Deref(args[c]) = binds[c]
    <3>1. StartBinding(binds[c], None, "CANCELLED", binds[c])
      BY <1>4, <2>5 DEF RunBindFuture
    <3>2. QED
      BY <1>1, <2>1, <2>2, <2>3, <2>4, <3>1, BindFrameInv
  <2>6. CASE Deref(args[c]) # binds[c]
    <3>1. StartBinding(binds[c], None, "REF", args[c])
      BY <1>4, <2>6 DEF RunBindFuture
    <3>2. QED
      BY <1>1, <2>1, <2>2, <2>3, <2>4, <2>6, <3>1, BindFrameInv
  <2>7. QED
    BY <2>5, <2>6
<1>5. CASE RunUncaughtException
  <2>1. uncaught[c] # None /\ callee[c] = None
    BY <1>5 DEF RunUncaughtException, Running, TopFrame
  <2>2. CASE phase' = "exit" /\ UNCHANGED <<wThreadQueue, currentThread, status,
                 threadVars, stackVars, transientVars, binding>>
    BY <1>1, <1>5, <2>2, PhaseInv DEF IInv, TypeOK
  <2>3. CASE /\ ClosuresLeft(c)
             /\ uncaught' = [uncaught EXCEPT ![c] = @ - 1]
             /\ \E closure \in Value : callee' = [callee EXCEPT ![c] = closure]
             /\ UNCHANGED <<schedVars, threadVars, code, binds, args,
                            transientVars, binding>>
    <3>1. uncaught[c] \in 0..ExnClosures /\ uncaught[c] - 1 \in 0..ExnClosures
      BY <1>2, <2>1, <2>3, ConstantsAssumption DEF IInv, TypeOK, ClosuresLeft
    <3>2. uncaught' \in [Thread -> (0..ExnClosures) \cup {None}]
      BY <2>3, <3>1 DEF IInv, TypeOK
    <3>3. callee' \in [Thread -> Word \cup {None}]
      BY <2>3 DEF IInv, TypeOK, Word
    <3>4. StacksOK'
      <4>1. \A t \in Thread : uncaught'[t] # None => uncaught[t] # None
        BY <1>2, <2>1, <2>3 DEF IInv, TypeOK
      <4>2. c \notin Unborn /\ binds[c] = None
        BY <1>2, <2>1 DEF IInv, FramesInv, StacksOK, Unborn
      <4>3. QED
        BY <1>2, <2>3, <4>1, <4>2
           DEF IInv, TypeOK, FramesInv, StacksOK, Unborn, threadVars
    <3>5. QED
      BY <1>1, <2>3, <3>2, <3>3, <3>4, StackInv DEF IInv, TypeOK, schedVars
  <2>4. QED
    BY <1>5, <2>2, <2>3 DEF RunUncaughtException
<1>6. CASE RunEmptyTask
  <2>1. binds[c] = None
    BY <1>6 DEF RunEmptyTask, Running, TopFrame
  <2>2. /\ state' = [state EXCEPT ![c] = "TERMINATED"]
        /\ future' = [future EXCEPT ![c] = None]
        /\ currentThread' = None /\ phase' = "events"
        /\ UNCHANGED <<wThreadQueue, status, suspended, stackVars,
                       transientVars, binding>>
    BY <1>6 DEF RunEmptyTask, EndSlice
  <2>3. future[c] = None /\ ~Occurs(c, wThreadQueue)
    BY <1>1, <1>2, CurrentThread DEF IInv, QueuesInv, WaitersExact
  <2>4. TypeOK'
    BY <2>2 DEF IInv, TypeOK, stackVars, transientVars
  <2>5. QueuesInv'
    BY <1>2, <2>2, <2>3, ConstantsAssumption
       DEF IInv, TypeOK, QueuesInv, RunQueueExact, WaitersExact, transientVars
  <2>6. FramesInv'
    BY <1>2, <2>1, <2>2 DEF IInv, TypeOK, FramesInv, EvaluatorExact, StacksOK,
                            Unborn, stackVars, transientVars
  <2>7. TransientsInv'
    BY <1>1, <2>2, SameTransients DEF IInv, transientVars
  <2>8. QED
    BY <2>4, <2>5, <2>6, <2>7 DEF IInv
<1>7. QED
  BY <1>3, <1>4, <1>5, <1>6 DEF RunFrame

-----------------------------------------------------------------------------
(***************************************************************************)
(* Functions that language code and events call.                           *)
(***************************************************************************)

\* A new thread enters the run queue once (Scheduler::NewThread).
LEMMA NewThreadInv ==
  ASSUME IInv, binding = None, phase \in {"run", "events"},
         NEW t \in Thread, NEW closure \in Word, NewThread(t, closure)
  PROVE  IInv'
<1>1. /\ state[t] = "UNBORN" /\ ~suspended[t] /\ uncaught[t] = None
      /\ future[t] = None /\ binds[t] = None
      /\ ~Occurs(t, wThreadQueue)
  BY DEF IInv, QueuesInv, FramesInv, RunQueueExact, WaitersExact,
         EvaluatorExact, StacksOK, Unborn, NewThread
<1>2. /\ Append(wThreadQueue, t) \in Seq(Thread)
      /\ NoDuplicates(Append(wThreadQueue, t))
      /\ \A u : Occurs(u, Append(wThreadQueue, t)) <=>
               Occurs(u, wThreadQueue) \/ u = t
  BY <1>1, AppendDistinct DEF IInv, TypeOK, QueuesInv, RunQueueExact
<1>3. /\ state' = [state EXCEPT ![t] = "RUNNABLE"]
      /\ callee' = [callee EXCEPT ![t] = closure]
      /\ wThreadQueue' = Append(wThreadQueue, t)
      /\ UNCHANGED <<currentThread, phase, status, suspended, future, code,
                     binds, uncaught, args, transientVars, binding>>
  BY DEF NewThread
<1>4. TypeOK'
  BY <1>2, <1>3 DEF IInv, TypeOK, transientVars
<1>5. t # currentThread
  BY <1>1, ConstantsAssumption DEF IInv, TypeOK, QueuesInv, RunQueueExact
<1>6. RunQueueExact'
  BY <1>1, <1>2, <1>3, <1>5 DEF IInv, TypeOK, QueuesInv, RunQueueExact
<1>7. WaitersExact'
  BY <1>1, <1>3 DEF IInv, TypeOK, QueuesInv, WaitersExact, transientVars
<1>8. FramesInv'
  BY <1>1, <1>3, ConstantsAssumption
     DEF IInv, TypeOK, FramesInv, EvaluatorExact, StacksOK, Unborn, transientVars
<1>9. TransientsInv'
  BY <1>3, SameTransients DEF IInv, transientVars
<1>10. QED
  BY <1>4, <1>6, <1>7, <1>8, <1>9 DEF IInv, QueuesInv

\* A new transient is unbound and nobody waits for it.
LEMMA NewTransientInv ==
  ASSUME IInv, binding = None, NEW x \in Transient,
         NEW l \in {"HOLE", "FUTURE", "BYNEED"}, NewTransient(x, l)
  PROVE  IInv'
<1>1. /\ label[x] = "FREE" /\ made[x] = "FREE" /\ assoc[x] = None
      /\ waitQueue[x] = <<>>
      /\ \A h \in Transient : assoc[h] # x
      /\ \A t \in Thread : binds[t] # x
  BY ConstantsAssumption
     DEF IInv, QueuesInv, FramesInv, TransientsInv, WaitersExact, Origins,
         EvaluatorExact, Word, NewTransient, Free
<1>2. /\ label' = [label EXCEPT ![x] = l]
      /\ made' = [made EXCEPT ![x] = l]
      /\ UNCHANGED <<schedVars, threadVars, stackVars, ref, assoc, waitQueue,
                     binding>>
  BY DEF NewTransient
<1>3. TypeOK'
  BY <1>2 DEF IInv, TypeOK, Labels, schedVars, threadVars, stackVars
<1>4. QueuesInv'
  BY <1>1, <1>2 DEF IInv, TypeOK, QueuesInv, RunQueueExact, WaitersExact,
                    schedVars, threadVars
<1>5. FramesInv'
  BY <1>1, <1>2 DEF IInv, TypeOK, FramesInv, EvaluatorExact, StacksOK, Unborn,
                    threadVars, stackVars
<1>6. RefsResolve'
  <2>1. \A y \in Transient : label'[y] = "REF" <=> label[y] = "REF"
    BY <1>1, <1>2 DEF IInv, TypeOK
  <2>2. QED
    BY <1>2, <2>1, SameChains DEF IInv, TransientsInv
<1>7. HoleFutureAgree' /\ BindingSound' /\ Origins'
  BY <1>1, <1>2 DEF IInv, TypeOK, TransientsInv, HoleFutureAgree,
                    BindingSound, Origins
<1>8. QED
  BY <1>3, <1>4, <1>5, <1>6, <1>7 DEF IInv, TransientsInv

\* A hole gets an associated future that no other hole has
\* (Hole::GetFuture).
LEMMA GetFutureInv ==
  ASSUME IInv, binding = None, NEW h \in Transient, NEW f \in Transient,
         GetFuture(h, f)
  PROVE  IInv'
<1>1. /\ label[f] = "FREE" /\ made[f] = "FREE" /\ assoc[f] = None
      /\ label[h] = "HOLE" /\ made[h] = "HOLE" /\ assoc[h] = None /\ h # f
      /\ waitQueue[f] = <<>>
      /\ \A k \in Transient : assoc[k] # f
      /\ \A t \in Thread : binds[t] # f
  BY ConstantsAssumption
     DEF IInv, QueuesInv, FramesInv, TransientsInv, WaitersExact, Origins,
         EvaluatorExact, Word, GetFuture, Free
<1>2. /\ label' = [label EXCEPT ![f] = "FUTURE"]
      /\ made' = [made EXCEPT ![f] = "ASSOC"]
      /\ assoc' = [assoc EXCEPT ![h] = f]
      /\ UNCHANGED <<schedVars, threadVars, stackVars, ref, waitQueue, binding>>
  BY DEF GetFuture
<1>3. TypeOK'
  BY <1>2 DEF IInv, TypeOK, Labels, schedVars, threadVars, stackVars
<1>4. QueuesInv'
  BY <1>1, <1>2 DEF IInv, TypeOK, QueuesInv, RunQueueExact, WaitersExact,
                    schedVars, threadVars
<1>5. FramesInv'
  BY <1>1, <1>2 DEF IInv, TypeOK, FramesInv, EvaluatorExact, StacksOK, Unborn,
                    threadVars, stackVars
<1>6. RefsResolve'
  <2>1. \A y \in Transient : label'[y] = "REF" <=> label[y] = "REF"
    BY <1>1, <1>2 DEF IInv, TypeOK
  <2>2. QED
    BY <1>2, <2>1, SameChains DEF IInv, TransientsInv
<1>7. HoleFutureAgree' /\ BindingSound'
  BY <1>1, <1>2 DEF IInv, TypeOK, TransientsInv, HoleFutureAgree, BindingSound
<1>8. Origins'
  BY <1>1, <1>2, ConstantsAssumption DEF IInv, TypeOK, TransientsInv, Origins, Word
<1>9. QED
  BY <1>3, <1>4, <1>5, <1>6, <1>7, <1>8 DEF IInv, TransientsInv

\* Hole::Fill starts a sound binding: its tests exclude cycles.
LEMMA FillInv ==
  ASSUME IInv, binding = None, phase = "run",
         NEW h \in Transient, NEW w \in Word, Fill(h, w)
  PROVE  IInv'
<1>1. /\ label[h] = "HOLE" /\ Deref(w) # h /\ Deref(w) # assoc[h]
      /\ StartBinding(assoc[h], h, "REF", w)
      /\ UNCHANGED <<schedVars, threadVars, stackVars, transientVars>>
  BY DEF Fill, CyclicBind
<1>2. /\ assoc[h] \in Transient \cup {None} /\ h # None
      /\ assoc[h] # None =>
           label[assoc[h]] = "FUTURE" /\ made[assoc[h]] = "ASSOC"
  BY <1>1, ConstantsAssumption
     DEF IInv, TypeOK, TransientsInv, HoleFutureAgree, Origins, Word
<1>3. QED
  BY <1>1, <1>2, BindOtherInv

\* Hole::Fail starts a sound binding.
LEMMA FailInv ==
  ASSUME IInv, binding = None, phase = "run", NEW h \in Transient, Fail(h)
  PROVE  IInv'
<1>1. /\ label[h] = "HOLE" /\ h \in Word
      /\ StartBinding(assoc[h], h, "CANCELLED", h)
      /\ UNCHANGED <<schedVars, threadVars, stackVars, transientVars>>
  BY DEF Fail, Word
<1>2. /\ assoc[h] \in Transient \cup {None} /\ h # None
      /\ assoc[h] # None =>
           label[assoc[h]] = "FUTURE" /\ made[assoc[h]] = "ASSOC"
  BY <1>1, ConstantsAssumption
     DEF IInv, TypeOK, TransientsInv, HoleFutureAgree, Origins, Word
<1>3. QED
  BY <1>1, <1>2, BindOtherInv

\* Binding a future of the runtime starts a sound binding
\* (Stream::SendEvent, IOHandler, SignalHandler).
LEMMA BindFutureInv ==
  ASSUME IInv, binding = None, phase \in {"run", "events"},
         NEW f \in Transient, NEW w \in Value, BindFuture(f, w)
  PROVE  IInv'
<1>1. /\ label[f] = "FUTURE" /\ made[f] = "FUTURE"
      /\ StartBinding(f, None, "REF", w)
      /\ UNCHANGED <<schedVars, threadVars, stackVars, transientVars>>
  BY DEF BindFuture
<1>2. w \in Word /\ Deref(w) = w /\ w # f /\ w # None /\ f # None
  BY DerefValue, ConstantsAssumption DEF Word
<1>3. QED
  BY <1>1, <1>2, BindOtherInv

\* The thread leaves the run queue, or returns to it, if it is runnable.
LEMMA SuspendResumeInv ==
  ASSUME IInv, binding = None, phase = "run", NEW t \in Thread,
         SuspendThread(t) \/ ResumeThread(t)
  PROVE  IInv'
<1>1. /\ UNCHANGED <<currentThread, phase, status, state, future, stackVars,
                     transientVars, binding>>
      /\ \E b \in BOOLEAN : suspended' = [suspended EXCEPT ![t] = b]
      /\ state[t] # "UNBORN"
  BY DEF IInv, FramesInv, StacksOK, Unborn, SuspendThread, ResumeThread
<1>2. wThreadQueue \in Seq(Thread) /\ NoDuplicates(wThreadQueue)
  BY DEF IInv, TypeOK, QueuesInv, RunQueueExact
<1>3. wThreadQueue' \in Seq(Thread) /\ RunQueueExact'
  <2>1. CASE SuspendThread(t)
    <3>1. wThreadQueue' \in Seq(Thread) /\ NoDuplicates(wThreadQueue')
      BY <1>2, <2>1, RemoveDistinct DEF SuspendThread
    <3>2. \A u \in Thread : Occurs(u, wThreadQueue') <=>
            Occurs(u, wThreadQueue) /\ u # t
      BY <1>2, <2>1, RemoveDistinct DEF IInv, QueuesInv, RunQueueExact, SuspendThread
    <3>3. QED
      BY <1>1, <2>1, <3>1, <3>2
         DEF IInv, TypeOK, QueuesInv, RunQueueExact, SuspendThread
  <2>2. CASE ResumeThread(t)
    <3>1. ~Occurs(t, wThreadQueue) /\ suspended[t] /\ t # currentThread
      BY <2>2 DEF IInv, QueuesInv, RunQueueExact, ResumeThread
    <3>2. wThreadQueue' \in Seq(Thread) /\ NoDuplicates(wThreadQueue')
      BY <1>2, <2>2, <3>1, AppendDistinct DEF ResumeThread
    <3>3. \A u \in Thread : Occurs(u, wThreadQueue') <=>
            Occurs(u, wThreadQueue) \/ (u = t /\ state[t] = "RUNNABLE")
      BY <1>2, <2>2, <3>1, AppendDistinct DEF ResumeThread
    <3>4. QED
      BY <1>1, <2>2, <3>1, <3>2, <3>3
         DEF IInv, TypeOK, QueuesInv, RunQueueExact, ResumeThread
  <2>3. QED
    BY <2>1, <2>2
<1>4. TypeOK'
  BY <1>1, <1>3 DEF IInv, TypeOK, stackVars, transientVars
<1>5. WaitersExact'
  BY <1>1 DEF IInv, QueuesInv, WaitersExact, transientVars
<1>6. FramesInv'
  BY <1>1 DEF IInv, TypeOK, FramesInv, EvaluatorExact, StacksOK, Unborn,
              stackVars, transientVars
<1>7. TransientsInv'
  BY <1>1, SameTransients DEF IInv, transientVars
<1>8. QED
  BY <1>3, <1>4, <1>5, <1>6, <1>7 DEF IInv, QueuesInv

\* Popping the last frame of code preserves the invariant.
LEMMA ReturnInv ==
  ASSUME IInv, binding = None, phase = "run", NEW w \in Word,
         callee[currentThread] = None, Return(w)
  PROVE  IInv'
<1>1. currentThread \in Thread
  BY CurrentThread DEF IInv, QueuesInv
<1>2. /\ UNCHANGED <<schedVars, threadVars, callee, binds, uncaught,
                     transientVars, binding>>
      /\ code' = [code EXCEPT ![currentThread] = FALSE]
      /\ args' = [args EXCEPT ![currentThread] =
                    IF uncaught[currentThread] = None /\ binds[currentThread] # None
                    THEN w ELSE None]
  BY DEF Return
<1>3. StacksOK'
  BY <1>1, <1>2 DEF IInv, TypeOK, FramesInv, StacksOK, Unborn, threadVars
<1>4. QED
  BY <1>2, <1>3, StackInv DEF IInv, TypeOK, schedVars

\* case Worker::SUSPEND preserves the invariant.
LEMMA SuspendInv == ASSUME IInv, binding = None, phase = "run", Suspend PROVE IInv'
<1>1. currentThread \in Thread /\ state[currentThread] = "RUNNABLE"
      /\ ~Occurs(currentThread, wThreadQueue)
  BY CurrentThread DEF IInv, QueuesInv
<1>2. /\ suspended' = [suspended EXCEPT ![currentThread] = TRUE]
      /\ currentThread' = None /\ phase' = "events"
      /\ UNCHANGED <<wThreadQueue, status, state, future, stackVars,
                     transientVars, binding>>
  BY DEF Suspend, EndSlice
<1>3. TypeOK'
  BY <1>2 DEF IInv, TypeOK, stackVars, transientVars
<1>4. RunQueueExact'
  BY <1>1, <1>2, ConstantsAssumption DEF IInv, TypeOK, QueuesInv, RunQueueExact
<1>5. WaitersExact'
  BY <1>2 DEF IInv, QueuesInv, WaitersExact, transientVars
<1>6. FramesInv'
  BY <1>1, <1>2 DEF IInv, TypeOK, FramesInv, EvaluatorExact, StacksOK, Unborn,
                    stackVars, transientVars
<1>7. TransientsInv'
  BY <1>2, SameTransients DEF IInv, transientVars
<1>8. QED
  BY <1>3, <1>4, <1>5, <1>6, <1>7 DEF IInv, QueuesInv

\* case Worker::PREEMPT preserves the invariant.
LEMMA YieldInv == ASSUME IInv, binding = None, phase = "run", Yield PROVE IInv'
<1>1. /\ QueuesInv' /\ wThreadQueue' \in Seq(Thread)
      /\ currentThread' = None /\ phase' = "events"
      /\ UNCHANGED <<status, threadVars, stackVars, transientVars, binding>>
  BY PreemptInv DEF IInv, QueuesInv, Yield
<1>2. TypeOK'
  BY <1>1 DEF IInv, TypeOK, threadVars, stackVars, transientVars
<1>3. FramesInv'
  BY <1>1 DEF IInv, FramesInv, EvaluatorExact, StacksOK, Unborn,
              threadVars, stackVars, transientVars
<1>4. TransientsInv'
  BY <1>1, SameTransients DEF IInv, transientVars
<1>5. QED
  BY <1>1, <1>2, <1>3, <1>4 DEF IInv

\* Whatever language code calls or returns preserves the invariant.
LEMMA RunCodeInv == ASSUME IInv, RunCode PROVE IInv'
<1> DEFINE c == currentThread
<1>1. /\ phase = "run" /\ binding = None
      /\ callee[c] = None /\ code[c]
  BY DEF RunCode, Running, TopFrame
<1>2. Words \subseteq Word
  BY DEF Words
<1>3. CASE \E t \in Thread, closure \in Words : NewThread(t, closure)
  BY <1>1, <1>2, <1>3, NewThreadInv
<1>4. CASE \E x \in Transient, l \in {"HOLE", "FUTURE", "BYNEED"} :
             NewTransient(x, l)
  BY <1>1, <1>4, NewTransientInv
<1>5. CASE \E h, f \in Transient : GetFuture(h, f)
  BY <1>1, <1>5, GetFutureInv
<1>6. CASE \E h \in Transient, w \in Words : Fill(h, w)
  BY <1>1, <1>2, <1>6, FillInv
<1>7. CASE \E h \in Transient : Fail(h)
  BY <1>1, <1>7, FailInv
<1>8. CASE \E t \in Thread : SuspendThread(t) \/ ResumeThread(t)
  BY <1>1, <1>8, SuspendResumeInv
<1>9. CASE \E f \in Transient, w \in Value : BindFuture(f, w)
  BY <1>1, <1>9, BindFutureInv
<1>10. CASE \E w \in Words : PushCall(w) \/ Request(w, None) \/ Return(w)
  <2>1. PICK w \in Word : PushCall(w) \/ Request(w, None) \/ Return(w)
    BY <1>2, <1>10
  <2>2. CASE PushCall(w)
    BY <1>1, <2>2, PushCallInv
  <2>3. CASE Request(w, None)
    BY <1>1, <2>3, RequestInv
  <2>4. CASE Return(w)
    BY <1>1, <2>4, ReturnInv
  <2>5. QED
    BY <2>1, <2>2, <2>3, <2>4
<1>11. CASE DoRaise
  BY <1>1, <1>11, DoRaiseInv
<1>12. CASE Suspend
  BY <1>1, <1>12, SuspendInv
<1>13. CASE Yield
  BY <1>1, <1>13, YieldInv
<1>14. CASE Exit
  BY <1>1, <1>14, PhaseInv DEF IInv, TypeOK, Exit
<1>15. QED
  BY <1>3, <1>4, <1>5, <1>6, <1>7, <1>8, <1>9, <1>10, <1>11, <1>12, <1>13,
     <1>14 DEF RunCode

\* The events between two slices preserve the invariant.
LEMMA RunEventsInv == ASSUME IInv, RunEvents PROVE IInv'
<1>1. phase = "events" /\ binding = None
  BY DEF RunEvents
<1>2. CASE \E f \in Transient, w \in Value : BindFuture(f, w)
  BY <1>1, <1>2, BindFutureInv
<1>3. CASE \E t \in Thread, closure \in Value : NewThread(t, closure)
  BY <1>1, <1>3, NewThreadInv DEF Word
<1>4. QED
  BY <1>2, <1>3 DEF RunEvents

\* The outer loop of Scheduler::Run and the two halves of a binding
\* preserve the invariant.
LEMMA LoopInv == ASSUME IInv, Loop PROVE IInv'
<1>1. CASE Block
  BY <1>1, PhaseInv DEF IInv, TypeOK, TransientsInv, BindingSound, Block
<1>2. CASE ClearStatus
  BY <1>2, PhaseInv DEF IInv, TypeOK, ClearStatus
<1>3. QED
  BY <1>1, <1>2, DispatchInv, WakeupThreadInv, BecomeInv DEF Loop

\* The invariant is inductive: every step preserves it.
LEMMA NextInv == IInv /\ [Next]_vars => IInv'
<1> SUFFICES ASSUME IInv, [Next]_vars PROVE IInv'
  OBVIOUS
<1>1. CASE Tick
  BY <1>1, PhaseInv DEF IInv, TypeOK, Tick
<1>2. CASE UNCHANGED vars
  BY <1>2, PhaseInv DEF IInv, TypeOK, vars, schedVars
<1>3. QED
  BY <1>1, <1>2, LoopInv, RunFrameInv, RunCodeInv, RunEventsInv
     DEF Next, Exited

-----------------------------------------------------------------------------
(***************************************************************************)
(* Single assignment.                                                      *)
(***************************************************************************)
Unbound == {"HOLE", "FUTURE", "BYNEED"}

\* Apart from Become, a step changes the label of a transient only when it
\* allocates it or starts to evaluate it.
LabelsMove ==
  /\ ref' = ref
  /\ \A x \in Transient :
       \/ label'[x] = label[x]
       \/ label[x] \in {"FREE", "BYNEED"} /\ label'[x] \in Unbound

\* Only Become binds: no other step changes what a determined word is.
LEMMA LabelSteps == ASSUME IInv, [Next]_vars, ~Become PROVE LabelsMove
<1>1. CASE UNCHANGED transientVars
  BY <1>1 DEF LabelsMove, transientVars
<1>2. CASE UNCHANGED <<label, ref>>
  BY <1>2 DEF LabelsMove
<1> DEFINE ByneedStarts == \E x \in Transient : ref' = ref
             /\ label[x] = "BYNEED" /\ label' = [label EXCEPT ![x] = "FUTURE"]
<1>3. CASE ByneedStarts
  BY <1>3 DEF LabelsMove, IInv, TypeOK, Unbound
<1>4. DoRaise => UNCHANGED transientVars
  BY DEF DoRaise, RaiseInCode, RaiseInUncaught, RaiseInBindFuture, RaiseInEmptyTask
<1>5. ASSUME NEW w, NEW pending, Request(w, pending)
      PROVE  UNCHANGED <<label, ref>> \/ ByneedStarts
  BY <1>4, <1>5 DEF Request, RequestFuture, RequestByneed, IsByneed, BecomeFuture,
         OutOfStore, RequestRaises, transientVars
<1>6. ASSUME NEW w, PushCall(w)
      PROVE  UNCHANGED <<label, ref>> \/ ByneedStarts
  BY <1>5, <1>6 DEF PushCall, Preempt, transientVars
<1>7. CASE Loop
  BY <1>1, <1>2, <1>7 DEF Loop, Dispatch, Block, ClearStatus, WakeupThread
<1>8. CASE RunFrame
  BY <1>1, <1>2, <1>3, <1>6, <1>8
     DEF RunFrame, RunPushCall, RunBindFuture, RunUncaughtException, RunEmptyTask
<1>9. CASE RunEvents
  BY <1>1, <1>9 DEF RunEvents, BindFuture, NewThread
<1>10. CASE RunCode
  <2>1. CASE \E x \in Transient, l \in Unbound : NewTransient(x, l)
    BY <2>1 DEF NewTransient, Free, LabelsMove, IInv, TypeOK, Unbound
  <2>2. CASE \E h, f \in Transient : GetFuture(h, f)
    BY <2>2 DEF GetFuture, Free, LabelsMove, IInv, TypeOK, Unbound
  <2>3. CASE \E w \in Words : PushCall(w) \/ Request(w, None) \/ Return(w)
    BY <1>1, <1>2, <1>3, <1>5, <1>6, <2>3 DEF Return
  <2>4. CASE \E t \in Thread, closure \in Words : NewThread(t, closure)
    BY <1>1, <2>4 DEF NewThread
  <2>5. CASE \/ \E h \in Transient, w \in Words : Fill(h, w)
             \/ \E h \in Transient : Fail(h)
             \/ \E f \in Transient, w \in Value : BindFuture(f, w)
    BY <1>1, <2>5 DEF Fill, Fail, BindFuture
  <2>6. CASE \/ \E t \in Thread : SuspendThread(t) \/ ResumeThread(t)
             \/ Suspend \/ Yield \/ Exit
    BY <1>1, <2>6 DEF SuspendThread, ResumeThread, Suspend, Yield, Preempt, Exit
  <2>7. QED
    BY <1>1, <1>4, <1>10, <2>1, <2>2, <2>3, <2>4, <2>5, <2>6 DEF RunCode, Unbound
<1>11. CASE Tick \/ UNCHANGED vars
  BY <1>1, <1>11 DEF Tick, vars
<1>12. QED
  BY <1>7, <1>8, <1>9, <1>10, <1>11 DEF Next, Exited

\* No step changes what a determined word dereferences to.
LEMMA StepAssignsOnce ==
  ASSUME IInv, [Next]_vars, NEW w \in Word, Determined(w)
  PROVE  Deref(w)' = Deref(w) /\ Determined(w)'
<1> DEFINE v == Deref(w)
<1>1. v \in Ends(w) /\ v \in Word
  <2>1. PICK u : u \in Ends(w)
    BY DEF IInv, TransientsInv, RefsResolve
  <2>2. QED
    BY <2>1 DEF Deref, Ends
<1>2. /\ w \in Value \/ (w \in Transient /\ label[w] # "FREE")
      /\ v \in Value \/ label[v] = "CANCELLED"
  BY DEF Determined, Allocated
<1>3. ASSUME Deref(w)' = v,
             \A x \in Transient : label[x] # "FREE" => label'[x] # "FREE",
             v \in Transient /\ label[v] = "CANCELLED" => label'[v] = "CANCELLED"
      PROVE  Determined(w)'
  BY <1>1, <1>2, <1>3 DEF Determined, Allocated, Word
<1>4. CASE Become
  <2>1. /\ binding \in Bindings /\ binding # None
        /\ label' = [x \in Transient |->
                        IF x \in Targets THEN binding.label ELSE label[x]]
        /\ ref' = [x \in Transient |->
                      IF x \in Targets /\ binding.label = "REF"
                      THEN Deref(binding.ref) ELSE ref[x]]
        /\ binding.label \in {"REF", "CANCELLED"} /\ binding.ref \in Word
    BY <1>4 DEF IInv, TypeOK, Bindings, Become
  <2>2. /\ Targets \subseteq Transient
        /\ \A x \in Targets : label[x] \in Unbound
    BY <2>1 DEF IInv, TransientsInv, BindingSound, Bindings, Targets, Unbound
  <2>3. v \notin Targets
    BY <1>2, <2>2, ConstantsAssumption DEF Unbound
  <2>4. /\ \A x \in Transient : label[x] # "FREE" => label'[x] # "FREE"
        /\ v \in Transient /\ label[v] = "CANCELLED" => label'[v] = "CANCELLED"
    BY <2>1, <2>3
  <2>5. CASE binding.label = "REF"
    <3> DEFINE e == Deref(binding.ref)
    <3>1. e \in Word /\ ~IsRef(e) /\ e \notin Targets
      <4>1. PICK u : u \in Ends(binding.ref)
        BY <2>1 DEF IInv, TransientsInv, RefsResolve
      <4>2. QED
        BY <2>1, <2>5, <4>1 DEF Deref, Ends, IInv, TransientsInv, BindingSound
    <3>2. \A x \in Targets : ~IsRef(x)
      BY <2>2 DEF IsRef, Unbound
    <3>3. /\ label' = [x \in Transient |->
                         IF x \in Targets THEN "REF" ELSE label[x]]
          /\ ref' = [x \in Transient |-> IF x \in Targets THEN e ELSE ref[x]]
      BY <2>1, <2>5
    <3> HIDE DEF e
    <3>4. Deref(w)' = v
      BY <1>1, <2>2, <2>3, <3>1, <3>2, <3>3, BindChains DEF IInv, TransientsInv
    <3>5. QED
      BY <1>3, <2>4, <3>4
  <2>6. CASE binding.label = "CANCELLED"
    <3>1. /\ \A x \in Transient : label'[x] = "REF" <=> label[x] = "REF"
          /\ ref' = ref
      BY <2>1, <2>2, <2>6 DEF Unbound, IInv, TypeOK
    <3>2. Deref(w)' = v
      BY <3>1, SameChains
    <3>3. QED
      BY <1>3, <2>4, <3>2
  <2>7. QED
    BY <2>1, <2>5, <2>6
<1>5. CASE ~Become
  <2>1. LabelsMove
    BY <1>5, LabelSteps
  <2>2. /\ \A x \in Transient : label'[x] = "REF" <=> label[x] = "REF"
        /\ \A x \in Transient : label[x] # "FREE" => label'[x] # "FREE"
        /\ v \in Transient /\ label[v] = "CANCELLED" => label'[v] = "CANCELLED"
    BY <2>1 DEF LabelsMove, Unbound
  <2>3. Deref(w)' = v
    BY <2>1, <2>2, SameChains DEF LabelsMove
  <2>4. QED
    BY <1>3, <2>2, <2>3
<1>6. QED
  BY <1>4, <1>5

-----------------------------------------------------------------------------
(***************************************************************************)
(* The theorems.                                                           *)
(***************************************************************************)

\* The invariant is inductive.
THEOREM Invariance == Spec => []IInv
<1>1. QED
  BY InitInv, NextInv, PTL DEF Spec

\* All state of the scheduler, the threads and the transients has its type.
THEOREM TypeCorrect == Spec => []TypeOK
<1>1. IInv => TypeOK
  BY DEF IInv
<1>2. QED
  BY <1>1, Invariance, PTL

\* Scheduler.hh: the run queue holds exactly the runnable threads, once each.
THEOREM RunQueueCorrect == Spec => []RunQueueExact
<1>1. IInv => RunQueueExact
  BY DEF IInv, QueuesInv
<1>2. QED
  BY <1>1, Invariance, PTL

\* Transients.hh: no wakeup is lost and none is given to a thread that does
\* not wait.
THEOREM WaitersCorrect == Spec => []WaitersExact
<1>1. IInv => WaitersExact
  BY DEF IInv, QueuesInv
<1>2. QED
  BY <1>1, Invariance, PTL

\* Scheduler.cc, BYNEED_LABEL: a byneed is evaluated by exactly one thread.
THEOREM EvaluatorUnique == Spec => []EvaluatorExact
<1>1. IInv => EvaluatorExact
  BY DEF IInv, FramesInv
<1>2. QED
  BY <1>1, Invariance, PTL

\* Transients.hh: dereferencing terminates, the cyclicity tests of Hole::Fill
\* and BindFutureWorker are enough.
THEOREM NoReferenceCycle == Spec => []RefsResolve
<1>1. IInv => RefsResolve
  BY DEF IInv, TransientsInv
<1>2. QED
  BY <1>1, Invariance, PTL

\* Transients.hh: a hole and its associated future never disagree.
THEOREM HoleAndFutureAgree == Spec => []HoleFutureAgree
<1>1. IInv => HoleFutureAgree
  BY DEF IInv, TransientsInv
<1>2. QED
  BY <1>1, Invariance, PTL

\* Hole::Fill, Hole::Fail, BindFutureWorker: what was tested before the waiters
\* are woken still holds when the transients are bound.
THEOREM BindingsSound == Spec => []BindingSound
<1>1. IInv => BindingSound
  BY DEF IInv, TransientsInv
<1>2. QED
  BY <1>1, Invariance, PTL

\* Transients.hh: what a variable is bound to never changes.
THEOREM AssignedOnce == Spec => SingleAssignment
<1>1. IInv /\ [Next]_vars =>
        [\A w \in Word : Determined(w) => Deref(w)' = Deref(w) /\ Determined(w)']_vars
  BY StepAssignsOnce
<1>2. QED
  BY <1>1, Invariance, PTL DEF Spec, SingleAssignment

=============================================================================
