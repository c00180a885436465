---------------------------- MODULE Minimizer ----------------------------
(* generic/MinimizerLoader.cc and generic/Minimizer.cc: the blocks that  *)
(* can be reached from a root are collected and partitioned, coarsest    *)
(* first, and all blocks of a class are replaced by one of them.         *)
EXTENDS Words, Filter, FiniteSets, SequencesExt, FiniteSetsExt

CONSTANTS
    Graphs,  \* the heaps to begin with; the root is block 1
    Words,   \* what other threads bind and assign
    Invalid  \* INVALID_ARRAY_ELEM

ASSUME GraphsAssumption ==
    \A h \in Graphs :
        /\ IsHeap(h)
        /\ (\E b \in DOMAIN h : h[b].kind \in {"TRANSIENT", "MBLOCK"}) => \A w \in Words : IsWord(h, w)

ASSUME InvalidAssumption == Invalid \notin Int

VARIABLES
    heap,     \* the blocks of the program
    phase,    \* where the thread is
    stack,    \* PLoaderStack
    nodes,    \* DynNodeArray: the block of each node
    preds,    \* PNode: the edges into each node
    array,    \* DynNodeArray: the nodes in the order of the partition
    class,    \* PNode: the class (PBlock) of each node
    blocks,   \* Partition: the classes
    agenda,   \* a stack of classes
    cur,      \* the class taken from the agenda, or 0
    edge,     \* the edge that was followed last
    toDo,     \* the classes to split
    original  \* the heap with each block as it was collected (for properties)

partition == <<class, blocks, agenda, cur, edge, toDo>>
loader == <<stack, nodes, preds, array>>
vars == <<heap, phase, loader, partition, original>>

Init ==
    /\ heap \in Graphs
    /\ phase = "load"
    /\ stack = <<[data |-> Ptr(1), edge |-> 0, parent |-> 0]>>
    /\ nodes = <<>>
    /\ preds = <<>>
    /\ array = <<>>
    /\ class = <<>>
    /\ blocks = <<>>
    /\ agenda = <<>>
    /\ cur = 0
    /\ edge = 0
    /\ toDo = <<>>
    /\ original = heap

-----------------------------------------------------------------------------
(* PartitionLoaderWorker::Run, one iteration of its loop per step.       *)

Top == Last(stack)
Value == Deref(heap, Top.data)
Loading == phase = "load" /\ stack # <<>>
AtBlock == Loading /\ ~IsInt(Value) /\ ~IsTransient(heap, Value)
Seen == {n \in DOMAIN nodes : nodes[n] = Value[2]}

LoadTransient ==
    /\ Loading
    /\ IsTransient(heap, Value)
    /\ phase' = "request"
    /\ UNCHANGED <<heap, loader, partition, original>>

LoadInt ==
    /\ Loading
    /\ IsInt(Value)
    /\ stack' = Front(stack)
    /\ UNCHANGED <<heap, phase, nodes, preds, array, partition, original>>

(* AddParent; the root has no parent.                                    *)
Edge == IF Top.parent = 0 THEN <<>> ELSE <<[edge |-> Top.edge, parent |-> Top.parent]>>

Children(n) ==
    IF heap[n].kind \in Chunks THEN <<>>
    ELSE [i \in DOMAIN heap[n].args |->
             [data |-> heap[n].args[i], edge |-> i, parent |-> Len(nodes) + 1]]

InsertNode(b) ==
    /\ nodes' = Append(nodes, b)
    /\ preds' = Append(preds, Edge)
    /\ array' = Append(array, Len(nodes) + 1)

LoadNew ==
    /\ AtBlock
    /\ Seen = {}
    /\ InsertNode(Value[2])
    /\ stack' = Front(stack) \o Reverse(Children(Value[2]))
    /\ UNCHANGED <<heap, phase, partition, original>>

LoadSeen ==
    /\ AtBlock
    /\ \E n \in Seen : preds' = [preds EXCEPT ![n] = @ \o Edge]
    /\ stack' = Front(stack)
    /\ UNCHANGED <<heap, phase, nodes, array, partition, original>>

(* PartitionLoaderCheckWorker, which would start again after a transient, *)
(* is never pushed.                                                       *)
LoadDone ==
    /\ phase = "load"
    /\ stack = <<>>
    /\ phase' = "minimize"
    /\ UNCHANGED <<heap, loader, partition, original>>

(* The scheduler and other threads.                                      *)
Resume ==
    /\ phase = "request"
    /\ ~IsTransient(heap, Value)
    /\ phase' = "load"
    /\ UNCHANGED <<heap, loader, partition, original>>

(* They run while a transient is requested and, if the loader is         *)
(* preempted when it is done, before Minimize, which runs to its end.    *)
OthersRun == phase \in {"request", "minimize"}

BindTransient ==
    /\ OthersRun
    /\ \E t \in DOMAIN heap, w \in Words :
          /\ heap[t].kind = "TRANSIENT"
          /\ Deref(heap, w) # Ptr(t)
          /\ heap' = [heap EXCEPT ![t] = Block("REF", <<w>>)]
          /\ original' = [original EXCEPT ![t] = Block("REF", <<w>>)]
    /\ UNCHANGED <<phase, loader, partition>>

Assign ==
    /\ OthersRun
    /\ \E b \in DOMAIN heap, w \in Words : \E i \in DOMAIN heap[b].args :
          /\ heap[b].kind = "MBLOCK"
          /\ heap[b].args[i] # w
          /\ heap' = [heap EXCEPT ![b].args[i] = w]
          /\ original' = IF b \in Range(nodes) THEN original ELSE [original EXCEPT ![b].args[i] = w]
    /\ UNCHANGED <<phase, loader, partition>>

-----------------------------------------------------------------------------
(* PNode::Compare. The number of a block is its address.                 *)

Label(kind) ==
    CASE kind \in Chunks -> 0 [] kind = "TUPLE" -> 1 [] kind = "CLOSURE" -> 2
      [] kind = "CONCRETE" -> 3 [] kind = "UNIQUE" -> 4 [] kind \in {"BLOCK", "MBLOCK"} -> 5

Incomparable == {"CONCRETE", "UNIQUE", "MBLOCK", "MCHUNK"}

Sign(i, j) == IF i < j THEN -1 ELSE IF i > j THEN 1 ELSE 0
FirstNonZero(s) == LET d == SelectInSeq(s, LAMBDA i : i # 0) IN IF d = 0 THEN 0 ELSE s[d]

CompareChild(v, w) ==
    IF IsInt(v) /\ IsInt(w) THEN Sign(v[2], w[2])
    ELSE IF IsInt(w) THEN 1 ELSE IF IsInt(v) THEN -1 ELSE 0

(* Integers only, from the last argument to the first.                   *)
CompareChildren(a, b) ==
    FirstNonZero(Reverse([i \in DOMAIN a |-> CompareChild(Deref(heap, a[i]), Deref(heap, b[i]))]))

CompareBytes(a, b) == FirstNonZero([i \in DOMAIN a |-> Sign(a[i], b[i])])

Compare(m, n) ==
    LET v == heap[nodes[m]]
        w == heap[nodes[n]]
        sizes == Sign(Len(v.args), Len(w.args))
    IN  IF m = n THEN 0
        ELSE IF Label(v.kind) # Label(w.kind) THEN Sign(Label(v.kind), Label(w.kind))
        ELSE IF v.kind \in Incomparable THEN (IF nodes[m] < nodes[n] THEN -1 ELSE 1)
        ELSE IF sizes # 0 THEN sizes
        ELSE IF v.kind \in Chunks THEN CompareBytes(v.args, w.args)
        ELSE CompareChildren(v.args, w.args)

-----------------------------------------------------------------------------
(* DynNodeArray::Sort: a quicksort of the positions l to r.              *)

Swapped(a, i, j) == [a EXCEPT ![i] = a[j], ![j] = a[i]]

ScanUp(a, i, v) == Min({k \in i..Len(a) : Compare(a[k], v) # -1})
ScanDown(a, j, l, v) == Max({k \in l..j : k = l \/ Compare(v, a[k]) # -1})

(* Partitioning by the last element: both ends move towards each other    *)
(* until they meet at a position, where it is put.                        *)
Split(a, l, r) ==
    LET round(s) ==
            LET up == ScanUp(s.array, s.i + 1, s.array[r])
                down == ScanDown(s.array, s.j - 1, l, s.array[r])
            IN  IF up >= down THEN [s EXCEPT !.at = up]
                ELSE [s EXCEPT !.array = Swapped(@, up, down), !.i = up, !.j = down]
        run[k \in 0..(r - l + 1)] ==
            IF k = 0 THEN [array |-> a, i |-> l - 1, j |-> r, at |-> 0]
            ELSE LET s == run[k - 1] IN IF s.at # 0 THEN s ELSE round(s)
        end == run[r - l + 1]
    IN  [array |-> Swapped(end.array, end.at, r), at |-> end.at]

(* The calls of sort that are still to be made, and the array. There is   *)
(* one call for each position that is found, and one for each gap.        *)
Sort(a, l, r) ==
    LET call(s) ==
            LET c == Head(s.calls)
                p == Split(s.array, c.l, c.r)
            IN  IF c.r <= c.l THEN [s EXCEPT !.calls = Tail(@)]
                ELSE [array |-> p.array,
                      calls |-> <<[l |-> c.l, r |-> p.at - 1], [l |-> p.at + 1, r |-> c.r]>> \o Tail(s.calls)]
        run[k \in 0..(2 * Len(a) + 1)] ==
            IF k = 0 THEN [array |-> a, calls |-> <<[l |-> l, r |-> r]>>]
            ELSE LET s == run[k - 1] IN IF s.calls = <<>> THEN s ELSE call(s)
    IN  run[2 * Len(a) + 1].array

-----------------------------------------------------------------------------
(* The part of a DynamicArray that follows the cells of PBlock with names. *)
(* It grows when a cell behind its end is written; one that is read there *)
(* is invalid, like those never written.                                  *)
NamedCells == 4
NewInit == <<Invalid>>

EnlargeArray(a, i) ==
    LET length == NamedCells + Len(a)
        upTo == NamedCells + i - 1
        newLength == IF 2 * length <= upTo THEN upTo + 1 ELSE 2 * length
    IN  a \o [k \in 1..(newLength - length) |-> Invalid]

Update(a, i, x) == [(IF i > Len(a) THEN EnlargeArray(a, i) ELSE a) EXCEPT ![i] = x]

Sub(a, i) == IF i > Len(a) THEN Invalid ELSE a[i]

(* PBlock: a range of the array, the position up to which it has not     *)
(* been marked, and the number of incoming edges of each kind, negative  *)
(* while the class is on the agenda with that edge; onAgenda counts these. *)

Counter(b, e) == LET i == Sub(b.incoming, e) IN IF i = Invalid THEN 0 ELSE i
SetCounter(b, e, i) == [b EXCEPT !.incoming = Update(@, e, i)]
SizeOfIncoming(b) == Len(b.incoming)

Incoming(b, e) == LET i == Counter(b, e) IN IF i < 0 THEN -i ELSE i
IsOnAgenda(b, e) == Counter(b, e) < 0

PutOnAgenda(b, e) ==
    IF Counter(b, e) <= 0 THEN b
    ELSE [SetCounter(b, e, -Counter(b, e)) EXCEPT !.onAgenda = @ + 1]

RemoveFromAgenda(b, e) ==
    IF IsOnAgenda(b, e) THEN [SetCounter(b, e, -Counter(b, e)) EXCEPT !.onAgenda = @ - 1] ELSE b

Increment(b, e) ==
    SetCounter(b, e, IF Counter(b, e) < 0 THEN Counter(b, e) - 1 ELSE Counter(b, e) + 1)

\* Mutant: as if the class were not on the agenda.
DecrementToZero(b, e) == SetCounter(b, e, Counter(b, e) - 1)

Decrement(b, e) ==
    LET c == IF Counter(b, e) = -1 THEN RemoveFromAgenda(b, e) ELSE b IN
    IF Sub(b.incoming, e) = Invalid THEN b
    ELSE SetCounter(c, e, IF Counter(c, e) < 0 THEN Counter(c, e) + 1 ELSE Counter(c, e) - 1)

(* PBlock::New and PNode::SetBlock for the nodes at first to last.       *)
EdgesInto(a, first, last) ==
    FlattenSeq([k \in 1..(last - first + 1) |->
                   [i \in DOMAIN preds[a[first + k - 1]] |-> preds[a[first + k - 1]][i].edge]])

NewClass(a, first, last) ==
    Loop(Increment,
             [first |-> first, last |-> last, split |-> last,
              incoming |-> NewInit, onAgenda |-> 0],
             EdgesInto(a, first, last))

-----------------------------------------------------------------------------
(* Partition::Minimize                                                   *)

NothingToDo ==
    /\ phase = "minimize"
    /\ Len(nodes) < 2
    /\ phase' = "done"
    /\ UNCHANGED <<heap, loader, partition, original>>

(* The agenda is a Stack.                                                *)
SlowPush(s, c) == Append(s, c)
IsEmpty(s) == s = <<>>

(* All classes are put on the agenda with all edges, the first on top.   *)
Complete(b) == Loop(PutOnAgenda, b, Reverse([e \in 1..SizeOfIncoming(b) |-> e]))
InitAgenda(bs) == Filter(Reverse([c \in DOMAIN bs |-> c]), {c \in DOMAIN bs : bs[c].onAgenda > 0})

(* Equal neighbours are in one class.                                    *)
InitBlocks ==
    /\ phase = "minimize"
    /\ Len(nodes) >= 2
    /\ array' = Sort(array, 1, Len(nodes))
    /\ LET starts == Filter([i \in DOMAIN nodes |-> i],
                            {i \in DOMAIN nodes : i = 1 \/ Compare(array'[i], array'[i - 1]) = 1})
           end(k) == IF k = Len(starts) THEN Len(nodes) ELSE starts[k + 1] - 1
       IN  /\ class' = [n \in DOMAIN nodes |->
                           CHOOSE k \in DOMAIN starts : \E i \in starts[k]..end(k) : array'[i] = n]
           /\ blocks' = [k \in DOMAIN starts |-> Complete(NewClass(array', starts[k], end(k)))]
    /\ agenda' = InitAgenda(blocks')
    /\ phase' = "refine"
    /\ UNCHANGED <<heap, stack, nodes, preds, cur, edge, toDo, original>>

PopAgenda ==
    /\ phase = "refine"
    /\ cur = 0
    /\ ~IsEmpty(agenda)
    /\ cur' = Last(agenda)
    /\ edge' = 0
    /\ agenda' = Front(agenda)
    /\ UNCHANGED <<heap, phase, loader, class, blocks, toDo, original>>

(* splitBlockAtNode: a node is swapped with the last one of its class    *)
(* that has not been marked.                                             *)
LookUp(a, n) == CHOOSE i \in DOMAIN a : a[i] = n

MarkNode(s, n) ==
    LET c == class[n]
        b == s.blocks[c]
        at == LookUp(s.array, n)
    IN  IF b.first = b.last THEN s
        ELSE [array |-> IF b.split >= at THEN Swapped(s.array, b.split, at) ELSE s.array,
              blocks |-> IF b.split >= at THEN [s.blocks EXCEPT ![c].split = @ - 1] ELSE s.blocks,
              toDo |-> IF b.split = b.last THEN <<c>> \o s.toDo ELSE s.toDo]

(* The parents of a class through an edge, in the order in which they    *)
(* are met.                                                              *)
Parents(c, e) ==
    LET from(n) == Filter(Reverse(preds[n]), {p \in Range(preds[n]) : p.edge = e}) IN
    FlattenSeq([k \in 1..(blocks[c].last - blocks[c].first + 1) |->
                   [i \in DOMAIN from(array[blocks[c].first + k - 1]) |->
                       from(array[blocks[c].first + k - 1])[i].parent]])

(* FollowBack: nodes of the class itself are marked last, so that they   *)
(* do not move while its nodes are visited.                              *)
FollowBack(c, e) ==
    LET parents == Parents(c, e)
        own == Filter(parents, {n \in DOMAIN nodes : class[n] = c})
        others == Filter(parents, {n \in DOMAIN nodes : class[n] # c})
        old == [array |-> array, blocks |-> [blocks EXCEPT ![c] = RemoveFromAgenda(@, e)], toDo |-> toDo]
        new == Loop(MarkNode, old, others \o Reverse(own))
    IN  /\ array' = new.array
        /\ blocks' = new.blocks
        /\ toDo' = new.toDo

(* The next edge after the last one, or from the first one again.        *)
Pending(c) == {e \in 1..(SizeOfIncoming(blocks[c]) + 1) : IsOnAgenda(blocks[c], e)}

FollowEdge ==
    /\ phase = "refine"
    /\ cur # 0
    /\ toDo = <<>>
    /\ Pending(cur) # {}
    /\ LET later == {e \in Pending(cur) : e > edge} IN
       edge' = IF later = {} THEN Min(Pending(cur)) ELSE Min(later)
    /\ FollowBack(cur, edge')
    /\ UNCHANGED <<heap, phase, stack, nodes, preds, class, agenda, cur, original>>

ClassDone ==
    /\ phase = "refine"
    /\ cur # 0
    /\ toDo = <<>>
    /\ blocks[cur].onAgenda = 0
    /\ cur' = 0
    /\ UNCHANGED <<heap, phase, loader, class, blocks, agenda, edge, toDo, original>>

(* DoSplits, for the first class in toDo. All its nodes were marked:     *)
AllMarked ==
    /\ phase = "refine"
    /\ toDo # <<>>
    /\ LET b == blocks[Head(toDo)] IN b.split < b.first
    /\ blocks' = [blocks EXCEPT ![Head(toDo)].split = blocks[Head(toDo)].last]
    /\ toDo' = Tail(toDo)
    /\ UNCHANGED <<heap, phase, loader, class, agenda, cur, edge, original>>

\* Mutant: the smaller half only, also of a class on the agenda.
ScheduleSmaller(s, e) ==
    LET old == Incoming(s.old, e)
        new == Incoming(s.new, e)
        put(b, c) == IF b.onAgenda = 0 THEN SlowPush(s.agenda, c) ELSE s.agenda
    IN  IF old < new /\ old # 0
        THEN [s EXCEPT !.agenda = put(s.old, Head(toDo)), !.old = PutOnAgenda(@, e)]
        ELSE IF new # 0
        THEN [s EXCEPT !.agenda = put(s.new, Len(blocks) + 1), !.new = PutOnAgenda(@, e)]
        ELSE s

(* Which half of a class that is split is followed back: both if the     *)
(* class was on the agenda, else the one with fewer edges.               *)
Schedule(s, e) ==
    LET old == Incoming(s.old, e)
        new == Incoming(s.new, e)
        put(b, c) == IF b.onAgenda = 0 THEN SlowPush(s.agenda, c) ELSE s.agenda
    IN  IF IsOnAgenda(s.old, e) /\ new = 0 THEN s
        ELSE IF ~IsOnAgenda(s.old, e) /\ old < new /\ old # 0
             THEN [s EXCEPT !.agenda = put(s.old, Head(toDo)), !.old = PutOnAgenda(@, e)]
        ELSE IF new # 0
             THEN [s EXCEPT !.agenda = put(s.new, Len(blocks) + 1), !.new = PutOnAgenda(@, e)]
        ELSE s

(* Otherwise the marked nodes, at the end, become a class of their own.  *)
SplitClass ==
    /\ phase = "refine"
    /\ toDo # <<>>
    /\ LET b == blocks[Head(toDo)]
           moved == EdgesInto(array, b.split + 1, b.last)
           left == Loop(Decrement, [b EXCEPT !.last = b.split], moved)
           s == Loop(Schedule,
                         [old |-> left, new |-> NewClass(array, b.split + 1, b.last), agenda |-> agenda],
                         [e \in 1..(SizeOfIncoming(left) + 1) |-> e])
       IN  /\ b.split >= b.first
           /\ class' = [n \in DOMAIN class |->
                           IF LookUp(array, n) \in (b.split + 1)..b.last THEN Len(blocks) + 1 ELSE class[n]]
           /\ blocks' = Append([blocks EXCEPT ![Head(toDo)] = s.old], s.new)
           /\ agenda' = s.agenda
    /\ toDo' = Tail(toDo)
    /\ UNCHANGED <<heap, phase, loader, cur, edge, original>>

\* Mutant: the root is replaced like any other block.
ReduceToFirst ==
    /\ phase = "refine"
    /\ cur = 0
    /\ IsEmpty(agenda)
    /\ array' = array
    /\ LET leader(n) == array'[blocks[class[n]].first]
           lost == {n \in DOMAIN nodes : leader(n) # n}
           moves(m, i) == {n \in lost : [edge |-> i, parent |-> m] \in Range(preds[n])}
       IN  heap' = [b \in DOMAIN heap |->
                       LET ms == {m \in DOMAIN nodes : nodes[m] = b} IN
                       [heap[b] EXCEPT !.args = [i \in DOMAIN @ |->
                           IF \E m \in ms : moves(m, i) # {}
                           THEN LET n == CHOOSE n \in lost : \E m \in ms : n \in moves(m, i)
                                IN  Ptr(nodes[leader(n)])
                           ELSE @[i]]]]
    /\ phase' = "done"
    /\ UNCHANGED <<stack, nodes, preds, class, blocks, agenda, cur, edge, toDo, original>>

(* ReduceGraph: every edge leads to the first node of a class; the root  *)
(* is the first one of its own.                                          *)
ReduceGraph ==
    /\ phase = "refine"
    /\ cur = 0
    /\ IsEmpty(agenda)
    /\ array' = Swapped(array, LookUp(array, 1), blocks[class[1]].first)
    /\ LET leader(n) == array'[blocks[class[n]].first]
           lost == {n \in DOMAIN nodes : leader(n) # n}
           moves(m, i) == {n \in lost : [edge |-> i, parent |-> m] \in Range(preds[n])}
       IN  heap' = [b \in DOMAIN heap |->
                       LET ms == {m \in DOMAIN nodes : nodes[m] = b} IN
                       [heap[b] EXCEPT !.args = [i \in DOMAIN @ |->
                           IF \E m \in ms : moves(m, i) # {}
                           THEN LET n == CHOOSE n \in lost : \E m \in ms : n \in moves(m, i)
                                IN  Ptr(nodes[leader(n)])
                           ELSE @[i]]]]
    /\ phase' = "done"
    /\ UNCHANGED <<stack, nodes, preds, class, blocks, agenda, cur, edge, toDo, original>>

Minimize ==
    \/ NothingToDo \/ InitBlocks \/ PopAgenda \/ FollowEdge \/ ClassDone
    \/ AllMarked \/ SplitClass \/ ReduceGraph

PartitionLoader == LoadTransient \/ LoadInt \/ LoadNew \/ LoadSeen \/ LoadDone \/ Resume

Next == PartitionLoader \/ BindTransient \/ Assign \/ Minimize

Spec == Init /\ [][Next]_vars

-----------------------------------------------------------------------------
(* What the partition should be: the coarsest one in which nodes of a     *)
(* class look the same and so do their arguments when they were collected. *)
Args(n) == original[nodes[n]].args
IsNode(w) == ~IsInt(w)
NodeOf(w) == CHOOSE n \in DOMAIN nodes : nodes[n] = w[2]
HasChildren(n) == heap[nodes[n]].kind \notin Chunks

Bisimilar ==
    LET children(p) ==
            IF ~HasChildren(p[1]) THEN {}
            ELSE {<<NodeOf(Deref(heap, Args(p[1])[i])), NodeOf(Deref(heap, Args(p[2])[i]))>> :
                      i \in {j \in DOMAIN Args(p[1]) : IsNode(Deref(heap, Args(p[1])[j]))}}
        alike[k \in 0..Len(nodes)] ==
            IF k = 0 THEN {p \in (DOMAIN nodes) \X (DOMAIN nodes) : Compare(p[1], p[2]) = 0}
            ELSE {p \in alike[k - 1] : children(p) \subseteq alike[k - 1]}
    IN  alike[Len(nodes)]

(* All nodes end up in the coarsest partition: blocks are merged exactly  *)
(* if no path tells them apart, whatever was followed back first.         *)
Coarsest ==
    phase = "refine" /\ cur = 0 /\ agenda = <<>> =>
        \A m, n \in DOMAIN nodes : class[m] = class[n] <=> <<m, n>> \in Bisimilar

Edges == UNION {{p.edge : p \in Range(preds[n])} : n \in DOMAIN nodes}

(* The counters that decide what is followed back are exact while nodes   *)
(* move between classes: each class has as many edges as it says, is on   *)
(* the agenda with as many as it says, and then it is in the stack or is  *)
(* the current one.                                                       *)
CountersExact ==
    phase = "refine" =>
        \A c \in DOMAIN blocks :
            LET b == blocks[c]
                members == {array[i] : i \in b.first..b.last}
            IN  /\ members = {n \in DOMAIN nodes : class[n] = c}
                /\ \A e \in Edges : Incoming(b, e) =
                       Cardinality({x \in members \X (DOMAIN nodes) :
                                       [edge |-> e, parent |-> x[2]] \in Range(preds[x[1]])})
                /\ b.onAgenda = Cardinality({e \in Edges : IsOnAgenda(b, e)})
                /\ b.onAgenda > 0 => c \in Range(agenda) \cup {cur}
                /\ b.split < b.last => c \in Range(toDo)
                /\ toDo = <<>> => b.split = b.last

(* The arguments that hold what they held when they were collected.       *)
Held(n) == {i \in DOMAIN Args(n) : HasChildren(n) /\ heap[nodes[n]].args[i] = Args(n)[i]}

LeadsTo(w) == class[NodeOf(w)]

(* Minimization keeps the value of every argument that nobody has         *)
(* assigned to since it was collected: an integer stays, and a block is   *)
(* replaced by one of its class, the same for all such arguments and for  *)
(* the root. What was assigned since is kept, too, or it is lost to a     *)
(* block of the class that the argument led into when it was collected.   *)
ReducedStep ==
    phase = "refine" /\ phase' = "done" =>
        LET old(x) == Deref(heap, Args(x[1])[x[2]])
            new(x) == Deref(heap', heap'[nodes[x[1]]].args[x[2]])
            kept == UNION {{<<n, i>> : i \in Held(n)} : n \in DOMAIN nodes}
            used == {Deref(heap', Ptr(1))} \cup {new(x) : x \in kept}
            isLedOn(x) == IsNode(new(x)) /\ LeadsTo(new(x)) = LeadsTo(old(x))
        IN  /\ \A x \in kept : IF IsInt(old(x)) THEN new(x) = old(x) ELSE isLedOn(x)
            /\ \A v, w \in used :
                   IsNode(v) /\ IsNode(w) /\ LeadsTo(v) = LeadsTo(w) => v[2] = w[2]
            /\ \A n \in DOMAIN nodes : \A i \in DOMAIN Args(n) \ Held(n) :
                   \/ heap'[nodes[n]].args[i] = heap[nodes[n]].args[i]
                   \/ IsNode(old(<<n, i>>)) /\ isLedOn(<<n, i>>)

Reduced == [][ReducedStep]_vars
=============================================================================
