------------------------------- MODULE Memory -------------------------------
(***************************************************************************)
(* What the store promises its users (homepage/manual/store.html): an      *)
(* object keeps what was last written to it for as long as it can be       *)
(* reached, a transient can be made transparent, and an entry of a weak    *)
(* map is finalized when nothing else refers to its value.  There are no   *)
(* addresses, generations or collections here; Store refines this module.  *)
(***************************************************************************)
EXTENDS Naturals, Sequences, FiniteSets

CONSTANTS
  Obj,         \* objects a program allocates
  RootObj,     \* the object the root word refers to
  StartupMap,  \* weak map that exists from the start, or None
  Arity,       \* fields of an ordinary block
  RootArity,   \* fields of the root block
  Keys,        \* keys of weak maps
  Integer,         \* any integer word
  Empty,       \* an unused key of a weak map
  None

VARIABLES
  mem,         \* the objects something can still reach: label and fields
  registered,  \* weak maps the store watches
  pending      \* values on their way to a finalizer, and the map they were in

vars == <<mem, registered, pending>>

Object == Obj \cup {RootObj}
Targets(m, o) == {m[o].args[i] : i \in DOMAIN m[o].args} \cap Object
StrongTargets(m, o) == IF m[o].label = "WEAK_MAP" THEN {} ELSE Targets(m, o)

\* What can be reached from S by the edges Next.
Reach(m, S, Edges(_, _)) ==
  LET closure[T \in SUBSET Object] ==
        LET near == T \cup UNION {Edges(m, o) : o \in T}
        IN IF near = T THEN T ELSE closure[near]
  IN closure[S]

StronglyReachable == Reach(mem, {RootObj}, StrongTargets)

\* A weak map hands out its values, so a program can read through it.
Visible == Reach(mem, {RootObj}, Targets)

Update(m, r, p) ==
  LET values == {p[n].value : n \in DOMAIN p} \cap Object
  IN /\ mem' = [o \in Reach(m, {RootObj} \cup r \cup values, Targets) |-> m[o]]
     /\ registered' = r
     /\ pending' = p

Block(n) == [label |-> "BLOCK", args |-> [i \in 1..n |-> Integer]]
Hole == [label |-> "HOLE", args |-> [i \in {1} |-> Integer]]
Map == [label |-> "WEAK_MAP", args |-> [k \in Keys |-> Empty]]

Init ==
  /\ mem = IF StartupMap = None
           THEN [o \in {RootObj} |-> Block(RootArity)]
           ELSE [o \in {RootObj, StartupMap} |->
                   IF o = RootObj
                   THEN [Block(RootArity) EXCEPT !.args[1] = StartupMap]
                   ELSE Map]
  /\ registered = {StartupMap} \ {None}
  /\ pending = <<>>

-----------------------------------------------------------------------------
(***************************************************************************)
(* What a program does.                                                    *)
(***************************************************************************)
WithObject(o, block) == [p \in DOMAIN mem \cup {o} |-> IF p = o THEN block ELSE mem[p]]

\* A new object goes into field i of block p.
New(o, block, p, i) ==
  /\ o \notin DOMAIN mem /\ mem[p].label = "BLOCK"
  /\ Update([WithObject(o, block) EXCEPT ![p].args[i] = o], registered, pending)

NewMap(o, p, i) ==
  /\ o \notin DOMAIN mem /\ mem[p].label = "BLOCK"
  /\ Update([WithObject(o, Map) EXCEPT ![p].args[i] = o],
            registered \cup {o}, pending)

ReplaceArg(o, i, v) ==
  /\ mem[o].label = "BLOCK"
  /\ Update([mem EXCEPT ![o].args[i] = v], registered, pending)

\* Every reference to the transient o is one to v from now on.
Become(o, v) ==
  LET Subst(w) == IF w = o THEN v ELSE w
  IN /\ mem[o].label = "HOLE" /\ v # o
     /\ Update([p \in DOMAIN mem \ {o} |->
                  [mem[p] EXCEPT !.args = [i \in DOMAIN @ |-> Subst(@[i])]]],
               registered, pending)

Put(m, k, v) ==
  /\ mem[m].label = "WEAK_MAP"
  /\ Update([mem EXCEPT ![m].args[k] = v], registered, pending)

-----------------------------------------------------------------------------
(***************************************************************************)
(* What the store does on its own.                                         *)
(***************************************************************************)

\* The value of an entry goes to the finalizer: nothing but weak maps refers
\* to it, or it is an integer.
FinalizeEntry(m, k) ==
  LET v == mem[m].args[k]
  IN /\ v # Empty /\ v \notin StronglyReachable
     /\ Update([mem EXCEPT ![m].args[k] = Empty], registered,
               Append(pending, [value |-> v, map |-> m]))

\* So does an empty map that nothing refers to.
FinalizeMap(m) ==
  /\ m \notin StronglyReachable
  /\ \A k \in Keys : mem[m].args[k] = Empty
  /\ Update(mem, registered \ {m}, Append(pending, [value |-> m, map |-> m]))

\* The finalizer runs on the value that was found last; it may put the value
\* into a field of the root.
Finalize ==
  LET rest == SubSeq(pending, 1, Len(pending) - 1)
      w == pending[Len(pending)].value
  IN /\ pending # <<>>
     /\ \/ Update(mem, registered, rest)
        \/ \E i \in 1..RootArity :
             Update([mem EXCEPT ![RootObj].args[i] = w], registered, rest)

Next ==
  \/ \E p \in Visible : \E i \in DOMAIN mem[p].args :
       \/ \E o \in Obj :
            New(o, Block(Arity), p, i) \/ New(o, Hole, p, i) \/ NewMap(o, p, i)
       \/ \E v \in Visible \cup {Integer} : ReplaceArg(p, i, v)
  \/ \E o \in Visible, v \in Visible \cup {Integer} : Become(o, v)
  \/ \E m \in Visible, k \in Keys, v \in Visible \cup {Integer, Empty} : Put(m, k, v)
  \/ \E m \in registered :
       \/ \E k \in Keys : FinalizeEntry(m, k)
       \/ FinalizeMap(m)
  \/ Finalize

Spec == Init /\ [][Next]_vars
=============================================================================
