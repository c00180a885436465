---------------------------- MODULE Pickler ----------------------------
(* generic/Pickler.cc: PickleWorker traverses a graph depth first with a *)
(* stack of its own, PickleSaveWorker starts it again when it has met a  *)
(* transient and otherwise writes the stream. Other threads run whenever *)
(* one of the workers has returned to the scheduler.                     *)
EXTENDS Pickle, SequencesExt

CONSTANTS
    Graphs,        \* the heaps to begin with; the value pickled is block 1
    ConcreteSizes, \* the sizes of blocks that hold concrete representations
    Words          \* what other threads bind and assign

VARIABLES
    heap,     \* the blocks of the program
    phase,    \* where the thread is
    stack,    \* PickleStack: words with a mark on those to come back to
    seen,     \* Seen: the position and the variable of each block
    out,      \* OutputBuffer: the instructions so far
    locals,   \* OutputBuffer: the position where a variable is stored, or 0
    cur,      \* the simulated height of the unpickler's stack
    max,      \* its maximum
    found,    \* whether a transient was found
    stream,   \* what was written
    snapshot  \* the heap when the last traversal ended (for properties)

picklerVars == <<heap, phase, stack, seen, out, locals, cur, max, found, stream, snapshot>>
traversal == <<stack, seen, out, locals, cur, max>>

NOT_WRITTEN == -1
NONE == 0

Frame(w) == [data |-> w, back |-> FALSE]
Top == Last(stack)
Value == Deref(heap, Top.data)
Node == Value[2]
Kind == heap[Node].kind

PickleArgsNew ==
    /\ stack = <<Frame(Ptr(1))>>
    /\ seen = <<>>
    /\ out = <<>>
    /\ locals = <<>>
    /\ cur = 0
    /\ max = 0
    /\ found = FALSE

PicklerInit ==
    /\ heap \in Graphs
    /\ phase = "pickle"
    /\ PickleArgsNew
    /\ stream = <<>>
    /\ snapshot = <<>>

SimulatePush ==
    LET height == (cur + 1) % UIntModulus IN
    /\ cur' = height
    /\ max' = IF height > max THEN height ELSE max

SimulatePop(i) ==
    /\ cur' = (cur - i) % UIntModulus
    /\ UNCHANGED max

PutInstruction(tag, operands) ==
    out' = Append(out, <<tag>> \o FlattenSeq([i \in DOMAIN operands |-> UInt(operands[i])]))

PopTopFrame == stack' = Front(stack)

Running == phase = "pickle" /\ stack # <<>>
Visiting == Running /\ ~Top.back
AtBlock == Visiting /\ ~IsInt(Value) /\ ~IsTransient(heap, Value)
Known == Node \in DOMAIN seen
Returning == Running /\ Top.back

Unchanged == UNCHANGED <<heap, phase, found, stream, snapshot>>

-----------------------------------------------------------------------------
(* PickleWorker::Run, one iteration of its loop per step.                *)

(* Back from the fields of a block that was announced in the meantime. A  *)
(* concrete representation has a size of its own, while its transform is  *)
(* two words.                                                             *)
Arities(n) == IF heap[n].kind = "CONCRETE" THEN ConcreteSizes ELSE {Len(heap[n].args)}

\* Mutant: pops one word too many.
PickleFulfillPopsAll ==
    /\ Returning
    /\ seen[Node].var # NONE
    /\ PutInstruction(FULFILL, <<seen[Node].var>>)
    /\ \E arity \in Arities(Node) : SimulatePop(arity)
    /\ PopTopFrame
    /\ UNCHANGED <<seen, locals>>
    /\ Unchanged

PickleFulfill ==
    /\ Returning
    /\ seen[Node].var # NONE
    /\ PutInstruction(FULFILL, <<seen[Node].var>>)
    /\ \E arity \in Arities(Node) : SimulatePop(arity - 1)
    /\ PopTopFrame
    /\ UNCHANGED <<seen, locals>>
    /\ Unchanged

(* Back from the fields of a block.                                      *)
BlockInstruction(n) ==
    LET size == Len(heap[n].args) IN
    CASE heap[n].kind = "UNIQUE" -> [tag |-> UNIQUE, operands |-> <<>>]
      [] heap[n].kind = "CONCRETE" -> [tag |-> TRANSFORM, operands |-> <<>>]
      [] heap[n].kind = "CLOSURE" -> [tag |-> CLOSURE, operands |-> <<size>>]
      [] heap[n].kind = "TUPLE" -> [tag |-> TUPLE, operands |-> <<size>>]
      [] heap[n].kind = "MBLOCK" -> [tag |-> MBLOCK, operands |-> <<DataLabel, size>>]
      [] heap[n].kind = "BLOCK" -> [tag |-> BLOCK, operands |-> <<DataLabel, size>>]

PickleBlock ==
    /\ Returning
    /\ seen[Node].var = NONE
    /\ PutInstruction(BlockInstruction(Node).tag, BlockInstruction(Node).operands)
    /\ SimulatePop(Len(heap[Node].args) - 1)
    /\ seen' = [seen EXCEPT ![Node].index = Len(out) + 1]
    /\ PopTopFrame
    /\ UNCHANGED locals
    /\ Unchanged

(* The scheduler is asked for the transient; the frame stays.            *)
\* Mutant: forgets that it has met a transient.
PickleTransientForgotten ==
    /\ Visiting
    /\ IsTransient(heap, Value)
    /\ phase' = "request"
    /\ UNCHANGED <<heap, traversal, found, stream, snapshot>>

PickleTransient ==
    /\ Visiting
    /\ IsTransient(heap, Value)
    /\ found' = TRUE
    /\ phase' = "request"
    /\ UNCHANGED <<heap, traversal, stream, snapshot>>

PickleInt ==
    /\ Visiting
    /\ IsInt(Value)
    /\ LET i == Value[2] IN
       IF i >= 0 THEN PutInstruction(POSINT, <<i>>) ELSE PutInstruction(NEGINT, <<-(i + 1)>>)
    /\ SimulatePush
    /\ PopTopFrame
    /\ UNCHANGED <<seen, locals>>
    /\ Unchanged

(* PutLocal: a new variable, stored after the instruction at position    *)
(* ref, or not stored at all if that is 0.                               *)
PutLocal(ref) ==
    /\ locals' = Append(locals, ref)
    /\ seen' = [seen EXCEPT ![Node].var = Len(locals) + 1]

(* A block that has a variable is loaded from it.                        *)
PickleLoad ==
    /\ AtBlock
    /\ Known
    /\ seen[Node].var # NONE
    /\ PutInstruction(LOAD, <<seen[Node].var>>)
    /\ SimulatePush
    /\ PopTopFrame
    /\ UNCHANGED <<seen, locals>>
    /\ Unchanged

(* Sharing: a block that is complete gets a variable.                    *)
PickleShare ==
    /\ AtBlock
    /\ Known
    /\ seen[Node].index # NOT_WRITTEN
    /\ seen[Node].var = NONE
    /\ PutLocal(seen[Node].index)
    /\ PutInstruction(LOAD, <<Len(locals) + 1>>)
    /\ SimulatePush
    /\ PopTopFrame
    /\ Unchanged

(* A cycle: a block whose fields are being pickled is announced.         *)
Announcement(n, var) ==
    LET size == Len(heap[n].args) IN
    CASE heap[n].kind = "CONCRETE" -> [tag |-> aTRANSFORM, operands |-> <<var>>]
      [] heap[n].kind = "CLOSURE" -> [tag |-> aCLOSURE, operands |-> <<size, var>>]
      [] heap[n].kind = "TUPLE" -> [tag |-> aTUPLE, operands |-> <<size, var>>]
      [] heap[n].kind = "MBLOCK" -> [tag |-> aMBLOCK, operands |-> <<DataLabel, size, var>>]
      [] heap[n].kind = "BLOCK" -> [tag |-> aBLOCK, operands |-> <<DataLabel, size, var>>]

\* Mutant: a variable that is announced is stored, too.
PickleAnnounceStored ==
    /\ AtBlock
    /\ Known
    /\ seen[Node].index = NOT_WRITTEN
    /\ seen[Node].var = NONE
    /\ LET a == Announcement(Node, Len(locals) + 1) IN PutInstruction(a.tag, a.operands)
    /\ PutLocal(Len(out) + 1)
    /\ SimulatePush
    /\ PopTopFrame
    /\ Unchanged

PickleAnnounce ==
    /\ AtBlock
    /\ Known
    /\ seen[Node].index = NOT_WRITTEN
    /\ seen[Node].var = NONE
    /\ LET a == Announcement(Node, Len(locals) + 1) IN PutInstruction(a.tag, a.operands)
    /\ PutLocal(0)
    /\ SimulatePush
    /\ PopTopFrame
    /\ Unchanged

(* A block that cannot leave the process: the exception ends the call.   *)
PickleSited ==
    /\ AtBlock
    /\ ~Known
    /\ \/ Kind = "SITED"
       \/ Kind = "CONCRETE" /\ heap[Node].args = <<>>
    /\ phase' = "sited"
    /\ UNCHANGED <<heap, traversal, found, stream, snapshot>>

AddSeen(index) == seen' = [n \in DOMAIN seen \cup {Node} |->
                              IF n = Node THEN [index |-> index, var |-> NONE] ELSE seen[n]]

PickleChunk ==
    /\ AtBlock
    /\ ~Known
    /\ Kind \in Chunks
    /\ LET bytes == heap[Node].args
           tag == IF Kind = "MCHUNK" THEN MCHUNK ELSE CHUNK
       IN  out' = Append(out, <<tag>> \o UInt(Len(bytes)) \o bytes)
    /\ AddSeen(Len(out) + 1)
    /\ SimulatePush
    /\ PopTopFrame
    /\ UNCHANGED locals
    /\ Unchanged

(* A new block: first its fields, the last one on top.                   *)
PickleEnter ==
    /\ AtBlock
    /\ ~Known
    /\ Kind \in Plain \cup {"UNIQUE", "CONCRETE"}
    /\ Kind = "CONCRETE" => heap[Node].args # <<>>
    /\ AddSeen(NOT_WRITTEN)
    /\ stack' = Append(Front(stack), [Top EXCEPT !.back = TRUE])
                  \o [i \in DOMAIN heap[Node].args |-> Frame(heap[Node].args[i])]
    /\ UNCHANGED <<out, locals, cur, max>>
    /\ Unchanged

PickleDone ==
    /\ phase = "pickle"
    /\ stack = <<>>
    /\ phase' = "save"
    /\ snapshot' = heap
    /\ UNCHANGED <<heap, traversal, found, stream>>

PickleWorker ==
    \/ PickleFulfill \/ PickleBlock \/ PickleTransient \/ PickleInt \/ PickleLoad
    \/ PickleShare \/ PickleAnnounce \/ PickleSited \/ PickleChunk \/ PickleEnter
    \/ PickleDone

-----------------------------------------------------------------------------
(* PickleSaveWorker and PicklePackWorker.                                *)

PickleArgsReset ==
    /\ stack' = <<Frame(Ptr(1))>>
    /\ seen' = <<>>
    /\ out' = <<>>
    /\ locals' = <<>>
    /\ cur' = 0
    /\ max' = 0
    /\ found' = FALSE

(* A transient was bound in the meantime, so what was pickled may be a   *)
(* mixture of graphs.                                                    *)
PickleRestart ==
    /\ phase = "save"
    /\ found
    /\ PickleArgsReset
    /\ phase' = "pickle"
    /\ UNCHANGED <<heap, stream, snapshot>>

(* WriteToStream: variables are stored where they were first needed.     *)
StoresAt(p) ==
    LET vars == SelectSeq([k \in DOMAIN locals |-> k], LAMBDA k : locals[k] = p)
    IN  FlattenSeq([i \in DOMAIN vars |-> <<STORE>> \o UInt(vars[i])])

Header ==
    <<magic>> \o UInt(majorVersion) \o UInt(minorVersion)
        \o <<INIT>> \o UInt(max) \o UInt(Len(locals) + 1)

WriteToStream ==
    /\ phase = "save"
    /\ ~found
    /\ stream' = Header \o FlattenSeq([p \in DOMAIN out |-> out[p] \o StoresAt(p)])
                    \o <<STORE>> \o UInt(0) \o <<ENDOFSTREAM>>
    /\ phase' = "saved"
    /\ stack' = <<>>
    /\ seen' = <<>>
    /\ out' = <<>>
    /\ locals' = <<>>
    /\ cur' = 0
    /\ max' = 0
    /\ UNCHANGED <<heap, found, snapshot>>

-----------------------------------------------------------------------------
(* The scheduler and other threads.                                      *)

Resume ==
    /\ phase = "request"
    /\ ~IsTransient(heap, Value)
    /\ phase' = "pickle"
    /\ UNCHANGED <<heap, traversal, found, stream, snapshot>>

(* The transient fails: PickleWorker's frame is left by an exception.    *)
RequestFails ==
    /\ phase = "request"
    /\ IsTransient(heap, Value)
    /\ phase' = "failed"
    /\ UNCHANGED <<heap, traversal, found, stream, snapshot>>

OthersRun == phase \in {"request", "save"}

BindTransient(t, w) ==
    /\ OthersRun
    /\ heap[t].kind = "TRANSIENT"
    /\ Deref(heap, w) # Ptr(t)
    /\ heap' = [heap EXCEPT ![t] = Block("REF", <<w>>)]
    /\ UNCHANGED <<phase, traversal, found, stream, snapshot>>

Assign(n, i, w) ==
    /\ OthersRun
    /\ heap[n].kind = "MBLOCK"
    /\ heap[n].args[i] # w
    /\ heap' = [heap EXCEPT ![n].args[i] = w]
    /\ UNCHANGED <<phase, traversal, found, stream, snapshot>>

OtherThreads ==
    \E n \in DOMAIN heap, w \in Words :
        \/ BindTransient(n, w)
        \/ \E i \in DOMAIN heap[n].args : Assign(n, i, w)

PicklerNext ==
    PickleWorker \/ PickleRestart \/ WriteToStream \/ Resume \/ RequestFails \/ OtherThreads
=============================================================================
