--------------------------- MODULE Unpickler ---------------------------
(* generic/Unpickler.cc: a stack machine that runs the instructions of a *)
(* pickle. They come from a buffer; when it runs dry in the middle of an *)
(* instruction, InputWorker fills it and the instruction is read again.  *)
EXTENDS Pickle, SequencesExt, FiniteSetsExt

CONSTANTS
    ReadSize,   \* READ_BUFFER_SIZE
    Overshoot,  \* READ_BUFFER_OVERSHOOT
    Names       \* the names of the transforms that a language layer knows

(* A header fits into the buffer, so it is read at once:                 *)
(* PickleCheckWorker commits it in pieces and starts over, from the last  *)
(* one, when a piece is missing.                                          *)
HeaderSize == 10
ASSUME BufferAssumption ==
    ReadSize \in Nat /\ Overshoot \in Nat /\ ReadSize + Overshoot > HeaderSize

VARIABLES
    uphase,    \* where the thread is
    source,    \* "file" or "string"
    rest,      \* what gzread has not returned yet
    buffer,    \* the bytes of the buffer up to TL_POS
    size,      \* its size
    hd,        \* HD_POS: what has been committed
    rd,        \* RD_POS: what has been read
    reader,    \* the worker to return to when the buffer has been filled
    objs,      \* the blocks made so far
    ustack,    \* UnpickleFrame: the stack
    ulocals,   \* UnpickleFrame: the variables from 0
    height,    \* UnpickleFrame: the size of the stack
    handlers,  \* handlerTable: the names with a handler
    pending,   \* TransformFrame: a future, a name and an argument
    result     \* the word that was unpickled

input == <<rest, buffer, size, hd, rd>>
machine == <<objs, ustack, ulocals>>
unpicklerVars == <<uphase, source, input, reader, machine, height, handlers, pending, result>>

UnpicklerInit ==
    /\ uphase = "idle"
    /\ source = "file"
    /\ rest = <<>>
    /\ buffer = <<>>
    /\ size = 0
    /\ hd = 0
    /\ rd = 0
    /\ reader = "check"
    /\ objs = <<>>
    /\ ustack = <<>>
    /\ ulocals = <<>>
    /\ height = 0
    /\ handlers \in SUBSET Names
    /\ pending = <<>>
    /\ result = IntWord(0)

(* InputStream::NewFromFile *)
LoadFile(bytes) ==
    /\ uphase = "idle"
    /\ uphase' = "check"
    /\ source' = "file"
    /\ rest' = bytes
    /\ size' = ReadSize + Overshoot
    /\ UNCHANGED <<buffer, hd, rd, reader, machine, height, handlers, pending, result>>

(* InputStream::NewFromString *)
UnpackString(bytes) ==
    /\ uphase = "idle"
    /\ uphase' = "check"
    /\ source' = "string"
    /\ buffer' = bytes
    /\ size' = Len(bytes)
    /\ UNCHANGED <<rest, hd, rd, reader, machine, height, handlers, pending, result>>

-----------------------------------------------------------------------------
(* Reading. A position is the number of bytes before it.                 *)

EOB == -1

(* GetUInt: the position after a number.                                 *)
AfterUInt(p) ==
    LET ends == { q \in (p + 1)..Len(buffer) : buffer[q] < Radix }
    IN  IF ends = {} THEN EOB ELSE Min(ends)

UIntAt(p, q) ==
    LET value[i \in (p + 1)..(q + 1)] ==
            IF i > q THEN 0 ELSE (buffer[i] % Radix) + (Radix * value[i + 1])
    IN  value[p + 1]

(* The positions after the first, second, ... of n numbers at p.         *)
AfterUInts(p, n) ==
    LET after[i \in 0..n] ==
            IF i = 0 THEN p
            ELSE IF after[i - 1] = EOB THEN EOB ELSE AfterUInt(after[i - 1])
    IN  after

Operands(tag) ==
    CASE tag \in {aBLOCK, aMBLOCK} -> 3
      [] tag \in {BLOCK, MBLOCK, aTUPLE, aCLOSURE} -> 2
      [] tag \in (STORE..MCHUNK) \cup {TUPLE, CLOSURE, aTRANSFORM, FULFILL} -> 1
      [] OTHER -> 0

IsChunkTag(tag) == tag \in {CHUNK, MCHUNK}

(* Whether the next instruction is in the buffer, and its parts.         *)
Tag == buffer[rd + 1]
After == AfterUInts(rd + 1, Operands(Tag))
Operand(i) == UIntAt(After[i - 1], After[i])
LastOperand == After[Operands(Tag)]
(* GetBytes wants one byte more than it returns.                         *)
Complete ==
    /\ rd < Len(buffer)
    /\ LastOperand # EOB
    /\ IsChunkTag(Tag) => LastOperand + Operand(1) < Len(buffer)
AfterInstruction == IF IsChunkTag(Tag) THEN LastOperand + Operand(1) ELSE LastOperand

Commit(p) ==
    /\ hd' = p
    /\ rd' = p
    /\ UNCHANGED <<rest, buffer, size>>

(* NCHECK_EOB: the bytes read so far are not committed.                  *)
EndOfBuffer(worker) ==
    /\ uphase' = "input"
    /\ reader' = worker
    /\ rd' = Len(buffer)
    /\ UNCHANGED <<source, rest, buffer, size, hd, machine, height, handlers, pending, result>>

Raise(exception) ==
    /\ uphase' = exception
    /\ UNCHANGED <<source, input, reader, machine, height, handlers, pending, result>>

(* InputStream::FillBuffer for a file: committed bytes make room, or a   *)
(* full buffer is enlarged.                                              *)
Moved == SubSeq(buffer, hd + 1, Len(buffer))
Enlarged == IF hd = 0 /\ Len(buffer) = size THEN size + ReadSize ELSE size

\* Mutant: the head is not moved with the bytes.
FillFileKeepsHead ==
    /\ uphase = "input"
    /\ source = "file"
    /\ rest # <<>>
    /\ LET nread == Min({Enlarged - Len(Moved), Len(rest)}) IN
       /\ buffer' = Moved \o SubSeq(rest, 1, nread)
       /\ rest' = SubSeq(rest, nread + 1, Len(rest))
    /\ size' = Enlarged
    /\ rd' = hd
    /\ uphase' = reader
    /\ UNCHANGED <<source, hd, reader, machine, height, handlers, pending, result>>

FillFile ==
    /\ uphase = "input"
    /\ source = "file"
    /\ rest # <<>>
    /\ LET nread == Min({Enlarged - Len(Moved), Len(rest)}) IN
       /\ buffer' = Moved \o SubSeq(rest, 1, nread)
       /\ rest' = SubSeq(rest, nread + 1, Len(rest))
    /\ size' = Enlarged
    /\ hd' = 0
    /\ rd' = 0
    /\ uphase' = reader
    /\ UNCHANGED <<source, reader, machine, height, handlers, pending, result>>

\* Mutant: a short read is taken for the end of the file.
FillCorruptShort ==
    /\ uphase = "input"
    /\ source = "string" \/ Len(rest) < size - Len(Moved)
    /\ Raise("corrupt")

(* There is no more data, in a file or a string.                         *)
FillCorrupt ==
    /\ uphase = "input"
    /\ source = "string" \/ rest = <<>>
    /\ Raise("corrupt")

FillFails ==
    /\ uphase = "input"
    /\ source = "file"
    /\ Raise("ioerror")

-----------------------------------------------------------------------------
(* PickleCheckWorker::Run *)
HeaderEnds == AfterUInts(rd + 1, 2)
SizeEnds == AfterUInts(HeaderEnds[2] + 1, 2)
HeaderComplete ==
    /\ rd + 1 < Len(buffer)
    /\ HeaderEnds[2] # EOB
    /\ HeaderEnds[2] < Len(buffer)
    /\ SizeEnds[2] # EOB

StackSize == UIntAt(SizeEnds[0], SizeEnds[1])
IsHeader ==
    /\ buffer[rd + 1] = magic
    /\ UIntAt(rd + 1, HeaderEnds[1]) = majorVersion
    /\ UIntAt(HeaderEnds[1], HeaderEnds[2]) <= minorVersion
    /\ buffer[HeaderEnds[2] + 1] = INIT

(* GetUInt ends the process when a number does not fit.                  *)
OutOfRange == IsHeader /\ ~CanPickle(StackSize)

CheckHeader ==
    /\ uphase = "check"
    /\ HeaderComplete
    /\ IsHeader
    /\ StackSize <= MAX_VALID_INT
    /\ height' = StackSize
    /\ ulocals' = [i \in 0..(UIntAt(SizeEnds[1], SizeEnds[2]) - 1) |-> IntWord(0)]
    /\ Commit(SizeEnds[2])
    /\ uphase' = "unpickle"
    /\ UNCHANGED <<source, reader, objs, ustack, handlers, pending, result>>

CheckFails ==
    /\ uphase = "check"
    /\ HeaderComplete
    /\ ~OutOfRange
    /\ IsHeader => StackSize > MAX_VALID_INT
    /\ Raise("corrupt")

CheckError == uphase = "check" /\ HeaderComplete /\ OutOfRange /\ Raise("error")

CheckAtEnd == uphase = "check" /\ ~HeaderComplete /\ EndOfBuffer("check")

-----------------------------------------------------------------------------
(* UnpickleWorker::Run, one instruction per step.                        *)

Instruction(tag) ==
    /\ uphase = "unpickle"
    /\ Complete
    /\ Tag = tag
    /\ Commit(AfterInstruction)

UnpickleAtEnd == uphase = "unpickle" /\ ~Complete /\ EndOfBuffer("unpickle")

Continue == UNCHANGED <<uphase, source, reader, height, handlers, pending, result>>

Push(s, w) == Append(s, w)
Popped(n) == SubSeq(ustack, 1, Len(ustack) - n)
(* The n words on top of the stack, in the order in which they are popped. *)
Pops(n) == [i \in 1..n |-> ustack[Len(ustack) + 1 - i]]
New == Ptr(Len(objs) + 1)

DoStore ==
    /\ Instruction(STORE)
    /\ ulocals' = [ulocals EXCEPT ![Operand(1)] = Last(ustack)]
    /\ UNCHANGED <<objs, ustack>>
    /\ Continue

DoLoad ==
    /\ Instruction(LOAD)
    /\ ustack' = Push(ustack, ulocals[Operand(1)])
    /\ UNCHANGED <<objs, ulocals>>
    /\ Continue

DoInt ==
    /\ \/ Instruction(POSINT) /\ ustack' = Push(ustack, IntWord(Operand(1)))
       \/ Instruction(NEGINT) /\ ustack' = Push(ustack, IntWord(-(Operand(1) + 1)))
    /\ UNCHANGED <<objs, ulocals>>
    /\ Continue

DoChunk ==
    /\ \E kind \in Chunks :
          /\ Instruction(IF kind = "MCHUNK" THEN MCHUNK ELSE CHUNK)
          /\ objs' = Append(objs, Block(kind, SubSeq(buffer, LastOperand + 1, AfterInstruction)))
    /\ ustack' = Push(ustack, New)
    /\ UNCHANGED ulocals
    /\ Continue

(* UniqueString::New: there is one block for every string.               *)
Content(w) == objs[w[2]].args
Interned(string) == { n \in DOMAIN objs : /\ objs[n].kind = "UNIQUE"
                                          /\ Content(objs[n].args[1]) = string }

DoUnique ==
    /\ Instruction(UNIQUE)
    /\ LET known == Interned(Content(Last(ustack))) IN
       IF known # {}
       THEN /\ ustack' = Push(Popped(1), Ptr(Min(known)))
            /\ UNCHANGED objs
       ELSE /\ ustack' = Push(Popped(1), New)
            /\ objs' = Append(objs, Block("UNIQUE", <<Last(ustack)>>))
    /\ UNCHANGED ulocals
    /\ Continue

(* StoreAbstraction::AllocBlock for blocks and closures.                 *)
BlockTag(kind) ==
    CASE kind = "BLOCK" -> BLOCK [] kind = "MBLOCK" -> MBLOCK
      [] kind = "TUPLE" -> TUPLE [] kind = "CLOSURE" -> CLOSURE

SizeOperand(tag) == Operand(IF tag \in {TUPLE, CLOSURE, aTUPLE, aCLOSURE} THEN 1 ELSE 2)

DoBlock ==
    /\ \E kind \in Plain :
          /\ Instruction(BlockTag(kind))
          /\ LET n == SizeOperand(Tag) IN
             /\ objs' = Append(objs, Block(kind, Pops(n)))
             /\ ustack' = Push(Popped(n), New)
    /\ UNCHANGED ulocals
    /\ Continue

(* AnnounceBlock: the fields hold no pointers yet (Heap.cc fills fresh   *)
(* memory with ones, which read as integers).                            *)
AnnounceTag(kind) ==
    CASE kind = "BLOCK" -> aBLOCK [] kind = "MBLOCK" -> aMBLOCK
      [] kind = "TUPLE" -> aTUPLE [] kind = "CLOSURE" -> aCLOSURE

DoAnnounce ==
    /\ \E kind \in Plain :
          /\ Instruction(AnnounceTag(kind))
          /\ objs' = Append(objs, Block(kind, [i \in 1..SizeOperand(Tag) |-> IntWord(0)]))
    /\ ustack' = Push(ustack, New)
    /\ ulocals' = [ulocals EXCEPT ![Operand(Operands(Tag))] = New]
    /\ Continue

DoAnnounceTransform ==
    /\ Instruction(aTRANSFORM)
    /\ objs' = Append(objs, Block("TRANSIENT", <<>>))
    /\ ustack' = Push(ustack, New)
    /\ ulocals' = [ulocals EXCEPT ![Operand(1)] = New]
    /\ Continue

(* ApplyTransform: the handler makes a concrete representation, or the   *)
(* language layer is loaded first and a future stands in for it. Only a  *)
(* chunk can be the name of a handler.                                   *)
Handled(name) == ~IsInt(name) /\ objs[name[2]].kind \in Chunks /\ Content(name) \in handlers

ApplyTransform(name, argument, future, below) ==
    IF Handled(name)
    THEN /\ objs' = Append(objs, Block("CONCRETE", <<name, argument>>))
         /\ ustack' = Push(below, New)
         /\ UNCHANGED <<uphase, pending>>
    ELSE /\ objs' = IF future = New THEN Append(objs, Block("TRANSIENT", <<>>)) ELSE objs
         /\ ustack' = Push(below, future)
         /\ pending' = <<future, name, argument>>
         /\ uphase' = "language"

DoTransform ==
    /\ Instruction(TRANSFORM)
    /\ ApplyTransform(Pops(2)[1], Pops(2)[2], New, Popped(2))
    /\ UNCHANGED <<source, reader, ulocals, height, handlers, result>>

(* MakeFulfilledBlock, which takes the argument first.                   *)
Announced == ulocals[Operand(1)]

DoFulfill ==
    /\ Instruction(FULFILL)
    /\ ~IsTransient(objs, Announced)
    /\ LET n == Len(objs[Announced[2]].args) IN
       /\ objs' = [objs EXCEPT ![Announced[2]].args = Pops(n)]
       /\ ustack' = Push(Popped(n), Announced)
    /\ UNCHANGED ulocals
    /\ Continue

DoFulfillTransform ==
    /\ Instruction(FULFILL)
    /\ IsTransient(objs, Announced)
    /\ ApplyTransform(Pops(2)[2], Pops(2)[1], Announced, Popped(2))
    /\ UNCHANGED <<source, reader, ulocals, height, handlers, result>>

(* The root is in variable 0; PickleLoadWorker closes the stream.        *)
DoEnd ==
    /\ Instruction(ENDOFSTREAM)
    /\ result' = ulocals[0]
    /\ uphase' = "done"
    /\ UNCHANGED <<source, reader, machine, height, handlers, pending>>

NoInstruction ==
    /\ uphase = "unpickle"
    /\ Complete
    /\ Tag \notin STORE..ENDOFSTREAM
    /\ Raise("corrupt")

UnpickleWorker ==
    \/ DoStore \/ DoLoad \/ DoInt \/ DoChunk \/ DoUnique \/ DoBlock \/ DoAnnounce
    \/ DoAnnounceTransform \/ DoTransform \/ DoFulfill \/ DoFulfillTransform
    \/ DoEnd \/ NoInstruction \/ UnpickleAtEnd

-----------------------------------------------------------------------------
(* Broker::Load: a language layer registers its handlers when its library *)
(* is found.                                                              *)
LanguageLoads ==
    /\ uphase = "language"
    /\ \/ handlers' = Names
       \/ UNCHANGED handlers
    /\ uphase' = "transform"
    /\ UNCHANGED <<source, input, reader, machine, height, pending, result>>

(* TransformWorker::Run *)
BindTransform ==
    /\ uphase = "transform"
    /\ Handled(pending[2])
    /\ objs' = [Append(objs, Block("CONCRETE", <<pending[2], pending[3]>>))
                   EXCEPT ![pending[1][2]] = Block("REF", <<New>>)]
    /\ pending' = <<>>
    /\ uphase' = "unpickle"
    /\ UNCHANGED <<source, input, reader, ustack, ulocals, height, handlers, result>>

TransformFails ==
    /\ uphase = "transform"
    /\ ~Handled(pending[2])
    /\ Raise("corrupt")

UnpicklerNext ==
    \/ UnpickleWorker \/ FillFile \/ FillCorrupt \/ FillFails
    \/ CheckHeader \/ CheckFails \/ CheckError \/ CheckAtEnd
    \/ LanguageLoads \/ BindTransform \/ TransformFails
=============================================================================
