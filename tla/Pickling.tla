---------------------------- MODULE Pickling ----------------------------
(* A value is pickled while other threads run; what was written, or the  *)
(* part of it that has reached the disk, is then unpickled.              *)
EXTENDS Pickler, Unpickler

CONSTANTS
    Foreign,  \* files and strings that are not pickles of this version
    Losses    \* how many bytes at the end of a file may be missing

VARIABLE intact  \* whether the bytes to unpickle are a whole pickle

vars == <<picklerVars, unpicklerVars, intact>>

Init ==
    /\ PicklerInit
    /\ UnpicklerInit
    /\ intact = TRUE

LoadSaved ==
    /\ phase = "saved"
    /\ LoadFile(stream)
    /\ UNCHANGED <<picklerVars, intact>>

(* StringOutputStream::Close does not cut off the rest of the string.    *)
UnpackPacked ==
    /\ phase = "saved"
    /\ UnpackString(stream \o <<INIT>>)
    /\ UNCHANGED <<picklerVars, intact>>

(* The process that wrote the file died before its end was written.      *)
LoadTruncated ==
    /\ phase = "saved"
    /\ \E n \in Losses : LoadFile(SubSeq(stream, 1, Len(stream) - n))
    /\ intact' = FALSE
    /\ UNCHANGED picklerVars

LoadForeign ==
    /\ phase = "saved"
    /\ \E bytes \in Foreign : UnpackString(bytes)
    /\ intact' = FALSE
    /\ UNCHANGED picklerVars

(* The call has returned or has raised an exception.                     *)
Ended ==
    /\ phase \in {"sited", "failed"} \/ uphase \in {"done", "corrupt", "ioerror", "error"}
    /\ UNCHANGED vars

Next ==
    \/ PicklerNext /\ UNCHANGED <<unpicklerVars, intact>>
    \/ UnpicklerNext /\ UNCHANGED <<picklerVars, intact>>
    \/ LoadSaved \/ UnpackPacked \/ LoadTruncated \/ LoadForeign
    \/ Ended

Spec == Init /\ [][Next]_vars

-----------------------------------------------------------------------------

(* The variables have the right types; in particular every word on the    *)
(* unpickler's stack and in its blocks leads to a block that exists.      *)
TypeOK ==
    /\ phase \in {"pickle", "request", "save", "saved", "sited", "failed"}
    /\ \A n \in DOMAIN seen : seen[n].index \in {NOT_WRITTEN} \cup 1..Len(out)
    /\ uphase \in {"idle", "check", "input", "unpickle", "language", "transform",
                   "done", "corrupt", "ioerror", "error"}
    /\ 0 <= hd /\ hd <= rd /\ rd <= Len(buffer) /\ Len(buffer) <= size
    /\ \A i \in DOMAIN ustack : IsInt(ustack[i]) \/ ustack[i][2] \in DOMAIN objs

(* What is unpickled is the graph that was pickled, with its sharing and  *)
(* its cycles, as it was at one moment: when the traversal that found no  *)
(* transient ended. Other threads bind transients and assign fields       *)
(* whenever the pickler waits.                                            *)
RoundTrip ==
    uphase = "done" => Isomorphic(snapshot, Ptr(1), objs, result)

(* A whole pickle is refused only for want of a handler, wherever the     *)
(* buffer happens to end; and nothing but a whole pickle is accepted.     *)
OnlyWholePickles ==
    /\ uphase = "done" => intact
    /\ uphase = "corrupt" /\ intact => pending # <<>>
    /\ uphase = "error" => ~intact

(* The height the pickler announces can be read, and its simulation of    *)
(* the unpickler's stack is an upper bound, up to the blocks without      *)
(* fields, which it pushes without raising the maximum: the words of an   *)
(* UnpickleFrame are followed by those of other frames. No other          *)
(* operation is miscounted while a concrete representation, of which a    *)
(* FULFILL pops all words and not the two of its transform, has at most   *)
(* three.                                                                 *)
Empty == {n \in DOMAIN snapshot : snapshot[n].kind \in Plain /\ snapshot[n].args = <<>>}

StackFits ==
    /\ phase = "save" /\ ~found => CanPickle(max)
    /\ uphase \notin {"idle", "check"} => Len(ustack) <= height + Cardinality(Empty)

(* UnpickleFrame::Push asserts that the word is within the frame. It is   *)
(* behind the frame when the assertion fails. (The assertion itself allows *)
(* one word too many: the frame's size counts the worker, its index does  *)
(* not.)                                                                  *)
PushInFrame == uphase \notin {"idle", "check"} => Len(ustack) <= height + 1

(* UnpickleFrame asserts that a variable is stored once and loaded only   *)
(* after that.                                                            *)
VariablesSetOnce ==
    uphase = "unpickle" /\ Complete =>
        /\ Tag \in {STORE, aBLOCK, aMBLOCK, aTUPLE, aCLOSURE, aTRANSFORM} =>
              ulocals[Operand(Operands(Tag))] = IntWord(0)
        /\ Tag \in {LOAD, FULFILL} => ~IsInt(ulocals[Operand(1)])

(* The handler of a concrete representation is called whenever there is   *)
(* one: a whole pickle is refused only if one of its names has none.      *)
HandlersAreFound ==
    uphase = "corrupt" /\ intact =>
        \E n \in DOMAIN snapshot :
            /\ snapshot[n].kind = "CONCRETE"
            /\ snapshot[n].args # <<>>
            /\ snapshot[snapshot[n].args[1][2]].args \notin handlers
=============================================================================
