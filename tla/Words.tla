---------------------------- MODULE Words ----------------------------
(* The words and blocks of store/Types.hh and store/Value.hh as graph    *)
(* algorithms see them. A heap maps the numbers of blocks to blocks, a   *)
(* word is an integer or the number of a block.                          *)
EXTENDS Integers, Sequences, Functions

IntWord(i) == <<"int", i>>
Ptr(n) == <<"ptr", n>>
IsInt(w) == w[1] = "int"

(* The arguments of a chunk are its bytes, those of a concrete           *)
(* representation are the name and the argument of its transform, and it *)
(* has none when it cannot be externalized.                              *)
Block(kind, args) == [kind |-> kind, args |-> args]

Chunks == {"CHUNK", "MCHUNK"}
Plain == {"BLOCK", "MBLOCK", "TUPLE", "CLOSURE"}
Transients == {"TRANSIENT", "REF"}

(* A transient that has been bound is a reference, and is looked through. *)
(* References do not form a cycle, so no chain of them is longer than the *)
(* heap.                                                                  *)
Deref(h, w) ==
    LET to[n \in 0..Len(h)] ==
            [b \in DOMAIN h |->
                IF n = 0 \/ h[b].kind # "REF" THEN Ptr(b)
                ELSE LET v == h[b].args[1] IN IF IsInt(v) THEN v ELSE to[n - 1][v[2]]]
    IN  IF IsInt(w) \/ h[w[2]].kind # "REF" THEN w ELSE to[Len(h)][w[2]]

(* All words of a heap lead to blocks of it.                              *)
IsWord(h, w) == IsInt(w) \/ w[2] \in DOMAIN h
IsHeap(h) ==
    /\ h # <<>> /\ h \in Seq(Range(h))
    /\ \A b \in DOMAIN h :
          /\ h[b] = Block(h[b].kind, h[b].args)
          /\ h[b].args \in Seq(Range(h[b].args))
          /\ h[b].kind \notin Chunks => \A i \in DOMAIN h[b].args : IsWord(h, h[b].args[i])
          /\ h[b].kind = "REF" => h[b].args # <<>>

IsTransient(h, w) == ~IsInt(w) /\ h[w[2]].kind \in Transients
=============================================================================
