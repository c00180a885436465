---------------------------- MODULE Pickle ----------------------------
(* The format that generic/Pickler.cc writes and generic/Unpickler.cc   *)
(* reads, and the graphs of blocks on both sides of it.                 *)
EXTENDS Words

CONSTANT Radix  \* a byte of a number holds one digit below Radix (0x80)

ASSUME RadixAssumption == Radix \in Nat /\ Radix > 1

(* Numbers are 6 bits wide here, and words can hold integers of 5 bits,   *)
(* one of them the sign.                                                  *)
UIntModulus == 2 ^ 6
INT_PRECISION == 5
MAX_VALID_INT == 2 ^ (INT_PRECISION - 1) - 1
CanPickle(i) == i < 2 ^ INT_PRECISION

INIT == 0
STORE == 1
LOAD == 2
POSINT == 3
NEGINT == 4
CHUNK == 5
MCHUNK == 6
UNIQUE == 7
BLOCK == 8
MBLOCK == 9
TUPLE == 10
CLOSURE == 11
TRANSFORM == 12
aBLOCK == 13
aMBLOCK == 14
aTUPLE == 15
aCLOSURE == 16
aTRANSFORM == 17
FULFILL == 18
ENDOFSTREAM == 19

magic == 1000  \* "seam", read and written as a whole
majorVersion == 5
minorVersion == 0
DataLabel == 0  \* the label of every BLOCK and MBLOCK: labels are only copied

(* A number is written in digits, the lowest one first; all but the     *)
(* last carry a flag.                                                   *)
UInt(i) ==
    LET digits[n \in Nat] ==
            IF n < Radix THEN <<n>> ELSE <<(n % Radix) + Radix>> \o digits[n \div Radix]
    IN  digits[i]

-----------------------------------------------------------------------------
Agree(g, h, v, w) ==
    IF IsInt(v) \/ IsInt(w) THEN v = w
    ELSE LET a == g[v[2]]
             b == h[w[2]]
         IN  /\ a.kind = b.kind
             /\ a.kind \notin Transients
             /\ Len(a.args) = Len(b.args)
             /\ a.kind \in Chunks => a.args = b.args

Successors(g, h, v, w) ==
    IF IsInt(v) \/ g[v[2]].kind \in Chunks THEN {}
    ELSE { <<Deref(g, g[v[2]].args[i]), Deref(h, h[w[2]].args[i])>> :
               i \in DOMAIN g[v[2]].args }

(* The graph of v in g and the graph of w in h are the same: equal       *)
(* blocks at the end of every path, and shared there if shared here.     *)
Isomorphic(g, v, h, w) ==
    LET pairs[n \in 0..Len(g)] ==
            IF n = 0 THEN {<<Deref(g, v), Deref(h, w)>>}
            ELSE LET P == pairs[n - 1] IN
                 IF \A p \in P : Agree(g, h, p[1], p[2])
                 THEN P \cup UNION { Successors(g, h, p[1], p[2]) : p \in P }
                 ELSE P
        all == pairs[Len(g)]
    IN  /\ \A p \in all : Agree(g, h, p[1], p[2])
        /\ \A p, q \in all : ~IsInt(p[1]) => (p[1] = q[1] <=> p[2] = q[2])
=============================================================================
