--------------------------- MODULE MCMinimizer ---------------------------
EXTENDS Minimizer

(* Block 1 is the root. Three blocks refer to each other and to           *)
(* themselves.                                                            *)
Pairs == {<<Ptr(i), Ptr(j)>> : i, j \in 1..3}
Rings == {<<Block("TUPLE", p), Block("TUPLE", q), Block("TUPLE", r)>> : p, q, r \in Pairs}

(* Two classes that a chunk splits, and four blocks above them.           *)
Towers ==
    {<<Block("TUPLE", <<Ptr(2), Ptr(3), Ptr(4), Ptr(5), Ptr(6), Ptr(9)>>),
       Block("BLOCK", <<a>>), Block("BLOCK", <<b>>), Block("BLOCK", <<c>>), Block("BLOCK", <<d>>),
       Block("TUPLE", <<Ptr(6)>>), Block("TUPLE", <<Ptr(12)>>), Block("TUPLE", <<Ptr(12)>>),
       Block("CLOSURE", <<Ptr(9)>>), Block("CLOSURE", <<Ptr(12)>>), Block("CLOSURE", <<Ptr(12)>>),
       Block("CHUNK", <<7>>)>> :
       a \in {Ptr(7)}, b, c, d \in {Ptr(i) : i \in 6..11}}

(* Lists that end alike, and differ in an integer or a byte, or in a part *)
(* that is mutable, or that only another thread can give.                 *)
Lists ==
    {<<Block("TUPLE", <<Ptr(2), Ptr(4), last>>),
       Block(kind, <<IntWord(0), Ptr(3)>>), Block("CHUNK", <<7>>),
       Block(kind, <<IntWord(i), Ptr(5)>>), Block("CHUNK", <<j>>),
       Block("TRANSIENT", <<>>)>> :
       kind \in {"BLOCK", "MBLOCK", "CLOSURE"}, i \in {0, 1}, j \in {6, 7},
       last \in {Ptr(2), Ptr(4), Ptr(6)}}

Single == <<Block("CHUNK", <<7>>)>>

MCGraphs == Rings \cup Towers \cup Lists \cup {Single}
MCWords == {IntWord(0), Ptr(2), Ptr(4)}
=============================================================================
