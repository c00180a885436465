--------------------------- MODULE MCPickling ---------------------------
EXTENDS Pickling

(* Block 1 is the root, block 4 a string; a word leads to one of the      *)
(* first three.                                                           *)
Name == <<7, 7>>
MCNames == {Name}
Refs == {IntWord(-6), Ptr(1), Ptr(2), Ptr(3)}
Pairs == {<<v, w>> : v, w \in Refs}

Roots == {Block("TUPLE", p) : p \in Pairs} \cup {Block("MBLOCK", <<Ptr(2), w>>) : w \in Refs}
Inner ==
    {Block(kind, <<w>>) : kind \in {"CLOSURE", "MBLOCK"}, w \in Refs}
        \cup {Block("BLOCK", <<Ptr(1), w>>) : w \in Refs}
        \cup {Block("CONCRETE", <<Ptr(4), w>>) : w \in Refs}
        \cup {Block("CONCRETE", <<>>)}
Leaves ==
    {Block("TRANSIENT", <<>>), Block("UNIQUE", <<Ptr(4)>>), Block("MCHUNK", [i \in 1..9 |-> 3])}

Reached(h) ==
    LET to(n) == IF h[n].kind \in Chunks THEN {}
                 ELSE {h[n].args[i][2] : i \in {j \in DOMAIN h[n].args : ~IsInt(h[n].args[j])}}
        reach[i \in 0..3] == IF i = 0 THEN {1} ELSE reach[i - 1] \cup UNION {to(n) : n \in reach[i - 1]}
    IN  reach[3]

Heaps == {<<r, i, l, Block("CHUNK", Name)>> : r \in Roots, i \in Inner, l \in Leaves}

(* Blocks without fields, of which a tuple may hold several.             *)
Empties == {Block(kind, <<>>) : kind \in {"TUPLE", "BLOCK", "MBLOCK"}}
Fields == Refs \ {Ptr(1)}
EmptyBlocks ==
    {<<Block("TUPLE", <<v, w, x>>), i, l, Block("CHUNK", Name)>> :
       v, w, x \in Fields, i \in Empties \cup {Block("CLOSURE", <<Ptr(3)>>)}, l \in Empties}

MCGraphs == {h \in Heaps \cup EmptyBlocks : {1, 2, 3} \subseteq Reached(h)}
MCEmptyBlocks == {h \in MCGraphs : h[3].args = <<>> /\ h[3].kind = "TUPLE"}
MCCycles == {h \in MCGraphs : h[2].kind = "CONCRETE" /\ Ptr(2) \in {h[2].args[i] : i \in DOMAIN h[2].args}}
MCWords == {IntWord(5), Ptr(2)}
(* Other versions, and heights of the stack that are too large.          *)
MCForeign == {<<>>, <<magic>> \o UInt(4) \o <<0, INIT, 1, 1, INIT>>,
              <<magic>> \o UInt(majorVersion) \o <<0, INIT, 1, 1, INIT, INIT>>,
              <<magic>> \o UInt(majorVersion) \o <<0, INIT>> \o UInt(MAX_VALID_INT + 1) \o <<1>>,
              <<magic>> \o UInt(majorVersion) \o <<0, INIT>> \o UInt(UIntModulus - 1) \o <<1>>}
=============================================================================
