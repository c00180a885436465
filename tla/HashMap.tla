----------------------------- MODULE HashMap -----------------------------
(* store/BaseMap.cc and store/Map.cc: hash tables with chains. The hash   *)
(* value of a block is its address, which changes when the garbage        *)
(* collector moves it; at its end every collection puts the nodes of all  *)
(* maps it has kept back into the chains where they are looked for.       *)
EXTENDS Integers, Sequences, FiniteSets, SequencesExt, Filter

CONSTANTS
    Maps,       \* the blocks that are maps
    Keys,       \* the blocks that are keys
    Values,
    None,       \* no value: INVALID_POINTER
    Addresses,  \* where keys may be
    Oldest,     \* STORE_GEN_OLDEST
    Sizes,      \* the arguments of New
    MaxEntries  \* how many entries there are in all maps

ASSUME ConstantsAssumption ==
    /\ None \notin Values
    /\ Addresses \subseteq Nat /\ Sizes \subseteq Nat
    /\ Oldest \in Nat /\ MaxEntries \in Nat

VARIABLES
    reachable, \* the maps that the program can reach
    mapLs,     \* the list of maps, weak
    map,       \* for each map counter, percent, table and generation
    address,   \* of each key
    age,       \* the generation of each key
    contents   \* what the maps should contain, a Dictionary

keyVars == <<address, age>>
vars == <<reachable, mapLs, map, keyVars, contents>>

Dict == INSTANCE Dictionary

-----------------------------------------------------------------------------
(* The table: from 0, in every entry a chain of nodes.                    *)

Node(k, v) == [key |-> k, value |-> v]
AllNodes == [key : Keys, value : Values]

EmptyTable(size) == [i \in 0..(size - 1) |-> <<>>]
GetTableSize(table) == Cardinality(DOMAIN table)
Hash(k, size) == address[k] % size

(* BaseMap::FindKey: the place of the key in the chain, or 0.             *)
FindKey(k, nodes) == SelectInSeq(nodes, LAMBDA n : n.key = k)

(* All nodes, from the last entry to the first, as loops meet them.       *)
Nodes(table) == FlattenSeq([i \in 1..GetTableSize(table) |-> table[GetTableSize(table) - i]])

(* BaseMap::New, where a table has at least two entries.                  *)
NewMap(size) ==
    LET n == IF size < 2 THEN 2 ELSE size IN
    [counter |-> 0, percent |-> (3 * n) \div 4, table |-> EmptyTable(n), gen |-> 0]

\* Mutant: the nodes go where they were in the smaller table.
EnlargedOldHash(m) ==
    LET old == GetTableSize(map[m].table)
        size == (3 * old) \div 2
        chain(i) == Reverse(Filter(Nodes(map[m].table), {n \in AllNodes : Hash(n.key, old) = i}))
    IN  [map[m] EXCEPT !.percent = 1 + (3 * size) \div 4,
                       !.table = [i \in 0..(size - 1) |-> chain(i)]]

(* BaseMap::Resize: the nodes are copied, each before those in its chain. *)
Enlarged(m) ==
    LET size == (3 * GetTableSize(map[m].table)) \div 2
        chain(i) == Reverse(Filter(Nodes(map[m].table), {n \in AllNodes : Hash(n.key, size) = i}))
    IN  [map[m] EXCEPT !.percent = 1 + (3 * size) \div 4,
                       !.table = [i \in 0..(size - 1) |-> chain(i)]]

Resized(m) == IF map[m].counter > map[m].percent THEN Enlarged(m) ELSE map[m]

(* BaseMap::CondGet.                                                      *)
CondGet(m, k) ==
    LET nodes == map[m].table[Hash(k, GetTableSize(map[m].table))]
        at == FindKey(k, nodes)
    IN  IF at = 0 THEN None ELSE nodes[at].value

-----------------------------------------------------------------------------
(* What the program does.                                                 *)

New(m, size) ==
    /\ m \notin reachable \cup Range(mapLs)
    /\ map' = [map EXCEPT ![m] = NewMap(size)]
    /\ mapLs' = <<m>> \o mapLs
    /\ reachable' = reachable \cup {m}
    /\ Dict!New(m)
    /\ UNCHANGED keyVars

Entries == FoldLeft(LAMBDA n, m : n + map[m].counter, 0, mapLs)

\* Mutant: an entry that is replaced is counted again.
PutCounted(m, k, v) ==
    LET r == Resized(m)
        i == Hash(k, GetTableSize(r.table))
        at == FindKey(k, r.table[i])
    IN  /\ Entries < MaxEntries
        /\ map' = [map EXCEPT ![m] =
                      IF at # 0 THEN [r EXCEPT !.table[i][at] = Node(k, v), !.counter = @ + 1]
                      ELSE [r EXCEPT !.table[i] = <<Node(k, v)>> \o @, !.counter = @ + 1]]
        /\ Dict!Put(m, k, v)
        /\ UNCHANGED <<reachable, mapLs, keyVars>>

Put(m, k, v) ==
    LET r == Resized(m)
        i == Hash(k, GetTableSize(r.table))
        at == FindKey(k, r.table[i])
    IN  /\ at # 0 \/ Entries < MaxEntries
        /\ map' = [map EXCEPT ![m] =
                      IF at # 0 THEN [r EXCEPT !.table[i][at] = Node(k, v)]
                      ELSE [r EXCEPT !.table[i] = <<Node(k, v)>> \o @, !.counter = @ + 1]]
        /\ Dict!Put(m, k, v)
        /\ UNCHANGED <<reachable, mapLs, keyVars>>

RemoveKey(m, k) ==
    LET i == Hash(k, GetTableSize(map[m].table))
        at == FindKey(k, map[m].table[i])
    IN  /\ at # 0
        /\ map' = [map EXCEPT ![m].table[i] = RemoveAt(@, at), ![m].counter = @ - 1]
        /\ Dict!Remove(m, k)
        /\ UNCHANGED <<reachable, mapLs, keyVars>>

Clear(m) ==
    /\ map' = [map EXCEPT ![m].counter = 0, ![m].table = EmptyTable(GetTableSize(@))]
    /\ Dict!Clear(m)
    /\ UNCHANGED <<reachable, mapLs, keyVars>>

(* The function is called once for each node and None removes it.         *)
PartialMap(m, f) ==
    LET chain(nodes) == LET kept == Filter(nodes, {n \in AllNodes : f[n.key] # None})
                        IN  [j \in DOMAIN kept |-> Node(kept[j].key, f[kept[j].key])]
        gone == Filter(Nodes(map[m].table), {n \in AllNodes : f[n.key] = None})
    IN  /\ map' = [map EXCEPT ![m].counter = @ - Len(gone),
                              ![m].table = [i \in DOMAIN @ |-> chain(@[i])]]
        /\ Dict!PartialMap(m, f)
        /\ UNCHANGED <<reachable, mapLs, keyVars>>

Drop(m) ==
    /\ reachable' = reachable \ {m}
    /\ Dict!Drop(m)
    /\ UNCHANGED <<mapLs, map, keyVars>>

-----------------------------------------------------------------------------
(* Collection of the generations up to g.                                 *)

Older(n) == IF n < Oldest THEN n + 1 ELSE Oldest

(* What is in the generations up to g moves to the next one.              *)
Moved(g, to) ==
    /\ \A k, l \in Keys : k # l => to[k] # to[l]
    /\ \A k \in Keys : age[k] > g => to[k] = address[k]

(* Map::Rehash of one chain: the nodes that belong elsewhere are put, one *)
(* by one, before the nodes of the chain where they belong.               *)
RehashChain(table, i, place) ==
    LET gone(j) == Filter(table[i], {n \in AllNodes : place[n.key] = j})
    IN  [j \in DOMAIN table |-> IF j = i THEN gone(i) ELSE Reverse(gone(j)) \o table[j]]

Rehash(table, to) ==
    LET size == GetTableSize(table)
        place == [k \in Keys |-> to[k] % size]
        after[i \in 0..size] ==   \* the chains from i on have been done
            IF i = size THEN table ELSE RehashChain(after[i + 1], i, place)
    IN  after[0]

(* Map::RehashAll(g + 1): a map that has not been moved and is younger    *)
(* than the generation things are moved to is dead. A major collection    *)
(* moves to generation Oldest + 1, which is none that a header says.      *)
Forwarded(m, g) == m \in reachable /\ map[m].gen <= g
\* Mutant: a map in the generation things are moved to is dead, too.
KeptIfOlder(m, g) == Forwarded(m, g) \/ ~(map[m].gen <= g + 1)
Kept(m, g) == Forwarded(m, g) \/ ~(map[m].gen < g + 1)

Collect(g, to) ==
    /\ Moved(g, to)
    /\ address' = to
    /\ age' = [k \in Keys |-> IF age[k] <= g THEN Older(age[k]) ELSE age[k]]
    /\ mapLs' = Reverse(Filter(mapLs, {m \in Maps : Kept(m, g)}))
    /\ map' = [m \in Maps |->
                  IF m \notin Range(mapLs') THEN map[m]
                  ELSE [map[m] EXCEPT !.table = Rehash(@, to),
                                      !.gen = IF @ <= g THEN Older(@) ELSE @]]
    /\ UNCHANGED <<reachable, contents>>

Init ==
    /\ reachable = {}
    /\ mapLs = <<>>
    /\ map = [m \in Maps |-> NewMap(0)]
    /\ address \in {to \in [Keys -> Addresses] : \A k, l \in Keys : k # l => to[k] # to[l]}
    /\ age = [k \in Keys |-> 0]
    /\ Dict!Init

Next ==
    \/ \E m \in Maps, size \in Sizes : New(m, size)
    \/ \E m \in reachable :
        \/ \E k \in Keys : RemoveKey(m, k) \/ \E v \in Values : Put(m, k, v)
        \/ \E f \in [Keys -> Values \cup {None}] : PartialMap(m, f)
        \/ Clear(m) \/ Drop(m)
    \/ \E g \in 0..Oldest, to \in [Keys -> Addresses] : Collect(g, to)

Spec == Init /\ [][Next]_vars

-----------------------------------------------------------------------------
(* The types of the variables. The list has no map twice and misses none  *)
(* that the program can reach.                                            *)
TypeOK ==
    /\ reachable \subseteq Range(mapLs) /\ IsInjective(mapLs)
    /\ \A m \in Maps : /\ GetTableSize(map[m].table) >= 2
                       /\ DOMAIN map[m].table = 0..(GetTableSize(map[m].table) - 1)
                       /\ map[m].gen \in 0..Oldest
    /\ \A k, l \in Keys : address[k] = address[l] => k = l

(* Wherever keys have been moved and however tables have grown, a look-up  *)
(* in a map finds what was put there last.                                *)
IsDictionary == \A m \in reachable, k \in Keys : CondGet(m, k) = contents[m][k]

(* Apply and Fold visit every key that is in the map and no other, once,  *)
(* and GetSize is their number. This holds also of maps that are garbage  *)
(* but in a generation that has not been collected.                       *)
EachEntryOnce ==
    \A m \in Range(mapLs) :
        LET nodes == Nodes(map[m].table)
            members == {k \in Keys : CondGet(m, k) # None}
        IN  /\ Len(nodes) = map[m].counter
            /\ Cardinality(members) = map[m].counter
            /\ {nodes[i].key : i \in DOMAIN nodes} = members
=============================================================================
