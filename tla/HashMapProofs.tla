--------------------------- MODULE HashMapProofs ---------------------------
(* The properties of HashMap hold for any number of maps and keys, whatever *)
(* addresses the garbage collector moves keys to and however tables grow.   *)
EXTENDS HashMap, SequenceLemmas

(* A hash value is an index of the table.                                   *)
LEMMA RestOfDivision ==
  ASSUME NEW a \in Nat, NEW n \in Nat, n # 0
  PROVE  a % n \in 0..(n - 1)
  OBVIOUS

(* A node is its key and its value.                                         *)
LEMMA NodeIs ==
  /\ \A k \in Keys, v \in Values : /\ Node(k, v) \in AllNodes
                                   /\ Node(k, v).key = k /\ Node(k, v).value = v
  /\ \A n \in AllNodes : n.key \in Keys /\ n.value \in Values /\ n = Node(n.key, n.value)
  BY DEF Node, AllNodes

(***************************************************************************)
(* Chains: sequences of nodes with different keys.                         *)
(***************************************************************************)
DifferentKeys(s) == \A i, j \in 1..Len(s) : s[i].key = s[j].key => i = j
KeysOf(s) == {s[i].key : i \in 1..Len(s)}

(* How many keys there are is the length of the chain.                     *)
LEMMA CountKeys ==
  ASSUME NEW s \in Seq(AllNodes), DifferentKeys(s)
  PROVE  IsFiniteSet(KeysOf(s)) /\ Cardinality(KeysOf(s)) = Len(s)
<1> DEFINE n == Len(s)
           f == [i \in 1..n |-> s[i].key]
<1>1. n \in Nat
  OBVIOUS
<1>2. f \in Bijection(1..n, KeysOf(s))
  BY DEF Bijection, Injection, IsInjective, Surjection, KeysOf, DifferentKeys
<1>3. ExistsBijection(1..n, KeysOf(s))
  BY <1>2 DEF ExistsBijection
<1> QED
  BY <1>1, <1>3, FS_CountingElements, FS_NatBijection

(* BaseMap::FindKey finds the key if it is there.                          *)
LEMMA FindKeyIs ==
  ASSUME NEW s \in Seq(AllNodes), NEW k
  PROVE  \/ FindKey(k, s) = 0 /\ \A i \in 1..Len(s) : s[i].key # k
         \/ FindKey(k, s) \in 1..Len(s) /\ s[FindKey(k, s)].key = k
<1> DEFINE I == {i \in 1..Len(s) : s[i].key = k}
<1>1. FindKey(k, s) = IF I # {} THEN Min(I) ELSE 0
  BY DEF FindKey, SelectInSeq
<1>2. CASE I = {}
  BY <1>1, <1>2
<1>3. CASE I # {}
  <2>1. I \in SUBSET Nat
    OBVIOUS
  <2>2. PICK x \in I : \A y \in I : x <= y
    <3> HIDE DEF I
    <3> QED
      BY <1>3, <2>1, Least
  <2>3. Min(I) \in I
    <3> HIDE DEF I
    <3> QED
      BY <2>2 DEF Min
  <2> QED
    BY <1>1, <1>3, <2>3
<1> QED
  BY <1>2, <1>3

(* The nodes that are wanted have different keys, too.                     *)
LEMMA FilterNodes ==
  ASSUME NEW s \in Seq(AllNodes), NEW wanted
  PROVE  /\ Filter(s, wanted) \in Seq(AllNodes)
         /\ \A i \in 1..Len(Filter(s, wanted)) :
              /\ Filter(s, wanted)[i] \in wanted
              /\ \E j \in 1..Len(s) : Filter(s, wanted)[i] = s[j]
         /\ \A j \in 1..Len(s) : s[j] \in wanted =>
              \E i \in 1..Len(Filter(s, wanted)) : Filter(s, wanted)[i] = s[j]
         /\ DifferentKeys(s) => DifferentKeys(Filter(s, wanted))
<1> DEFINE t == Filter(s, wanted)
<1>1. t \in Seq(AllNodes) /\ \E p : Selects(p, s, Len(s), wanted, t)
  BY FilterIs
<1>2. PICK p : Selects(p, s, Len(s), wanted, t)
  BY <1>1
<1> HIDE DEF t
<1>3. /\ p \in [1..Len(t) -> 1..Len(s)]
      /\ \A i \in 1..Len(t) : t[i] = s[p[i]] /\ s[p[i]] \in wanted
      /\ \A i, j \in 1..Len(t) : i < j => p[i] < p[j]
      /\ \A j \in 1..Len(s) : s[j] \in wanted => \E i \in 1..Len(t) : p[i] = j
  BY <1>2 DEF Selects
<1>4. ASSUME DifferentKeys(s), NEW i \in 1..Len(t), NEW j \in 1..Len(t), t[i].key = t[j].key
      PROVE  i = j
  <2>1. p[i] \in 1..Len(s) /\ p[j] \in 1..Len(s) /\ s[p[i]].key = s[p[j]].key
    BY <1>3, <1>4
  <2>2. p[i] = p[j]
    BY <1>4, <2>1 DEF DifferentKeys
  <2>3. p[i] \in Int /\ p[j] \in Int /\ i \in Int /\ j \in Int
    BY <1>3
  <2> QED
    BY <1>3, <2>2, <2>3
<1>5. DifferentKeys(s) => DifferentKeys(t)
  BY <1>4 DEF DifferentKeys
<1>6. \A i \in 1..Len(t) : t[i] \in wanted /\ \E j \in 1..Len(s) : t[i] = s[j]
  BY <1>3
<1>7. \A j \in 1..Len(s) : s[j] \in wanted => \E i \in 1..Len(t) : t[i] = s[j]
  BY <1>3
<1> QED
  BY <1>1, <1>5, <1>6, <1>7 DEF t

(* The nodes of a reversed chain are those of the chain.                    *)
LEMMA ReverseNodes ==
  ASSUME NEW s \in Seq(AllNodes)
  PROVE  /\ Reverse(s) \in Seq(AllNodes) /\ Len(Reverse(s)) = Len(s)
         /\ \A i \in 1..Len(s) : /\ Len(s) - i + 1 \in 1..Len(s)
                                 /\ Reverse(s)[i] = s[Len(s) - i + 1]
                                 /\ s[i] = Reverse(s)[Len(s) - i + 1]
         /\ DifferentKeys(s) => DifferentKeys(Reverse(s))
<1>1. \A i \in 1..Len(s) : Len(s) - i + 1 \in 1..Len(s)
  OBVIOUS
<1>2. Reverse(s) \in Seq(AllNodes) /\ Len(Reverse(s)) = Len(s)
  BY <1>1 DEF Reverse
<1>3. \A i \in 1..Len(s) : Reverse(s)[i] = s[Len(s) - i + 1]
  BY DEF Reverse
<1>4. ASSUME NEW i \in 1..Len(s)
      PROVE  s[i] = Reverse(s)[Len(s) - i + 1]
  <2>1. Len(s) - (Len(s) - i + 1) + 1 = i
    OBVIOUS
  <2> QED
    BY <1>1, <1>3, <2>1
<1>5. DifferentKeys(s) => DifferentKeys(Reverse(s))
  <2> SUFFICES ASSUME DifferentKeys(s), NEW i \in 1..Len(s), NEW j \in 1..Len(s),
                      Reverse(s)[i].key = Reverse(s)[j].key
               PROVE  i = j
    BY <1>2 DEF DifferentKeys
  <2>1. PICK x \in 1..Len(s) : x = Len(s) - i + 1
    BY <1>1
  <2>2. PICK y \in 1..Len(s) : y = Len(s) - j + 1
    BY <1>1
  <2>3. s[x].key = s[y].key
    BY <1>3, <2>1, <2>2
  <2>4. x = y
    BY <2>3 DEF DifferentKeys
  <2>5. Len(s) \in Nat
    OBVIOUS
  <2> QED
    BY <2>1, <2>2, <2>4, <2>5
<1> QED
  BY <1>1, <1>2, <1>3, <1>4, <1>5

-----------------------------------------------------------------------------
(***************************************************************************)
(* Tables: what BaseMap::New, Resize and Map::Rehash preserve.             *)
(***************************************************************************)
IsTable(t) ==
  /\ GetTableSize(t) \in Nat /\ GetTableSize(t) >= 2
  /\ t \in [0..(GetTableSize(t) - 1) -> Seq(AllNodes)]

InTable(t, i, j) == i \in DOMAIN t /\ j \in 1..Len(t[i])

(* No key is in two nodes.                                                 *)
KeysOnce(t) ==
  \A i, x, j, y : InTable(t, i, x) /\ InTable(t, j, y) /\ t[i][x].key = t[j][y].key
                    => i = j /\ x = y

(* Every node is in the chain where its key is looked for.                 *)
Placed(t, to) ==
  \A i, x : InTable(t, i, x) => to[t[i][x].key] % GetTableSize(t) = i

NodesIn(t) == {n \in AllNodes : \E i, x : InTable(t, i, x) /\ n = t[i][x]}
KeysIn(t) == {n.key : n \in NodesIn(t)}

(* What a function from indices to chains must be to be a table.            *)
LEMMA TableIs ==
  ASSUME NEW n \in Nat, n >= 2, NEW t \in [0..(n - 1) -> Seq(AllNodes)]
  PROVE  GetTableSize(t) = n /\ IsTable(t)
<1>1. Cardinality(0..(n - 1)) = n
  BY FS_Interval
<1> QED
  BY <1>1 DEF IsTable, GetTableSize

(* What is at a place of a table is one of its nodes.                       *)
LEMMA InTableIs ==
  ASSUME NEW t, IsTable(t), NEW i, NEW x, InTable(t, i, x)
  PROVE  /\ i \in 0..(GetTableSize(t) - 1) /\ t[i] \in Seq(AllNodes) /\ x \in 1..Len(t[i])
         /\ t[i][x] \in AllNodes /\ t[i][x] \in NodesIn(t)
         /\ t[i][x].key \in Keys
<1>1. i \in 0..(GetTableSize(t) - 1) /\ t[i] \in Seq(AllNodes) /\ x \in 1..Len(t[i])
  BY DEF IsTable, InTable
<1>2. t[i][x] \in AllNodes
  BY <1>1
<1> QED
  BY <1>1, <1>2, NodeIs DEF NodesIn

(* The table of BaseMap::New.                                              *)
LEMMA EmptyTableIs ==
  ASSUME NEW n \in Nat, n >= 2
  PROVE  /\ IsTable(EmptyTable(n)) /\ GetTableSize(EmptyTable(n)) = n
         /\ \A i, x : ~InTable(EmptyTable(n), i, x)
<1>1. EmptyTable(n) \in [0..(n - 1) -> Seq(AllNodes)]
  BY DEF EmptyTable
<1>2. \A i, x : ~InTable(EmptyTable(n), i, x)
  BY DEF InTable, EmptyTable
<1> QED
  BY <1>1, <1>2, TableIs

(* The loops over a table meet all nodes, once.                            *)
LEMMA NodesIs ==
  ASSUME NEW t, IsTable(t)
  PROVE  /\ Nodes(t) \in Seq(AllNodes)
         /\ \A i \in 1..Len(Nodes(t)) : Nodes(t)[i] \in NodesIn(t)
         /\ \A n \in NodesIn(t) : \E i \in 1..Len(Nodes(t)) : Nodes(t)[i] = n
         /\ KeysOnce(t) => DifferentKeys(Nodes(t))
<1> DEFINE size == GetTableSize(t)
           ss == [i \in 1..size |-> t[size - i]]
           s == FlattenSeq(ss)
<1>1. size \in Nat /\ t \in [0..(size - 1) -> Seq(AllNodes)]
  BY DEF IsTable
<1>2. \A i \in 1..size : size - i \in 0..(size - 1)
  <2> HIDE DEF size
  <2> QED
    BY <1>1
<1>3. ss \in Seq(Seq(AllNodes)) /\ Len(ss) = size
  <2> HIDE DEF size
  <2> QED
    BY <1>1, <1>2
<1>4. s \in Seq(AllNodes) /\ \E a, b : Flattens(a, b, ss, Len(ss), s)
  <2> HIDE DEF ss
  <2> QED
    BY <1>3, FlattenIs
<1>5. PICK a, b : Flattens(a, b, ss, Len(ss), s)
  BY <1>4
<1>6. Nodes(t) = s
  BY DEF Nodes
<1> HIDE DEF s
<1>7. /\ a \in [1..Len(s) -> 1..size] /\ b \in [1..Len(s) -> Nat]
      /\ \A i \in 1..Len(s) : b[i] \in 1..Len(ss[a[i]]) /\ s[i] = ss[a[i]][b[i]]
      /\ \A i, j \in 1..Len(s) : i < j => a[i] < a[j] \/ (a[i] = a[j] /\ b[i] < b[j])
      /\ \A x \in 1..size : \A y \in 1..Len(ss[x]) : \E i \in 1..Len(s) : a[i] = x /\ b[i] = y
  <2> HIDE DEF ss, size
  <2> QED
    BY <1>3, <1>5 DEF Flattens
<1>8. \A i \in 1..size : ss[i] = t[size - i]
  OBVIOUS
<1> HIDE DEF ss, size
<1>13. \A i \in 1..Len(s) : a[i] \in 1..size /\ b[i] \in Nat
  BY <1>7
<1>9. ASSUME NEW i \in 1..Len(s)
      PROVE  InTable(t, size - a[i], b[i]) /\ s[i] = t[size - a[i]][b[i]]
  <2>1. size - a[i] \in 0..(size - 1) /\ ss[a[i]] = t[size - a[i]]
    BY <1>2, <1>8, <1>13
  <2>2. b[i] \in 1..Len(ss[a[i]]) /\ s[i] = ss[a[i]][b[i]]
    BY <1>7
  <2> QED
    BY <1>1, <2>1, <2>2 DEF InTable
<1>10. \A i \in 1..Len(s) : s[i] \in NodesIn(t)
  BY <1>9, InTableIs
<1>11. ASSUME NEW n \in NodesIn(t)
       PROVE  \E i \in 1..Len(s) : s[i] = n
  <2>1. PICK i, x : InTable(t, i, x) /\ n = t[i][x]
    BY <1>11 DEF NodesIn
  <2>2. i \in 0..(size - 1) /\ x \in 1..Len(t[i])
    BY <2>1, InTableIs DEF size
  <2>3. size - i \in 1..size /\ size - (size - i) = i
    BY <1>1, <2>2
  <2>4. ss[size - i] = t[i]
    BY <1>8, <2>3
  <2>5. PICK j \in 1..Len(s) : a[j] = size - i /\ b[j] = x
    BY <1>7, <2>2, <2>3, <2>4
  <2> QED
    BY <1>7, <2>1, <2>4, <2>5
<1>12. ASSUME KeysOnce(t), NEW i \in 1..Len(s), NEW j \in 1..Len(s), s[i].key = s[j].key
       PROVE  i = j
  <2>1. size - a[i] = size - a[j] /\ b[i] = b[j]
    BY <1>9, <1>12 DEF KeysOnce
  <2>2. a[i] \in Int /\ a[j] \in Int /\ b[i] \in Int
    BY <1>13
  <2>3. a[i] = a[j]
    BY <1>1, <2>1, <2>2
  <2>4. ~(a[i] < a[j]) /\ ~(a[j] < a[i]) /\ ~(b[i] < b[j]) /\ ~(b[j] < b[i])
    BY <2>1, <2>2, <2>3
  <2>5. ~(i < j) /\ ~(j < i)
    BY <1>7, <2>4
  <2> QED
    BY <2>5
<1> QED
  BY <1>4, <1>6, <1>10, <1>11, <1>12 DEF DifferentKeys

(* So their number is that of the keys.                                    *)
LEMMA CountNodes ==
  ASSUME NEW t, IsTable(t), KeysOnce(t)
  PROVE  /\ IsFiniteSet(KeysIn(t)) /\ Cardinality(KeysIn(t)) = Len(Nodes(t))
         /\ KeysOf(Nodes(t)) = KeysIn(t)
<1>1. KeysOf(Nodes(t)) = KeysIn(t)
  BY NodesIs DEF KeysOf, KeysIn
<1> QED
  BY <1>1, NodesIs, CountKeys

(* A table whose chains have different keys, all where they belong, has no *)
(* key twice.                                                              *)
GoodChains(t, n, to) ==
  /\ n \in Nat /\ n >= 2 /\ t \in [0..(n - 1) -> Seq(AllNodes)]
  /\ \A i \in 0..(n - 1) :
       /\ DifferentKeys(t[i])
       /\ \A x \in 1..Len(t[i]) : to[t[i][x].key] % n = i

(* Chains that are right one by one make a table that is right.             *)
LEMMA PlacedTable ==
  ASSUME NEW n, NEW t, NEW to, GoodChains(t, n, to)
  PROVE  IsTable(t) /\ GetTableSize(t) = n /\ KeysOnce(t) /\ Placed(t, to)
<1> USE DEF GoodChains
<1>1. IsTable(t) /\ GetTableSize(t) = n
  BY TableIs
<1>2. \A i, x : InTable(t, i, x) => i \in 0..(n - 1) /\ x \in 1..Len(t[i])
  BY DEF InTable
<1>3. Placed(t, to)
  BY <1>1, <1>2 DEF Placed
<1>4. ASSUME NEW i, NEW x, NEW j, NEW y, InTable(t, i, x), InTable(t, j, y),
             t[i][x].key = t[j][y].key
      PROVE  i = j /\ x = y
  <2>1. i = j
    BY <1>2, <1>4
  <2> QED
    BY <1>2, <1>4, <2>1 DEF DifferentKeys
<1> QED
  BY <1>1, <1>3, <1>4 DEF KeysOnce

(* In a table without repeated keys no chain repeats one.                   *)
LEMMA ChainsOf ==
  ASSUME NEW t, IsTable(t), KeysOnce(t), NEW i \in DOMAIN t
  PROVE  t[i] \in Seq(AllNodes) /\ DifferentKeys(t[i])
<1>1. t[i] \in Seq(AllNodes)
  BY DEF IsTable
<1>2. \A x, y \in 1..Len(t[i]) : t[i][x].key = t[i][y].key => x = y
  BY DEF KeysOnce, InTable
<1> QED
  BY <1>1, <1>2 DEF DifferentKeys

(* The nodes of a table are those at its places.                            *)
LEMMA NodesInIs ==
  ASSUME NEW t, IsTable(t)
  PROVE  /\ \A n \in NodesIn(t) : n \in AllNodes /\ \E i, x : InTable(t, i, x) /\ n = t[i][x]
         /\ \A i, x : InTable(t, i, x) => t[i][x] \in NodesIn(t)
  BY InTableIs DEF NodesIn, InTable

(* If one chain is replaced by another whose nodes belong there.           *)
InChain(n, s) == \E x \in 1..Len(s) : n = s[x]

Belongs(c, t, to, i) ==
  /\ c \in Seq(AllNodes) /\ DifferentKeys(c)
  /\ \A x \in 1..Len(c) : to[c[x].key] % GetTableSize(t) = i

ChainReplaced(u, t, i, c) == u = [t EXCEPT ![i] = c]

(* Put, Remove and PartialMap change a table chain by chain: if a chain is  *)
(* replaced by one whose keys belong there, the table stays right, and its  *)
(* nodes are those of the other chains and of the new one.                  *)
LEMMA ChangeChain ==
  ASSUME NEW t, IsTable(t), KeysOnce(t), NEW to, Placed(t, to), NEW i \in DOMAIN t,
         NEW c, Belongs(c, t, to, i),
         NEW u, ChainReplaced(u, t, i, c)
  PROVE  /\ IsTable(u) /\ GetTableSize(u) = GetTableSize(t)
         /\ KeysOnce(u) /\ Placed(u, to)
         /\ \A n : n \in NodesIn(u) <=>
                    (n \in NodesIn(t) /\ ~InChain(n, t[i])) \/ InChain(n, c)
<1> DEFINE size == GetTableSize(t)
<1> USE DEF Belongs, ChainReplaced
<1>1. size \in Nat /\ size >= 2 /\ t \in [0..(size - 1) -> Seq(AllNodes)]
  BY DEF IsTable
<1> HIDE DEF size
<1>2. u \in [0..(size - 1) -> Seq(AllNodes)] /\ DOMAIN u = DOMAIN t
  BY <1>1
<1>3. u[i] = c /\ \A j \in DOMAIN t : j # i => u[j] = t[j]
  BY <1>1
<1>4. ASSUME NEW j \in 0..(size - 1)
      PROVE  /\ DifferentKeys(u[j])
             /\ \A x \in 1..Len(u[j]) : to[u[j][x].key] % size = j
  <2>1. CASE j = i
    BY <1>3, <2>1 DEF size
  <2>2. CASE j # i
    BY <1>1, <1>3, <2>2, ChainsOf DEF Placed, InTable, size
  <2> QED
    BY <2>1, <2>2
<1>5. IsTable(u) /\ GetTableSize(u) = size /\ KeysOnce(u) /\ Placed(u, to)
  <2>1. GoodChains(u, size, to)
    BY <1>1, <1>2, <1>4 DEF GoodChains
  <2> QED
    BY <2>1, PlacedTable
<1>6. ASSUME NEW n \in NodesIn(u)
      PROVE  \/ n \in NodesIn(t) /\ \A x \in 1..Len(t[i]) : n # t[i][x]
             \/ \E x \in 1..Len(c) : n = c[x]
  <2>1. PICK j, x : InTable(u, j, x) /\ n = u[j][x]
    BY DEF NodesIn
  <2>2. CASE j # i
    <3>1. InTable(t, j, x) /\ n = t[j][x]
      BY <1>2, <1>3, <2>1, <2>2 DEF InTable
    <3>2. n \in NodesIn(t)
      BY <3>1, NodesInIs
    <3>3. \A y \in 1..Len(t[i]) : InTable(t, i, y)
      BY DEF InTable
    <3>4. \A y \in 1..Len(t[i]) : n # t[i][y]
      BY <2>2, <3>1, <3>3 DEF KeysOnce
    <3> QED
      BY <3>2, <3>4
  <2> QED
    BY <1>3, <2>1, <2>2 DEF InTable
<1>7. ASSUME NEW n \in NodesIn(t), \A x \in 1..Len(t[i]) : n # t[i][x]
      PROVE  n \in NodesIn(u)
  <2>1. PICK j, x : InTable(t, j, x) /\ n = t[j][x]
    BY NodesInIs
  <2>2. j # i
    BY <1>7, <2>1 DEF InTable
  <2>3. InTable(u, j, x) /\ n = u[j][x]
    BY <1>2, <1>3, <2>1, <2>2 DEF InTable
  <2> QED
    BY <1>5, <2>3, NodesInIs
<1>8. ASSUME NEW x \in 1..Len(c)
      PROVE  c[x] \in NodesIn(u)
  <2>1. InTable(u, i, x) /\ c[x] = u[i][x]
    BY <1>2, <1>3 DEF InTable
  <2> QED
    BY <1>5, <2>1, NodesInIs
<1>9. ASSUME NEW n
      PROVE  n \in NodesIn(u) <=> (n \in NodesIn(t) /\ ~InChain(n, t[i])) \/ InChain(n, c)
  BY <1>6, <1>7, <1>8 DEF InChain
<1> QED
  BY <1>5, <1>9 DEF size

(* The partial function is applied to a chain, or a larger table is filled: *)
(* whatever the table is made from, it has the nodes its chains have.       *)
LEMMA ChainNodes ==
  ASSUME NEW n \in Nat, n >= 2, NEW t \in [0..(n - 1) -> Seq(AllNodes)]
  PROVE  /\ \A q \in NodesIn(t) : \E i \in 0..(n - 1) : \E x \in 1..Len(t[i]) : q = t[i][x]
         /\ \A i \in 0..(n - 1) : \A x \in 1..Len(t[i]) : t[i][x] \in NodesIn(t)
<1>1. DOMAIN t = 0..(n - 1)
  OBVIOUS
<1>2. \A i \in 0..(n - 1) : \A x \in 1..Len(t[i]) : t[i][x] \in AllNodes
  OBVIOUS
<1> QED
  BY <1>1, <1>2 DEF NodesIn, InTable

-----------------------------------------------------------------------------
(***************************************************************************)
(* The operations on one map.                                              *)
(***************************************************************************)
Tables == {[0..(n - 1) -> Seq(AllNodes)] : n \in Nat}
Records == [counter : Nat, percent : Nat, table : UNION Tables, gen : 0..Oldest]

(* A table is of the type that TypeOK gives it.                             *)
LEMMA TableType ==
  ASSUME NEW t, IsTable(t)
  PROVE  t \in UNION Tables
  BY DEF IsTable, Tables

AddressesOK ==
  address \in [Keys -> Nat] /\ \A k, l \in Keys : address[k] = address[l] => k = l

(* A key hashes to an index of the table, its address modulo the size.      *)
LEMMA HashIs ==
  ASSUME AddressesOK, NEW k \in Keys, NEW n \in Nat, n # 0
  PROVE  Hash(k, n) \in 0..(n - 1) /\ Hash(k, n) = address[k] % n
  BY RestOfDivision DEF AddressesOK, Hash

(* A map in good order.                                                    *)
InOrder(r) ==
  /\ r \in Records
  /\ IsTable(r.table) /\ KeysOnce(r.table) /\ Placed(r.table, address)
  /\ r.counter = Cardinality(KeysIn(r.table))

(* Where FindKey looks for a key is where it is.                           *)
LEMMA FoundInChain ==
  ASSUME AddressesOK, NEW t, IsTable(t), KeysOnce(t), Placed(t, address), NEW k \in Keys
  PROVE  LET i == Hash(k, GetTableSize(t))
             at == FindKey(k, t[i])
         IN  /\ i \in DOMAIN t /\ t[i] \in Seq(AllNodes)
             /\ at # 0 => at \in 1..Len(t[i]) /\ t[i][at] \in NodesIn(t) /\ t[i][at].key = k
             /\ at # 0 => \A n \in NodesIn(t) : n.key = k => n = t[i][at]
             /\ at = 0 => \A n \in NodesIn(t) : n.key # k
<1> DEFINE size == GetTableSize(t)
           i == Hash(k, size)
           at == FindKey(k, t[i])
<1>1. size \in Nat /\ size >= 2 /\ t \in [0..(size - 1) -> Seq(AllNodes)]
  BY DEF IsTable
<1>2. i \in 0..(size - 1) /\ i = address[k] % size
  <2> HIDE DEF size
  <2> QED
    BY <1>1, HashIs
<1> HIDE DEF size, i
<1>3. i \in DOMAIN t /\ t[i] \in Seq(AllNodes)
  BY <1>1, <1>2
<1>4. \/ at = 0 /\ \A x \in 1..Len(t[i]) : t[i][x].key # k
      \/ at \in 1..Len(t[i]) /\ t[i][at].key = k
  BY <1>3, FindKeyIs
<1> HIDE DEF at
<1>5. at # 0 => InTable(t, i, at)
  BY <1>3, <1>4 DEF InTable
<1>6. ASSUME NEW n \in NodesIn(t), n.key = k
      PROVE  at # 0 /\ n = t[i][at]
  <2>1. PICK j, x : InTable(t, j, x) /\ n = t[j][x]
    BY DEF NodesIn
  <2>2. j = i
    BY <1>2, <1>6, <2>1 DEF Placed, size
  <2>3. at # 0
    BY <1>4, <1>6, <2>1, <2>2 DEF InTable
  <2> QED
    BY <1>4, <1>5, <1>6, <2>1, <2>2, <2>3 DEF KeysOnce
<1> QED
  BY <1>3, <1>4, <1>5, <1>6, NodesInIs DEF at, i, size

(* A look-up finds the node with the key, if there is one.                 *)
LEMMA LookUp ==
  ASSUME AddressesOK, NEW m, InOrder(map[m]), NEW k \in Keys
  PROVE  /\ \A n \in NodesIn(map[m].table) : n.key = k => CondGet(m, k) = n.value
         /\ (\A n \in NodesIn(map[m].table) : n.key # k) => CondGet(m, k) = None
<1> DEFINE t == map[m].table
           i == Hash(k, GetTableSize(t))
           at == FindKey(k, t[i])
<1>1. /\ i \in DOMAIN t /\ t[i] \in Seq(AllNodes)
      /\ at # 0 => at \in 1..Len(t[i]) /\ t[i][at] \in NodesIn(t) /\ t[i][at].key = k
      /\ at # 0 => \A n \in NodesIn(t) : n.key = k => n = t[i][at]
      /\ at = 0 => \A n \in NodesIn(t) : n.key # k
  BY FoundInChain DEF InOrder
<1>2. CondGet(m, k) = IF at = 0 THEN None ELSE t[i][at].value
  BY DEF CondGet
<1> HIDE DEF t, i, at
<1>3. /\ \A n \in NodesIn(t) : n.key = k => CondGet(m, k) = n.value
      /\ (\A n \in NodesIn(t) : n.key # k) => CondGet(m, k) = None
  BY <1>1, <1>2
<1> QED
  BY <1>3 DEF t

(* BaseMap::Resize: the nodes go where their keys are looked for now.      *)
LEMMA EnlargedIs ==
  ASSUME AddressesOK, NEW m, InOrder(map[m])
  PROVE  /\ InOrder(Enlarged(m)) /\ Enlarged(m).gen = map[m].gen
         /\ NodesIn(Enlarged(m).table) = NodesIn(map[m].table)
<1> DEFINE t == map[m].table
           old == GetTableSize(t)
           size == (3 * old) \div 2
           s == Nodes(t)
           wanted(i) == {n \in AllNodes : Hash(n.key, size) = i}
           kept(i) == Filter(s, wanted(i))
           u == [i \in 0..(size - 1) |-> Reverse(kept(i))]
<1>1. old \in Nat /\ old >= 2 /\ IsTable(t) /\ KeysOnce(t)
  BY DEF InOrder, IsTable
<1>2. size \in Nat /\ size >= 2
  <2> HIDE DEF old
  <2> QED
    BY <1>1
<1>3. /\ s \in Seq(AllNodes) /\ DifferentKeys(s)
      /\ \A i \in 1..Len(s) : s[i] \in NodesIn(t)
      /\ \A n \in NodesIn(t) : \E i \in 1..Len(s) : s[i] = n
  <2> HIDE DEF t
  <2> QED
    BY <1>1, NodesIs
<1> HIDE DEF t, old, size, s
<1>4. ASSUME NEW i
      PROVE  /\ kept(i) \in Seq(AllNodes) /\ DifferentKeys(kept(i))
             /\ \A x \in 1..Len(kept(i)) :
                  /\ Hash(kept(i)[x].key, size) = i
                  /\ \E y \in 1..Len(s) : kept(i)[x] = s[y]
             /\ \A y \in 1..Len(s) : Hash(s[y].key, size) = i =>
                  \E x \in 1..Len(kept(i)) : kept(i)[x] = s[y]
  <2> DEFINE w == wanted(i)
  <2>1. /\ \A n \in w : Hash(n.key, size) = i
        /\ \A y \in 1..Len(s) : Hash(s[y].key, size) = i => s[y] \in w
    BY <1>3
  <2> HIDE DEF w
  <2>2. /\ Filter(s, w) \in Seq(AllNodes) /\ DifferentKeys(Filter(s, w))
        /\ \A x \in 1..Len(Filter(s, w)) :
              /\ Filter(s, w)[x] \in w
              /\ \E y \in 1..Len(s) : Filter(s, w)[x] = s[y]
        /\ \A y \in 1..Len(s) : s[y] \in w =>
              \E x \in 1..Len(Filter(s, w)) : Filter(s, w)[x] = s[y]
    BY <1>3, FilterNodes
  <2> QED
    BY <2>1, <2>2 DEF w
<1> HIDE DEF kept
<1>5. ASSUME NEW i
      PROVE  /\ Reverse(kept(i)) \in Seq(AllNodes) /\ DifferentKeys(Reverse(kept(i)))
             /\ \A x \in 1..Len(Reverse(kept(i))) :
                  /\ Hash(Reverse(kept(i))[x].key, size) = i
                  /\ \E y \in 1..Len(s) : Reverse(kept(i))[x] = s[y]
             /\ \A y \in 1..Len(s) : Hash(s[y].key, size) = i =>
                  \E x \in 1..Len(Reverse(kept(i))) : Reverse(kept(i))[x] = s[y]
  <2> DEFINE c == kept(i)
             v == Reverse(c)
  <2>1. /\ c \in Seq(AllNodes) /\ DifferentKeys(c)
        /\ \A x \in 1..Len(c) : Hash(c[x].key, size) = i /\ \E y \in 1..Len(s) : c[x] = s[y]
        /\ \A y \in 1..Len(s) : Hash(s[y].key, size) = i => \E x \in 1..Len(c) : c[x] = s[y]
    BY <1>4
  <2> HIDE DEF c
  <2>2. /\ v \in Seq(AllNodes) /\ Len(v) = Len(c)
        /\ \A x \in 1..Len(c) : /\ Len(c) - x + 1 \in 1..Len(c)
                                /\ v[x] = c[Len(c) - x + 1]
                                /\ c[x] = v[Len(c) - x + 1]
        /\ DifferentKeys(v)
    BY <2>1, ReverseNodes
  <2> HIDE DEF v
  <2>3. ASSUME NEW x \in 1..Len(v)
        PROVE  Hash(v[x].key, size) = i /\ \E y \in 1..Len(s) : v[x] = s[y]
    <3>1. PICK z \in 1..Len(c) : v[x] = c[z]
      BY <2>2
    <3> QED
      BY <2>1, <3>1
  <2>4. ASSUME NEW y \in 1..Len(s), Hash(s[y].key, size) = i
        PROVE  \E x \in 1..Len(v) : v[x] = s[y]
    <3>1. PICK x \in 1..Len(c) : c[x] = s[y]
      BY <2>1, <2>4
    <3>2. Len(c) - x + 1 \in 1..Len(v) /\ v[Len(c) - x + 1] = s[y]
      BY <2>2, <3>1
    <3> QED
      BY <3>2
  <2> QED
    BY <2>2, <2>3, <2>4 DEF v, c
<1>6. u \in [0..(size - 1) -> Seq(AllNodes)]
  BY <1>5
<1>7. \A i \in 0..(size - 1) : u[i] = Reverse(kept(i))
  OBVIOUS
<1> HIDE DEF u
<1>8. ASSUME NEW i \in 0..(size - 1)
      PROVE  /\ DifferentKeys(u[i])
             /\ \A x \in 1..Len(u[i]) : address[u[i][x].key] % size = i
  <2>1. \A x \in 1..Len(u[i]) : Hash(u[i][x].key, size) = i
    BY <1>5, <1>7
  <2> QED
    BY <1>5, <1>7, <2>1 DEF Hash
<1>9. IsTable(u) /\ GetTableSize(u) = size /\ KeysOnce(u) /\ Placed(u, address)
  <2>1. GoodChains(u, size, address)
    BY <1>2, <1>6, <1>8 DEF GoodChains
  <2> QED
    BY <2>1, PlacedTable
<1>10. NodesIn(u) = NodesIn(t)
  <2>1. ASSUME NEW n \in NodesIn(u)
        PROVE  n \in NodesIn(t)
    <3>1. PICK i \in 0..(size - 1) : \E x \in 1..Len(u[i]) : n = u[i][x]
      BY <1>2, <1>6, ChainNodes
    <3> QED
      BY <1>3, <1>5, <1>7, <3>1
  <2>2. ASSUME NEW n \in NodesIn(t)
        PROVE  n \in NodesIn(u)
    <3>1. PICK y \in 1..Len(s) : s[y] = n
      BY <1>3
    <3>2. n.key \in Keys
      BY <1>3, <3>1, NodeIs
    <3>3. Hash(n.key, size) \in 0..(size - 1)
      BY SMTT(30), <1>2, <3>2, HashIs
    <3> DEFINE i == Hash(n.key, size)
    <3>4. PICK x \in 1..Len(Reverse(kept(i))) : Reverse(kept(i))[x] = s[y]
      BY <1>5, <3>1
    <3>5. x \in 1..Len(u[i]) /\ n = u[i][x] /\ i \in 0..(size - 1)
      BY <1>7, <3>1, <3>3, <3>4
    <3> HIDE DEF i
    <3> QED
      BY <1>2, <1>6, <3>5, ChainNodes
  <2> QED
    BY <2>1, <2>2
<1>11. Enlarged(m) = [map[m] EXCEPT !.percent = 1 + (3 * size) \div 4, !.table = u]
  BY DEF Enlarged, u, kept, s, size, old, t
<1>12. map[m] \in Records
  BY DEF InOrder
<1> DEFINE p == 1 + (3 * size) \div 4
<1>13. p \in Nat /\ u \in UNION Tables
  BY <1>2, <1>9, TableType
<1> HIDE DEF p
<1>14. /\ Enlarged(m) \in Records /\ Enlarged(m).table = u /\ Enlarged(m).gen = map[m].gen
       /\ Enlarged(m).counter = map[m].counter
  BY <1>11, <1>12, <1>13 DEF Records, p
<1>15. KeysIn(u) = KeysIn(t)
  BY <1>10 DEF KeysIn
<1> QED
  BY <1>9, <1>10, <1>14, <1>15 DEF InOrder, t

(* BaseMap::Resize keeps the nodes and the order of the table.              *)
LEMMA ResizedIs ==
  ASSUME AddressesOK, NEW m, InOrder(map[m])
  PROVE  /\ InOrder(Resized(m)) /\ Resized(m).gen = map[m].gen
         /\ NodesIn(Resized(m).table) = NodesIn(map[m].table)
  BY EnlargedIs DEF Resized

Others(t, k) == {n \in NodesIn(t) : n.key # k}

(* The keys of a table after one was put or removed.                        *)
LEMMA OthersIs ==
  ASSUME NEW t, IsTable(t), NEW k, NEW v \in Values, k \in Keys
  PROVE  {n.key : n \in Others(t, k) \cup {Node(k, v)}} = KeysIn(t) \cup {k}
         /\ {n.key : n \in Others(t, k)} = KeysIn(t) \ {k}
  BY NodeIs DEF Others, KeysIn

Replaced(q, r, i, at, n) == q = [r EXCEPT !.table[i][at] = n]
Added(q, r, i, n) == q = [r EXCEPT !.table[i] = <<n>> \o @, !.counter = @ + 1]

(* BaseMap::Put of a key that is in the map.                               *)
LEMMA PutReplaces ==
  ASSUME AddressesOK, NEW r, InOrder(r), NEW k \in Keys, NEW v \in Values,
         NEW i, i = Hash(k, GetTableSize(r.table)),
         NEW at, at = FindKey(k, r.table[i]), at # 0,
         NEW q, Replaced(q, r, i, at, Node(k, v))
  PROVE  /\ InOrder(q) /\ q.gen = r.gen
         /\ NodesIn(q.table) = Others(r.table, k) \cup {Node(k, v)}
<1> DEFINE t == r.table
           c == [t[i] EXCEPT ![at] = Node(k, v)]
           u == [t EXCEPT ![i] = c]
<1>1. IsTable(t) /\ KeysOnce(t) /\ Placed(t, address)
  BY DEF InOrder
<1>2. /\ i \in DOMAIN t /\ t[i] \in Seq(AllNodes)
      /\ at \in 1..Len(t[i]) /\ t[i][at] \in NodesIn(t) /\ t[i][at].key = k
      /\ \A n \in NodesIn(t) : n.key = k => n = t[i][at]
  BY <1>1, FoundInChain
<1>3. r \in Records /\ q = [r EXCEPT !.table = u]
  BY DEF InOrder, Replaced
<1> HIDE DEF t
<1>4. Node(k, v) \in AllNodes /\ Node(k, v).key = k
  BY NodeIs
<1>5. /\ c \in Seq(AllNodes) /\ Len(c) = Len(t[i]) /\ c[at] = Node(k, v)
      /\ \A x \in 1..Len(t[i]) : x # at => c[x] = t[i][x]
  BY <1>2, <1>4
<1> HIDE DEF c
<1>6. \A x \in 1..Len(c) : c[x].key = t[i][x].key
  BY <1>2, <1>4, <1>5
<1>7. DifferentKeys(c)
  BY <1>1, <1>2, <1>5, <1>6, ChainsOf DEF DifferentKeys
<1>8. \A x \in 1..Len(c) : address[c[x].key] % GetTableSize(t) = i
  BY <1>1, <1>2, <1>5, <1>6 DEF Placed, InTable
<1>9. /\ IsTable(u) /\ GetTableSize(u) = GetTableSize(t)
      /\ KeysOnce(u) /\ Placed(u, address)
      /\ \A n : n \in NodesIn(u) <=>
                 (n \in NodesIn(t) /\ ~InChain(n, t[i])) \/ InChain(n, c)
  <2>1. Belongs(c, t, address, i)
    BY <1>5, <1>7, <1>8 DEF Belongs
  <2>2. ChainReplaced(u, t, i, c)
    BY DEF ChainReplaced
  <2> HIDE DEF u
  <2> QED
    BY <1>1, <1>2, <2>1, <2>2, ChangeChain
<1> HIDE DEF u
<1>10. NodesIn(u) = Others(t, k) \cup {Node(k, v)}
  <2>1. \A x \in 1..Len(t[i]) : t[i][x] \in NodesIn(t) /\ (x # at => t[i][x].key # k)
    <3>1. \A x \in 1..Len(t[i]) : t[i][x] \in NodesIn(t)
      BY <1>1, <1>2, NodesInIs DEF InTable
    <3>2. DifferentKeys(t[i])
      BY <1>1, <1>2, ChainsOf
    <3> QED
      BY <1>2, <3>1, <3>2 DEF DifferentKeys
  <2>2. ASSUME NEW n \in Others(t, k)
        PROVE  n \in NodesIn(u)
    <3>1. n \in NodesIn(t) /\ n.key # k
      BY DEF Others
    <3>2. CASE \E x \in 1..Len(t[i]) : n = t[i][x]
      <4>1. PICK x \in 1..Len(t[i]) : n = t[i][x]
        BY <3>2
      <4>2. x # at
        BY <1>2, <3>1, <4>1
      <4>3. x \in 1..Len(c) /\ n = c[x]
        BY <1>5, <4>1, <4>2
      <4> QED
        BY <1>9, <4>3 DEF InChain
    <3> QED
      BY <1>9, <3>1, <3>2 DEF InChain
  <2>3. Node(k, v) \in NodesIn(u)
    BY <1>2, <1>5, <1>9 DEF InChain
  <2>4. ASSUME NEW n \in NodesIn(u)
        PROVE  n \in Others(t, k) \cup {Node(k, v)}
    <3>1. CASE n \in NodesIn(t) /\ ~InChain(n, t[i])
      BY <1>2, <3>1 DEF Others, InChain
    <3>2. CASE InChain(n, c)
      BY <1>5, <2>1, <3>2 DEF Others, InChain
    <3> QED
      BY <1>9, <3>1, <3>2
  <2> QED
    BY <2>2, <2>3, <2>4
<1>11. KeysIn(u) = KeysIn(t)
  <2>1. k \in KeysIn(t)
    BY <1>2 DEF KeysIn
  <2> QED
    BY <1>1, <1>10, <2>1, OthersIs DEF KeysIn
<1>12. q \in Records /\ q.table = u /\ q.gen = r.gen /\ q.counter = r.counter
  <2>1. u \in UNION Tables
    BY <1>9, TableType
  <2> QED
    BY <1>3, <2>1 DEF Records
<1> QED
  BY <1>9, <1>10, <1>11, <1>12 DEF InOrder, t

(* BaseMap::Put of a key that is not.                                      *)
LEMMA PutAdds ==
  ASSUME AddressesOK, NEW r, InOrder(r), NEW k \in Keys, NEW v \in Values,
         NEW i, i = Hash(k, GetTableSize(r.table)), FindKey(k, r.table[i]) = 0,
         NEW q, Added(q, r, i, Node(k, v))
  PROVE  /\ InOrder(q) /\ q.gen = r.gen
         /\ NodesIn(q.table) = Others(r.table, k) \cup {Node(k, v)}
<1> DEFINE t == r.table
           c == <<Node(k, v)>> \o t[i]
           u == [t EXCEPT ![i] = c]
<1>1. IsTable(t) /\ KeysOnce(t) /\ Placed(t, address)
  BY DEF InOrder
<1>2. /\ i \in DOMAIN t /\ t[i] \in Seq(AllNodes)
      /\ \A n \in NodesIn(t) : n.key # k
  BY <1>1, FoundInChain
<1>3. r \in Records /\ q = [r EXCEPT !.table = u, !.counter = r.counter + 1]
  BY DEF InOrder, Added
<1> HIDE DEF t
<1>4. Node(k, v) \in AllNodes /\ Node(k, v).key = k
  BY NodeIs
<1>5. /\ c \in Seq(AllNodes) /\ Len(c) = Len(t[i]) + 1 /\ c[1] = Node(k, v)
      /\ \A x \in 1..Len(t[i]) : c[x + 1] = t[i][x]
  BY <1>2, <1>4
<1> HIDE DEF c
<1>6. \A x \in 1..Len(t[i]) : t[i][x] \in NodesIn(t) /\ InTable(t, i, x)
  BY <1>1, <1>2, NodesInIs DEF InTable
<1>7. ASSUME NEW x \in 1..Len(c)
      PROVE  x = 1 \/ (x - 1 \in 1..Len(t[i]) /\ c[x] = t[i][x - 1])
  <2>1. x = 1 \/ x - 1 \in 1..Len(t[i])
    BY <1>2, <1>5
  <2>2. (x - 1) + 1 = x
    OBVIOUS
  <2> QED
    BY <1>5, <2>1, <2>2
<1>8. DifferentKeys(c)
  <2> SUFFICES ASSUME NEW x \in 1..Len(c), NEW y \in 1..Len(c), c[x].key = c[y].key
               PROVE  x = y
    BY DEF DifferentKeys
  <2>1. DifferentKeys(t[i])
    BY <1>1, <1>2, ChainsOf
  <2>2. x # 1 => c[x].key # k
    BY <1>2, <1>6, <1>7
  <2>3. y # 1 => c[y].key # k
    BY <1>2, <1>6, <1>7
  <2>4. CASE x # 1 /\ y # 1
    <3>1. /\ x - 1 \in 1..Len(t[i]) /\ c[x] = t[i][x - 1]
          /\ y - 1 \in 1..Len(t[i]) /\ c[y] = t[i][y - 1]
      BY <1>7, <2>4
    <3>2. x - 1 = y - 1
      BY <2>1, <3>1 DEF DifferentKeys
    <3> QED
      BY <3>2
  <2> QED
    BY <1>4, <1>5, <2>2, <2>3, <2>4
<1>9. ASSUME NEW x \in 1..Len(c)
      PROVE  address[c[x].key] % GetTableSize(t) = i
  <2>1. CASE x = 1
    BY <1>4, <1>5, <2>1 DEF Hash, t
  <2>2. CASE x # 1
    <3>1. InTable(t, i, x - 1) /\ c[x] = t[i][x - 1]
      BY <1>6, <1>7, <2>2
    <3> QED
      BY <1>1, <3>1 DEF Placed
  <2> QED
    BY <2>1, <2>2
<1>10. /\ IsTable(u) /\ GetTableSize(u) = GetTableSize(t)
       /\ KeysOnce(u) /\ Placed(u, address)
       /\ \A n : n \in NodesIn(u) <=>
                  (n \in NodesIn(t) /\ ~InChain(n, t[i])) \/ InChain(n, c)
  <2>1. Belongs(c, t, address, i)
    BY <1>5, <1>8, <1>9 DEF Belongs
  <2>2. ChainReplaced(u, t, i, c)
    BY DEF ChainReplaced
  <2> HIDE DEF u
  <2> QED
    BY <1>1, <1>2, <2>1, <2>2, ChangeChain
<1> HIDE DEF u
<1>11. Others(t, k) = NodesIn(t)
  BY <1>2 DEF Others
<1>12. ASSUME NEW n
       PROVE  InChain(n, c) <=> n = Node(k, v) \/ InChain(n, t[i])
  <2>1. ASSUME NEW x \in 1..Len(t[i])
        PROVE  x + 1 \in 1..Len(c) /\ c[x + 1] = t[i][x]
    BY <1>2, <1>5
  <2>2. 1 \in 1..Len(c)
    BY <1>2, <1>5
  <2>3. InChain(n, c) => n = Node(k, v) \/ InChain(n, t[i])
    BY <1>5, <1>7 DEF InChain
  <2>4. n = Node(k, v) => InChain(n, c)
    BY <1>5, <2>2 DEF InChain
  <2>5. InChain(n, t[i]) => InChain(n, c)
    BY <2>1 DEF InChain
  <2> QED
    BY <2>3, <2>4, <2>5
<1>13. NodesIn(u) = Others(t, k) \cup {Node(k, v)}
  <2>1. ASSUME NEW n
        PROVE  n \in NodesIn(u) <=> n \in NodesIn(t) \/ n = Node(k, v)
    <3>1. InChain(n, t[i]) => n \in NodesIn(t)
      BY <1>6 DEF InChain
    <3> QED
      BY <1>10, <1>12, <3>1
  <2> QED
    BY <1>11, <2>1
<1>14. KeysIn(u) = KeysIn(t) \cup {k} /\ k \notin KeysIn(t)
  <2>1. KeysIn(u) = {n.key : n \in Others(t, k) \cup {Node(k, v)}}
    BY <1>13 DEF KeysIn
  <2> QED
    BY <1>1, <1>2, <2>1, OthersIs DEF KeysIn
<1>15. r.counter + 1 = Cardinality(KeysIn(u))
  <2>1. IsFiniteSet(KeysIn(t)) /\ r.counter = Cardinality(KeysIn(t))
    BY <1>1, CountNodes DEF InOrder, t
  <2> QED
    BY <1>14, <2>1, FS_AddElement
<1>16. q \in Records /\ q.table = u /\ q.gen = r.gen /\ q.counter = r.counter + 1
  <2>1. u \in UNION Tables
    BY <1>10, TableType
  <2>2. r.counter + 1 \in Nat
    BY <1>3 DEF Records
  <2> QED
    BY <1>3, <2>1, <2>2 DEF Records
<1> QED
  BY <1>10, <1>13, <1>15, <1>16 DEF InOrder, t

Removed(q, r, i, at) == q = [r EXCEPT !.table[i] = RemoveAt(@, at), !.counter = @ - 1]

(* BaseMap::Remove.                                                        *)
LEMMA RemoveTakes ==
  ASSUME AddressesOK, NEW r, InOrder(r), NEW k \in Keys,
         NEW i, i = Hash(k, GetTableSize(r.table)),
         NEW at, at = FindKey(k, r.table[i]), at # 0,
         NEW q, Removed(q, r, i, at)
  PROVE  InOrder(q) /\ q.gen = r.gen /\ NodesIn(q.table) = Others(r.table, k)
<1> DEFINE t == r.table
           s == t[i]
           c == RemoveAt(s, at)
           u == [t EXCEPT ![i] = c]
<1>1. IsTable(t) /\ KeysOnce(t) /\ Placed(t, address)
  BY DEF InOrder
<1>2. /\ i \in DOMAIN t /\ s \in Seq(AllNodes)
      /\ at \in 1..Len(s) /\ s[at] \in NodesIn(t) /\ s[at].key = k
      /\ \A n \in NodesIn(t) : n.key = k => n = s[at]
  BY <1>1, FoundInChain
<1>3. r \in Records /\ q = [r EXCEPT !.table = u, !.counter = r.counter - 1]
  BY DEF InOrder, Removed
<1> HIDE DEF t
<1>4. DifferentKeys(s)
  BY <1>1, <1>2, ChainsOf
<1>5. /\ c \in Seq(AllNodes) /\ Len(c) = Len(s) - 1
      /\ \A x \in 1..(Len(s) - 1) : c[x] = IF x < at THEN s[x] ELSE s[x + 1]
  <2> HIDE DEF s
  <2> QED
    BY <1>2, RemoveAtIs
<1> HIDE DEF c, s
<1> DEFINE from(x) == IF x < at THEN x ELSE x + 1
<1>6. \A x \in 1..Len(c) : from(x) \in 1..Len(s) /\ from(x) # at /\ c[x] = s[from(x)]
  BY <1>2, <1>5
<1>7. \A x, y \in 1..Len(c) : from(x) = from(y) => x = y
  BY <1>2, <1>5
<1>8. \A z \in 1..Len(s) : z # at => \E x \in 1..Len(c) : from(x) = z
  <2> SUFFICES ASSUME NEW z \in 1..Len(s), z # at
               PROVE  \E x \in 1..Len(c) : from(x) = z
    OBVIOUS
  <2>1. CASE z < at
    <3>1. z \in 1..Len(c) /\ from(z) = z
      BY <1>2, <1>5, <2>1
    <3> QED
      BY <3>1
  <2>2. CASE z > at
    <3>1. z - 1 \in 1..Len(c) /\ from(z - 1) = z
      BY <1>2, <1>5, <2>2
    <3> QED
      BY <3>1
  <2> QED
    BY <1>2, <2>1, <2>2
<1> HIDE DEF from
<1>9. DifferentKeys(c)
  BY SMTT(30), <1>4, <1>6, <1>7 DEF DifferentKeys
<1>10. \A x \in 1..Len(s) : InTable(t, i, x)
  BY <1>2 DEF InTable, s
<1>11. \A x \in 1..Len(c) : address[c[x].key] % GetTableSize(t) = i
  BY <1>1, <1>6, <1>10 DEF Placed, s
<1>12. /\ IsTable(u) /\ GetTableSize(u) = GetTableSize(t)
       /\ KeysOnce(u) /\ Placed(u, address)
       /\ \A n : n \in NodesIn(u) <=>
                  (n \in NodesIn(t) /\ ~InChain(n, t[i])) \/ InChain(n, c)
  <2>1. Belongs(c, t, address, i)
    BY <1>5, <1>9, <1>11 DEF Belongs
  <2>2. ChainReplaced(u, t, i, c)
    BY DEF ChainReplaced
  <2> HIDE DEF u
  <2> QED
    BY <1>1, <1>2, <2>1, <2>2, ChangeChain
<1> HIDE DEF u
<1>13. ASSUME NEW n
       PROVE  InChain(n, c) <=> InChain(n, s) /\ n # s[at]
  <2>1. ASSUME InChain(n, c)
        PROVE  InChain(n, s) /\ n # s[at]
    <3>1. PICK x \in 1..Len(c) : n = c[x]
      BY <2>1 DEF InChain
    <3>2. from(x) \in 1..Len(s) /\ from(x) # at /\ n = s[from(x)]
      BY <1>6, <3>1
    <3>3. n # s[at]
      BY <1>2, <1>4, <3>2 DEF DifferentKeys
    <3> QED
      BY <3>2, <3>3 DEF InChain
  <2>2. ASSUME InChain(n, s), n # s[at]
        PROVE  InChain(n, c)
    <3>1. PICK z \in 1..Len(s) : n = s[z]
      BY <2>2 DEF InChain
    <3>2. PICK x \in 1..Len(c) : from(x) = z
      BY <1>8, <2>2, <3>1
    <3> QED
      BY <1>6, <3>1, <3>2 DEF InChain
  <2> QED
    BY <2>1, <2>2
<1>14. ASSUME NEW n
       PROVE  n \in NodesIn(u) <=> n \in Others(t, k)
  <2>1. InChain(n, s) => n \in NodesIn(t)
    BY <1>1, <1>10, NodesInIs DEF InChain, s
  <2>2. n \in NodesIn(t) => (n.key # k <=> n # s[at])
    BY <1>2
  <2>3. InChain(s[at], s)
    BY <1>2 DEF InChain
  <2>4. n \in NodesIn(u) <=> (n \in NodesIn(t) /\ ~InChain(n, s)) \/ InChain(n, c)
    BY <1>12 DEF s
  <2> QED
    BY <1>13, <2>1, <2>2, <2>3, <2>4 DEF Others
<1>15. NodesIn(u) = Others(t, k)
  BY <1>14
<1>16. KeysIn(u) = KeysIn(t) \ {k} /\ k \in KeysIn(t)
  <2>1. KeysIn(u) = {n.key : n \in Others(t, k)}
    BY <1>15 DEF KeysIn
  <2>2. k \in KeysIn(t)
    BY <1>2 DEF KeysIn
  <2>3. {n.key : n \in Others(t, k)} = KeysIn(t) \ {k}
    BY DEF Others, KeysIn
  <2> QED
    BY <2>1, <2>2, <2>3
<1>17. /\ r.counter - 1 = Cardinality(KeysIn(u))
       /\ r.counter - 1 \in Nat
  <2>1. IsFiniteSet(KeysIn(t)) /\ r.counter = Cardinality(KeysIn(t))
    BY <1>1, CountNodes DEF InOrder, t
  <2>2. /\ IsFiniteSet(KeysIn(u))
        /\ Cardinality(KeysIn(u)) = Cardinality(KeysIn(t)) - 1
    BY <1>16, <2>1, FS_RemoveElement
  <2> QED
    BY <2>1, <2>2, FS_CardinalityType
<1>18. q \in Records /\ q.table = u /\ q.gen = r.gen /\ q.counter = r.counter - 1
  <2>1. u \in UNION Tables
    BY <1>12, TableType
  <2> QED
    BY <1>3, <1>17, <2>1 DEF Records
<1> QED
  BY <1>12, <1>15, <1>17, <1>18 DEF InOrder, t

(* BaseMap::New and Clear.                                                 *)
LEMMA EmptyInOrder ==
  ASSUME NEW n \in Nat, n >= 2, NEW r \in Records,
         r.counter = 0, r.table = EmptyTable(n)
  PROVE  InOrder(r) /\ NodesIn(r.table) = {}
<1> DEFINE t == EmptyTable(n)
<1>1. IsTable(t) /\ \A i, x : ~InTable(t, i, x)
  BY EmptyTableIs
<1> HIDE DEF t
<1>2. NodesIn(t) = {} /\ KeysOnce(t) /\ Placed(t, address)
  BY <1>1 DEF NodesIn, KeysOnce, Placed
<1>3. KeysIn(t) = {}
  BY <1>2 DEF KeysIn
<1> QED
  BY <1>1, <1>2, <1>3, FS_EmptySet DEF InOrder, t

(* BaseMap::New makes a map without nodes.                                  *)
LEMMA NewMapIs ==
  ASSUME NEW size \in Nat
  PROVE  InOrder(NewMap(size)) /\ NodesIn(NewMap(size).table) = {} /\ NewMap(size).gen = 0
<1> DEFINE n == IF size < 2 THEN 2 ELSE size
           p == (3 * n) \div 4
<1>1. n \in Nat /\ n >= 2
  OBVIOUS
<1> HIDE DEF n
<1>2. p \in Nat
  BY <1>1
<1>3. NewMap(size) = [counter |-> 0, percent |-> p, table |-> EmptyTable(n), gen |-> 0]
  BY DEF NewMap, n
<1>4. EmptyTable(n) \in UNION Tables
  BY <1>1, EmptyTableIs, TableType
<1> HIDE DEF p
<1>5. NewMap(size) \in Records
  BY <1>2, <1>3, <1>4, ConstantsAssumption DEF Records
<1> QED
  BY <1>1, <1>3, <1>5, EmptyInOrder

(* BaseMap::Clear makes a map without nodes.                                *)
LEMMA ClearIs ==
  ASSUME NEW r, InOrder(r),
         NEW q, q = [r EXCEPT !.counter = 0, !.table = EmptyTable(GetTableSize(r.table))]
  PROVE  InOrder(q) /\ NodesIn(q.table) = {} /\ q.gen = r.gen
<1> DEFINE n == GetTableSize(r.table)
<1>1. n \in Nat /\ n >= 2 /\ r \in Records
  BY DEF InOrder, IsTable
<1> HIDE DEF n
<1>2. EmptyTable(n) \in UNION Tables
  BY <1>1, EmptyTableIs, TableType
<1>3. q \in Records /\ q.counter = 0 /\ q.table = EmptyTable(n) /\ q.gen = r.gen
  BY <1>1, <1>2 DEF Records, n
<1> QED
  BY <1>1, <1>3, EmptyInOrder

(* A partial function is applied to all nodes.                             *)
Kept1(f) == {n \in AllNodes : f[n.key] # None}
Applied(f, s) ==
  LET kept == Filter(s, Kept1(f))
  IN  [j \in DOMAIN kept |-> Node(kept[j].key, f[kept[j].key])]
Gone(f, t) == Filter(Nodes(t), {n \in AllNodes : f[n.key] = None})
AppliedTo(q, r, f) ==
  q = [r EXCEPT !.counter = @ - Len(Gone(f, r.table)),
                !.table = [i \in DOMAIN @ |-> Applied(f, @[i])]]

(* PartialMap on a chain keeps the keys that the function is defined for,   *)
(* with the values that it returns.                                         *)
LEMMA AppliedIs ==
  ASSUME NEW f \in [Keys -> Values \cup {None}], NEW s \in Seq(AllNodes), DifferentKeys(s)
  PROVE  /\ Applied(f, s) \in Seq(AllNodes) /\ DifferentKeys(Applied(f, s))
         /\ \A x \in 1..Len(Applied(f, s)) : \E y \in 1..Len(s) :
              /\ f[s[y].key] # None
              /\ Applied(f, s)[x] = Node(s[y].key, f[s[y].key])
         /\ \A y \in 1..Len(s) : f[s[y].key] # None =>
              \E x \in 1..Len(Applied(f, s)) :
                Applied(f, s)[x] = Node(s[y].key, f[s[y].key])
<1> DEFINE w == Kept1(f)
           c == Filter(s, w)
           d == Applied(f, s)
<1>1. \A n \in AllNodes : n \in w <=> f[n.key] # None
  BY DEF Kept1
<1> HIDE DEF w
<1>2. /\ c \in Seq(AllNodes) /\ DifferentKeys(c)
      /\ \A i \in 1..Len(c) : c[i] \in w /\ \E j \in 1..Len(s) : c[i] = s[j]
      /\ \A j \in 1..Len(s) : s[j] \in w => \E i \in 1..Len(c) : c[i] = s[j]
  BY FilterNodes
<1>3. d = [j \in DOMAIN c |-> Node(c[j].key, f[c[j].key])]
  BY DEF Applied, w
<1> HIDE DEF c, d
<1>4. \A j \in 1..Len(c) : /\ c[j].key \in Keys /\ f[c[j].key] \in Values
                           /\ f[c[j].key] # None
                           /\ Node(c[j].key, f[c[j].key]) \in AllNodes
                           /\ Node(c[j].key, f[c[j].key]).key = c[j].key
  <2> TAKE j \in 1..Len(c)
  <2>1. c[j] \in AllNodes /\ c[j].key \in Keys /\ f[c[j].key] # None
    BY <1>1, <1>2, NodeIs
  <2>2. f[c[j].key] \in Values
    BY <2>1
  <2> QED
    BY <2>1, <2>2, NodeIs
<1>5. d \in Seq(AllNodes) /\ Len(d) = Len(c)
  <2> DEFINE l == Len(c)
             at(j) == Node(c[j].key, f[c[j].key])
  <2>1. l \in Nat /\ DOMAIN c = 1..l
    BY <1>2
  <2>2. \A j \in 1..l : at(j) \in AllNodes
    BY <1>4
  <2>3. d = [j \in 1..l |-> at(j)]
    BY <1>3, <2>1
  <2> HIDE DEF l, at
  <2>4. d \in [1..l -> AllNodes]
    BY <2>2, <2>3
  <2>5. d \in Seq(AllNodes) /\ Len(d) = l
    BY <2>1, <2>4
  <2> QED
    BY <2>5 DEF l
<1>6. \A j \in 1..Len(c) : d[j] = Node(c[j].key, f[c[j].key])
  BY <1>2, <1>3
<1>7. DifferentKeys(d)
  BY <1>2, <1>4, <1>5, <1>6 DEF DifferentKeys
<1>8. ASSUME NEW x \in 1..Len(d)
      PROVE  \E y \in 1..Len(s) : f[s[y].key] # None /\ d[x] = Node(s[y].key, f[s[y].key])
  <2>1. PICK y \in 1..Len(s) : c[x] = s[y]
    BY <1>2, <1>5
  <2> QED
    BY <1>4, <1>5, <1>6, <2>1
<1>9. ASSUME NEW y \in 1..Len(s), f[s[y].key] # None
      PROVE  \E x \in 1..Len(d) : d[x] = Node(s[y].key, f[s[y].key])
  <2>1. s[y] \in w
    BY <1>1, <1>9
  <2>2. PICK x \in 1..Len(c) : c[x] = s[y]
    BY <1>2, <2>1
  <2> QED
    BY <1>5, <1>6, <2>2
<1> QED
  BY <1>5, <1>7, <1>8, <1>9 DEF d

(* BaseMap::PartialMap on a map does so with all its nodes.                 *)
LEMMA PartialMapIs ==
  ASSUME NEW f \in [Keys -> Values \cup {None}], NEW r, InOrder(r),
         NEW q, AppliedTo(q, r, f)
  PROVE  /\ InOrder(q) /\ q.gen = r.gen
         /\ \A n : n \in NodesIn(q.table) <=>
                     \E o \in NodesIn(r.table) :
                       f[o.key] # None /\ n = Node(o.key, f[o.key])
<1> DEFINE t == r.table
           size == GetTableSize(t)
           u == [i \in DOMAIN t |-> Applied(f, t[i])]
           ns == Nodes(t)
           gone == Gone(f, t)
<1>1. /\ IsTable(t) /\ KeysOnce(t) /\ Placed(t, address) /\ r \in Records
      /\ r.counter = Cardinality(KeysIn(t))
  BY DEF InOrder
<1>2. q = [r EXCEPT !.counter = r.counter - Len(gone), !.table = u]
  BY DEF AppliedTo
<1>3. size \in Nat /\ size >= 2 /\ t \in [0..(size - 1) -> Seq(AllNodes)]
  BY <1>1 DEF IsTable
<1> HIDE DEF t, size
<1>4. ASSUME NEW i \in 0..(size - 1)
      PROVE  /\ t[i] \in Seq(AllNodes) /\ DifferentKeys(t[i]) /\ i \in DOMAIN t
             /\ u[i] = Applied(f, t[i])
             /\ u[i] \in Seq(AllNodes) /\ DifferentKeys(u[i])
             /\ \A x \in 1..Len(u[i]) : \E y \in 1..Len(t[i]) :
                  f[t[i][y].key] # None /\ u[i][x] = Node(t[i][y].key, f[t[i][y].key])
             /\ \A y \in 1..Len(t[i]) : f[t[i][y].key] # None =>
                  \E x \in 1..Len(u[i]) : u[i][x] = Node(t[i][y].key, f[t[i][y].key])
  <2>1. t[i] \in Seq(AllNodes) /\ DifferentKeys(t[i]) /\ i \in DOMAIN t
    BY <1>1, <1>3, ChainsOf
  <2>2. u[i] = Applied(f, t[i])
    BY <2>1
  <2> HIDE DEF u
  <2> QED
    BY <2>1, <2>2, AppliedIs
<1>5. u \in [0..(size - 1) -> Seq(AllNodes)]
  BY <1>3, <1>4
<1> HIDE DEF u
<1>6. ASSUME NEW i \in 0..(size - 1), NEW y \in 1..Len(t[i])
      PROVE  /\ InTable(t, i, y) /\ t[i][y] \in NodesIn(t) /\ t[i][y].key \in Keys
             /\ address[t[i][y].key] % size = i
  <2>1. InTable(t, i, y)
    BY <1>4 DEF InTable
  <2> QED
    BY <1>1, <2>1, InTableIs DEF Placed, size
<1>7. ASSUME NEW n \in AllNodes, f[n.key] # None
      PROVE  Node(n.key, f[n.key]) \in AllNodes /\ Node(n.key, f[n.key]).key = n.key
  BY <1>7, NodeIs
<1>8. GoodChains(u, size, address)
  <2>1. ASSUME NEW i \in 0..(size - 1), NEW x \in 1..Len(u[i])
        PROVE  address[u[i][x].key] % size = i
    <3>1. PICK y \in 1..Len(t[i]) :
            f[t[i][y].key] # None /\ u[i][x] = Node(t[i][y].key, f[t[i][y].key])
      BY <1>4
    <3>2. t[i][y] \in AllNodes
      BY <1>4
    <3> QED
      BY <1>6, <1>7, <3>1, <3>2
  <2> QED
    BY <1>3, <1>4, <1>5, <2>1 DEF GoodChains
<1>9. IsTable(u) /\ KeysOnce(u) /\ Placed(u, address)
  BY <1>8, PlacedTable
<1>10. ASSUME NEW n
       PROVE  n \in NodesIn(u) <=> \E o \in NodesIn(t) : f[o.key] # None /\ n = Node(o.key, f[o.key])
  <2>1. ASSUME n \in NodesIn(u)
        PROVE  \E o \in NodesIn(t) : f[o.key] # None /\ n = Node(o.key, f[o.key])
    <3>1. PICK i \in 0..(size - 1) : \E x \in 1..Len(u[i]) : n = u[i][x]
      BY <1>3, <1>5, <2>1, ChainNodes
    <3>2. PICK y \in 1..Len(t[i]) : f[t[i][y].key] # None /\ n = Node(t[i][y].key, f[t[i][y].key])
      BY <1>4, <3>1
    <3> QED
      BY <1>6, <3>2
  <2>2. ASSUME NEW o \in NodesIn(t), f[o.key] # None, n = Node(o.key, f[o.key])
        PROVE  n \in NodesIn(u)
    <3>1. PICK i, y : InTable(t, i, y) /\ o = t[i][y]
      BY DEF NodesIn
    <3>2. i \in 0..(size - 1) /\ y \in 1..Len(t[i])
      BY <1>3, <3>1 DEF InTable
    <3>3. PICK x \in 1..Len(u[i]) : u[i][x] = n
      BY <1>4, <2>2, <3>1, <3>2
    <3> QED
      BY <1>3, <1>5, <3>2, <3>3, ChainNodes
  <2> QED
    BY <2>1, <2>2
<1>11. KeysIn(u) = {k \in KeysIn(t) : f[k] # None}
  <2>1. \A o \in NodesIn(t) : o \in AllNodes
    BY DEF NodesIn
  <2>2. ASSUME NEW k
        PROVE  k \in KeysIn(u) <=> k \in KeysIn(t) /\ f[k] # None
    <3>1. ASSUME k \in KeysIn(u)
          PROVE  k \in KeysIn(t) /\ f[k] # None
      <4>1. PICK n \in NodesIn(u) : k = n.key
        BY <3>1 DEF KeysIn
      <4>2. PICK o \in NodesIn(t) : f[o.key] # None /\ n = Node(o.key, f[o.key])
        BY <1>10
      <4> QED
        BY <1>7, <2>1, <4>1, <4>2 DEF KeysIn
    <3>2. ASSUME k \in KeysIn(t), f[k] # None
          PROVE  k \in KeysIn(u)
      <4>1. PICK o \in NodesIn(t) : k = o.key
        BY <3>2 DEF KeysIn
      <4>2. Node(k, f[k]) \in NodesIn(u) /\ Node(k, f[k]).key = k
        BY <1>7, <1>10, <2>1, <3>2, <4>1
      <4> QED
        BY <4>2 DEF KeysIn
    <3> QED
      BY <3>1, <3>2
  <2> QED
    BY <2>2
<1>12. /\ IsFiniteSet(KeysIn(t)) /\ KeysOf(ns) = KeysIn(t)
       /\ ns \in Seq(AllNodes) /\ DifferentKeys(ns)
  BY <1>1, CountNodes, NodesIs
<1> DEFINE lost == {k \in KeysIn(t) : f[k] = None}
<1>13. Cardinality(lost) = Len(gone)
  <2> DEFINE w == {n \in AllNodes : f[n.key] = None}
  <2>1. gone = Filter(ns, w)
    BY DEF Gone
  <2>2. \A n \in AllNodes : n \in w <=> f[n.key] = None
    OBVIOUS
  <2> HIDE DEF w, gone, ns
  <2>3. /\ gone \in Seq(AllNodes) /\ DifferentKeys(gone)
        /\ \A i \in 1..Len(gone) : gone[i] \in w /\ \E j \in 1..Len(ns) : gone[i] = ns[j]
        /\ \A j \in 1..Len(ns) : ns[j] \in w => \E i \in 1..Len(gone) : gone[i] = ns[j]
    BY <1>12, <2>1, FilterNodes
  <2>4. \A i \in 1..Len(gone) : gone[i].key \in lost
    BY <1>12, <2>2, <2>3 DEF KeysOf
  <2>5. ASSUME NEW k \in lost
        PROVE  \E i \in 1..Len(gone) : gone[i].key = k
    <3>1. PICK j \in 1..Len(ns) : ns[j].key = k
      BY <1>12 DEF KeysOf
    <3>2. ns[j] \in w
      BY <1>12, <2>2, <3>1
    <3> QED
      BY <2>3, <3>1, <3>2
  <2>6. KeysOf(gone) = lost
    BY <2>4, <2>5 DEF KeysOf
  <2> QED
    BY <2>3, <2>6, CountKeys
<1> HIDE DEF ns, gone
<1>14. r.counter - Len(gone) = Cardinality(KeysIn(u)) /\ IsFiniteSet(KeysIn(u))
  <2>1. KeysIn(u) = KeysIn(t) \ lost /\ KeysIn(t) \cap lost = lost
    BY <1>11
  <2> HIDE DEF lost
  <2>2. /\ IsFiniteSet(KeysIn(t) \ lost)
        /\ Cardinality(KeysIn(t) \ lost) = Cardinality(KeysIn(t)) - Cardinality(KeysIn(t) \cap lost)
    BY <1>12, FS_Difference
  <2> QED
    BY <1>1, <1>13, <2>1, <2>2
<1>15. r.counter - Len(gone) \in Nat
  BY <1>14, FS_CardinalityType
<1> DEFINE count == r.counter - Len(gone)
<1>16. count \in Nat /\ count = Cardinality(KeysIn(u)) /\ q = [r EXCEPT !.counter = count, !.table = u]
  BY <1>2, <1>14, <1>15
<1> HIDE DEF count
<1>17. q \in Records /\ q.table = u /\ q.gen = r.gen /\ q.counter = count
  <2>1. u \in UNION Tables
    BY <1>9, TableType
  <2> QED
    BY <1>1, <1>16, <2>1 DEF Records
<1> QED
  BY <1>9, <1>10, <1>16, <1>17 DEF InOrder, t

-----------------------------------------------------------------------------
(***************************************************************************)
(* Map::Rehash: no node is lost or doubled, and at its end every node is   *)
(* where its key is looked for from now on.                                *)
(***************************************************************************)

(* A chain after the nodes that have been moved to it.                     *)
LEMMA JoinedIs ==
  ASSUME NEW s \in Seq(AllNodes), NEW c \in Seq(AllNodes),
         DifferentKeys(s), DifferentKeys(c),
         \A x \in 1..Len(s), y \in 1..Len(c) : s[x].key # c[y].key
  PROVE  /\ Reverse(s) \o c \in Seq(AllNodes) /\ DifferentKeys(Reverse(s) \o c)
         /\ \A n : InChain(n, Reverse(s) \o c) <=> InChain(n, s) \/ InChain(n, c)
<1> DEFINE r == Reverse(s)
           j == r \o c
           l == Len(s)
           m == Len(c)
<1>1. /\ r \in Seq(AllNodes) /\ Len(r) = l /\ DifferentKeys(r)
      /\ \A i \in 1..l : /\ l - i + 1 \in 1..l
                         /\ r[i] = s[l - i + 1]
                         /\ s[i] = r[l - i + 1]
  BY ReverseNodes
<1> HIDE DEF r
<1>2. /\ l \in Nat /\ m \in Nat
      /\ j \in Seq(AllNodes) /\ Len(j) = l + m
      /\ \A x \in 1..l : j[x] = r[x] /\ x \in 1..Len(j)
      /\ \A y \in 1..m : j[l + y] = c[y] /\ l + y \in 1..Len(j)
  <2>1. l \in Nat /\ m \in Nat
    OBVIOUS
  <2>5. r \in Seq(AllNodes) /\ Len(r) = l
    BY <1>1
  <2>6. j \in Seq(AllNodes)
    BY <2>5
  <2>7. Len(j) = Len(r) + Len(c)
    BY <2>5, JoinedLength
  <2>2. j \in Seq(AllNodes) /\ Len(j) = l + m
    BY <2>5, <2>6, <2>7
  <2>3. ASSUME NEW x \in 1..l
        PROVE  j[x] = r[x] /\ x \in 1..Len(j)
    BY <1>1
  <2>4. ASSUME NEW y \in 1..m
        PROVE  j[l + y] = c[y] /\ l + y \in 1..Len(j)
    BY <1>1
  <2> HIDE DEF j, l, m
  <2> QED
    BY <2>1, <2>2, <2>3, <2>4
<1> HIDE DEF j, l, m
<1>3. ASSUME NEW x \in 1..Len(j)
      PROVE  x \in 1..l \/ (x - l \in 1..m /\ l + (x - l) = x)
  BY <1>2
<1>4. ASSUME NEW x \in 1..l, NEW y \in 1..m
      PROVE  r[x].key # c[y].key
  <2>1. l - x + 1 \in 1..l /\ r[x] = s[l - x + 1]
    BY <1>1
  <2>2. s[l - x + 1].key # c[y].key
    BY <2>1 DEF l, m
  <2> QED
    BY <2>1, <2>2
<1>5. ASSUME NEW x \in 1..Len(j), NEW y \in 1..Len(j), j[x].key = j[y].key
      PROVE  x = y
  <2>1. CASE x \in 1..l /\ y \in 1..l
    BY <1>1, <1>2, <1>5, <2>1 DEF DifferentKeys
  <2>2. CASE x \in 1..l /\ y - l \in 1..m /\ l + (y - l) = y
    <3>1. j[x] = r[x] /\ j[y] = c[y - l]
      BY <1>2, <2>2
    <3> QED
      BY <1>4, <1>5, <2>2, <3>1
  <2>3. CASE y \in 1..l /\ x - l \in 1..m /\ l + (x - l) = x
    <3>1. j[y] = r[y] /\ j[x] = c[x - l]
      BY <1>2, <2>3
    <3> QED
      BY <1>4, <1>5, <2>3, <3>1
  <2>4. CASE /\ x - l \in 1..m /\ l + (x - l) = x
             /\ y - l \in 1..m /\ l + (y - l) = y
    <3>1. j[x] = c[x - l] /\ j[y] = c[y - l]
      BY <1>2, <2>4
    <3>2. x - l = y - l
      BY <1>5, <2>4, <3>1 DEF DifferentKeys, m
    <3> QED
      BY <2>4, <3>2
  <2> QED
    BY <1>3, <2>1, <2>2, <2>3, <2>4
<1>6. ASSUME NEW n
      PROVE  InChain(n, j) <=> InChain(n, s) \/ InChain(n, c)
  <2>1. ASSUME NEW x \in 1..Len(j), n = j[x]
        PROVE  InChain(n, s) \/ InChain(n, c)
    <3>1. CASE x \in 1..l
      <4>1. j[x] = r[x]
        BY <1>2, <3>1
      <4>2. l - x + 1 \in 1..l /\ r[x] = s[l - x + 1]
        BY <1>1, <3>1
      <4> QED
        BY <2>1, <4>1, <4>2 DEF InChain, l
    <3>2. CASE x - l \in 1..m /\ l + (x - l) = x
      <4>1. j[x] = c[x - l]
        BY <1>2, <3>2
      <4> QED
        BY <2>1, <3>2, <4>1 DEF InChain, m
    <3> QED
      BY <1>3, <3>1, <3>2
  <2>2. ASSUME NEW x \in 1..l, n = s[x]
        PROVE  InChain(n, j)
    <3>1. l - x + 1 \in 1..l /\ n = r[l - x + 1]
      BY <1>1, <2>2
    <3>2. l - x + 1 \in 1..Len(j) /\ n = j[l - x + 1]
      BY <1>2, <3>1
    <3> QED
      BY <3>2 DEF InChain
  <2>3. ASSUME NEW y \in 1..m, n = c[y]
        PROVE  InChain(n, j)
    <3>1. l + y \in 1..Len(j) /\ n = j[l + y]
      BY <1>2, <2>3
    <3> QED
      BY <3>1 DEF InChain
  <2> QED
    BY <2>1, <2>2, <2>3 DEF InChain, l, m
<1>7. DifferentKeys(j)
  BY <1>5 DEF DifferentKeys
<1> QED
  BY <1>2, <1>6, <1>7 DEF j, r

(* The same as KeysOnce, chain by chain.                                   *)
OnceByChain(t, n) ==
  /\ \A i \in 0..(n - 1) : DifferentKeys(t[i])
  /\ \A i, j \in 0..(n - 1) : \A p, q :
       InChain(p, t[i]) /\ InChain(q, t[j]) /\ p.key = q.key => i = j /\ p = q

(* To look through a table chain by chain is to look at all its nodes.      *)
LEMMA ByChain ==
  ASSUME NEW n \in Nat, n >= 2, NEW t \in [0..(n - 1) -> Seq(AllNodes)]
  PROVE  /\ OnceByChain(t, n) <=> KeysOnce(t)
         /\ \A p : p \in NodesIn(t) <=> \E i \in 0..(n - 1) : InChain(p, t[i])
<1>1. DOMAIN t = 0..(n - 1)
  OBVIOUS
<1>2. \A i, x : InTable(t, i, x) <=> i \in 0..(n - 1) /\ x \in 1..Len(t[i])
  BY <1>1 DEF InTable
<1>3. ASSUME NEW i \in 0..(n - 1), NEW p
      PROVE  InChain(p, t[i]) <=> \E x : InTable(t, i, x) /\ p = t[i][x]
  BY <1>2 DEF InChain
<1>4. ASSUME KeysOnce(t)
      PROVE  OnceByChain(t, n)
  <2>1. ASSUME NEW i \in 0..(n - 1)
        PROVE  DifferentKeys(t[i])
    BY <1>2, <1>4 DEF KeysOnce, DifferentKeys
  <2>2. ASSUME NEW i \in 0..(n - 1), NEW j \in 0..(n - 1), NEW p, NEW q,
               InChain(p, t[i]), InChain(q, t[j]), p.key = q.key
        PROVE  i = j /\ p = q
    <3>1. PICK x : InTable(t, i, x) /\ p = t[i][x]
      BY <1>3, <2>2
    <3>2. PICK y : InTable(t, j, y) /\ q = t[j][y]
      BY <1>3, <2>2
    <3>3. i = j /\ x = y
      BY <1>4, <2>2, <3>1, <3>2 DEF KeysOnce
    <3> QED
      BY <3>1, <3>2, <3>3
  <2> QED
    BY <2>1, <2>2 DEF OnceByChain
<1>5. ASSUME OnceByChain(t, n), NEW i, NEW x, NEW j, NEW y,
             InTable(t, i, x), InTable(t, j, y), t[i][x].key = t[j][y].key
      PROVE  i = j /\ x = y
  <2>1. i \in 0..(n - 1) /\ j \in 0..(n - 1)
    BY <1>2, <1>5
  <2>2. InChain(t[i][x], t[i]) /\ InChain(t[j][y], t[j])
    BY <1>3, <1>5, <2>1
  <2>3. i = j
    BY <1>5, <2>1, <2>2 DEF OnceByChain
  <2>4. DifferentKeys(t[i]) /\ x \in 1..Len(t[i]) /\ y \in 1..Len(t[i])
    BY <1>2, <1>5, <2>1, <2>3 DEF OnceByChain
  <2> QED
    BY <1>5, <2>3, <2>4 DEF DifferentKeys
<1>6. ASSUME NEW p
      PROVE  p \in NodesIn(t) <=> \E i \in 0..(n - 1) : InChain(p, t[i])
  <2>1. IsTable(t)
    BY TableIs
  <2>2. /\ \A q \in NodesIn(t) : \E i, x : InTable(t, i, x) /\ q = t[i][x]
        /\ \A i, x : InTable(t, i, x) => t[i][x] \in NodesIn(t)
    BY <2>1, NodesInIs
  <2>3. ASSUME p \in NodesIn(t)
        PROVE  \E i \in 0..(n - 1) : InChain(p, t[i])
    <3>1. PICK i, x : InTable(t, i, x) /\ p = t[i][x]
      BY <2>2, <2>3
    <3> QED
      BY <1>2, <1>3, <3>1
  <2>4. ASSUME NEW i \in 0..(n - 1), InChain(p, t[i])
        PROVE  p \in NodesIn(t)
    <3>1. PICK x : InTable(t, i, x) /\ p = t[i][x]
      BY <1>3, <2>4
    <3> QED
      BY <2>2, <3>1
  <2> QED
    BY <2>3, <2>4
<1> QED
  BY <1>4, <1>5, <1>6 DEF KeysOnce

(* When the chains from i on have been done: t is the table, u what has    *)
(* become of it, and n the number of chains.                               *)
Rehashing(u, t, n, i, place) ==
  /\ u \in [0..(n - 1) -> Seq(AllNodes)]
  /\ OnceByChain(u, n)
  /\ \A p : p \in NodesIn(u) <=> p \in NodesIn(t)
  /\ \A j \in 0..(n - 1) : \A p : InChain(p, u[j]) /\ j >= i => place[p.key] = j

(* Moving one more chain keeps the invariant of the loop of                 *)
(* BaseMap::Rehash.                                                         *)
LEMMA RehashChainIs ==
  ASSUME NEW n \in Nat, n >= 2, NEW t, NEW i \in 0..(n - 1),
         NEW place \in [Keys -> 0..(n - 1)],
         NEW u, Rehashing(u, t, n, i + 1, place)
  PROVE  Rehashing(RehashChain(u, i, place), t, n, i, place)
<1> DEFINE gone(j) == Filter(u[i], {q \in AllNodes : place[q.key] = j})
           v == RehashChain(u, i, place)
<1>1. /\ u \in [0..(n - 1) -> Seq(AllNodes)]
      /\ OnceByChain(u, n)
      /\ \A p : p \in NodesIn(u) <=> p \in NodesIn(t)
      /\ \A j \in 0..(n - 1) : \A p : InChain(p, u[j]) /\ j >= i + 1 => place[p.key] = j
  BY DEF Rehashing
<1>2. v = [j \in 0..(n - 1) |-> IF j = i THEN gone(i) ELSE Reverse(gone(j)) \o u[j]]
  BY <1>1 DEF RehashChain
<1>3. \A j \in 0..(n - 1) : u[j] \in Seq(AllNodes) /\ DifferentKeys(u[j])
  BY <1>1 DEF OnceByChain
<1>4. \A j, l \in 0..(n - 1) : \A p, q :
        InChain(p, u[j]) /\ InChain(q, u[l]) /\ p.key = q.key => j = l /\ p = q
  BY <1>1 DEF OnceByChain
<1>5. ASSUME NEW j \in 0..(n - 1), NEW p, InChain(p, u[j])
      PROVE  p \in AllNodes /\ place[p.key] \in 0..(n - 1)
  <2>1. p \in AllNodes
    BY <1>3, <1>5 DEF InChain
  <2> QED
    BY <2>1, NodeIs
<1>6. ASSUME NEW j \in 0..(n - 1)
      PROVE  /\ gone(j) \in Seq(AllNodes) /\ DifferentKeys(gone(j))
             /\ \A p : InChain(p, gone(j)) <=> InChain(p, u[i]) /\ place[p.key] = j
  <2> DEFINE w == {q \in AllNodes : place[q.key] = j}
             s == u[i]
             c == Filter(s, w)
  <2>1. \A q \in AllNodes : q \in w <=> place[q.key] = j
    OBVIOUS
  <2>4. s \in Seq(AllNodes) /\ DifferentKeys(s)
    BY <1>3
  <2> HIDE DEF w, s
  <2>2. /\ c \in Seq(AllNodes) /\ DifferentKeys(c)
        /\ \A x \in 1..Len(c) : c[x] \in w /\ \E y \in 1..Len(s) : c[x] = s[y]
        /\ \A y \in 1..Len(s) : s[y] \in w => \E x \in 1..Len(c) : c[x] = s[y]
    BY <2>4, FilterNodes
  <2> HIDE DEF c
  <2>3. ASSUME NEW p
        PROVE  InChain(p, c) <=> InChain(p, u[i]) /\ place[p.key] = j
    <3>1. ASSUME InChain(p, c)
          PROVE  InChain(p, u[i]) /\ place[p.key] = j
      <4>1. p \in w /\ InChain(p, u[i])
        BY <2>2, <3>1 DEF InChain, s
      <4> QED
        BY <1>5, <2>1, <4>1
    <3>2. ASSUME InChain(p, u[i]), place[p.key] = j
          PROVE  InChain(p, c)
      <4>1. p \in w
        BY <1>5, <2>1, <3>2
      <4> QED
        BY <2>2, <3>2, <4>1 DEF InChain, s
    <3> QED
      BY <3>1, <3>2
  <2> QED
    BY <2>2, <2>3 DEF c, w, s
<1> HIDE DEF gone, v
<1>7. v[i] = gone(i)
  BY <1>2
<1>8. ASSUME NEW j \in 0..(n - 1), j # i
      PROVE  /\ v[j] = Reverse(gone(j)) \o u[j]
             /\ v[j] \in Seq(AllNodes) /\ DifferentKeys(v[j])
             /\ \A p : InChain(p, v[j]) <=>
                         InChain(p, u[j]) \/ (InChain(p, u[i]) /\ place[p.key] = j)
  <2> DEFINE g == gone(j)
  <2>1. v[j] = Reverse(g) \o u[j]
    BY <1>2, <1>8
  <2>2. /\ g \in Seq(AllNodes) /\ DifferentKeys(g)
        /\ \A p : InChain(p, g) <=> InChain(p, u[i]) /\ place[p.key] = j
    BY <1>6
  <2> HIDE DEF g
  <2>3. ASSUME NEW x \in 1..Len(g), NEW y \in 1..Len(u[j])
        PROVE  g[x].key # u[j][y].key
    <3>1. InChain(g[x], u[i]) /\ InChain(u[j][y], u[j])
      BY <2>2 DEF InChain
    <3> QED
      BY <1>4, <1>8, <3>1
  <2>4. u[j] \in Seq(AllNodes) /\ DifferentKeys(u[j])
    BY <1>3
  <2>5. /\ Reverse(g) \o u[j] \in Seq(AllNodes) /\ DifferentKeys(Reverse(g) \o u[j])
        /\ \A p : InChain(p, Reverse(g) \o u[j]) <=> InChain(p, g) \/ InChain(p, u[j])
    BY <2>2, <2>3, <2>4, JoinedIs
  <2> QED
    BY <2>1, <2>2, <2>5 DEF g
<1>9. ASSUME NEW j \in 0..(n - 1)
      PROVE  /\ v[j] \in Seq(AllNodes) /\ DifferentKeys(v[j])
             /\ \A p : InChain(p, v[j]) <=>
                         \/ j # i /\ InChain(p, u[j])
                         \/ InChain(p, u[i]) /\ place[p.key] = j
  BY <1>6, <1>7, <1>8
<1>10. v \in [0..(n - 1) -> Seq(AllNodes)]
  <2> DEFINE f(j) == IF j = i THEN gone(i) ELSE Reverse(gone(j)) \o u[j]
  <2>1. v = [j \in 0..(n - 1) |-> f(j)]
    BY <1>2
  <2> HIDE DEF f
  <2>2. \A j \in 0..(n - 1) : f(j) \in Seq(AllNodes)
    BY <1>9, <2>1
  <2> QED
    BY <2>1, <2>2
<1>11. ASSUME NEW j \in 0..(n - 1), NEW p, InChain(p, v[j])
       PROVE  \E l \in 0..(n - 1) : /\ InChain(p, u[l])
                                    /\ l # i => j = l
                                    /\ l = i => j = place[p.key]
  BY <1>9, <1>11
<1>12. ASSUME NEW j \in 0..(n - 1), NEW l \in 0..(n - 1), NEW p, NEW q,
              InChain(p, v[j]), InChain(q, v[l]), p.key = q.key
       PROVE  j = l /\ p = q
  <2>1. PICK a \in 0..(n - 1) : /\ InChain(p, u[a])
                                /\ a # i => j = a
                                /\ a = i => j = place[p.key]
    BY <1>11, <1>12
  <2>2. PICK b \in 0..(n - 1) : /\ InChain(q, u[b])
                                /\ b # i => l = b
                                /\ b = i => l = place[q.key]
    BY <1>11, <1>12
  <2>3. a = b /\ p = q
    BY <1>4, <1>12, <2>1, <2>2
  <2> QED
    BY <2>1, <2>2, <2>3
<1>13. OnceByChain(v, n)
  BY <1>9, <1>12 DEF OnceByChain
<1>14. ASSUME NEW p
       PROVE  p \in NodesIn(v) <=> p \in NodesIn(u)
  <2>1. p \in NodesIn(v) <=> \E j \in 0..(n - 1) : InChain(p, v[j])
    BY <1>10, ByChain
  <2>2. p \in NodesIn(u) <=> \E j \in 0..(n - 1) : InChain(p, u[j])
    BY <1>1, ByChain
  <2>3. ASSUME NEW j \in 0..(n - 1), InChain(p, u[j])
        PROVE  \E l \in 0..(n - 1) : InChain(p, v[l])
    <3>1. CASE j # i
      BY <1>9, <2>3, <3>1
    <3>2. CASE j = i
      BY <1>5, <1>9, <2>3, <3>2
    <3> QED
      BY <3>1, <3>2
  <2> QED
    BY <1>11, <2>1, <2>2, <2>3
<1>15. ASSUME NEW j \in 0..(n - 1), NEW p, InChain(p, v[j]), j >= i
       PROVE  place[p.key] = j
  <2>1. CASE InChain(p, u[i]) /\ place[p.key] = j
    BY <2>1
  <2>2. CASE j # i /\ InChain(p, u[j])
    <3>1. j >= i + 1
      BY <1>15, <2>2
    <3> QED
      BY <1>1, <2>2, <3>1
  <2> QED
    BY <1>9, <1>15, <2>1, <2>2
<1> QED
  BY <1>1, <1>10, <1>13, <1>14, <1>15 DEF Rehashing, v

(* The loop of Map::Rehash goes through the chains from the last one.      *)
LEMMA RehashIs ==
  ASSUME NEW t, IsTable(t), KeysOnce(t), NEW to \in [Keys -> Nat]
  PROVE  /\ IsTable(Rehash(t, to)) /\ KeysOnce(Rehash(t, to)) /\ Placed(Rehash(t, to), to)
         /\ \A n : n \in NodesIn(Rehash(t, to)) <=> n \in NodesIn(t)
<1> DEFINE n == GetTableSize(t)
           place == [k \in Keys |-> to[k] % n]
           D == [0..(n - 1) -> Seq(AllNodes)]
           Def(f) == f = [i \in 0..n |-> IF i = n THEN t ELSE RehashChain(f[i + 1], i, place)]
           after == CHOOSE f : Def(f)
           step == [k \in 1..n |-> [u \in D |-> RehashChain(u, n - k, place)]]
<1>1. n \in Nat /\ n >= 2 /\ t \in D
  BY DEF IsTable
<1>2. Rehash(t, to) = after[0]
  BY DEF Rehash
<1>3. \A k \in Keys : place[k] = to[k] % n /\ place[k] \in 0..(n - 1)
  <2>1. n \in Nat /\ n # 0
    BY <1>1
  <2> HIDE DEF n
  <2>2. ASSUME NEW k \in Keys
        PROVE  to[k] % n \in 0..(n - 1)
    BY <2>1, RestOfDivision
  <2> QED
    BY <2>2
<1>4. place \in [Keys -> 0..(n - 1)]
  BY <1>3
<1>5. CanRecur(n, D, t, step)
  <2>1. ASSUME NEW u \in D, NEW i \in 0..(n - 1)
        PROVE  RehashChain(u, i, place) \in D
    <3> DEFINE chain(j) == Filter(u[i], {q \in AllNodes : place[q.key] = j})
               f(j) == IF j = i THEN chain(i) ELSE Reverse(chain(j)) \o u[j]
    <3>1. RehashChain(u, i, place) = [j \in 0..(n - 1) |-> f(j)]
      BY DEF RehashChain
    <3>2. \A j \in 0..(n - 1) : u[j] \in Seq(AllNodes)
      OBVIOUS
    <3>3. ASSUME NEW j \in 0..(n - 1)
          PROVE  chain(j) \in Seq(AllNodes)
      BY <3>2, FilterNodes
    <3> HIDE DEF chain
    <3>4. ASSUME NEW j \in 0..(n - 1)
          PROVE  f(j) \in Seq(AllNodes)
      <4>1. Reverse(chain(j)) \in Seq(AllNodes) /\ chain(i) \in Seq(AllNodes)
        BY <3>3, ReverseNodes
      <4> QED
        BY <3>2, <4>1
    <3> HIDE DEF f
    <3> QED
      BY <3>1, <3>4
  <2>2. \A k \in 1..n : n - k \in 0..(n - 1)
    BY <1>1
  <2> HIDE DEF n, place, D
  <2>3. \A k \in 1..n : [u \in D |-> RehashChain(u, n - k, place)] \in [D -> D]
    BY <2>1, <2>2
  <2>4. step \in [1..n -> [D -> D]]
    BY <2>3
  <2> QED
    BY <1>1, <2>4 DEF CanRecur
<1>6. PICK g : Recurs(g, n, D, t, step)
  BY <1>5, Recursion
<1> HIDE DEF n, place, D
<1>7. /\ g[0] = t /\ \A k \in 0..n : g[k] \in D
      /\ \A k \in 1..n : g[k] = RehashChain(g[k - 1], n - k, place)
  <2>1. /\ g \in [0..n -> D] /\ g[0] = t
        /\ \A k \in 1..n : g[k] = step[k][g[k - 1]]
    BY <1>6 DEF Recurs
  <2>2. ASSUME NEW k \in 1..n
        PROVE  g[k] = RehashChain(g[k - 1], n - k, place)
    <3>1. g[k - 1] \in D
      BY <1>1, <2>1
    <3> QED
      BY <2>1, <3>1
  <2> QED
    BY <2>1, <2>2
<1> HIDE DEF step
<1>8. Def(after)
  <2> DEFINE h == [i \in 0..n |-> g[n - i]]
  <2>1. ASSUME NEW i \in 0..n
        PROVE  h[i] = IF i = n THEN t ELSE RehashChain(h[i + 1], i, place)
    <3>1. CASE i = n
      BY <1>1, <1>7, <3>1
    <3>2. CASE i # n
      <4>1. i + 1 \in 0..n /\ n - i \in 1..n /\ n - (n - i) = i /\ n - (i + 1) = (n - i) - 1
        BY <1>1, <3>2
      <4>2. h[i] = g[n - i] /\ h[i + 1] = g[n - (i + 1)]
        BY <4>1
      <4>3. g[n - i] = RehashChain(g[(n - i) - 1], n - (n - i), place)
        BY <1>7, <4>1
      <4> QED
        BY <3>2, <4>1, <4>2, <4>3
    <3> QED
      BY <3>1, <3>2
  <2>2. h = [i \in 0..n |-> IF i = n THEN t ELSE RehashChain(h[i + 1], i, place)]
    <3>1. h = [i \in 0..n |-> h[i]]
      OBVIOUS
    <3> HIDE DEF h
    <3> QED
      BY <2>1, <3>1
  <2> HIDE DEF h
  <2>3. \E f : Def(f)
    BY <2>2
  <2> QED
    BY <2>3
<1>9. /\ after[n] = t
      /\ \A i \in 0..(n - 1) : after[i] = RehashChain(after[i + 1], i, place)
  <2>1. after = [i \in 0..n |-> IF i = n THEN t ELSE RehashChain(after[i + 1], i, place)]
    BY <1>8
  <2> HIDE DEF after
  <2>2. \A i \in 0..n : after[i] = IF i = n THEN t ELSE RehashChain(after[i + 1], i, place)
    BY <2>1
  <2>3. n \in 0..n /\ \A i \in 0..(n - 1) : i \in 0..n /\ i # n
    BY <1>1
  <2> QED
    BY <2>2, <2>3
<1> HIDE DEF after, Def
<1> DEFINE T == {k \in 0..n : Rehashing(after[n - k], t, n, n - k, place)}
<1>10. 0 \in T
  <2>1. OnceByChain(t, n)
    BY <1>1, ByChain DEF D
  <2>2. Rehashing(t, t, n, n, place)
    <3>1. \A j \in 0..(n - 1) : ~(j >= n)
      BY <1>1
    <3> QED
      BY <1>1, <2>1, <3>1 DEF Rehashing, D
  <2> QED
    BY <1>1, <1>9, <2>2
<1>11. ASSUME NEW k \in Nat, k < n /\ k \in T
       PROVE  k + 1 \in T
  <2> DEFINE i == n - (k + 1)
  <2>1. i \in 0..(n - 1) /\ i + 1 = n - k /\ k + 1 \in 0..n
    BY <1>1, <1>11
  <2> HIDE DEF i
  <2>2. Rehashing(after[i + 1], t, n, i + 1, place)
    BY <1>11, <2>1
  <2>3. Rehashing(RehashChain(after[i + 1], i, place), t, n, i, place)
    BY <1>1, <1>4, <2>1, <2>2, RehashChainIs
  <2>4. Rehashing(after[i], t, n, i, place)
    BY <1>9, <2>1, <2>3
  <2> QED
    BY <2>1, <2>4 DEF i
<1>12. n \in T
  <2> HIDE DEF T
  <2>1. \A k \in 0..n : k \in T
    BY <1>1, <1>10, <1>11, Induct
  <2> QED
    BY <1>1, <2>1
<1>13. Rehashing(after[0], t, n, 0, place)
  BY <1>1, <1>12
<1> DEFINE u == after[0]
<1>14. /\ u \in [0..(n - 1) -> Seq(AllNodes)] /\ OnceByChain(u, n)
       /\ \A p : p \in NodesIn(u) <=> p \in NodesIn(t)
       /\ \A j \in 0..(n - 1) : \A p : InChain(p, u[j]) => place[p.key] = j
  <2>1. \A j \in 0..(n - 1) : j >= 0
    BY <1>1
  <2> QED
    BY <1>13, <2>1 DEF Rehashing
<1> HIDE DEF u
<1>15. IsTable(u) /\ KeysOnce(u) /\ GetTableSize(u) = n
  BY <1>1, <1>14, ByChain, TableIs
<1>16. Placed(u, to)
  <2>1. ASSUME NEW i, NEW x, InTable(u, i, x)
        PROVE  to[u[i][x].key] % n = i
    <3>1. i \in 0..(n - 1) /\ InChain(u[i][x], u[i]) /\ u[i][x].key \in Keys
      BY <1>15, <2>1, InTableIs DEF InChain
    <3>2. place[u[i][x].key] = i
      BY <1>14, <3>1
    <3> QED
      BY <1>3, <3>1, <3>2
  <2> QED
    BY <1>15, <2>1 DEF Placed
<1> QED
  BY <1>2, <1>14, <1>15, <1>16 DEF u

-----------------------------------------------------------------------------
(***************************************************************************)
(* The inductive invariant. TypeOK, EachEntryOnce and IsDictionary are not *)
(* inductive: a look-up meets one chain only, so what it finds after the   *)
(* next collection depends on the nodes of all the others.                 *)
(***************************************************************************)
ListOK ==
  /\ reachable \subseteq Maps /\ mapLs \in Seq(Maps) /\ IsInjective(mapLs)
  /\ reachable \subseteq Range(mapLs)

MapsOK == map \in [Maps -> Records] /\ \A m \in Maps : IsTable(map[m].table)

ContentsOK == contents \in [Maps -> [Keys -> Values \cup {None}]]

(* The nodes of a map are its entries.                                     *)
Holds(t, entries) == \A n \in AllNodes : n \in NodesIn(t) <=> entries[n.key] = n.value

ListedOK == \A m \in Range(mapLs) : InOrder(map[m])
ReachableOK == \A m \in reachable : Holds(map[m].table, contents[m])

IInv == AddressesOK /\ ListOK /\ MapsOK /\ ContentsOK /\ ListedOK /\ ReachableOK

(* There are no maps to begin with.                                         *)
LEMMA InvInit == Init => IInv
<1> SUFFICES ASSUME Init
             PROVE  IInv
  OBVIOUS
<1> USE DEF Init
<1>1. AddressesOK
  BY ConstantsAssumption DEF AddressesOK
<1>2. Range(mapLs) = {}
  BY DEF Range
<1>3. ListOK
  BY <1>2 DEF ListOK, IsInjective
<1>4. InOrder(NewMap(0)) /\ NewMap(0) \in Records /\ IsTable(NewMap(0).table)
  BY NewMapIs DEF InOrder
<1>5. MapsOK
  BY <1>4 DEF MapsOK
<1>6. ContentsOK
  BY DEF ContentsOK, Dict!Init, Dict!Empty
<1> QED
  BY <1>1, <1>2, <1>3, <1>5, <1>6 DEF IInv, ListedOK, ReachableOK

(* Nothing but one map that the program can reach is changed.              *)
MapBecomes(m, q) == map' = [map EXCEPT ![m] = q]
EntriesBecome(m, e) == contents' = [contents EXCEPT ![m] = e]

(* A step that changes one map and leaves the others keeps the invariant if *)
(* the map is in order and holds its entries.                               *)
LEMMA OneMap ==
  ASSUME IInv, NEW m \in reachable, NEW q, InOrder(q), MapBecomes(m, q),
         NEW e \in [Keys -> Values \cup {None}], EntriesBecome(m, e),
         Holds(q.table, e), UNCHANGED <<reachable, mapLs, keyVars>>
  PROVE  IInv'
<1>1. /\ address' = address /\ reachable' = reachable /\ mapLs' = mapLs
      /\ Range(mapLs') = Range(mapLs)
  BY DEF keyVars
<1>2. m \in Maps /\ reachable \subseteq Maps /\ mapLs \in Seq(Maps) /\ Range(mapLs) \subseteq Maps
  BY DEF IInv, ListOK, Range
<1>3. AddressesOK'
  BY <1>1 DEF IInv, AddressesOK
<1>4. ListOK'
  BY <1>1 DEF IInv, ListOK
<1>5. map' \in [Maps -> Records] /\ map'[m] = q /\ \A l \in Maps : l # m => map'[l] = map[l]
  BY <1>2 DEF IInv, MapsOK, MapBecomes, InOrder
<1>6. contents' \in [Maps -> [Keys -> Values \cup {None}]]
      /\ contents'[m] = e /\ \A l \in Maps : l # m => contents'[l] = contents[l]
  BY <1>2 DEF IInv, ContentsOK, EntriesBecome
<1>7. MapsOK'
  BY <1>5 DEF IInv, MapsOK, InOrder
<1>8. ASSUME NEW l \in Range(mapLs)
      PROVE  InOrder(map[l])'
  <2>1. InOrder(map'[l])
    BY <1>2, <1>5 DEF IInv, ListedOK
  <2> QED
    BY <1>1, <2>1 DEF InOrder
<1>9. ASSUME NEW l \in reachable
      PROVE  Holds(map'[l].table, contents'[l])
  BY <1>2, <1>5, <1>6 DEF IInv, ReachableOK
<1>10. ListedOK' /\ ReachableOK'
  BY <1>1, <1>8, <1>9 DEF ListedOK, ReachableOK
<1> QED
  BY <1>3, <1>4, <1>6, <1>7, <1>10 DEF IInv, ContentsOK

(* What the invariant says of a map that the program can reach.             *)
LEMMA ReachableIs ==
  ASSUME IInv, NEW m \in reachable
  PROVE  /\ m \in Maps /\ InOrder(map[m]) /\ Holds(map[m].table, contents[m])
         /\ contents[m] \in [Keys -> Values \cup {None}] /\ AddressesOK
         /\ map[m] \in Records /\ DOMAIN map = Maps
  BY DEF IInv, ListOK, ListedOK, ReachableOK, ContentsOK, MapsOK

(* Map::Put keeps the invariant.                                            *)
LEMMA PutInv ==
  ASSUME IInv, NEW m \in reachable, NEW k \in Keys, NEW v \in Values, Put(m, k, v)
  PROVE  IInv'
<1> DEFINE r == Resized(m)
           i == Hash(k, GetTableSize(r.table))
           at == FindKey(k, r.table[i])
           q == IF at # 0 THEN [r EXCEPT !.table[i][at] = Node(k, v)]
                ELSE [r EXCEPT !.table[i] = <<Node(k, v)>> \o @, !.counter = @ + 1]
           e == [contents[m] EXCEPT ![k] = v]
<1>1. /\ m \in Maps /\ InOrder(map[m]) /\ Holds(map[m].table, contents[m])
      /\ contents[m] \in [Keys -> Values \cup {None}] /\ AddressesOK
  BY ReachableIs
<1>2. MapBecomes(m, q)
  BY DEF Put, MapBecomes
<1>3. EntriesBecome(m, e)
  BY DEF Put, Dict!Put, EntriesBecome
<1>4. InOrder(r) /\ NodesIn(r.table) = NodesIn(map[m].table)
  BY <1>1, ResizedIs
<1> HIDE DEF r
<1>5. InOrder(q) /\ NodesIn(q.table) = Others(r.table, k) \cup {Node(k, v)}
  <2>1. CASE at # 0
    <3>1. Replaced(q, r, i, at, Node(k, v))
      BY <2>1 DEF Replaced
    <3>2. i = Hash(k, GetTableSize(r.table)) /\ at = FindKey(k, r.table[i])
      OBVIOUS
    <3> HIDE DEF q, i, at
    <3> QED
      BY SMTT(30), <1>1, <1>4, <2>1, <3>1, <3>2, PutReplaces
  <2>2. CASE at = 0
    <3>1. Added(q, r, i, Node(k, v))
      BY <2>2 DEF Added
    <3> HIDE DEF q
    <3> QED
      BY <1>1, <1>4, <2>2, <3>1, PutAdds
  <2> QED
    BY <2>1, <2>2
<1> HIDE DEF q
<1>6. e \in [Keys -> Values \cup {None}] /\ e[k] = v /\ \A l \in Keys : l # k => e[l] = contents[m][l]
  BY <1>1
<1> HIDE DEF e
<1>7. ASSUME NEW n \in AllNodes
      PROVE  n \in NodesIn(q.table) <=> e[n.key] = n.value
  <2>1. CASE n.key = k
    BY <1>5, <1>6, <2>1, NodeIs DEF Others
  <2>2. CASE n.key # k
    <3>1. n \in NodesIn(q.table) <=> n \in NodesIn(map[m].table)
      BY <1>4, <1>5, <2>2, NodeIs DEF Others
    <3> QED
      BY <1>1, <1>6, <2>2, <3>1, NodeIs DEF Holds
  <2> QED
    BY <2>1, <2>2
<1>8. UNCHANGED <<reachable, mapLs, keyVars>>
  BY DEF Put
<1> QED
  BY <1>2, <1>3, <1>5, <1>6, <1>7, <1>8, OneMap DEF Holds

(* Map::Remove keeps the invariant.                                         *)
LEMMA RemoveInv ==
  ASSUME IInv, NEW m \in reachable, NEW k \in Keys, RemoveKey(m, k)
  PROVE  IInv'
<1> DEFINE r == map[m]
           i == Hash(k, GetTableSize(r.table))
           at == FindKey(k, r.table[i])
           q == [r EXCEPT !.table[i] = RemoveAt(@, at), !.counter = @ - 1]
           e == [contents[m] EXCEPT ![k] = None]
<1>1. /\ m \in Maps /\ InOrder(r) /\ Holds(r.table, contents[m])
      /\ contents[m] \in [Keys -> Values \cup {None}] /\ AddressesOK
      /\ r \in Records /\ DOMAIN map = Maps
  BY ReachableIs
<1>2. at # 0
  BY DEF RemoveKey
<1>3. MapBecomes(m, q)
  BY <1>1 DEF RemoveKey, MapBecomes
<1>4. EntriesBecome(m, e)
  BY DEF RemoveKey, Dict!Remove, EntriesBecome
<1>5. Removed(q, r, i, at)
  BY DEF Removed
<1> HIDE DEF q
<1>6. InOrder(q) /\ NodesIn(q.table) = Others(r.table, k)
  BY <1>1, <1>2, <1>5, RemoveTakes
<1>7. e \in [Keys -> Values \cup {None}] /\ e[k] = None /\ \A l \in Keys : l # k => e[l] = contents[m][l]
  BY <1>1
<1> HIDE DEF e, r
<1>8. ASSUME NEW n \in AllNodes
      PROVE  n \in NodesIn(q.table) <=> e[n.key] = n.value
  <2>1. n.value # None /\ n.key \in Keys
    BY NodeIs, ConstantsAssumption
  <2> QED
    BY <1>1, <1>6, <1>7, <2>1 DEF Holds, Others
<1>9. UNCHANGED <<reachable, mapLs, keyVars>>
  BY DEF RemoveKey
<1> QED
  BY <1>3, <1>4, <1>6, <1>7, <1>8, <1>9, OneMap DEF Holds

(* Map::Clear keeps the invariant.                                          *)
LEMMA ClearInv ==
  ASSUME IInv, NEW m \in reachable, Clear(m)
  PROVE  IInv'
<1> DEFINE r == map[m]
           q == [r EXCEPT !.counter = 0, !.table = EmptyTable(GetTableSize(r.table))]
           e == [k \in Keys |-> None]
<1>1. m \in Maps /\ InOrder(r) /\ r \in Records /\ DOMAIN map = Maps
  BY ReachableIs
<1>2. MapBecomes(m, q)
  BY <1>1 DEF Clear, MapBecomes
<1>3. EntriesBecome(m, e)
  BY DEF Clear, Dict!Clear, Dict!Empty, EntriesBecome
<1>4. InOrder(q) /\ NodesIn(q.table) = {}
  BY <1>1, ClearIs
<1> HIDE DEF q
<1>5. Holds(q.table, e)
  BY <1>4, NodeIs, ConstantsAssumption DEF Holds
<1>6. e \in [Keys -> Values \cup {None}]
  OBVIOUS
<1>7. UNCHANGED <<reachable, mapLs, keyVars>>
  BY DEF Clear
<1> HIDE DEF e
<1> QED
  BY <1>2, <1>3, <1>4, <1>5, <1>6, <1>7, OneMap

(* Map::PartialMap keeps the invariant.                                     *)
LEMMA PartialMapInv ==
  ASSUME IInv, NEW m \in reachable, NEW f \in [Keys -> Values \cup {None}], PartialMap(m, f)
  PROVE  IInv'
<1> DEFINE r == map[m]
           q == [r EXCEPT !.counter = @ - Len(Gone(f, r.table)),
                          !.table = [i \in DOMAIN @ |-> Applied(f, @[i])]]
           e == [k \in Keys |-> IF contents[m][k] = None THEN None ELSE f[k]]
<1>1. /\ m \in Maps /\ InOrder(r) /\ Holds(r.table, contents[m])
      /\ contents[m] \in [Keys -> Values \cup {None}] /\ AddressesOK
      /\ r \in Records /\ DOMAIN map = Maps
  BY ReachableIs
<1>2. MapBecomes(m, q)
  BY <1>1 DEF PartialMap, MapBecomes, Gone, Applied, Kept1
<1>3. EntriesBecome(m, e)
  BY <1>1 DEF PartialMap, Dict!PartialMap, EntriesBecome, ContentsOK, IInv
<1>4. AppliedTo(q, r, f)
  BY DEF AppliedTo
<1> HIDE DEF q
<1>5. /\ InOrder(q)
      /\ \A n : n \in NodesIn(q.table) <=>
                \E o \in NodesIn(r.table) : f[o.key] # None /\ n = Node(o.key, f[o.key])
  <2> HIDE DEF r, e
  <2>1. InOrder(r)
    BY <1>1
  <2> QED
    BY <1>4, <2>1, PartialMapIs
<1>6. e \in [Keys -> Values \cup {None}]
      /\ \A k \in Keys : e[k] = IF contents[m][k] = None THEN None ELSE f[k]
  BY <1>1
<1> HIDE DEF e, r
<1>7. ASSUME NEW n \in AllNodes
      PROVE  n \in NodesIn(q.table) <=> e[n.key] = n.value
  <2>1. /\ n.value \in Values /\ n.value # None /\ n.key \in Keys
        /\ n = Node(n.key, n.value)
    BY NodeIs, ConstantsAssumption
  <2>2. ASSUME NEW o \in NodesIn(r.table), f[o.key] # None, n = Node(o.key, f[o.key])
        PROVE  e[n.key] = n.value
    <3>1. /\ o \in AllNodes /\ o.key \in Keys /\ o.value # None
          /\ f[o.key] \in Values
      BY <2>2, NodeIs, ConstantsAssumption DEF NodesIn
    <3>2. n.key = o.key /\ n.value = f[o.key]
      BY <2>2, <3>1, NodeIs
    <3>3. contents[m][o.key] = o.value
      BY <1>1, <3>1 DEF Holds
    <3> QED
      BY <1>6, <3>1, <3>2, <3>3
  <2>3. ASSUME e[n.key] = n.value
        PROVE  \E o \in NodesIn(r.table) : f[o.key] # None /\ n = Node(o.key, f[o.key])
    <3>1. contents[m][n.key] # None /\ f[n.key] = n.value /\ contents[m][n.key] \in Values
      BY <1>1, <1>6, <2>1, <2>3
    <3> DEFINE o == Node(n.key, contents[m][n.key])
    <3>2. o \in AllNodes /\ o.key = n.key /\ o.value = contents[m][n.key]
      BY <2>1, <3>1, NodeIs
    <3> HIDE DEF o
    <3>3. o \in NodesIn(r.table)
      BY <1>1, <3>2 DEF Holds
    <3> QED
      BY <2>1, <3>1, <3>2, <3>3
  <2> QED
    BY <1>5, <2>2, <2>3
<1>8. UNCHANGED <<reachable, mapLs, keyVars>>
  BY DEF PartialMap
<1> QED
  BY <1>2, <1>3, <1>5, <1>6, <1>7, <1>8, OneMap DEF Holds

(* Map::New keeps the invariant.                                            *)
LEMMA NewInv ==
  ASSUME IInv, NEW m \in Maps, NEW size \in Sizes, New(m, size)
  PROVE  IInv'
<1> DEFINE q == NewMap(size)
           e == [k \in Keys |-> None]
           ls == <<m>> \o mapLs
<1>1. /\ m \notin reachable /\ m \notin Range(mapLs)
      /\ map' = [map EXCEPT ![m] = q]
      /\ mapLs' = ls /\ reachable' = reachable \cup {m} /\ address' = address
      /\ contents' = [contents EXCEPT ![m] = e]
  BY DEF New, keyVars, Dict!New, Dict!Empty
<1>2. /\ AddressesOK /\ map \in [Maps -> Records]
      /\ \A l \in Maps : IsTable(map[l].table)
      /\ contents \in [Maps -> [Keys -> Values \cup {None}]]
      /\ \A l \in Range(mapLs) : InOrder(map[l])
      /\ \A l \in reachable : Holds(map[l].table, contents[l])
  BY DEF IInv, MapsOK, ContentsOK, ListedOK, ReachableOK
<1>3. /\ mapLs \in Seq(Maps) /\ reachable \subseteq Maps
      /\ \A i \in 1..Len(mapLs) : mapLs[i] \in Range(mapLs) /\ mapLs[i] \in Maps
      /\ \A l \in Range(mapLs) : \E i \in 1..Len(mapLs) : mapLs[i] = l
      /\ reachable \subseteq Range(mapLs)
      /\ \A i, j \in 1..Len(mapLs) : mapLs[i] = mapLs[j] => i = j
  BY DEF IInv, ListOK, Range, IsInjective
<1>4. /\ ls \in Seq(Maps) /\ Len(ls) = Len(mapLs) + 1 /\ ls[1] = m
      /\ \A i \in 1..Len(mapLs) : ls[i + 1] = mapLs[i] /\ i + 1 \in 1..Len(ls)
  BY <1>3
<1> HIDE DEF ls
<1>5. ASSUME NEW i \in 1..Len(ls)
      PROVE  i = 1 \/ (i - 1 \in 1..Len(mapLs) /\ ls[i] = mapLs[i - 1])
  <2>1. CASE i # 1
    <3>1. i - 1 \in 1..Len(mapLs) /\ (i - 1) + 1 = i
      BY <1>3, <1>4, <2>1
    <3> QED
      BY <1>4, <3>1
  <2> QED
    BY <2>1
<1>6. Range(ls) = Range(mapLs) \cup {m}
  <2>1. \A i \in 1..Len(ls) : ls[i] \in Range(mapLs) \cup {m}
    BY <1>3, <1>4, <1>5
  <2>2. ASSUME NEW l \in Range(mapLs) \cup {m}
        PROVE  \E i \in 1..Len(ls) : ls[i] = l
    <3>1. CASE l = m
      <4>1. 1 \in 1..Len(ls)
        BY <1>3, <1>4
      <4> QED
        BY <1>4, <3>1, <4>1
    <3>2. CASE l \in Range(mapLs)
      BY <1>3, <1>4, <3>2
    <3> QED
      BY <3>1, <3>2
  <2>3. Range(ls) = {ls[i] : i \in 1..Len(ls)}
    BY <1>4 DEF Range
  <2> QED
    BY <2>1, <2>2, <2>3
<1>7. ASSUME NEW i \in 1..Len(ls), NEW j \in 1..Len(ls), ls[i] = ls[j]
      PROVE  i = j
  <2>1. CASE i = 1 /\ j = 1
    BY <2>1
  <2>2. CASE i = 1 /\ j # 1
    BY SMTT(30), <1>1, <1>3, <1>4, <1>5, <1>7, <2>2
  <2>3. CASE i # 1 /\ j = 1
    BY <1>1, <1>3, <1>4, <1>5, <1>7, <2>3
  <2>4. CASE i # 1 /\ j # 1
    <3>1. /\ i - 1 \in 1..Len(mapLs) /\ ls[i] = mapLs[i - 1]
          /\ j - 1 \in 1..Len(mapLs) /\ ls[j] = mapLs[j - 1]
      BY <1>5, <2>4
    <3>2. i - 1 = j - 1
      BY <1>3, <1>7, <3>1
    <3> QED
      BY <3>2
  <2> QED
    BY <2>1, <2>2, <2>3, <2>4
<1>8. ListOK'
  <2>1. IsInjective(ls)
    BY <1>4, <1>7 DEF IsInjective
  <2>2. reachable \cup {m} \subseteq Range(ls) /\ reachable \cup {m} \subseteq Maps
    BY <1>3, <1>6
  <2> QED
    BY <1>1, <1>4, <2>1, <2>2 DEF ListOK
<1>9. /\ InOrder(q) /\ NodesIn(q.table) = {} /\ q \in Records /\ IsTable(q.table)
  BY NewMapIs, ConstantsAssumption DEF InOrder
<1> HIDE DEF q
<1>10. /\ map' \in [Maps -> Records] /\ map'[m] = q
       /\ \A l \in Maps : l # m => map'[l] = map[l]
  BY <1>1, <1>2, <1>9
<1>11. /\ contents' \in [Maps -> [Keys -> Values \cup {None}]] /\ contents'[m] = e
       /\ \A l \in Maps : l # m => contents'[l] = contents[l]
  BY <1>1, <1>2
<1>12. Holds(q.table, e)
  BY <1>9, NodeIs, ConstantsAssumption DEF Holds
<1> HIDE DEF e
<1>13. AddressesOK'
  BY <1>1, <1>2 DEF AddressesOK
<1>14. MapsOK'
  BY <1>2, <1>9, <1>10 DEF MapsOK
<1>15. ASSUME NEW l \in Range(mapLs')
       PROVE  InOrder(map[l])'
  <2>1. l = m \/ (l \in Range(mapLs) /\ l \in Maps)
    BY <1>1, <1>3, <1>6
  <2>2. InOrder(map'[l])
    BY <1>2, <1>9, <1>10, <2>1
  <2> QED
    BY <1>1, <2>2 DEF InOrder
<1>16. ASSUME NEW l \in reachable'
       PROVE  Holds(map'[l].table, contents'[l])
  BY <1>1, <1>2, <1>3, <1>10, <1>11, <1>12
<1> QED
  BY <1>8, <1>11, <1>13, <1>14, <1>15, <1>16 DEF IInv, ContentsOK, ListedOK, ReachableOK

(* A map that is dropped stays in order until it is collected.              *)
LEMMA DropInv ==
  ASSUME IInv, NEW m \in reachable, Drop(m)
  PROVE  IInv'
<1>1. /\ address' = address /\ mapLs' = mapLs /\ map' = map /\ Range(mapLs') = Range(mapLs)
      /\ reachable' = reachable \ {m}
      /\ contents' = [contents EXCEPT ![m] = [k \in Keys |-> None]]
  BY DEF Drop, keyVars, Dict!Drop, Dict!Empty
<1>2. AddressesOK' /\ MapsOK'
  BY <1>1 DEF IInv, AddressesOK, MapsOK
<1>3. ListOK'
  BY <1>1 DEF IInv, ListOK
<1>4. ContentsOK' /\ \A l \in reachable' : contents'[l] = contents[l]
  BY <1>1 DEF IInv, ContentsOK, ListOK
<1>5. ReachableOK'
  BY <1>1, <1>4 DEF IInv, ReachableOK
<1>6. ListedOK'
  <2>1. ASSUME NEW l \in Range(mapLs)
        PROVE  InOrder(map[l])'
    <3>1. InOrder(map[l])
      BY DEF IInv, ListedOK
    <3> QED
      BY <1>1, <3>1 DEF InOrder
  <2> QED
    BY <1>1, <2>1 DEF ListedOK
<1> QED
  BY <1>2, <1>3, <1>4, <1>5, <1>6 DEF IInv

(* The list of maps after a collection.                                    *)
LEMMA ListIs ==
  ASSUME NEW s \in Seq(Maps), IsInjective(s), NEW wanted
  PROVE  LET t == Reverse(Filter(s, wanted))
         IN  /\ t \in Seq(Maps) /\ IsInjective(t)
             /\ \A m : m \in Range(t) <=> m \in Range(s) /\ m \in wanted
<1> DEFINE c == Filter(s, wanted)
           t == Reverse(c)
<1>1. c \in Seq(Maps) /\ \E p : Selects(p, s, Len(s), wanted, c)
  BY FilterIs
<1>2. PICK p : Selects(p, s, Len(s), wanted, c)
  BY <1>1
<1> HIDE DEF c
<1>3. /\ p \in [1..Len(c) -> 1..Len(s)]
      /\ \A i \in 1..Len(c) : c[i] = s[p[i]] /\ s[p[i]] \in wanted
      /\ \A i, j \in 1..Len(c) : i < j => p[i] < p[j]
      /\ \A j \in 1..Len(s) : s[j] \in wanted => \E i \in 1..Len(c) : p[i] = j
  BY <1>2 DEF Selects
<1>4. ASSUME NEW i \in 1..Len(c), NEW j \in 1..Len(c), c[i] = c[j]
      PROVE  i = j
  <2>1. p[i] = p[j] /\ p[i] \in Nat
    BY SMTT(30), <1>3, <1>4 DEF IsInjective
  <2>2. ~(i < j) /\ ~(j < i)
    BY <1>3, <2>1
  <2> QED
    BY <1>1, <2>2
<1> DEFINE l == Len(c)
<1>5. l \in Nat /\ DOMAIN c = 1..l
  BY <1>1
<1> HIDE DEF l
<1>6. /\ t \in Seq(Maps) /\ Len(t) = l
      /\ \A i \in 1..l : l - i + 1 \in 1..l /\ t[i] = c[l - i + 1] /\ l - (l - i + 1) + 1 = i
  <2>1. \A i \in 1..l : l - i + 1 \in 1..l /\ l - (l - i + 1) + 1 = i
    BY <1>5
  <2>2. t = [i \in 1..l |-> c[l - i + 1]]
    BY DEF Reverse, l
  <2>3. \A i \in 1..l : c[l - i + 1] \in Maps
    BY <1>1, <1>5, <2>1
  <2> HIDE DEF t
  <2>4. t \in [1..l -> Maps]
    BY <2>2, <2>3
  <2>5. t \in Seq(Maps) /\ Len(t) = l
    BY <1>5, <2>4
  <2> QED
    BY <2>1, <2>2, <2>5
<1> HIDE DEF t
<1>7. ASSUME NEW i \in 1..l, NEW j \in 1..l, t[i] = t[j]
      PROVE  i = j
  <2>1. l - i + 1 = l - j + 1
    BY <1>4, <1>6, <1>7 DEF l
  <2> QED
    BY <1>5, <2>1
<1>8. IsInjective(t)
  BY <1>6, <1>7 DEF IsInjective
<1>9. ASSUME NEW m
      PROVE  m \in Range(t) <=> m \in Range(s) /\ m \in wanted
  <2>1. m \in Range(t) <=> \E i \in 1..l : m = t[i]
    BY <1>6 DEF Range
  <2>2. m \in Range(s) <=> \E i \in 1..Len(s) : m = s[i]
    BY DEF Range
  <2>3. ASSUME NEW i \in 1..l, m = t[i]
        PROVE  m \in Range(s) /\ m \in wanted
    <3> DEFINE x == l - i + 1
    <3>1. x \in 1..l /\ t[i] = c[x]
      BY <1>6
    <3> HIDE DEF x
    <3>2. c[x] = s[p[x]] /\ s[p[x]] \in wanted /\ p[x] \in 1..Len(s)
      BY <1>3, <3>1 DEF l
    <3> QED
      BY <2>2, <2>3, <3>1, <3>2
  <2>4. ASSUME m \in Range(s), m \in wanted
        PROVE  m \in Range(t)
    <3>1. PICK j \in 1..Len(s) : m = s[j]
      BY <2>2, <2>4
    <3>2. PICK i \in 1..l : p[i] = j
      BY <1>3, <2>4, <3>1 DEF l
    <3>3. m = c[i]
      BY <1>3, <3>1, <3>2 DEF l
    <3>4. l - i + 1 \in 1..l /\ t[l - i + 1] = c[i]
      BY <1>6
    <3> QED
      BY <2>1, <3>3, <3>4
  <2> QED
    BY <2>1, <2>3, <2>4
<1> QED
  BY <1>6, <1>8, <1>9 DEF t, c

(* Every map that is kept is in order at the addresses of after the        *)
(* collection, and has the same entries.                                   *)
Collected(q, r, to, g) ==
  q = [r EXCEPT !.table = Rehash(@, to), !.gen = IF @ <= g THEN Older(@) ELSE @]

(* A collection keeps the nodes of a map and rehashes them to the places of *)
(* the moved keys.                                                          *)
LEMMA CollectedIs ==
  ASSUME NEW r, InOrder(r), NEW to \in [Keys -> Nat], NEW g \in 0..Oldest,
         NEW q, Collected(q, r, to, g)
  PROVE  /\ q \in Records /\ IsTable(q.table) /\ KeysOnce(q.table) /\ Placed(q.table, to)
         /\ q.counter = Cardinality(KeysIn(q.table))
         /\ \A n : n \in NodesIn(q.table) <=> n \in NodesIn(r.table)
<1> DEFINE u == Rehash(r.table, to)
           h == IF r.gen <= g THEN Older(r.gen) ELSE r.gen
<1>1. /\ r \in Records /\ IsTable(r.table) /\ KeysOnce(r.table)
      /\ r.counter = Cardinality(KeysIn(r.table))
  BY DEF InOrder
<1>2. /\ IsTable(u) /\ KeysOnce(u) /\ Placed(u, to)
      /\ \A n : n \in NodesIn(u) <=> n \in NodesIn(r.table)
  BY <1>1, RehashIs
<1>3. q = [r EXCEPT !.table = u, !.gen = h]
  BY DEF Collected
<1> HIDE DEF u
<1>4. h \in 0..Oldest
  BY <1>1, ConstantsAssumption DEF Records, Older
<1> HIDE DEF h
<1>5. u \in UNION Tables
  BY <1>2, TableType
<1>6. q \in Records /\ q.table = u /\ q.counter = r.counter
  BY <1>1, <1>3, <1>4, <1>5 DEF Records
<1>7. KeysIn(u) = KeysIn(r.table)
  BY <1>2 DEF KeysIn
<1> QED
  BY <1>1, <1>2, <1>6, <1>7

(* A collection keeps the invariant, whatever it moves: BaseMap::RehashAll  *)
(* meets every map in which a key can have moved.                           *)
LEMMA CollectInv ==
  ASSUME IInv, NEW g \in 0..Oldest, NEW to \in [Keys -> Addresses], Collect(g, to)
  PROVE  IInv'
<1> DEFINE wanted == {m \in Maps : Kept(m, g)}
<1>1. /\ address' = to /\ reachable' = reachable /\ contents' = contents
      /\ mapLs' = Reverse(Filter(mapLs, wanted))
      /\ \A k, l \in Keys : k # l => to[k] # to[l]
      /\ map' = [m \in Maps |->
                    IF m \notin Range(mapLs') THEN map[m]
                    ELSE [map[m] EXCEPT !.table = Rehash(@, to),
                                        !.gen = IF @ <= g THEN Older(@) ELSE @]]
  BY DEF Collect, Moved
<1>2. /\ map \in [Maps -> Records] /\ \A l \in Maps : IsTable(map[l].table)
      /\ contents \in [Maps -> [Keys -> Values \cup {None}]]
      /\ \A l \in Range(mapLs) : InOrder(map[l])
      /\ \A l \in reachable : Holds(map[l].table, contents[l])
      /\ mapLs \in Seq(Maps) /\ IsInjective(mapLs)
      /\ reachable \subseteq Range(mapLs) /\ reachable \subseteq Maps
  BY DEF IInv, MapsOK, ContentsOK, ListedOK, ReachableOK, ListOK
<1>3. to \in [Keys -> Nat] /\ AddressesOK'
  BY <1>1, ConstantsAssumption DEF AddressesOK
<1>4. \A m \in reachable : m \in wanted
  <2>1. \A m \in Maps : map[m].gen \in Nat
    BY <1>2, ConstantsAssumption DEF Records
  <2> QED
    BY <1>2, <2>1, ConstantsAssumption DEF Kept, Forwarded
<1> HIDE DEF wanted
<1>5. /\ mapLs' \in Seq(Maps) /\ IsInjective(mapLs')
      /\ \A m : m \in Range(mapLs') <=> m \in Range(mapLs) /\ m \in wanted
  <2>1. LET t == Reverse(Filter(mapLs, wanted))
        IN  /\ t \in Seq(Maps) /\ IsInjective(t)
            /\ \A m : m \in Range(t) <=> m \in Range(mapLs) /\ m \in wanted
    BY <1>2, ListIs
  <2> QED
    BY <1>1, <2>1
<1>6. ListOK'
  BY <1>1, <1>2, <1>4, <1>5 DEF ListOK
<1>7. ASSUME NEW m \in Range(mapLs')
      PROVE  /\ m \in Maps /\ Collected(map'[m], map[m], to, g)
             /\ map'[m] \in Records /\ IsTable(map'[m].table) /\ KeysOnce(map'[m].table)
             /\ Placed(map'[m].table, to)
             /\ map'[m].counter = Cardinality(KeysIn(map'[m].table))
             /\ \A n : n \in NodesIn(map'[m].table) <=> n \in NodesIn(map[m].table)
  <2>4. m \in Range(mapLs)
    BY <1>5
  <2>5. Range(mapLs) \subseteq Maps
    BY <1>2 DEF Range
  <2>1. m \in Maps /\ m \in Range(mapLs)
    BY <2>4, <2>5
  <2>2. Collected(map'[m], map[m], to, g)
    BY <1>1, <2>1 DEF Collected
  <2>3. InOrder(map[m])
    BY <1>2, <2>1
  <2> QED
    BY <1>3, <2>1, <2>2, <2>3, CollectedIs
<1>8. ASSUME NEW m \in Maps, m \notin Range(mapLs')
      PROVE  map'[m] = map[m]
  BY <1>1, <1>8
<1>9. MapsOK'
  <2>1. DOMAIN map' = Maps /\ map' = [m \in DOMAIN map' |-> map'[m]]
    BY <1>1
  <2>2. \A m \in Maps : map'[m] \in Records /\ IsTable(map'[m].table)
    BY <1>2, <1>7, <1>8
  <2> QED
    BY <2>1, <2>2 DEF MapsOK
<1>10. ListedOK'
  BY <1>1, <1>7 DEF ListedOK, InOrder
<1>11. ReachableOK'
  <2>1. ASSUME NEW m \in reachable
        PROVE  Holds(map'[m].table, contents[m])
    <3>1. m \in Range(mapLs')
      BY <1>2, <1>4, <1>5
    <3> QED
      BY <1>2, <1>7, <3>1 DEF Holds
  <2> QED
    BY <1>1, <2>1 DEF ReachableOK
<1>12. ContentsOK'
  BY <1>1, <1>2 DEF ContentsOK
<1> QED
  BY <1>3, <1>6, <1>9, <1>10, <1>11, <1>12 DEF IInv

(* Every step keeps the invariant.                                          *)
LEMMA InvNext == IInv /\ [Next]_vars => IInv'
<1> SUFFICES ASSUME IInv, [Next]_vars
             PROVE  IInv'
  OBVIOUS
<1>1. ASSUME NEW m \in Maps, NEW size \in Sizes, New(m, size)
      PROVE  IInv'
  BY <1>1, NewInv
<1>2. ASSUME NEW m \in reachable, NEW k \in Keys, RemoveKey(m, k)
      PROVE  IInv'
  BY <1>2, RemoveInv
<1>3. ASSUME NEW m \in reachable, NEW k \in Keys, NEW v \in Values, Put(m, k, v)
      PROVE  IInv'
  BY <1>3, PutInv
<1>4. ASSUME NEW m \in reachable, NEW f \in [Keys -> Values \cup {None}], PartialMap(m, f)
      PROVE  IInv'
  BY <1>4, PartialMapInv
<1>5. ASSUME NEW m \in reachable, Clear(m) \/ Drop(m)
      PROVE  IInv'
  BY <1>5, ClearInv, DropInv
<1>6. ASSUME NEW g \in 0..Oldest, NEW to \in [Keys -> Addresses], Collect(g, to)
      PROVE  IInv'
  BY <1>6, CollectInv
<1>7. CASE UNCHANGED vars
  <2> QED
    BY <1>7 DEF vars, keyVars, IInv, AddressesOK, ListOK, MapsOK, ContentsOK, ListedOK, ReachableOK, InOrder
<1> QED
  BY <1>1, <1>2, <1>3, <1>4, <1>5, <1>6, <1>7 DEF Next

-----------------------------------------------------------------------------
(***************************************************************************)
(* What the runs check follows from the invariant.                         *)
(***************************************************************************)
LEMMA TypeOKHolds == IInv => TypeOK
<1> SUFFICES ASSUME IInv
             PROVE  TypeOK
  OBVIOUS
<1>1. \A m \in Maps : /\ GetTableSize(map[m].table) >= 2
                      /\ DOMAIN map[m].table = 0..(GetTableSize(map[m].table) - 1)
                      /\ map[m].gen \in 0..Oldest
  BY DEF IInv, MapsOK, IsTable, Records
<1> QED
  BY <1>1 DEF TypeOK, IInv, ListOK, AddressesOK

(* Apply, Fold and GetSize meet as many nodes as there are keys that a      *)
(* look-up finds.                                                           *)
LEMMA EntriesFound ==
  ASSUME IInv, NEW m \in Range(mapLs)
  PROVE  LET nodes == Nodes(map[m].table)
             members == {k \in Keys : CondGet(m, k) # None}
         IN  /\ Len(nodes) = map[m].counter
             /\ Cardinality(members) = map[m].counter
             /\ {nodes[i].key : i \in DOMAIN nodes} = members
<1> DEFINE t == map[m].table
           nodes == Nodes(t)
           members == {k \in Keys : CondGet(m, k) # None}
<1>1. InOrder(map[m]) /\ AddressesOK
  BY DEF IInv, ListedOK
<1>2. IsTable(t) /\ KeysOnce(t) /\ map[m].counter = Cardinality(KeysIn(t))
  BY <1>1 DEF InOrder
<1>3. members = KeysIn(t)
  <2>1. ASSUME NEW n \in NodesIn(t)
        PROVE  n.key \in members
    <3>1. n \in AllNodes /\ n.key \in Keys /\ n.value # None
      BY NodeIs, ConstantsAssumption DEF NodesIn
    <3>2. CondGet(m, n.key) = n.value
      BY <1>1, <3>1, LookUp
    <3> QED
      BY <3>1, <3>2
  <2>2. ASSUME NEW k \in members
        PROVE  k \in KeysIn(t)
    <3>1. \E n \in NodesIn(t) : n.key = k
      BY <1>1, LookUp
    <3> QED
      BY <3>1 DEF KeysIn
  <2> QED
    BY <2>1, <2>2 DEF KeysIn
<1>4. Cardinality(KeysIn(t)) = Len(nodes) /\ KeysOf(nodes) = KeysIn(t)
  BY <1>2, CountNodes
<1>5. DOMAIN nodes = 1..Len(nodes)
  BY <1>2, NodesIs
<1> HIDE DEF nodes, members, t
<1>6. {nodes[i].key : i \in DOMAIN nodes} = KeysOf(nodes)
  BY <1>5 DEF KeysOf
<1>7. /\ Len(nodes) = map[m].counter /\ Cardinality(members) = map[m].counter
      /\ {nodes[i].key : i \in DOMAIN nodes} = members
  BY <1>2, <1>3, <1>4, <1>6
<1> QED
  BY <1>7 DEF nodes, members, t

(* A look-up meets one chain only and finds what the map holds.             *)
LEMMA LooksUp ==
  ASSUME IInv, NEW m \in reachable, NEW k \in Keys
  PROVE  CondGet(m, k) = contents[m][k]
<1> DEFINE t == map[m].table
<1>1. /\ InOrder(map[m]) /\ Holds(t, contents[m]) /\ AddressesOK
      /\ contents[m] \in [Keys -> Values \cup {None}]
  BY ReachableIs
<1>2. /\ \A n \in NodesIn(t) : n.key = k => CondGet(m, k) = n.value
      /\ (\A n \in NodesIn(t) : n.key # k) => CondGet(m, k) = None
  BY <1>1, LookUp
<1>3. \A n \in NodesIn(t) : n \in AllNodes
  BY DEF NodesIn
<1> HIDE DEF t
<1>4. CASE contents[m][k] = None
  <2>1. ASSUME NEW n \in NodesIn(t), n.key = k
        PROVE  FALSE
    BY <1>1, <1>3, <1>4, <2>1, NodeIs, ConstantsAssumption DEF Holds
  <2> QED
    BY <1>2, <1>4, <2>1
<1>5. CASE contents[m][k] # None
  <2> DEFINE v == contents[m][k]
             n == Node(k, v)
  <2>1. v \in Values
    BY <1>1, <1>5
  <2>2. n \in AllNodes /\ n.key = k /\ n.value = v
    BY <2>1, NodeIs
  <2> HIDE DEF n
  <2>3. n \in NodesIn(t)
    BY <1>1, <2>2 DEF Holds
  <2> QED
    BY <1>2, <2>2, <2>3
<1> QED
  BY <1>4, <1>5

(* The invariant holds at all times.                                        *)
LEMMA Invariant == Spec => []IInv
  BY InvInit, InvNext, PTL DEF Spec

(* The list of maps has no map twice and misses none that the program can  *)
(* reach, so Map::RehashAll rehashes every map it must, once.              *)
THEOREM TypeCorrect == Spec => []TypeOK
<1>1. IInv => TypeOK
  BY TypeOKHolds
<1> QED
  BY <1>1, Invariant, PTL

(* BaseMap::Apply and Fold meet every key of a map once, and GetSize is    *)
(* their number, whatever collections have moved.                          *)
THEOREM EntriesMetOnce == Spec => []EachEntryOnce
<1>1. IInv => EachEntryOnce
  BY EntriesFound DEF EachEntryOnce
<1> QED
  BY <1>1, Invariant, PTL

(* BaseMap::Get finds in every map what was put there last.                *)
THEOREM MapIsDictionary == Spec => []IsDictionary
<1>1. IInv => IsDictionary
  BY LooksUp DEF IsDictionary
<1> QED
  BY <1>1, Invariant, PTL

=============================================================================
