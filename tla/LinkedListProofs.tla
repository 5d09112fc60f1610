-------------------------- MODULE LinkedListProofs --------------------------
(***************************************************************************)
(* Proofs about LinkedList, for any items and any finite set of addresses. *)
(*                                                                         *)
(* The argument: the nodes of a list are a chain, that is, there is an     *)
(* order of them in which every pointer leads to the next or the one       *)
(* before.  The walks meet the nodes in that order, and every operation    *)
(* leaves a chain.                                                         *)
(***************************************************************************)
EXTENDS LinkedList, FiniteSetTheorems, TLAPS

\* o is the order of all the nodes there are, from the head to the tail.
Chain(o, n) ==
    /\ o \in [1..n -> Nodes]
    /\ \A i, j \in 1..n : o[i] = o[j] => i = j
    /\ Allocated = {o[i] : i \in 1..n}
    /\ list.head = IF n = 0 THEN Null ELSE o[1]
    /\ list.tail = IF n = 0 THEN Null ELSE o[n]
    /\ \A i \in 1..n :
         /\ node[o[i]].front = IF i = n THEN Null ELSE o[i + 1]
         /\ node[o[i]].back = IF i = 1 THEN Null ELSE o[i - 1]

ListInv ==
    /\ TypeOK
    /\ IF list = Null THEN Allocated = {} ELSE \E o : Chain(o, list.size)

-----------------------------------------------------------------------------
(* Orders, and the walks along one.                                        *)

LEMMA SizeIsNat == Cardinality(Nodes) \in Nat
BY NodesAssumption, FS_CardinalityType

LEMMA LeastElement ==
    ASSUME NEW S \in SUBSET Nat, S # {}
    PROVE  \E x \in S : \A y \in S : x <= y
<1>1. PICK x \in S : \A y \in S : ~ (<<y, x>> \in OpToRel(<, Nat))
    BY NatLessThanWellFounded, WFMin
<1>2. \A y \in S : x <= y
    <2>1. SUFFICES ASSUME NEW y \in S, y < x PROVE FALSE
        OBVIOUS
    <2>2. <<y, x>> \in OpToRel(<, Nat)
        BY <2>1 DEF OpToRel
    <2> QED BY <1>1, <2>2
<1> QED BY <1>2

\* Two walks that begin together stay together.
LEMMA SameWalk ==
    ASSUME NEW n \in Nat, NEW v, NEW w, v[0] = w[0],
           \A i \in 1..n : v[i - 1] = w[i - 1] => v[i] = w[i]
    PROVE  \A i \in 0..n : v[i] = w[i]
<1> DEFINE differ == {i \in 0..n : v[i] # w[i]}
<1>1. ASSUME differ # {} PROVE FALSE
    <2>1. differ \in SUBSET Nat
        OBVIOUS
    <2>2. PICK i \in differ : \A j \in differ : i <= j
        BY <1>1, <2>1, LeastElement
    <2>3. i \in 1..n /\ i - 1 \in 0..n /\ ~(i <= i - 1)
        BY <2>2
    <2> QED BY <2>2, <2>3
<1> QED BY <1>1

\* There are no more nodes than addresses.
LEMMA OrderFits ==
    ASSUME NEW n \in Nat, NEW o \in [1..n -> Nodes], \A i, j \in 1..n : o[i] = o[j] => i = j
    PROVE  n <= Cardinality(Nodes)
<1>1. o \in Injection(1..n, Nodes)
    BY DEF Injection, IsInjective
<1>2. Cardinality(1..n) <= Cardinality(Nodes)
    BY <1>1, NodesAssumption, FS_Injection
<1>3. Cardinality(1..n) = IF 1 > n THEN 0 ELSE n - 1 + 1
    BY FS_Interval
<1> QED BY <1>2, <1>3, SizeIsNat

LEMMA ListTypes ==
    ASSUME TypeOK, list # Null
    PROVE  /\ list \in List /\ list.size \in Nat /\ list.size <= Cardinality(Nodes)
           /\ list = [head |-> list.head, tail |-> list.tail, size |-> list.size]
           /\ node \in [Nodes -> Node \cup {Null}]
           /\ \A n \in Allocated : node[n] \in Node
BY SizeIsNat DEF TypeOK, List, Allocated

\* The walk from the head meets the nodes in their order.
LEMMA FromHeadFacts ==
    ASSUME TypeOK, list # Null, NEW o, Chain(o, list.size)
    PROVE  \A i \in Steps : FromHead[i] = IF i < list.size THEN o[i + 1] ELSE Null
<1> DEFINE f == [i \in Steps |-> IF i < list.size THEN o[i + 1] ELSE Null]
<1>1. list.size \in Nat /\ Cardinality(Nodes) \in Nat
    BY ListTypes, SizeIsNat
<1>2. f[0] = list.head
    BY <1>1 DEF Chain, Steps
<1>3. ASSUME NEW i \in Steps, i # 0 PROVE f[i] = Front(f[i - 1]) /\ i - 1 \in Steps
    <2>1. i - 1 \in Steps /\ i \in Nat /\ i - 1 \in Nat /\ i - 1 + 1 = i
        BY <1>1, <1>3 DEF Steps
    <2>2. CASE i - 1 < list.size
        <3>1. f[i - 1] = o[i] /\ i \in 1..list.size
            BY <1>1, <1>3, <2>1, <2>2
        <3>2. o[i] \in Allocated
            BY <3>1 DEF Chain
        <3>3. node[o[i]].front = IF i = list.size THEN Null ELSE o[i + 1]
            BY <3>1 DEF Chain
        <3> QED BY <1>1, <2>1, <2>2, <3>1, <3>2, <3>3 DEF Front
    <2>3. CASE ~(i - 1 < list.size)
        <3>1. f[i - 1] = Null /\ f[i] = Null
            BY <1>1, <2>1, <2>3
        <3> QED BY <2>1, <3>1, NullAssumption DEF Front, Allocated
    <2> QED BY <2>2, <2>3
<1> DEFINE Walks(g) == g = [i \in Steps |-> IF i = 0 THEN list.head ELSE Front(g[i - 1])]
<1>4. Walks(f)
    <2>1. \A i \in Steps : f[i] = IF i = 0 THEN list.head ELSE Front(f[i - 1])
        BY <1>2, <1>3
    <2> QED BY <2>1, Zenon
<1>5. Walks(FromHead)
    <2>1. FromHead = CHOOSE g : Walks(g)
        BY DEF FromHead
    <2> HIDE DEF Walks, f
    <2> QED BY <1>4, <2>1, Zenon
<1>6. \A i \in Steps : FromHead[i] = IF i = 0 THEN list.head ELSE Front(FromHead[i - 1])
    BY <1>5, Zenon
<1> HIDE DEF f, Walks
<1>7. \A i \in 0..Cardinality(Nodes) : FromHead[i] = f[i]
    <2>1. FromHead[0] = f[0]
        BY <1>1, <1>2, <1>6 DEF Steps
    <2>2. ASSUME NEW i \in 1..Cardinality(Nodes), FromHead[i - 1] = f[i - 1]
          PROVE  FromHead[i] = f[i]
        <3>1. i \in Steps /\ i # 0
            BY <1>1 DEF Steps
        <3> QED BY <1>3, <1>6, <2>2, <3>1
    <2> QED BY <1>1, <2>1, <2>2, SameWalk, SMTT(30)
<1> QED BY <1>7 DEF f, Steps

\* The walk from the tail meets them in the opposite order.
LEMMA FromTailFacts ==
    ASSUME TypeOK, list # Null, NEW o, Chain(o, list.size)
    PROVE  \A i \in Steps : FromTail[i] = IF i < list.size THEN o[list.size - i] ELSE Null
<1> DEFINE f == [i \in Steps |-> IF i < list.size THEN o[list.size - i] ELSE Null]
<1>1. list.size \in Nat /\ Cardinality(Nodes) \in Nat
    BY ListTypes, SizeIsNat
<1>2. f[0] = list.tail
    BY <1>1 DEF Chain, Steps
<1>3. ASSUME NEW i \in Steps, i # 0 PROVE f[i] = Back(f[i - 1]) /\ i - 1 \in Steps
    <2>1. i - 1 \in Steps /\ i \in Nat /\ i - 1 \in Nat /\ i - 1 + 1 = i
        BY <1>1, <1>3 DEF Steps
    <2>2. CASE i - 1 < list.size
        <3> DEFINE k == list.size - (i - 1)
        <3>1. f[i - 1] = o[k] /\ k \in 1..list.size /\ k - 1 = list.size - i
            BY <1>1, <1>3, <2>1, <2>2
        <3> HIDE DEF k
        <3>2. o[k] \in Allocated
            BY <3>1 DEF Chain
        <3>3. node[o[k]].back = IF k = 1 THEN Null ELSE o[k - 1]
            BY <3>1 DEF Chain
        <3>4. k = 1 <=> ~(i < list.size)
            BY <1>1, <2>1, <3>1 DEF k
        <3> QED BY <1>1, <2>1, <2>2, <3>1, <3>2, <3>3, <3>4 DEF Back
    <2>3. CASE ~(i - 1 < list.size)
        <3>1. f[i - 1] = Null /\ f[i] = Null
            BY <1>1, <2>1, <2>3
        <3> QED BY <2>1, <3>1, NullAssumption DEF Back, Allocated
    <2> QED BY <2>2, <2>3
<1> DEFINE Walks(g) == g = [i \in Steps |-> IF i = 0 THEN list.tail ELSE Back(g[i - 1])]
<1>4. Walks(f)
    <2>1. \A i \in Steps : f[i] = IF i = 0 THEN list.tail ELSE Back(f[i - 1])
        BY <1>2, <1>3
    <2> QED BY <2>1, Zenon
<1>5. Walks(FromTail)
    <2>1. FromTail = CHOOSE g : Walks(g)
        BY DEF FromTail
    <2> HIDE DEF Walks, f
    <2> QED BY <1>4, <2>1, Zenon
<1>6. \A i \in Steps : FromTail[i] = IF i = 0 THEN list.tail ELSE Back(FromTail[i - 1])
    BY <1>5, Zenon
<1> HIDE DEF f, Walks
<1>7. \A i \in 0..Cardinality(Nodes) : FromTail[i] = f[i]
    <2>1. FromTail[0] = f[0]
        BY <1>1, <1>2, <1>6 DEF Steps
    <2>2. ASSUME NEW i \in 1..Cardinality(Nodes), FromTail[i - 1] = f[i - 1]
          PROVE  FromTail[i] = f[i]
        <3>1. i \in Steps /\ i # 0
            BY <1>1 DEF Steps
        <3> QED BY <1>3, <1>6, <2>2, <3>1
    <2> QED BY <1>1, <2>1, <2>2, SameWalk
<1> QED BY <1>7 DEF f, Steps

\* get_index finds the node of an index from either end.
LEMMA IndexFacts ==
    ASSUME TypeOK, list # Null, NEW o, Chain(o, list.size), NEW i \in Steps
    PROVE  Index(i) = IF i >= list.size THEN Null ELSE o[i + 1]
<1>1. list.size \in Nat /\ Cardinality(Nodes) \in Nat /\ list.size <= Cardinality(Nodes)
    BY ListTypes, SizeIsNat
<1>2. CASE i >= list.size
    BY <1>2 DEF Index
<1>3. CASE i < list.size
    <2>1. FromHead[i] = o[i + 1]
        BY <1>3, FromHeadFacts
    <2>2. /\ list.size - 1 - i \in Steps /\ list.size - 1 - i < list.size
          /\ list.size - (list.size - 1 - i) = i + 1
        BY <1>1, <1>3 DEF Steps
    <2>3. FromTail[list.size - 1 - i] = o[i + 1]
        BY <2>2, FromTailFacts
    <2>4. ~(i >= list.size)
        BY <1>1, <1>3 DEF Steps
    <2> QED BY <2>1, <2>3, <2>4 DEF Index
<1> QED BY <1>1, <1>2, <1>3 DEF Steps

-----------------------------------------------------------------------------
(* A chain grows and shrinks by one node.                                  *)

\* The orders with a node put in at k, and with that at k taken out.
With(o, n, k, new) == [i \in 1..(n + 1) |-> IF i < k THEN o[i] ELSE IF i = k THEN new ELSE o[i - 1]]
WithoutAt(o, n, k) == [i \in 1..(n - 1) |-> IF i < k THEN o[i] ELSE o[i + 1]]

\* The pointers of a new node and of its neighbours, and the two ends.
Linked(o, n, k, new, item) ==
    LET before == IF k = 1 THEN Null ELSE o[k - 1]
        after  == IF k = n + 1 THEN Null ELSE o[k]
    IN  /\ node' = [m \in Nodes |->
             IF m = new THEN [front |-> after, back |-> before, item |-> item]
             ELSE IF m = before THEN [node[m] EXCEPT !.front = new]
             ELSE IF m = after THEN [node[m] EXCEPT !.back = new]
             ELSE node[m]]
        /\ list' = [head |-> IF k = 1 THEN new ELSE list.head,
                    tail |-> IF k = n + 1 THEN new ELSE list.tail, size |-> n + 1]

LEMMA ChainGrows ==
    ASSUME TypeOK, list # Null, NEW n \in Nat, n = list.size, NEW o, Chain(o, n),
           NEW k \in 1..(n + 1), NEW new \in Nodes, new \notin Allocated, NEW item \in Items,
           Linked(o, n, k, new, item)
    PROVE  /\ Chain(With(o, n, k, new), n + 1)'
           /\ list' \in List /\ list'.size = n + 1
           /\ node' \in [Nodes -> Node \cup {Null}]
           /\ node'[new].item = item
           /\ \A i \in 1..n : node'[o[i]].item = node[o[i]].item
<1> DEFINE p      == With(o, n, k, new)
           before == IF k = 1 THEN Null ELSE o[k - 1]
           after  == IF k = n + 1 THEN Null ELSE o[k]
<1>1. /\ o \in [1..n -> Nodes]
      /\ \A i, j \in 1..n : o[i] = o[j] => i = j
      /\ \A i \in 1..n : o[i] \in Allocated /\ o[i] # new /\ o[i] # Null /\ node[o[i]] \in Node
    BY ListTypes, NullAssumption DEF Chain
<1>2. /\ p \in [1..(n + 1) -> Nodes]
      /\ \A i, j \in 1..(n + 1) : p[i] = p[j] => i = j
      /\ \A i \in 1..(n + 1) : p[i] = IF i < k THEN o[i] ELSE IF i = k THEN new ELSE o[i - 1]
    BY <1>1 DEF With
<1>3. n + 1 <= Cardinality(Nodes)
    <2> HIDE DEF p
    <2>1. n + 1 \in Nat
        OBVIOUS
    <2> QED BY <1>2, <2>1, OrderFits
<1>4. /\ before \in Nodes \cup {Null} /\ after \in Nodes \cup {Null}
      /\ before # new /\ after # new /\ new # Null
      /\ before # Null => before # after
    BY <1>1, NullAssumption
<1>5. /\ list' = [head |-> IF k = 1 THEN new ELSE list.head,
                  tail |-> IF k = n + 1 THEN new ELSE list.tail, size |-> n + 1]
      /\ \A m \in Nodes : node'[m] =
             IF m = new THEN [front |-> after, back |-> before, item |-> item]
             ELSE IF m = before THEN [node[m] EXCEPT !.front = new]
             ELSE IF m = after THEN [node[m] EXCEPT !.back = new]
             ELSE node[m]
      /\ DOMAIN node' = Nodes
      /\ node' = [m \in Nodes |-> node'[m]]
    BY DEF Linked
<1>6. list' \in List /\ list'.size = n + 1
    BY <1>3, <1>5, SizeIsNat, ListTypes DEF List
<1>7. \A m \in Nodes :
        m = before \/ m = after => m \in Allocated /\ node[m] \in Node
    BY <1>1, NullAssumption
<1> HIDE DEF before, after
<1>8. \A m \in Nodes :
        /\ node'[m] \in Node \cup {Null}
        /\ node'[m] # Null <=> (m = new \/ m \in Allocated)
        /\ m # new /\ m \in Allocated =>
             /\ node'[m].item = node[m].item
             /\ node'[m].front = IF m = before THEN new ELSE node[m].front
             /\ node'[m].back = IF m = after THEN new ELSE node[m].back
    <2>1. [front |-> after, back |-> before, item |-> item] \in Node
        BY <1>4 DEF Node
    <2>2. \A m \in Nodes : node[m] \in Node \cup {Null}
        BY ListTypes
    <2>3. Null \notin Node
        BY NullAssumption
    <2>4. before \in Nodes => before # after
        BY <1>4, NullAssumption
    <2> TAKE m \in Nodes
    <2>5. CASE m = new
        BY <1>5, <2>1, <2>3, <2>5
    <2>6. CASE m # new /\ m = before
        <3>1. node'[m] = [node[m] EXCEPT !.front = new] /\ m # after
            BY <1>5, <2>4, <2>6
        <3>2. node[m] \in Node /\ m \in Allocated
            BY <1>7, <2>6
        <3>3. /\ node'[m] \in Node /\ node'[m].item = node[m].item
              /\ node'[m].front = new /\ node'[m].back = node[m].back
            BY <3>1, <3>2 DEF Node
        <3> QED BY <2>3, <2>6, <3>1, <3>2, <3>3
    <2>7. CASE m # new /\ m # before /\ m = after
        <3>1. node'[m] = [node[m] EXCEPT !.back = new]
            BY <1>5, <2>7
        <3>2. node[m] \in Node /\ m \in Allocated
            BY <1>7, <2>7
        <3>3. /\ node'[m] \in Node /\ node'[m].item = node[m].item
              /\ node'[m].back = new /\ node'[m].front = node[m].front
            BY <3>1, <3>2 DEF Node
        <3> QED BY <2>3, <2>7, <3>1, <3>2, <3>3
    <2>8. CASE m # new /\ m # before /\ m # after
        BY <1>5, <2>2, <2>8 DEF Allocated
    <2> QED BY <2>5, <2>6, <2>7, <2>8
<1>9. Allocated' = {p[i] : i \in 1..(n + 1)}
    <2>1. Allocated' = Allocated \cup {new}
        BY <1>8 DEF Allocated
    <2>2. Allocated = {o[i] : i \in 1..n}
        BY DEF Chain
    <2>3. \A i \in 1..n : \E j \in 1..(n + 1) : p[j] = o[i]
        <3>1. TAKE i \in 1..n
        <3>2. CASE i < k
            BY <1>2, <3>2
        <3>3. CASE i >= k
            <4>1. i + 1 \in 1..(n + 1) /\ p[i + 1] = o[i]
                BY <1>2, <3>3
            <4> QED BY <4>1
        <3> QED BY <3>2, <3>3
    <2>4. \A j \in 1..(n + 1) : p[j] = new \/ \E i \in 1..n : p[j] = o[i]
        <3>1. TAKE j \in 1..(n + 1)
        <3>2. CASE j < k
            BY <1>2, <3>2
        <3>3. CASE j > k
            <4>1. j - 1 \in 1..n /\ p[j] = o[j - 1]
                BY <1>2, <3>3
            <4> QED BY <4>1
        <3> QED BY <1>2, <3>2, <3>3
    <2>5. p[k] = new
        BY <1>2
    <2> HIDE DEF p
    <2> QED BY <2>1, <2>2, <2>3, <2>4, <2>5
<1>10. /\ list'.head = IF n + 1 = 0 THEN Null ELSE p[1]
       /\ list'.tail = IF n + 1 = 0 THEN Null ELSE p[n + 1]
    <2>1. /\ list.head = IF n = 0 THEN Null ELSE o[1]
          /\ list.tail = IF n = 0 THEN Null ELSE o[n]
        BY DEF Chain
    <2>2. p[1] = IF k = 1 THEN new ELSE o[1]
        BY <1>2
    <2>3. p[n + 1] = IF k = n + 1 THEN new ELSE o[n]
        BY <1>2
    <2>4. n = 0 => k = 1 /\ k = n + 1
        OBVIOUS
    <2> HIDE DEF p
    <2> QED BY <1>5, <2>1, <2>2, <2>3, <2>4
<1>11. ASSUME NEW i \in 1..(n + 1)
       PROVE  /\ node'[p[i]].front = IF i = n + 1 THEN Null ELSE p[i + 1]
              /\ node'[p[i]].back = IF i = 1 THEN Null ELSE p[i - 1]
    <2> HIDE DEF p
    <2>1. CASE i = k
        <3>1. p[i] = new /\ node'[new].front = after /\ node'[new].back = before
            BY <1>2, <1>5, <2>1
        <3>2. after = IF i = n + 1 THEN Null ELSE p[i + 1]
            BY <1>2, <2>1 DEF after
        <3>3. before = IF i = 1 THEN Null ELSE p[i - 1]
            BY <1>2, <2>1 DEF before
        <3> QED BY <3>1, <3>2, <3>3
    <2>2. CASE i < k
        <3>1. p[i] = o[i] /\ i \in 1..n /\ i # n + 1
            BY <1>2, <2>2
        <3>2. o[i] = before <=> i = k - 1
            BY <1>1, <2>2, <3>1 DEF before
        <3>3. o[i] # after
            BY <1>1, <2>2, <3>1 DEF after
        <3>4. /\ node[o[i]].front = IF i = n THEN Null ELSE o[i + 1]
              /\ node[o[i]].back = IF i = 1 THEN Null ELSE o[i - 1]
            BY <3>1 DEF Chain
        <3>5. p[i + 1] = IF i = k - 1 THEN new ELSE o[i + 1]
            BY <1>2, <2>2
        <3>6. i # 1 => p[i - 1] = o[i - 1]
            BY <1>2, <2>2
        <3>7. i = n => i = k - 1
            BY <2>2
        <3> QED BY <1>1, <1>8, <3>1, <3>2, <3>3, <3>4, <3>5, <3>6, <3>7
    <2>3. CASE i > k
        <3>1. p[i] = o[i - 1] /\ i - 1 \in 1..n /\ i # 1 /\ i - 1 + 1 = i
            BY <1>2, <2>3
        <3>2. o[i - 1] # before
            BY <1>1, <2>3, <3>1 DEF before
        <3>3. o[i - 1] = after <=> i - 1 = k
            BY <1>1, <2>3, <3>1 DEF after
        <3>4. /\ node[o[i - 1]].front = IF i - 1 = n THEN Null ELSE o[i]
              /\ node[o[i - 1]].back = IF i - 1 = 1 THEN Null ELSE o[i - 1 - 1]
            BY <3>1 DEF Chain
        <3>5. p[i - 1] = IF i - 1 = k THEN new ELSE o[i - 1 - 1]
            BY <1>2, <2>3
        <3>6. i # n + 1 => p[i + 1] = o[i]
            <4>1. i # n + 1 => i + 1 \in 1..(n + 1) /\ ~(i + 1 < k) /\ i + 1 # k /\ i + 1 - 1 = i
                BY <2>3
            <4> QED BY <1>2, <4>1
        <3>7. (i - 1 = n <=> i = n + 1) /\ (i - 1 = 1 => i - 1 = k)
            BY <2>3
        <3> QED BY <1>1, <1>8, <3>1, <3>2, <3>3, <3>4, <3>5, <3>6, <3>7
    <2> QED BY <2>1, <2>2, <2>3
<1>12. node' \in [Nodes -> Node \cup {Null}]
    BY <1>5, <1>8
<1>13. node'[new].item = item /\ \A i \in 1..n : node'[o[i]].item = node[o[i]].item
    BY <1>1, <1>5, <1>8
<1> HIDE DEF p
<1> QED BY <1>2, <1>6, <1>9, <1>10, <1>11, <1>12, <1>13 DEF Chain, p

\* linked_list_append puts a node in at the end.
LEMMA AppendLinks ==
    ASSUME TypeOK, list # Null, NEW n \in Nat, n = list.size, NEW o, Chain(o, n),
           NEW item \in Items, AppendNode(item)
    PROVE  \E new \in Nodes \ Allocated : Linked(o, n, n + 1, new, item)
<1>1. PICK new \in Nodes \ Allocated :
        LET fresh == [front |-> Null, back |-> list.tail, item |-> item]
        IN  /\ node' = IF list.tail = Null
                         THEN [node EXCEPT ![new] = fresh]
                         ELSE [node EXCEPT ![new] = fresh, ![list.tail].front = new]
            /\ list' = [head |-> IF list.tail = Null THEN new ELSE list.head,
                        tail |-> new, size |-> list.size + 1]
    BY DEF AppendNode
<1>2. list.tail = IF n + 1 = 1 THEN Null ELSE o[n + 1 - 1]
    BY DEF Chain
<1>3. list.tail = Null <=> n = 0
    BY <1>2, NullAssumption DEF Chain
<1>4. list.tail # new /\ (n # 0 => list.tail \in Nodes) /\ new # Null
    BY <1>2, <1>3, NullAssumption DEF Chain
<1>5. node \in [Nodes -> Node \cup {Null}] /\ n + 1 = n + 1
    BY ListTypes
<1>6. node' = [m \in Nodes |->
             IF m = new THEN [front |-> Null, back |-> list.tail, item |-> item]
             ELSE IF m = list.tail THEN [node[m] EXCEPT !.front = new]
             ELSE IF m = Null THEN [node[m] EXCEPT !.back = new]
             ELSE node[m]]
    <2>1. CASE n = 0
        BY <1>1, <1>3, <1>5, <2>1, NullAssumption
    <2>2. CASE n # 0
        BY <1>1, <1>3, <1>4, <1>5, <2>2, NullAssumption
    <2> QED BY <2>1, <2>2
<1>7. list' = [head |-> IF n + 1 = 1 THEN new ELSE list.head, tail |-> new, size |-> n + 1]
    BY <1>1, <1>3
<1>8. Linked(o, n, n + 1, new, item)
    <2> DEFINE before == IF n + 1 = 1 THEN Null ELSE o[n + 1 - 1]
               after  == IF n + 1 = n + 1 THEN Null ELSE o[n + 1]
    <2>1. before = list.tail /\ after = Null
        BY <1>2
    <2> HIDE DEF before, after
    <2>2. node' = [m \in Nodes |->
             IF m = new THEN [front |-> after, back |-> before, item |-> item]
             ELSE IF m = before THEN [node[m] EXCEPT !.front = new]
             ELSE IF m = after THEN [node[m] EXCEPT !.back = new]
             ELSE node[m]]
        BY <1>6, <2>1
    <2>3. list' = [head |-> IF n + 1 = 1 THEN new ELSE list.head,
                   tail |-> IF n + 1 = n + 1 THEN new ELSE list.tail, size |-> n + 1]
        BY <1>7
    <2> QED BY <2>2, <2>3 DEF Linked, before, after
<1> QED BY <1>8

\* linked_list_insert puts one in before the node it is given.
LEMMA InsertLinks ==
    ASSUME TypeOK, list # Null, NEW n \in Nat, n = list.size, NEW o, Chain(o, n),
           NEW k \in 1..n, NEW item \in Items, InsertBefore(o[k], item)
    PROVE  \E new \in Nodes \ Allocated : Linked(o, n, k, new, item)
<1> DEFINE target == o[k]
           before == IF k = 1 THEN Null ELSE o[k - 1]
<1>1. /\ node[target].back = before /\ target \in Nodes /\ target \in Allocated
      /\ before \in Nodes \cup {Null} /\ before # target
      /\ before # Null => before \in Allocated
      /\ before = Null <=> k = 1
    BY NullAssumption DEF Chain
<1> HIDE DEF target, before
<1>2. PICK new \in Nodes \ Allocated :
        LET fresh  == [front |-> target, back |-> before, item |-> item]
            linked == [node EXCEPT ![new] = fresh, ![target].back = new]
        IN  /\ node' = IF before = Null THEN linked ELSE [linked EXCEPT ![before].front = new]
            /\ list' = [list EXCEPT !.head = IF before = Null THEN new ELSE @, !.size = @ + 1]
    BY <1>1 DEF InsertBefore, target
<1>3. node \in [Nodes -> Node \cup {Null}] /\ new # target /\ new # before
    BY <1>1, <1>2, ListTypes, NullAssumption
<1>4. node' = [m \in Nodes |->
             IF m = new THEN [front |-> target, back |-> before, item |-> item]
             ELSE IF m = before THEN [node[m] EXCEPT !.front = new]
             ELSE IF m = target THEN [node[m] EXCEPT !.back = new]
             ELSE node[m]]
    <2> DEFINE linked == [node EXCEPT ![new] = [front |-> target, back |-> before, item |-> item],
                                      ![target].back = new]
    <2>1. /\ DOMAIN linked = Nodes
          /\ linked = [m \in Nodes |-> linked[m]]
          /\ \A m \in Nodes : linked[m] =
                IF m = new THEN [front |-> target, back |-> before, item |-> item]
                ELSE IF m = target THEN [node[m] EXCEPT !.back = new]
                ELSE node[m]
        BY <1>1, <1>3
    <2>2. node' = IF before = Null THEN linked ELSE [linked EXCEPT ![before].front = new]
        BY <1>2
    <2> HIDE DEF linked
    <2>3. CASE before = Null
        BY <2>1, <2>2, <2>3, NullAssumption
    <2>4. CASE before # Null
        <3>1. node' = [m \in Nodes |-> IF m = before THEN [linked[m] EXCEPT !.front = new] ELSE linked[m]]
            BY <1>1, <2>1, <2>2, <2>4
        <3> QED BY <1>1, <1>3, <2>1, <2>4, <3>1
    <2> QED BY <2>3, <2>4
<1>5. list' = [head |-> IF k = 1 THEN new ELSE list.head,
               tail |-> IF k = n + 1 THEN new ELSE list.tail, size |-> n + 1]
    <2>1. list' = [list EXCEPT !.head = IF before = Null THEN new ELSE list.head, !.size = n + 1]
        BY <1>2, ListTypes
    <2>2. list = [head |-> list.head, tail |-> list.tail, size |-> list.size]
        BY ListTypes
    <2>3. list' = [head |-> IF before = Null THEN new ELSE list.head, tail |-> list.tail, size |-> n + 1]
        BY <2>1, <2>2
    <2>4. k # n + 1
        OBVIOUS
    <2> QED BY <1>1, <2>3, <2>4
<1>6. Linked(o, n, k, new, item)
    <2> DEFINE after == IF k = n + 1 THEN Null ELSE o[k]
    <2>1. after = target
        BY DEF target
    <2> HIDE DEF after
    <2>2. node' = [m \in Nodes |->
             IF m = new THEN [front |-> after, back |-> before, item |-> item]
             ELSE IF m = before THEN [node[m] EXCEPT !.front = new]
             ELSE IF m = after THEN [node[m] EXCEPT !.back = new]
             ELSE node[m]]
        BY <1>4, <2>1
    <2> QED BY <1>5, <2>2 DEF Linked, before, after
<1> QED BY <1>6

\* linked_list_remove takes out the node at k.
LEMMA ChainShrinks ==
    ASSUME TypeOK, list # Null, NEW n \in Nat, n = list.size, NEW o, Chain(o, n),
           NEW k \in 1..n, Unlink(o[k])
    PROVE  /\ Chain(WithoutAt(o, n, k), n - 1)'
           /\ list' \in List /\ list'.size = n - 1
           /\ node' \in [Nodes -> Node \cup {Null}]
           /\ \A i \in 1..n : i # k => node'[o[i]].item = node[o[i]].item
<1> DEFINE p     == WithoutAt(o, n, k)
           gone  == o[k]
           back  == IF k = 1 THEN Null ELSE o[k - 1]
           front == IF k = n THEN Null ELSE o[k + 1]
<1>1. /\ o \in [1..n -> Nodes]
      /\ \A i, j \in 1..n : o[i] = o[j] => i = j
      /\ \A i \in 1..n : o[i] \in Allocated /\ o[i] # Null /\ node[o[i]] \in Node
    BY ListTypes, NullAssumption DEF Chain
<1>2. /\ p \in [1..(n - 1) -> Nodes]
      /\ \A i, j \in 1..(n - 1) : p[i] = p[j] => i = j
      /\ \A i \in 1..(n - 1) : p[i] = IF i < k THEN o[i] ELSE o[i + 1]
    BY <1>1, SMTT(30) DEF WithoutAt
<1>3. /\ gone \in Allocated
      /\ node[gone].back = back /\ node[gone].front = front
      /\ back \in Nodes \cup {Null} /\ front \in Nodes \cup {Null}
      /\ back # gone /\ front # gone
      /\ back # Null => back # front
      /\ back = Null <=> k = 1
      /\ front = Null <=> k = n
    BY <1>1 DEF Chain
<1>4. \A m \in Nodes : m = back \/ m = front => m \in Allocated /\ node[m] \in Node
    BY <1>1, NullAssumption
<1>5. /\ list' = [head |-> IF k = 1 THEN front ELSE list.head,
                  tail |-> IF k = n THEN back ELSE list.tail, size |-> n - 1]
      /\ node' = [m \in Nodes |->
             CASE m = gone -> Null
               [] m = back -> [node[m] EXCEPT !.front = front]
               [] m = front -> [node[m] EXCEPT !.back = back]
               [] OTHER -> node[m]]
    BY <1>3 DEF Unlink
<1>6. list' \in List /\ list'.size = n - 1
    BY <1>3, <1>5, SizeIsNat, ListTypes DEF List
<1> HIDE DEF back, front, gone
<1>7. \A m \in Nodes : node'[m] =
             IF m = gone THEN Null
             ELSE IF m = back THEN [node[m] EXCEPT !.front = front]
             ELSE IF m = front THEN [node[m] EXCEPT !.back = back]
             ELSE node[m]
    <2> TAKE m \in Nodes
    <2>1. m = back => m # front /\ m # gone
        BY <1>3, NullAssumption
    <2>2. m = front => m # gone
        BY <1>3
    <2> QED BY <1>5, <2>1, <2>2
<1>8. \A m \in Nodes :
        /\ node'[m] \in Node \cup {Null}
        /\ node'[m] # Null <=> (m # gone /\ m \in Allocated)
        /\ m # gone /\ m \in Allocated =>
             /\ node'[m].item = node[m].item
             /\ node'[m].front = IF m = back THEN front ELSE node[m].front
             /\ node'[m].back = IF m = front THEN back ELSE node[m].back
    <2>1. Null \notin Node
        BY NullAssumption
    <2>2. \A m \in Nodes : node[m] \in Node \cup {Null}
        BY ListTypes
    <2> TAKE m \in Nodes
    <2>3. CASE m = gone
        BY <1>7, <2>3
    <2>4. CASE m # gone /\ m = back
        <3>1. node'[m] = [node[m] EXCEPT !.front = front] /\ m # front
            BY <1>3, <1>7, <2>4, NullAssumption
        <3>2. node[m] \in Node /\ m \in Allocated
            BY <1>4, <2>4
        <3>3. /\ node'[m] \in Node /\ node'[m].item = node[m].item
              /\ node'[m].front = front /\ node'[m].back = node[m].back
            BY <1>3, <3>1, <3>2 DEF Node
        <3> QED BY <2>1, <2>4, <3>1, <3>2, <3>3
    <2>5. CASE m # gone /\ m # back /\ m = front
        <3>1. node'[m] = [node[m] EXCEPT !.back = back]
            BY <1>7, <2>5
        <3>2. node[m] \in Node /\ m \in Allocated
            BY <1>4, <2>5
        <3>3. /\ node'[m] \in Node /\ node'[m].item = node[m].item
              /\ node'[m].back = back /\ node'[m].front = node[m].front
            BY <1>3, <3>1, <3>2 DEF Node
        <3> QED BY <2>1, <2>5, <3>1, <3>2, <3>3
    <2>6. CASE m # gone /\ m # back /\ m # front
        BY <1>7, <2>2, <2>6 DEF Allocated
    <2> QED BY <2>3, <2>4, <2>5, <2>6
<1>9. Allocated' = {p[i] : i \in 1..(n - 1)}
    <2>1. Allocated' = Allocated \ {gone}
        BY <1>8 DEF Allocated
    <2>2. Allocated = {o[i] : i \in 1..n}
        BY DEF Chain
    <2>3. \A i \in 1..n : i # k => \E j \in 1..(n - 1) : p[j] = o[i]
        <3>1. TAKE i \in 1..n
        <3>2. CASE i < k
            <4>1. i \in 1..(n - 1) /\ p[i] = o[i]
                BY <1>2, <3>2
            <4> QED BY <4>1
        <3>3. CASE i > k
            <4>1. i - 1 \in 1..(n - 1) /\ ~(i - 1 < k) /\ i - 1 + 1 = i
                BY <3>3
            <4>2. p[i - 1] = o[i]
                BY <1>2, <4>1
            <4> QED BY <4>1, <4>2
        <3> QED BY <3>2, <3>3
    <2>4. \A j \in 1..(n - 1) : \E i \in 1..n : i # k /\ p[j] = o[i]
        <3>1. TAKE j \in 1..(n - 1)
        <3>2. CASE j < k
            BY <1>2, <3>2
        <3>3. CASE ~(j < k)
            <4>1. j + 1 \in 1..n /\ j + 1 # k /\ p[j] = o[j + 1]
                BY <1>2, <3>3
            <4> QED BY <4>1
        <3> QED BY <3>2, <3>3
    <2>5. \A i \in 1..n : o[i] = gone <=> i = k
        BY <1>1 DEF gone
    <2> HIDE DEF p
    <2> QED BY <2>1, <2>2, <2>3, <2>4, <2>5
<1> HIDE DEF p
<1>10. /\ list'.head = IF n - 1 = 0 THEN Null ELSE p[1]
       /\ list'.tail = IF n - 1 = 0 THEN Null ELSE p[n - 1]
    <2>1. list.head = o[1] /\ list.tail = o[n]
        BY DEF Chain
    <2>2. n # 1 => p[1] = IF k = 1 THEN o[2] ELSE o[1]
        BY <1>2
    <2>3. n # 1 => p[n - 1] = IF k = n THEN o[n - 1] ELSE o[n]
        BY <1>2
    <2>4. n = 1 => k = 1 /\ k = n
        OBVIOUS
    <2>5. list'.head = (IF k = 1 THEN front ELSE list.head) /\ list'.tail = (IF k = n THEN back ELSE list.tail)
        BY <1>5
    <2>6. (k = 1 => front = IF n = 1 THEN Null ELSE o[2]) /\ (k = n => back = IF n = 1 THEN Null ELSE o[n - 1])
        BY DEF front, back
    <2> QED BY <2>1, <2>2, <2>3, <2>4, <2>5, <2>6
<1>11. ASSUME NEW i \in 1..(n - 1)
       PROVE  /\ node'[p[i]].front = IF i = n - 1 THEN Null ELSE p[i + 1]
              /\ node'[p[i]].back = IF i = 1 THEN Null ELSE p[i - 1]
    <2>1. CASE i < k
        <3>1. p[i] = o[i] /\ i \in 1..n /\ i # n
            BY <1>2, <2>1
        <3>2. o[i] = back <=> i = k - 1
            BY <1>1, <2>1, <3>1 DEF back
        <3>3. o[i] # front /\ o[i] # gone
            BY <1>1, <2>1, <3>1 DEF front, gone
        <3>4. /\ node[o[i]].front = o[i + 1]
              /\ node[o[i]].back = IF i = 1 THEN Null ELSE o[i - 1]
            BY <3>1 DEF Chain
        <3>5. i # n - 1 => p[i + 1] = IF i = k - 1 THEN o[k + 1] ELSE o[i + 1]
            BY <1>2, <2>1
        <3>6. i # 1 => p[i - 1] = o[i - 1]
            BY <1>2, <2>1
        <3>7. i = k - 1 => front = IF i = n - 1 THEN Null ELSE o[k + 1]
            BY DEF front
        <3>8. i = n - 1 => i = k - 1
            BY <2>1
        <3> QED BY <1>1, <1>8, <3>1, <3>2, <3>3, <3>4, <3>5, <3>6, <3>7, <3>8
    <2>2. CASE ~(i < k)
        <3>1. p[i] = o[i + 1] /\ i + 1 \in 1..n /\ i + 1 - 1 = i
            BY <1>2, <2>2
        <3>2. o[i + 1] # back /\ o[i + 1] # gone
            BY <1>1, <2>2, <3>1 DEF back, gone
        <3>3. o[i + 1] = front <=> i = k
            BY <1>1, <2>2, <3>1 DEF front
        <3>4. /\ node[o[i + 1]].front = IF i + 1 = n THEN Null ELSE o[i + 1 + 1]
              /\ node[o[i + 1]].back = o[i]
            BY <3>1 DEF Chain
        <3>5. i # n - 1 => p[i + 1] = o[i + 1 + 1]
            <4>1. i # n - 1 => i + 1 \in 1..(n - 1) /\ ~(i + 1 < k)
                BY <2>2
            <4> QED BY <1>2, <4>1
        <3>6. i # 1 => p[i - 1] = IF i = k THEN o[k - 1] ELSE o[i]
            BY <1>2, <2>2
        <3>7. i = k => back = IF i = 1 THEN Null ELSE o[k - 1]
            BY DEF back
        <3>8. (i + 1 = n <=> i = n - 1) /\ (i = 1 => i = k)
            BY <2>2
        <3> QED BY <1>1, <1>8, <3>1, <3>2, <3>3, <3>4, <3>5, <3>6, <3>7, <3>8
    <2> QED BY <2>1, <2>2
<1>12. node' \in [Nodes -> Node \cup {Null}]
    BY <1>5, <1>8
<1>13. \A i \in 1..n : i # k => node'[o[i]].item = node[o[i]].item
    BY <1>1, <1>8 DEF gone
<1> QED BY <1>2, <1>6, <1>9, <1>10, <1>11, <1>12, <1>13 DEF Chain, p

-----------------------------------------------------------------------------
(* The invariant, action by action.                                        *)

LEMMA InitListInv == Init => ListInv
<1> SUFFICES ASSUME Init PROVE ListInv
    OBVIOUS
<1>1. Allocated = {}
    BY DEF Init, Allocated
<1>2. TypeOK
    BY DEF Init, TypeOK
<1> QED BY <1>1, <1>2 DEF Init, ListInv

LEMMA CreateInv == ASSUME ListInv, Create PROVE ListInv'
<1>1. Allocated = {} /\ TypeOK
    BY DEF ListInv, Create
<1>2. /\ list' = [head |-> Null, tail |-> Null, size |-> 0]
      /\ node' = node /\ ret' = <<"create", "ok">>
    BY DEF Create
<1>3. list' \in List
    BY <1>2, SizeIsNat DEF List
<1>4. TypeOK'
    BY <1>1, <1>2, <1>3 DEF TypeOK, Steps
<1>5. Allocated' = {} /\ list'.size = 0
    BY <1>1, <1>2 DEF Allocated
<1>6. Chain([i \in 1..0 |-> Null], 0)'
    BY <1>2, <1>5 DEF Chain
<1>7. (\E o : Chain(o, list.size))'
    <2>1. list'.size = 0
        BY <1>5
    <2> QED BY <1>6, <2>1
<1>8. list' # Null
    BY <1>3, NullAssumption
<1> QED BY <1>4, <1>7, <1>8 DEF ListInv

\* Both ways of adding a node.
LEMMA LinkedInv ==
    ASSUME TypeOK, list # Null, NEW n \in Nat, n = list.size, NEW o, Chain(o, n),
           NEW k \in 1..(n + 1), NEW new \in Nodes, new \notin Allocated, NEW item \in Items,
           Linked(o, n, k, new, item),
           \/ ret' = <<"append", "ok">>
           \/ \E index \in Steps : ret' = <<"insert", index, "ok">>
    PROVE  ListInv'
<1>1. /\ Chain(With(o, n, k, new), n + 1)'
      /\ list' \in List /\ list'.size = n + 1
      /\ node' \in [Nodes -> Node \cup {Null}]
    BY ChainGrows
<1>2. TypeOK'
    BY <1>1 DEF TypeOK, Steps
<1>3. (\E p : Chain(p, list.size))'
    BY <1>1
<1>4. list' # Null
    BY <1>1, NullAssumption
<1> QED BY <1>2, <1>3, <1>4 DEF ListInv

LEMMA UnlinkInv ==
    ASSUME TypeOK, list # Null, NEW n \in Nat, n = list.size, NEW o, Chain(o, n),
           NEW k \in 1..n, Unlink(o[k]),
           \/ ret' = <<"remove", "ok">>
           \/ \E index \in Steps : ret' = <<"pop", index, "ok">>
    PROVE  ListInv'
<1>1. /\ Chain(WithoutAt(o, n, k), n - 1)'
      /\ list' \in List /\ list'.size = n - 1
      /\ node' \in [Nodes -> Node \cup {Null}]
    BY ChainShrinks
<1>2. TypeOK'
    BY <1>1 DEF TypeOK, Steps
<1>3. (\E p : Chain(p, list.size))'
    BY <1>1
<1>4. list' # Null
    BY <1>1, NullAssumption
<1> QED BY <1>2, <1>3, <1>4 DEF ListInv

\* The loop of linked_list_clear frees every node.
LEMMA FreesAll ==
    ASSUME TypeOK, list # Null, NEW o, Chain(o, list.size), FreeAll
    PROVE  Allocated' = {} /\ node' \in [Nodes -> Node \cup {Null}]
<1>1. /\ list.size \in Nat /\ list.size <= Cardinality(Nodes) /\ Cardinality(Nodes) \in Nat
      /\ node \in [Nodes -> Node \cup {Null}]
    BY ListTypes, SizeIsNat
<1>2. ASSUME NEW m \in Allocated PROVE \E i \in Steps : FromHead[i] = m
    <2>1. PICK i \in 1..list.size : o[i] = m
        BY <1>2 DEF Chain
    <2>2. i - 1 \in Steps /\ i - 1 < list.size /\ i - 1 + 1 = i
        BY <1>1 DEF Steps
    <2>3. FromHead[i - 1] = m
        BY <2>1, <2>2, FromHeadFacts
    <2> QED BY <2>2, <2>3
<1>3. \A m \in Nodes : node'[m] = Null
    BY <1>1, <1>2 DEF FreeAll, Allocated
<1>4. node' \in [Nodes -> Node \cup {Null}]
    BY <1>1 DEF FreeAll
<1> QED BY <1>3, <1>4 DEF Allocated


LEMMA ClearInv == ASSUME ListInv, list # Null, Clear \/ Dispose PROVE ListInv'
<1>1. PICK o : Chain(o, list.size)
    BY DEF ListInv
<1>2. Allocated' = {} /\ node' \in [Nodes -> Node \cup {Null}]
    BY <1>1, FreesAll DEF ListInv, Clear, Dispose
<1>3. CASE Clear
    <2>1. list' = [head |-> Null, tail |-> Null, size |-> 0] /\ list' \in List
        BY <1>3, SizeIsNat DEF Clear, List
    <2>2. TypeOK'
        BY <1>2, <1>3, <2>1 DEF Clear, TypeOK
    <2>3. Chain([i \in 1..0 |-> Null], 0)'
        BY <1>2, <2>1 DEF Chain
    <2>4. (\E p : Chain(p, list.size))'
        BY <2>1, <2>3
    <2> QED BY <2>1, <2>2, <2>4, NullAssumption DEF ListInv
<1>4. CASE Dispose
    BY <1>2, <1>4 DEF Dispose, ListInv, TypeOK
<1> QED BY <1>3, <1>4

\* A call that changes no pointer.
LEMMA SameListInv ==
    ASSUME ListInv, list' = list, node' = node, TypeOK'
    PROVE  ListInv'
BY DEF ListInv, Chain, Allocated

LEMMA GetInv == ASSUME ListInv, list # Null, NEW index \in Steps, GetIndex(index) PROVE ListInv'
<1>1. PICK o : Chain(o, list.size)
    BY DEF ListInv
<1>2. TypeOK
    BY DEF ListInv
<1>3. Index(index) # Null => node[Index(index)].item \in Items
    <2>1. Index(index) # Null => Index(index) \in Allocated
        <3>1. Index(index) = IF index >= list.size THEN Null ELSE o[index + 1]
            BY <1>1, <1>2, IndexFacts
        <3>2. ~(index >= list.size) => index + 1 \in 1..list.size
            BY <1>2, ListTypes, SizeIsNat DEF Steps
        <3> QED BY <1>1, <3>1, <3>2 DEF Chain
    <2> QED BY <1>2, <2>1, ListTypes DEF Node
<1>4. TypeOK'
    BY <1>2, <1>3 DEF TypeOK, GetIndex
<1> QED BY <1>4, SameListInv DEF GetIndex

LEMMA AppendInv ==
    ASSUME ListInv, list # Null, NEW item \in Items, AppendNode(item),
           \/ ret' = <<"append", "ok">>
           \/ \E index \in Steps : ret' = <<"insert", index, "ok">>
    PROVE  ListInv'
<1>1. PICK o : Chain(o, list.size)
    BY DEF ListInv
<1>2. TypeOK
    BY DEF ListInv
<1>3. list.size \in Nat /\ list.size + 1 \in 1..(list.size + 1)
    BY <1>2, ListTypes
<1>4. PICK new \in Nodes \ Allocated : Linked(o, list.size, list.size + 1, new, item)
    BY <1>1, <1>2, <1>3, AppendLinks
<1> QED BY <1>1, <1>2, <1>3, <1>4, LinkedInv

LEMMA InsertInv ==
    ASSUME ListInv, list # Null, NEW index \in Steps, NEW item \in Items, Insert(index, item)
    PROVE  ListInv'
<1>1. PICK o : Chain(o, list.size)
    BY DEF ListInv
<1>2. TypeOK /\ list.size \in Nat
    BY ListTypes DEF ListInv
<1>3. ret' = <<"insert", index, "ok">>
    BY DEF Insert
<1>4. CASE index >= list.size
    BY <1>3, <1>4, AppendInv DEF Insert
<1>5. CASE ~(index >= list.size)
    <2>1. index + 1 \in 1..list.size /\ index + 1 \in 1..(list.size + 1)
        BY <1>2, <1>5, SizeIsNat DEF Steps
    <2>2. Index(index) = o[index + 1]
        BY <1>1, <1>2, <1>5, IndexFacts
    <2>3. InsertBefore(o[index + 1], item)
        BY <1>5, <2>2 DEF Insert
    <2>4. PICK new \in Nodes \ Allocated : Linked(o, list.size, index + 1, new, item)
        BY <1>1, <1>2, <2>1, <2>3, InsertLinks
    <2> QED BY <1>1, <1>2, <1>3, <2>1, <2>4, LinkedInv
<1> QED BY <1>4, <1>5

LEMMA PopInv == ASSUME ListInv, list # Null, NEW index \in Steps, Pop(index) PROVE ListInv'
<1>1. PICK o : Chain(o, list.size)
    BY DEF ListInv
<1>2. TypeOK /\ list.size \in Nat
    BY ListTypes DEF ListInv
<1>3. Index(index) = IF index >= list.size THEN Null ELSE o[index + 1]
    BY <1>1, <1>2, IndexFacts
<1>4. CASE Index(index) = Null
    <2>1. ret' = <<"pop", index, "fail">> /\ list' = list /\ node' = node
        BY <1>4 DEF Pop
    <2>2. TypeOK'
        BY <1>2, <2>1 DEF TypeOK
    <2> QED BY <2>1, <2>2, SameListInv
<1>5. CASE Index(index) # Null
    <2>1. index + 1 \in 1..list.size /\ Index(index) = o[index + 1]
        BY <1>2, <1>3, <1>5, SizeIsNat DEF Steps
    <2>2. ret' = <<"pop", index, "ok">> /\ Unlink(o[index + 1])
        BY <1>5, <2>1 DEF Pop
    <2> QED BY <1>1, <1>2, <2>1, <2>2, UnlinkInv
<1> QED BY <1>4, <1>5

LEMMA RemoveInv == ASSUME ListInv, list # Null, NEW n \in Allocated, Remove(n) PROVE ListInv'
<1>1. PICK o : Chain(o, list.size)
    BY DEF ListInv
<1>2. TypeOK /\ list.size \in Nat
    BY ListTypes DEF ListInv
<1>3. PICK k \in 1..list.size : o[k] = n
    BY <1>1 DEF Chain
<1>4. Unlink(o[k]) /\ ret' = <<"remove", "ok">>
    BY <1>3 DEF Remove
<1> QED BY <1>1, <1>2, <1>4, UnlinkInv

LEMMA NextListInv == ASSUME ListInv, [Next]_vars PROVE ListInv'
<1>1. CASE Create
    BY <1>1, CreateInv
<1>2. CASE list # Null /\ OutOfMemory
    <2>1. TypeOK'
        BY <1>2 DEF ListInv, TypeOK, OutOfMemory
    <2> QED BY <1>2, <2>1, SameListInv DEF OutOfMemory
<1>3. CASE list # Null /\ (Clear \/ Dispose)
    BY <1>3, ClearInv
<1>4. ASSUME list # Null, NEW item \in Items, Append(item) PROVE ListInv'
    BY <1>4, AppendInv DEF Append
<1>5. ASSUME list # Null, NEW index \in Steps, NEW item \in Items, Insert(index, item) PROVE ListInv'
    BY <1>5, InsertInv
<1>6. ASSUME list # Null, NEW index \in Steps, GetIndex(index) PROVE ListInv'
    BY <1>6, GetInv
<1>7. ASSUME list # Null, NEW index \in Steps, Pop(index) PROVE ListInv'
    BY <1>7, PopInv
<1>8. ASSUME list # Null, NEW n \in Allocated, Remove(n) PROVE ListInv'
    BY <1>8, RemoveInv
<1>9. CASE UNCHANGED vars
    BY <1>9, SameListInv DEF vars, ListInv, TypeOK
<1> QED BY <1>1, <1>2, <1>3, <1>4, <1>5, <1>6, <1>7, <1>8, <1>9 DEF Next

\* The nodes of the list always form a chain from its head to its tail, as
\* long as its size, whatever mixture of linked_list_append, _insert, _pop,
\* _remove and _clear came before.
THEOREM ListInvariance == Spec => []ListInv
BY InitListInv, NextListInv, PTL DEF Spec

\* The list, its nodes and the results of its calls have their types: the
\* size stays between none and the number of allocations there can be.
THEOREM ListTypeCorrect == Spec => []TypeOK
<1>1. ListInv => TypeOK
    BY DEF ListInv
<1> QED BY <1>1, ListInvariance, PTL

LEMMA ChainDirections == ListInv => DirectionsAgree
<1> SUFFICES ASSUME ListInv, list # Null PROVE DirectionsAgree
    BY DEF DirectionsAgree
<1>1. PICK o : Chain(o, list.size)
    BY DEF ListInv
<1>2. TypeOK /\ list.size \in Steps /\ list.size \in Nat /\ Cardinality(Nodes) \in Nat
    BY ListTypes, SizeIsNat DEF ListInv, Steps
<1>3. FromHead[list.size] = Null /\ FromTail[list.size] = Null
    BY <1>1, <1>2, FromHeadFacts, FromTailFacts
<1>4. ASSUME NEW i \in Steps, i < list.size
      PROVE  FromHead[i] # Null /\ FromHead[i] = FromTail[list.size - 1 - i]
    <2>1. /\ list.size - 1 - i \in Steps /\ list.size - 1 - i < list.size
          /\ list.size - (list.size - 1 - i) = i + 1 /\ i + 1 \in 1..list.size
        BY <1>2, <1>4 DEF Steps
    <2>2. FromHead[i] = o[i + 1]
        BY <1>1, <1>2, <1>4, FromHeadFacts
    <2>3. FromTail[list.size - 1 - i] = o[i + 1]
        BY <1>1, <1>2, <2>1, FromTailFacts
    <2>4. o[i + 1] # Null
        BY <1>1, <2>1, NullAssumption DEF Chain
    <2> QED BY <2>2, <2>3, <2>4
<1> QED BY <1>3, <1>4 DEF DirectionsAgree

\* The walk from the tail meets the nodes of the walk from the head in the
\* opposite order, both as many as the size says: linked_list_get_index
\* finds the same node from either end.
THEOREM BothDirections == Spec => []DirectionsAgree
BY ListInvariance, ChainDirections, PTL

LEMMA ChainReaches == ListInv => NodesReachable
<1> SUFFICES ASSUME ListInv, list # Null PROVE NodesReachable
    BY DEF ListInv, NodesReachable
<1>1. PICK o : Chain(o, list.size)
    BY DEF ListInv
<1>2. /\ TypeOK /\ list.size \in Nat /\ Cardinality(Nodes) \in Nat
      /\ list.size <= Cardinality(Nodes)
    BY ListTypes, SizeIsNat DEF ListInv
<1>3. \A i \in Steps : FromHead[i] = IF i < list.size THEN o[i + 1] ELSE Null
    BY <1>1, <1>2, FromHeadFacts
<1>4. ASSUME NEW m \in Allocated PROVE m # Null /\ \E i \in Steps : FromHead[i] = m
    <2>1. PICK k \in 1..list.size : o[k] = m
        BY <1>1 DEF Chain
    <2>2. k - 1 \in Steps /\ k - 1 < list.size /\ k - 1 + 1 = k
        BY <1>2 DEF Steps
    <2>3. FromHead[k - 1] = m
        BY <1>3, <2>1, <2>2
    <2> QED BY <2>2, <2>3, NullAssumption DEF Allocated
<1>5. ASSUME NEW i \in Steps, FromHead[i] # Null PROVE FromHead[i] \in Allocated
    <2>1. i < list.size /\ FromHead[i] = o[i + 1]
        BY <1>3, <1>5
    <2>2. i + 1 \in 1..list.size
        BY <1>2, <2>1 DEF Steps
    <2> QED BY <1>1, <2>1, <2>2 DEF Chain
<1> QED BY <1>4, <1>5 DEF NodesReachable

\* The nodes allocated are those of the list: linked_list_pop, _remove and
\* _clear free what they unlink and nothing else, and nothing is lost.
THEOREM NothingLeaks == Spec => []NodesReachable
BY ListInvariance, ChainReaches, PTL


-----------------------------------------------------------------------------
(* The list implements the sequence of ItemSequence.                       *)

LEMMA FunctionIsSeq ==
    ASSUME NEW T, NEW n \in Nat, NEW s \in [1..n -> T]
    PROVE  s \in AsSequence!Seq(T) /\ AsSequence!Len(s) = n
OBVIOUS

\* The operators on sequences, index by index.
LEMMA AppendAt ==
    ASSUME NEW T, NEW n \in Nat, NEW s \in [1..n -> T], NEW x \in T
    PROVE  AsSequence!Append(s, x) = [i \in 1..(n + 1) |-> IF i < n + 1 THEN s[i] ELSE x]
<1> DEFINE t == AsSequence!Append(s, x)
<1>1. s \in AsSequence!Seq(T) /\ AsSequence!Len(s) = n
    BY FunctionIsSeq
<1>2. t \in AsSequence!Seq(T) /\ AsSequence!Len(t) = n + 1
    BY <1>1
<1>3. \A i \in 1..(n + 1) : t[i] = IF i < n + 1 THEN s[i] ELSE x
    BY <1>1
<1> HIDE DEF t
<1>4. t \in [1..(n + 1) -> T]
    BY <1>2
<1>5. t = [i \in 1..(n + 1) |-> t[i]]
    BY <1>4
<1> QED BY <1>3, <1>5 DEF t

LEMMA InsertAtIndex ==
    ASSUME NEW T, NEW n \in Nat, NEW s \in [1..n -> T], NEW k \in 1..n, NEW x \in T
    PROVE  AsSequence!InsertAt(s, k, x) =
             [i \in 1..(n + 1) |-> IF i < k THEN s[i] ELSE IF i = k THEN x ELSE s[i - 1]]
<1>1. s \in AsSequence!Seq(T) /\ AsSequence!Len(s) = n
    BY FunctionIsSeq
<1> QED BY <1>1 DEF AsSequence!InsertAt

\* Inserting at the end is appending.
LEMMA InsertAtEnd ==
    ASSUME NEW T, NEW n \in Nat, NEW s \in [1..n -> T], NEW x \in T
    PROVE  AsSequence!InsertAt(s, n + 1, x) = AsSequence!Append(s, x)
<1>1. s \in AsSequence!Seq(T) /\ AsSequence!Len(s) = n
    BY FunctionIsSeq
<1>2. AsSequence!InsertAt(s, n + 1, x) =
        [i \in 1..(n + 1) |-> IF i < n + 1 THEN s[i] ELSE IF i = n + 1 THEN x ELSE s[i - 1]]
    BY <1>1 DEF AsSequence!InsertAt
<1>3. \A i \in 1..(n + 1) :
        (IF i < n + 1 THEN s[i] ELSE IF i = n + 1 THEN x ELSE s[i - 1])
          = (IF i < n + 1 THEN s[i] ELSE x)
    OBVIOUS
<1>4. AsSequence!Append(s, x) = [i \in 1..(n + 1) |-> IF i < n + 1 THEN s[i] ELSE x]
    BY AppendAt
<1> QED BY <1>2, <1>3, <1>4

LEMMA RemoveAtIndex ==
    ASSUME NEW T, NEW n \in Nat, NEW s \in [1..n -> T], NEW k \in 1..n
    PROVE  AsSequence!RemoveAt(s, k) = [i \in 1..(n - 1) |-> IF i < k THEN s[i] ELSE s[i + 1]]
<1>1. s \in AsSequence!Seq(T) /\ AsSequence!Len(s) = n
    BY FunctionIsSeq
<1> QED BY <1>1 DEF AsSequence!RemoveAt

\* What a caller finds are the items of the chain.
LEMMA ContentsOfChain ==
    TypeOK /\ list # Null => \A o : Chain(o, list.size) =>
        /\ Contents = [i \in 1..list.size |-> node[o[i]].item]
        /\ Contents \in [1..list.size -> Items]
        /\ Contents # Null
<1> SUFFICES ASSUME TypeOK, list # Null, NEW o, Chain(o, list.size)
             PROVE  /\ Contents = [i \in 1..list.size |-> node[o[i]].item]
                    /\ Contents \in [1..list.size -> Items]
                    /\ Contents # Null
    OBVIOUS
<1>1. list.size \in Nat /\ list.size <= Cardinality(Nodes) /\ Cardinality(Nodes) \in Nat
    BY ListTypes, SizeIsNat
<1>2. ASSUME NEW i \in 1..list.size PROVE FromHead[i - 1] = o[i] /\ node[o[i]].item \in Items
    <2>1. i - 1 \in Steps /\ i - 1 < list.size /\ i - 1 + 1 = i
        BY <1>1 DEF Steps
    <2>2. o[i] \in Allocated
        BY DEF Chain
    <2> QED BY <2>1, <2>2, FromHeadFacts, ListTypes DEF Node
<1>3. Contents = [i \in 1..list.size |-> node[FromHead[i - 1]].item]
    BY DEF Contents
<1>4. Contents = [i \in 1..list.size |-> node[o[i]].item]
    BY <1>2, <1>3
<1>5. Contents \in [1..list.size -> Items]
    BY <1>2, <1>4
<1>6. list.size \in 0..Cardinality(Nodes)
    BY <1>1
<1> QED BY <1>4, <1>5, <1>6, NullAssumption

LEMMA NextContentsOfChain ==
    (TypeOK /\ list # Null => \A o : Chain(o, list.size) =>
        /\ Contents = [i \in 1..list.size |-> node[o[i]].item]
        /\ Contents \in [1..list.size -> Items]
        /\ Contents # Null)'
BY ContentsOfChain, PTL

LEMMA SameContents ==
    ASSUME ListInv, list' = list, node' = node
    PROVE  Contents' = Contents
<1>1. CASE list = Null
    BY <1>1, SMTT(30) DEF Contents
<1>2. CASE list # Null
    <2>1. PICK o : Chain(o, list.size)
        BY <1>2 DEF ListInv
    <2>2. Chain(o, list.size)'
        BY <2>1 DEF Chain, Allocated
    <2>3. Contents = [i \in 1..list.size |-> node[o[i]].item]
        BY <1>2, <2>1, ContentsOfChain DEF ListInv
    <2> QED BY <2>3 DEF Contents, FromHead, Front, Allocated
<1> QED BY <1>1, <1>2

\* The contents when a node is put in, and when one is taken out.
LEMMA LinkedContents ==
    ASSUME ListInv, list # Null, ListInv', NEW n \in Nat, n = list.size, NEW o, Chain(o, n),
           NEW k \in 1..(n + 1), NEW new \in Nodes, new \notin Allocated, NEW item \in Items,
           Linked(o, n, k, new, item)
    PROVE  /\ n < Cardinality(Nodes)
           /\ Contents' = [i \in 1..(n + 1) |-> IF i < k THEN Contents[i]
                                                ELSE IF i = k THEN item ELSE Contents[i - 1]]
<1> DEFINE p == With(o, n, k, new)
<1>1. /\ Chain(p, n + 1)'
      /\ list' \in List /\ list'.size = n + 1
      /\ node'[new].item = item
      /\ \A i \in 1..n : node'[o[i]].item = node[o[i]].item
    BY ChainGrows DEF ListInv
<1>2. list' # Null /\ TypeOK'
    BY <1>1, NullAssumption DEF ListInv
<1>3. Contents' = [i \in 1..(n + 1) |-> node'[p[i]].item]
    BY <1>1, <1>2, NextContentsOfChain
<1>4. Contents = [i \in 1..n |-> node[o[i]].item]
    BY ContentsOfChain DEF ListInv
<1>5. \A i \in 1..(n + 1) : node'[p[i]].item =
         IF i < k THEN Contents[i] ELSE IF i = k THEN item ELSE Contents[i - 1]
    <2> TAKE i \in 1..(n + 1)
    <2>1. p[i] = IF i < k THEN o[i] ELSE IF i = k THEN new ELSE o[i - 1]
        BY DEF With
    <2>2. (i < k => i \in 1..n) /\ (i > k => i - 1 \in 1..n)
        OBVIOUS
    <2> HIDE DEF p
    <2> QED BY <1>1, <1>4, <2>1, <2>2
<1>6. n < Cardinality(Nodes)
    BY <1>1, SizeIsNat DEF List
<1> HIDE DEF p
<1> QED BY <1>3, <1>5, <1>6

LEMMA UnlinkContents ==
    ASSUME ListInv, list # Null, ListInv', NEW n \in Nat, n = list.size, NEW o, Chain(o, n),
           NEW k \in 1..n, Unlink(o[k])
    PROVE  Contents' = [i \in 1..(n - 1) |-> IF i < k THEN Contents[i] ELSE Contents[i + 1]]
<1> DEFINE p == WithoutAt(o, n, k)
<1>1. /\ Chain(p, n - 1)'
      /\ list' \in List /\ list'.size = n - 1
      /\ \A i \in 1..n : i # k => node'[o[i]].item = node[o[i]].item
    BY ChainShrinks DEF ListInv
<1>2. list' # Null /\ TypeOK'
    BY <1>1, NullAssumption DEF ListInv
<1>3. Contents' = [i \in 1..(n - 1) |-> node'[p[i]].item]
    BY <1>1, <1>2, NextContentsOfChain
<1>4. Contents = [i \in 1..n |-> node[o[i]].item] /\ Contents \in [1..n -> Items]
    BY ContentsOfChain DEF ListInv
<1>5. \A i \in 1..(n - 1) : node'[p[i]].item = IF i < k THEN Contents[i] ELSE Contents[i + 1]
    <2> TAKE i \in 1..(n - 1)
    <2>1. p[i] = IF i < k THEN o[i] ELSE o[i + 1]
        BY DEF WithoutAt
    <2>2. i \in 1..n /\ i + 1 \in 1..n /\ (i < k => i # k) /\ (~(i < k) => i + 1 # k)
        OBVIOUS
    <2> HIDE DEF p
    <2> QED BY <1>1, <1>4, <2>1, <2>2
<1> HIDE DEF p
<1> QED BY <1>3, <1>5

\* Each call is the one of ItemSequence with its name, on the contents.
LEMMA AppendRefines ==
    ASSUME ListInv, list # Null, ListInv', NEW item \in Items, AppendNode(item)
    PROVE  /\ Contents # Null /\ AsSequence!Len(Contents) = list.size
           /\ list.size < Cardinality(Nodes)
           /\ Contents' = AsSequence!Append(Contents, item)
<1>1. PICK o : Chain(o, list.size)
    BY DEF ListInv
<1>2. TypeOK /\ list.size \in Nat /\ list.size + 1 \in 1..(list.size + 1)
    BY ListTypes DEF ListInv
<1>3. PICK new \in Nodes \ Allocated : Linked(o, list.size, list.size + 1, new, item)
    BY <1>1, <1>2, AppendLinks
<1>4. /\ list.size < Cardinality(Nodes)
      /\ Contents' = [i \in 1..(list.size + 1) |->
            IF i < list.size + 1 THEN Contents[i]
            ELSE IF i = list.size + 1 THEN item ELSE Contents[i - 1]]
    BY <1>1, <1>2, <1>3, LinkedContents
<1>5. Contents \in [1..list.size -> Items] /\ Contents # Null
    BY <1>1, <1>2, ContentsOfChain
<1>6. Contents' = [i \in 1..(list.size + 1) |-> IF i < list.size + 1 THEN Contents[i] ELSE item]
    BY <1>2, <1>4
<1>7. AsSequence!Append(Contents, item) =
        [i \in 1..(list.size + 1) |-> IF i < list.size + 1 THEN Contents[i] ELSE item]
    BY <1>2, <1>5, AppendAt
<1>8. AsSequence!Len(Contents) = list.size
    BY <1>2, <1>5, FunctionIsSeq
<1> QED BY <1>4, <1>5, <1>6, <1>7, <1>8

LEMMA InsertedContents ==
    ASSUME list.size \in Nat, Contents \in [1..list.size -> Items],
           NEW k \in 1..list.size, NEW item \in Items
    PROVE  AsSequence!InsertAt(Contents, k, item) =
             [i \in 1..(list.size + 1) |->
                 IF i < k THEN Contents[i] ELSE IF i = k THEN item ELSE Contents[i - 1]]
<1>1. \A n \in Nat : \A s \in [1..n -> Items] : \A j \in 1..n :
        AsSequence!InsertAt(s, j, item) =
             [i \in 1..(n + 1) |-> IF i < j THEN s[i] ELSE IF i = j THEN item ELSE s[i - 1]]
    BY InsertAtIndex
<1> QED BY <1>1, Zenon

LEMMA InsertRefines ==
    ASSUME ListInv, list # Null, ListInv', NEW index \in Steps, NEW item \in Items, Insert(index, item)
    PROVE  /\ AsSequence!Insert(index, item) \/ AsSequence!InsertPastEnd(index, item)
           /\ Contents # Null
<1>1. PICK o : Chain(o, list.size)
    BY DEF ListInv
<1>2. TypeOK /\ list.size \in Nat /\ Cardinality(Nodes) \in Nat /\ index \in Nat
    BY ListTypes, SizeIsNat DEF ListInv, Steps
<1>3. Contents \in [1..list.size -> Items] /\ Contents # Null
    BY <1>1, <1>2, ContentsOfChain
<1>4. AsSequence!Len(Contents) = list.size
    BY <1>2, <1>3, FunctionIsSeq
<1>5. ret' = <<"insert", index, "ok">>
    BY DEF Insert
<1>6. CASE index >= list.size
    <2>1. AppendNode(item)
        BY <1>6 DEF Insert
    <2>2. list.size < Cardinality(Nodes) /\ Contents' = AsSequence!Append(Contents, item)
        BY <2>1, AppendRefines
    <2>3. CASE index = list.size
        <3>1. AsSequence!InsertAt(Contents, list.size + 1, item) =
                AsSequence!Append(Contents, item)
            <4>1. \A n \in Nat : \A s \in [1..n -> Items] :
                    AsSequence!InsertAt(s, n + 1, item) = AsSequence!Append(s, item)
                BY InsertAtEnd
            <4> QED BY <1>2, <1>3, <4>1, Zenon
        <3>2. Contents' = AsSequence!InsertAt(Contents, index + 1, item)
            BY <2>2, <2>3, <3>1, Zenon
        <3>3. index <= AsSequence!Len(Contents) /\ AsSequence!Len(Contents) < Cardinality(Nodes)
            BY <1>2, <1>4, <2>2, <2>3
        <3>4. AsSequence!Insert(index, item)
            BY <1>5, <3>2, <3>3, Zenon DEF AsSequence!Insert
        <3> QED BY <1>3, <3>4
    <2>4. CASE index > list.size
        BY <1>2, <1>3, <1>4, <1>5, <2>2, <2>4 DEF AsSequence!InsertPastEnd
    <2> QED BY <1>2, <1>6, <2>3, <2>4
<1>7. CASE ~(index >= list.size)
    <2>1. index + 1 \in 1..list.size /\ index + 1 \in 1..(list.size + 1) /\ index < list.size
        BY <1>2, <1>7
    <2>2. InsertBefore(o[index + 1], item)
        BY <1>1, <1>2, <1>7, IndexFacts DEF Insert
    <2>3. PICK new \in Nodes \ Allocated : Linked(o, list.size, index + 1, new, item)
        BY <1>1, <1>2, <2>1, <2>2, InsertLinks
    <2>4. /\ list.size < Cardinality(Nodes)
          /\ Contents' = [i \in 1..(list.size + 1) |->
                IF i < index + 1 THEN Contents[i]
                ELSE IF i = index + 1 THEN item ELSE Contents[i - 1]]
        BY <1>1, <1>2, <2>1, <2>3, LinkedContents
    <2>5. AsSequence!InsertAt(Contents, index + 1, item) =
            [i \in 1..(list.size + 1) |->
                IF i < index + 1 THEN Contents[i]
                ELSE IF i = index + 1 THEN item ELSE Contents[i - 1]]
        BY <1>2, <1>3, <2>1, InsertedContents
    <2>6. Contents' = AsSequence!InsertAt(Contents, index + 1, item)
        BY <2>4, <2>5, Zenon
    <2>7. index <= AsSequence!Len(Contents) /\ AsSequence!Len(Contents) < Cardinality(Nodes)
        BY <1>2, <1>4, <2>1, <2>4
    <2>8. AsSequence!Insert(index, item)
        BY <1>5, <2>6, <2>7, Zenon DEF AsSequence!Insert
    <2> QED BY <1>3, <2>8
<1> QED BY <1>6, <1>7

LEMMA UnlinkRefines ==
    ASSUME ListInv, list # Null, ListInv', NEW o, Chain(o, list.size), NEW k \in 1..list.size, Unlink(o[k])
    PROVE  /\ Contents # Null /\ AsSequence!Len(Contents) = list.size
           /\ Contents' = AsSequence!RemoveAt(Contents, k)
<1>1. TypeOK /\ list.size \in Nat
    BY ListTypes DEF ListInv
<1>2. Contents \in [1..list.size -> Items] /\ Contents # Null
    BY <1>1, ContentsOfChain
<1>3. Contents' = [i \in 1..(list.size - 1) |-> IF i < k THEN Contents[i] ELSE Contents[i + 1]]
    BY <1>1, UnlinkContents
<1>4. AsSequence!RemoveAt(Contents, k) =
        [i \in 1..(list.size - 1) |-> IF i < k THEN Contents[i] ELSE Contents[i + 1]]
    BY <1>1, <1>2, RemoveAtIndex
<1> QED BY <1>1, <1>2, <1>3, <1>4, FunctionIsSeq

LEMMA PopRefines ==
    ASSUME ListInv, list # Null, ListInv', NEW index \in Steps, Pop(index)
    PROVE  (AsSequence!Pop(index) \/ AsSequence!PopNothing(index)) /\ Contents # Null
<1>1. PICK o : Chain(o, list.size)
    BY DEF ListInv
<1>2. TypeOK /\ list.size \in Nat /\ Cardinality(Nodes) \in Nat /\ index \in Nat
    BY ListTypes, SizeIsNat DEF ListInv, Steps
<1>3. Contents \in [1..list.size -> Items] /\ Contents # Null
    BY <1>1, <1>2, ContentsOfChain
<1>4. AsSequence!Len(Contents) = list.size
    BY <1>2, <1>3, FunctionIsSeq
<1>5. Index(index) = IF index >= list.size THEN Null ELSE o[index + 1]
    BY <1>1, <1>2, IndexFacts
<1>6. CASE index >= list.size
    <2>1. ret' = <<"pop", index, "fail">> /\ list' = list /\ node' = node
        BY <1>5, <1>6 DEF Pop
    <2>2. Contents' = Contents
        BY <2>1, SameContents
    <2> QED BY <1>3, <1>4, <1>6, <2>1, <2>2 DEF AsSequence!PopNothing
<1>7. CASE ~(index >= list.size)
    <2>1. index + 1 \in 1..list.size /\ index < list.size
        BY <1>2, <1>7
    <2>2. o[index + 1] # Null
        BY <1>1, <2>1, NullAssumption DEF Chain
    <2>3. ret' = <<"pop", index, "ok">> /\ Unlink(o[index + 1])
        BY <1>5, <1>7, <2>2 DEF Pop
    <2>4. Contents' = AsSequence!RemoveAt(Contents, index + 1)
        BY <1>1, <2>1, <2>3, UnlinkRefines
    <2> QED BY <1>3, <1>4, <2>1, <2>3, <2>4 DEF AsSequence!Pop
<1> QED BY <1>6, <1>7

LEMMA GetRefines ==
    ASSUME ListInv, list # Null, NEW index \in Steps, GetIndex(index)
    PROVE  AsSequence!Get(index) /\ Contents # Null
<1>1. PICK o : Chain(o, list.size)
    BY DEF ListInv
<1>2. TypeOK /\ list.size \in Nat /\ Cardinality(Nodes) \in Nat /\ index \in Nat
    BY ListTypes, SizeIsNat DEF ListInv, Steps
<1>3. /\ Contents = [i \in 1..list.size |-> node[o[i]].item]
      /\ Contents \in [1..list.size -> Items] /\ Contents # Null
    BY <1>1, <1>2, ContentsOfChain
<1>4. AsSequence!Len(Contents) = list.size
    BY <1>2, <1>3, FunctionIsSeq
<1>5. Index(index) = IF index >= list.size THEN Null ELSE o[index + 1]
    BY <1>1, <1>2, IndexFacts
<1>6. Contents' = Contents
    BY SameContents DEF GetIndex
<1>7. ret' = <<"get", index, IF index < list.size THEN Contents[index + 1] ELSE Null>>
    <2>1. CASE index >= list.size
        BY <1>2, <1>5, <2>1 DEF GetIndex
    <2>2. CASE index < list.size
        <3>1. index + 1 \in 1..list.size /\ ~(index >= list.size)
            BY <1>2, <2>2
        <3>2. o[index + 1] # Null
            BY <1>1, <3>1, NullAssumption DEF Chain
        <3> QED BY <1>3, <1>5, <2>2, <3>1, <3>2 DEF GetIndex
    <2> QED BY <1>2, <2>1, <2>2
<1>8. ret' = <<"get", index, IF index < AsSequence!Len(Contents) THEN Contents[index + 1] ELSE Null>>
    BY <1>4, <1>7
<1> QED BY <1>3, <1>6, <1>8, Zenon DEF AsSequence!Get

\* Every step of the list is one of the sequence, or leaves it alone.
LEMMA StepRefines ==
    ASSUME ListInv, ListInv', [Next]_vars
    PROVE  [AsSequence!Next]_(AsSequence!vars)
<1>1. list # Null => Contents # Null
    BY ContentsOfChain DEF ListInv
<1>2. Steps = 0..Cardinality(Nodes)
    BY DEF Steps
<1>3. CASE Create
    <2>1. Contents = Null
        BY <1>3 DEF Create, Contents
    <2>2. list' # Null /\ list'.size = 0
        BY <1>3, NullAssumption, SizeIsNat DEF Create, List
    <2>3. Contents' = <<>>
        BY <2>2 DEF Contents
    <2>4. ret' = <<"create", "ok">>
        BY <1>3 DEF Create
    <2> QED BY <2>1, <2>3, <2>4 DEF AsSequence!Next, AsSequence!Create
<1>4. CASE list # Null /\ OutOfMemory
    <2>1. Contents' = Contents /\ ret' = <<"fail">>
        BY <1>4, SameContents DEF OutOfMemory
    <2> QED BY <1>1, <1>4, <2>1 DEF AsSequence!Next, AsSequence!OutOfMemory
<1>5. CASE list # Null /\ Clear
    <2>1. list' # Null /\ list'.size = 0 /\ ret' = <<"clear", "ok">>
        BY <1>5, NullAssumption, SizeIsNat DEF Clear, List
    <2>2. Contents' = <<>>
        BY <2>1 DEF Contents
    <2> QED BY <1>1, <1>5, <2>1, <2>2 DEF AsSequence!Next, AsSequence!Clear
<1>6. CASE list # Null /\ Dispose
    <2>1. Contents' = Null /\ ret' = <<"dispose", "ok">>
        BY <1>6 DEF Dispose, Contents
    <2> QED BY <1>1, <1>6, <2>1 DEF AsSequence!Next, AsSequence!Dispose
<1>7. ASSUME list # Null, NEW item \in Items, Append(item)
      PROVE  AsSequence!Next
    <2>1. /\ Contents # Null /\ AsSequence!Len(Contents) = list.size
          /\ list.size < Cardinality(Nodes)
          /\ Contents' = AsSequence!Append(Contents, item)
          /\ ret' = <<"append", "ok">>
        BY <1>7, AppendRefines DEF Append
    <2>2. AsSequence!Push(item)
        BY <2>1 DEF AsSequence!Push
    <2> QED BY <2>1, <2>2 DEF AsSequence!Next
<1>8. ASSUME list # Null, NEW index \in Steps, NEW item \in Items, Insert(index, item)
      PROVE  AsSequence!Next
    BY <1>2, <1>8, InsertRefines DEF AsSequence!Next
<1>9. ASSUME list # Null, NEW index \in Steps, GetIndex(index)
      PROVE  AsSequence!Next
    BY <1>2, <1>9, GetRefines DEF AsSequence!Next
<1>10. ASSUME list # Null, NEW index \in Steps, Pop(index)
       PROVE  AsSequence!Next
    BY <1>2, <1>10, PopRefines DEF AsSequence!Next
<1>11. ASSUME list # Null, NEW n \in Allocated, Remove(n)
       PROVE  AsSequence!Next
    <2>1. PICK o : Chain(o, list.size)
        BY <1>11 DEF ListInv
    <2>2. PICK k \in 1..list.size : o[k] = n
        BY <2>1 DEF Chain
    <2>3. Unlink(o[k]) /\ ret' = <<"remove", "ok">>
        BY <1>11, <2>2 DEF Remove
    <2>4. /\ Contents # Null /\ k \in 1..AsSequence!Len(Contents)
          /\ Contents' = AsSequence!RemoveAt(Contents, k)
        BY <1>11, <2>1, <2>2, <2>3, UnlinkRefines
    <2>5. AsSequence!Unlink
        BY <2>3, <2>4 DEF AsSequence!Unlink
    <2> QED BY <2>4, <2>5 DEF AsSequence!Next
<1>12. CASE UNCHANGED vars
    BY <1>12, SameContents DEF vars, AsSequence!vars
<1> QED BY <1>3, <1>4, <1>5, <1>6, <1>7, <1>8, <1>9, <1>10, <1>11, <1>12 DEF Next

\* The pointers of client_list.c amount to ItemSequence: each call returns,
\* and leaves in the list, what the same call on a sequence would, for any
\* number of nodes and whatever mixture of calls came before.  An insert past
\* the end appends there, against client_list.h:124 and :130-133.
THEOREM ListIsSequence == Spec => ImplementsSequence
<1>1. Init => AsSequence!Init
    BY DEF Init, Contents, AsSequence!Init
<1>2. ListInv /\ ListInv' /\ [Next]_vars => [AsSequence!Next]_(AsSequence!vars)
    BY StepRefines
<1> QED BY <1>1, <1>2, ListInvariance, PTL DEF Spec, ImplementsSequence, AsSequence!Spec

=============================================================================
