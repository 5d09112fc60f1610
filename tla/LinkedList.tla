----------------------------- MODULE LinkedList -----------------------------
(***************************************************************************)
(* The doubly linked list (src/src/utils/client_list.c) with its pointers: *)
(* "front" leads towards the tail and "back" towards the head.             *)
(*                                                                         *)
(* Callers pass nodes of the list itself, as client_cache.c does, which    *)
(* finds them by walking it.                                               *)
(***************************************************************************)
EXTENDS Integers, FiniteSets

CONSTANTS
    Nodes,  \* addresses that calloc may return; bound: nodes at a time
    Items,  \* what callers store
    Null

ASSUME NodesAssumption == IsFiniteSet(Nodes)

VARIABLES
    list,  \* the LinkedList, or Null before its creation and after its end
    node,  \* node[n]: the Node allocated at n, or Null
    ret    \* the last call: its name, its index if it has one, its result

vars == <<list, node, ret>>

Node == [front : Nodes \cup {Null}, back : Nodes \cup {Null}, item : Items]
List == [head : Nodes \cup {Null}, tail : Nodes \cup {Null}, size : 0..Cardinality(Nodes)]

\* NULL is the address of nothing.
ASSUME NullAssumption ==
    /\ Null \notin Nodes /\ Null \notin Node /\ Null \notin List
    /\ \A n \in 0..Cardinality(Nodes) : Null \notin [1..n -> Items]

Allocated == {n \in Nodes : node[n] # Null}

Init ==
    /\ list = Null
    /\ node = [n \in Nodes |-> Null]
    /\ ret = <<"dispose", "ok">>

-----------------------------------------------------------------------------
(* Walking the pointers.                                                   *)

Steps == 0..Cardinality(Nodes)

Front(n) == IF n \in Allocated THEN node[n].front ELSE Null
Back(n)  == IF n \in Allocated THEN node[n].back ELSE Null

\* The nodes met from one end, in order, and Null after the other end.
FromHead ==
    LET walk[i \in Steps] == IF i = 0 THEN list.head ELSE Front(walk[i - 1]) IN walk
FromTail ==
    LET walk[i \in Steps] == IF i = 0 THEN list.tail ELSE Back(walk[i - 1]) IN walk

IndexOffByOne(index) ==
    IF index >= list.size THEN Null
    ELSE IF index <= list.size \div 2 THEN FromHead[index]
    ELSE FromTail[list.size - index]

\* linked_list_get_index: from the end that is nearer.
Index(index) ==
    IF index >= list.size THEN Null
    ELSE IF index <= list.size \div 2 THEN FromHead[index]
    ELSE FromTail[list.size - 1 - index]

-----------------------------------------------------------------------------
CreateUnzeroed ==
    /\ list = Null
    /\ list' = [head |-> Null, tail |-> Null, size |-> Cardinality(Nodes) + 1]
    /\ ret' = <<"create", "ok">>
    /\ UNCHANGED node

\* linked_list_create takes a zeroed allocation.
Create ==
    /\ list = Null
    /\ list' = [head |-> Null, tail |-> Null, size |-> 0]
    /\ ret' = <<"create", "ok">>
    /\ UNCHANGED node

AppendNode(item) ==
    \E n \in Nodes \ Allocated :
      LET new == [front |-> Null, back |-> list.tail, item |-> item]
      IN  /\ node' = IF list.tail = Null
                       THEN [node EXCEPT ![n] = new]
                       ELSE [node EXCEPT ![n] = new, ![list.tail].front = n]
          /\ list' = [head |-> IF list.tail = Null THEN n ELSE list.head,
                      tail |-> n, size |-> list.size + 1]

InsertKeepsBack(target, item) ==
    \E n \in Nodes \ Allocated :
      LET before == node[target].back
          new    == [front |-> target, back |-> before, item |-> item]
      IN  /\ node' = IF before = Null
                       THEN [node EXCEPT ![n] = new]
                       ELSE [node EXCEPT ![n] = new, ![before].front = n]
          /\ list' = [list EXCEPT !.head = IF before = Null THEN n ELSE @, !.size = @ + 1]

\* linked_list_insert, before a node that there is.
InsertBefore(target, item) ==
    \E n \in Nodes \ Allocated :
      LET before == node[target].back
          new    == [front |-> target, back |-> before, item |-> item]
          linked == [node EXCEPT ![n] = new, ![target].back = n]
      IN  /\ node' = IF before = Null THEN linked ELSE [linked EXCEPT ![before].front = n]
          /\ list' = [list EXCEPT !.head = IF before = Null THEN n ELSE @, !.size = @ + 1]

Append(item) == AppendNode(item) /\ ret' = <<"append", "ok">>

\* Any index from the size on appends, also one that is out of bounds.
Insert(index, item) ==
    /\ IF index >= list.size THEN AppendNode(item) ELSE InsertBefore(Index(index), item)
    /\ ret' = <<"insert", index, "ok">>

\* calloc fails in append or insert.
OutOfMemory == ret' = <<"fail">> /\ UNCHANGED <<list, node>>

GetIndex(index) ==
    /\ ret' = <<"get", index, IF Index(index) = Null THEN Null ELSE node[Index(index)].item>>
    /\ UNCHANGED <<list, node>>

\* linked_list_remove.
Unlink(n) ==
    LET back  == node[n].back
        front == node[n].front
    IN  /\ node' = [m \in Nodes |->
             CASE m = n -> Null
               [] m = back -> [node[m] EXCEPT !.front = front]
               [] m = front -> [node[m] EXCEPT !.back = back]
               [] OTHER -> node[m]]
        /\ list' = [head |-> IF back = Null THEN front ELSE list.head,
                    tail |-> IF front = Null THEN back ELSE list.tail,
                    size |-> list.size - 1]

Remove(n) == Unlink(n) /\ ret' = <<"remove", "ok">>

Pop(index) ==
    IF Index(index) = Null
      THEN ret' = <<"pop", index, "fail">> /\ UNCHANGED <<list, node>>
      ELSE ret' = <<"pop", index, "ok">> /\ Unlink(Index(index))

\* The loop of linked_list_clear frees what it meets from the head.
FreeAll == node' = [n \in Nodes |-> IF \E i \in Steps : FromHead[i] = n THEN Null ELSE node[n]]

ClearKeepsTail ==
    /\ FreeAll
    /\ list' = [list EXCEPT !.head = Null, !.size = 0]
    /\ ret' = <<"clear", "ok">>

Clear ==
    /\ FreeAll
    /\ list' = [head |-> Null, tail |-> Null, size |-> 0]
    /\ ret' = <<"clear", "ok">>

Dispose ==
    /\ FreeAll
    /\ list' = Null
    /\ ret' = <<"dispose", "ok">>

Next ==
    \/ Create
    \/ /\ list # Null
       /\ \/ OutOfMemory \/ Clear \/ Dispose
          \/ \E item \in Items : Append(item)
          \/ \E index \in Steps, item \in Items : Insert(index, item)
          \/ \E index \in Steps : GetIndex(index) \/ Pop(index)
          \/ \E n \in Allocated : Remove(n)

Spec == Init /\ [][Next]_vars

-----------------------------------------------------------------------------
(* Properties                                                              *)

\* Every variable has its type.
TypeOK ==
    /\ list \in List \cup {Null}
    /\ node \in [Nodes -> Node \cup {Null}]
    /\ ret \in {<<"fail">>}
                \cup ({"create", "append", "remove", "clear", "dispose"} \X {"ok"})
                \cup ({"insert", "pop"} \X Steps \X {"ok", "fail"})
                \cup ({"get"} \X Steps \X (Items \cup {Null}))

\* The two directions agree: the walk from the tail meets the nodes of the
\* walk from the head in the opposite order, both have the length that the
\* list states, and they end.  get_index takes either, by the index.
DirectionsAgree ==
    list # Null =>
        /\ FromHead[list.size] = Null /\ FromTail[list.size] = Null
        /\ \A i \in Steps : i < list.size =>
             FromHead[i] # Null /\ FromHead[i] = FromTail[list.size - 1 - i]

\* The nodes allocated are those that the walk from the head meets: no
\* sequence of inserts, removals and clears leaks one, or keeps a freed one.
NodesReachable ==
    Allocated = IF list = Null THEN {} ELSE {FromHead[i] : i \in Steps} \ {Null}

\* What a caller finds in the list, in order.
Contents ==
    IF list = Null THEN Null ELSE [i \in 1..list.size |-> node[FromHead[i - 1]].item]

\* The pointers are a sequence, whatever the mixture of appends, inserts,
\* removals at either end or between, and clears: each call returns and
\* leaves what ItemSequence says of it, which for an insert past the end is
\* what the code does and not what client_list.h:130-133 says.
AsSequence == INSTANCE ItemSequence WITH Capacity <- Cardinality(Nodes), items <- Contents

ImplementsSequence == AsSequence!Spec

=============================================================================
