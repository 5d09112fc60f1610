---------------------------- MODULE ItemSequence ----------------------------
(***************************************************************************)
(* What a client_list amounts to for its callers: a sequence of items,     *)
(* with indices from 0.  It is what client_list.h says of the calls, but   *)
(* for an insert past the end, which is an action of its own.              *)
(***************************************************************************)
EXTENDS Integers, SequencesExt

CONSTANTS
    Items,     \* what callers store
    Capacity,  \* bound: items at a time
    Null       \* there is no list, or no such item

VARIABLES
    items,  \* the sequence, or Null when there is no list
    ret     \* the last call: its name, its index if it has one, its result

vars == <<items, ret>>

Init == items = Null /\ ret = <<"dispose", "ok">>

Create == items = Null /\ items' = <<>> /\ ret' = <<"create", "ok">>

Push(x) ==
    /\ Len(items) < Capacity
    /\ items' = Append(items, x)
    /\ ret' = <<"append", "ok">>

\* At an index of the sequence, or at its end.
Insert(i, x) ==
    /\ i <= Len(items)
    /\ Len(items) < Capacity
    /\ items' = InsertAt(items, i + 1, x)
    /\ ret' = <<"insert", i, "ok">>

\* Past the end the code appends and returns 0.  client_list.h:124 and
\* :130-133 say that an index out of bounds fails with -1: this action is the
\* code's, not the header's.  (A failure that is one returns 1.)
InsertPastEnd(i, x) ==
    /\ i > Len(items)
    /\ Len(items) < Capacity
    /\ items' = Append(items, x)
    /\ ret' = <<"insert", i, "ok">>

Get(i) ==
    /\ ret' = <<"get", i, IF i < Len(items) THEN items[i + 1] ELSE Null>>
    /\ UNCHANGED items

Pop(i) ==
    /\ i < Len(items)
    /\ items' = RemoveAt(items, i + 1)
    /\ ret' = <<"pop", i, "ok">>

PopNothing(i) ==
    /\ i >= Len(items)
    /\ ret' = <<"pop", i, "fail">>
    /\ UNCHANGED items

\* By node: the caller knows where it is.
Unlink ==
    /\ \E i \in 1..Len(items) : items' = RemoveAt(items, i)
    /\ ret' = <<"remove", "ok">>

OutOfMemory == ret' = <<"fail">> /\ UNCHANGED items

Clear   == items' = <<>> /\ ret' = <<"clear", "ok">>
Dispose == items' = Null /\ ret' = <<"dispose", "ok">>

Next ==
    \/ Create
    \/ /\ items # Null
       /\ \/ OutOfMemory \/ Clear \/ Dispose \/ Unlink
          \/ \E x \in Items : Push(x)
          \/ \E i \in 0..Capacity :
               \/ Get(i) \/ Pop(i) \/ PopNothing(i)
               \/ \E x \in Items : Insert(i, x) \/ InsertPastEnd(i, x)

Spec == Init /\ [][Next]_vars

=============================================================================
