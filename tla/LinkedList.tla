----------------------------- MODULE LinkedList -----------------------------
(***************************************************************************)
(* LinkedList (src/dataStruct/list/linked.go) at the level of its          *)
(* pointers: first, last, the cached size, and per node a value and the    *)
(* prev and next pointers.  Nodes come from an arena 1..MaxNodes and a new *)
(* node takes the next free index, as `&node{...}` allocates a fresh one.  *)
(* Each method is an operator from a list value to a list value; its loops *)
(* are RECURSIVE operators.  A list is used under its key's lock only, so *)
(* each method is one atomic step of the state machine below.             *)
(***************************************************************************)
EXTENDS Integers, Sequences, SequencesExt

CONSTANTS
    Vals,      \* the values stored (interface{} compared by utils.Equals)
    Indices,   \* index arguments callers pass (legal ones: the methods panic otherwise)
    Counts,    \* count arguments of RemoveByVal
    MaxNodes,  \* size of the node arena
    MaxOps,    \* bound on the number of calls
    Nil        \* nil

ASSUME MaxOps <= MaxNodes   \* every Add and Insert finds a fresh node

Ids == 1..MaxNodes

\* Make(): an empty list.
EmptyList ==
    [first |-> Nil, last |-> Nil, size |-> 0,
     next |-> [n \in Ids |-> Nil], prev |-> [n \in Ids |-> Nil], val |-> [n \in Ids |-> Nil]]

\* Add(val): link a fresh node after last (or as the only node).
AddNode(l, v, id) ==
    [l EXCEPT !.first = IF l.last = Nil THEN id ELSE @,
              !.next  = IF l.last = Nil THEN @ ELSE [@ EXCEPT ![l.last] = id],
              !.prev  = [@ EXCEPT ![id] = l.last],
              !.val   = [@ EXCEPT ![id] = v],
              !.last  = id,
              !.size  = @ + 1]

\* k steps from n along next (forward) or prev.
RECURSIVE Hop(_, _, _, _)
Hop(l, n, k, forward) ==
    IF k = 0 THEN n ELSE Hop(l, IF forward THEN l.next[n] ELSE l.prev[n], k - 1, forward)

\* find(index): from first when index < size/2, else back from last.
Find(l, i) ==
    IF i < l.size \div 2 THEN Hop(l, l.first, i, TRUE) ELSE Hop(l, l.last, l.size - 1 - i, FALSE)

\* Mutant: Insert forgets pivot.prev = n.
InsertNodeNoPivotPrev(l, i, v, id) ==
    IF i = l.size THEN AddNode(l, v, id)
    ELSE LET p  == Find(l, i)
             q  == l.prev[p]
             nx == IF q = Nil THEN l.next ELSE [l.next EXCEPT ![q] = id]
         IN  [l EXCEPT !.first = IF q = Nil THEN id ELSE @,
                       !.next  = [nx EXCEPT ![id] = p],
                       !.prev  = [@ EXCEPT ![id] = q],
                       !.val   = [@ EXCEPT ![id] = v],
                       !.size  = @ + 1]

\* Insert(index, val): Add at index = size, else a fresh node before find(index).
InsertNode(l, i, v, id) ==
    IF i = l.size THEN AddNode(l, v, id)
    ELSE LET p  == Find(l, i)
             q  == l.prev[p]
             nx == IF q = Nil THEN l.next ELSE [l.next EXCEPT ![q] = id]
         IN  [l EXCEPT !.first = IF q = Nil THEN id ELSE @,
                       !.next  = [nx EXCEPT ![id] = p],
                       !.prev  = [@ EXCEPT ![id] = q, ![p] = id],
                       !.val   = [@ EXCEPT ![id] = v],
                       !.size  = @ + 1]

\* removeNode(n): unlink n, clear its own pointers, size - 1.
RemoveNode(l, n) ==
    LET p == l.prev[n]
        q == l.next[n]
        nx == IF p = Nil THEN l.next ELSE [l.next EXCEPT ![p] = q]
        pv == IF q = Nil THEN l.prev ELSE [l.prev EXCEPT ![q] = p]
    IN  [l EXCEPT !.first = IF p = Nil THEN q ELSE @,
                  !.last  = IF q = Nil THEN p ELSE @,
                  !.next  = [nx EXCEPT ![n] = Nil],
                  !.prev  = [pv EXCEPT ![n] = Nil],
                  !.size  = @ - 1]

\* Mutant: the loop reads n.next after removeNode has cleared it.
RECURSIVE RemoveAllFromNextAfterRemove(_, _, _, _)
RemoveAllFromNextAfterRemove(l, n, v, removed) ==
    IF n = Nil THEN [list |-> l, removed |-> removed]
    ELSE LET l2 == IF l.val[n] = v THEN RemoveNode(l, n) ELSE l
         IN  RemoveAllFromNextAfterRemove(l2, l2.next[n], v,
                                          IF l.val[n] = v THEN removed + 1 ELSE removed)

\* RemoveAllByVal's loop: read next, remove n if it holds v, go on.
RECURSIVE RemoveAllFrom(_, _, _, _)
RemoveAllFrom(l, n, v, removed) ==
    IF n = Nil THEN [list |-> l, removed |-> removed]
    ELSE LET nextNode == l.next[n]
         IN  IF l.val[n] = v
             THEN RemoveAllFrom(RemoveNode(l, n), nextNode, v, removed + 1)
             ELSE RemoveAllFrom(l, nextNode, v, removed)

\* RemoveByVal's loop: as above, but stop as soon as removed == count,
\* tested after every node whether or not it was removed.
RECURSIVE RemoveCountFrom(_, _, _, _, _)
RemoveCountFrom(l, n, v, count, removed) ==
    IF n = Nil THEN [list |-> l, removed |-> removed]
    ELSE LET nextNode == l.next[n]
             l2 == IF l.val[n] = v THEN RemoveNode(l, n) ELSE l
             r2 == IF l.val[n] = v THEN removed + 1 ELSE removed
         IN  IF r2 = count THEN [list |-> l2, removed |-> r2]
             ELSE RemoveCountFrom(l2, nextNode, v, count, r2)

\* Range(start, end): scan from first, copying the values of [start, end).
\* Mutant: the range test takes i > start.
RECURSIVE ScanRangeAfterStart(_, _, _, _, _, _)
ScanRangeAfterStart(l, n, i, start, end, out) ==
    IF n = Nil \/ i >= end THEN out
    ELSE ScanRangeAfterStart(l, l.next[n], i + 1, start, end,
                             IF i > start THEN Append(out, l.val[n]) ELSE out)

RECURSIVE ScanRange(_, _, _, _, _, _)
ScanRange(l, n, i, start, end, out) ==
    IF n = Nil \/ i >= end THEN out
    ELSE ScanRange(l, l.next[n], i + 1, start, end,
                   IF i >= start THEN Append(out, l.val[n]) ELSE out)

-----------------------------------------------------------------------------
VARIABLES
    list,      \* the LinkedList
    nextId,    \* next free node of the arena
    call,      \* the last call, its arguments and its return value
    ops        \* calls made so far

vars == <<list, nextId, call, ops>>

\* The values met from first along next; the walk stops after MaxNodes + 1
\* nodes, so a cycle shows as a list longer than the arena.
RECURSIVE ValuesFrom(_, _, _)
ValuesFrom(l, n, fuel) ==
    IF n = Nil \/ fuel = 0 THEN <<>> ELSE <<l.val[n]>> \o ValuesFrom(l, l.next[n], fuel - 1)

Contents == ValuesFrom(list, list.first, MaxNodes + 1)

Abs == INSTANCE ListAbstract WITH items <- Contents

Init ==
    /\ list   = EmptyList
    /\ nextId = 1
    /\ call   = Abs!Call("none", Nil, Nil, Nil, Nil)
    /\ ops    = 0

Step == ops < MaxOps /\ ops' = ops + 1

\* A method that allocates a node.
Allocating == nextId' = nextId + 1

Add(v) ==
    /\ Step /\ Allocating
    /\ list' = AddNode(list, v, nextId)
    /\ call' = Abs!Call("add", Nil, v, Nil, Nil)

\* Set(index, val): find(index).val = val.
Set(i, v) ==
    /\ Step
    /\ i < list.size
    /\ list' = [list EXCEPT !.val[Find(list, i)] = v]
    /\ call' = Abs!Call("set", i, v, Nil, Nil)
    /\ UNCHANGED nextId

Insert(i, v) ==
    /\ Step /\ Allocating
    /\ i <= list.size
    /\ list' = InsertNode(list, i, v, nextId)
    /\ call' = Abs!Call("insert", i, v, Nil, Nil)

\* Remove(index): removeNode(find(index)), returning its value.
RemoveIndex(i) ==
    LET n == Find(list, i) IN
    /\ Step
    /\ i < list.size
    /\ list' = RemoveNode(list, n)
    /\ call' = Abs!Call("remove", i, Nil, Nil, list.val[n])
    /\ UNCHANGED nextId

\* RemoveLast: nil on an empty list, else removeNode(last).
RemoveLast ==
    /\ Step
    /\ list' = IF list.last = Nil THEN list ELSE RemoveNode(list, list.last)
    /\ call' = Abs!Call("removeLast", Nil, Nil, Nil,
                        IF list.last = Nil THEN Nil ELSE list.val[list.last])
    /\ UNCHANGED nextId

\* A removal by value: the list after the loop and the count it returns.
Removed(r, c) ==
    /\ list' = r.list
    /\ call' = c
    /\ UNCHANGED nextId

RemoveAllByVal(v) ==
    LET r == RemoveAllFrom(list, list.first, v, 0) IN
    /\ Step
    /\ Removed(r, Abs!Call("removeAllByVal", Nil, v, Nil, r.removed))

RemoveByVal(v, count) ==
    LET r == RemoveCountFrom(list, list.first, v, count, 0) IN
    /\ Step
    /\ Removed(r, Abs!Call("removeByVal", Nil, v, count, r.removed))

\* No more calls.
Done == ops = MaxOps /\ UNCHANGED vars

Next ==
    \/ \E v \in Vals : Add(v) \/ RemoveAllByVal(v)
    \/ \E i \in Indices, v \in Vals : Set(i, v) \/ Insert(i, v)
    \/ \E i \in Indices : RemoveIndex(i)
    \/ RemoveLast
    \/ \E v \in Vals, c \in Counts : RemoveByVal(v, c)
    \/ Done

Spec == Init /\ [][Next]_vars


\* The nodes met from last along prev, in the order met.
RECURSIVE BackFrom(_, _, _)
BackFrom(l, n, fuel) ==
    IF n = Nil \/ fuel = 0 THEN <<>> ELSE <<n>> \o BackFrom(l, l.prev[n], fuel - 1)

RECURSIVE NodesFrom(_, _, _)
NodesFrom(l, n, fuel) ==
    IF n = Nil \/ fuel = 0 THEN <<>> ELSE <<n>> \o NodesFrom(l, l.next[n], fuel - 1)

\* Get(index): find(index).val.
Get(i) == list.val[Find(list, i)]

(***************************************************************************)
(* After any sequence of calls the two directions agree: the nodes from   *)
(* first along next are, reversed, the nodes from last along prev; their  *)
(* number is the cached size; and a node removed by removeNode keeps no   *)
(* pointer.  Insert's four pointer writes and removeNode's four keep this. *)
(***************************************************************************)
ListWellFormed ==
    LET fwd == NodesFrom(list, list.first, MaxNodes + 1) IN
    /\ Reverse(BackFrom(list, list.last, MaxNodes + 1)) = fwd
    /\ Len(fwd) = list.size
    /\ \A n \in (1..(nextId - 1)) \ Range(fwd) : list.next[n] = Nil /\ list.prev[n] = Nil

(***************************************************************************)
(* Get(i), which walks from whichever end is nearer (spec 4.B), returns   *)
(* the i-th value from first; Range(start, end) returns the values of     *)
(* [start, end) for every legal start and end.                            *)
(***************************************************************************)
ReadsMatch ==
    /\ \A i \in 0..(list.size - 1) : Get(i) = Contents[i + 1]
    /\ \A start \in 0..(list.size - 1) : \A end \in start..list.size :
          ScanRange(list, list.first, 0, start, end, <<>>) = SubSeq(Contents, start + 1, end)

(***************************************************************************)
(* The list implements the sequence specification ListAbstract: every     *)
(* call changes the values from first to last, and returns what the spec  *)
(* says (the removed value, nil, the number of values removed).  For      *)
(* RemoveByVal this is spec 4.B: it stops after count removals, and       *)
(* count <= 0 means all.                                                   *)
(***************************************************************************)
ImplementsList == Abs!Spec

=============================================================================
