---------------------------- MODULE ListAbstract ----------------------------
(***************************************************************************)
(* What the list container promises (spec 4.B "List"), with no nodes: the  *)
(* state is the sequence of values.  Each mutating method of              *)
(* src/dataStruct/list/linked.go is an action that records the call and   *)
(* its return value in `call`; indices are zero-based and the caller      *)
(* passes legal ones (the command layer resolves negative indices).       *)
(***************************************************************************)
EXTENDS Integers, Sequences, SequencesExt

CONSTANTS
    Vals,      \* the values stored
    Indices,   \* index arguments callers pass
    Counts,    \* count arguments of RemoveByVal
    Nil        \* nil / unused argument

VARIABLES
    items,     \* the values from first to last
    call       \* the last call: operation, arguments and return value

vars == <<items, call>>

Call(op, idx, v, count, ret) == [op |-> op, idx |-> idx, v |-> v, count |-> count, ret |-> ret]

\* Positions (1-based) of the occurrences of v.
Occurrences(s, v) == {j \in 1..Len(s) : s[j] = v}

\* Removal by value keeps the occurrences beyond the first `count` of them;
\* count <= 0 removes them all (spec 4.B).
KeepAfterCount(s, v, count) ==
    LET occ  == Occurrences(s, v)
        gone == IF count <= 0 THEN occ
                ELSE {j \in occ : Cardinality({k \in occ : k <= j}) <= count}
    IN  [gone |-> gone,
         rest |-> SelectSeq([j \in 1..Len(s) |-> <<j, s[j]>>], LAMBDA e : e[1] \notin gone)]

Init ==
    /\ items = <<>>
    /\ call  = Call("none", Nil, Nil, Nil, Nil)

Add(v) ==
    /\ items' = Append(items, v)
    /\ call'  = Call("add", Nil, v, Nil, Nil)

Set(i, v) ==
    /\ i < Len(items)
    /\ items' = [items EXCEPT ![i + 1] = v]
    /\ call'  = Call("set", i, v, Nil, Nil)

Insert(i, v) ==
    /\ i <= Len(items)
    /\ items' = InsertAt(items, i + 1, v)
    /\ call'  = Call("insert", i, v, Nil, Nil)

\* Remove(index): the value at index.
RemoveIndex(i) ==
    /\ i < Len(items)
    /\ items' = RemoveAt(items, i + 1)
    /\ call'  = Call("remove", i, Nil, Nil, items[i + 1])

\* RemoveLast: the last value, nil on an empty list.
RemoveLast ==
    /\ items' = IF items = <<>> THEN items ELSE Front(items)
    /\ call'  = Call("removeLast", Nil, Nil, Nil, IF items = <<>> THEN Nil ELSE Last(items))

RemoveAllByVal(v) ==
    /\ items' = SelectSeq(items, LAMBDA x : x # v)
    /\ call'  = Call("removeAllByVal", Nil, v, Nil, Cardinality(Occurrences(items, v)))

RemoveByVal(v, count) ==
    LET r == KeepAfterCount(items, v, count) IN
    /\ items' = [j \in 1..Len(r.rest) |-> r.rest[j][2]]
    /\ call'  = Call("removeByVal", Nil, v, count, Cardinality(r.gone))

Next ==
    \/ \E v \in Vals : Add(v) \/ RemoveAllByVal(v)
    \/ \E i \in Indices, v \in Vals : Set(i, v) \/ Insert(i, v)
    \/ \E i \in Indices : RemoveIndex(i)
    \/ RemoveLast
    \/ \E v \in Vals, c \in Counts : RemoveByVal(v, c)

Spec == Init /\ [][Next]_vars
=============================================================================
