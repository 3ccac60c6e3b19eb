---------------------------- MODULE ZSetAbstract ----------------------------
(***************************************************************************)
(* What a sorted set promises (spec 4.B "ZSet", 8.2), with no skip list:   *)
(* the state is the member -> score map alone, ordered by (score, member). *)
(* Each mutating operation of src/dataStruct/sortedset/sortedset.go is an  *)
(* action that records the call and its return value in `call`, so that a *)
(* detailed specification that implements this one must return the same   *)
(* values and leave the same members.  The read-only queries are reference *)
(* operators that the detailed specification compares its answers with.   *)
(***************************************************************************)
EXTENDS Integers, Sequences, SequencesExt, FiniteSets

CONSTANTS
    Members,   \* member names, as naturals ordered like the strings
    Scores,    \* scores
    Borders,   \* score borders [v, ex] that range calls use
    RankArgs,  \* the start and stop arguments of rank calls
    Nil        \* absent member / unused argument

VARIABLES
    dict,      \* member -> score, Nil when absent
    call       \* the last call: operation, arguments and return value

vars == <<dict, call>>

Present(d) == {m \in Members : d[m] # Nil}

\* The total order of the set: by score, ties by member name.
Before(a, b) == a[1] < b[1] \/ (a[1] = b[1] /\ a[2] < b[2])

\* The members in ascending order.
Sorted(d) ==
    LET es == SetToSortSeq({<<d[m], m>> : m \in Present(d)}, Before)
    IN  [j \in 1..Len(es) |-> es[j][2]]

Ordered(d, desc) == IF desc THEN Reverse(Sorted(d)) ELSE Sorted(d)

\* 0-based ascending rank of a present member.
RankOf(d, m) == CHOOSE r \in 0..(Len(Sorted(d)) - 1) : Sorted(d)[r + 1] = m

\* A border (value, exclude) below / above score x (spec 4.B).
AboveMin(min, x) == IF min.ex THEN min.v < x ELSE min.v <= x
BelowMax(max, x) == IF max.ex THEN max.v > x ELSE max.v >= x

InScoreRange(d, min, max, desc) ==
    SelectSeq(Ordered(d, desc), LAMBDA m : AboveMin(min, d[m]) /\ BelowMax(max, d[m]))

\* rangeByScore: the members within the borders, after `offset` of them,
\* at most `limit` (all when limit < 0); none when limit = 0 or offset < 0.
RangeByScoreRef(d, min, max, offset, limit, desc) ==
    IF limit = 0 \/ offset < 0 THEN <<>>
    ELSE LET all  == InScoreRange(d, min, max, desc)
             rest == SubSeq(all, offset + 1, Len(all))
         IN  IF limit < 0 \/ limit >= Len(rest) THEN rest ELSE SubSeq(rest, 1, limit)

Call(op, m, s, min, max, start, stop, ret) ==
    [op |-> op, m |-> m, s |-> s, min |-> min, max |-> max,
     start |-> start, stop |-> stop, ret |-> ret]

Init ==
    /\ dict = [m \in Members |-> Nil]
    /\ call = Call("none", Nil, Nil, Nil, Nil, Nil, Nil, Nil)

\* add: the score is set unconditionally; true iff the member was new.
Add(m, s) ==
    /\ call' = Call("add", m, s, Nil, Nil, Nil, Nil, dict[m] = Nil)
    /\ dict' = [dict EXCEPT ![m] = s]

\* remove (RemoveMember): true iff the member was present.
RemoveMember(m) ==
    /\ call' = Call("remove", m, Nil, Nil, Nil, Nil, Nil, dict[m] # Nil)
    /\ dict' = [dict EXCEPT ![m] = Nil]

\* Removing a set of members, returning how many.
Drop(gone, c) ==
    /\ call' = c
    /\ dict' = [m \in Members |-> IF m \in gone THEN Nil ELSE dict[m]]

\* removeByScore: every member within the borders.
RemoveByScore(min, max) ==
    LET gone == Range(InScoreRange(dict, min, max, FALSE))
    IN  Drop(gone, Call("removeByScore", Nil, Nil, min, max, Nil, Nil, Cardinality(gone)))

\* removeByRank: the members of 0-based ranks [start, stop).
RemoveByRank(start, stop) ==
    LET srt  == Sorted(dict)
        gone == {srt[j] : j \in {j \in (start + 1)..stop : 1 <= j /\ j <= Len(srt)}}
    IN  Drop(gone, Call("removeByRank", Nil, Nil, Nil, Nil, start, stop, Cardinality(gone)))

Next ==
    \/ \E m \in Members, s \in Scores : Add(m, s)
    \/ \E m \in Members : RemoveMember(m)
    \/ \E min, max \in Borders : RemoveByScore(min, max)
    \/ \E start, stop \in RankArgs : RemoveByRank(start, stop)

Spec == Init /\ [][Next]_vars
=============================================================================
