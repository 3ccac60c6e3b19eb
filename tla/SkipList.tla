------------------------------ MODULE SkipList ------------------------------
(***************************************************************************)
(* The skip list behind a sorted set (src/dataStruct/sortedset/           *)
(* skiplist.go), at the level of its pointers: every node has a forward    *)
(* pointer and a span per level and a backward pointer; the list has a     *)
(* header node with MaxLevel levels, a tail, a length and a level.  Each   *)
(* function of skiplist.go is an operator from a list value to a list     *)
(* value (or to the node or rank it returns); its loops are RECURSIVE      *)
(* operators that follow the code's loop conditions.                       *)
(*                                                                         *)
(* Nodes live in an arena 0..MaxNodes; 0 is the header and an insert gets  *)
(* a fresh index, as makeNode allocates a fresh node.  Members are         *)
(* naturals ordered like the strings they stand for, 0 standing for "";    *)
(* scores are integers (float64 compared with < and ==).                   *)
(***************************************************************************)
EXTENDS Integers, Sequences, SequencesExt

CONSTANTS
    MaxLevel,          \* maxLevel (16), the header's height
    MaxNodes,          \* size of the node arena
    Nil                \* nil pointer

ASSUME /\ MaxLevel \in Nat \ {0}
       /\ MaxNodes \in Nat

Header == 0
Ids    == 0..MaxNodes
Lv     == 0..(MaxLevel - 1)

\* makeSkipList: level 1, a header of MaxLevel empty levels, no tail.
EmptyList ==
    [fwd    |-> [n \in Ids |-> [i \in Lv |-> Nil]],
     span   |-> [n \in Ids |-> [i \in Lv |-> 0]],
     back   |-> [n \in Ids |-> Nil],
     height |-> [n \in Ids |-> IF n = Header THEN MaxLevel ELSE 0],
     member |-> [n \in Ids |-> 0],
     score  |-> [n \in Ids |-> 0],
     tail   |-> Nil,
     length |-> 0,
     level  |-> 1]

\* ScoreBorder (its file is not under src/; modelled from the spec): a
\* value and an exclude flag; an infinite border is a value beyond every
\* score.  less(x): the border is below x; greater(x): above x.
BorderLess(b, x)    == IF b.ex THEN b.v < x ELSE b.v <= x
BorderGreater(b, x) == IF b.ex THEN b.v > x ELSE b.v >= x

(***************************************************************************)
(* The search loops.  Every loop of skiplist.go that walks a level has the *)
(* form `for x.level[i].forward != nil && cond { r += span; x = forward }`; *)
(* a query record names which cond.                                        *)
(***************************************************************************)
KeyBefore(sl, f, s, m)   == sl.score[f] < s \/ (sl.score[f] = s /\ sl.member[f] < m)
KeyNotAfter(sl, f, s, m) == sl.score[f] < s \/ (sl.score[f] = s /\ sl.member[f] <= m)

LtQ(s, m)     == [kind |-> "lt", s |-> s, m |-> m]     \* insert, remove
LeQ(s, m)     == [kind |-> "le", s |-> s, m |-> m]     \* getRank
RankLeQ(r)    == [kind |-> "rankLe", rank |-> r]       \* getByRank
RankLtQ(r)    == [kind |-> "rankLt", rank |-> r]       \* RemoveRangeByRank
BelowMinQ(b)  == [kind |-> "belowMin", min |-> b]      \* RemoveRangeByScore, getFirstInScoreRange
InMaxQ(b)     == [kind |-> "inMax", max |-> b]         \* getLastInScoreRange

Advance(sl, x, i, r, q) ==
    LET f == sl.fwd[x][i] IN
    /\ f # Nil
    /\ CASE q.kind = "lt"       -> KeyBefore(sl, f, q.s, q.m)
         [] q.kind = "le"       -> KeyNotAfter(sl, f, q.s, q.m)
         [] q.kind = "rankLe"   -> r + sl.span[x][i] <= q.rank
         [] q.kind = "rankLt"   -> r + sl.span[x][i] < q.rank
         [] q.kind = "belowMin" -> ~BorderLess(q.min, sl.score[f])
         [] q.kind = "inMax"    -> BorderGreater(q.max, sl.score[f])

\* The inner loop on one level, from x with accumulated rank r.
RECURSIVE Walk(_, _, _, _, _)
Walk(sl, x, i, r, q) ==
    IF Advance(sl, x, i, r, q)
    THEN Walk(sl, sl.fwd[x][i], i, r + sl.span[x][i], q)
    ELSE [node |-> x, rank |-> r]

\* Mutant: rank[i] recorded before the walk on level i instead of after it.
RECURSIVE DescendFromStaleRank(_, _, _, _, _, _)
DescendFromStaleRank(sl, q, i, x, r, acc) ==
    IF i < 0 THEN acc
    ELSE LET w == Walk(sl, x, i, r, q)
         IN  DescendFromStaleRank(sl, q, i - 1, w.node, w.rank,
                                  [acc EXCEPT !.upd[i] = w.node, !.rank[i] = r, !.node = w.node])

\* The outer loop from level i down to 0, recording update[i] and rank[i].
RECURSIVE DescendFrom(_, _, _, _, _, _)
DescendFrom(sl, q, i, x, r, acc) ==
    IF i < 0 THEN acc
    ELSE LET w == Walk(sl, x, i, r, q)
         IN  DescendFrom(sl, q, i - 1, w.node, w.rank,
                         [acc EXCEPT !.upd[i] = w.node, !.rank[i] = w.rank, !.node = w.node])

Descend(sl, q) ==
    DescendFrom(sl, q, sl.level - 1, Header, 0,
                [upd |-> [i \in Lv |-> Header], rank |-> [i \in Lv |-> 0], node |-> Header])


(***************************************************************************)
(* insert(member, score) with randomLevel() = lv, into the fresh node id.  *)
(* Levels above the list's level are opened from the header with span =   *)
(* length; on every level below lv the node is linked after update[i] and *)
(* the span is split by rank[0] - rank[i]; the levels in between only grow *)
(* by one; then the backward pointers and the tail.                        *)
(***************************************************************************)
\* Mutant: s.level = level moved out of the `if level > s.level` block.
NewLevelReset(sl, lv) == lv

\* The list's level after an insert of height lv (skiplist.go:93-101).
NewLevel(sl, lv) == IF lv > sl.level THEN lv ELSE sl.level

Insert(sl, m, s, lv, id) ==
    LET d     == Descend(sl, LtQ(s, m))
        ext   == lv > sl.level
        upd   == [i \in Lv |-> IF i >= sl.level THEN Header ELSE d.upd[i]]
        rank  == [i \in Lv |-> IF i >= sl.level THEN 0 ELSE d.rank[i]]
        span1 == IF ext
                 THEN [sl.span EXCEPT ![Header] =
                         [i \in Lv |-> IF sl.level <= i /\ i < lv THEN sl.length ELSE @[i]]]
                 ELSE sl.span
        top   == NewLevel(sl, lv)
        fwd   == [n \in Ids |-> [i \in Lv |->
                    CASE n = id /\ i < lv     -> sl.fwd[upd[i]][i]
                      [] n = upd[i] /\ i < lv -> id
                      [] OTHER                -> sl.fwd[n][i]]]
        span  == [n \in Ids |-> [i \in Lv |->
                    CASE n = id /\ i < lv                 -> span1[upd[i]][i] - (rank[0] - rank[i])
                      [] n = upd[i] /\ i < lv             -> (rank[0] - rank[i]) + 1
                      [] n = upd[i] /\ lv <= i /\ i < top -> span1[n][i] + 1
                      [] OTHER                            -> span1[n][i]]]
        next  == fwd[id][0]
        back  == [sl.back EXCEPT ![id] = IF upd[0] = Header THEN Nil ELSE upd[0]]
    IN [sl EXCEPT !.fwd    = fwd,
                  !.span   = span,
                  !.back   = IF next # Nil THEN [back EXCEPT ![next] = id] ELSE back,
                  !.tail   = IF next # Nil THEN sl.tail ELSE id,
                  !.height = [@ EXCEPT ![id] = lv],
                  !.member = [@ EXCEPT ![id] = m],
                  !.score  = [@ EXCEPT ![id] = s],
                  !.length = sl.length + 1,
                  !.level  = top]

\* `for s.level > 1 && s.header.level[s.level-1].forward == nil { s.level-- }`
RECURSIVE ShrinkLevel(_, _)
ShrinkLevel(fwd, l) == IF l > 1 /\ fwd[Header][l - 1] = Nil THEN ShrinkLevel(fwd, l - 1) ELSE l

(***************************************************************************)
(* removeNode(node, update): on every level of the list, update[i] either  *)
(* points at the node (take over its span, less one, and, as line 140 is  *)
(* written, `update[i].level[i].forward = node`, the node itself: it stays *)
(* linked) or jumps over it (span less one); then the backward pointer of *)
(* the next node or the tail, the level, the length.                       *)
(***************************************************************************)
RemoveNode(sl, x, upd) ==
    LET links(n, i) == i < sl.level /\ n = upd[i]
        fwd  == [n \in Ids |-> [i \in Lv |->
                   IF links(n, i) /\ sl.fwd[n][i] = x THEN x ELSE sl.fwd[n][i]]]
        span == [n \in Ids |-> [i \in Lv |->
                   CASE links(n, i) /\ sl.fwd[n][i] = x -> sl.span[n][i] + sl.span[x][i] - 1
                     [] links(n, i)                     -> sl.span[n][i] - 1
                     [] OTHER                           -> sl.span[n][i]]]
        next == sl.fwd[x][0]
    IN [sl EXCEPT !.fwd    = fwd,
                  !.span   = span,
                  !.back   = IF next # Nil THEN [@ EXCEPT ![next] = sl.back[x]] ELSE @,
                  !.tail   = IF next # Nil THEN @ ELSE sl.back[x],
                  !.level  = ShrinkLevel(fwd, sl.level),
                  !.length = @ - 1]

\* remove(member, score): find update[], remove the node if it is there.
RemoveElement(sl, m, s) ==
    LET d == Descend(sl, LtQ(s, m))
        x == sl.fwd[d.node][0]
    IN  IF x # Nil /\ sl.score[x] = s /\ sl.member[x] = m
        THEN RemoveNode(sl, x, d.upd)
        ELSE sl

(***************************************************************************)
(* getRank(member, score): walk with <=, and on every level return the    *)
(* rank as soon as the node reached has the member's name; 0 if none.     *)
(***************************************************************************)
RECURSIVE RankFrom(_, _, _, _, _, _)
RankFrom(sl, m, s, i, x, r) ==
    IF i < 0 THEN 0
    ELSE LET w == Walk(sl, x, i, r, LeQ(s, m))
         IN  IF sl.member[w.node] = m THEN w.rank
             ELSE RankFrom(sl, m, s, i - 1, w.node, w.rank)

GetRank(sl, m, s) == RankFrom(sl, m, s, sl.level - 1, Header, 0)

\* getByRank(rank): the node at 1-based rank, returning as soon as the
\* accumulated rank equals it (the header for rank 0); Nil if none.
RECURSIVE ByRankFrom(_, _, _, _, _)
ByRankFrom(sl, rank, l, x, r) ==
    IF l < 0 THEN Nil
    ELSE LET w == Walk(sl, x, l, r, RankLeQ(rank))
         IN  IF w.rank = rank THEN w.node ELSE ByRankFrom(sl, rank, l - 1, w.node, w.rank)

GetByRank(sl, rank) == ByRankFrom(sl, rank, sl.level - 1, Header, 0)


(***************************************************************************)
(* The range removals: find update[] with the loop's condition, then      *)
(* remove nodes along level 0 with the same update[] while they are in   *)
(* range, reading next before each removeNode.  They return the list and  *)
(* the sequence of members removed, in the order they were removed.        *)
(***************************************************************************)
RECURSIVE RemoveWhileInScore(_, _, _, _, _)
RemoveWhileInScore(sl, x, upd, max, out) ==
    IF x # Nil /\ BorderGreater(max, sl.score[x])
    THEN RemoveWhileInScore(RemoveNode(sl, x, upd), sl.fwd[x][0], upd, max,
                            Append(out, sl.member[x]))
    ELSE [list |-> sl, removed |-> out]

RemoveRangeByScore(sl, min, max) ==
    LET d == Descend(sl, BelowMinQ(min))
    IN  RemoveWhileInScore(sl, sl.fwd[d.node][0], d.upd, max, <<>>)

RECURSIVE RemoveWhileInRank(_, _, _, _, _, _)
RemoveWhileInRank(sl, x, upd, i, stop, out) ==
    IF x # Nil /\ i < stop
    THEN RemoveWhileInRank(RemoveNode(sl, x, upd), sl.fwd[x][0], upd, i + 1, stop,
                           Append(out, sl.member[x]))
    ELSE [list |-> sl, removed |-> out]

\* RemoveRangeByRank(start, stop): 1-based ranks start .. stop-1.
RemoveRangeByRank(sl, start, stop) ==
    LET d == Descend(sl, RankLtQ(start))
    IN  RemoveWhileInRank(sl, sl.fwd[d.node][0], d.upd, d.rank[0] + 1, stop, <<>>)

(***************************************************************************)
(* The score-range lookups used by SortedSet.ForEachByScore.              *)
(***************************************************************************)
\* hasInRange: the borders leave a non-empty interval, min is below the
\* tail's score and max above the first node's score.
HasInRange(sl, min, max) ==
    /\ ~(min.v > max.v \/ (min.v = max.v /\ (min.ex \/ max.ex)))
    /\ sl.tail # Nil /\ BorderLess(min, sl.score[sl.tail])
    /\ sl.fwd[Header][0] # Nil /\ BorderGreater(max, sl.score[sl.fwd[Header][0]])

GetFirstInScoreRange(sl, min, max) ==
    IF ~HasInRange(sl, min, max) THEN Nil
    ELSE LET n == sl.fwd[Descend(sl, BelowMinQ(min)).node][0]
         IN  IF BorderGreater(max, sl.score[n]) THEN n ELSE Nil

GetLastInScoreRange(sl, min, max) ==
    IF ~HasInRange(sl, min, max) THEN Nil
    ELSE LET n == Descend(sl, InMaxQ(max)).node
         IN  IF BorderLess(min, sl.score[n]) THEN n ELSE Nil

=============================================================================
