----------------------------- MODULE SortedSet -----------------------------
(***************************************************************************)
(* SortedSet (src/dataStruct/sortedset/sortedset.go): the dual index of a  *)
(* sorted set, a map member -> score (`dict`) beside the skip list of      *)
(* SkipList.tla (`sl`).  Each mutating method is an action that calls the *)
(* skip-list operators exactly as the method does and records the call   *)
(* and its return value; the read-only methods (GetRank, ForEach/Range,   *)
(* ForEachByScore/RangeByScore) are operators on the current state.       *)
(*                                                                         *)
(* randomLevel() is a nondeterministic choice of a level in 1..MaxLevel.  *)
(* Removals tells whether callers make calls that reach removeNode with a *)
(* node to unlink: a re-score by Add, Remove of a present member, a range *)
(* removal that finds members.  Without them the calls that remain are    *)
(* inserts, no-op re-adds and removals that find nothing.                 *)
(* The skip list is used under the enclosing key's lock only (spec 5), so *)
(* every method is one atomic step.                                        *)
(***************************************************************************)
EXTENDS SkipList, FiniteSets

CONSTANTS
    Members,    \* member names (naturals; 0 stands for "")
    Scores,     \* scores
    Borders,    \* score borders [v, ex] for range calls and queries
    RankArgs,   \* start / stop arguments of rank calls
    MaxOffset,  \* largest offset of a RangeByScore query
    MaxOps,     \* bound on the number of calls
    Removals    \* callers remove members (see above)

ASSUME /\ MaxOps \in Nat
       /\ Removals \in BOOLEAN
       /\ MaxOps <= MaxNodes   \* every insert finds a fresh node

VARIABLES
    dict,       \* SortedSet.dict: member -> score, Nil when absent
    sl,         \* SortedSet.skipList
    nextId,     \* next free node of the arena (makeNode)
    call,       \* the last call, its arguments and its return value
    ops         \* calls made so far

vars == <<dict, sl, nextId, call, ops>>

Abs == INSTANCE ZSetAbstract

Init ==
    /\ dict   = [m \in Members |-> Nil]
    /\ sl     = EmptyList
    /\ nextId = 1
    /\ call   = Abs!Call("none", Nil, Nil, Nil, Nil, Nil, Nil, Nil)
    /\ ops    = 0

Step == ops < MaxOps /\ ops' = ops + 1

\* Mutant: randomLevel without its cap at maxLevel.
RandomLevelsUncapped == 1..(MaxLevel + 1)

\* The levels randomLevel() returns.
RandomLevels == 1..MaxLevel

(***************************************************************************)
(* Add(member, score): dict is overwritten first; an existing member with *)
(* a different score is removed from the skip list under its old score    *)
(* and inserted again; a new member is inserted.                           *)
(***************************************************************************)
\* Mutant: Add reports a new member when it found one (`return ok`).
AddFlagInverted(m, s, lv) ==
    LET old == dict[m] IN
    /\ Removals \/ old = Nil \/ s = old
    /\ Step
    /\ dict' = [dict EXCEPT ![m] = s]
    /\ call' = Abs!Call("add", m, s, Nil, Nil, Nil, Nil, old # Nil)
    /\ IF old # Nil /\ s = old
       THEN UNCHANGED <<sl, nextId>>
       ELSE /\ sl' = Insert(IF old # Nil THEN RemoveElement(sl, m, old) ELSE sl, m, s, lv, nextId)
            /\ nextId' = nextId + 1

Add(m, s, lv) ==
    LET old == dict[m] IN
    /\ Removals \/ old = Nil \/ s = old
    /\ Step
    /\ dict' = [dict EXCEPT ![m] = s]
    /\ call' = Abs!Call("add", m, s, Nil, Nil, Nil, Nil, old = Nil)
    /\ IF old # Nil /\ s = old
       THEN UNCHANGED <<sl, nextId>>
       ELSE /\ sl' = Insert(IF old # Nil THEN RemoveElement(sl, m, old) ELSE sl, m, s, lv, nextId)
            /\ nextId' = nextId + 1

\* Remove(member): skipList.remove under the member's score, then delete.
RemoveMember(m) ==
    /\ Removals \/ dict[m] = Nil
    /\ Step
    /\ call' = Abs!Call("remove", m, Nil, Nil, Nil, Nil, Nil, dict[m] # Nil)
    /\ IF dict[m] # Nil
       THEN /\ sl' = RemoveElement(sl, m, dict[m])
            /\ dict' = [dict EXCEPT ![m] = Nil]
       ELSE UNCHANGED <<sl, dict>>
    /\ UNCHANGED nextId

\* The members a range removal returned are deleted from dict; the
\* method returns len(removed).
Removed(r, c) ==
    /\ sl' = r.list
    /\ dict' = [m \in Members |-> IF m \in Range(r.removed) THEN Nil ELSE dict[m]]
    /\ call' = c
    /\ UNCHANGED nextId

RemoveByScore(min, max) ==
    LET r == RemoveRangeByScore(sl, min, max) IN
    /\ Removals \/ r.removed = <<>>
    /\ Step
    /\ Removed(r, Abs!Call("removeByScore", Nil, Nil, min, max, Nil, Nil, Len(r.removed)))

\* RemoveByRank(start, stop): RemoveRangeByRank(start+1, stop+1).
RemoveByRank(start, stop) ==
    LET r == RemoveRangeByRank(sl, start + 1, stop + 1) IN
    /\ Removals \/ r.removed = <<>>
    /\ Step
    /\ Removed(r, Abs!Call("removeByRank", Nil, Nil, Nil, Nil, start, stop, Len(r.removed)))

\* No more calls: the set stays as it is.
Done == ops = MaxOps /\ UNCHANGED vars

Next ==
    \/ \E m \in Members, s \in Scores, lv \in RandomLevels : Add(m, s, lv)
    \/ \E m \in Members : RemoveMember(m)
    \/ \E min, max \in Borders : RemoveByScore(min, max)
    \/ \E start, stop \in RankArgs : RemoveByRank(start, stop)
    \/ Done

Spec == Init /\ [][Next]_vars

(***************************************************************************)
(* The read-only methods.                                                  *)
(***************************************************************************)
\* Mutant: the descending rank as length - r - 1.
ZGetRankDescOffByOne(m, desc) ==
    IF dict[m] = Nil THEN -1
    ELSE LET r == GetRank(sl, m, dict[m])
         IN  IF desc THEN sl.length - r - 1 ELSE r - 1

\* GetRank(member, desc): -1 for a missing member; else from getRank's
\* 1-based rank r, length - r descending and r - 1 ascending.
ZGetRank(m, desc) ==
    IF dict[m] = Nil THEN -1
    ELSE LET r == GetRank(sl, m, dict[m])
         IN  IF desc THEN sl.length - r ELSE r - 1

\* One step of a walk along level 0, forward or backward.
NextNode(n, desc) == IF desc THEN sl.back[n] ELSE sl.fwd[n][0]

\* ForEach's loop: k members from node n on; following a nil pointer is a
\* nil dereference (a panic), recorded as Nil in the output.
RECURSIVE Collect(_, _, _)
Collect(n, k, desc) ==
    IF k = 0 THEN <<>>
    ELSE IF n = Nil THEN <<Nil>>
    ELSE <<sl.member[n]>> \o Collect(NextNode(n, desc), k - 1, desc)

\* Mutant: the descending start node as getByRank(size - start + 1).
ZRangeDescOffByOne(start, stop, desc) ==
    LET size  == Cardinality(Abs!Present(dict))
        first == CASE desc /\ start = 0  -> sl.tail
                   [] desc               -> GetByRank(sl, size - start + 1)
                   [] start = 0          -> sl.fwd[Header][0]
                   [] OTHER              -> GetByRank(sl, start + 1)
    IN  Collect(first, stop - start, desc)

\* Range(start, stop, desc) through ForEach, for 0 <= start < size and
\* start <= stop <= size (ForEach panics otherwise): the start node is the
\* tail or getByRank(size - start) descending, the first node or
\* getByRank(start + 1) ascending.
ZRange(start, stop, desc) ==
    LET size  == Cardinality(Abs!Present(dict))
        first == CASE desc /\ start = 0  -> sl.tail
                   [] desc               -> GetByRank(sl, size - start)
                   [] start = 0          -> sl.fwd[Header][0]
                   [] OTHER              -> GetByRank(sl, start + 1)
    IN  Collect(first, stop - start, desc)

\* Mutant: the loop stops at nil only, not at the score borders.
RECURSIVE VisitByScoreNoBorderCheck(_, _, _, _, _, _, _)
VisitByScoreNoBorderCheck(n, i, min, max, limit, desc, out) ==
    IF (i < limit \/ limit < 0) /\ n # Nil
    THEN VisitByScoreNoBorderCheck(NextNode(n, desc), i + 1, min, max, limit, desc,
                                   Append(out, sl.member[n]))
    ELSE out

\* ForEachByScore's second loop: consume, step, stop at nil or at the
\* first node outside the borders, at most limit nodes (all when < 0).
RECURSIVE VisitByScore(_, _, _, _, _, _, _)
VisitByScore(n, i, min, max, limit, desc, out) ==
    IF (i < limit \/ limit < 0) /\ n # Nil
    THEN LET nx == NextNode(n, desc)
             o  == Append(out, sl.member[n])
         IN  IF nx = Nil \/ ~BorderLess(min, sl.score[nx]) \/ ~BorderGreater(max, sl.score[nx])
             THEN o
             ELSE VisitByScore(nx, i + 1, min, max, limit, desc, o)
    ELSE out

\* ForEachByScore's first loop: skip offset nodes.
RECURSIVE SkipNodes(_, _, _)
SkipNodes(n, offset, desc) ==
    IF n # Nil /\ offset > 0 THEN SkipNodes(NextNode(n, desc), offset - 1, desc) ELSE n

\* RangeByScore(min, max, offset, limit, desc) through ForEachByScore.
ZRangeByScore(min, max, offset, limit, desc) ==
    IF limit = 0 \/ offset < 0 THEN <<>>
    ELSE LET first == IF desc THEN GetLastInScoreRange(sl, min, max)
                               ELSE GetFirstInScoreRange(sl, min, max)
         IN  VisitByScore(SkipNodes(first, offset, desc), 0, min, max, limit, desc, <<>>)


(***************************************************************************)
(* The list as its pointers show it: the nodes met following forward      *)
(* pointers on level i from the header, and backward pointers from the    *)
(* tail.  A walk stops after MaxNodes + 1 nodes, so that a cycle shows up *)
(* as a chain longer than the set.                                         *)
(***************************************************************************)
RECURSIVE ChainFrom(_, _, _)
ChainFrom(n, i, fuel) ==
    IF n = Nil \/ fuel = 0 THEN <<>> ELSE <<n>> \o ChainFrom(sl.fwd[n][i], i, fuel - 1)

RECURSIVE BackFrom(_, _)
BackFrom(n, fuel) ==
    IF n = Nil \/ fuel = 0 THEN <<>> ELSE <<n>> \o BackFrom(sl.back[n], fuel - 1)

Chain(i) == ChainFrom(sl.fwd[Header][i], i, MaxNodes + 1)

\* 1-based position of a node on level 0 (0 for the header, -1 if absent).
Pos(n) ==
    LET c == Chain(0) IN
    CASE n = Header     -> 0
      [] n \in Range(c) -> CHOOSE j \in DOMAIN c : c[j] = n
      [] OTHER          -> -1

TypeOK ==
    /\ dict \in [Members -> Scores \cup {Nil}]
    /\ nextId \in 1..(MaxNodes + 1)
    /\ ops \in 0..MaxOps
    /\ sl.fwd \in [Ids -> [Lv -> Ids \cup {Nil}]]
    /\ sl.back \in [Ids -> Ids \cup {Nil}]
    /\ sl.tail \in Ids \cup {Nil}
    /\ sl.length \in 0..MaxNodes
    /\ sl.level \in 1..MaxLevel

(***************************************************************************)
(* After any sequence of calls, the                                         *)
(* skip list holds exactly dict's members once each, in (score, member)    *)
(* order, with their current scores: level 0 from the header, read back   *)
(* through the backward pointers from the tail, and every higher level is *)
(* the subsequence of the nodes that tall; length and level agree.  This  *)
(* is what insert's linking on every level below the node's height and   *)
(* its raise of the list's level maintain; removeNode as written does not *)
(* (zset_remove_node.cfg).                                                 *)
(***************************************************************************)
ListMatchesDict ==
    LET c == Chain(0) IN
    /\ [j \in DOMAIN c |-> sl.member[c[j]]] = Abs!Sorted(dict)
    /\ \A j \in DOMAIN c : sl.score[c[j]] = dict[sl.member[c[j]]]
    /\ sl.length = Len(c)
    /\ Reverse(BackFrom(sl.tail, MaxNodes + 1)) = c
    /\ \A i \in 1..(sl.level - 1) : Chain(i) = SelectSeq(c, LAMBDA n : sl.height[n] > i)
    /\ \A i \in sl.level..(MaxLevel - 1) : sl.fwd[Header][i] = Nil
    /\ sl.level = 1 \/ sl.fwd[Header][sl.level - 1] # Nil

(***************************************************************************)
(* Spans (spec 8.3, per node): on every level in use, the span of the     *)
(* header and of every node is the number of level-0 steps to its forward *)
(* node, or to the end of the list for the last node, so the spans along  *)
(* a level sum to length.  Insert's rank[0] - rank[i] split, the spans of  *)
(* newly raised header levels and the +1 on levels above the node keep it. *)
(***************************************************************************)
SpanInvariant ==
    \A i \in 0..(sl.level - 1) :
        \A n \in {Header} \cup Range(Chain(i)) :
            sl.span[n][i] = (IF sl.fwd[n][i] = Nil THEN sl.length ELSE Pos(sl.fwd[n][i])) - Pos(n)

(***************************************************************************)
(* Rank consistency (spec 8.2): GetRank of every member is its 0-based    *)
(* rank in the order, ascending, and length - rank - 1 descending.  This  *)
(* relies on getRank's walk with <= and its early return on the member.   *)
(***************************************************************************)
RankConsistency ==
    \A m \in Abs!Present(dict) :
        /\ ZGetRank(m, FALSE) = Abs!RankOf(dict, m)
        /\ ZGetRank(m, TRUE) = Len(Abs!Sorted(dict)) - Abs!RankOf(dict, m) - 1

(***************************************************************************)
(* Range(start, stop, desc) returns the members of ranks [start, stop) in *)
(* the requested order for every legal start and stop (spec 4.B          *)
(* rangeByRank; 8.2 is the case stop = start + 1): getByRank and the     *)
(* forward and backward pointers agree.                                    *)
(***************************************************************************)
RangeMatches ==
    LET size == Len(Abs!Sorted(dict)) IN
    \A start \in 0..(size - 1), desc \in BOOLEAN :
        \A stop \in start..size :
            ZRange(start, stop, desc) = SubSeq(Abs!Ordered(dict, desc), start + 1, stop)

(***************************************************************************)
(* RangeByScore returns the members within the borders, in order, after  *)
(* skipping offset of them and at most limit (spec 4.B rangeByScore:     *)
(* iteration stops at the first out-of-range node).                        *)
(***************************************************************************)
RangeByScoreMatches ==
    \A min, max \in Borders, offset \in 0..MaxOffset, limit \in -1..2, desc \in BOOLEAN :
        ZRangeByScore(min, max, offset, limit, desc)
            = Abs!RangeByScoreRef(dict, min, max, offset, limit, desc)

(***************************************************************************)
(* The sorted set implements its abstract specification: every call      *)
(* leaves the members and scores, and returns the value, that the        *)
(* map-only ZSetAbstract prescribes (Add's "new member" flag, Remove's    *)
(* flag, the counts of RemoveByScore and RemoveByRank).                    *)
(***************************************************************************)
ImplementsZSet == Abs!Spec

=============================================================================
