------------------------------ MODULE Keyspace ------------------------------
(***************************************************************************)
(* One DB with its TTL index and a clock: the key commands of              *)
(* src/database/keys.go with expiry (DEL, EXISTS, TYPE, FLUSHDB, RENAME,   *)
(* RENAMENX, EXPIRE, EXPIREAT, PEXPIRE, PEXPIREAT, TTL, PTTL, PERSIST,     *)
(* KEYS), SET, the undo logs of keys.go and src/database/tx_utils.go that  *)
(* MULTI/EXEC replays to roll a transaction back, and the line each        *)
(* command hands to the AOF (aof.MakeExpireCmd for the EXPIRE family).     *)
(*                                                                         *)
(* The DB methods (GetEntity, PutEntity, Removes, Expire, Persist, Flush)  *)
(* and SET live in files not under src/ and are modelled from spec 4.C:    *)
(* an entry whose expiration instant is <= now is logically absent, a      *)
(* read of it removes it (lazy expiration), put installs an entry without  *)
(* the prior TTL.                                                          *)
(*                                                                         *)
(* Time is counted in ticks, TicksPerMs to the millisecond: time.Now has   *)
(* nanosecond resolution, so an instant need not be a whole millisecond.  *)
(* The Unix epoch is tick 0.  Every command runs under its key locks, so   *)
(* each is one step.                                                       *)
(***************************************************************************)
EXTENDS Integers, FiniteSets, Sequences

Seqs == INSTANCE SequencesExt

CONSTANTS
    Keys,
    Vals,
    Args,       \* the integer arguments of the EXPIRE family
    Ops,        \* the commands clients issue
    TicksPerMs,
    MaxNow,     \* the clock stops here
    MaxTx,      \* commands queued by one MULTI
    MaxPanics,  \* transactions aborted by a panicking command
    NaN,        \* an argument strconv.ParseInt rejects
    Nil

ASSUME TicksPerMs \in Nat \ {0} /\ MaxNow \in Nat /\ Args \subseteq Int
    /\ MaxTx \in Nat \ {0} /\ MaxPanics \in Nat

MsPerSec == 1000

\* A DB: DB.data and DB.ttlMap, Nil where a key has no entry / no TTL.
EmptyDB == [data |-> [k \in Keys |-> Nil], ttl |-> [k \in Keys |-> Nil]]

Cmd(op, k1, k2, v, n) == [op |-> op, k1 |-> k1, k2 |-> k2, v |-> v, n |-> n]
Line1(op, k) == Cmd(op, k, Nil, Nil, Nil)

\* Every command named op; NaN stands for a non-integer argument.
CommandsOf(op) ==
    CASE op = "set"  -> {Cmd(op, k, Nil, v, Nil) : k \in Keys, v \in Vals}
      [] op \in {"rename", "renamenx"} -> {Cmd(op, s, d, Nil, Nil) : s, d \in Keys}
      [] op \in {"expire", "expireat", "pexpire", "pexpireat"} ->
            {Cmd(op, k, Nil, Nil, n) : k \in Keys, n \in Args \cup {NaN}}
      [] op \in {"flushdb", "keys"} -> {Cmd(op, Nil, Nil, Nil, Nil)}
      [] OTHER -> {Line1(op, k) : k \in Keys}

Commands == UNION {CommandsOf(op) : op \in Ops}

-----------------------------------------------------------------------------
(* The DB methods (spec 4.C).                                              *)

Expired(db, k, now) == db.ttl[k] # Nil /\ db.ttl[k] <= now
Live(db, k, now) == db.data[k] # Nil /\ ~Expired(db, k, now)

Remove(db, k) == [data |-> [db.data EXCEPT ![k] = Nil], ttl |-> [db.ttl EXCEPT ![k] = Nil]]

\* GetEntity: an expired entry is removed and reads as missing.
GetEntity(db, k, now) == IF Expired(db, k, now) THEN Remove(db, k) ELSE db

PutEntity(db, k, v) == [data |-> [db.data EXCEPT ![k] = v], ttl |-> [db.ttl EXCEPT ![k] = Nil]]
Expire(db, k, t) == [db EXCEPT !.ttl[k] = t]
Persist(db, k) == [db EXCEPT !.ttl[k] = Nil]

\* Removes(keys...): the number of live entries removed.
Removes(db, ks, now) ==
    [db |-> [data |-> [k \in Keys |-> IF k \in ks THEN Nil ELSE db.data[k]],
             ttl  |-> [k \in Keys |-> IF k \in ks THEN Nil ELSE db.ttl[k]]],
     n  |-> Cardinality({k \in ks : Live(db, k, now)})]

\* What a client can observe at instant now: the live entries and their TTL.
View(db, now) ==
    [data |-> [k \in Keys |-> IF Live(db, k, now) THEN db.data[k] ELSE Nil],
     ttl  |-> [k \in Keys |-> IF Live(db, k, now) THEN db.ttl[k] ELSE Nil]]

\* Go's integer division truncates toward zero (UnixNano()/1e6 of an instant
\* before the epoch).
GoDiv(a, b) == IF a >= 0 THEN a \div b ELSE -((-a) \div b)

\* aof.MakeExpireCmd: PEXPIREAT key expireAt.UnixNano()/1e6, whole ms.
MakeExpireCmd(k, t) == Cmd("pexpireat", k, Nil, Nil, GoDiv(t, TicksPerMs))

\* The instant an EXPIRE-family command names, in ticks.
ExpireAt(c, now) ==
    CASE c.op = "expire"    -> now + c.n * MsPerSec * TicksPerMs
      [] c.op = "expireat"  -> c.n * MsPerSec * TicksPerMs
      [] c.op = "pexpire"   -> now + c.n * TicksPerMs
      [] c.op = "pexpireat" -> c.n * TicksPerMs

\* Replies: integer, status, error and multi-bulk.
IntReply(n) == [int |-> n]
StatusReply(s) == [status |-> s]
OkReply == StatusReply("OK")
ErrReply == [err |-> "ERR"]
ArrayReply(ks) == [array |-> ks]

Result(db, reply, aof) == [db |-> db, reply |-> reply, aof |-> aof]

-----------------------------------------------------------------------------
(* The handlers of keys.go, and SET.  Each returns the DB after the call,  *)
(* the reply and the lines handed to addAof.                               *)

\* SET k v (spec 4.C put: the prior TTL is not inherited).
ExecSet(db, c) == Result(PutEntity(db, c.k1, c.v), OkReply, <<c>>)

DelKeys(c) == {c.k1, c.k2} \ {Nil}

execDel(db, c, now) ==
    LET r == Removes(db, DelKeys(c), now)
    IN  Result(r.db, IntReply(r.n), IF r.n > 0 THEN <<c>> ELSE <<>>)

execExists(db, c, now) ==
    LET g == GetEntity(db, c.k1, now)
    IN  Result(g, IntReply(IF g.data[c.k1] # Nil THEN 1 ELSE 0), <<>>)

execFlushDB(db, c) == Result(EmptyDB, OkReply, <<c>>)

\* Every value is a string here.
execType(db, c, now) ==
    LET g == GetEntity(db, c.k1, now)
    IN  Result(g, StatusReply(IF g.data[c.k1] # Nil THEN "string" ELSE "none"), <<>>)

\* Moves the entity and the raw TTL of src to dest.
MoveTTL(db, s, d, rawTTL) ==
    IF rawTTL # Nil THEN Expire(Persist(Persist(db, s), d), d, rawTTL) ELSE db

execRename(db, c, now) ==
    LET g == GetEntity(db, c.k1, now)
    IN  IF g.data[c.k1] = Nil THEN Result(g, ErrReply, <<>>)
        ELSE LET moved == Remove(PutEntity(g, c.k2, g.data[c.k1]), c.k1)
             IN  Result(MoveTTL(moved, c.k1, c.k2, g.ttl[c.k1]), OkReply, <<c>>)

execRenameNx(db, c, now) ==
    LET gd == GetEntity(db, c.k2, now)
        gs == GetEntity(gd, c.k1, now)
    IN  CASE gd.data[c.k2] # Nil -> Result(gd, IntReply(0), <<>>)
          [] gs.data[c.k1] = Nil -> Result(gs, ErrReply, <<>>)
          [] OTHER ->
               LET moved == PutEntity(Removes(gs, {c.k1, c.k2}, now).db, c.k2, gs.data[c.k1])
               IN  Result(MoveTTL(moved, c.k1, c.k2, gs.ttl[c.k1]), IntReply(1), <<c>>)

\* EXPIRE, EXPIREAT, PEXPIRE, PEXPIREAT: ParseInt, then GetEntity, then
\* Expire and the PEXPIREAT line.
execExpireFamily(db, c, now) ==
    LET g == GetEntity(db, c.k1, now)
        t == ExpireAt(c, now)
    IN  CASE c.n = NaN         -> Result(db, ErrReply, <<>>)
          [] g.data[c.k1] = Nil  -> Result(g, IntReply(0), <<>>)
          [] OTHER -> Result(Expire(g, c.k1, t), IntReply(1), <<MakeExpireCmd(c.k1, t)>>)

\* TTL and PTTL: -2 missing, -1 no TTL, else the rest truncated to the unit.
execTTLFamily(db, c, now) ==
    LET g == GetEntity(db, c.k1, now)
        unit == IF c.op = "ttl" THEN MsPerSec * TicksPerMs ELSE TicksPerMs
    IN  Result(g, IntReply(CASE g.data[c.k1] = Nil -> -2
                    [] g.ttl[c.k1] = Nil  -> -1
                    [] OTHER -> GoDiv(g.ttl[c.k1] - now, unit)), <<>>)

\* Mutant: PERSIST forgets its addAof.
execPersistNoAof(db, c, now) ==
    LET g == GetEntity(db, c.k1, now)
    IN  IF g.data[c.k1] = Nil \/ g.ttl[c.k1] = Nil THEN Result(g, IntReply(0), <<>>)
        ELSE Result(Persist(g, c.k1), IntReply(1), <<>>)

execPersist(db, c, now) ==
    LET g == GetEntity(db, c.k1, now)
    IN  IF g.data[c.k1] = Nil \/ g.ttl[c.k1] = Nil THEN Result(g, IntReply(0), <<>>)
        ELSE Result(Persist(g, c.k1), IntReply(1), <<c>>)

\* KEYS *: db.data.ForEach, which sees entries whether or not they expired.
execKeys(db, c) == Result(db, ArrayReply({k \in Keys : db.data[k] # Nil}), <<>>)

Exec(db, c, now) ==
    CASE c.op = "set"      -> ExecSet(db, c)
      [] c.op = "del"      -> execDel(db, c, now)
      [] c.op = "exists"   -> execExists(db, c, now)
      [] c.op = "flushdb"  -> execFlushDB(db, c)
      [] c.op = "type"     -> execType(db, c, now)
      [] c.op = "rename"   -> execRename(db, c, now)
      [] c.op = "renamenx" -> execRenameNx(db, c, now)
      [] c.op \in {"expire", "expireat", "pexpire", "pexpireat"} ->
                              execExpireFamily(db, c, now)
      [] c.op \in {"ttl", "pttl"} -> execTTLFamily(db, c, now)
      [] c.op = "persist"  -> execPersist(db, c, now)
      [] c.op = "keys"     -> execKeys(db, c)
-----------------------------------------------------------------------------
(* Undo logs (keys.go, tx_utils.go).  rollbackGivenKeys reads through      *)
(* GetEntity, so computing an undo log can itself purge an expired entry:  *)
(* each returns the DB after the reads and the lines.                      *)

\* toTTLCmd: the raw TTL entry, PEXPIREAT in whole ms, or PERSIST.
toTTLCmd(db, k) ==
    IF db.ttl[k] = Nil THEN Line1("persist", k)
    ELSE Cmd("pexpireat", k, Nil, Nil, GoDiv(db.ttl[k], TicksPerMs))

\* aof.EntityToCmd of a string: SET key value.
EntityToCmd(k, v) == Cmd("set", k, Nil, v, Nil)

Undo(db, lines) == [db |-> db, lines |-> lines]

RECURSIVE rollbackGivenKeys(_, _, _)
rollbackGivenKeys(db, ks, now) ==
    IF ks = <<>> THEN Undo(db, <<>>)
    ELSE LET k    == Head(ks)
             g    == GetEntity(db, k, now)
             mine == IF g.data[k] = Nil THEN <<Line1("del", k)>>
                     ELSE <<Line1("del", k), EntityToCmd(k, g.data[k]), toTTLCmd(g, k)>>
             rest == rollbackGivenKeys(g, Tail(ks), now)
         IN  Undo(rest.db, mine \o rest.lines)

undoDel(db, c, now) ==
    rollbackGivenKeys(db, IF c.k2 = Nil THEN <<c.k1>> ELSE <<c.k1, c.k2>>, now)

undoRename(db, c, now) == rollbackGivenKeys(db, <<c.k1, c.k2>>, now)

undoExpire(db, c) == Undo(db, <<toTTLCmd(db, c.k1)>>)

\* rollbackFirstKey, SET's undo function.
rollbackFirstKey(db, c, now) == rollbackGivenKeys(db, <<c.k1>>, now)

\* DB.GetUndoLogs: the undo function the command table registers, if any.
GetUndoLogs(db, c, now) ==
    CASE c.op = "set"                      -> rollbackFirstKey(db, c, now)
      [] c.op = "del"                      -> undoDel(db, c, now)
      [] c.op \in {"rename", "renamenx"}   -> undoRename(db, c, now)
      [] c.op \in {"expire", "expireat", "pexpire", "pexpireat", "persist"} ->
                                              undoExpire(db, c)
      [] OTHER                             -> Undo(db, <<>>)

\* execWithLock of each line in turn, replies dropped.
RECURSIVE Replay(_, _, _)
Replay(db, lines, now) ==
    IF lines = <<>> THEN db
    ELSE Replay(Exec(db, Head(lines), now).db, Tail(lines), now)
-----------------------------------------------------------------------------
(* MULTI/EXEC on the DB (spec 4.D; DB.ExecMulti is not under src/).  A     *)
(* client queues commands; EXEC runs them in order, asking each for its    *)
(* undo log just before running it; when a handler panics, the undo logs  *)
(* gathered so far are replayed, last command first, each line through    *)
(* execWithLock.  The clock runs on throughout.  A panic comes from a     *)
(* handler that fails before it changed anything (none of the keys.go     *)
(* handlers panics on its own).                                            *)

VARIABLES
    db,        \* DB.data and DB.ttlMap
    now,       \* time.Now(), in ticks
    queue,     \* the commands queued and not yet run
    phase,     \* "idle", "run" (EXEC running the queue), "undo" (rolling back)
    snapshot,  \* the DB when EXEC started
    undo,      \* the undo logs of the commands EXEC ran, in order
    rb,        \* the rollback lines still to run
    last,      \* the last line executed: the command, its reply and its AOF lines
    panics

vars == <<db, now, queue, phase, snapshot, undo, rb, last, panics>>

NoLine == [cmd |-> Nil, reply |-> Nil, aof |-> <<>>]

Init ==
    /\ db = EmptyDB
    /\ now = 0
    /\ queue = <<>>
    /\ phase = "idle"
    /\ snapshot = EmptyDB
    /\ undo = <<>>
    /\ rb = <<>>
    /\ last = NoLine
    /\ panics = 0

\* execWithLock(c) at the current instant, remembered in last.
Run(c) ==
    LET r == Exec(db, c, now)
    IN  /\ db' = r.db
        /\ last' = [cmd |-> c, reply |-> r.reply, aof |-> r.aof]

Tick ==
    /\ now < MaxNow
    /\ now' = now + 1
    /\ UNCHANGED <<db, queue, phase, snapshot, undo, rb, last, panics>>

\* A command received between MULTI and EXEC.
Enqueue(c) ==
    /\ phase = "idle"
    /\ Len(queue) < MaxTx
    /\ queue' = Append(queue, c)
    /\ UNCHANGED <<db, now, phase, snapshot, undo, rb, last, panics>>

ExecStart ==
    /\ phase = "idle"
    /\ queue # <<>>
    /\ phase' = "run"
    /\ snapshot' = db
    /\ undo' = <<>>
    /\ UNCHANGED <<db, now, queue, rb, last, panics>>

\* ExecMulti returns: its snapshot and undo logs are gone.
EndExec == phase' = "idle" /\ snapshot' = EmptyDB /\ undo' = <<>>

\* GetUndoLogs, then the handler.
RunQueued ==
    /\ phase = "run"
    /\ queue # <<>>
    /\ LET c == Head(queue)
           u == GetUndoLogs(db, c, now)
           r == Exec(u.db, c, now)
       IN  /\ db' = r.db
           /\ last' = [cmd |-> c, reply |-> r.reply, aof |-> r.aof]
           /\ undo' = Append(undo, u.lines)
    /\ queue' = Tail(queue)
    /\ UNCHANGED <<now, phase, snapshot, rb, panics>>

\* Every command ran: EXEC replies.
ExecDone ==
    /\ phase = "run"
    /\ queue = <<>>
    /\ EndExec
    /\ UNCHANGED <<db, now, queue, rb, last, panics>>

\* Mutant: the per-command undo logs are not flattened into lines.
PanicUnflattened ==
    /\ phase = "run"
    /\ panics < MaxPanics
    /\ LET u == IF queue = <<>> THEN Undo(db, <<>>) ELSE GetUndoLogs(db, Head(queue), now)
       IN  /\ db' = u.db
           /\ undo' = Append(undo, u.lines)
           /\ rb' = Seqs!Reverse(Append(undo, u.lines))
    /\ panics' = panics + 1
    /\ queue' = <<>>
    /\ phase' = "undo"
    /\ UNCHANGED <<now, snapshot, last>>

\* A command of the transaction after the ones run so far panics (one of
\* the queue, or one outside this model): the rollback starts.  A queued
\* command's undo log was gathered before its handler ran.
Panic ==
    /\ phase = "run"
    /\ panics < MaxPanics
    /\ LET u == IF queue = <<>> THEN Undo(db, <<>>) ELSE GetUndoLogs(db, Head(queue), now)
       IN  /\ db' = u.db
           /\ undo' = Append(undo, u.lines)
           /\ rb' = Seqs!FlattenSeq(Seqs!Reverse(Append(undo, u.lines)))
    /\ panics' = panics + 1
    /\ queue' = <<>>
    /\ phase' = "undo"
    /\ UNCHANGED <<now, snapshot, last>>

UndoLine ==
    /\ phase = "undo"
    /\ rb # <<>>
    /\ Run(Head(rb))
    /\ rb' = Tail(rb)
    /\ UNCHANGED <<now, queue, phase, snapshot, undo, panics>>

UndoDone ==
    /\ phase = "undo"
    /\ rb = <<>>
    /\ EndExec
    /\ UNCHANGED <<db, now, queue, rb, last, panics>>

Next ==
    \/ Tick
    \/ \E c \in Commands : Enqueue(c)
    \/ ExecStart
    \/ RunQueued
    \/ ExecDone
    \/ Panic
    \/ UndoLine
    \/ UndoDone

Spec == Init /\ [][Next]_vars
-----------------------------------------------------------------------------
(* Properties.                                                             *)

Lines == [op : STRING, k1 : Keys \cup {Nil}, k2 : Keys \cup {Nil},
          v : Vals \cup {Nil}, n : Int \cup {NaN, Nil}]
DBs == [data : [Keys -> Vals \cup {Nil}], ttl : [Keys -> Int \cup {Nil}]]

TypeOK ==
    /\ db \in DBs /\ snapshot \in DBs
    /\ now \in 0..MaxNow
    /\ queue \in Seq(Commands) /\ Len(queue) <= MaxTx
    /\ phase \in {"idle", "run", "undo"}
    /\ undo \in Seq(Seq(Lines)) /\ rb \in Seq(Lines)
    /\ last.aof \in Seq(Lines)
    /\ panics \in 0..MaxPanics

\* The key commands, lazy expiration and the rollback lines, seen through
\* the live entries, behave as the logical keyspace of spec 4.C/4.D: a
\* read never changes what a client sees, RENAME moves the TTL, an instant
\* already past removes the key.
Abstract == INSTANCE KeyspaceAbstract WITH
    kv <- View(db, now).data, exp <- View(db, now).ttl, cmd <- last.cmd, reply <- last.reply
ImplementsKeyspace == Abstract!Spec

\* The lines a command hands to addAof, replayed from the DB it ran on at
\* the instant it ran (as LoadAof replays them), give the DB it left, then
\* and at every later instant: the PEXPIREAT of aof.MakeExpireCmd keeps
\* the instant execExpire and its kin set.
ReplayMatches ==
    [][RunQueued \/ UndoLine =>
        \A t \in now..MaxNow : View(Replay(db, last'.aof, now), t) = View(db', t)]_vars

\* The DB as its AOF lines can state it: every TTL cut to the whole
\* millisecond of PEXPIREAT, as MakeExpireCmd and toTTLCmd write it.
LoggedMs(d) ==
    [d EXCEPT !.ttl = [k \in Keys |->
        IF d.ttl[k] = Nil THEN Nil ELSE GoDiv(d.ttl[k], TicksPerMs) * TicksPerMs]]

\* ReplayMatches up to that cut: the lines a command or a rollback line
\* hands to addAof, replayed from the DB it ran on, give the DB it left,
\* then and at every later instant, once both have their TTLs cut to the
\* millisecond.  A handler that logs nothing, logs the wrong command or
\* forgets a TTL is caught; the sub-millisecond loss itself is
\* keyspace_ms.cfg's violation of ReplayMatches.
ReplayMatchesToTheMs ==
    [][RunQueued \/ UndoLine =>
        \A t \in now..MaxNow :
            View(LoggedMs(Replay(db, last'.aof, now)), t) = View(LoggedMs(db'), t)]_vars

\* Spec 4.D: a transaction rolled back after a panic leaves every key as it
\* was when EXEC started: the undo logs of keys.go and tx_utils.go
\* restore the pre-state of each key a command writes.
UndoRestores ==
    [][phase = "undo" /\ phase' = "idle" => View(db', now') = View(snapshot, now')]_vars
=============================================================================
