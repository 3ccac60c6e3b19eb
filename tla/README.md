# TLA+ models of godis-own

This directory holds TLA+ models of the Go key-value server under `src/`.
TLC checks them. The first modules cover the part of the server where
concurrency and persistence meet: command execution under per-key locks, the
append-only file (AOF) writer, the AOF loader and the online AOF rewrite.

## The system

| Part | Source | State | Operations |
|---|---|---|---|
| MultiDB engine | `src/database/server.go` | `dbSet` (one DB per index), `aofHandler` | `Exec`: dispatches FLUSHALL, SELECT and BGREWRITEAOF, and runs every other command in the connection's DB under `RWLocks`; `flushAll`; `execSelect`; `BGRewriteAOF` (`go Rewrite()`) |
| Key commands | `src/database/keys.go`, `tx_utils.go` | the DB's `data` and `ttlMap` | DEL, RENAME, RENAMENX, FLUSHDB, EXPIRE*, PERSIST, TTL, EXISTS, TYPE, KEYS; key extractors `writeFirstKey`, `writeAllKeys`, `prepareRename`, `noPrepare`; undo-log generators |
| AOF writer | `src/aof/aof.go` | `aofChan` (buffered, 1<<16), `aofFile`, `currentDB`, `pausingAof` (RWMutex) | `AddAof` (blocking send), `handleAof` (receive, RLock, SELECT when the DB changes, write, RUnlock), `Close` |
| AOF loader | `src/aof/aof.go` | a fresh MultiDB | `LoadAof(maxBytes)`: parses the file (or its first maxBytes) and runs each frame through `MultiDB.Exec` with a fake connection |
| AOF rewrite | `src/aof/rewrite.go`, `marshal.go` | `RewriteCtx{tmpFile, fileSize, dbIdx}` | `StartRewrite` (under the pause lock: fsync, record the size and `currentDB`, create the temp file), `DoRewrite` (no lock: load the prefix, dump every DB), `FinishRewrite` (under the pause lock: SELECT dbIdx, copy the tail, rename, reopen, SELECT currentDB) |
| Data structures | `src/dataStruct/sortedset`, `src/dataStruct/list` | skip list with spans; doubly linked list | insert, remove, rank queries, range removal; list edits |
| RESP parser | `src/redis/parser/parser.go` | `readState` | `ParseStream`/`parse0`, `readLine`, header and body readers |
| Client and cluster | `src/redis/client`, `src/cluster` | `pendingReqs`, `waitingReqs`, connection pool | `Send`, heartbeat, reconnect, relay |

These parts interact as follows:
- A connection's command handler mutates its DB while holding the key locks.
- The handler then calls `addAof`, which is `AddAof` for the DB's index. AddAof blocks while `aofChan` is full, and the handler keeps its key locks until AddAof returns.
- `handleAof` drains the channel under the read side of `pausingAof`.
- A rewrite takes the write side twice, once in StartRewrite and once in FinishRewrite. Go's RWMutex lets a pending `Lock` block new `RLock`s, so a waiting rewrite stops the writer. The stopped writer stops AddAof, and that stops the handlers.
- At start, `NewAOFHandler` replays the file through the same `Exec`.
- A DB keeps a TTL index beside its entries. A key whose instant has come is logically absent, and the read that finds it removes it (lazy expiration, spec 4.C). The EXPIRE family logs an absolute `PEXPIREAT` in milliseconds (`aof.MakeExpireCmd`).
- Inside MULTI/EXEC each command is first asked for its undo log (`GetUndoLogs`: DEL, SET and PEXPIREAT/PERSIST lines built by `rollbackGivenKeys` and `toTTLCmd`); after a panic the logs are replayed, last command first, through `execWithLock`.

## Modules

- **`KeyCommands.tla`** is one DB and the command handlers that run in it.
  - A DB is a function `Keys -> Vals \cup {Nil}`.
  - A command is a record `[op, k1, k2, v]`. The same record is the frame written to the log.
  - `Succeeds` gives the handlers' early returns: DEL of a missing key, RENAME of a missing source, and RENAMENX onto an existing destination. A handler that returns early writes nothing to the log.
  - `ExecDel`, `ExecRename`, `ExecRenameNx` and `ExecFlushDB` keep the order of the code's DB calls. For example, RENAME does `PutEntity(dest)` and then `Remove(src)`, so `RENAME k k` deletes k.
  - `WriteKeys` and `ReadKeys` are the key extractors registered in `init`.
  - SET's handler (`string.go`) is not under `src/`, so SET is modelled from the spec.
- **`Aof.tla`** composes the engine with AOF persistence. Its variables correspond to the code like this:

  | Variable | Code |
  |---|---|
  | `mem` | `dbSet` |
  | `conn[c]` | a connection between its handler and the return of AddAof (`pc = "log"`), or inside `flushAll`'s loop over the DBs |
  | `aofChan` | `Handler.aofChan`, bounded by `QueueCap` |
  | `inflight` | the payload `handleAof` has received and not yet written |
  | `currentDB` | `Handler.currentDB` |
  | `aofFile` | the file, as a sequence of frames |
  | `readers` | read holds of `pausingAof` that were never released |
  | `rw[r]` | one rewrite goroutine: its phase and its `RewriteCtx` |

  Its actions correspond to the code like this:

  | Action | Code |
  |---|---|
  | `ExecCommand` | `Exec` → `DB.Exec` with the locks and the handler |
  | `AddAof` | the channel send |
  | `FlushAll`, `FlushAllDB` | `flushAll`, one DB per step, then its AddAof |
  | `AofReceive`, `AofWrite` | one iteration of `handleAof`, including the failed-SELECT `continue` that skips `RUnlock` and the failed command write |
  | `BgRewriteAof`, `StartRewrite`, `DoRewrite`, `FinishRewrite` | the rewrite goroutine, with every error return of the code |
  | `Restart` | `Close` (drain the queue, close the file) followed by `NewStandaloneServer` (`LoadAof(0)`, `currentDB = 0`); it is a step only of `RestartSpec` |

  `Replay` folds `MultiDB.Exec` over the frames. It is used by the loader, by `DoRewrite`'s reload of the prefix and by the properties. `Dump` is `DoRewrite`'s SELECT-and-SET dump of every DB.
  - Byte offsets become frame counts. This is exact because the code takes every offset (`fileSize`) under the pause lock, where the file holds whole frames.
  - A file-system error is a nondeterministic choice, bounded by `MaxFailures`. DoRewrite's per-key dump writes (rewrite.go:66, 71) ignore their errors; the model writes them all.
  - `ExecCommand` runs a whole command, its locks and its `AddAof` hand-off in one step. The key locks make this sound for the two keys of the runs; with three keys, two RENAMEs from one source hold only its read lock (keys.go:104, 121) and could interleave, which the model does not show.
  - `Spec` is the server between restarts. `RestartSpec` adds `Restart`; only `aof_restart_select` uses it, because with two DBs every restart shows the `currentDB` bug of aof.go:74.
- **`MC_Aof.tla`** adds the symmetry set for TLC. Only safety-only runs use it.
- **`SkipList.tla`** is `skiplist.go` at the level of its pointers. A list is one record value:
  - `fwd[n][i]` and `span[n][i]` are `node.level[i].forward` and `.span`;
  - `back`, `tail`, `length` and `level` are the fields of the same names;
  - `height[n]` is `len(node.level)`;
  - nodes come from an arena `0..MaxNodes`, node 0 is the header, and `insert` takes a fresh index as `makeNode` allocates a fresh node.

  Members are naturals that stand for strings in the same order, 0 for `""`. Each function of the file is an operator from a list to a list, node or rank. Each `for x.level[i].forward != nil && cond` loop is the `RECURSIVE Walk`, and a query record names its condition. `Descend` is the outer loop that fills `update[]` and `rank[]`. `Insert`, `RemoveNode`, `RemoveElement`, `GetRank`, `GetByRank`, the two range removals and the score-range lookups follow their functions statement by statement. `RemoveNode` follows line 140 as written: `update[i].level[i].forward = node`, so the removed node stays linked. `NewLevel` is insert's `if level > s.level` block. `ScoreBorder` (`border.go`) is not under `src/`, so `BorderLess` and `BorderGreater` are modelled from the spec.
- **`SortedSet.tla`** extends `SkipList` with the `SortedSet` state: `dict`, `sl`, the arena's next index, the last call with its return value, and a call counter.
  - `Add`, `RemoveMember`, `RemoveByScore` and `RemoveByRank` are actions that call the skip-list operators as the methods do. `Add` re-scores with remove-then-insert after overwriting `dict`. `randomLevel()` is a choice of level in `RandomLevels`, `1..MaxLevel`.
  - The constant `Removals` says whether callers make the calls that reach `removeNode` with a node to unlink: an `Add` that re-scores a member, a `Remove` of a present member, a range removal that removes something. With `FALSE` only the calls that unlink nothing are made, so the properties check skiplist.go as written on the calls it gets right.
  - The read-only methods are operators: `ZGetRank` (`GetRank`), `ZRange` (`ForEach`/`Range`, with a nil dereference shown as `Nil`) and `ZRangeByScore` (`ForEachByScore`/`RangeByScore`).
  - The skip list is used only under its key's lock, so each method is one step.
- **`ZSetAbstract.tla`** is what a sorted set promises (spec 4.B): only the map member → score, the order by (score, member), each mutating method as an action that sets `call` to its arguments and return value, and reference operators for the queries. `SortedSet` instantiates it with the same `dict` and `call`; its `Spec` is the property `ImplementsZSet`.
- **`MC_SortedSet.tla`** defines the score borders: values 1 and 2, inclusive and exclusive. It also defines `QueryView`, the view for the query-only runs.
- **`LinkedList.tla`** is `linked.go`. A list is one record value: `first`, `last` and `size`, and the node fields `next[n]`, `prev[n]` and `val[n]` over an arena `1..MaxNodes`. Every function is an operator from a list to a list, node or slice:
  - `Find` is `find`: it hops forward from `first` when `index < size/2` and back from `last` otherwise;
  - `InsertNode` and `RemoveNode` make the four pointer writes of `Insert` and `removeNode`, and `RemoveNode` clears the removed node's pointers as the code does;
  - `RemoveAllFrom` and `RemoveCountFrom` are the loops of `RemoveAllByVal` and `RemoveByVal`: they read `n.next` before removing `n`, and `RemoveByVal` tests `removed == count` after every node;
  - `ScanRange` is `Range`'s loop.

  The actions are the mutating methods. Each records its arguments and return value in `call`, and a counter bounds the calls. Callers pass legal indices, as the command layer checks them.
- **`ListAbstract.tla`** is what a list promises (spec 4.B): a sequence of values, with each mutating method as an action on it. `LinkedList` instantiates it with `items` mapped to the values from `first` along `next`; its `Spec` is the property `ImplementsList`.
- **`MC_LinkedList.tla`** defines the count arguments, which include -1.
- **`RespCodec.tla`** is the wire format of spec 4.A over a byte alphabet of a few characters, with `"CR"` and `"LF"` for `\r` and `\n`. The encoder (the `protocol` package) is not under `src/`, so `Encode` is written from the spec: simple strings, errors, integers, bulk strings (`$-1` for null) and arrays of bulk strings (`*-1` for null). A payload is a record `[t, v]`: a reply of one of these kinds, a protocol error (`"proto"`), or an IO error (`"io"`, with `v` being `EOF` or `UnexpectedEOF`).
- **`RespParser.tla`** is `parser.go`'s `parse0` goroutine and the goroutine that ranges over its channel, which is `LoadAof`'s loop.
  - The stream is fixed at the start. It is up to `MaxItems` items (an encoded frame or a malformed line) followed by a tail, which is either nothing or a truncated frame. The ghost `exp` holds the payloads spec 4.A expects: each item's frame or one protocol error, then the IO error.
  - `ReadLine` is `readLine`. In line mode it reads through the next LF (`ReadBytes`); at the end of the input that is EOF, and a one-byte line is the panic of `msg[len(msg)-2]`. In bulk mode it reads `bulkLen + 2` bytes (`io.ReadFull`); a short read is `UnexpectedEOF`, or `EOF` when no bytes remain.
  - `MultiBulkHeader`, `BulkHeader`, `SingleLine` and `Body` are `parseMultiBulkHeader`, `parseBulkHeader`, `parseSingleLineReply` and `readBody`, each with parse0's reset and send after it. `ParseUint`, `ParseInt` and `SplitSpace` do what `strconv` and `strings.Split` do.
  - `Parse` is one iteration of the loop. A panic sets `pc` to `"dead"`: the deferred recover logs and returns without closing `ch`.
  - `Receive` is the rendezvous of `ch <- payload` with the consumer's receive. After an IO error parse0 goes on to `Close`. `LoadAof` breaks on `io.EOF` and continues on any other error; `RangeEnds` is its range loop ending on a closed channel.
- **`MC_RespParser.tla`** defines the items:
  - frames of every kind, including a bulk body holding CR LF and an inline command;
  - four malformed lines;
  - two truncated tails, one after an array header and one inside a bulk body;
  - the items of the violation reproductions.
- **`RedisClient.tla`** is `client.go`: the pipelined client the cluster uses to reach a peer. Each goroutine is a program counter and each channel a sequence.
  - `pendingReqs` and `waitingReqs` are buffered channels of `ChanSize` slots (`chanSize` in the code), and a send on a full one blocks. `Send` does the two `Add(1)` calls and `SendEnqueue` the blocking `pendingReqs <- req`; `BeatSend` and `Enqueue` wait for a free slot the same way. `Return` and `Timeout` are the two outcomes of `WaitWithTimeout`. `Tick` and `BeatSend` are the heartbeat goroutine and `doHeartbeat`.
  - The writer goroutine is `wr`. `Take` is `handleWrite`'s receive and `Write` is doRequest's first `conn.Write`. `Retry` is one turn of the retry loop with `handleConnectionError`: close `c.conn`, then redial. A successful dial adds a connection and its reader and writes the request there. After the third failed dial the request gets `err` and `Done`. `Enqueue` is `c.waitingReqs <- req`.
  - Every connection has a reader `rd[k]`. `Read` is the next payload: the peer's next answer, or, once the connection is broken or closed and drained, the IO error after which parse0 closes the channel. `Finish` is `finishRequest`: it pops the head of `waitingReqs`, whichever request that is.
  - `CloseStart`, `CloseConnection` and `CloseWaiting` are the three parts of `Close`: (1) `ticker.Stop` and `close(pendingReqs)`; (2) `working.Wait` and `conn.Close`; (3) `close(waitingReqs)`.
  - The environment is `Serve`, where the peer answers in order, and `Fault`, where a connection breaks and loses what is in flight. A write on a broken connection may report the error or be silently lost. The answer to `r` is `Srv(r)`. The parser between a connection and its reader is abstracted to the payloads it yields (`RespParser` checks it).
  - A send on a closed channel panics outside any recover. The model records it as `crashed`, and every action stops.
- **`MC_RedisClient.tla`** defines the request sets `{r1, r2}` and `{r1, r2, r3}` and the heartbeat `b1`.
  - `Spec` lets the peer hang; `ServedSpec` adds weak fairness on `Serve`, a peer that answers what is written on an open connection.
- **`Keyspace.tla`** is one DB with its TTL index and a clock, every handler of `keys.go`, their undo functions, and MULTI/EXEC with rollback.
  - `db` is `[data, ttl]`, the DB's `data` and `ttlMap`; `now` is `time.Now()` in ticks, `TicksPerMs` to the millisecond, from the Unix epoch.
  - The DB methods (`db.go`, not under `src/`) are written from spec 4.C: `GetEntity` removes an expired entry and reads it as missing, `PutEntity` installs an entry without the prior TTL, `Removes` counts the live entries it removes.
  - Each handler is an operator `exec...(db, c, now)` giving the DB after the call, the reply and the lines handed to `addAof`, with the code's early returns in order (for example RENAMENX tests the destination before the source, and the EXPIRE family parses its argument before reading the key). `execExpireFamily` covers the four EXPIRE commands: `ExpireAt` is their time arithmetic and `MakeExpireCmd` the logged line, truncated to whole milliseconds with Go's division (`GoDiv`). `execKeys` ranges over `data` without the expiry check, as `db.data.ForEach` does.
  - `GetUndoLogs` picks the undo function `init` registers; `rollbackGivenKeys` reads each key through `GetEntity` and emits DEL, then SET and `toTTLCmd` for a present key.
  - `LoggedMs` truncates every instant of a DB to the whole millisecond, the precision the logged PEXPIREAT carries.
  - The actions: `Enqueue` (a command queued after MULTI), `ExecStart`, `RunQueued` (GetUndoLogs, then the handler), `ExecDone`, `Panic` (a later command of the transaction panics before changing anything; the undo logs gathered so far are flattened last-command-first), `UndoLine` (one rollback line through `execWithLock`), `UndoDone`, and `Tick`. `last` holds the last line executed, its reply and its AOF lines.
  - MULTI/EXEC itself (`DB.ExecMulti`) is not under `src/`; it is modelled from spec 4.D, which says a panic triggers the replay.
- **`KeyspaceAbstract.tla`** is the logical keyspace of spec 4.C and 4.D: only the live keys and their instants, time passing removes what expired, reads change nothing, each command line (rollback lines included) has its effect and reply. `Keyspace` instantiates it with `View(db, now)`, the live entries; its `Spec` is the property `ImplementsKeyspace`.
- **`MC_Keyspace.tla`** defines the keys `a` and `b`, the value `v1`, the command sets (with and without FLUSHDB and KEYS), the argument sets and the key symmetry.

## Properties

| Property | Kind | What it says |
|---|---|---|
| `TypeOK` | invariant | type invariant, including `Len(aofChan) <= QueueCap` |
| `ReplayMatchesMemory` | invariant | when every command is logged and the writer is idle, replaying the file gives exactly the in-memory DBs; it relates the handlers' order of mutation to their order of AddAof, through SELECT bookkeeping, flushes, restarts and rewrites |
| `LogSelectMatchesWriter` | invariant | the DB a replay of the file ends in equals the writer's `currentDB`, so a record the writer sends without a SELECT lands in the right DB |
| `RewritePreservesLog` | action | the step in which `FinishRewrite` returns never changes what the file replays to (DBs and selected DB); this is the spec's rewrite equivalence |
| `RewriteCompletes` | liveness | every BGREWRITEAOF that asked for the pause lock eventually finishes (checked only by `aof_select_write_failure.cfg`, which shows it violated) |
| `ListMatchesDict` | invariant (SortedSet) | level 0 holds exactly `dict`'s members, once each, in (score, member) order with their current scores; the backward chain from the tail is its reverse; each higher level is the subsequence of the nodes that tall; `length` and `level` agree |
| `SpanInvariant` | invariant (SortedSet) | on every level in use, each span is the number of level-0 steps to the forward node, or to the end of the list (spec 8.3, per node) |
| `RankConsistency` | invariant (SortedSet) | `GetRank` is the 0-based rank ascending and `length - rank - 1` descending (spec 8.2) |
| `RangeMatches` | invariant (SortedSet) | `Range(start, stop, desc)` is the slice [start, stop) of the order for every legal start and stop |
| `RangeByScoreMatches` | invariant (SortedSet) | `RangeByScore` returns the members within the borders, in order, after `offset`, at most `limit` |
| `ImplementsZSet` | refinement (SortedSet) | every call changes `dict` and returns what `ZSetAbstract` prescribes |
| `ListWellFormed` | invariant (LinkedList) | the nodes from `first` along `next` are, reversed, the nodes from `last` along `prev`; their number is `size`; a removed node has no pointers |
| `ReadsMatch` | invariant (LinkedList) | `Get(i)` through `find`'s two directions, and `Range(start, end)` for every legal pair, read the values at those positions |
| `ImplementsList` | refinement (LinkedList) | every call changes the sequence of values and returns what `ListAbstract` prescribes, including RemoveByVal's count (count <= 0 means all) |
| `RoundTrip` | invariant (RespParser) | the consumer receives, in order, each encoded frame, one protocol error per malformed line, nothing for a truncated last frame, then the IO error; when it is done it has all of them (spec 4.A and spec invariant 1) |
| `StreamEnds` | liveness (RespParser) | whatever the bytes, LoadAof's range loop ends and parse0 returns |
| `NoDoubleDone` | invariant (RedisClient) | no request is finished twice, once by doRequest's failure path and once by finishRequest, so its WaitGroup never goes negative |
| `FailedNotExecuted` | invariant (RedisClient) | a Send that returns "request failed" was never executed by the peer, so a caller may re-issue it |
| `ReplyToOwnRequest` | invariant (RedisClient) | a Send that returns an answer of the peer returns the answer to its own request |
| `SendReturns` | liveness (RedisClient) | every Send that has started, including one blocked on a full `pendingReqs`, returns, with an answer, an error or a timeout, unless the client has panicked |
| `NoSendOnClosedChannel` | invariant (RedisClient) | no goroutine sends on a channel Close has closed |
| `TypeOK` (Keyspace) | invariant | type invariant, including the flattened rollback lines |
| `ReplayMatchesToTheMs` | action (Keyspace) | `ReplayMatches` with both sides' instants truncated to the millisecond: the replay restores every key, and every expiry to the precision of the logged line |
| `ReplayMatches` | action (Keyspace) | the AOF lines a command (or a rollback line) hands to `addAof`, replayed from the DB it ran on at that instant, give the DB it left, at that instant and every later one: the logged PEXPIREAT keeps the TTL |
| `ImplementsKeyspace` | refinement (Keyspace) | seen through its live entries, the DB changes and replies as `KeyspaceAbstract` prescribes for every command and rollback line, and only ticks of the clock make keys vanish (checked by `keyspace_keys.cfg`, which shows it violated) |
| `UndoRestores` | action (Keyspace) | a transaction rolled back after a panic leaves every key as it was when EXEC started (spec 4.D) |

## Runs

The `aof_*` runs use `MC_Aof`, the `zset*` runs use `MC_SortedSet`, the `list` run uses `MC_LinkedList`, the `parser*` runs use `MC_RespParser` and the `client*` runs use `MC_RedisClient` and the `keyspace*` runs use `MC_Keyspace`. "v" marks a run that expects a violation: the violation it finds is a bug of the code.

| Run | Bounds | Checks | Result |
|---|---|---|---|
| `aof_rewrite` | Keys {a,b}, Vals {v1}, 2 conns, 2 DBs, queue 1, 3 cmds, 1 rewriter, non-empty start | TypeOK, ReplayMatchesMemory, LogSelectMatchesWriter, RewritePreservesLog | pass, about 180k states |
| `aof_failures` | 2 conns, 2 DBs, SET/DEL/RENAME/FLUSHDB/FLUSHALL, 3 cmds, 1 rewriter, 2 failures of any kind | LogSelectMatchesWriter, RewritePreservesLog | pass, about 430k states; deadlock checking off, since a failed SELECT really stops the writer |
| `aof_restart_select` v | 2 DBs, 1 restart (`RestartSpec`) | ReplayMatchesMemory | after a restart `currentDB = 0` while the file ends in SELECT 1 |
| `zset` | members {1,2,3}, scores {1,2}, 3 levels, 4 calls, 4 borders, rank arguments 0..2, offset 0, skiplist.go as written, `Removals` = FALSE | TypeOK, the five SortedSet invariants, ImplementsZSet | pass, about 40k states |
| `zset_remove_node` v | as `zset`, `Removals` = TRUE | ListMatchesDict | removeNode sets `update[i].level[i].forward = node` (skiplist.go:140); after an Add re-scores a member it is in the list twice |
| `list` | values {v1,v2}, indices 0..3, counts {-1,1,2}, 5 nodes, 5 calls | ListWellFormed, ReadsMatch, ImplementsList | pass, about 12k states |
| `parser` | up to 2 items out of 14 (10 frames, 4 malformed lines), 3 tails | RoundTrip, StreamEnds | pass, about 6k states |
| `client` | requests {r1,r2}, heartbeat {b1}, channels of 2 slots, 1 fault, 1 successful redial, Close | TypeOK, NoDoubleDone, FailedNotExecuted | pass, about 580k states |
| `client_served` | requests {r1,r2,r3}, heartbeat {b1}, channels of 1 slot, no fault, no redial, Close, `ServedSpec` | SendReturns | pass, about 190k states |
| `client_reply` v | requests {r1,r2}, heartbeat {b1}, channels of 3 slots, 1 fault, 1 redial | ReplyToOwnRequest | a request lost with the broken connection stays at the head of `waitingReqs`, and the new connection's reader gives it the answer to the next request (client.go:202) |
| `keyspace` | Keys {a,b}, Vals {v1}, every key command, EXPIRE arguments {0,1} and one that is not an integer, 1 command per transaction, 1 panic, instants 0..2, `TicksPerMs` = 2, key symmetry | TypeOK, ReplayMatchesToTheMs | pass, about 1.5M states in under 2 minutes |
| `parser_hang` v | the array [\"\", \"a\"] | StreamEnds | `readBody` indexes the empty line after `$0`; the recovered panic leaves `ch` open and LoadAof waits forever |

Why these bounds are enough:
- The passing runs each reach a case that matters:
  - two connections contending for the same key;
  - a payload for the other DB, which forces a SELECT;
  - a command logged while a rewrite sits between StartRewrite and FinishRewrite, which puts a tail in the new file;
  - a queue of one, so AddAof blocks;
  - a pending pause lock while the writer holds a payload.
- Every action and every failure disjunct fires in some passing run.
- A second value, or a third command, multiplies the state space without adding a new case: `aof_rewrite` with two values takes 16 minutes.
- Each violation run uses the smallest bounds that show its bug.
- In `zset`, four calls over three members and three levels reach several cases: inserts that raise the list's level from 1 to 2 and to 3, with the header's new spans set to the length; a node of height 2 or 3 after a node of height 1, which gives a header span of 2; an Add that keeps a member's score; removals and range removals that find nothing. `zset_remove_node` lets the callers reach removeNode with a node to unlink, and TLC shows the member twice after one re-score. The rank arguments 0..2 take RemoveByRank past the end of a list of two. The borders include an exclusive border equal to a score, which is the edge of `hasInRange`.
- `zset_empty_member.cfg` is not one of the listed runs. It puts the member `""` (0) among the members, and TLC shows `RankConsistency` violated after two Adds: `getRank` stops at the header, whose name is `""` (skiplist.go:196), and `GetRank` returns -1 for a present member.
- `aof_empty_log_rewrite.cfg` is not one of the listed runs either. It starts on an empty file, and TLC shows `RewritePreservesLog` violated: `StartRewrite` records size 0, `LoadAof(0)` reads the whole file (aof.go:118), and the records written during the rewrite are both in the dump and in the copied tail. RENAMENX applied twice then differs.
- In `list`, five calls on two values reach a list of up to five nodes, where `find` walks backward for indices 2 to 4 and forward for 0 and 1. Insert runs at the head, in the middle and at the end, and removal by value meets matches at the head, in the middle and at the tail. The count -1 is the "all" case of spec 4.B; 1 and 2 stop the loop early.
- `list_remove_count_zero.cfg` is not a listed run. It passes count 0, and TLC shows `ImplementsList` violated after Add v1, Add v2, RemoveByVal(v2, 0): the loop stops after the first node because `removed == count` (linked.go:184), and it returns 0 with v2 still in the list. Spec 4.B says count <= 0 removes every match. The command layer of this repository is not under `src/`, so whether LREM ever passes 0 is not known here.
- `aof_concurrent_rewrite.cfg` and `zset_score_offset.cfg` are not listed runs either. TLC still finds their violations.
  - `aof_concurrent_rewrite.cfg`, with two rewriters: the second FinishRewrite copies the tail from a stale offset into the replaced file (server.go:216), which violates `RewritePreservesLog`.
  - `zset_score_offset.cfg`, with offset 1: `ForEachByScore` returns a member outside the borders (sortedset.go:160), which violates `RangeByScoreMatches`.

- `aof_flush_race.cfg` and `aof_select_write_failure.cfg` are not listed runs either. TLC still finds their violations.
  - `aof_flush_race.cfg`, with two connections: FLUSHDB takes no key lock (keys.go:31), so a SET that ran before the flush can be logged after it, which violates `ReplayMatchesMemory`.
  - `aof_select_write_failure.cfg`, with two DBs and one failure: the failed SELECT write leaks its read hold of the pause lock (aof.go:84). The next rewrite, the writer and the clients then block forever, which violates `RewriteCompletes`.

  `aof_failures` includes FLUSHDB and FLUSHALL with two connections, so the flush race is in its reach; its properties are about the SELECT bookkeeping and the rewrite, which the race does not break. The project keeps at most twelve runs, so these reproductions are not listed. `PROJECT.json` records each under its hazard.
- In `parser`, two items and a tail put every frame kind after every other. This covers a frame after a malformed line (the reset), a frame after a truncated one, and both IO errors: `EOF` stops LoadAof's loop at once, and `UnexpectedEOF` stops it only when the channel closes. The bare LF line is left out of the malformed lines because it panics; `parser_hang` shows that panic's effect. With three items the run takes 11 minutes and reaches no new case.
- The parser's other reproductions are not listed runs. Each has one item, and TLC shows `RoundTrip` violated:
  - `parser_empty_bulk.cfg`: the empty bulk string `$0\r\n\r\n` is a protocol error, and its trailing CRLF is then parsed as an inline command (parser.go:261, 301);
  - `parser_dollar_body.cfg`: the bulk string `$1` yields nothing, because `readBody` takes a body that starts with `$` for a header (parser.go:295);
  - `parser_null_array.cfg`: the null array `*-1` is a protocol error, because the count goes through `ParseUint` (parser.go:226).

- In `client`, two requests and a heartbeat over channels of two slots reach the cases that matter:
  - two requests pipelined on one connection;
  - a fault with one request in flight and one still to be written;
  - a write silently lost on the broken connection;
  - a redial that succeeds and redials that fail three times;
  - a timeout while the request is still pending;
  - a tick racing Close;
  - a heartbeat waiting for a slot of a full channel.

  A second fault or redial only repeats these cases on a third connection.
- In `client_served`, the writer holds one request, `waitingReqs` a second and `pendingReqs` a third, so the fourth of r1, r2, r3 and the heartbeat waits at `c.pendingReqs <- request`, which no timer bounds. A peer that answers drains the pipeline and the Send proceeds. With faults and redials added the liveness check takes over five minutes.
- `client_send_blocks.cfg` is not a listed run. It is `client_served` with `Spec`, so the peer may never serve. TLC shows `SendReturns` violated:
  - `waitingReqs` holds r3, and the writer is blocked on `c.waitingReqs <- b1`;
  - `pendingReqs` holds r1, which is full;
  - r2's Send waits at `c.pendingReqs <- request` (client.go:92) forever, because that send comes before `WaitWithTimeout` starts the timer. Close's `working.Wait` then never returns either.
- `parser_torn.cfg` is not a listed run. Its items are an AOF record cut at every point, each followed by the whole record. This is what the file holds after a crash or a short write (aof.go:89, rewrite.go:66), because NewAOFHandler reopens it `O_APPEND` (aof.go:48). TLC shows `StreamEnds` violated: the cut `*2\r\n$1\r\n` reads `*2\r` as the body, resets, and the next line is a bare LF, on which `readLine` panics (parser.go:204). LoadAof then waits forever.
- `client_close_heartbeat.cfg` and `client_close_writer.cfg` are not listed runs. TLC shows `NoSendOnClosedChannel` violated in both:
  - a tick received just before `ticker.Stop` makes doHeartbeat send on the closed `pendingReqs` (client.go:118);
  - a Send that times out lets `Close` run to the end while the writer still holds the request, and its `c.waitingReqs <- req` panics (client.go:146). No network fault is needed.

- In `keyspace`, argument 0 is an instant that has already come (EXPIRE k 0, EXPIREAT 0, PEXPIREAT 0) and 1 one that has not; PEXPIRE 1 expires after one tick, so TTL, PTTL, RENAME and the rollback lines meet keys that expired and were not yet purged. One command per transaction with the panic after it covers every undo function; the panic's rollback of two commands adds no new line. A fourth instant, or a second command per transaction, takes the run past two and a half minutes. `TicksPerMs` = 2 puts an instant between two milliseconds, so that `ReplayMatchesToTheMs` compares a truncated PEXPIREAT with an expiry that is not a whole millisecond.
- The Keyspace reproductions are not listed runs:
  - `keyspace_undo.cfg`: SET a, then MULTI, EXPIRE a 0 and a panic. The rollback line PERSIST a reads a through GetEntity, which purges it, so `UndoRestores` fails: undoExpire restores only the TTL (keys.go:319).
  - `keyspace_undo_flush.cfg`: FLUSHDB has no undo function (keys.go:25), so a rollback after it leaves the DB empty; `UndoRestores` fails.
  - `keyspace_keys.cfg` checks `ImplementsKeyspace` with FLUSHDB and KEYS: KEYS lists a key whose instant has come and that nothing has read since (keys.go:299), which violates `ImplementsKeyspace`.
  - `keyspace_ms.cfg` counts two ticks to the millisecond: EXPIRE at an odd tick is logged one tick early by `MakeExpireCmd` (marshal.go:113), which violates `ReplayMatches`, the comparison of exact instants.

Each passing property has a mutant, a plausible bug in the mapped definition that TLC must catch:

| Mutant | The bug it models | Breaks |
|---|---|---|
| `AddAofUnbounded` | the send ignores the channel's capacity | TypeOK |
| `LocksFreeIgnoringReaders` | a writer ignores the source read-lock of RENAME | ReplayMatchesMemory |
| `AofWriteStaleCurrentDB` | a write forgets to update `currentDB` | LogSelectMatchesWriter |
| `FinishRewriteNoSelect` | FinishRewrite drops SELECT dbIdx | RewritePreservesLog |
| `DoRewriteShortRead` | the reload reads one frame short | RewritePreservesLog |
| `AofWriteSelectErrorSwitches` | a failed SELECT still updates `currentDB` | LogSelectMatchesWriter |
| `RandomLevelsUncapped` | randomLevel returns `level` without the cap at `maxLevel` | TypeOK (zset) |
| `NewLevelReset` | insert's `s.level = level` outside the `if level > s.level` block | ListMatchesDict |
| `DescendFromStaleRank` | insert records `rank[i]` before walking level i | SpanInvariant |
| `AddFlagInverted` | Add returns `ok` (the member existed) instead of `!ok` | ImplementsZSet |
| `ZGetRankDescOffByOne` | the descending rank as `length - r - 1` | RankConsistency |
| `ZRangeDescOffByOne` | ForEach starts descending at `getByRank(size - start + 1)` | RangeMatches |
| `VisitByScoreNoBorderCheck` | ForEachByScore's loop stops only at nil | RangeByScoreMatches |
| `InsertNodeNoPivotPrev` | Insert forgets `pivot.prev = n` | ListWellFormed |
| `ScanRangeAfterStart` | Range's loop tests `i > start` | ReadsMatch |
| `RemoveAllFromNextAfterRemove` | RemoveAllByVal reads `n.next` after removeNode cleared it | ImplementsList |
| `MultiBulkHeaderNoEmpty` | parse0 drops the `expectedArgsCount == 0` branch, so `*0` waits for arguments | RoundTrip |
| `ReceiveNoClose` | parse0 goes on reading after sending an IO error instead of `close(ch); return` | StreamEnds |
| `RetryOffByOne` | the retry loop runs while `i <= 3` | TypeOK (client) |
| `RetryNoElse` | doRequest's failure path also falls through to `waitingReqs <- req` | NoDoubleDone |
| `PanicUnflattened` | the rollback takes the per-command undo logs as lines without flattening them | TypeOK (keyspace) |
| `execPersistNoAof` | PERSIST forgets its `addAof` | ReplayMatchesToTheMs |
| `EnqueueThenExit` | handleWrite returns after handing over its first request | SendReturns |
| `RetryErrKept` | the write error is not cleared after a successful redial, so the loop gives up on a written request | FailedNotExecuted |

## Fairness

The Go runtime keeps a runnable goroutine running, so the model puts weak fairness on the steps of goroutines that are already running:
- a handler's AddAof and flushAll's loop;
- handleAof's receive and write;
- the three phases of a rewrite.

The parser has weak fairness on `Parse`, `Receive`, `Close` and `RangeEnds`. parse0 and LoadAof are both running goroutines, and an unbuffered send completes once both sides are at the channel. The parser_hang run turns off deadlock checking because there the program really stops: parse0 is gone and LoadAof waits.

The client's runs turn off deadlock checking. After Close, or after a panic, the client really stops: the heartbeat goroutine waits on the stopped ticker forever. The client has weak fairness on the steps of its running goroutines: `SendEnqueue`, `Return`, `Timeout` (a real timer), `BeatSend`, the writer's `Take`, `Write`, `Retry`, `Enqueue` and `WriterExits`, each reader's `Read` and `Finish`, and Close's later parts. A new `Send`, a `Tick`, the start of `Close`, and the peer's `Fault` get none: callers may stop calling. Under `Spec` the peer's `Serve` gets none either, and then a Send blocked before its timer starts waits forever (`client_send_blocks.cfg`). `client_served` checks `SendReturns` under `ServedSpec`, which adds weak fairness on `Serve`: a peer that keeps answering, the case in which the question is whether the client's own goroutines can block each other for good.

The keyspace run checks safety only: the clock is bounded by `MaxNow` and a client may stop sending, so nothing has to happen. Its deadlock check holds because a new MULTI can always be queued.

The sorted set and the list have no liveness property: each method is one atomic step under its key's lock, so nothing waits.

Clients issuing commands and BGREWRITEAOF are the environment's choice and get no fairness. `Terminated` is the stuttering step of a server whose clients are done and whose queue is drained. Deadlock checking therefore reports exactly the states in which goroutines wait on each other.

## Not modelled, and the plan

Left out for now:
- EXPIRE and PEXPIREAT arguments that overflow `int64` nanoseconds (keys.go:173, 234): TLC's integers are 32-bit;
- a handler that panics after changing part of the DB (the model's panics come before any change);
- the undo functions of hash, set and zset commands in `tx_utils.go`, whose handlers are not under `src/`;
- WATCH, and EXEC's locking across the queued commands;
- value kinds other than strings;
- pub/sub and AUTH;
- crash (as opposed to graceful restart) with a lost suffix of the log, as a step of `Aof`: with two DBs every restart already violates `ReplayMatchesMemory` (aof.go:74), and the torn tail a crash leaves is shown through the parser by `parser_torn.cfg`;
- the silent loss of a whole key through DoRewrite's ignored dump write errors (a partial frame is the `parser_torn.cfg` case);
- `SortedSet.Count`, which panics on an empty set through `ForEach(0, 0)`, and ForEach's panics on illegal arguments;
- `LinkedList.Contains` and `ForEach` with an early stop, which change nothing;
- `ParseBytes` and `ParseOne`, which no code calls (each would leave parse0 blocked on a send once it stops reading);
- the cluster's key routing and its pool of clients, which add no state beyond borrowing a `RedisClient`;
- a client write that fails after sending part of its bytes.

`PROJECT.json` lists each left-out part and each hazard of the code.

Planned next, in order:
1. An abstract key-value specification that `Aof` refines through `INSTANCE ... WITH`, mapping the replayed file to the abstract store.
