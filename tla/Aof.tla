-------------------------------- MODULE Aof --------------------------------
(***************************************************************************)
(* The MultiDB engine together with its append-only-file persistence:      *)
(*                                                                         *)
(*  - connections executing commands (MultiDB.Exec, DB handlers) that      *)
(*    mutate the in-memory DBs under per-key locks and hand the command    *)
(*    to AddAof while still holding them (src/database/*.go);              *)
(*  - the AOF goroutine (handleAof) draining the bounded aofChan into the  *)
(*    file, emitting SELECT whenever the DB index changes, under the read  *)
(*    side of the pausingAof lock (src/aof/aof.go);                        *)
(*  - rewrite goroutines started by BGREWRITEAOF (Rewrite = StartRewrite,  *)
(*    DoRewrite, FinishRewrite) that compact the file online               *)
(*    (src/aof/rewrite.go, src/aof/marshal.go);                            *)
(*  - the loader (LoadAof) that replays the file at startup and inside a   *)
(*    rewrite.                                                             *)
(*                                                                         *)
(* The file is a sequence of frames (command records of KeyCommands);      *)
(* byte offsets are frame counts, which is exact because every offset the *)
(* code takes (the size at StartRewrite) is taken under the pause lock,   *)
(* between two whole frames.  Write errors of the file system are a       *)
(* nondeterministic choice bounded by MaxFailures.                         *)
(***************************************************************************)
EXTENDS KeyCommands, Naturals, Sequences, SequencesExt

CONSTANTS
    Conns,             \* client connections
    Rewriters,         \* BGREWRITEAOF requests, each runs one Rewrite goroutine
    DBCount,           \* config.Properties.Databases
    QueueCap,          \* capacity of aofChan (aofQueueSize)
    MaxCmds,           \* bound on the commands clients issue
    Ops,               \* command names clients use (KeyOps and "flushall")
    StartWithEmptyLog, \* whether the server starts on an empty AOF
    MaxRestarts,       \* bound on graceful restarts (Close + NewAOFHandler)
    MaxFailures        \* bound on failed file operations

ASSUME /\ DBCount \in Nat \ {0}
       /\ QueueCap \in Nat \ {0}
       /\ MaxCmds \in Nat
       /\ Ops \subseteq KeyOps \cup {"flushall"}
       /\ StartWithEmptyLog \in BOOLEAN
       /\ MaxRestarts \in Nat
       /\ MaxFailures \in Nat

DBs == 0..(DBCount - 1)

SelectCmd(i) == Cmd("select", Nil, Nil, i)
FlushAllCmd  == Cmd("flushall", Nil, Nil, Nil)

Frames   == Commands(KeyOps) \cup {FlushAllCmd} \cup {SelectCmd(i) : i \in DBs}
Payloads == [db : DBs, cmd : Frames]        \* aof.payload{cmdLine, dbIndex}
EmptyMDB == [i \in DBs |-> EmptyDB]

VARIABLES
    mem,        \* MultiDB.dbSet: the in-memory DBs
    conn,       \* per connection: the command in progress
    issued,     \* commands issued so far
    aofChan,    \* Handler.aofChan
    inflight,   \* payload received by handleAof and not yet written, or Nil
    currentDB,  \* Handler.currentDB
    aofFile,    \* content of the file at aofFilename
    readers,    \* read holds of pausingAof never released
    rw,         \* per rewrite goroutine: phase and RewriteCtx
    restarts,   \* restarts so far
    failures    \* failed file operations so far

vars == <<mem, conn, issued, aofChan, inflight, currentDB, aofFile, readers,
          rw, restarts, failures>>

-----------------------------------------------------------------------------
(***************************************************************************)
(* The loader.  LoadAof feeds every frame to MultiDB.Exec with a fake      *)
(* connection that only remembers the selected DB: SELECT switches it      *)
(* (execSelect), FLUSHALL empties every DB (flushAll), any other command   *)
(* runs in the selected DB.  Replay gives the DBs and the selected index.  *)
(***************************************************************************)
ExecFrame(s, f) ==
    CASE f.op = "select"   -> [s EXCEPT !.db = f.v]
      [] f.op = "flushall" -> [s EXCEPT !.mdb = EmptyMDB]
      [] OTHER             -> [s EXCEPT !.mdb[s.db] = Apply(@, f)]

Replay(log) == FoldLeft(ExecFrame, [mdb |-> EmptyMDB, db |-> 0], log)

(***************************************************************************)
(* DoRewrite's dump: for every DB index a SELECT, then one command per key *)
(* that rebuilds its value (EntityToCmd; SET for the string values of the  *)
(* model).  The order of ForEach is the map's and does not matter: the     *)
(* commands of one DB touch distinct keys.                                 *)
(***************************************************************************)
DumpDB(i, st) ==
    LET ks == SetToSeq({k \in Keys : Exists(st, k)})
    IN  <<SelectCmd(i)>> \o [j \in 1..Len(ks) |-> SetCmd(ks[j], st[ks[j]])]

\* Mutation: the dump loop stops one DB short (for i := 0; i < DBCount-1).
DumpSkipsLastDB(mdb) == FoldLeft(LAMBDA acc, i : acc \o DumpDB(i, mdb[i]), <<>>,
                                 [j \in 1..(DBCount - 1) |-> j - 1])

Dump(mdb) == FoldLeft(LAMBDA acc, i : acc \o DumpDB(i, mdb[i]), <<>>,
                      [j \in 1..DBCount |-> j - 1])

-----------------------------------------------------------------------------
ConnStates == [pc : {"idle", "log", "flushall"}, pay : Payloads \cup {Nil}, i : DBs]
Idle == [pc |-> "idle", pay |-> Nil, i |-> 0]

RwStates == [phase : {"idle", "startLock", "rewriting", "finishLock", "done"},
             size : Nat, dbIdx : DBs, tmp : Seq(Frames)]

TypeOK ==
    /\ mem \in [DBs -> DBState]
    /\ conn \in [Conns -> ConnStates]
    /\ issued \in 0..MaxCmds
    /\ aofChan \in Seq(Payloads) /\ Len(aofChan) <= QueueCap
    /\ inflight \in Payloads \cup {Nil}
    /\ currentDB \in DBs
    /\ aofFile \in Seq(Frames)
    /\ readers \in 0..MaxFailures
    /\ rw \in [Rewriters -> RwStates]
    /\ restarts \in 0..MaxRestarts
    /\ failures \in 0..MaxFailures

InitialLogs ==
    IF StartWithEmptyLog THEN {<<>>} ELSE {<<SetCmd(k, v)>> : k \in Keys, v \in Vals}

\* NewStandaloneServer: NewAOFHandler loads the file before serving, and
\* handleAof starts with currentDB = 0.
Init ==
    /\ aofFile \in InitialLogs
    /\ mem = Replay(aofFile).mdb
    /\ conn = [c \in Conns |-> Idle]
    /\ issued = 0
    /\ aofChan = <<>>
    /\ inflight = Nil
    /\ currentDB = 0
    /\ readers = 0
    /\ rw = [r \in Rewriters |-> [phase |-> "idle", size |-> 0, dbIdx |-> 0, tmp |-> <<>>]]
    /\ restarts = 0
    /\ failures = 0

-----------------------------------------------------------------------------
(***************************************************************************)
(* Connections.                                                            *)
(***************************************************************************)

\* The per-key locks (RWLocks) held by connections are those of the command
\* each one is still logging: its handler has run and AddAof has not returned.
HeldBy(o, d) ==
    IF conn[o].pc = "log" /\ conn[o].pay.db = d
    THEN [w |-> WriteKeys(conn[o].pay.cmd), r |-> ReadKeys(conn[o].pay.cmd)]
    ELSE [w |-> {}, r |-> {}]

\* Mutation: a writer only checks the other writers' locks, not the readers'.
LocksFreeIgnoringReaders(c, d, cmd) ==
    \A o \in Conns \ {c} :
        /\ WriteKeys(cmd) \cap HeldBy(o, d).w = {}
        /\ ReadKeys(cmd) \cap HeldBy(o, d).w = {}

LocksFree(c, d, cmd) ==
    \A o \in Conns \ {c} :
        /\ WriteKeys(cmd) \cap (HeldBy(o, d).w \cup HeldBy(o, d).r) = {}
        /\ ReadKeys(cmd) \cap HeldBy(o, d).w = {}

\* DB.Exec of a normal command in the DB the connection selected: take the
\* key locks, run the handler; a handler that succeeded goes on to AddAof
\* with the locks held, one that returned early releases them.
ExecCommand(c, d, cmd) ==
    /\ conn[c].pc = "idle"
    /\ issued < MaxCmds
    /\ LocksFree(c, d, cmd)
    /\ issued' = issued + 1
    /\ IF Succeeds(mem[d], cmd)
       THEN /\ mem' = [mem EXCEPT ![d] = Apply(@, cmd)]
            /\ conn' = [conn EXCEPT ![c] = [pc |-> "log", pay |-> [db |-> d, cmd |-> cmd], i |-> 0]]
       ELSE UNCHANGED <<mem, conn>>
    /\ UNCHANGED <<aofChan, inflight, currentDB, aofFile, readers, rw, restarts, failures>>

\* db.addAof -> Handler.AddAof: the send blocks while aofChan is full; the
\* locks are released when the handler returns.
\* Mutation: the send does not wait for room in aofChan.
AddAofUnbounded(c) ==
    /\ conn[c].pc = "log"
    /\ aofChan' = Append(aofChan, conn[c].pay)
    /\ conn' = [conn EXCEPT ![c] = Idle]
    /\ UNCHANGED <<mem, issued, inflight, currentDB, aofFile, readers, rw, restarts, failures>>

AddAof(c) ==
    /\ conn[c].pc = "log"
    /\ Len(aofChan) < QueueCap
    /\ aofChan' = Append(aofChan, conn[c].pay)
    /\ conn' = [conn EXCEPT ![c] = Idle]
    /\ UNCHANGED <<mem, issued, inflight, currentDB, aofFile, readers, rw, restarts, failures>>

\* FLUSHALL is handled by MultiDB.Exec itself, without any key lock.
FlushAll(c) ==
    /\ "flushall" \in Ops
    /\ conn[c].pc = "idle"
    /\ issued < MaxCmds
    /\ issued' = issued + 1
    /\ conn' = [conn EXCEPT ![c] = [pc |-> "flushall", pay |-> Nil, i |-> 0]]
    /\ UNCHANGED <<mem, aofChan, inflight, currentDB, aofFile, readers, rw, restarts, failures>>

\* flushAll: db.Flush() for each DB in turn, then AddAof(0, FlushAll).
\* Mutation: the flush loop hands FLUSHALL to the log one DB early.
FlushAllDBOneShort(c) ==
    LET i == conn[c].i IN
    /\ conn[c].pc = "flushall"
    /\ mem' = [mem EXCEPT ![i] = EmptyDB]
    /\ conn' = [conn EXCEPT ![c] =
                  IF i + 1 >= DBCount - 1
                  THEN [pc |-> "log", pay |-> [db |-> 0, cmd |-> FlushAllCmd], i |-> 0]
                  ELSE [@ EXCEPT !.i = i + 1]]
    /\ UNCHANGED <<issued, aofChan, inflight, currentDB, aofFile, readers, rw, restarts, failures>>

FlushAllDB(c) ==
    LET i == conn[c].i IN
    /\ conn[c].pc = "flushall"
    /\ mem' = [mem EXCEPT ![i] = EmptyDB]
    /\ conn' = [conn EXCEPT ![c] =
                  IF i = DBCount - 1
                  THEN [pc |-> "log", pay |-> [db |-> 0, cmd |-> FlushAllCmd], i |-> 0]
                  ELSE [@ EXCEPT !.i = i + 1]]
    /\ UNCHANGED <<issued, aofChan, inflight, currentDB, aofFile, readers, rw, restarts, failures>>

-----------------------------------------------------------------------------
(***************************************************************************)
(* The AOF goroutine (handleAof).                                          *)
(***************************************************************************)

\* A goroutine blocked in pausingAof.Lock() makes every new RLock() wait.
PausePending == \E r \in Rewriters : rw[r].phase \in {"startLock", "finishLock"}

\* for p := range h.aofChan
AofReceive ==
    /\ inflight = Nil
    /\ aofChan # <<>>
    /\ inflight' = Head(aofChan)
    /\ aofChan' = Tail(aofChan)
    /\ UNCHANGED <<mem, conn, issued, currentDB, aofFile, readers, rw, restarts, failures>>

\* RLock; write SELECT if the payload's DB is not currentDB; write the
\* command; RUnlock.  A failed SELECT write is logged and the loop does
\* `continue` past RUnlock: the command is dropped and the read hold is never
\* released.  A failed command write is logged and the loop goes on.
\* Mutation: a successful write forgets h.currentDB = p.dbIndex.
AofWriteStaleCurrentDB ==
    LET p   == inflight
        sel == IF p.db # currentDB THEN <<SelectCmd(p.db)>> ELSE <<>>
    IN
    /\ inflight # Nil
    /\ ~PausePending
    /\ inflight' = Nil
    /\ aofFile' = aofFile \o sel \o <<p.cmd>>
    /\ UNCHANGED <<mem, conn, issued, aofChan, rw, restarts, readers, failures, currentDB>>

\* Mutation: a failed SELECT write still records the new currentDB.
AofWriteSelectErrorSwitches ==
    LET p   == inflight
        sel == IF p.db # currentDB THEN <<SelectCmd(p.db)>> ELSE <<>>
    IN
    /\ inflight # Nil
    /\ ~PausePending
    /\ inflight' = Nil
    /\ \/ /\ aofFile' = aofFile \o sel \o <<p.cmd>>
          /\ UNCHANGED <<readers, failures>>
       \/ /\ sel # <<>>
          /\ failures < MaxFailures
          /\ failures' = failures + 1
          /\ readers' = readers + 1
          /\ UNCHANGED aofFile
    /\ currentDB' = p.db
    /\ UNCHANGED <<mem, conn, issued, aofChan, rw, restarts>>

AofWrite ==
    LET p   == inflight
        sel == IF p.db # currentDB THEN <<SelectCmd(p.db)>> ELSE <<>>
    IN
    /\ inflight # Nil
    /\ ~PausePending
    /\ inflight' = Nil
    /\ \/ /\ aofFile' = aofFile \o sel \o <<p.cmd>>
          /\ currentDB' = p.db
          /\ UNCHANGED <<readers, failures>>
       \/ /\ sel # <<>>
          /\ failures < MaxFailures
          /\ failures' = failures + 1
          /\ readers' = readers + 1
          /\ UNCHANGED <<aofFile, currentDB>>
       \/ /\ failures < MaxFailures
          /\ failures' = failures + 1
          /\ aofFile' = aofFile \o sel
          /\ currentDB' = p.db
          /\ UNCHANGED readers
    /\ UNCHANGED <<mem, conn, issued, aofChan, rw, restarts>>

-----------------------------------------------------------------------------
(***************************************************************************)
(* The rewrite goroutines (Rewrite).                                       *)
(***************************************************************************)

\* BGREWRITEAOF: go db.aofHandler.Rewrite(), which calls pausingAof.Lock().
BgRewriteAof(r) ==
    /\ rw[r].phase = "idle"
    /\ rw' = [rw EXCEPT ![r].phase = "startLock"]
    /\ UNCHANGED <<mem, conn, issued, aofChan, inflight, currentDB, aofFile, readers, restarts, failures>>

\* StartRewrite, under the pause lock: fsync (on error return, and Rewrite
\* gives up), record the file size and currentDB, create the temp file.
StartRewrite(r) ==
    /\ rw[r].phase = "startLock"
    /\ readers = 0
    /\ \/ /\ rw' = [rw EXCEPT ![r] = [@ EXCEPT !.phase = "rewriting",
                                               !.size = Len(aofFile),
                                               !.dbIdx = currentDB,
                                               !.tmp = <<>>]]
          /\ UNCHANGED failures
       \/ /\ failures < MaxFailures
          /\ failures' = failures + 1
          /\ rw' = [rw EXCEPT ![r].phase = "done"]
    /\ UNCHANGED <<mem, conn, issued, aofChan, inflight, currentDB, aofFile, readers, restarts>>

\* DoRewrite, without the lock: a fresh MultiDB loads the live file through
\* io.LimitReader(file, size), but only when size > 0 (LoadAof(maxBytes)
\* reads the whole file when maxBytes = 0); then every DB is dumped into the
\* temp file.  A failed write to the temp file ends the rewrite.
\* Mutation: the loader stops one frame before the recorded size.
DoRewriteShortRead(r) ==
    LET loaded == IF rw[r].size > 0 THEN SubSeq(aofFile, 1, rw[r].size - 1) ELSE aofFile
    IN
    /\ rw[r].phase = "rewriting"
    /\ rw' = [rw EXCEPT ![r] = [@ EXCEPT !.phase = "finishLock",
                                         !.tmp = Dump(Replay(loaded).mdb)]]
    /\ UNCHANGED <<mem, conn, issued, aofChan, inflight, currentDB, aofFile, readers, restarts, failures>>

DoRewrite(r) ==
    LET loaded == IF rw[r].size > 0 THEN SubSeq(aofFile, 1, rw[r].size) ELSE aofFile
    IN
    /\ rw[r].phase = "rewriting"
    /\ \/ /\ rw' = [rw EXCEPT ![r] = [@ EXCEPT !.phase = "finishLock",
                                               !.tmp = Dump(Replay(loaded).mdb)]]
          /\ UNCHANGED failures
       \/ /\ failures < MaxFailures
          /\ failures' = failures + 1
          /\ rw' = [rw EXCEPT ![r].phase = "done"]
    /\ UNCHANGED <<mem, conn, issued, aofChan, inflight, currentDB, aofFile, readers, restarts>>

\* FinishRewrite, under the pause lock: append SELECT dbIdx and the file from
\* offset size to the temp file, rename it over the live file, reopen it and
\* write SELECT currentDB.  An error opening, seeking or copying returns with
\* the live file untouched; the error of os.Rename is ignored, so the old
\* file is reopened and gets the trailing SELECT.
\* Mutation: the SELECT dbIdx before the copied tail is not written.
FinishRewriteNoSelect(r) ==
    LET ctx  == rw[r]
        tail == SubSeq(aofFile, ctx.size + 1, Len(aofFile))
    IN
    /\ ctx.phase = "finishLock"
    /\ readers = 0
    /\ rw' = [rw EXCEPT ![r].phase = "done"]
    /\ aofFile' = ctx.tmp \o tail \o <<SelectCmd(currentDB)>>
    /\ UNCHANGED <<mem, conn, issued, aofChan, inflight, currentDB, readers, restarts, failures>>

FinishRewrite(r) ==
    LET ctx  == rw[r]
        tail == SubSeq(aofFile, ctx.size + 1, Len(aofFile))
    IN
    /\ ctx.phase = "finishLock"
    /\ readers = 0
    /\ rw' = [rw EXCEPT ![r].phase = "done"]
    /\ \/ /\ aofFile' = ctx.tmp \o <<SelectCmd(ctx.dbIdx)>> \o tail \o <<SelectCmd(currentDB)>>
          /\ UNCHANGED failures
       \/ /\ failures < MaxFailures
          /\ failures' = failures + 1
          /\ UNCHANGED aofFile
       \/ /\ failures < MaxFailures
          /\ failures' = failures + 1
          /\ aofFile' = aofFile \o <<SelectCmd(currentDB)>>
    /\ UNCHANGED <<mem, conn, issued, aofChan, inflight, currentDB, readers, restarts>>

-----------------------------------------------------------------------------
\* Every command has been logged and the AOF goroutine is idle.
Quiescent ==
    /\ \A c \in Conns : conn[c].pc = "idle"
    /\ aofChan = <<>>
    /\ inflight = Nil

\* MultiDB.Close (close aofChan, wait for handleAof to drain, close the
\* file) followed by NewStandaloneServer: LoadAof(0) rebuilds the DBs and
\* the new handleAof starts with currentDB = 0.
Restart ==
    /\ restarts < MaxRestarts
    /\ Quiescent
    /\ \A r \in Rewriters : rw[r].phase \in {"idle", "done"}
    /\ restarts' = restarts + 1
    /\ mem' = Replay(aofFile).mdb
    /\ currentDB' = 0
    /\ readers' = 0
    /\ UNCHANGED <<conn, issued, aofChan, inflight, aofFile, rw, failures>>

\* The clients have issued all their commands and everything is logged.
Terminated ==
    /\ issued = MaxCmds
    /\ Quiescent
    /\ \A r \in Rewriters : rw[r].phase \in {"idle", "done"}
    /\ UNCHANGED vars

Next ==
    \/ \E c \in Conns :
          \/ \E d \in DBs, cmd \in Commands(Ops \ {"flushall"}) : ExecCommand(c, d, cmd)
          \/ AddAof(c)
          \/ FlushAll(c)
          \/ FlushAllDB(c)
    \/ AofReceive
    \/ AofWrite
    \/ \E r \in Rewriters :
          \/ BgRewriteAof(r)
          \/ StartRewrite(r)
          \/ DoRewrite(r)
          \/ FinishRewrite(r)
    \/ Terminated

\* The goroutines of the handlers, of handleAof and of Rewrite are scheduled
\* by the Go runtime: each keeps running while it is able to.  Issuing a
\* command or BGREWRITEAOF is the clients' choice and is not fair.
Fairness ==
    /\ \A c \in Conns : WF_vars(AddAof(c)) /\ WF_vars(FlushAllDB(c))
    /\ WF_vars(AofReceive)
    /\ WF_vars(AofWrite)
    /\ \A r \in Rewriters : /\ WF_vars(StartRewrite(r))
                            /\ WF_vars(DoRewrite(r))
                            /\ WF_vars(FinishRewrite(r))

Spec == Init /\ [][Next]_vars /\ Fairness

\* The same server across graceful restarts (MultiDB.Close, then a new
\* server loading the file).
RestartNext == Next \/ Restart

RestartSpec == Init /\ [][RestartNext]_vars /\ Fairness

-----------------------------------------------------------------------------
(***************************************************************************)
(* Properties.                                                             *)
(***************************************************************************)

\* Whenever every command has gone through handleAof, replaying the file
\* (what LoadAof does at the next start) rebuilds exactly the in-memory DBs:
\* the handlers' order of mutation and their order of AddAof agree, across
\* the writer's SELECT bookkeeping and across online rewrites.
ReplayMatchesMemory == Quiescent => Replay(aofFile).mdb = mem

\* The DB a replay of the file ends in is the writer's currentDB, so the next
\* record written without a SELECT lands in the right DB on replay.  Both
\* handleAof and FinishRewrite (its SELECT dbIdx and trailing SELECT
\* currentDB) must keep this.
LogSelectMatchesWriter == Replay(aofFile).db = currentDB

\* A rewrite never changes what the log means: when FinishRewrite returns,
\* replaying the new file gives the same DBs and selected DB as replaying the
\* file it replaced (the spec's rewrite equivalence, section 8.5).
RewritePreservesLog ==
    [][\A r \in Rewriters :
          (rw[r].phase = "finishLock" /\ rw'[r].phase = "done")
              => Replay(aofFile') = Replay(aofFile)]_vars

\* Every BGREWRITEAOF eventually finishes: the pause lock it waits for is
\* eventually free, twice.
RewriteCompletes ==
    \A r \in Rewriters : rw[r].phase = "startLock" ~> rw[r].phase = "done"

=============================================================================
