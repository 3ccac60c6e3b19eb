---------------------------- MODULE KeyCommands ----------------------------
(***************************************************************************)
(* The command handlers that run against one DB of the MultiDB: the key    *)
(* commands of src/database/keys.go (DEL, RENAME, RENAMENX, FLUSHDB), the  *)
(* key extractors of src/database/tx_utils.go that decide which per-key    *)
(* locks a command takes, and SET, whose handler (string.go) is not under  *)
(* src/ and is modelled from the spec.                                     *)
(*                                                                         *)
(* A value is abstracted to a member of Vals; the string payload, the five *)
(* value kinds and the reply frames are left out.  A command is a record   *)
(* with the command name and up to two key arguments and one value        *)
(* argument; the same records are the frames of the append-only log.      *)
(***************************************************************************)
CONSTANTS
    Keys,   \* the keys clients use
    Vals,   \* the values SET can store
    Nil     \* absent key / unused argument (a model value)

ASSUME Nil \notin Keys \cup Vals

\* One DB (DB.data): every key maps to its value or to Nil when absent.
DBState == [Keys -> Vals \cup {Nil}]
EmptyDB == [k \in Keys |-> Nil]

Exists(st, k) == st[k] # Nil

\* A command line (CmdLine) as it is executed and written to the log.
Cmd(op, k1, k2, v) == [op |-> op, k1 |-> k1, k2 |-> k2, v |-> v]
SetCmd(k, v)          == Cmd("set", k, Nil, v)
DelCmd(k)             == Cmd("del", k, Nil, Nil)
RenameCmd(src, dst)   == Cmd("rename", src, dst, Nil)
RenameNxCmd(src, dst) == Cmd("renamenx", src, dst, Nil)
FlushDBCmd            == Cmd("flushdb", Nil, Nil, Nil)

KeyOps == {"set", "del", "rename", "renamenx", "flushdb"}

\* Every command named op over Keys and Vals.
CommandsOf(op) ==
    CASE op = "set"      -> {SetCmd(k, v) : k \in Keys, v \in Vals}
      [] op = "del"      -> {DelCmd(k) : k \in Keys}
      [] op = "rename"   -> {RenameCmd(s, d) : s, d \in Keys}
      [] op = "renamenx" -> {RenameNxCmd(s, d) : s, d \in Keys}
      [] op = "flushdb"  -> {FlushDBCmd}

Commands(ops) == UNION {CommandsOf(op) : op \in ops}

(***************************************************************************)
(* Key extractors registered with each command (RegisterCommand): SET and  *)
(* DEL write their keys (writeFirstKey, writeAllKeys), RENAME and RENAMENX *)
(* write the destination and read the source (prepareRename), FLUSHDB     *)
(* takes no key lock at all (noPrepare).                                   *)
(***************************************************************************)
WriteKeys(c) ==
    CASE c.op \in {"set", "del"}           -> {c.k1}
      [] c.op \in {"rename", "renamenx"}   -> {c.k2}
      [] OTHER                             -> {}

ReadKeys(c) == IF c.op \in {"rename", "renamenx"} THEN {c.k1} ELSE {}

(***************************************************************************)
(* Whether the handler changes the DB and calls db.addAof.  A handler that *)
(* returns early (no such key, destination exists, nothing deleted) leaves *)
(* the DB unchanged and writes nothing to the log.                         *)
(***************************************************************************)
Succeeds(st, c) ==
    CASE c.op = "set"      -> TRUE
      [] c.op = "del"      -> Exists(st, c.k1)
      [] c.op = "rename"   -> Exists(st, c.k1)
      [] c.op = "renamenx" -> ~Exists(st, c.k2) /\ Exists(st, c.k1)
      [] c.op = "flushdb"  -> TRUE

\* SET (spec 4.C put): overwrite the value.
ExecSet(st, k, v) == [st EXCEPT ![k] = v]

\* execDel: db.Removes(keys...).
ExecDel(st, k) == [st EXCEPT ![k] = Nil]

\* execRename: PutEntity(dest, entity) and then Remove(src), in that order,
\* so RENAME k k deletes k.
ExecRename(st, src, dst) == [[st EXCEPT ![dst] = st[src]] EXCEPT ![src] = Nil]

\* execRenameNx: Removes(src, dest) and then PutEntity(dest, entity).
ExecRenameNx(st, src, dst) == [[st EXCEPT ![src] = Nil, ![dst] = Nil] EXCEPT ![dst] = st[src]]

\* execFlushDB: db.Flush() empties the DB.
ExecFlushDB(st) == EmptyDB

\* The effect of executing command c on DB st (the error replies change nothing).
Apply(st, c) ==
    IF ~Succeeds(st, c) THEN st
    ELSE CASE c.op = "set"      -> ExecSet(st, c.k1, c.v)
           [] c.op = "del"      -> ExecDel(st, c.k1)
           [] c.op = "rename"   -> ExecRename(st, c.k1, c.k2)
           [] c.op = "renamenx" -> ExecRenameNx(st, c.k1, c.k2)
           [] c.op = "flushdb"  -> ExecFlushDB(st)
=============================================================================
