--------------------------- MODULE KeyspaceAbstract ---------------------------
(***************************************************************************)
(* What a client of one keyspace sees (spec 4.C, 4.D): a map from key to  *)
(* value and a map from key to expiration instant, holding only the keys  *)
(* that are logically present.  A key whose instant is <= now is absent:  *)
(* time passing removes it, and no read changes the state.  cmd is the    *)
(* last command and reply its answer.  Instants are in ticks, TicksPerMs  *)
(* to the millisecond, counted from the Unix epoch.                        *)
(***************************************************************************)
EXTENDS Integers, FiniteSets

CONSTANTS Keys, Vals, TicksPerMs, MaxNow, NaN, Nil

VARIABLES kv, exp, now, cmd, reply

Present(k) == kv[k] # Nil

\* Drops the keys whose instant has come.
Alive(m, e, t) == [k \in Keys |-> IF e[k] # Nil /\ e[k] <= t THEN Nil ELSE m[k]]

Init ==
    /\ kv = [k \in Keys |-> Nil]
    /\ exp = [k \in Keys |-> Nil]
    /\ now = 0
    /\ cmd = Nil
    /\ reply = Nil

Tick ==
    /\ now < MaxNow
    /\ now' = now + 1
    /\ kv' = Alive(kv, exp, now + 1)
    /\ exp' = Alive(exp, exp, now + 1)
    /\ UNCHANGED <<cmd, reply>>

\* The instant an EXPIRE-family command names: seconds or milliseconds,
\* relative to now or to the epoch.
Instant(c) ==
    LET unit == IF c.op \in {"expire", "expireat"} THEN 1000 * TicksPerMs ELSE TicksPerMs
        base == IF c.op \in {"expire", "pexpire"} THEN now ELSE 0
    IN  base + c.n * unit

\* Integer, status, error and multi-bulk replies.
IntReply(n) == [int |-> n]
StatusReply(s) == [status |-> s]
OkReply == StatusReply("OK")
ErrReply == [err |-> "ERR"]
ArrayReply(ks) == [array |-> ks]

\* A command's effect: kv', exp' and reply'.
Answer(r) == reply' = r
Keep(r) == kv' = kv /\ exp' = exp /\ Answer(r)
Write(m, e, r) == kv' = Alive(m, e, now) /\ exp' = Alive(e, e, now) /\ Answer(r)

\* RENAME: the destination is overwritten with the value and the TTL of the
\* source, then the source entry is deleted.
Move(s, d) ==
    [m |-> [[kv EXCEPT ![d] = kv[s]] EXCEPT ![s] = Nil],
     e |-> [[exp EXCEPT ![d] = exp[s]] EXCEPT ![s] = Nil]]

Effect(c) ==
    LET k == c.k1 IN
    CASE c.op = "set" ->
            Write([kv EXCEPT ![k] = c.v], [exp EXCEPT ![k] = Nil], OkReply)
      [] c.op = "del" ->
            LET ks == {c.k1, c.k2} \ {Nil}
            IN  Write([x \in Keys |-> IF x \in ks THEN Nil ELSE kv[x]],
                      [x \in Keys |-> IF x \in ks THEN Nil ELSE exp[x]],
                      IntReply(Cardinality({x \in ks : Present(x)})))
      [] c.op = "exists" -> Keep(IntReply(IF Present(k) THEN 1 ELSE 0))
      [] c.op = "type" -> Keep(StatusReply(IF Present(k) THEN "string" ELSE "none"))
      [] c.op = "flushdb" -> Write([x \in Keys |-> Nil], [x \in Keys |-> Nil], OkReply)
      [] c.op = "rename" ->
            IF ~Present(k) THEN Keep(ErrReply)
            ELSE Write(Move(k, c.k2).m, Move(k, c.k2).e, OkReply)
      [] c.op = "renamenx" ->
            CASE Present(c.k2) -> Keep(IntReply(0))
              [] ~Present(k)   -> Keep(ErrReply)
              [] OTHER -> Write(Move(k, c.k2).m, Move(k, c.k2).e, IntReply(1))
      [] c.op \in {"expire", "expireat", "pexpire", "pexpireat"} ->
            CASE c.n = NaN  -> Keep(ErrReply)
              [] ~Present(k)  -> Keep(IntReply(0))
              [] OTHER -> Write(kv, [exp EXCEPT ![k] = Instant(c)], IntReply(1))
      [] c.op \in {"ttl", "pttl"} ->
            LET unit == IF c.op = "ttl" THEN 1000 * TicksPerMs ELSE TicksPerMs
            IN  Keep(IntReply(CASE ~Present(k)   -> -2
                       [] exp[k] = Nil  -> -1
                       [] OTHER -> (exp[k] - now) \div unit))
      [] c.op = "persist" ->
            IF Present(k) /\ exp[k] # Nil THEN Write(kv, [exp EXCEPT ![k] = Nil], IntReply(1))
            ELSE Keep(IntReply(0))
      [] c.op = "keys" -> Keep(ArrayReply({x \in Keys : Present(x)}))

\* Any command line, the ones a rollback generates included.
Do ==
    /\ cmd' # Nil
    /\ Effect(cmd')
    /\ UNCHANGED now

Next == Tick \/ Do

Spec == Init /\ [][Next]_<<kv, exp, now, cmd, reply>>
===============================================================================
