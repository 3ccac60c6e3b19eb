----------------------------- MODULE RespParser -----------------------------
(***************************************************************************)
(* src/redis/parser/parser.go: the parse0 goroutine that ParseStream       *)
(* starts, decoding a byte stream into payloads sent on an unbuffered      *)
(* channel, and the goroutine that ranges over the channel (LoadAof in     *)
(* src/aof/aof.go; the client's handleRead ranges the same way).           *)
(*                                                                         *)
(* The byte stream is chosen at the start from a concatenation of items    *)
(* (encoded frames, malformed lines) and an optional truncated tail, so    *)
(* the payloads the spec expects are known.  One step of the parser is one *)
(* iteration of parse0's loop: readLine, then the header or body parsing.  *)
(* A send is a rendezvous with the consumer's receive.                    *)
(***************************************************************************)
EXTENDS RespCodec, FiniteSets

CONSTANTS
    Items,     \* the items a stream is made of: [bytes, exp]
    Tails,     \* truncated endings of a stream (<<>> for none)
    MaxItems   \* the number of items in a stream

DigitVal == [c \in {"0", "1", "2", "3"} |-> CASE c = "0" -> 0 [] c = "1" -> 1 [] c = "2" -> 2 [] c = "3" -> 3]

RECURSIVE DecVal(_)
DecVal(s) == IF s = <<>> THEN 0 ELSE 10 * DecVal(Front(s)) + DigitVal[Last(s)]

\* strconv.ParseUint(s, 10, 32); Nil on a syntax error.
ParseUint(s) == IF s # <<>> /\ \A i \in 1..Len(s) : s[i] \in DOMAIN DigitVal THEN DecVal(s) ELSE Nil

\* strconv.ParseInt(s, 10, 64): an optional sign, then digits.
ParseInt(s) ==
    IF s # <<>> /\ s[1] \in {"+", "-"}
    THEN LET u == ParseUint(Tail(s)) IN
         IF u = Nil THEN Nil ELSE IF s[1] = "-" THEN -u ELSE u
    ELSE ParseUint(s)

\* strings.Split(s, " ")
RECURSIVE SplitSpace(_)
SplitSpace(s) ==
    LET i == SelectInSeq(s, LAMBDA c : c = " ") IN
    IF i = 0 THEN <<s>> ELSE <<SubSeq(s, 1, i - 1)>> \o SplitSpace(SubSeq(s, i + 1, Len(s)))

\* The zero readState.
NewState == [multi |-> FALSE, expected |-> 0, msgType |-> Nil, args |-> <<>>, bulkLen |-> 0]

\* readLine at position p: res is "ok", "proto" (protocol error), "io" (an
\* IO error: EOF, or UnexpectedEOF when io.ReadFull got part of the bytes) or
\* "panic" (msg[len(msg)-2] on a one-byte line).
ReadLine(in, p, st) ==
    LET R(res, msg, q, bl, err) == [res |-> res, msg |-> msg, pos |-> q, bulkLen |-> bl, err |-> err] IN
    IF st.bulkLen = 0
    THEN LET e == SelectInSubSeq(in, p + 1, Len(in), LAMBDA c : c = "LF")
             msg == SubSeq(in, p + 1, e)
         IN  CASE e = 0 -> R("io", <<>>, Len(in), 0, "EOF")
               [] Len(msg) < 2 -> R("panic", <<>>, e, 0, Nil)
               [] msg[Len(msg) - 1] # "CR" -> R("proto", <<>>, e, 0, Nil)
               [] OTHER -> R("ok", msg, e, 0, Nil)
    ELSE LET n == st.bulkLen + 2
             msg == SubSeq(in, p + 1, p + n)
         IN  CASE p + n > Len(in) -> R("io", <<>>, Len(in), st.bulkLen,
                                       IF p = Len(in) THEN "EOF" ELSE "UnexpectedEOF")
               [] msg[n - 1] # "CR" \/ msg[n] # "LF" -> R("proto", <<>>, p + n, st.bulkLen, Nil)
               [] OTHER -> R("ok", msg, p + n, 0, Nil)

\* The outcome of one loop iteration: the next state, the payload to send
\* (Nil for none), and whether the goroutine panicked.
Outcome(st, pay) == [st |-> st, pay |-> pay, panic |-> FALSE]
Panicked == [st |-> NewState, pay |-> Nil, panic |-> TRUE]
ProtoErr == Outcome(NewState, Frame("proto", Nil))

\* Mutant: the header "*0" no longer yields an empty array at once.
MultiBulkHeaderNoEmpty(msg, st) ==
    LET n == ParseUint(SubSeq(msg, 2, Len(msg) - 2)) IN
    IF n = Nil THEN ProtoErr
    ELSE Outcome([st EXCEPT !.msgType = "*", !.multi = TRUE, !.expected = n, !.args = <<>>], Nil)

\* parseMultiBulkHeader and parse0's '*' branch.
MultiBulkHeader(msg, st) ==
    LET n == ParseUint(SubSeq(msg, 2, Len(msg) - 2)) IN
    CASE n = Nil -> ProtoErr
      [] n = 0   -> Outcome(NewState, Frame("array", <<>>))
      [] OTHER   -> Outcome([st EXCEPT !.msgType = "*", !.multi = TRUE, !.expected = n, !.args = <<>>], Nil)

\* parseBulkHeader and parse0's '$' branch.
BulkHeader(msg, st) ==
    LET n == ParseInt(SubSeq(msg, 2, Len(msg) - 2)) IN
    CASE n = Nil -> ProtoErr
      [] n = -1  -> Outcome(NewState, Frame("bulk", Nil))
      [] n > 0   -> Outcome([st EXCEPT !.bulkLen = n, !.msgType = "$", !.multi = TRUE,
                                       !.expected = 1, !.args = <<>>], Nil)
      [] OTHER   -> ProtoErr

\* parseSingleLineReply: status, error, integer, or an inline command.
SingleLine(msg) ==
    LET str == SubSeq(msg, 1, Len(msg) - 2)
        rest == Tail(str)
    IN  CASE msg[1] = "+" -> Outcome(NewState, Frame("simple", rest))
          [] msg[1] = "-" -> Outcome(NewState, Frame("error", rest))
          [] msg[1] = ":" -> IF ParseInt(rest) = Nil THEN ProtoErr
                             ELSE Outcome(NewState, Frame("int", ParseInt(rest)))
          [] OTHER        -> Outcome(NewState, Frame("array", SplitSpace(str)))

\* readBody, then parse0's test of finished().
Body(msg, st) ==
    LET line == SubSeq(msg, 1, Len(msg) - 2)
        n    == ParseInt(Tail(line))
        st2  == IF line[1] # "$" THEN [st EXCEPT !.args = Append(@, line)]
                ELSE IF n <= 0 THEN [st EXCEPT !.args = Append(@, <<>>), !.bulkLen = 0]
                ELSE [st EXCEPT !.bulkLen = n]
        done == st2.expected > 0 /\ Len(st2.args) = st2.expected
    IN  CASE line = <<>> -> Panicked
          [] line[1] = "$" /\ n = Nil -> ProtoErr
          [] done /\ st2.msgType = "*" -> Outcome(NewState, Frame("array", st2.args))
          [] done -> Outcome(NewState, Frame("bulk", st2.args[1]))
          [] OTHER -> Outcome(st2, Nil)

\* One iteration of parse0's loop after readLine returned msg.
Dispatch(msg, st) ==
    CASE st.multi     -> Body(msg, st)
      [] msg[1] = "*" -> MultiBulkHeader(msg, st)
      [] msg[1] = "$" -> BulkHeader(msg, st)
      [] OTHER        -> SingleLine(msg)
-----------------------------------------------------------------------------
VARIABLES
    in,        \* the bytes the reader delivers
    exp,       \* the payloads spec 4.A says a decoder yields for them (ghost)
    pos,       \* bytes consumed by bufReader
    st,        \* parse0's readState
    pc,        \* parse0: "loop", "send", "close", "exited" or "dead" (after recover)
    pending,   \* the payload parse0 is sending
    closed,    \* whether ch is closed
    out,       \* the payloads the consumer received
    consumer   \* the consumer: "range" or "done"

vars == <<in, exp, pos, st, pc, pending, closed, out, consumer>>

\* The streams: up to MaxItems items, then a tail; EOF ends every stream.
Streams ==
    {[bytes |-> FlattenSeq([i \in 1..Len(s) |-> s[i].bytes]) \o t,
      exp   |-> FlattenSeq([i \in 1..Len(s) |-> s[i].exp]) \o <<Frame("io", Nil)>>] :
         s \in BoundedSeq(Items, MaxItems), t \in Tails}

Init ==
    /\ \E s \in Streams : in = s.bytes /\ exp = s.exp
    /\ pos = 0
    /\ st = NewState
    /\ pc = "loop"
    /\ pending = Nil
    /\ closed = FALSE
    /\ out = <<>>
    /\ consumer = "range"

\* One iteration of parse0's loop.  An IO error is sent and then closes the
\* channel; a protocol error resets the state; a panic is recovered by the
\* deferred function, which logs and returns without closing ch.
Parse ==
    /\ pc = "loop"
    /\ LET r == ReadLine(in, pos, st)
           o == Dispatch(r.msg, [st EXCEPT !.bulkLen = r.bulkLen])
       IN  /\ pos' = r.pos
           /\ CASE r.res = "io"    -> /\ pending' = Frame("io", r.err) /\ pc' = "send" /\ st' = st
                 [] r.res = "panic" -> /\ pc' = "dead" /\ UNCHANGED <<st, pending>>
                 [] r.res = "proto" -> /\ pending' = Frame("proto", Nil) /\ pc' = "send" /\ st' = NewState
                 [] o.panic         -> /\ pc' = "dead" /\ UNCHANGED <<st, pending>>
                 [] o.pay = Nil     -> /\ pc' = "loop" /\ st' = o.st /\ UNCHANGED pending
                 [] OTHER           -> /\ pending' = o.pay /\ pc' = "send" /\ st' = o.st
    /\ UNCHANGED <<in, exp, closed, out, consumer>>

\* Mutant: parse0 goes on reading after sending an IO error.
ReceiveNoClose ==
    /\ pc = "send" /\ consumer = "range"
    /\ out' = Append(out, pending)
    /\ pc' = "loop"
    /\ consumer' = IF pending = Frame("io", "EOF") THEN "done" ELSE "range"
    /\ UNCHANGED <<in, exp, pos, st, pending, closed>>

\* ch <- payload meets the consumer's receive.  LoadAof breaks out of its
\* loop on io.EOF and goes on after any other error.
Receive ==
    /\ pc = "send" /\ consumer = "range"
    /\ out' = Append(out, pending)
    /\ pc' = IF pending.t = "io" THEN "close" ELSE "loop"
    /\ consumer' = IF pending = Frame("io", "EOF") THEN "done" ELSE "range"
    /\ UNCHANGED <<in, exp, pos, st, pending, closed>>

\* close(ch); return.
Close ==
    /\ pc = "close"
    /\ closed' = TRUE
    /\ pc' = "exited"
    /\ UNCHANGED <<in, exp, pos, st, pending, out, consumer>>

\* The consumer's range loop ends on a closed, drained channel.
RangeEnds ==
    /\ closed /\ consumer = "range"
    /\ consumer' = "done"
    /\ UNCHANGED <<in, exp, pos, st, pc, pending, closed, out>>

\* Both goroutines have returned.
Terminated == pc = "exited" /\ consumer = "done" /\ UNCHANGED vars

Next == Parse \/ Receive \/ Close \/ RangeEnds \/ Terminated

\* Both goroutines are running Go code or blocked on the channel; the
\* scheduler runs a runnable goroutine, and a rendezvous whose two sides
\* are ready completes.
Fairness == WF_vars(Parse) /\ WF_vars(Receive) /\ WF_vars(Close) /\ WF_vars(RangeEnds)

Spec == Init /\ [][Next]_vars /\ Fairness

-----------------------------------------------------------------------------
\* A payload with the kind of IO error erased.
Shape(p) == IF p.t = "io" THEN Frame("io", Nil) ELSE p

\* Spec 4.A and invariant 1 (round trip): the consumer receives, in order,
\* the frames that were encoded into the stream, one protocol error per
\* malformed line, nothing for a truncated last frame, and the IO error of
\* the end of the stream; it has them all once it is done.  This is about
\* readLine's two read modes, the header/body dispatch of parse0 and the
\* resets of readState between frames.
RoundTrip ==
    /\ IsPrefix([i \in 1..Len(out) |-> Shape(out[i])], exp)
    /\ consumer = "done" => Len(out) = Len(exp)

\* Whatever the bytes, the consumer's range loop ends and parse0 returns:
\* LoadAof at start-up, and the client's handleRead, never block forever
\* on the channel, and no parse0 goroutine is left blocked on a send.
StreamEnds == <>(consumer = "done" /\ pc = "exited")
=============================================================================
