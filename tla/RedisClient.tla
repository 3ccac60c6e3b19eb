---------------------------- MODULE RedisClient ----------------------------
(***************************************************************************)
(* The pipelined client of redis/client/client.go, as the cluster's        *)
(* connection pool uses it to talk to a peer.                              *)
(*                                                                         *)
(* Send puts a request on pendingReqs and waits for it with a timeout.     *)
(* One writer goroutine (handleWrite/doRequest) writes requests to the     *)
(* current connection and moves them to waitingReqs; on a write error it   *)
(* closes the connection and redials (handleConnectionError), up to three  *)
(* times, starting a new reader goroutine for every new connection.  A     *)
(* reader (handleRead) takes every payload of its connection and gives it  *)
(* to whatever request is at the head of waitingReqs (finishRequest).  A   *)
(* ticker makes a heartbeat goroutine send PINGs the same way, and Close   *)
(* stops the ticker, closes pendingReqs, waits for running Sends, closes   *)
(* the connection and closes waitingReqs.                                  *)
(*                                                                         *)
(* The connection is two FIFO queues; the peer answers requests in order,  *)
(* and its answer to r is Srv(r).  The parser in between is RespParser's   *)
(* business; here a reader sees either the next answer or, once its        *)
(* connection is broken or closed and drained, one IO error after which    *)
(* parse0 closes the channel and handleRead returns.  A send on a closed   *)
(* channel panics outside any recover: the process dies (crashed).         *)
(* pendingReqs and waitingReqs hold ChanSize requests each (chanSize); a   *)
(* send on a full channel blocks until there is room.                      *)
(***************************************************************************)
EXTENDS Integers, Sequences, FiniteSets

CONSTANTS
    Reqs,       \* the requests callers Send
    Beats,      \* the PINGs of successive ticks of the heartbeat ticker
    MaxDials,   \* how many redials succeed (the peer is back up)
    MaxFaults,  \* how many times the network breaks a connection
    ChanSize    \* capacity of pendingReqs and of waitingReqs (chanSize)

ASSUME Reqs \cap Beats = {} /\ MaxDials \in Nat /\ MaxFaults \in Nat
ASSUME ChanSize \in Nat \ {0}

R == Reqs \cup Beats

\* The connections there can be: the first and one per successful redial.
ConnIds == 1..(1 + MaxDials)

\* The payloads a reader hands to finishRequest: the peer's answer to a
\* request, or the reply made of an IO error.
Srv(r) == [k |-> "srv", of |-> r]
IOErr == [k |-> "err", of |-> "io"]
Payloads == {Srv(r) : r \in R} \cup {IOErr}

NoReply == [k |-> "none", of |-> "none"]

VARIABLES
    conns,      \* every connection dialed: state and the bytes in flight
    cur,        \* c.conn: the index of the connection in use
    rd,         \* the reader goroutine of each connection
    pending,    \* c.pendingReqs
    pendClosed,
    waiting,    \* c.waitingReqs
    waitClosed,
    wr,         \* the writer goroutine (handleWrite / doRequest)
    snd,        \* the Send or heartbeat goroutine of each request
    cnt,        \* request.waiting's counter
    reply,      \* request.reply
    err,        \* request.err # nil
    res,        \* what Send returned
    working,    \* c.working's counter
    ticker,
    closer,     \* the caller of Close
    dials,
    faults,
    crashed,
    served      \* history: the requests the peer has executed

vars == <<conns, cur, rd, pending, pendClosed, waiting, waitClosed, wr, snd,
          cnt, reply, err, res, working, ticker, closer, dials, faults, crashed,
          served>>

NewConn(toSrv) == [st |-> "open", toSrv |-> toSrv, toCli |-> <<>>]

\* conn.Close(): reads and writes on it fail from now on.
CloseConn(c) == [c EXCEPT !.st = "closed", !.toCli = <<>>]

\* MakeClient dials the peer; Start starts the writer, the reader of the
\* first connection and the heartbeat goroutine.
Init ==
    /\ conns = <<NewConn(<<>>)>>
    /\ cur = 1
    /\ rd = <<[pc |-> "read", pay |-> IOErr]>>
    /\ pending = <<>> /\ pendClosed = FALSE
    /\ waiting = <<>> /\ waitClosed = FALSE
    /\ wr = [pc |-> "idle", req |-> CHOOSE r \in R : TRUE, i |-> 0]
    /\ snd = [r \in R |-> "new"]
    /\ cnt = [r \in R |-> 0]
    /\ reply = [r \in R |-> NoReply]
    /\ err = [r \in R |-> FALSE]
    /\ res = [r \in R |-> NoReply]
    /\ working = 0
    /\ ticker = "running"
    /\ closer = "open"
    /\ dials = 0 /\ faults = 0
    /\ crashed = FALSE
    /\ served = {}

-----------------------------------------------------------------------------
(* Callers.                                                                *)

\* Send: Add(1) on the request and on c.working.  Callers stop sending
\* before they call Close.
Send(r) ==
    /\ ~crashed
    /\ r \in Reqs /\ snd[r] = "new" /\ closer = "open"
    /\ snd' = [snd EXCEPT ![r] = "enq"]
    /\ cnt' = [cnt EXCEPT ![r] = 1]
    /\ working' = working + 1
    /\ UNCHANGED <<conns, cur, rd, pending, pendClosed, waiting, waitClosed, wr,
                   reply, err, res, ticker, closer, dials, faults, crashed, served>>

\* Send's c.pendingReqs <- request: it waits for room, and panics once Close
\* has closed the channel under it.  The timeout starts only after it.
SendEnqueue(r) ==
    /\ ~crashed
    /\ snd[r] = "enq"
    /\ pendClosed \/ Len(pending) < ChanSize
    /\ IF pendClosed
         THEN crashed' = TRUE /\ UNCHANGED <<pending, snd>>
         ELSE /\ pending' = Append(pending, r)
              /\ snd' = [snd EXCEPT ![r] = "wait"]
              /\ UNCHANGED crashed
    /\ UNCHANGED <<conns, cur, rd, pendClosed, waiting, waitClosed, wr, cnt,
                   reply, err, res, working, ticker, closer, dials, faults, served>>

\* The heartbeat goroutine receives a tick (for range c.ticker.C); it
\* handles one tick at a time.
Tick(b) ==
    /\ ~crashed
    /\ b \in Beats /\ snd[b] = "new" /\ ticker = "running"
    /\ \A o \in Beats : snd[o] \notin {"ticked", "wait"}
    /\ snd' = [snd EXCEPT ![b] = "ticked"]
    /\ UNCHANGED <<conns, cur, rd, pending, pendClosed, waiting, waitClosed, wr,
                   cnt, reply, err, res, working, ticker, closer, dials,
                   faults, crashed, served>>

\* doHeartbeat: Add(1) twice, then pendingReqs <- PING, which waits for
\* room and panics once Close has closed pendingReqs.
BeatSend(b) ==
    /\ ~crashed
    /\ snd[b] = "ticked"
    /\ pendClosed \/ Len(pending) < ChanSize
    /\ cnt' = [cnt EXCEPT ![b] = 1]
    /\ working' = working + 1
    /\ IF pendClosed
         THEN crashed' = TRUE /\ UNCHANGED <<pending, snd>>
         ELSE /\ pending' = Append(pending, b)
              /\ snd' = [snd EXCEPT ![b] = "wait"]
              /\ UNCHANGED crashed
    /\ UNCHANGED <<conns, cur, rd, pendClosed, waiting, waitClosed, wr, reply,
                   err, res, ticker, closer, dials, faults, served>>

\* WaitWithTimeout returns false once the counter is zero; Send then
\* returns "request failed" if doRequest set err, else the reply.
Return(r) ==
    /\ ~crashed
    /\ snd[r] = "wait" /\ cnt[r] = 0
    /\ res' = [res EXCEPT ![r] = IF err[r] THEN [k |-> "failed", of |-> r]
                                            ELSE reply[r]]
    /\ snd' = [snd EXCEPT ![r] = "returned"]
    /\ working' = working - 1
    /\ UNCHANGED <<conns, cur, rd, pending, pendClosed, waiting, waitClosed, wr,
                   cnt, reply, err, ticker, closer, dials, faults, crashed, served>>

\* maxWait passes first: "server time out"; the request stays wherever it
\* is in the pipeline.  The timer may also win after the counter reached
\* zero, before the goroutine of WaitWithTimeout has sent on c.
Timeout(r) ==
    /\ ~crashed
    /\ snd[r] = "wait"
    /\ res' = [res EXCEPT ![r] = [k |-> "timeout", of |-> r]]
    /\ snd' = [snd EXCEPT ![r] = "returned"]
    /\ working' = working - 1
    /\ UNCHANGED <<conns, cur, rd, pending, pendClosed, waiting, waitClosed, wr,
                   cnt, reply, err, ticker, closer, dials, faults, crashed, served>>

-----------------------------------------------------------------------------
(* The writer goroutine: handleWrite ranges over pendingReqs.              *)

WrSet(pc, r, i) == wr' = [pc |-> pc, req |-> r, i |-> i]

Take ==
    /\ ~crashed
    /\ wr.pc = "idle" /\ pending # <<>>
    /\ WrSet("write", Head(pending), 0)
    /\ pending' = Tail(pending)
    /\ UNCHANGED <<conns, cur, rd, pendClosed, waiting, waitClosed, snd, cnt,
                   reply, err, res, working, ticker, closer, dials, faults,
                   crashed, served>>

\* The range ends once pendingReqs is closed and drained.
WriterExits ==
    /\ ~crashed
    /\ wr.pc = "idle" /\ pending = <<>> /\ pendClosed
    /\ WrSet("exited", wr.req, 0)
    /\ UNCHANGED <<conns, cur, rd, pending, pendClosed, waiting, waitClosed, snd,
                   cnt, reply, err, res, working, ticker, closer, dials, faults,
                   crashed, served>>

\* doRequest's first c.conn.Write.  It succeeds on an open connection; on
\* a broken one the kernel may still accept the bytes, which are lost, or
\* report the error; on a closed one it fails.
Write ==
    LET c == conns[cur] IN
    /\ ~crashed
    /\ wr.pc = "write"
    /\ \/ /\ c.st = "open"
          /\ conns' = [conns EXCEPT ![cur].toSrv = Append(@, wr.req)]
          /\ WrSet("enqueue", wr.req, 0)
       \/ /\ c.st = "broken"
          /\ WrSet("enqueue", wr.req, 0)
          /\ UNCHANGED conns
       \/ /\ c.st # "open"
          /\ WrSet("retry", wr.req, 0)
          /\ UNCHANGED conns
    /\ UNCHANGED <<cur, rd, pending, pendClosed, waiting, waitClosed, snd, cnt,
                   reply, err, res, working, ticker, closer, dials, faults,
                   crashed, served>>

\* Mutant: the failure path of doRequest also falls through to
\* c.waitingReqs <- req (the else dropped).
RetryNoElse ==
    LET r == wr.req IN
    /\ ~crashed
    /\ wr.pc = "retry" /\ wr.i < 3
    /\ \/ /\ dials < MaxDials
          /\ conns' = Append([conns EXCEPT ![cur] = CloseConn(@)], NewConn(<<r>>))
          /\ rd' = Append(rd, [pc |-> "read", pay |-> IOErr])
          /\ cur' = Len(conns) + 1
          /\ dials' = dials + 1
          /\ WrSet("enqueue", r, 0)
          /\ UNCHANGED <<err, cnt>>
       \/ /\ conns' = [conns EXCEPT ![cur] = CloseConn(@)]
          /\ IF wr.i + 1 < 3
               THEN WrSet("retry", r, wr.i + 1) /\ UNCHANGED <<err, cnt>>
               ELSE /\ WrSet("enqueue", r, 0)
                    /\ err' = [err EXCEPT ![r] = TRUE]
                    /\ cnt' = [cnt EXCEPT ![r] = @ - 1]
          /\ UNCHANGED <<rd, cur, dials>>
    /\ UNCHANGED <<pending, pendClosed, waiting, waitClosed, snd, reply, res,
                   working, ticker, closer, faults, crashed, served>>

\* Mutant: the retry loop runs while i <= 3, one dial too many.
RetryOffByOne ==
    LET r == wr.req IN
    /\ ~crashed
    /\ wr.pc = "retry" /\ wr.i <= 3
    /\ \/ /\ dials < MaxDials
          /\ conns' = Append([conns EXCEPT ![cur] = CloseConn(@)], NewConn(<<r>>))
          /\ rd' = Append(rd, [pc |-> "read", pay |-> IOErr])
          /\ cur' = Len(conns) + 1
          /\ dials' = dials + 1
          /\ WrSet("enqueue", r, 0)
          /\ UNCHANGED <<err, cnt>>
       \/ /\ conns' = [conns EXCEPT ![cur] = CloseConn(@)]
          /\ IF wr.i + 1 <= 3
               THEN WrSet("retry", r, wr.i + 1) /\ UNCHANGED <<err, cnt>>
               ELSE /\ WrSet("idle", r, 0)
                    /\ err' = [err EXCEPT ![r] = TRUE]
                    /\ cnt' = [cnt EXCEPT ![r] = @ - 1]
          /\ UNCHANGED <<rd, cur, dials>>
    /\ UNCHANGED <<pending, pendClosed, waiting, waitClosed, snd, reply, res,
                   working, ticker, closer, faults, crashed, served>>

\* Mutant: the error of the write on the new connection is not cleared,
\* so the loop goes on dialing after the request was written.
RetryErrKept ==
    LET r == wr.req IN
    /\ ~crashed
    /\ wr.pc = "retry" /\ wr.i < 3
    /\ \/ /\ dials < MaxDials
          /\ conns' = Append([conns EXCEPT ![cur] = CloseConn(@)], NewConn(<<r>>))
          /\ rd' = Append(rd, [pc |-> "read", pay |-> IOErr])
          /\ cur' = Len(conns) + 1
          /\ dials' = dials + 1
          /\ IF wr.i + 1 < 3
               THEN WrSet("retry", r, wr.i + 1) /\ UNCHANGED <<err, cnt>>
               ELSE /\ WrSet("idle", r, 0)
                    /\ err' = [err EXCEPT ![r] = TRUE]
                    /\ cnt' = [cnt EXCEPT ![r] = @ - 1]
       \/ /\ conns' = [conns EXCEPT ![cur] = CloseConn(@)]
          /\ IF wr.i + 1 < 3
               THEN WrSet("retry", r, wr.i + 1) /\ UNCHANGED <<err, cnt>>
               ELSE /\ WrSet("idle", r, 0)
                    /\ err' = [err EXCEPT ![r] = TRUE]
                    /\ cnt' = [cnt EXCEPT ![r] = @ - 1]
          /\ UNCHANGED <<rd, cur, dials>>
    /\ UNCHANGED <<pending, pendClosed, waiting, waitClosed, snd, reply, res,
                   working, ticker, closer, faults, crashed, served>>

\* One turn of the retry loop: handleConnectionError closes c.conn (an
\* error "use of closed network connection" is ignored) and dials again;
\* on success c.conn is the new connection, a new handleRead goroutine
\* starts on it and the request is written there.  After the third failed
\* dial doRequest gives up: req.err is set and req.waiting.Done().
Retry ==
    LET r == wr.req IN
    /\ ~crashed
    /\ wr.pc = "retry" /\ wr.i < 3
    /\ \/ /\ dials < MaxDials
          /\ conns' = Append([conns EXCEPT ![cur] = CloseConn(@)], NewConn(<<r>>))
          /\ rd' = Append(rd, [pc |-> "read", pay |-> IOErr])
          /\ cur' = Len(conns) + 1
          /\ dials' = dials + 1
          /\ WrSet("enqueue", r, 0)
          /\ UNCHANGED <<err, cnt>>
       \/ /\ conns' = [conns EXCEPT ![cur] = CloseConn(@)]
          /\ IF wr.i + 1 < 3
               THEN WrSet("retry", r, wr.i + 1) /\ UNCHANGED <<err, cnt>>
               ELSE /\ WrSet("idle", r, 0)
                    /\ err' = [err EXCEPT ![r] = TRUE]
                    /\ cnt' = [cnt EXCEPT ![r] = @ - 1]
          /\ UNCHANGED <<rd, cur, dials>>
    /\ UNCHANGED <<pending, pendClosed, waiting, waitClosed, snd, reply, res,
                   working, ticker, closer, faults, crashed, served>>

\* Mutant: handleWrite returns once it has handed over its first request,
\* as if the range loop's body ended in a return.
EnqueueThenExit ==
    /\ ~crashed
    /\ wr.pc = "enqueue"
    /\ waitClosed \/ Len(waiting) < ChanSize
    /\ IF waitClosed
         THEN crashed' = TRUE /\ UNCHANGED <<waiting, wr>>
         ELSE /\ waiting' = Append(waiting, wr.req)
              /\ WrSet("exited", wr.req, 0)
              /\ UNCHANGED crashed
    /\ UNCHANGED <<conns, cur, rd, pending, pendClosed, waitClosed, snd, cnt,
                   reply, err, res, working, ticker, closer, dials, faults, served>>

\* c.waitingReqs <- req: it waits for room; a send on the closed channel
\* panics.
Enqueue ==
    /\ ~crashed
    /\ wr.pc = "enqueue"
    /\ waitClosed \/ Len(waiting) < ChanSize
    /\ IF waitClosed
         THEN crashed' = TRUE /\ UNCHANGED <<waiting, wr>>
         ELSE /\ waiting' = Append(waiting, wr.req)
              /\ WrSet("idle", wr.req, 0)
              /\ UNCHANGED crashed
    /\ UNCHANGED <<conns, cur, rd, pending, pendClosed, waitClosed, snd, cnt,
                   reply, err, res, working, ticker, closer, dials, faults, served>>

-----------------------------------------------------------------------------
(* The reader goroutines: handleRead on connection k.                      *)

\* The next payload of the connection: the peer's next answer, or, once it
\* is broken or closed and nothing is left to read, the IO error.
Read(k) ==
    LET c == conns[k] IN
    /\ ~crashed /\ k \in DOMAIN conns
    /\ rd[k].pc = "read"
    /\ \/ /\ c.toCli # <<>>
          /\ rd' = [rd EXCEPT ![k] = [pc |-> "finish", pay |-> Srv(Head(c.toCli))]]
          /\ conns' = [conns EXCEPT ![k].toCli = Tail(@)]
       \/ /\ c.toCli = <<>> /\ c.st # "open"
          /\ rd' = [rd EXCEPT ![k] = [pc |-> "finish", pay |-> IOErr]]
          /\ UNCHANGED conns
    /\ UNCHANGED <<cur, pending, pendClosed, waiting, waitClosed, wr, snd, cnt,
                   reply, err, res, working, ticker, closer, dials, faults,
                   crashed, served>>

\* finishRequest: request := <-c.waitingReqs, whichever request that is;
\* a nil from the closed channel ends it.  The reply is recorded and
\* request.waiting.Done().  After the IO error the channel is closed and
\* handleRead returns.
Finish(k) ==
    LET next == IF rd[k].pay = IOErr THEN "exited" ELSE "read" IN
    /\ ~crashed /\ k \in DOMAIN conns
    /\ rd[k].pc = "finish"
    /\ waiting # <<>> \/ waitClosed
    /\ rd' = [rd EXCEPT ![k].pc = next]
    /\ IF waiting # <<>>
         THEN LET r == Head(waiting) IN
              /\ waiting' = Tail(waiting)
              /\ reply' = [reply EXCEPT ![r] = rd[k].pay]
              /\ cnt' = [cnt EXCEPT ![r] = @ - 1]
         ELSE UNCHANGED <<waiting, reply, cnt>>
    /\ UNCHANGED <<conns, cur, pending, pendClosed, waitClosed, wr, snd, err,
                   res, working, ticker, closer, dials, faults, crashed, served>>

-----------------------------------------------------------------------------
(* Close, in three steps: ticker.Stop and close(pendingReqs); Wait for   *)
(* the running Sends, then conn.Close; close(waitingReqs).                *)

CloseStart ==
    /\ ~crashed
    /\ closer = "open"
    /\ ticker' = "stopped" /\ pendClosed' = TRUE /\ closer' = "waiting"
    /\ UNCHANGED <<conns, cur, rd, pending, waiting, waitClosed, wr, snd, cnt,
                   reply, err, res, working, dials, faults, crashed, served>>

CloseConnection ==
    /\ ~crashed
    /\ closer = "waiting" /\ working = 0
    /\ conns' = [conns EXCEPT ![cur] = CloseConn(@)]
    /\ closer' = "conn_closed"
    /\ UNCHANGED <<cur, rd, pending, pendClosed, waiting, waitClosed, wr, snd,
                   cnt, reply, err, res, working, ticker, dials, faults, crashed, served>>

CloseWaiting ==
    /\ ~crashed
    /\ closer = "conn_closed"
    /\ waitClosed' = TRUE /\ closer' = "closed"
    /\ UNCHANGED <<conns, cur, rd, pending, pendClosed, waiting, wr, snd, cnt,
                   reply, err, res, working, ticker, dials, faults, crashed, served>>

-----------------------------------------------------------------------------
(* The peer and the network.                                               *)

\* The peer answers the oldest request it has read.
Serve(k) ==
    /\ ~crashed /\ k \in DOMAIN conns
    /\ conns[k].st = "open" /\ conns[k].toSrv # <<>>
    /\ conns' = [conns EXCEPT ![k].toSrv = Tail(@),
                              ![k].toCli = Append(@, Head(conns[k].toSrv))]
    /\ served' = served \cup {Head(conns[k].toSrv)}
    /\ UNCHANGED <<cur, rd, pending, pendClosed, waiting, waitClosed, wr, snd,
                   cnt, reply, err, res, working, ticker, closer, dials, faults,
                   crashed>>

\* The connection breaks (reset, or the peer restarts): what was in flight
\* either way is lost.
Fault(k) ==
    /\ ~crashed /\ k \in DOMAIN conns
    /\ conns[k].st = "open" /\ faults < MaxFaults
    /\ conns' = [conns EXCEPT ![k] = [st |-> "broken", toSrv |-> <<>>, toCli |-> <<>>]]
    /\ faults' = faults + 1
    /\ UNCHANGED <<cur, rd, pending, pendClosed, waiting, waitClosed, wr, snd,
                   cnt, reply, err, res, working, ticker, closer, dials, crashed, served>>

-----------------------------------------------------------------------------
\* A panic (crashed) ends the process: every action is guarded by ~crashed.
Next ==
    \/ \E r \in Reqs : Send(r) \/ SendEnqueue(r)
    \/ \E b \in Beats : Tick(b) \/ BeatSend(b)
    \/ \E r \in R : Return(r) \/ Timeout(r)
    \/ Take \/ WriterExits \/ Write \/ Retry \/ Enqueue
    \/ \E k \in ConnIds : Read(k) \/ Finish(k) \/ Serve(k) \/ Fault(k)
    \/ CloseStart \/ CloseConnection \/ CloseWaiting

\* The client's goroutines (Send and doHeartbeat past their Add, the writer,
\* the readers, Close past its first step) run while they are able to, and
\* the timer of WaitWithTimeout fires.  The callers (Send, Close), the
\* ticker and the network are the environment: the peer may never answer.
Fairness ==
    /\ \A r \in Reqs : WF_vars(SendEnqueue(r))
    /\ \A r \in R : WF_vars(Return(r)) /\ WF_vars(Timeout(r))
    /\ \A b \in Beats : WF_vars(BeatSend(b))
    /\ WF_vars(Take) /\ WF_vars(WriterExits) /\ WF_vars(Write)
    /\ WF_vars(Retry) /\ WF_vars(Enqueue)
    /\ \A k \in ConnIds : WF_vars(Read(k)) /\ WF_vars(Finish(k))
    /\ WF_vars(CloseConnection) /\ WF_vars(CloseWaiting)

Spec == Init /\ [][Next]_vars /\ Fairness

\* The same client against a peer that keeps answering: what is written on
\* an open connection is eventually served.
ServedSpec == Spec /\ \A k \in ConnIds : WF_vars(Serve(k))

-----------------------------------------------------------------------------
TypeOK ==
    /\ \A k \in DOMAIN conns :
          /\ conns[k].st \in {"open", "broken", "closed"}
          /\ rd[k].pc \in {"read", "finish", "exited"} /\ rd[k].pay \in Payloads
    /\ cur \in DOMAIN conns
    /\ wr.pc \in {"idle", "write", "retry", "enqueue", "exited"} /\ wr.req \in R
    /\ wr.i \in 0..2
    /\ snd \in [R -> {"new", "enq", "ticked", "wait", "returned"}]
    /\ Len(pending) <= ChanSize /\ Len(waiting) <= ChanSize
    /\ cnt \in [R -> -1..1] /\ err \in [R -> BOOLEAN]
    /\ working \in 0..Cardinality(R)

\* request.waiting.Done() is called at most once per request: doRequest's
\* failure path and finishRequest never both finish the same request, so
\* its WaitGroup counter never goes negative (which panics in sync).
NoDoubleDone == \A r \in R : cnt[r] >= 0

\* A Send that returns an answer of the peer returns the peer's answer to
\* that request: finishRequest pairs the replies of the connection with
\* the heads of waitingReqs in order.
ReplyToOwnRequest ==
    \A r \in Reqs : res[r].k = "srv" => res[r] = Srv(r)

\* A Send that returns "request failed" was never executed by the peer:
\* doRequest gives up only when no write of the request reached a
\* connection, so the caller may safely issue the command again.
FailedNotExecuted == \A r \in Reqs : res[r].k = "failed" => r \notin served

\* Every Send returns (unless a panic ended the process), whatever the peer
\* does: maxWait bounds the wait for the answer, and the sends on the two
\* bounded channels before it must not block for good.
SendReturns ==
    \A r \in Reqs : snd[r] \in {"enq", "wait"} ~> (snd[r] = "returned" \/ crashed)

\* No goroutine sends on a channel Close has closed: neither a heartbeat
\* on pendingReqs nor doRequest on waitingReqs (either panics the process).
NoSendOnClosedChannel == ~crashed
=============================================================================
