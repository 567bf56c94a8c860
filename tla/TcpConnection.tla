---------------------------- MODULE TcpConnection ----------------------------
(***************************************************************************)
(* The sending side and the lifetime of one TcpConnection, as              *)
(* HttpServer::sendResponse uses it: a response is a block of header bytes  *)
(* handed to send(), possibly a range of a file handed to sendFile(), and   *)
(* possibly a shutdown().  Everything runs in the connection's I/O loop, so *)
(* that a handler is one action; what varies is how much the kernel takes.  *)
(*                                                                         *)
(* A unit on the wire is <<r, part, i>>: the i-th unit of the header or of  *)
(* the file of response r.                                                  *)
(***************************************************************************)
EXTENDS Integers, Sequences

CONSTANTS
    MaxResponses,   \* bound: responses sent on the connection
    HeaderLen,      \* units of a header block (with its in-memory body)
    FileLens        \* the file lengths that occur; {} if no file is served

ASSUME MaxResponsesAssumption == MaxResponses \in Nat
ASSUME HeaderLenAssumption == HeaderLen \in Nat \ {0}
ASSUME FileLensAssumption == FileLens \subseteq Nat

VARIABLES
    conn,       \* the TcpConnection object and its socket
    sent,       \* the responses taken so far: for each its file's length, or -1
    life,       \* what TcpServer still has to do with the connection
    reset       \* the peer has reset the TCP connection

vars == <<conn, sent, life, reset>>

Responses == 1..MaxResponses
NoFile == [r |-> 0, offset |-> 0, remaining |-> 0]
Block(r, part, from, n) == [i \in 1..n |-> <<r, part, from + i>>]

Init ==
    /\ conn = [state |-> "connecting", writing |-> FALSE, out |-> <<>>,
               file |-> NoFile, wire |-> <<>>, half |-> FALSE, torn |-> FALSE,
               opened |-> {}, closes |-> [r \in Responses |-> 0]]
    /\ sent = <<>>
    /\ life = "new"
    /\ reset = FALSE

-----------------------------------------------------------------------------
(* The member functions, as functions of the connection record c.  k and m   *)
(* say how many units a write or a sendfile puts on the wire.                 *)

Connected(c) == c.state = "connected"
HasFile(c) == c.file.r # 0

\* torn records that a file was closed before its end.
closePendingFile(c) ==
    IF HasFile(c)
    THEN [c EXCEPT !.closes[c.file.r] = @ + 1, !.file = NoFile,
                   !.torn = @ \/ c.file.remaining > 0]
    ELSE c

\* The kernel takes the first k units of data.
Accept(c, data, k) == [c EXCEPT !.wire = @ \o SubSeq(data, 1, k)]

\* Mutant: data is written directly although older data is still buffered.
sendInLoop_Overtakes(c, data, k) ==
    IF k = -1 THEN c
    ELSE [Accept(c, data, k) EXCEPT
            !.out = @ \o SubSeq(data, k + 1, Len(data)),
            !.writing = @ \/ k < Len(data)]

\* sendInLoop: a direct write when nothing waits before it, the rest into
\* outputBuffer_ with EPOLLOUT enabled.  k = -1 is EPIPE or ECONNRESET: the data
\* is dropped.
sendInLoop(c, data, k) ==
    IF ~c.writing /\ c.out = <<>>
    THEN IF k = -1 THEN c
         ELSE [Accept(c, data, k) EXCEPT
                 !.out = SubSeq(data, k + 1, Len(data)),
                 !.writing = k < Len(data)]
    ELSE [c EXCEPT !.out = @ \o data, !.writing = TRUE]

\* sendPendingFile: one sendfile call, when no buffered data is before it.
\* m = -1 is an error other than EAGAIN: the rest of the file is given up.
sendPendingFile(c, m) ==
    IF ~HasFile(c) \/ c.out # <<>> THEN c
    ELSE LET n == IF m = -1 THEN 0 ELSE m
             s == [c EXCEPT !.wire = @ \o Block(c.file.r, "file", c.file.offset, n),
                            !.file = [r |-> @.r, offset |-> @.offset + n,
                                      remaining |-> @.remaining - n]]
             e == IF s.file.remaining = 0 \/ m = -1
                  THEN closePendingFile(s)
                  ELSE s
         IN  [e EXCEPT !.writing = @ /\ HasFile(e)]

\* Mutant: the descriptor of a file that is still pending is overwritten.
sendFileInLoop_Leaks(c, r, len, m) ==
    LET d == [c EXCEPT !.file = [r |-> r, offset |-> 0, remaining |-> len],
                       !.writing = TRUE]
    IN  IF d.out = <<>> THEN sendPendingFile(d, m) ELSE d

\* sendFileInLoop: takes the descriptor over, closing the one it still holds.
sendFileInLoop(c, r, len, m) ==
    LET d == [closePendingFile(c) EXCEPT
                !.file = [r |-> r, offset |-> 0, remaining |-> len],
                !.writing = TRUE]
    IN  IF d.out = <<>> THEN sendPendingFile(d, m) ELSE d

\* Mutant: the half-close does not wait for the output.
shutdownInLoop_Eager(c) == [c EXCEPT !.half = TRUE]

\* shutdownInLoop: half-close unless EPOLLOUT is still wanted.
shutdownInLoop(c) == IF c.writing THEN c ELSE [c EXCEPT !.half = TRUE]

shutdown(c) ==
    IF Connected(c)
    THEN shutdownInLoop([c EXCEPT !.state = "disconnecting"])
    ELSE c

\* Mutant: EPOLLOUT is disabled as soon as the buffer is empty.
FlushOutput_ForgetsFile(c, k, m) ==
    LET w == [Accept(c, c.out, k) EXCEPT !.out = SubSeq(c.out, k + 1, Len(c.out))]
        f == [sendPendingFile(w, m) EXCEPT !.writing = FALSE]
    IN  IF w.out # <<>> THEN w
        ELSE IF f.state = "disconnecting" THEN shutdownInLoop(f) ELSE f

\* handleWrite with k > 0 units taken: the buffer first, then the file; a
\* connection that is shutting down is half-closed when both are done.
FlushOutput(c, k, m) ==
    LET w == [Accept(c, c.out, k) EXCEPT !.out = SubSeq(c.out, k + 1, Len(c.out))]
        s == sendPendingFile(w, m)
        f == [s EXCEPT !.writing = @ /\ HasFile(s)]
    IN  IF w.out # <<>> THEN w
        ELSE IF f.state = "disconnecting" THEN shutdownInLoop(f) ELSE f

-----------------------------------------------------------------------------
(* Outcomes the kernel may choose.                                           *)

WriteOutcomes(n) == IF reset THEN {-1} ELSE 0..n
SendfileOutcomes(n) == IF reset THEN {-1} ELSE -1..n

-----------------------------------------------------------------------------
(* Actions.                                                                  *)

connectEstablished ==
    /\ life = "new"
    /\ life' = "up"
    /\ conn' = [conn EXCEPT !.state = "connected"]
    /\ UNCHANGED <<sent, reset>>

\* HttpServer::sendResponse (sendParseError is the case without a file that
\* closes): header, file, shutdown.  On a connection that is no longer connected
\* the header is dropped and the file opened for nothing is closed.  A response
\* that is sent while the file of the last one is pending tears the latter.
sendResponse(len, close) ==
    LET r == Len(sent) + 1
        header == Block(r, "header", 0, HeaderLen)
        opened == IF len >= 0 THEN [conn EXCEPT !.opened = @ \cup {r}] ELSE conn
    IN
    /\ life = "up"
    /\ r \in Responses
    /\ \/ /\ ~Connected(conn)
          /\ conn' = IF len >= 0 THEN [opened EXCEPT !.closes[r] = @ + 1] ELSE conn
          /\ sent' = Append(sent, -1)
       \/ /\ Connected(conn)
          /\ \E k \in WriteOutcomes(HeaderLen) :
             \E m \in SendfileOutcomes(IF len >= 0 THEN len ELSE 0) :
               LET o == [opened EXCEPT !.torn = @ \/ HasFile(conn)]
                   h == sendInLoop(o, header, k)
                   f == IF len >= 0 THEN sendFileInLoop(h, r, len, m) ELSE h
               IN  conn' = IF close THEN shutdown(f) ELSE f
          /\ sent' = Append(sent, len)
    /\ UNCHANGED <<life, reset>>

\* Mutant: a connection that is shutting down is not written to any more.
handleWrite_NotDisconnecting ==
    /\ life = "up"
    /\ Connected(conn)
    /\ conn.writing
    /\ conn.out # <<>>
    /\ \E k \in WriteOutcomes(Len(conn.out)) \ {-1, 0} :
       \E m \in SendfileOutcomes(conn.file.remaining) :
         conn' = FlushOutput(conn, k, m)
    /\ UNCHANGED <<sent, life, reset>>

\* EPOLLOUT with something in outputBuffer_ to write.
handleWrite ==
    /\ life = "up"
    /\ conn.writing
    /\ conn.out # <<>>
    /\ \E k \in WriteOutcomes(Len(conn.out)) \ {-1, 0} :
       \E m \in SendfileOutcomes(conn.file.remaining) :
         conn' = FlushOutput(conn, k, m)
    /\ UNCHANGED <<sent, life, reset>>

\* EPOLLOUT with an empty outputBuffer_: write() of nothing returns 0, which is
\* logged as an error; a pending file is not continued.
handleWriteEmpty ==
    /\ life = "up"
    /\ conn.writing
    /\ conn.out = <<>>
    /\ UNCHANGED vars

PeerReset ==
    /\ life = "up"
    /\ reset' = TRUE
    /\ UNCHANGED <<conn, sent, life>>

\* The peer closes (read returns 0, or EPOLLHUP): the loop gives up the output
\* and asks the main loop to remove the connection.
handleClose ==
    /\ life = "up"
    /\ conn' = [closePendingFile(conn) EXCEPT !.state = "disconnected",
                                             !.writing = FALSE]
    /\ life' = "closing"
    /\ UNCHANGED <<sent, reset>>

\* Main loop: TcpServer::removeConnectionInLoop erases the map entry and queues
\* connectDestroyed in the I/O loop.
removeConnectionInLoop ==
    /\ life = "closing"
    /\ life' = "removed"
    /\ UNCHANGED <<conn, sent, reset>>

\* I/O loop; the last reference is dropped and the destructor runs.
connectDestroyed ==
    /\ life = "removed"
    /\ conn' = closePendingFile(conn)
    /\ life' = "destroyed"
    /\ UNCHANGED <<sent, reset>>

Destroyed == life = "destroyed" /\ UNCHANGED vars

Next ==
    \/ connectEstablished
    \/ \E len \in FileLens \cup {-1}, close \in BOOLEAN : sendResponse(len, close)
    \/ handleWrite \/ handleWriteEmpty
    \/ PeerReset \/ handleClose \/ removeConnectionInLoop \/ connectDestroyed
    \/ Destroyed

Spec == Init /\ [][Next]_vars

\* The peer keeps reading and epoll is level-triggered: as long as EPOLLOUT is
\* enabled and the buffer is not empty, some of it is eventually taken.
FairSpec == Spec /\ WF_vars(handleWrite)

-----------------------------------------------------------------------------
(* Properties.                                                               *)

\* EPOLLOUT is enabled exactly while something waits to be sent: never a busy
\* loop over nothing, never output that nothing will pick up.
WritingIffOutput ==
    life = "up" => (conn.writing <=> conn.out # <<>> \/ HasFile(conn))

\* shutdown() lets the output finish: the socket is half-closed only when
\* neither buffered bytes nor a pending file are left.
ShutdownAfterOutput == conn.half => conn.out = <<>> /\ ~HasFile(conn)

\* Every file descriptor that sendResponse opens is closed exactly once, or
\* still held by pendingFile_; the latter never after the destructor.
DescriptorsOwned ==
    /\ \A r \in Responses :
         conn.closes[r] = IF r \in conn.opened /\ conn.file.r # r THEN 1 ELSE 0
    /\ life = "destroyed" => ~HasFile(conn)

\* What follows unit u in the stream of the responses ss: the rest of its header
\* or file, then the file of its response, then the header of the next one.
Following(ss, u) ==
    IF u[3] < (IF u[2] = "header" THEN HeaderLen ELSE ss[u[1]])
    THEN <<u[1], u[2], u[3] + 1>>
    ELSE IF u[2] = "header" /\ ss[u[1]] > 0 THEN <<u[1], "file", 1>>
    ELSE <<u[1] + 1, "header", 1>>

\* The unit that is due after those of s.
Due(ss, s) == IF s = <<>> THEN <<1, "header", 1>> ELSE Following(ss, s[Len(s)])

\* s begins the stream of the responses ss.
Begins(ss, s) ==
    \A i \in 1..Len(s) :
        /\ s[i][1] \in 1..Len(ss)
        /\ s[i] = IF i = 1 THEN <<1, "header", 1>> ELSE Following(ss, s[i - 1])

\* The peer sees a prefix of the responses in the order in which they were
\* sent, no byte of one inside another and none missing in between, as long as
\* no file was given up after an error and none was pending when the next
\* response was sent.
StreamIntact == ~conn.torn => Begins(sent, conn.wire)

\* Buffered output leaves, unless the connection goes away.
OutputDrains ==
    conn.out # <<>> ~> (conn.out = <<>> \/ reset \/ life # "up")

-----------------------------------------------------------------------------
(* The inductive invariant.                                                  *)

Units == Nat \X {"header", "file"} \X Nat

ConnType ==
    [state : {"connecting", "connected", "disconnecting", "disconnected"},
     writing : BOOLEAN, out : Seq(Units),
     file : [r : Nat, offset : Nat, remaining : Nat],
     wire : Seq(Units), half : BOOLEAN, torn : BOOLEAN,
     opened : SUBSET Responses, closes : [Responses -> Nat]]

TypeOK ==
    /\ conn \in ConnType
    /\ sent \in Seq(Int)
    /\ life \in {"new", "up", "closing", "removed", "destroyed"}
    /\ reset \in BOOLEAN

\* EPOLLOUT is enabled exactly while something waits to be sent.
Writes(c) == c.writing <=> c.out # <<>> \/ HasFile(c)

\* A half-closed socket has nothing to send, and is not used for more.
Quiet(c) == c.half => c.out = <<>> /\ ~HasFile(c) /\ ~Connected(c)

\* Every descriptor but the one at hand is closed once, or pending.
Owned(c, hand) ==
    /\ \A r \in Responses :
         c.closes[r] = IF r \in c.opened /\ c.file.r # r /\ r # hand THEN 1 ELSE 0
    /\ HasFile(c) => c.file.r \in c.opened

\* While nothing has been dropped, what is on the wire and in the buffer begins the
\* stream; the rest of the pending file, or the next response, is due after it.
Flow(c, ss) ==
    LET all == c.wire \o c.out
        f == c.file
    IN
    /\ Begins(ss, all)
    /\ HasFile(c) =>
         /\ f.r \in 1..Len(ss)
         /\ Connected(c) => f.r = Len(ss)
         /\ f.offset + f.remaining = ss[f.r]
         /\ Due(ss, all) = IF f.remaining > 0 THEN <<f.r, "file", f.offset + 1>>
                           ELSE <<f.r + 1, "header", 1>>
    /\ Connected(c) /\ ~HasFile(c) => Due(ss, all) = <<Len(ss) + 1, "header", 1>>

SInv ==
    /\ ~conn.torn => Begins(sent, conn.wire) /\ (~reset => Flow(conn, sent))
    /\ life = "new" => conn.wire = <<>> /\ conn.out = <<>> /\ sent = <<>> /\ ~HasFile(conn)
                       /\ ~Connected(conn)

IInv ==
    /\ TypeOK
    /\ life \in {"new", "up"} => Writes(conn)
    /\ life = "new" => ~conn.half
    /\ life \notin {"new", "up"} => ~HasFile(conn)
    /\ Quiet(conn)
    /\ Owned(conn, 0)
    /\ conn.opened \subseteq 1..Len(sent)

=============================================================================
