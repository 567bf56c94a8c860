---------------------------- MODULE HttpConnection ----------------------------
(***************************************************************************)
(* One HTTP connection: the client's byte stream, HttpContext's incremental *)
(* parser, HttpServer::onMessage with its keep-alive loop, the            *)
(* dispatch of HttpDispatcher with its middleware, and the asynchronous     *)
(* handlers that answer through an AsyncResponder.  The parser and the      *)
(* dispatch run in the connection's I/O loop, the asynchronous handlers in  *)
(* worker threads; their responses come back as functors of the I/O loop.   *)
(*                                                                         *)
(* The byte stream is cut at the places the parser can tell apart: a       *)
(* request is the start of its request line, the rest of that line, its     *)
(* header block and, for some, a body.                                      *)
(***************************************************************************)
EXTENDS HttpDispatcher, FiniteSets, Functions

CONSTANTS
    MaxRequests,    \* bound: requests the client sends on the connection
    Kinds,          \* the kinds of request that occur
    Eager,          \* the kinds after which the client does not wait for the response
    Alone           \* bound: kinds that are sent as the first request only

\* What the server tells apart: the request for the dispatcher, is there a body,
\* is the connection to be closed afterwards, is the request malformed or over
\* a limit in its request line or in its headers?
AllKinds == [q : Targets, body : BOOLEAN, close : BOOLEAN, bad : {"no", "line", "head"}]

ASSUME MaxRequestsAssumption == MaxRequests \in Nat
ASSUME KindsAssumption == Kinds \cup Alone \subseteq AllKinds

\* What the dispatch of a request can come to.
Outcomes(q) ==
    {dispatch(q, thrown, fails) : thrown \in {0} \cup CanThrow(q), fails \in BOOLEAN}

\* A client that pipelines does so only after requests that are answered at once:
\* responses overtake an asynchronous one (README, section 4).
ASSUME EagerAssumption ==
    /\ Eager \subseteq Kinds
    /\ \A k \in Eager : \A d \in Outcomes(k.q) : ~d.async

VARIABLES
    kind,       \* the kinds of the requests sent so far
    net,        \* pieces on their way to the server
    inbuf,      \* inputBuffer_
    pc,         \* where the I/O loop stands in onMessage
    state,      \* HttpContext::state_
    cur,        \* the request held by the context
    tcp,        \* TcpConnection::state_
    working,    \* requests whose asynchronous handler is running
    completed,  \* requests whose AsyncResponder has been used
    queue,      \* functors queued in the I/O loop: responses to send
    dispatched, \* the requests handed to the dispatcher, in order
    responses,  \* the requests whose response was handed to the connection
    hooks       \* for each request: before() calls that returned, after() calls

httpVars == <<kind, net, inbuf, pc, state, cur, tcp, working, completed, queue,
          dispatched, responses, hooks>>

Requests == 1..MaxRequests

Pieces(r, k) ==
    << <<r, "start">>, <<r, "line">>, <<r, "head">> >>
    \o (IF k.body THEN << <<r, "body">> >> ELSE <<>>)

Answered(r) == r \in Range(responses)

HttpInit ==
    /\ kind = <<>>
    /\ net = <<>>
    /\ inbuf = <<>>
    /\ pc = "idle"
    /\ state = "line"
    /\ cur = 0
    /\ tcp = "connected"
    /\ working = {}
    /\ completed = {}
    /\ queue = <<>>
    /\ dispatched = <<>>
    /\ responses = <<>>
    /\ hooks = [r \in Requests |-> [before |-> 0, after |-> <<>>]]

-----------------------------------------------------------------------------
(* The client.                                                               *)

\* A client waits for the last response, unless it pipelines, and sends no more
\* after it has asked for the connection to be closed.
Ready ==
    LET last == kind[Len(kind)] IN
    kind # <<>> => ~last.close /\ (last \in Eager \/ Answered(Len(kind)))

sendRequest(k) ==
    /\ tcp # "closed"
    /\ Len(kind) < MaxRequests
    /\ Ready
    /\ kind' = Append(kind, k)
    /\ net' = net \o Pieces(Len(kind) + 1, k)
    /\ UNCHANGED <<inbuf, pc, state, cur, tcp, working, completed, queue,
                   dispatched, responses, hooks>>

\* The peer closes: TcpConnection::handleClose.
PeerCloses ==
    /\ pc = "idle"
    /\ tcp # "closed"
    /\ tcp' = "closed"
    /\ net' = <<>>
    /\ UNCHANGED <<kind, inbuf, pc, state, cur, working, completed, queue,
                   dispatched, responses, hooks>>

-----------------------------------------------------------------------------
(* The I/O loop: reading and HttpServer::onMessage.                          *)

\* handleRead appends what arrived, which may end anywhere in a request, to
\* inputBuffer_ and calls onMessage.
handleRead ==
    /\ pc = "idle"
    /\ tcp # "closed"
    /\ \E n \in 1..Len(net) :
         /\ inbuf' = inbuf \o SubSeq(net, 1, n)
         /\ net' = SubSeq(net, n + 1, Len(net))
    /\ pc' = "top"
    /\ UNCHANGED <<kind, state, cur, tcp, working, completed, queue,
                   dispatched, responses, hooks>>

\* while (buf->readableBytes() > 0); a context that still holds a complete
\* request is not parsed again.
onMessage ==
    /\ pc = "top"
    /\ pc' = IF inbuf = <<>> THEN "idle"
             ELSE IF state = "complete" THEN "dispatch" ELSE "parse"
    /\ UNCHANGED <<kind, net, inbuf, state, cur, tcp, working, completed, queue,
                   dispatched, responses, hooks>>

\* send() and shutdown() of TcpConnection: a response is taken only while the
\* connection is connected.
Respond(r, close) ==
    IF tcp = "connected"
    THEN /\ responses' = Append(responses, r)
         /\ tcp' = IF close THEN "disconnecting" ELSE tcp
    ELSE UNCHANGED <<responses, tcp>>

\* sendParseError: the error response closes; what could not be parsed stays in
\* the buffer.
ParseError(r) ==
    /\ Respond(r, TRUE)
    /\ pc' = "idle"
    /\ UNCHANGED <<inbuf, state, cur>>

\* Case kExpectRequestLine: without a CRLF the loop returns and waits for more.
ParseRequestLine ==
    LET r == Head(inbuf)[1] IN
    /\ pc = "parse" /\ state = "line"
    /\ \/ /\ Len(inbuf) < 2
          /\ pc' = "idle"
          /\ UNCHANGED <<inbuf, state, cur, tcp, responses>>
       \/ /\ Len(inbuf) >= 2 /\ kind[r].bad = "line"
          /\ ParseError(r)
       \/ /\ Len(inbuf) >= 2 /\ kind[r].bad # "line"
          /\ inbuf' = SubSeq(inbuf, 3, Len(inbuf))
          /\ state' = "headers"
          /\ cur' = r
          /\ UNCHANGED <<pc, tcp, responses>>
    /\ UNCHANGED <<kind, net, working, completed, queue, dispatched, hooks>>

\* parseHeaders or parseBody has too little data: it returns true without a
\* change of state, and parseRequest calls it again, for ever.
ParserSpins ==
    /\ pc = "parse" /\ state \in {"headers", "body"}
    /\ inbuf = <<>>
    /\ pc' = "spin"
    /\ UNCHANGED <<kind, net, inbuf, state, cur, tcp, working, completed, queue,
                   dispatched, responses, hooks>>

\* Case kExpectHeaders, with the header block in the buffer.
parseHeaders ==
    /\ pc = "parse" /\ state = "headers"
    /\ inbuf # <<>>
    /\ IF kind[cur].bad = "head"
       THEN ParseError(cur)
       ELSE /\ inbuf' = Tail(inbuf)
            /\ state' = IF kind[cur].body THEN "body" ELSE "complete"
            /\ pc' = IF kind[cur].body THEN "parse" ELSE "dispatch"
            /\ UNCHANGED <<cur, tcp, responses>>
    /\ UNCHANGED <<kind, net, working, completed, queue, dispatched, hooks>>

\* Case kExpectBody, with the body in the buffer.
parseBody ==
    /\ pc = "parse" /\ state = "body"
    /\ inbuf # <<>>
    /\ inbuf' = Tail(inbuf)
    /\ state' = "complete"
    /\ pc' = "dispatch"
    /\ UNCHANGED <<kind, net, cur, tcp, working, completed, queue, dispatched,
                   responses, hooks>>

\* HttpContext::reset.
Reset == state' = "line" /\ cur' = 0

\* onRequest for a route with an asynchronous handler, or the static-file
\* fallback: kAsyncPending.  The context is reset and the loop left, with
\* whatever is still in the buffer; after() has to wait.
onRequestAsync ==
    /\ pc = "dispatch"
    /\ \E d \in Outcomes(kind[cur].q) :
         /\ d.async
         /\ hooks' = [hooks EXCEPT ![cur].before = d.before]
    /\ dispatched' = Append(dispatched, cur)
    /\ working' = working \cup {cur}
    /\ Reset
    /\ pc' = "idle"
    /\ UNCHANGED <<kind, net, inbuf, tcp, completed, queue, responses>>

\* Mutant: the loop is left after every response.
onRequestSync_Leaves ==
    /\ pc = "dispatch"
    /\ \E d \in Outcomes(kind[cur].q) : \E failing \in 0..d.before :
         /\ ~d.async
         /\ hooks' = [hooks EXCEPT ![cur].before = d.before,
                                  ![cur].after = @ \o processAfter(d.before, failing)]
    /\ dispatched' = Append(dispatched, cur)
    /\ Respond(cur, kind[cur].close)
    /\ Reset
    /\ pc' = "idle"
    /\ UNCHANGED <<kind, net, inbuf, working, completed, queue>>

\* onRequest that ends at once: a synchronous handler, a hook that stopped the
\* request, 405, or an exception (500).  after() runs and the response is sent.
\* If it closes the connection the loop is left with the context as it is;
\* otherwise the context is reset and the loop goes on.
onRequestSync ==
    /\ pc = "dispatch"
    /\ \E d \in Outcomes(kind[cur].q) : \E failing \in 0..d.before :
         /\ ~d.async
         /\ hooks' = [hooks EXCEPT ![cur].before = d.before,
                                  ![cur].after = @ \o processAfter(d.before, failing)]
    /\ dispatched' = Append(dispatched, cur)
    /\ Respond(cur, kind[cur].close)
    /\ IF kind[cur].close
       THEN pc' = "idle" /\ UNCHANGED <<state, cur>>
       ELSE pc' = "top" /\ Reset
    /\ UNCHANGED <<kind, net, inbuf, working, completed, queue>>

-----------------------------------------------------------------------------
(* Asynchronous responses.                                                   *)

\* Mutant: the responder does not remember that it was used.
AsyncSend_Repeats(r) ==
    /\ r \in working
    /\ completed' = completed \cup {r}
    /\ Len(queue) < MaxRequests
    /\ queue' = Append(queue, r)
    /\ UNCHANGED <<kind, net, inbuf, pc, state, cur, tcp, working, dispatched, responses, hooks>>

\* A worker calls AsyncResponder::send: the first call queues the response in
\* the I/O loop, any other (an error path, say) is refused by the atomic
\* exchange.
AsyncSend(r) ==
    /\ r \in working
    /\ completed' = completed \cup {r}
    /\ queue' = IF r \in completed THEN queue ELSE Append(queue, r)
    /\ UNCHANGED <<kind, net, inbuf, pc, state, cur, tcp, working, dispatched, responses, hooks>>

\* The handler is done with the request.
HandlerReturns(r) ==
    /\ r \in working \cap completed
    /\ working' = working \ {r}
    /\ UNCHANGED <<kind, net, inbuf, pc, state, cur, tcp, completed, queue,
                   dispatched, responses, hooks>>

\* The I/O loop runs the queued functor: nothing if the connection is gone,
\* else after() and the response, closing if the request asked for it.
RunFunctor ==
    LET r == Head(queue) IN
    /\ pc = "idle"
    /\ queue # <<>>
    /\ IF tcp # "connected" THEN UNCHANGED hooks
       ELSE \E failing \in 0..hooks[r].before :
              hooks' = [hooks EXCEPT ![r].after = @ \o processAfter(hooks[r].before, failing)]
    /\ Respond(r, kind[r].close)
    /\ queue' = Tail(queue)
    /\ UNCHANGED <<kind, net, inbuf, pc, state, cur, working, completed, dispatched>>

-----------------------------------------------------------------------------
\* One iteration of the I/O loop cannot be interrupted by anything else.
LoopStep ==
    \/ handleRead \/ onMessage \/ ParseRequestLine \/ ParserSpins \/ parseHeaders
    \/ parseBody
    \/ onRequestSync \/ onRequestAsync \/ RunFunctor

\* Everything was said, or the client stays silent, or the loop is held for ever.
Silent ==
    \/ pc = "idle" /\ net = <<>> /\ queue = <<>> /\ working = {}
    \/ pc = "spin"

HttpNext ==
    \/ \E k \in Kinds : sendRequest(k)
    \/ kind = <<>> /\ \E k \in Alone : sendRequest(k)
    \/ LoopStep
    \/ PeerCloses
    \/ \E r \in Requests : AsyncSend(r) \/ HandlerReturns(r)
    \/ (Silent /\ UNCHANGED httpVars)

HttpSpec == HttpInit /\ [][HttpNext]_httpVars

\* The I/O loop keeps running and every asynchronous handler completes.
HttpFairSpec ==
    /\ HttpSpec
    /\ WF_httpVars(LoopStep)
    /\ \A r \in Requests : WF_httpVars(AsyncSend(r)) /\ WF_httpVars(HandlerReturns(r))

-----------------------------------------------------------------------------
(* Properties.                                                               *)

\* The client gets its responses in the order of its requests, at most one for
\* each: keep-alive responses cannot be told apart otherwise.
ResponsesInOrder ==
    \A i, j \in 1..Len(responses) : i < j => responses[i] < responses[j]

\* Every request the client sent is answered, unless the connection is closed or
\* the parser was caught in the middle of a request.
RequestsAnswered ==
    \A r \in Requests :
        (r <= Len(kind)) ~> (Answered(r) \/ tcp # "connected" \/ pc = "spin")

\* MiddlewareChain.cpp: after() is paired with before() in reverse order.  No
\* request is dispatched twice, and with its response every before() that
\* returned has had its after() once, last one first, whatever threw and
\* whichever thread the response came from; an after() comes never without
\* them all.
HooksPaired ==
    /\ IsInjective(dispatched)
    /\ \A r \in Range(dispatched) :
         LET paired == [i \in 1..hooks[r].before |-> hooks[r].before + 1 - i] IN
         /\ Answered(r) => hooks[r].after = paired
         /\ hooks[r].after \in {<<>>, paired}

\* Whatever request reaches the dispatcher, AuthMiddleware and Router agree on it.
RoutesGuarded == pc = "dispatch" => Guarded(kind[cur].q)
=============================================================================
