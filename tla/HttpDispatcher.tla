---------------------------- MODULE HttpDispatcher ----------------------------
(***************************************************************************)
(* What happens to one request in the I/O loop: the middleware chain of      *)
(* ARServer, the Router with the routes ARServer registers, and the fallback. *)
(* All of it is determined by the request, up to exceptions.                  *)
(*                                                                         *)
(* A path or pattern is the sequence of its segments, the texts between the   *)
(* slashes: "/api/" is <<"api", "">>.  Of the headers a request has what the   *)
(* middleware asks for: is there a Bearer token, a visitor token, which         *)
(* Origin, and which Access-Control-Request-Method and -Headers?               *)
(***************************************************************************)
EXTENDS Integers, Sequences, SequencesExt

CONSTANTS
    Services,   \* the handlers that exist: "auth" and "artworks" need a database
    Cors,       \* is there an allowed origin, and so a CorsMiddleware?
    Targets     \* the requests that are looked at

Methods == {"GET", "POST", "HEAD", "PUT", "DELETE", "OPTIONS"}

ASSUME ServicesAssumption == Services \subseteq {"auth", "visitors", "scenes", "artworks"}
ASSUME TargetsAssumption ==
    /\ Targets \subseteq
         [method : Methods, path : Seq(STRING), bearer : BOOLEAN, visitor : BOOLEAN,
          origin : {"none", "allowed", "other"},    \* Origin
          asks : {"none", "allowed", "other"}]      \* Access-Control-Request-*
    /\ \A q \in Targets : q.path # <<>>

-----------------------------------------------------------------------------
(* The Router.                                                               *)

Param == ":id"      \* a segment that begins with a colon
isDynamicPattern(pattern) == Param \in ToSet(pattern)

\* The regular expression of a pattern: a parameter stands for one segment that
\* is not empty.
pathMatches(route, path) ==
    /\ Len(path) = Len(route.pattern)
    /\ \A i \in DOMAIN path :
         route.pattern[i] = path[i] \/ (route.pattern[i] = Param /\ path[i] # "")

\* A route, and whose token its handler reads: of nobody, of a user or of a visitor.
Route(service, method, async, reads, pattern) ==
    [service |-> service, method |-> method, async |-> async, reads |-> reads,
     pattern |-> pattern]

\* The routes of ARServer in the order of their registration.
Routes ==
    << Route("auth", "POST", TRUE, "nobody", <<"api", "auth">>),
       Route("auth", "POST", TRUE, "user", <<"api", "auth", "logout">>),
       Route("visitors", "POST", TRUE, "nobody", <<"api", "visitors", "session">>),
       Route("visitors", "POST", TRUE, "visitor", <<"api", "presence", "heartbeat">>),
       Route("visitors", "POST", TRUE, "visitor", <<"api", "presence", "exit">>),
       Route("visitors", "GET", TRUE, "nobody", <<"api", "presence">>),
       Route("visitors", "GET", TRUE, "nobody", <<"api", "statistics", "views">>),
       Route("scenes", "GET", FALSE, "nobody", <<"api", "scenes">>),
       Route("scenes", "GET", FALSE, "nobody", <<"api", "scenes", Param>>),
       Route("artworks", "GET", TRUE, "nobody", <<"api", "artworks", Param>>),
       Route("artworks", "POST", TRUE, "user", <<"api", "artworks", Param, "likes">>),
       Route("artworks", "DELETE", TRUE, "user", <<"api", "artworks", Param, "likes">>),
       Route("artworks", "GET", TRUE, "nobody", <<"api", "artworks", Param, "comments">>),
       Route("artworks", "POST", TRUE, "user", <<"api", "artworks", Param, "comments">>) >>

\* The ones that are registered: their handler exists.
Registered == {i \in DOMAIN Routes : Routes[i].service \in Services}

\* A method and pattern that are registered already are refused; the caller
\* ignores that.
addRoute(i) ==
    ~\E j \in Registered : /\ j < i
                           /\ Routes[j].method = Routes[i].method
                           /\ Routes[j].pattern = Routes[i].pattern

Table == {i \in Registered : addRoute(i)}
dynamicRoutes == {i \in Table : isDynamicPattern(Routes[i].pattern)}
exactRoutes == Table \ dynamicRoutes

\* The routes that compete for a path: if there are exact ones, only these.
Candidates(path) ==
    LET exact == {i \in exactRoutes : Routes[i].pattern = path}
    IN  IF exact # {} THEN exact ELSE {i \in dynamicRoutes : pathMatches(Routes[i], path)}

\* The first candidate with the method, or 0; what there is besides goes into Allow.
route(q) ==
    LET all == Candidates(q.path)
        fit == {i \in all : Routes[i].method = q.method}
    IN  IF fit # {} THEN [match |-> "route", route |-> Min(fit), allowed |-> {}]
        ELSE [match |-> IF all = {} THEN "not found" ELSE "not allowed", route |-> 0,
              allowed |-> {Routes[i].method : i \in all}]

-----------------------------------------------------------------------------
(* The middleware.  before() continues, or stops the request with a status.  *)

Continue == 0

\* CorsMiddleware answers preflight requests.
corsBefore(q) ==
    IF q.method # "OPTIONS" \/ (q.origin = "none" /\ q.asks = "none") THEN Continue
    ELSE IF q.origin = "allowed" /\ q.asks = "allowed" THEN 204 ELSE 403

\* "/api/artworks/" with an id, and then the suffix; an id at the end of the
\* path may be empty.
artworkRoute(path, suffix) ==
    /\ Len(path) >= 3 /\ SubSeq(path, 1, 2) = <<"api", "artworks">>
    /\ path[3] # "" \/ Len(path) = 3
    /\ SubSeq(path, 4, Len(path)) = suffix

\* Mutant: a path below artworks is public whatever follows the id.
isPublicRequest_AnyArtwork(q) ==
    LET p == q.path IN
    \/ ~(Len(p) >= 2 /\ p[1] = "api")
    \/ p \in {<<"api", "auth">>, <<"api", "visitors", "session">>}
    \/ Len(p) >= 3 /\ SubSeq(p, 1, 2) = <<"api", "artworks">>
    \/ /\ q.method = "GET"
       /\ \/ p \in {<<"api", "scenes">>, <<"api", "presence">>, <<"api", "statistics", "views">>}
          \/ Len(p) = 3 /\ SubSeq(p, 1, 2) = <<"api", "scenes">>

isPublicRequest(q) ==
    LET p == q.path IN
    \/ ~(Len(p) >= 2 /\ p[1] = "api")
    \/ p \in {<<"api", "auth">>, <<"api", "visitors", "session">>}
    \/ /\ q.method = "GET"
       /\ \/ p \in {<<"api", "scenes">>, <<"api", "presence">>, <<"api", "statistics", "views">>}
          \/ Len(p) = 3 /\ SubSeq(p, 1, 2) = <<"api", "scenes">>
          \/ artworkRoute(p, <<>>) \/ artworkRoute(p, <<"comments">>)

\* AuthMiddleware wants a token where there is something to protect; whether
\* it is valid is for the handler to find out.
authBefore(q) ==
    LET ofVisitor == q.path \in {<<"api", "presence", "heartbeat">>, <<"api", "presence", "exit">>}
        ofUser ==
            \/ /\ q.method = "POST"
               /\ \/ q.path = <<"api", "auth", "logout">>
                  \/ artworkRoute(q.path, <<"likes">>) \/ artworkRoute(q.path, <<"comments">>)
            \/ q.method = "DELETE" /\ artworkRoute(q.path, <<"likes">>)
    IN  IF isPublicRequest(q) \/ (ofVisitor /\ q.visitor) \/ (ofUser /\ q.bearer)
        THEN Continue ELSE 401

\* CorsMiddleware, if there is one, then RequestIdMiddleware and
\* AccessLogMiddleware, which never stop a request, then AuthMiddleware.
Chain == (IF Cors THEN <<"cors">> ELSE <<>>) \o <<"requestId", "accessLog", "auth">>

before(h, q) ==
    CASE h = "cors" -> corsBefore(q) [] h = "auth" -> authBefore(q) [] OTHER -> Continue

\* The first hook that stops the request, or 0.
Stops(q) ==
    SelectInSeq(Chain, LAMBDA h : before(h, q) # Continue)

\* Mutant: an exception ends the round of after(), not only the one call.
processAfter_GivesUp(n, failing) ==
    SelectSeq([i \in 1..n |-> n + 1 - i], LAMBDA i : i >= failing)

\* after() of the hooks 1..n that were executed, in reverse order, each of them
\* even if the one that is failing (0 for none) throws.
processAfter(n, failing) == [i \in 1..n |-> n + 1 - i]

-----------------------------------------------------------------------------
\* What comes of a match m: the handler or the fallback is called, or there is none.
callHandler(d, m, fails) ==
    IF m.match = "not allowed" THEN [d EXCEPT !.status = 405]
    ELSE IF fails THEN [d EXCEPT !.route = m.route, !.status = 500]
    ELSE IF m.match = "not found" THEN [d EXCEPT !.async = TRUE]
    ELSE [d EXCEPT !.route = m.route, !.async = Routes[m.route].async]

\* HttpDispatcher::dispatch up to after(): the number of hooks executed, the
\* route, the status of the response, and whether the answer comes later.  thrown
\* is the hook whose before() throws, or 0; fails says that the handler
\* throws, an asynchronous one before its responder is with anybody else.
dispatch(q, thrown, fails) ==
    LET stop == Stops(q)
        d == [before |-> Len(Chain), route |-> 0, status |-> 200, async |-> FALSE]
    IN  IF thrown > 0 THEN [d EXCEPT !.before = thrown - 1, !.status = 500]
        ELSE IF stop > 0
        THEN [d EXCEPT !.before = stop, !.status = before(Chain[stop], q)]
        ELSE callHandler(d, route(q), fails)

\* The hooks that can throw: up to the one that stops.
CanThrow(q) == 1..(IF Stops(q) > 0 THEN Stops(q) ELSE Len(Chain))

-----------------------------------------------------------------------------
(* What is expected of the dispatch of a request.                            *)

\* The route's pattern and method fit, and the token that its handler reads is there.
Fits(r, q) == r.method = q.method /\ pathMatches(r, q.path)
Entitled(r, q) ==
    (r.reads = "user" => q.bearer) /\ (r.reads = "visitor" => q.visitor)

\* AuthMiddleware, which repeats the routes as tests of the path, and the Router
\* agree on a request whose dispatch comes to d: no handler that reads a token is
\* called without one, no request that a handler would take is refused, no route
\* hides another, and Allow names the methods that would do.
Agree(q, d) ==
    /\ d.route # 0 => Fits(Routes[d.route], q) /\ Entitled(Routes[d.route], q)
    /\ \A i \in Registered : Fits(Routes[i], q) /\ Entitled(Routes[i], q) => d.route = i
    /\ d.status = 405 =>
         \A m \in Methods : m \in route(q).allowed <=>
             \E i \in Registered : Fits(Routes[i], [q EXCEPT !.method = m])

\* They agree on q, if nothing throws.
Guarded(q) == Agree(q, dispatch(q, 0, FALSE))
=============================================================================
