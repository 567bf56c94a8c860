-------------------------- MODULE MCHttpConnection --------------------------
(* Requests for the instance.                                                *)
EXTENDS HttpConnection

Target(method, path, bearer, visitor, origin, asks) ==
    [method |-> method, path |-> path, bearer |-> bearer, visitor |-> visitor,
     origin |-> origin, asks |-> asks]

\* Every path of a route, with an id and with an empty one, cut short, with a
\* slash too many or with another last segment; and paths outside of /api/.
Near(path) ==
    {path, Append(path, ""), Append(path, "x")} \cup (IF Len(path) > 1 THEN {Front(path)} ELSE {})

Filled(pattern, id) == [i \in DOMAIN pattern |-> IF pattern[i] = Param THEN id ELSE pattern[i]]

Paths ==
    {<<"">>, <<"index">>, <<"x", "artworks", "x", "likes">>}
    \cup UNION {Near(Filled(Routes[i].pattern, id)) : i \in Registered, id \in {"x", ""}}

AllTargets ==
    {Target(m, p, b, v, "none", "none") : m \in Methods, p \in Paths, b, v \in BOOLEAN}
    \cup {Target("OPTIONS", <<"api", "auth">>, FALSE, FALSE, o, a) :
              o, a \in {"none", "allowed", "other"}}

-----------------------------------------------------------------------------
Scenes == Target("GET", <<"api", "scenes">>, FALSE, FALSE, "none", "none")
Like == Target("POST", <<"api", "artworks", "x", "likes">>, TRUE, FALSE, "none", "none")
File == Target("GET", <<"index">>, FALSE, FALSE, "none", "none")
Denied == [Like EXCEPT !.bearer = FALSE]
Preflight == Target("OPTIONS", <<"api", "auth">>, FALSE, FALSE, "allowed", "allowed")

Kind(q, body, close, bad) == [q |-> q, body |-> body, close |-> close, bad |-> bad]

\* Requests that are answered at once and requests that are not, with and
\* without a body, closing ones, and malformed ones.
MixedKinds ==
    {Kind(Scenes, b, FALSE, "no") : b \in BOOLEAN} \cup {Kind(Scenes, FALSE, TRUE, "no")}
    \cup {Kind(Like, b, b, "no") : b \in BOOLEAN}
    \cup {Kind(q, FALSE, FALSE, "no") : q \in {File, Preflight}}
    \cup {Kind(Denied, FALSE, FALSE, b) : b \in {"no", "line", "head"}}

\* Any request, with a connection of its own.
Singles == {Kind(q, FALSE, TRUE, "no") : q \in AllTargets}

\* Well-formed requests that a synchronous handler answers and that keep the
\* connection open.
SyncKinds == {k \in MixedKinds : k.q = Scenes /\ ~k.close /\ k.bad = "no"}
=============================================================================
