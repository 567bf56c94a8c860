---------------------------- MODULE MCStaticFiles ----------------------------
(* Files, versions and requests for the instance.                            *)
EXTENDS StaticFiles

CONSTANTS page, icon, logo

Version(exists, mtime, size) == [exists |-> exists, ino |-> 1, mtime |-> mtime, size |-> size]

\* A file, its deletion, in the same second a large one and one that looks like
\* the first, and later a short one.
History == << Version(TRUE, 1, 3), Version(FALSE, 1, 0), Version(TRUE, 1, 4),
              Version(TRUE, 1, 3), Version(TRUE, 2, 1) >>

\* One file changes; the others only compete with it for a place in L1.
First == (page :> 1) @@ (icon :> 5) @@ (logo :> 5)
OneSlice == [k \in Keys |-> 0]
Interchangeable == Permutations(Threads) \cup Permutations(Keys \ {page})

Request(path, head, cached, match, since, range) ==
    [path |-> path, head |-> head, cached |-> cached, match |-> match, since |-> since,
     range |-> range]

Asked ==
    {Request(p, FALSE, FALSE, 0, -1, <<>>) : p \in {"bad", "outside"}}
    \cup {Request(page, FALSE, TRUE, 0, -1, r) : r \in {<<>>, <<2, 5>>}}
    \cup {Request(page, FALSE, FALSE, 0, -1, <<2, 1>>), Request(page, TRUE, FALSE, 0, 1, <<-1, 2>>),
          Request(page, FALSE, FALSE, 3, -1, <<2, -1>>)}
=============================================================================
