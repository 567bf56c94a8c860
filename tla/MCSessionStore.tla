--------------------------- MODULE MCSessionStore ---------------------------
(* Two or three calls that race on one issued token, beside one made-up      *)
(* token.  Tokens are independent of each other, so that one issued token     *)
(* shows every race.                                                         *)
EXTENDS SessionStore, TLC

\* Calls are interchangeable.
CallSymmetry == Permutations(Calls)
=============================================================================
