------------------------------ MODULE MCVisitor ------------------------------
(* Visitor for TLC.  Calls, ids and tokens are interchangeable: no definition *)
(* and no property names one of them.                                         *)
EXTENDS Visitor, TLC

Symmetry == Permutations(Calls) \cup Permutations(Ids) \cup Permutations(Tokens)

=============================================================================
