--------------------------- MODULE MCAuthRequests ---------------------------
(* AuthRequests for TLC: transactions are alike.                           *)
EXTENDS AuthRequests, TLC

Symmetry == Permutations(Handlers)

=============================================================================
