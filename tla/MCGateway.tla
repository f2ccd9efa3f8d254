----------------------------- MODULE MCGateway ------------------------------
(* Constants for model-checking Gateway.tla.                               *)
EXTENDS Gateway, TLC

CONSTANTS k1, k2, x1, x2

(* Sessions are interchangeable; so are the sockets.                       *)
Symmetry == Permutations({k1, k2}) \union Permutations({x1, x2})
=============================================================================
