-------------------------- MODULE MCPageTransport --------------------------
EXTENDS PageTransportInvariant, TLC

CONSTANTS small, large

(* small pages share a response, a large one exceeds the limit by itself.  *)
BytesDef == [p \in Page |-> IF p = large THEN 3 ELSE 1]

Symmetry == Permutations(Request)
=============================================================================
