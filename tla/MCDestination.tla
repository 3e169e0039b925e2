--------------------------- MODULE MCDestination ----------------------------
(* An instance of Destination: two destinations that are alike, so that one  *)
(* can be registered behind the other.                                       *)
EXTENDS Destination, TLC

CONSTANTS d1, d2

Alike == Permutations({d1, d2})
MCDest == {d1, d2}
=============================================================================
