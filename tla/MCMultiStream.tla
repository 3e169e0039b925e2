---------------------------- MODULE MCMultiStream ----------------------------
(* Instances of MultiStream: a multistream and one clone of it over two      *)
(* destinations.                                                             *)
EXTENDS MultiStream, TLC

CONSTANTS a, b

Destinations == Permutations({a, b})
=============================================================================
