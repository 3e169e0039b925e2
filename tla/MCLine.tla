------------------------------- MODULE MCLine -------------------------------
(* An instance of Line: the keys of the line itself, `err`, and one more;   *)
(* the key of errors is another than `err`; paths of one segment, and paths *)
(* of two and three with wildcards in each place.                           *)
EXTENDS Line

CONSTANTS a, level, error, err, m

MCKey == {a, level, error, err, m}
Segments == {a, error, m, Star}

MCPaths ==
    {<<s>> : s \in Segments} \cup {<<s, t>> : s \in {a, error, Star}, t \in {a, error}}
        \cup {<<m, Star>>, <<a, Star, error>>, <<Star, Star, a>>}

MCPlace == UNION {[1 .. n -> {a, error, m}] : n \in 1 .. 3}

Format == [nested |-> FALSE, serializers |-> << >>, mixin |-> {}]

\* Without any; with a mixin that has a key of the line; nested, with a mixin;
\* with serializers that give nothing, one of them that of errors.
MCFormats ==
    {Format,
     [Format EXCEPT !.mixin = {a, level}],
     [Format EXCEPT !.nested = TRUE, !.mixin = {a}],
     [Format EXCEPT !.serializers = [k \in {a, m} |-> "nothing"]],
     [Format EXCEPT !.serializers = [k \in {err} |-> "nothing"]]}

MCObjects == {{}, {a}, {a, error}, {a, level, m}, {error, m}}
MCBoundObjects == {{a, level}, {a, error, m}}
=============================================================================
