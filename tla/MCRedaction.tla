---------------------------- MODULE MCRedaction -----------------------------
(* An instance of Redaction alone: three keys; all paths of one segment, and *)
(* paths of two and three with wildcards in each place.                     *)
EXTENDS Redaction

CONSTANTS a, b, m

MCKey == {a, b, m}
Segments == MCKey \cup {Star}

MCPaths ==
    {<<s>> : s \in Segments} \cup {<<s, t>> : s \in {a, b, Star}, t \in {a, b}}
        \cup {<<m, Star>>, <<a, Star, b>>, <<Star, Star, a>>}

MCPlace == UNION {[1 .. n -> MCKey] : n \in 1 .. 3}
=============================================================================
