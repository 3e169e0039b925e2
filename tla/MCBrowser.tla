----------------------------- MODULE MCBrowser ------------------------------
(* An instance of Browser: a root and two more loggers, which become two    *)
(* children or a child and a grandchild.                                    *)
EXTENDS Browser, TLC

CONSTANTS root, c1, c2

Children == Permutations({c1, c2})
MCLogger == {root, c1, c2}
MCInfinity == 1000

Option ==
    [level |-> "info", enabled |-> TRUE, customLevels |-> << >>, transmit |-> Absent,
     asObject |-> FALSE]

\* Without transmit; with it and a level above, below or without one; a custom
\* level between standard ones and one with the value 0; objects for the console.
MCOptions ==
    {Option,
     [Option EXCEPT !.customLevels = [foo |-> 35, zero |-> 0], !.asObject = TRUE],
     [Option EXCEPT !.transmit = [level |-> Absent]],
     [Option EXCEPT !.transmit = [level |-> "warn"], !.asObject = TRUE],
     [Option EXCEPT !.transmit = [level |-> "info"], !.enabled = FALSE]}
=============================================================================
