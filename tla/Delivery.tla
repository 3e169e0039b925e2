------------------------------ MODULE Delivery ------------------------------
(***************************************************************************)
(* What a transport promises: every line it accepts is written out by each *)
(* destination it is for, once and in the order it was accepted, before    *)
(* the process is gone; unless the promise is excused.                     *)
(***************************************************************************)
EXTENDS Naturals, SequencesExt

CONSTANT Dest

VARIABLES
    lines,      \* for each accepted line the destinations it is for
    out,        \* destination -> the numbers of the lines it wrote out
    over,       \* the process is gone
    excused     \* something went wrong, or the application ends it itself

vars == <<lines, out, over, excused>>

\* The line d has to write out next is number i.
IsNext(d, i) ==
    /\ i \in 1 .. Len(lines) /\ d \in lines[i]
    /\ \A j \in 1 .. (i - 1) : d \in lines[j] => Contains(out[d], j)
    /\ ~Contains(out[d], i)

Init ==
    /\ lines = << >>
    /\ out = [d \in Dest |-> << >>]
    /\ over = FALSE
    /\ excused = FALSE

Accept(ds) ==
    /\ ~over
    /\ lines' = Append(lines, ds)
    /\ UNCHANGED <<out, over, excused>>

WriteOut(d) ==
    /\ ~over
    /\ \E i \in 1 .. Len(lines) :
          IsNext(d, i) /\ out' = [out EXCEPT ![d] = Append(@, i)]
    /\ UNCHANGED <<lines, over, excused>>

Excuse ==
    /\ excused' = TRUE
    /\ UNCHANGED <<lines, out, over>>

Leave ==
    /\ excused \/ \A d \in Dest, i \in 1 .. Len(lines) : ~IsNext(d, i)
    /\ over' = TRUE
    /\ UNCHANGED <<lines, out, excused>>

Next ==
    \/ \E ds \in SUBSET Dest : Accept(ds)
    \/ \E d \in Dest : WriteOut(d)
    \/ Excuse
    \/ Leave

Spec == Init /\ [][Next]_vars
=============================================================================
