----------------------------- MODULE MCTransport -----------------------------
(* An instance of Transport: a target of its own, and two of which one may be *)
(* a pipeline and either may have a level.                                    *)
EXTENDS Transport, TLC

CONSTANTS t, p

Opt(form, level, pipelines, dedupe, autoEnd) ==
    [form |-> form, level |-> level, pipelines |-> pipelines, dedupe |-> dedupe,
     autoEnd |-> autoEnd]

Alone(form, level, pipelines) == Opt(form, t :> level, pipelines, FALSE, TRUE)

MCOptions ==
    {Alone("target", Absent, {}), Alone("targets", Absent, {}), Alone("targets", 50, {}),
     Alone("pipeline", Absent, {t}), Alone("pipeline", 50, {t})}
      \cup {Opt("targets", t :> Absent @@ p :> 50, {p}, dedupe, autoEnd) :
                dedupe \in BOOLEAN, autoEnd \in BOOLEAN}
=============================================================================
