------------------------------ MODULE Redaction ------------------------------
(***************************************************************************)
(* Redaction of values by path: lib/redaction.js, and the redactor a line  *)
(* takes for a key (lib/tools.js); the line itself is in Line.             *)
(*                                                                         *)
(* redaction() goes through the listed paths one by one and builds a       *)
(* shape: for the first segment of each path either null, the whole value  *)
(* is censored, or the paths that apply below it.  A line then looks up    *)
(* each of its keys in the shape by itself, the wildcard's entry being     *)
(* used only for keys that have no entry, so the reduction has to copy     *)
(* the paths of the wildcard into the entries of all other segments, in    *)
(* whatever order the paths come.                                          *)
(*                                                                         *)
(* A path is the sequence of its segments (the regular expression that     *)
(* splits it and the quotes it removes are left out), a place is the       *)
(* sequence of keys that leads to a value of an object.  What @pinojs/redact*)
(* does with a list of paths is external: it hides the places that one of  *)
(* the paths matches.                                                      *)
(***************************************************************************)
EXTENDS Naturals, Sequences, FiniteSets

CONSTANTS
    Key,            \* keys of objects
    Star,           \* the segment `*`
    Paths,          \* the paths an application may list
    Place,          \* the places values may be at
    MaxPaths        \* bound: paths listed

VARIABLES
    listed,         \* the paths reduced so far
    keys,           \* own keys of the shape
    whole,          \* the keys whose entry is null
    below,          \* the paths in the arrays of the others
    remove,         \* `redact.remove`, or a censor that returns undefined
    built           \* redaction() has returned

shape == <<keys, whole, below>>
vars == <<listed, keys, whole, below, remove, built>>

Name == Key \cup {Star}

ASSUME RedactionAssumption ==
    /\ Star \notin Key
    /\ Paths \subseteq Seq(Name) \ {<< >>}
    /\ Place \subseteq Seq(Key) \ {<< >>}

-----------------------------------------------------------------------------
\* @pinojs/redact: a path matches a place and everything below it.
Matches(path, place) ==
    /\ Len(path) <= Len(place)
    /\ \A i \in 1 .. Len(path) : path[i] \in {Star, place[i]}

\* The redactor of an object interpolated into the message
\* (stringifiers[redactFmtSym]) is given all the paths: it is what the paths mean.
Matched(place) == \E path \in listed : Matches(path, place)

-----------------------------------------------------------------------------
\* The reduction.

\* Mutant for PathsApply: a segment seen for the first time starts empty.
EntryWithoutWildcard(ns) == below[ns]

\* o[ns] before the path's own rest is pushed: a literal segment seen for the
\* first time starts with the paths of the wildcard so far.
EntryOf(ns) == IF ns # Star /\ ns \notin keys THEN below[Star] ELSE below[ns]

\* Mutant for OnlyPathsApply: a path of a literal is pushed to all other entries
\* as well.
SharesEntryWithAll(ns, k) == k \in keys \ whole

\* The entries besides its own that a path is pushed to: with a new path of the
\* wildcard all the literal ones there are.
SharesEntryWith(ns, k) == ns = Star /\ k \in keys \ whole

\* A path of one segment: the entry is null, whatever it was.
AddTop(path) ==
    /\ Len(path) = 1
    /\ keys' = keys \cup {path[1]}
    /\ whole' = whole \cup {path[1]}
    /\ below' = [below EXCEPT ![path[1]] = {}]

\* A longer path below a segment that is redacted as a whole is dropped.
Ignore(path) ==
    /\ Len(path) > 1
    /\ path[1] \in whole
    /\ UNCHANGED shape

AddBelow(path) ==
    LET ns == path[1]
    IN  /\ Len(path) > 1
        /\ ns \notin whole
        /\ keys' = keys \cup {ns}
        /\ below' = [k \in Name |->
              IF k = ns THEN EntryOf(ns) \cup {Tail(path)}
              ELSE IF SharesEntryWith(ns, k) THEN below[k] \cup {Tail(path)}
              ELSE below[k]]
        /\ UNCHANGED whole

\* One step of paths.reduce.
Reduce(path) ==
    /\ ~built
    /\ Cardinality(listed) < MaxPaths
    /\ listed' = listed \cup {path}
    /\ AddTop(path) \/ Ignore(path) \/ AddBelow(path)
    /\ UNCHANGED <<remove, built>>

\* The redactors are made from the shape, once.
Build ==
    /\ ~built
    /\ built' = TRUE
    /\ UNCHANGED <<listed, shape, remove>>

-----------------------------------------------------------------------------
\* A line.

\* stringifiers[key] || stringifiers[wildcard]: the entry a key is redacted by.
Entry(k) == IF k \in keys THEN k ELSE Star

\* The place is censored, or gone, in the text of the line.
Hidden(place) ==
    LET e == Entry(place[1])
    IN  \/ e \in whole
        \/ e \in keys \ whole /\ \E path \in below[e] : Matches(path, Tail(place))

\* What the redactor of a key returns: topCensor serializes the censor itself,
\* and undefined has no text.
Text(k) ==
    LET e == Entry(k)
    IN  IF e \in whole THEN IF remove THEN "undefined" ELSE "censored"
        ELSE IF e \in keys THEN "filtered" ELSE "plain"

-----------------------------------------------------------------------------
\* handle(): the options; the reduction starts with an object without entries.
Init ==
    /\ listed = {}
    /\ keys = {}
    /\ whole = {}
    /\ below = [k \in Name |-> {}]
    /\ remove \in BOOLEAN
    /\ built = FALSE

Next ==
    \/ \E path \in Paths \ listed : Reduce(path)
    \/ Build

Spec == Init /\ [][Next]_vars

-----------------------------------------------------------------------------
(* Properties *)

\* Every variable has its type; only segments with an entry have paths, and a
\* segment that is censored as a whole has none.
TypeOK ==
    /\ listed \subseteq Paths
    /\ keys \subseteq Name
    /\ whole \subseteq keys
    /\ below \in [Name -> SUBSET Seq(Name)]
    /\ \A k \in Name : below[k] # {} => k \in keys \ whole
    /\ remove \in BOOLEAN /\ built \in BOOLEAN

\* What a path is sure to apply to: to the keys it names itself, and with the
\* wildcard to keys no other path names; to keys that others name as long as the
\* wildcard is not listed alone, which takes its array away (redaction.js:31).
AppliesTo(path, place) ==
    /\ Matches(path, place)
    /\ path[1] = place[1] \/ place[1] \notin keys \/ <<Star>> \notin listed

\* In whatever order literal and wildcard paths, short and long ones, are
\* listed, each hides what it matches although a line looks up one entry only
\* (redaction.js:46-63, tools.js:175): no wildcard path is missed by a key that
\* was registered before or after it.
PathsApply ==
    \A path \in listed, place \in Place : AppliesTo(path, place) => Hidden(place)

\* Nothing is hidden but what some listed path matches: the paths copied between
\* entries never reach a key they were not meant for.
OnlyPathsApply == \A place \in Place : Hidden(place) => Matched(place)

\* "paths that should have their values redacted from any log output"
\* (docs/api.md:338-339): every place that a path matches is hidden.
EveryPathApplies == \A place \in Place : Matched(place) => Hidden(place)

-----------------------------------------------------------------------------
(* The inductive invariant behind PathsApply and OnlyPathsApply: what the   *)
(* shape has in common whatever the order of the paths.                     *)

\* Entries and null entries are those of the listed paths.
EntriesAreListed ==
    /\ \A path \in listed : path[1] \in keys /\ (Len(path) = 1 => path[1] \in whole)
    /\ \A k \in whole : <<k>> \in listed

\* What is in an array comes from a listed path of that segment or the wildcard.
BelowIsListed ==
    \A k \in Name : \A rest \in below[k] :
        \E path \in listed : Len(path) > 1 /\ path[1] \in {k, Star} /\ rest = Tail(path)

\* Nothing a segment's own paths say is missing from its array, and, unless the
\* wildcard is redacted as a whole, nothing the wildcard's paths say.
ListedIsBelow ==
    \A path \in listed : Len(path) > 1 =>
        /\ path[1] \notin whole => Tail(path) \in below[path[1]]
        /\ path[1] = Star /\ Star \notin whole =>
              \A k \in keys \ whole : Tail(path) \in below[k]

ShapeInv == TypeOK /\ EntriesAreListed /\ BelowIsListed /\ ListedIsBelow
=============================================================================
