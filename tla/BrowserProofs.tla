---------------------------- MODULE BrowserProofs ----------------------------
(* Proofs about Browser, for any loggers, levels, options and bounds: the    *)
(* log functions follow the levels, on the console and for send(), both show *)
(* the bindings of the hierarchy, and what send() was told stays.            *)
EXTENDS Browser, SequenceTheorems, TLAPS

-----------------------------------------------------------------------------
(* The inductive invariant *)

\* The values are numbers below that of silent, and transmit's level is one.
ValuesOK ==
    /\ DOMAIN Values \cap {Silent, Absent} = {}
    /\ \A k \in DOMAIN Values : Values[k] \in 0 .. Infinity - 1
    /\ Transmits => config.transmit.level \in DOMAIN Values \cup {Absent}

\* A logger that is made has a level with a value, and its log functions are
\* those of that level.
OpenOK ==
    \A l \in Logger : path[l] # << >> =>
        /\ LevelKnown(level[l])
        /\ open[l] = OpenAt(Values, config.transmit, level[l])

\* What a call showed was decided by the functions and the levels there are now.
CallOK ==
    obs.kind = "call" =>
        /\ obs.of \in Logger /\ path[obs.of] # << >>
        /\ obs.label \in DOMAIN Values
        /\ obs.console <=> obs.label \in open[obs.of]
        /\ obs.sent <=> obs.console /\ Sends(obs.of, obs.label)

LevelsInv ==
    /\ DOMAIN level = Logger /\ DOMAIN open = Logger /\ DOMAIN path = Logger
    /\ ValuesOK /\ OpenOK /\ CallOK

-----------------------------------------------------------------------------
LEMMA LevelsInit == Init => LevelsInv
<1> SUFFICES ASSUME Init PROVE LevelsInv
  OBVIOUS
<1>1. PICK opt \in Options :
        LET own == IF opt.enabled THEN opt.level ELSE Silent
            values == ValuesOf(opt.customLevels)
        IN  /\ own = Silent \/ (own \in DOMAIN values /\ values[own] # 0)
            /\ config = [customLevels |-> opt.customLevels, transmit |-> opt.transmit,
                         asObject |-> opt.asObject]
            /\ path = [l \in Logger |-> IF l = Root THEN <<Root>> ELSE << >>]
            /\ level = [l \in Logger |-> IF l = Root THEN own ELSE Absent]
            /\ open = [l \in Logger |->
                  IF l = Root THEN OpenAt(values, opt.transmit, own) ELSE {}]
            /\ obs = Quiet
  BY DEF Init
<1>2. Values = ValuesOf(opt.customLevels) /\ config.transmit = opt.transmit
  BY <1>1 DEF Values
<1>3. ValuesOK
  <2>1. DOMAIN ValuesOf(opt.customLevels) \cap {Silent, Absent} = {}
    BY BrowserAssumption DEF ValuesOf, StandardValues, Silent
  <2> QED
    BY <2>1, <1>2, BrowserAssumption DEF ValuesOK, Transmits
<1>4. OpenOK
  BY <1>1, <1>2 DEF OpenOK, LevelKnown
<1>5. CallOK
  BY <1>1 DEF CallOK, Quiet
<1> QED
  BY <1>1, <1>3, <1>4, <1>5 DEF LevelsInv

\* A step that keeps levels, functions and loggers, and shows nothing.
LEMMA QuietKeepsLevels ==
    ASSUME LevelsInv, UNCHANGED <<tree, level, open>>, obs' = Quiet
    PROVE  LevelsInv'
BY DEF LevelsInv, ValuesOK, OpenOK, CallOK, Quiet, tree, Values, Transmits, LevelKnown

\* A level is assigned, to a logger there is or to a new one.
LEMMA AssignKeepsLevels ==
    ASSUME LevelsInv, NEW l \in Logger, NEW k,
           level' = [level EXCEPT ![l] = k],
           open' = [open EXCEPT ![l] = OpenAt(Values, config.transmit, k)],
           LevelKnown(k), config' = config,
           DOMAIN path' = Logger, \A m \in Logger \ {l} : path'[m] = path[m],
           obs' = Quiet
    PROVE  LevelsInv'
<1>1. Values' = Values /\ (Transmits <=> Transmits')
  BY DEF Values, Transmits
<1>2. ValuesOK'
  BY <1>1 DEF LevelsInv, ValuesOK
<1>3. OpenOK'
  <2> SUFFICES ASSUME NEW m \in Logger, path'[m] # << >>
               PROVE  /\ LevelKnown(level'[m])
                      /\ open'[m] = OpenAt(Values, config.transmit, level'[m])
    BY <1>1 DEF OpenOK, LevelKnown, OpenAt, LevelToValue, TransmitLevel
  <2>1. CASE m = l
    BY <2>1, <1>1 DEF LevelsInv
  <2>2. CASE m # l
    <3>1. path[m] # << >> /\ level'[m] = level[m] /\ open'[m] = open[m]
      BY <2>2 DEF LevelsInv
    <3> QED
      BY <3>1, <1>1 DEF LevelsInv, OpenOK, LevelKnown
  <2> QED
    BY <2>1, <2>2
<1>4. CallOK'
  BY DEF CallOK, Quiet
<1> QED
  BY <1>2, <1>3, <1>4 DEF LevelsInv

LEMMA LogKeepsLevels ==
    ASSUME LevelsInv, NEW l \in Born, NEW k \in LogLabels, Log(l, k)
    PROVE  LevelsInv'
<1>1. UNCHANGED <<tree, level, open>>
  BY DEF Log
<1>2. ValuesOK' /\ OpenOK'
  BY <1>1 DEF LevelsInv, ValuesOK, OpenOK, tree, Values, Transmits, LevelKnown
<1>3. /\ obs'.of = l /\ obs'.label = k /\ k \in DOMAIN Values
      /\ obs'.console = (k \in open[l])
      /\ obs'.sent = (k \in open[l] /\ Sends(l, k))
  BY DEF Log
<1>4. (Sends(l, k))' <=> Sends(l, k)
  BY <1>1 DEF Sends, tree, Transmits, TransmitLevel, LevelToValue, Values
<1>5. CallOK'
  BY <1>1, <1>3, <1>4 DEF CallOK, Born, tree, Values
<1> QED
  BY <1>1, <1>2, <1>5 DEF LevelsInv, tree

LEMMA LevelsStep == LevelsInv /\ [Next]_vars => LevelsInv'
<1> SUFFICES ASSUME LevelsInv, [Next]_vars PROVE LevelsInv'
  OBVIOUS
<1>1. ASSUME NEW l \in Born, NEW k \in LevelArgs, SetLevel(l, k) PROVE LevelsInv'
  <2>1. /\ l \in Logger /\ LevelKnown(k) /\ AssignLevel(l, k, path[l], bindings)
        /\ UNCHANGED tree /\ obs' = Quiet
    BY <1>1 DEF SetLevel, Born
  <2> QED
    BY <2>1, AssignKeepsLevels DEF AssignLevel, tree, LevelsInv
<1>2. ASSUME NEW p \in Born, NEW c \in Logger, NEW k \in LevelArgs \cup {Absent}, Child(p, c, k)
      PROVE  LevelsInv'
  <2> DEFINE own == IF k = Absent THEN level[p] ELSE k
  <2>1. /\ LevelKnown(own) /\ AssignLevel(c, own, path'[c], bindings')
        /\ path' = [path EXCEPT ![c] = Append(path[p], c)]
        /\ config' = config /\ obs' = Quiet
    BY <1>2 DEF Child
  <2>2. DOMAIN path' = Logger /\ \A m \in Logger \ {c} : path'[m] = path[m]
    BY <2>1 DEF LevelsInv
  <2> QED
    BY <2>1, <2>2, AssignKeepsLevels DEF AssignLevel
<1>3. ASSUME NEW l \in Born, SetBindings(l) PROVE LevelsInv'
  <2>1. /\ l \in Logger /\ AssignLevel(l, level[l], path[l], bindings')
        /\ UNCHANGED tree /\ obs' = Quiet
    BY <1>3 DEF SetBindings, Born
  <2>2. LevelKnown(level[l])
    BY DEF LevelsInv, OpenOK, Born
  <2> QED
    BY <2>1, <2>2, AssignKeepsLevels DEF AssignLevel, tree, LevelsInv
<1>4. ASSUME NEW l \in Born, NEW k \in LogLabels, Log(l, k) PROVE LevelsInv'
  BY <1>4, LogKeepsLevels
<1>5. CASE SendReturns
  BY <1>5, QuietKeepsLevels DEF SendReturns
<1>6. CASE SendThrows
  BY <1>6, QuietKeepsLevels DEF SendThrows
<1>7. CASE UNCHANGED vars
  BY <1>7 DEF vars, tree, LevelsInv, ValuesOK, OpenOK, CallOK, Values, Transmits, LevelKnown,
     Sends, TransmitLevel, LevelToValue
<1> QED
  BY <1>1, <1>2, <1>3, <1>4, <1>5, <1>6, <1>7 DEF Next

\* After any history of children, assignments, bindings and calls, also out of
\* send(), the log functions of each logger are those of its level (browser.js:
\* 273-277, 314-343).
THEOREM LevelsInvariant == Spec => []LevelsInv
<1>1. Init => LevelsInv
  BY LevelsInit
<1>2. LevelsInv /\ [Next]_vars => LevelsInv'
  BY LevelsStep
<1> QED
  BY <1>1, <1>2, PTL DEF Spec

-----------------------------------------------------------------------------
(* What follows from it *)

LEMMA LevelsGiveConsole == LevelsInv => ConsoleFollowsLevel
<1> SUFFICES ASSUME LevelsInv, obs.kind = "call",
                    Transmits /\ config.transmit.level # Absent
                      => Values[obs.label] < LevelToValue(Values, config.transmit.level)
             PROVE  obs.console <=> IsLevelEnabled(obs.of, obs.label)
  BY DEF ConsoleFollowsLevel
<1> DEFINE k == obs.label
           own == level[obs.of]
           ours == LevelToValue(Values, own) <= LevelToValue(Values, k)
<1>1. /\ k \in DOMAIN Values /\ k # Silent /\ Values[k] \in 0 .. Infinity - 1
      /\ LevelKnown(own)
      /\ obs.console <=> k \in OpenAt(Values, config.transmit, own)
  BY DEF LevelsInv, CallOK, OpenOK, ValuesOK
<1>2. LevelToValue(Values, k) = Values[k]
  BY <1>1 DEF LevelToValue
<1>3. k \in OpenAt(Values, config.transmit, own) <=> ours
  <2>1. CASE ~Transmits
    BY <2>1, <1>1 DEF OpenAt, Transmits
  <2>2. CASE Transmits /\ config.transmit.level = Absent
    BY <2>2, <1>1 DEF OpenAt, Transmits, TransmitLevel
  <2>3. CASE Transmits /\ config.transmit.level # Absent
    <3>1. /\ config.transmit.level \in DOMAIN Values /\ config.transmit.level # Silent
          /\ Values[config.transmit.level] \in 0 .. Infinity - 1
      BY <2>3 DEF LevelsInv, ValuesOK
    <3>2. ~(LevelToValue(Values, config.transmit.level) <= LevelToValue(Values, k))
      BY <3>1, <2>3, <1>1, <1>2 DEF LevelToValue
    <3> QED
      BY <3>2, <2>3, <1>1 DEF OpenAt, Transmits, TransmitLevel
  <2> QED
    BY <2>1, <2>2, <2>3
<1>4. ours <=> IsLevelEnabled(obs.of, k)
  <2>1. CASE own = Silent
    BY <2>1, <1>1, <1>2, BrowserAssumption DEF LevelToValue, IsLevelEnabled
  <2>2. CASE own # Silent
    <3>1. own \in DOMAIN Values /\ Values[own] # 0 /\ Values[own] \in 0 .. Infinity - 1
      BY <2>2, <1>1 DEF LevelKnown, LevelsInv, ValuesOK
    <3> QED
      BY <3>1, <2>2, <1>1, <1>2, BrowserAssumption DEF LevelToValue, IsLevelEnabled
  <2> QED
    BY <2>1, <2>2
<1> QED
  BY <1>1, <1>3, <1>4

\* A log call writes to the console exactly if isLevelEnabled says so, unless
\* transmit's own level lets it through.
THEOREM ConsoleAlwaysFollowsLevel == Spec => []ConsoleFollowsLevel
<1>1. LevelsInv => ConsoleFollowsLevel
  BY LevelsGiveConsole
<1> QED
  BY <1>1, LevelsInvariant, PTL

LEMMA LevelsGiveSend == LevelsInv => SendFollowsLevel
<1> SUFFICES ASSUME LevelsInv, obs.kind = "call"
             PROVE  obs.sent <=>
                      /\ Transmits
                      /\ LevelToValue(Values, obs.label) >=
                            LevelToValue(Values, TransmitLevel(config.transmit, level[obs.of]))
  BY DEF SendFollowsLevel, TransmitLevel
<1> DEFINE k == obs.label
           own == level[obs.of]
           wanted == TransmitLevel(config.transmit, own)
<1>1. /\ k \in DOMAIN Values /\ k # Silent /\ Values[k] \in 0 .. Infinity - 1
      /\ LevelKnown(own)
      /\ obs.console <=> k \in OpenAt(Values, config.transmit, own)
      /\ obs.sent <=> obs.console /\ Sends(obs.of, k)
  BY DEF LevelsInv, CallOK, OpenOK, ValuesOK
<1>2. ASSUME Transmits PROVE LevelToValue(Values, wanted) \in Int
  BY <1>2, <1>1, BrowserAssumption
     DEF LevelToValue, TransmitLevel, LevelKnown, LevelsInv, ValuesOK
<1>3. LevelToValue(Values, k) \in Int
  BY <1>1 DEF LevelToValue
<1>4. ASSUME Sends(obs.of, k) PROVE k \in OpenAt(Values, config.transmit, own)
  <2>1. Transmits /\ LevelToValue(Values, k) >= LevelToValue(Values, wanted)
    BY <1>4 DEF Sends
  <2>2. LevelToValue(Values, wanted) <= LevelToValue(Values, k)
    BY <2>1, <1>2, <1>3
  <2> QED
    BY <2>1, <2>2, <1>1 DEF OpenAt, Transmits
<1> QED
  BY <1>1, <1>4 DEF Sends

\* send() is called exactly for the calls at or above transmit's level, or the
\* logger's own: the two looks at the levels agree.
THEOREM SendAlwaysFollowsLevel == Spec => []SendFollowsLevel
<1>1. LevelsInv => SendFollowsLevel
  BY LevelsGiveSend
<1> QED
  BY <1>1, LevelsInvariant, PTL
-----------------------------------------------------------------------------
(* The inductive invariant of bindings and events *)

\* What the loggers of a set were given, by their places in a history.
Among(given, loggers) == {n \in DOMAIN given : given[n] \in loggers}

\* AncestorChanged, of a history and the paths.
Changed(line, paths, given) ==
    \E n, m \in DOMAIN given :
        /\ n < m /\ given[n] \in ToSet(line)
        /\ given[m] \in ToSet(paths[given[n]]) \ {given[n]}

\* Objects show what l was given, else only what its ancestors were, and all of
\* that unless an ancestor was given more after its descendants were made.
Shows(objects, l, paths, given) ==
    /\ Among(given, {l}) \subseteq HeldIn(objects)
    /\ HeldIn(objects) \subseteq Among(given, ToSet(paths[l]))
    /\ Changed(paths[l], paths, given)
         \/ Among(given, ToSet(paths[l])) \subseteq HeldIn(objects)

\* A logger that is made comes after loggers that are made, the root first, and
\* one that is not has nothing.
PathsOK ==
    /\ path \in [Logger -> Seq(Logger)]
    /\ level \in [Logger -> DOMAIN Values \cup {Silent, Absent}]
    /\ open \in [Logger -> SUBSET DOMAIN Values]
    /\ path[Root] = <<Root>>
    /\ \A l \in Logger :
          IF path[l] = << >> THEN level[l] = Absent
          ELSE /\ path[l][1] = Root /\ path[l][Len(path[l])] = l
               /\ \A i \in 2 .. Len(path[l]) : path[l][i] # Root
               /\ ToSet(path[l]) \subseteq Born
    /\ givenTo \in Seq(Born) /\ Len(givenTo) <= MaxGiven

\* A logger's bindings are all it was given, and only the root may have none.
BindingsOK ==
    /\ bindings \in [Logger -> Object \cup {Absent}]
    /\ \A l \in Born :
          IF bindings[l] = Absent THEN l = Root /\ Among(givenTo, {l}) = {}
          ELSE bindings[l].holds = Among(givenTo, {l}) /\ bindings[l].holds # {}

\* What the log functions prepend; they are more than asObject counts only if
\* the root has bindings.
ChainOK ==
    /\ chain \in [Logger -> Seq(Object)]
    /\ \A l \in Born :
          /\ Shows(chain[l], l, path, givenTo)
          /\ \/ Len(chain[l]) < Len(path[l])
             \/ \E i \in DOMAIN chain[l] : chain[l][i].holds \cap Among(givenTo, {Root}) # {}

\* With transmit, what the event of a logger has, and that objects which are
\* prepended and not in it are merged ones.
EventBindingsOK ==
    /\ eventBindings \in [Logger -> Seq(Object)]
    /\ Transmits => \A l \in Born :
          /\ Shows(eventBindings[l], l, path, givenTo)
          /\ \A a \in ToSet(path[l]) :
                bindings[a] = Absent \/ bindings[a].merged
                  \/ bindings[a] \in ToSet(eventBindings[l])
          /\ \A object \in ToSet(chain[l]) :
                object.merged \/ object \in ToSet(eventBindings[l])

Event ==
    [of : Logger, call : Nat, label : DOMAIN Values \cup {Absent}, slipped : SUBSET Object,
     array : Logger]

\* Events are told of calls so far and refer to the array made for their logger, a
\* logger's own is at most one, and one that is told of a call is being sent or was
\* not taken.
EventsOK ==
    /\ calls \in Nat
    /\ events \in Seq(Event)
    /\ current \in [Logger -> Nat]
    /\ sending \in Seq([of : Logger, event : Nat])
    /\ \A e \in DOMAIN events :
          /\ events[e].of \in Born /\ events[e].call <= calls
          /\ events[e].array = events[e].of
          /\ \A object \in events[e].slipped : object.merged
    /\ \A l \in Logger :
          IF Transmits /\ l \in Born
          THEN LET e == current[l]
               IN  /\ e \in DOMAIN events /\ events[e].of = l
                   /\ \/ events[e].call = 0
                      \/ e \in failed
                      \/ \E i \in DOMAIN sending : sending[i].event = e
          ELSE current[l] = 0
    /\ \A i \in DOMAIN sending :
          /\ sending[i].event \in DOMAIN events
          /\ events[sending[i].event].of = sending[i].of
    /\ ~Transmits => events = << >>

\* What a call showed are the objects there are now.
ShownOK ==
    obs.kind = "call" =>
        IF obs.console THEN obs.prepended = chain[obs.of] /\ obs.object = ObjectFate(obs.of)
        ELSE obs.object = "none"

OwnInv == PathsOK /\ BindingsOK

BindingsInv == OwnInv /\ ChainOK /\ EventBindingsOK

-----------------------------------------------------------------------------
(* What the operators do with one more object, or one more given *)

LEMMA AppendProps ==
    ASSUME NEW S, NEW s \in Seq(S), NEW e \in S
    PROVE  /\ Append(s, e) \in Seq(S) /\ Len(Append(s, e)) = Len(s) + 1
           /\ DOMAIN Append(s, e) = 1 .. (Len(s) + 1)
           /\ Append(s, e)[Len(s) + 1] = e
           /\ \A i \in 1 .. Len(s) : Append(s, e)[i] = s[i]
           /\ DOMAIN s = 1 .. Len(s) /\ Len(s) \in Nat
BY AppendProperties, LenProperties

\* concat and push add the one element.
LEMMA ToSetOfAppend ==
    ASSUME NEW S, NEW s \in Seq(S), NEW e \in S
    PROVE  ToSet(Append(s, e)) = ToSet(s) \cup {e}
<1>1. \A x : x \in ToSet(Append(s, e)) <=> \E i \in 1 .. (Len(s) + 1) : x = Append(s, e)[i]
  BY AppendProps DEF ToSet
<1>2. \A x : x \in ToSet(s) <=> \E i \in 1 .. Len(s) : x = s[i]
  BY AppendProps DEF ToSet
<1>3. ASSUME NEW x \in ToSet(Append(s, e)) PROVE x \in ToSet(s) \cup {e}
  <2>1. PICK i \in 1 .. (Len(s) + 1) : x = Append(s, e)[i]
    BY <1>1
  <2>2. CASE i = Len(s) + 1
    BY <2>1, <2>2, AppendProps
  <2>3. CASE i \in 1 .. Len(s)
    BY <2>1, <2>3, <1>2, AppendProps
  <2> QED
    BY <2>2, <2>3, AppendProps
<1>4. e \in ToSet(Append(s, e))
  BY <1>1, AppendProps
<1>5. ASSUME NEW x \in ToSet(s) PROVE x \in ToSet(Append(s, e))
  <2>1. PICK i \in 1 .. Len(s) : x = s[i]
    BY <1>2
  <2> QED
    BY <2>1, <1>1, AppendProps
<1> QED
  BY <1>3, <1>4, <1>5

LEMMA HeldInMeans ==
    ASSUME NEW objects, NEW x
    PROVE  x \in HeldIn(objects) <=> \E i \in DOMAIN objects : x \in objects[i].holds
BY DEF HeldIn

LEMMA HeldInOfAppend ==
    ASSUME NEW objects \in Seq(Object), NEW object \in Object
    PROVE  HeldIn(Append(objects, object)) = HeldIn(objects) \cup object.holds
<1> DEFINE both == Append(objects, object)
<1>1. /\ DOMAIN both = 1 .. (Len(objects) + 1) /\ DOMAIN objects = 1 .. Len(objects)
      /\ both[Len(objects) + 1] = object
      /\ \A i \in 1 .. Len(objects) : both[i] = objects[i]
      /\ Len(objects) \in Nat
  BY AppendProps
<1> HIDE DEF both
<1>2. ASSUME NEW x PROVE x \in HeldIn(both) <=> x \in HeldIn(objects) \/ x \in object.holds
  <2>1. ASSUME NEW i \in DOMAIN both, x \in both[i].holds
        PROVE  x \in HeldIn(objects) \/ x \in object.holds
    <3>1. CASE i = Len(objects) + 1
      BY <2>1, <3>1, <1>1
    <3>2. CASE i \in 1 .. Len(objects)
      BY <2>1, <3>2, <1>1, HeldInMeans
    <3> QED
      BY <3>1, <3>2, <1>1
  <2>2. ASSUME NEW i \in DOMAIN objects, x \in objects[i].holds PROVE x \in HeldIn(both)
    <3>1. i \in DOMAIN both /\ both[i] = objects[i]
      BY <1>1
    <3> QED
      BY <3>1, <2>2, HeldInMeans
  <2>3. ASSUME x \in object.holds PROVE x \in HeldIn(both)
    <3>1. Len(objects) + 1 \in DOMAIN both
      BY <1>1
    <3> QED
      BY <3>1, <1>1, <2>3, HeldInMeans
  <2> QED
    BY <2>1, <2>2, <2>3, HeldInMeans
<1> QED
  BY <1>2 DEF both

LEMMA AmongAppend ==
    ASSUME NEW S, NEW given \in Seq(S), NEW k \in S, NEW loggers
    PROVE  Among(Append(given, k), loggers)
              = Among(given, loggers) \cup (IF k \in loggers THEN {Len(given) + 1} ELSE {})
<1> DEFINE both == Append(given, k)
<1>1. /\ DOMAIN both = 1 .. (Len(given) + 1) /\ DOMAIN given = 1 .. Len(given)
      /\ both[Len(given) + 1] = k
      /\ \A i \in 1 .. Len(given) : both[i] = given[i]
      /\ Len(given) \in Nat
  BY AppendProps
<1> HIDE DEF both
<1>2. Among(both, loggers)
        = Among(given, loggers) \cup (IF k \in loggers THEN {Len(given) + 1} ELSE {})
  BY <1>1 DEF Among
<1> QED
  BY <1>2 DEF both

\* The loggers of a history keep their paths.
PathsStay(given, paths, after) == \A i \in DOMAIN given : after[given[i]] = paths[given[i]]

\* What was given out of order stays so.
LEMMA ChangedStays ==
    ASSUME NEW given \in Seq(Logger), NEW k \in Logger, NEW line, NEW paths, NEW after,
           PathsStay(given, paths, after),
           Changed(line, paths, given)
    PROVE  Changed(line, after, Append(given, k))
<1>1. PICK n, m \in DOMAIN given :
        /\ n < m /\ given[n] \in ToSet(line)
        /\ given[m] \in ToSet(paths[given[n]]) \ {given[n]}
  BY DEF Changed
<1>2. /\ n \in DOMAIN Append(given, k) /\ m \in DOMAIN Append(given, k)
      /\ Append(given, k)[n] = given[n] /\ Append(given, k)[m] = given[m]
  BY AppendProps
<1>3. after[given[n]] = paths[given[n]]
  BY DEF PathsStay
<1> QED
  BY <1>1, <1>2, <1>3 DEF Changed

\* Objects still show what they should of a logger after another is given
\* bindings: they may miss them, but then an ancestor was given them too late.
LEMMA ShowsStays ==
    ASSUME NEW given \in Seq(Logger), NEW k \in Logger, NEW l \in Logger, l # k,
           NEW paths, NEW after, NEW objects,
           after[l] = paths[l], l \in ToSet(paths[l]),
           PathsStay(given, paths, after),
           Among(given, {l}) # {} \/ k \notin ToSet(paths[l]),
           Shows(objects, l, paths, given)
    PROVE  Shows(objects, l, after, Append(given, k))
<1> DEFINE both == Append(given, k)
<1>a. \A loggers : Among(both, loggers)
         = Among(given, loggers) \cup (IF k \in loggers THEN {Len(given) + 1} ELSE {})
  BY AmongAppend, Zenon
<1> HIDE DEF both
<1>1. Among(both, {l}) = Among(given, {l})
  BY <1>a
<1>2. Among(given, ToSet(paths[l])) \subseteq Among(both, ToSet(paths[l]))
  BY <1>a
<1>3. CASE k \notin ToSet(paths[l])
  <2>1. Among(both, ToSet(paths[l])) = Among(given, ToSet(paths[l]))
    BY <1>3, <1>a
  <2>2. Changed(paths[l], paths, given) => Changed(paths[l], after, both)
    BY ChangedStays DEF both
  <2> QED
    BY <1>1, <2>1, <2>2 DEF Shows, both
<1>4. CASE k \in ToSet(paths[l])
  <2>1. PICK n \in DOMAIN given : given[n] = l
    BY <1>4 DEF Among
  <2>2. /\ n \in DOMAIN both /\ Len(given) + 1 \in DOMAIN both /\ n < Len(given) + 1
        /\ both[n] = l /\ both[Len(given) + 1] = k
    BY <2>1, AppendProps DEF both
  <2>3. after[both[n]] = paths[l] /\ k \in ToSet(paths[l]) \ {l}
    BY <1>4, <2>2
  <2>4. Changed(after[l], after, both)
    BY <2>2, <2>3 DEF Changed
  <2> QED
    BY <1>1, <1>2, <2>4 DEF Shows, both
<1> QED
  BY <1>3, <1>4

\* The chain of bindings is made of the bindings on the way from the root, and
\* only the root may be missing in it.
LEMMA ChainMeans ==
    ASSUME NEW line \in Seq(Logger), line # << >>, line[1] = Root,
           \A i \in 2 .. Len(line) : line[i] # Root,
           NEW objects \in [Logger -> Object \cup {Absent}],
           \A a \in ToSet(line) : objects[a] = Absent => a = Root
    PROVE  /\ BindingChain(line, objects) \in Seq(Object)
           /\ \A object : object \in ToSet(BindingChain(line, objects)) <=>
                 \E a \in ToSet(line) : objects[a] # Absent /\ object = objects[a]
           /\ IF objects[Root] = Absent THEN Len(BindingChain(line, objects)) < Len(line)
              ELSE /\ 1 \in DOMAIN BindingChain(line, objects)
                   /\ BindingChain(line, objects)[1] = objects[Root]
<1> DEFINE owners == IF objects[Root] = Absent THEN Tail(line) ELSE line
           made == [i \in DOMAIN owners |-> objects[owners[i]]]
<1>1. BindingChain(line, objects) = made
  BY DEF BindingChain
<1>2. /\ Len(line) \in Nat \ {0} /\ DOMAIN line = 1 .. Len(line)
      /\ \A i \in 1 .. Len(line) : line[i] \in Logger
      /\ \A a : a \in ToSet(line) <=> \E i \in 1 .. Len(line) : a = line[i]
  BY DEF ToSet
<1>3. objects[Root] = Absent =>
        /\ owners \in Seq(Logger) /\ Len(owners) = Len(line) - 1
        /\ \A i \in 1 .. Len(line) - 1 : owners[i] = line[i + 1]
  BY <1>2
<1>4. /\ owners \in Seq(Logger) /\ DOMAIN owners = 1 .. Len(owners)
      /\ \A a : a \in ToSet(line) /\ objects[a] # Absent
            <=> \E i \in 1 .. Len(owners) : a = owners[i]
  <2>1. CASE objects[Root] = Absent
    <3>1. owners \in Seq(Logger) /\ DOMAIN owners = 1 .. Len(owners) /\ Len(owners) = Len(line) - 1
      BY <2>1, <1>3
    <3>2. ASSUME NEW a \in ToSet(line), objects[a] # Absent
          PROVE  \E i \in 1 .. Len(owners) : a = owners[i]
      <4>1. PICK i \in 1 .. Len(line) : a = line[i]
        BY <1>2
      <4>2. i # 1
        BY <4>1, <3>2, <2>1
      <4>3. i - 1 \in 1 .. Len(owners) /\ owners[i - 1] = a
        BY <4>1, <4>2, <3>1, <1>3, <2>1, <1>2
      <4> QED
        BY <4>3
    <3>3. ASSUME NEW i \in 1 .. Len(owners)
          PROVE  owners[i] \in ToSet(line) /\ objects[owners[i]] # Absent
      <4>1. i + 1 \in 2 .. Len(line) /\ owners[i] = line[i + 1]
        BY <3>1, <1>3, <2>1, <1>2
      <4> QED
        BY <4>1, <1>2
    <3> QED
      BY <3>1, <3>2, <3>3
  <2>2. CASE objects[Root] # Absent
    <3>1. owners = line
      BY <2>2
    <3>2. \A a \in ToSet(line) : objects[a] # Absent
      BY <2>2
    <3> HIDE DEF owners
    <3> QED
      BY <3>1, <3>2, <1>2
  <2> QED
    BY <2>1, <2>2
<1>5. ASSUME NEW i \in 1 .. Len(owners)
      PROVE  owners[i] \in Logger /\ objects[owners[i]] \in Object
  <2>1. owners[i] \in ToSet(line) /\ objects[owners[i]] # Absent
    BY <1>4
  <2>2. owners[i] \in Logger
    BY <2>1, <1>2
  <2> QED
    BY <2>1, <2>2
<1>6. DOMAIN made = 1 .. Len(owners) /\ Len(owners) \in Nat
  BY <1>4
<1>7. objects[Root] # Absent => 1 \in DOMAIN owners /\ owners[1] = Root
  BY <1>2
<1> HIDE DEF owners
<1>8. \A i \in 1 .. Len(owners) : made[i] = objects[owners[i]]
  BY <1>4
<1>9. made \in Seq(Object) /\ Len(made) = Len(owners)
  BY <1>5, <1>6, <1>8
<1>10. ASSUME NEW object
       PROVE  object \in ToSet(made) <=>
                 \E a \in ToSet(line) : objects[a] # Absent /\ object = objects[a]
  <2>1. object \in ToSet(made) <=> \E i \in 1 .. Len(owners) : object = objects[owners[i]]
    BY <1>6, <1>8, <1>9 DEF ToSet
  <2> HIDE DEF made
  <2> QED
    BY <2>1, <1>4
<1>11. IF objects[Root] = Absent THEN Len(made) < Len(line)
       ELSE 1 \in DOMAIN made /\ made[1] = objects[Root]
  <2>1. CASE objects[Root] = Absent
    <3>1. Len(owners) = Len(line) - 1
      BY <2>1, <1>3
    <3> HIDE DEF made
    <3> QED
      BY <2>1, <3>1, <1>2, <1>9
  <2>2. CASE objects[Root] # Absent
    <3>1. 1 \in 1 .. Len(owners) /\ owners[1] = Root
      BY <2>2, <1>7, <1>4
    <3>2. 1 \in DOMAIN made /\ made[1] = objects[owners[1]]
      BY <3>1, <1>6, <1>8
    <3> HIDE DEF made
    <3> QED
      BY <2>2, <3>1, <3>2
  <2> QED
    BY <2>1, <2>2
<1> QED
  BY <1>1, <1>9, <1>10, <1>11

\* What the loggers on the way to a logger have is what they were given.
HoldGiven(line, objects, given) ==
    \A a \in ToSet(line) :
        IF objects[a] = Absent THEN a = Root /\ Among(given, {a}) = {}
        ELSE objects[a].holds = Among(given, {a}) /\ objects[a].holds # {}

\* So it shows all that was given on the way to a logger by now.
LEMMA ChainShows ==
    ASSUME NEW given, NEW line \in Seq(Logger), line # << >>, line[1] = Root,
           \A i \in 2 .. Len(line) : line[i] # Root,
           NEW objects \in [Logger -> Object \cup {Absent}], HoldGiven(line, objects, given)
    PROVE  /\ HeldIn(BindingChain(line, objects)) = Among(given, ToSet(line))
           /\ \/ Len(BindingChain(line, objects)) < Len(line)
              \/ \E i \in DOMAIN BindingChain(line, objects) :
                    BindingChain(line, objects)[i].holds \cap Among(given, {Root}) # {}
<1>a. PICK made : made = BindingChain(line, objects)
  OBVIOUS
<1>b. \A a \in ToSet(line) :
         IF objects[a] = Absent THEN a = Root /\ Among(given, {a}) = {}
         ELSE objects[a].holds = Among(given, {a}) /\ objects[a].holds # {}
  BY DEF HoldGiven
<1>0. /\ BindingChain(line, objects) \in Seq(Object)
      /\ \A object : object \in ToSet(BindingChain(line, objects)) <=>
            \E a \in ToSet(line) : objects[a] # Absent /\ object = objects[a]
      /\ IF objects[Root] = Absent THEN Len(BindingChain(line, objects)) < Len(line)
         ELSE /\ 1 \in DOMAIN BindingChain(line, objects)
              /\ BindingChain(line, objects)[1] = objects[Root]
  <2>1. \A a \in ToSet(line) : objects[a] = Absent => a = Root
    BY <1>b
  <2> QED
    BY <2>1, ChainMeans
<1>1. /\ made \in Seq(Object)
      /\ \A object : object \in ToSet(made) <=>
            \E a \in ToSet(line) : objects[a] # Absent /\ object = objects[a]
      /\ IF objects[Root] = Absent THEN Len(made) < Len(line)
         ELSE 1 \in DOMAIN made /\ made[1] = objects[Root]
  BY <1>0, <1>a
<1>2. Root \in ToSet(line)
  BY DEF ToSet
<1>3. \/ Len(made) < Len(line)
      \/ \E i \in DOMAIN made : made[i].holds \cap Among(given, {Root}) # {}
  <2>1. CASE objects[Root] = Absent
    BY <1>1, <2>1
  <2>2. CASE objects[Root] # Absent
    <3>1. objects[Root].holds = Among(given, {Root}) /\ objects[Root].holds # {}
      BY <1>b, <1>2, <2>2
    <3>2. 1 \in DOMAIN made /\ made[1] = objects[Root]
      BY <1>1, <2>2
    <3>3. made[1].holds \cap Among(given, {Root}) # {}
      BY <3>1, <3>2
    <3> QED
      BY <3>2, <3>3
  <2> QED
    BY <2>1, <2>2
<1>4. \A x : x \in HeldIn(made) <=> \E object \in ToSet(made) : x \in object.holds
  BY <1>1 DEF HeldIn, ToSet
<1>5. \A x : x \in HeldIn(made) <=> \E a \in ToSet(line) : x \in Among(given, {a})
  <2>1. ASSUME NEW x, NEW a \in ToSet(line), x \in Among(given, {a})
        PROVE  x \in HeldIn(made)
    <3>1. objects[a] # Absent /\ objects[a].holds = Among(given, {a})
      BY <2>1, <1>b
    <3>2. objects[a] \in ToSet(made)
      BY <3>1, <1>1
    <3> QED
      BY <2>1, <3>1, <3>2, <1>4
  <2>2. ASSUME NEW x, x \in HeldIn(made)
        PROVE  \E a \in ToSet(line) : x \in Among(given, {a})
    <3>1. PICK object \in ToSet(made) : x \in object.holds
      BY <2>2, <1>4
    <3>2. PICK a \in ToSet(line) : objects[a] # Absent /\ object = objects[a]
      BY <1>1
    <3>3. x \in Among(given, {a})
      BY <3>1, <3>2, <1>b
    <3> QED
      BY <3>3
  <2> QED
    BY <2>1, <2>2
<1>6. \A x : x \in Among(given, ToSet(line)) <=> \E a \in ToSet(line) : x \in Among(given, {a})
  BY DEF Among
<1>7. HeldIn(made) = Among(given, ToSet(line))
  BY <1>5, <1>6
<1> QED
  BY <1>3, <1>7, <1>a

LEMMA PathsGive ==
    ASSUME PathsOK, NEW l \in Born
    PROVE  /\ l \in Logger /\ path[l] \in Seq(Logger) /\ path[l] # << >> /\ path[l][1] = Root
           /\ \A i \in 2 .. Len(path[l]) : path[l][i] # Root
           /\ l \in ToSet(path[l]) /\ ToSet(path[l]) \subseteq Born
<1>1. /\ l \in Logger /\ path[l] \in Seq(Logger) /\ path[l] # << >> /\ path[l][1] = Root
      /\ \A i \in 2 .. Len(path[l]) : path[l][i] # Root
      /\ path[l][Len(path[l])] = l /\ ToSet(path[l]) \subseteq Born
  BY DEF PathsOK, Born
<1>2. Len(path[l]) \in DOMAIN path[l]
  BY <1>1
<1>3. l \in ToSet(path[l])
  BY <1>1, <1>2 DEF ToSet
<1> QED
  BY <1>1, <1>3

\* Bindings objects are those of the model, and never the absent value.
LEMMA ObjectsMade ==
    ASSUME NEW n \in 1 .. MaxGiven, NEW object \in Object \cup {Absent}
    PROVE  /\ Given(n) \in Object /\ Given(n) # Absent /\ Given(n).holds = {n}
           /\ MergedWith(object, n) \in Object /\ MergedWith(object, n) # Absent
           /\ MergedWith(object, n).merged
           /\ MergedWith(object, n).holds = {n} \cup (IF object = Absent THEN {} ELSE object.holds)
<1>1. Absent \notin Object
  BY BrowserAssumption
<1>2. Given(n) \in Object /\ Given(n).holds = {n}
  BY DEF Object, Given
<1>3. object # Absent => object.holds \subseteq 1 .. MaxGiven
  BY DEF Object
<1>4. /\ MergedWith(object, n).merged
      /\ MergedWith(object, n).holds = {n} \cup (IF object = Absent THEN {} ELSE object.holds)
  BY DEF MergedWith
<1>5. {n} \cup (IF object = Absent THEN {} ELSE object.holds) \in SUBSET (1 .. MaxGiven)
  BY <1>3
<1>6. MergedWith(object, n) \in Object
  BY <1>5 DEF MergedWith, Object
<1> QED
  BY <1>1, <1>2, <1>4, <1>6

-----------------------------------------------------------------------------
(* The initial states *)

LEMMA BindingsInit == Init => OwnInv /\ ChainOK /\ EventBindingsOK
<1> SUFFICES ASSUME Init PROVE OwnInv /\ ChainOK /\ EventBindingsOK
  OBVIOUS
<1>1. PICK opt \in Options :
        LET own == IF opt.enabled THEN opt.level ELSE Silent
            values == ValuesOf(opt.customLevels)
        IN  /\ own = Silent \/ (own \in DOMAIN values /\ values[own] # 0)
            /\ config = [customLevels |-> opt.customLevels, transmit |-> opt.transmit,
                         asObject |-> opt.asObject]
            /\ level = [l \in Logger |-> IF l = Root THEN own ELSE Absent]
            /\ open = [l \in Logger |->
                  IF l = Root THEN OpenAt(values, opt.transmit, own) ELSE {}]
  BY DEF Init
<1>2. /\ path = [l \in Logger |-> IF l = Root THEN <<Root>> ELSE << >>]
      /\ bindings = [l \in Logger |-> Absent]
      /\ chain = [l \in Logger |-> << >>]
      /\ eventBindings = [l \in Logger |-> << >>]
      /\ givenTo = << >>
  BY DEF Init
<1>3. Values = ValuesOf(opt.customLevels) /\ config.transmit = opt.transmit
  BY <1>1 DEF Values
<1>4. Root \in Logger /\ path[Root] = <<Root>> /\ \A l \in Born : l = Root
  BY <1>2, BrowserAssumption DEF Born
<1>5. Root \in Born /\ ToSet(path[Root]) = {Root}
  BY <1>2, <1>4 DEF Born, ToSet
<1>6. PathsOK
  <2>1. path \in [Logger -> Seq(Logger)]
    BY <1>2, BrowserAssumption
  <2>2. level \in [Logger -> DOMAIN Values \cup {Silent, Absent}]
    BY <1>1, <1>3
  <2>3. open \in [Logger -> SUBSET DOMAIN Values]
    BY <1>1, <1>3 DEF OpenAt
  <2>4. ASSUME NEW l \in Logger, path[l] = << >> PROVE level[l] = Absent
    BY <2>4, <1>1, <1>2, <1>4
  <2>5. ASSUME NEW l \in Logger, path[l] # << >>
        PROVE  /\ path[l][1] = Root /\ path[l][Len(path[l])] = l
               /\ \A i \in 2 .. Len(path[l]) : path[l][i] # Root
               /\ ToSet(path[l]) \subseteq Born
    BY <2>5, <1>2, <1>4, <1>5
  <2>6. givenTo \in Seq(Born) /\ Len(givenTo) <= MaxGiven
    BY <1>2, BrowserAssumption
  <2> QED
    BY <2>1, <2>2, <2>3, <2>4, <2>5, <2>6, <1>4 DEF PathsOK
<1>7. \A loggers : Among(givenTo, loggers) = {}
  BY <1>2 DEF Among
<1>8. BindingsOK
  BY <1>2, <1>4, <1>7 DEF BindingsOK, Born
<1>9. \A l \in Born : Shows(<< >>, l, path, givenTo)
  BY <1>7 DEF Shows, HeldIn
<1>10. ChainOK
  BY <1>2, <1>4, <1>9 DEF ChainOK, Born
<1>11. EventBindingsOK
  <2>1. eventBindings \in [Logger -> Seq(Object)]
    BY <1>2
  <2>2. ASSUME NEW l \in Born
        PROVE  /\ Shows(eventBindings[l], l, path, givenTo)
               /\ \A a \in ToSet(path[l]) : bindings[a] = Absent
               /\ ToSet(chain[l]) = {}
    BY <1>2, <1>4, <1>5, <1>9 DEF ToSet
  <2> QED
    BY <2>1, <2>2 DEF EventBindingsOK
<1> QED
  BY <1>6, <1>8, <1>10, <1>11 DEF OwnInv

LEMMA EventsInit == Init => EventsOK /\ ShownOK
<1> SUFFICES ASSUME Init PROVE EventsOK /\ ShownOK
  OBVIOUS
<1>1. PICK opt \in Options :
        /\ config = [customLevels |-> opt.customLevels, transmit |-> opt.transmit,
                     asObject |-> opt.asObject]
        /\ events = IF opt.transmit # Absent THEN <<NewEvent(Root, Root)>> ELSE << >>
  BY DEF Init
<1>2. /\ path = [l \in Logger |-> IF l = Root THEN <<Root>> ELSE << >>]
      /\ current = [l \in Logger |-> IF l = Root THEN Len(events) ELSE 0]
      /\ sending = << >> /\ calls = 0 /\ obs = Quiet
  BY DEF Init
<1>3. events = IF Transmits THEN <<NewEvent(Root, Root)>> ELSE << >>
  BY <1>1 DEF Transmits
<1>4. Root \in Born /\ \A l \in Born : l = Root
  BY <1>2, BrowserAssumption DEF Born
<1>5. /\ NewEvent(Root, Root) \in Event
      /\ NewEvent(Root, Root).of = Root /\ NewEvent(Root, Root).call = 0
      /\ NewEvent(Root, Root).slipped = {} /\ NewEvent(Root, Root).array = Root
  BY BrowserAssumption DEF NewEvent, Event
<1>6. /\ events \in Seq(Event) /\ current \in [Logger -> Nat]
      /\ \A e \in DOMAIN events : e = 1 /\ events[e] = NewEvent(Root, Root)
      /\ (Transmits => 1 \in DOMAIN events /\ Len(events) = 1)
      /\ (~Transmits => events = << >> /\ Len(events) = 0)
  <2>1. CASE Transmits
    BY <2>1, <1>2, <1>3, <1>5
  <2>2. CASE ~Transmits
    BY <2>2, <1>2, <1>3
  <2> QED
    BY <2>1, <2>2
<1>7. EventsOK
  <2>1. calls \in Nat /\ sending \in Seq([of : Logger, event : Nat]) /\ DOMAIN sending = {}
    BY <1>2
  <2>2. ASSUME NEW e \in DOMAIN events
        PROVE  /\ events[e].of \in Born /\ events[e].call <= calls
               /\ events[e].array = events[e].of /\ events[e].slipped = {}
    BY <1>2, <1>4, <1>5, <1>6
  <2>3. ASSUME NEW l \in Logger, Transmits, l \in Born
        PROVE  /\ current[l] \in DOMAIN events /\ events[current[l]].of = l
               /\ events[current[l]].call = 0
    <3>1. l = Root /\ current[l] = Len(events) /\ Len(events) = 1
      BY <2>3, <1>2, <1>4, <1>6
    <3>2. 1 \in DOMAIN events /\ events[1] = NewEvent(Root, Root)
      BY <2>3, <1>6
    <3> QED
      BY <3>1, <3>2, <1>5
  <2>4. ASSUME NEW l \in Logger, ~(Transmits /\ l \in Born) PROVE current[l] = 0
    BY <2>4, <1>2, <1>4, <1>6
  <2> QED
    BY <2>1, <2>2, <2>3, <2>4, <1>6 DEF EventsOK
<1>8. ShownOK
  BY <1>2 DEF ShownOK, Quiet
<1> QED
  BY <1>7, <1>8

-----------------------------------------------------------------------------
(* The steps *)

LEMMA ChangedOnMore ==
    ASSUME NEW line, NEW more, NEW paths, NEW given,
           ToSet(line) \subseteq ToSet(more), Changed(line, paths, given)
    PROVE  Changed(more, paths, given)
BY DEF Changed

\* Every logger but the root was given bindings when it was made.
LEMMA GivenToAll ==
    ASSUME OwnInv, NEW l \in Born
    PROVE  Among(givenTo, {l}) # {} \/ ToSet(path[l]) = {Root}
<1>1. CASE l = Root
  BY <1>1 DEF OwnInv, PathsOK, ToSet
<1>2. CASE l # Root
  BY <1>2 DEF OwnInv, BindingsOK
<1> QED
  BY <1>1, <1>2

LEMMA QuietKeepsBindings ==
    ASSUME BindingsInv, UNCHANGED <<tree, level, bindings, open, chain, eventBindings, givenTo>>
    PROVE  BindingsInv'
<1>1. Values' = Values /\ (Transmits' <=> Transmits) /\ Born' = Born
  BY DEF tree, Values, Transmits, Born
<1>2. PathsOK'
  BY <1>1 DEF BindingsInv, OwnInv, PathsOK, tree
<1>3. BindingsOK'
  BY <1>1 DEF BindingsInv, OwnInv, BindingsOK, tree
<1>4. ChainOK'
  BY <1>1 DEF BindingsInv, ChainOK, tree
<1>5. EventBindingsOK'
  BY <1>1 DEF BindingsInv, EventBindingsOK, tree
<1> QED
  BY <1>2, <1>3, <1>4, <1>5 DEF BindingsInv, OwnInv

\* A level assignment makes the chain of bindings anew.
LEMMA ChainStep ==
    ASSUME OwnInv', NEW l \in Born', chain \in [Logger -> Seq(Object)],
           chain' = [chain EXCEPT ![l] = BindingChain(path'[l], bindings')],
           \A m \in Born' \ {l} :
              /\ Shows(chain[m], m, path', givenTo')
              /\ \/ Len(chain[m]) < Len(path'[m])
                 \/ \E i \in DOMAIN chain[m] : chain[m][i].holds \cap Among(givenTo', {Root}) # {}
    PROVE  /\ ChainOK'
           /\ \A m \in Logger \ {l} : chain'[m] = chain[m]
           /\ \A object \in ToSet(chain'[l]) :
                \E a \in ToSet(path'[l]) : bindings'[a] # Absent /\ object = bindings'[a]
<1>a. PICK made : made = BindingChain(path'[l], bindings')
  OBVIOUS
<1>1. /\ l \in Logger /\ path'[l] \in Seq(Logger) /\ path'[l] # << >> /\ path'[l][1] = Root
      /\ \A i \in 2 .. Len(path'[l]) : path'[l][i] # Root
      /\ path'[l][Len(path'[l])] = l /\ ToSet(path'[l]) \subseteq Born'
  BY DEF OwnInv, PathsOK, Born
<1>2. Len(path'[l]) \in DOMAIN path'[l]
  BY <1>1
<1>3. l \in ToSet(path'[l])
  BY <1>1, <1>2 DEF ToSet
<1>4. bindings' \in [Logger -> Object \cup {Absent}]
  BY DEF OwnInv, BindingsOK
<1>5. \A a \in ToSet(path'[l]) :
         IF bindings'[a] = Absent THEN a = Root /\ Among(givenTo', {a}) = {}
         ELSE bindings'[a].holds = Among(givenTo', {a}) /\ bindings'[a].holds # {}
  BY <1>1 DEF OwnInv, BindingsOK
<1>6. /\ made \in Seq(Object)
      /\ Shows(made, l, path', givenTo')
      /\ \/ Len(made) < Len(path'[l])
         \/ \E i \in DOMAIN made : made[i].holds \cap Among(givenTo', {Root}) # {}
      /\ \A object \in ToSet(made) :
           \E a \in ToSet(path'[l]) : bindings'[a] # Absent /\ object = bindings'[a]
  <2>1. PICK line \in Seq(Logger) : line = path'[l]
    BY <1>1
  <2>2. PICK given : given = givenTo'
    OBVIOUS
  <2>3. PICK objects \in [Logger -> Object \cup {Absent}] : objects = bindings'
    BY <1>4
  <2>4. /\ line # << >> /\ line[1] = Root
        /\ \A i \in 2 .. Len(line) : line[i] # Root
    BY <1>1, <2>1
  <2>5. HoldGiven(line, objects, given)
    BY <1>5, <2>1, <2>2, <2>3 DEF HoldGiven
  <2>6. /\ HeldIn(BindingChain(line, objects)) = Among(given, ToSet(line))
        /\ \/ Len(BindingChain(line, objects)) < Len(line)
           \/ \E i \in DOMAIN BindingChain(line, objects) :
                 BindingChain(line, objects)[i].holds \cap Among(given, {Root}) # {}
    BY <2>4, <2>5, ChainShows, Zenon
  <2>7. \A a \in ToSet(line) : objects[a] = Absent => a = Root
    BY <2>5 DEF HoldGiven
  <2>8. /\ BindingChain(line, objects) \in Seq(Object)
        /\ \A object : object \in ToSet(BindingChain(line, objects)) <=>
              \E a \in ToSet(line) : objects[a] # Absent /\ object = objects[a]
    BY <2>4, <2>7, ChainMeans
  <2>9. /\ HeldIn(made) = Among(givenTo', ToSet(path'[l]))
        /\ \/ Len(made) < Len(path'[l])
           \/ \E i \in DOMAIN made : made[i].holds \cap Among(givenTo', {Root}) # {}
        /\ made \in Seq(Object)
        /\ \A object \in ToSet(made) :
             \E a \in ToSet(path'[l]) : bindings'[a] # Absent /\ object = bindings'[a]
    BY <1>a, <2>1, <2>2, <2>3, <2>6, <2>8
  <2>10. Among(givenTo', {l}) \subseteq Among(givenTo', ToSet(path'[l]))
    BY <1>3 DEF Among
  <2> QED
    BY <2>9, <2>10 DEF Shows
<1>7. chain' = [chain EXCEPT ![l] = made]
  BY <1>a
<1>8. chain'[l] = made /\ \A m \in Logger \ {l} : chain'[m] = chain[m]
  BY <1>1, <1>7
<1>9. chain' \in [Logger -> Seq(Object)]
  BY <1>6, <1>7
<1>10. ASSUME NEW m \in Born'
       PROVE  /\ Shows(chain'[m], m, path', givenTo')
              /\ \/ Len(chain'[m]) < Len(path'[m])
                 \/ \E i \in DOMAIN chain'[m] :
                       chain'[m][i].holds \cap Among(givenTo', {Root}) # {}
  <2>1. CASE m = l
    BY <2>1, <1>6, <1>8
  <2>2. CASE m # l
    <3>1. chain'[m] = chain[m]
      BY <2>2, <1>8 DEF Born
    <3> QED
      BY <2>2, <3>1
  <2> QED
    BY <2>1, <2>2
<1> QED
  BY <1>6, <1>8, <1>9, <1>10 DEF ChainOK

\* A call of send() with the event is under way.
InSend(e) == \E i \in DOMAIN sending : sending[i].event = e

LEMMA EventsGive ==
    ASSUME EventsOK
    PROVE  /\ DOMAIN events = 1 .. Len(events) /\ Len(events) \in Nat /\ calls \in Nat
           /\ events \in Seq(Event) /\ current \in [Logger -> Nat]
           /\ sending \in Seq([of : Logger, event : Nat])
           /\ \A e \in DOMAIN events :
                 /\ events[e] \in Event /\ events[e].of \in Born /\ events[e].call <= calls
                 /\ events[e].array = events[e].of
                 /\ \A object \in events[e].slipped : object.merged
           /\ \A l \in Born : Transmits =>
                 /\ current[l] \in DOMAIN events /\ events[current[l]].of = l
                 /\ events[current[l]].call = 0 \/ current[l] \in failed \/ InSend(current[l])
           /\ \A l \in Logger : ~(Transmits /\ l \in Born) => current[l] = 0
           /\ \A i \in DOMAIN sending :
                 /\ sending[i].event \in DOMAIN events
                 /\ events[sending[i].event].of = sending[i].of
           /\ ~Transmits => events = << >>
<1>1. events \in Seq(Event) /\ \A e \in DOMAIN events : events[e] \in Event
  BY DEF EventsOK
<1>2. DOMAIN events = 1 .. Len(events) /\ Len(events) \in Nat
  BY <1>1
<1>3. ASSUME NEW l \in Born, Transmits
      PROVE  /\ current[l] \in DOMAIN events /\ events[current[l]].of = l
             /\ events[current[l]].call = 0 \/ current[l] \in failed \/ InSend(current[l])
  <2>1. l \in Logger
    BY DEF Born
  <2> QED
    BY <1>3, <2>1 DEF EventsOK, InSend
<1> QED
  BY <1>1, <1>2, <1>3 DEF EventsOK

\* An event refers to the array that was made for its logger: child() makes a new
\* one, and the events that follow it get the same.
LEMMA ArraysGive ==
    ASSUME EventsOK, Transmits, NEW l \in Born
    PROVE  ArrayOf(l) = l
BY EventsGive DEF ArrayOf

LEMMA OpenAtType == \A values, transmit, own : OpenAt(values, transmit, own) \subseteq DOMAIN values
BY DEF OpenAt

\* A level assignment alone: the log functions get the bindings there are now.
LEMMA SetLevelKeepsBindings ==
    ASSUME BindingsInv, NEW l \in Born, NEW k \in LevelArgs, SetLevel(l, k)
    PROVE  BindingsInv'
<1>1. /\ UNCHANGED <<config, path, bindings, eventBindings, givenTo>>
      /\ LevelKnown(k)
      /\ level' = [level EXCEPT ![l] = k]
      /\ open' = [open EXCEPT ![l] = OpenAt(Values, config.transmit, k)]
      /\ chain' = [chain EXCEPT ![l] = BindingChain(path[l], bindings)]
  BY DEF SetLevel, AssignLevel, tree
<1>2. Values' = Values /\ (Transmits' <=> Transmits) /\ Born' = Born
  BY <1>1 DEF Values, Transmits, Born
<1>3. PathsOK'
  <2>1. level' \in [Logger -> DOMAIN Values \cup {Silent, Absent}]
    BY <1>1 DEF LevelKnown, BindingsInv, OwnInv, PathsOK
  <2>2. open' \in [Logger -> SUBSET DOMAIN Values]
    BY <1>1, OpenAtType DEF BindingsInv, OwnInv, PathsOK
  <2>3. \A m \in Logger : path[m] = << >> => level'[m] = Absent
    BY <1>1 DEF BindingsInv, OwnInv, PathsOK, Born
  <2> QED
    BY <1>1, <1>2, <2>1, <2>2, <2>3 DEF BindingsInv, OwnInv, PathsOK
<1>4. BindingsOK'
  BY <1>1, <1>2 DEF BindingsInv, OwnInv, BindingsOK
<1>5. /\ ChainOK' /\ \A m \in Logger \ {l} : chain'[m] = chain[m]
      /\ \A object \in ToSet(chain'[l]) :
           \E a \in ToSet(path[l]) : bindings[a] # Absent /\ object = bindings[a]
  <2>1. OwnInv' /\ l \in Born'
    BY <1>2, <1>3, <1>4 DEF OwnInv
  <2>2. /\ chain \in [Logger -> Seq(Object)]
        /\ chain' = [chain EXCEPT ![l] = BindingChain(path'[l], bindings')]
    BY <1>1 DEF BindingsInv, ChainOK
  <2>3. \A m \in Born' \ {l} :
           /\ Shows(chain[m], m, path', givenTo')
           /\ \/ Len(chain[m]) < Len(path'[m])
              \/ \E i \in DOMAIN chain[m] : chain[m][i].holds \cap Among(givenTo', {Root}) # {}
    BY <1>1, <1>2 DEF BindingsInv, ChainOK
  <2>4. path'[l] = path[l] /\ bindings' = bindings
    BY <1>1
  <2>5. /\ ChainOK'
        /\ \A m \in Logger \ {l} : chain'[m] = chain[m]
        /\ \A object \in ToSet(chain'[l]) :
             \E a \in ToSet(path'[l]) : bindings'[a] # Absent /\ object = bindings'[a]
    BY <2>1, <2>2, <2>3, ChainStep
  <2> QED
    BY <2>4, <2>5
<1>6. EventBindingsOK'
  <2> SUFFICES ASSUME Transmits, NEW m \in Born
               PROVE  \A object \in ToSet(chain'[m]) :
                        object.merged \/ object \in ToSet(eventBindings[m])
    BY <1>1, <1>2 DEF BindingsInv, EventBindingsOK
  <2>1. CASE m = l
    BY <2>1, <1>5 DEF BindingsInv, EventBindingsOK
  <2>2. CASE m # l
    <3>1. chain'[m] = chain[m]
      BY <2>2, <1>5 DEF Born
    <3> QED
      BY <3>1 DEF BindingsInv, EventBindingsOK
  <2> QED
    BY <2>1, <2>2
<1> QED
  BY <1>3, <1>4, <1>5, <1>6 DEF BindingsInv, OwnInv

\* What the two ways to make a logger or its bindings new do to the rest: what
\* the other loggers show stays what it was.
LEMMA OthersKeep ==
    ASSUME OwnInv, NEW k \in Logger,
           \A m \in Born : path'[m] = path[m],
           NEW m \in Born, m # k, NEW objects, Shows(objects, m, path, givenTo)
    PROVE  Shows(objects, m, path', Append(givenTo, k))
<1>1. m \in Logger /\ m \in ToSet(path[m])
  BY PathsGive DEF OwnInv
<1>2. givenTo \in Seq(Logger) /\ \A i \in DOMAIN givenTo : givenTo[i] \in Born
  BY DEF OwnInv, PathsOK, Born
<1>3. \A i \in DOMAIN givenTo : path'[givenTo[i]] = path[givenTo[i]]
  BY <1>2
<1>4. Among(givenTo, {m}) # {} \/ k \notin ToSet(path[m])
  BY <1>1, GivenToAll
<1>5. PICK after : after = path'
  OBVIOUS
<1>6. PICK before : before = path
  OBVIOUS
<1>7. PICK given \in Seq(Logger) : given = givenTo
  BY <1>2
<1>8. /\ m \in Logger /\ m # k /\ after[m] = before[m] /\ m \in ToSet(before[m])
      /\ Among(given, {m}) # {} \/ k \notin ToSet(before[m])
      /\ Shows(objects, m, before, given)
  BY <1>1, <1>4, <1>5, <1>6, <1>7
<1>9. PathsStay(given, before, after)
  BY <1>3, <1>5, <1>6, <1>7 DEF PathsStay
<1>10. Shows(objects, m, after, Append(given, k))
  BY <1>8, <1>9, ShowsStays
<1> QED
  BY <1>5, <1>7, <1>10

\* setBindings: what the logger and its event show has one more, and what its
\* descendants show stays.
LEMMA SetBindingsKeepsBindings ==
    ASSUME BindingsInv, EventsOK, NEW l \in Born, SetBindings(l)
    PROVE  BindingsInv'
<1> DEFINE n == Len(givenTo) + 1
<1>1. /\ UNCHANGED <<config, path>> /\ n <= MaxGiven
      /\ bindings' = [bindings EXCEPT ![l] = MergedWith(bindings[l], n)]
      /\ eventBindings' = IF Transmits
                          THEN [eventBindings EXCEPT ![l] = Append(@, Given(n))]
                          ELSE eventBindings
      /\ givenTo' = Append(givenTo, l)
      /\ level' = [level EXCEPT ![l] = level[l]]
      /\ open' = [open EXCEPT ![l] = OpenAt(Values, config.transmit, level[l])]
      /\ chain' = [chain EXCEPT ![l] = BindingChain(path[l], bindings')]
  BY ArraysGive DEF SetBindings, AssignLevel, tree
<1>2. Values' = Values /\ (Transmits' <=> Transmits) /\ Born' = Born
  BY <1>1 DEF Values, Transmits, Born
<1>3. /\ l \in Logger /\ path[l] \in Seq(Logger) /\ l \in ToSet(path[l])
      /\ ToSet(path[l]) \subseteq Born
  BY PathsGive DEF BindingsInv, OwnInv
<1>4. /\ givenTo \in Seq(Born) /\ givenTo \in Seq(Logger) /\ Len(givenTo) \in Nat
      /\ n \in 1 .. MaxGiven
  BY <1>1, BrowserAssumption DEF BindingsInv, OwnInv, PathsOK, Born
<1>5. bindings[l] \in Object \cup {Absent}
  BY <1>3 DEF BindingsInv, OwnInv, BindingsOK
<1>6. /\ Given(n) \in Object /\ Given(n).holds = {n}
      /\ MergedWith(bindings[l], n) \in Object /\ MergedWith(bindings[l], n) # Absent
      /\ MergedWith(bindings[l], n).merged
      /\ MergedWith(bindings[l], n).holds
            = {n} \cup (IF bindings[l] = Absent THEN {} ELSE bindings[l].holds)
  BY <1>4, <1>5, ObjectsMade
<1>7. PICK object \in Object : object = MergedWith(bindings[l], n)
  BY <1>6
<1> HIDE DEF n
<1>8. /\ bindings' = [bindings EXCEPT ![l] = object]
      /\ bindings'[l] = object /\ \A m \in Logger \ {l} : bindings'[m] = bindings[m]
      /\ object # Absent /\ object.merged
      /\ object.holds = {n} \cup (IF bindings[l] = Absent THEN {} ELSE bindings[l].holds)
  BY <1>1, <1>3, <1>6, <1>7 DEF BindingsInv, OwnInv, BindingsOK
<1>9. \A loggers : Among(givenTo', loggers)
         = Among(givenTo, loggers) \cup (IF l \in loggers THEN {n} ELSE {})
  BY <1>1, <1>3, <1>4, AmongAppend, Zenon DEF n
<1>10. PathsOK'
  <2>1. givenTo' \in Seq(Born) /\ Len(givenTo') <= MaxGiven
    BY <1>1, <1>4 DEF n
  <2>2. level' = level
    BY <1>1 DEF BindingsInv, OwnInv, PathsOK
  <2>3. open' \in [Logger -> SUBSET DOMAIN Values]
    BY <1>1, OpenAtType DEF BindingsInv, OwnInv, PathsOK
  <2> QED
    BY <1>1, <1>2, <2>1, <2>2, <2>3 DEF BindingsInv, OwnInv, PathsOK
<1>11. BindingsOK'
  <2>1. bindings' \in [Logger -> Object \cup {Absent}]
    BY <1>8 DEF BindingsInv, OwnInv, BindingsOK
  <2>2. ASSUME NEW m \in Born
        PROVE  IF bindings'[m] = Absent THEN m = Root /\ Among(givenTo', {m}) = {}
               ELSE bindings'[m].holds = Among(givenTo', {m}) /\ bindings'[m].holds # {}
    <3>1. CASE m = l
      <4>1. Among(givenTo, {l}) = IF bindings[l] = Absent THEN {} ELSE bindings[l].holds
        BY DEF BindingsInv, OwnInv, BindingsOK
      <4>2. Among(givenTo', {l}) = Among(givenTo, {l}) \cup {n}
        BY <1>9
      <4> QED
        BY <3>1, <4>1, <4>2, <1>8
    <3>2. CASE m # l
      <4>1. bindings'[m] = bindings[m]
        BY <3>2, <1>8 DEF Born
      <4>2. Among(givenTo', {m}) = Among(givenTo, {m})
        BY <3>2, <1>9
      <4> QED
        BY <4>1, <4>2 DEF BindingsInv, OwnInv, BindingsOK
    <3> QED
      BY <3>1, <3>2
  <2> QED
    BY <1>2, <2>1, <2>2 DEF BindingsOK
<1>12. ASSUME NEW m \in Born, m # l, NEW objects, Shows(objects, m, path, givenTo)
       PROVE  Shows(objects, m, path', givenTo')
  <2>1. \A o \in Born : path'[o] = path[o]
    BY <1>1
  <2>2. Shows(objects, m, path', Append(givenTo, l))
    BY <1>3, <1>12, <2>1, OthersKeep DEF BindingsInv
  <2> QED
    BY <1>1, <2>2
<1>13. /\ ChainOK' /\ \A m \in Logger \ {l} : chain'[m] = chain[m]
       /\ \A o \in ToSet(chain'[l]) :
            \E a \in ToSet(path[l]) : bindings'[a] # Absent /\ o = bindings'[a]
  <2>1. OwnInv' /\ l \in Born'
    BY <1>2, <1>10, <1>11 DEF OwnInv
  <2>2. /\ chain \in [Logger -> Seq(Object)]
        /\ chain' = [chain EXCEPT ![l] = BindingChain(path'[l], bindings')]
    BY <1>1 DEF BindingsInv, ChainOK
  <2>3. Among(givenTo, {Root}) \subseteq Among(givenTo', {Root})
    BY <1>9
  <2>4. ASSUME NEW m \in Born' \ {l}
        PROVE  /\ Shows(chain[m], m, path', givenTo')
               /\ \/ Len(chain[m]) < Len(path'[m])
                  \/ \E i \in DOMAIN chain[m] :
                        chain[m][i].holds \cap Among(givenTo', {Root}) # {}
    <3>1. /\ m \in Born /\ m # l /\ Shows(chain[m], m, path, givenTo)
          /\ \/ Len(chain[m]) < Len(path[m])
             \/ \E i \in DOMAIN chain[m] : chain[m][i].holds \cap Among(givenTo, {Root}) # {}
      BY <1>2 DEF BindingsInv, ChainOK
    <3>2. Shows(chain[m], m, path', givenTo')
      BY <3>1, <1>12
    <3> QED
      BY <1>1, <2>3, <3>1, <3>2
  <2>5. /\ ChainOK'
        /\ \A m \in Logger \ {l} : chain'[m] = chain[m]
        /\ \A o \in ToSet(chain'[l]) :
             \E a \in ToSet(path'[l]) : bindings'[a] # Absent /\ o = bindings'[a]
    BY <2>1, <2>2, <2>4, ChainStep
  <2> QED
    BY <1>1, <2>5
<1>14. CASE ~Transmits
  <2>1. EventBindingsOK'
    BY <1>1, <1>2, <1>14 DEF BindingsInv, EventBindingsOK
  <2> QED
    BY <1>10, <1>11, <1>13, <2>1 DEF BindingsInv, OwnInv
<1>15. CASE Transmits
  <2>1. /\ eventBindings \in [Logger -> Seq(Object)] /\ eventBindings[l] \in Seq(Object)
        /\ eventBindings' = [eventBindings EXCEPT ![l] = Append(eventBindings[l], Given(n))]
    BY <1>1, <1>3, <1>15 DEF BindingsInv, EventBindingsOK, n
  <2>2. PICK more \in Seq(Object) : more = Append(eventBindings[l], Given(n))
    BY <1>6, <2>1, AppendProps
  <2>3. /\ eventBindings' \in [Logger -> Seq(Object)]
        /\ eventBindings'[l] = more
        /\ \A m \in Logger \ {l} : eventBindings'[m] = eventBindings[m]
    BY <2>1, <2>2, <1>3
  <2>4. HeldIn(more) = HeldIn(eventBindings[l]) \cup {n}
    BY <2>1, <2>2, <1>6, HeldInOfAppend
  <2>5. ToSet(eventBindings[l]) \subseteq ToSet(more)
    BY <2>1, <2>2, <1>6, ToSetOfAppend
  <2>6. Shows(eventBindings[l], l, path, givenTo)
    BY <1>15 DEF BindingsInv, EventBindingsOK
  <2>7. Shows(more, l, path', givenTo')
    <3>1. Changed(path[l], path, givenTo) => Changed(path[l], path, Append(givenTo, l))
      <4>1. PICK before : before = path
        OBVIOUS
      <4>2. PathsStay(givenTo, before, before)
        BY DEF PathsStay
      <4>3. Changed(before[l], before, givenTo) => Changed(before[l], before, Append(givenTo, l))
        BY <1>3, <1>4, <4>2, ChangedStays
      <4> QED
        BY <4>1, <4>3
    <3>2. /\ Among(givenTo', {l}) = Among(givenTo, {l}) \cup {n}
          /\ Among(givenTo', ToSet(path[l])) = Among(givenTo, ToSet(path[l])) \cup {n}
      BY <1>3, <1>9
    <3> QED
      BY <1>1, <2>4, <2>6, <3>1, <3>2 DEF Shows
  <2>8. ASSUME NEW m \in Born PROVE Shows(eventBindings'[m], m, path', givenTo')
    <3>1. CASE m = l
      BY <3>1, <2>3, <2>7
    <3>2. CASE m # l
      <4>1. Shows(eventBindings[m], m, path, givenTo) /\ eventBindings'[m] = eventBindings[m]
        BY <3>2, <1>15, <2>3 DEF BindingsInv, EventBindingsOK, Born
      <4> QED
        BY <3>2, <4>1, <1>12
    <3> QED
      BY <3>1, <3>2
  <2>9. ASSUME NEW m \in Born PROVE ToSet(eventBindings[m]) \subseteq ToSet(eventBindings'[m])
    <3>1. m \in Logger
      BY DEF Born
    <3> QED
      BY <2>3, <2>5, <3>1
  <2>10. ASSUME NEW m \in Born, NEW a \in ToSet(path[m])
         PROVE  \/ bindings'[a] = Absent \/ bindings'[a].merged
                \/ bindings'[a] \in ToSet(eventBindings'[m])
    <3>1. CASE a = l
      BY <3>1, <1>8
    <3>2. CASE a # l
      <4>1. a \in Logger
        BY PathsGive DEF BindingsInv, OwnInv, Born
      <4>2. bindings'[a] = bindings[a]
        BY <3>2, <4>1, <1>8
      <4>3. bindings[a] = Absent \/ bindings[a].merged \/ bindings[a] \in ToSet(eventBindings[m])
        BY <1>15 DEF BindingsInv, EventBindingsOK
      <4> QED
        BY <4>2, <4>3, <2>9
    <3> QED
      BY <3>1, <3>2
  <2>11. ASSUME NEW m \in Born, NEW o \in ToSet(chain'[m])
         PROVE  o.merged \/ o \in ToSet(eventBindings'[m])
    <3>1. CASE m = l
      BY <3>1, <1>13, <2>10
    <3>2. CASE m # l
      <4>1. chain'[m] = chain[m]
        BY <3>2, <1>13 DEF Born
      <4>2. o.merged \/ o \in ToSet(eventBindings[m])
        BY <4>1, <1>15 DEF BindingsInv, EventBindingsOK
      <4> QED
        BY <4>2, <2>9
    <3> QED
      BY <3>1, <3>2
  <2>12. EventBindingsOK'
    BY <1>1, <1>2, <2>3, <2>8, <2>10, <2>11 DEF EventBindingsOK
  <2> QED
    BY <1>10, <1>11, <1>13, <2>12 DEF BindingsInv, OwnInv
<1> QED
  BY <1>14, <1>15

\* child(): the new logger's bindings are the last given, its chain is made of
\* what its ancestors have by now, its event's array is the parent's and one more.
LEMMA ChildKeepsBindings ==
    ASSUME BindingsInv, EventsOK, NEW p \in Born, NEW c \in Logger,
           NEW k \in LevelArgs \cup {Absent}, Child(p, c, k)
    PROVE  BindingsInv'
<1> DEFINE n == Len(givenTo) + 1
           own == IF k = Absent THEN level[p] ELSE k
<1>1. /\ config' = config /\ c \notin Born /\ n <= MaxGiven /\ LevelKnown(own)
      /\ path' = [path EXCEPT ![c] = Append(path[p], c)]
      /\ bindings' = [bindings EXCEPT ![c] = Given(n)]
      /\ givenTo' = Append(givenTo, c)
      /\ eventBindings' = IF Transmits
                          THEN [eventBindings EXCEPT ![c] = Append(eventBindings[p], Given(n))]
                          ELSE eventBindings
      /\ level' = [level EXCEPT ![c] = own]
      /\ open' = [open EXCEPT ![c] = OpenAt(Values, config.transmit, own)]
      /\ chain' = [chain EXCEPT ![c] = BindingChain(path'[c], bindings')]
  BY ArraysGive DEF Child, AssignLevel, ChildEventBindings, ArrayFor
<1>2. /\ p \in Logger /\ path[p] \in Seq(Logger) /\ path[p] # << >> /\ path[p][1] = Root
      /\ \A i \in 2 .. Len(path[p]) : path[p][i] # Root
      /\ p \in ToSet(path[p]) /\ ToSet(path[p]) \subseteq Born
  BY PathsGive DEF BindingsInv, OwnInv
<1>3. Root \in Born /\ c # Root
  <2>1. Root \in Logger /\ path[Root] = <<Root>>
    BY BrowserAssumption DEF BindingsInv, OwnInv, PathsOK
  <2>2. <<Root>> # << >>
    OBVIOUS
  <2>3. Root \in Born
    BY <2>1, <2>2, Zenon DEF Born
  <2> QED
    BY <2>3, <1>1
<1>4. PICK line \in Seq(Logger) : line = Append(path[p], c)
  BY <1>2, AppendProps
<1>5. /\ line # << >> /\ line[1] = Root /\ line[Len(line)] = c
      /\ \A i \in 2 .. Len(line) : line[i] # Root
      /\ ToSet(line) = ToSet(path[p]) \cup {c}
      /\ Len(line) \in Nat
  <2>1. /\ Len(line) = Len(path[p]) + 1 /\ line[Len(path[p]) + 1] = c
        /\ \A i \in 1 .. Len(path[p]) : line[i] = path[p][i]
        /\ Len(path[p]) \in Nat
    BY <1>2, <1>4, AppendProps
  <2>2. Len(path[p]) >= 1
    BY <1>2
  <2>3. ToSet(line) = ToSet(path[p]) \cup {c}
    BY <1>2, <1>4, ToSetOfAppend
  <2>4. ASSUME NEW i \in 2 .. Len(line) PROVE line[i] # Root
    <3>1. CASE i = Len(path[p]) + 1
      BY <3>1, <2>1, <1>3
    <3>2. CASE i # Len(path[p]) + 1
      <4>1. i \in 2 .. Len(path[p]) /\ line[i] = path[p][i]
        BY <3>2, <2>1
      <4> QED
        BY <4>1, <1>2
    <3> QED
      BY <3>1, <3>2
  <2> QED
    BY <2>1, <2>2, <2>3, <2>4, <1>2
<1>6. /\ path' \in [Logger -> Seq(Logger)] /\ path'[c] = line
      /\ \A m \in Logger \ {c} : path'[m] = path[m]
  BY <1>1, <1>4 DEF BindingsInv, OwnInv, PathsOK
<1>7. /\ Values' = Values /\ (Transmits' <=> Transmits) /\ Born' = Born \cup {c}
      /\ \A m \in Born : path'[m] = path[m]
  BY <1>1, <1>5, <1>6 DEF Values, Transmits, Born
<1>8. /\ givenTo \in Seq(Born) /\ givenTo \in Seq(Logger) /\ Len(givenTo) \in Nat
      /\ n \in 1 .. MaxGiven
  <2>1. givenTo \in Seq(Born) /\ MaxGiven \in Nat
    BY BrowserAssumption DEF BindingsInv, OwnInv, PathsOK
  <2>2. givenTo \in Seq(Logger) /\ Len(givenTo) \in Nat
    BY <2>1 DEF Born
  <2>3. n <= MaxGiven
    BY <1>1
  <2> QED
    BY <2>1, <2>2, <2>3
<1>9. PICK object \in Object : object = Given(n)
  BY <1>8, ObjectsMade
<1>10. object.holds = {n} /\ object # Absent
  BY <1>8, <1>9, ObjectsMade
<1>11. \A loggers : Among(givenTo', loggers)
         = Among(givenTo, loggers) \cup (IF c \in loggers THEN {n} ELSE {})
  BY <1>1, <1>8, AmongAppend, Zenon DEF n
<1>12. Among(givenTo, {c}) = {} /\ Among(givenTo, ToSet(line)) = Among(givenTo, ToSet(path[p]))
  <2>1. \A i \in DOMAIN givenTo : givenTo[i] # c
    BY <1>1, <1>8
  <2> QED
    BY <2>1, <1>5 DEF Among
<1> HIDE DEF n
<1>13. /\ bindings' \in [Logger -> Object \cup {Absent}] /\ bindings'[c] = object
       /\ \A m \in Logger \ {c} : bindings'[m] = bindings[m]
  BY <1>1, <1>9 DEF BindingsInv, OwnInv, BindingsOK
<1>14. PathsOK'
  <2>1. givenTo' \in Seq(Born') /\ Len(givenTo') <= MaxGiven
    BY <1>1, <1>7, <1>8 DEF n
  <2>2. own \in DOMAIN Values \cup {Silent}
    BY <1>1 DEF LevelKnown
  <2> HIDE DEF own
  <2>3. level' \in [Logger -> DOMAIN Values \cup {Silent, Absent}]
    BY <1>1, <2>2 DEF BindingsInv, OwnInv, PathsOK
  <2>4. open' \in [Logger -> SUBSET DOMAIN Values]
    BY <1>1, OpenAtType DEF BindingsInv, OwnInv, PathsOK
  <2>5. ASSUME NEW m \in Logger
        PROVE  IF path'[m] = << >> THEN level'[m] = Absent
               ELSE /\ path'[m][1] = Root /\ path'[m][Len(path'[m])] = m
                    /\ \A i \in 2 .. Len(path'[m]) : path'[m][i] # Root
                    /\ ToSet(path'[m]) \subseteq Born'
    <3>1. CASE m = c
      BY <3>1, <1>2, <1>5, <1>6, <1>7
    <3>2. CASE m # c
      <4>1. path'[m] = path[m] /\ level'[m] = level[m]
        BY <3>2, <1>1, <1>6 DEF BindingsInv, OwnInv, PathsOK
      <4> QED
        BY <4>1, <1>7 DEF BindingsInv, OwnInv, PathsOK
    <3> QED
      BY <3>1, <3>2
  <2>6. path'[Root] = <<Root>>
    BY <1>3, <1>7 DEF BindingsInv, OwnInv, PathsOK
  <2> QED
    BY <1>6, <1>7, <2>1, <2>3, <2>4, <2>5, <2>6 DEF PathsOK
<1>15. BindingsOK'
  <2>1. ASSUME NEW m \in Born'
        PROVE  IF bindings'[m] = Absent THEN m = Root /\ Among(givenTo', {m}) = {}
               ELSE bindings'[m].holds = Among(givenTo', {m}) /\ bindings'[m].holds # {}
    <3>1. CASE m = c
      <4>1. Among(givenTo', {c}) = {n}
        BY <1>11, <1>12
      <4> QED
        BY <3>1, <4>1, <1>10, <1>13
    <3>2. CASE m # c
      <4>1. m \in Born /\ m \in Logger
        BY <3>2, <1>7 DEF Born
      <4>2. bindings'[m] = bindings[m]
        BY <3>2, <4>1, <1>13
      <4>3. Among(givenTo', {m}) = Among(givenTo, {m})
        BY <3>2, <1>11
      <4> QED
        BY <4>1, <4>2, <4>3 DEF BindingsInv, OwnInv, BindingsOK
    <3> QED
      BY <3>1, <3>2
  <2> QED
    BY <1>13, <2>1 DEF BindingsOK
<1>16. ASSUME NEW m \in Born, NEW objects, Shows(objects, m, path, givenTo)
       PROVE  Shows(objects, m, path', givenTo')
  <2>1. m # c
    BY <1>1
  <2>2. Shows(objects, m, path', Append(givenTo, c))
    BY <1>7, <1>16, <2>1, OthersKeep DEF BindingsInv
  <2> QED
    BY <1>1, <2>2
<1>17. /\ ChainOK' /\ \A m \in Logger \ {c} : chain'[m] = chain[m]
       /\ \A o \in ToSet(chain'[c]) :
            \E a \in ToSet(path'[c]) : bindings'[a] # Absent /\ o = bindings'[a]
  <2>1. OwnInv' /\ c \in Born'
    BY <1>7, <1>14, <1>15 DEF OwnInv
  <2>2. /\ chain \in [Logger -> Seq(Object)]
        /\ chain' = [chain EXCEPT ![c] = BindingChain(path'[c], bindings')]
    BY <1>1 DEF BindingsInv, ChainOK
  <2>3. Among(givenTo, {Root}) \subseteq Among(givenTo', {Root})
    BY <1>11
  <2>4. ASSUME NEW m \in Born' \ {c}
        PROVE  /\ Shows(chain[m], m, path', givenTo')
               /\ \/ Len(chain[m]) < Len(path'[m])
                  \/ \E i \in DOMAIN chain[m] :
                        chain[m][i].holds \cap Among(givenTo', {Root}) # {}
    <3>1. m \in Born
      BY <1>7
    <3>2. /\ Shows(chain[m], m, path, givenTo)
          /\ \/ Len(chain[m]) < Len(path[m])
             \/ \E i \in DOMAIN chain[m] : chain[m][i].holds \cap Among(givenTo, {Root}) # {}
      BY <3>1 DEF BindingsInv, ChainOK
    <3>3. Shows(chain[m], m, path', givenTo')
      BY <3>1, <3>2, <1>16
    <3>4. path'[m] = path[m]
      BY <3>1, <1>7
    <3> QED
      BY <2>3, <3>2, <3>3, <3>4
  <2> QED
    BY <2>1, <2>2, <2>4, ChainStep
<1>18. CASE ~Transmits
  <2>1. EventBindingsOK'
    BY <1>1, <1>7, <1>18 DEF BindingsInv, EventBindingsOK
  <2> QED
    BY <1>14, <1>15, <1>17, <2>1 DEF BindingsInv, OwnInv
<1>19. CASE Transmits
  <2>1. /\ eventBindings \in [Logger -> Seq(Object)] /\ eventBindings[p] \in Seq(Object)
        /\ eventBindings' = [eventBindings EXCEPT ![c] = Append(eventBindings[p], object)]
    BY <1>1, <1>2, <1>9, <1>19 DEF BindingsInv, EventBindingsOK
  <2>2. PICK more \in Seq(Object) : more = Append(eventBindings[p], object)
    BY <2>1, AppendProps
  <2>3. /\ eventBindings' \in [Logger -> Seq(Object)]
        /\ eventBindings'[c] = more
        /\ \A m \in Logger \ {c} : eventBindings'[m] = eventBindings[m]
    BY <2>1, <2>2
  <2>4. HeldIn(more) = HeldIn(eventBindings[p]) \cup {n}
    BY <2>1, <2>2, <1>10, HeldInOfAppend
  <2>5. ToSet(more) = ToSet(eventBindings[p]) \cup {object}
    BY <2>1, <2>2, ToSetOfAppend
  <2>6. Shows(eventBindings[p], p, path, givenTo)
    BY <1>19 DEF BindingsInv, EventBindingsOK
  <2>7. Shows(more, c, path', givenTo')
    <3>1. Changed(path[p], path, givenTo) => Changed(line, path', givenTo')
      <4>1. PICK before : before = path
        OBVIOUS
      <4>2. PICK after : after = path'
        OBVIOUS
      <4>3. \A i \in DOMAIN givenTo : givenTo[i] \in Born
        BY <1>8
      <4>4. PathsStay(givenTo, before, after)
        BY <1>7, <4>1, <4>2, <4>3 DEF PathsStay
      <4>5. Changed(path[p], before, givenTo) => Changed(path[p], after, Append(givenTo, c))
        BY <1>8, <4>4, ChangedStays
      <4>6. Changed(path[p], after, Append(givenTo, c)) => Changed(line, after, Append(givenTo, c))
        BY <1>5, ChangedOnMore
      <4> QED
        BY <1>1, <4>1, <4>2, <4>5, <4>6
    <3>2. Among(givenTo', {c}) = {n}
      BY <1>11, <1>12
    <3>3. Among(givenTo', ToSet(line)) = Among(givenTo, ToSet(path[p])) \cup {n}
      BY <1>5, <1>11, <1>12
    <3> QED
      BY <1>6, <2>4, <2>6, <3>1, <3>2, <3>3 DEF Shows
  <2>8. ASSUME NEW m \in Born', m # c
        PROVE  m \in Born /\ m \in Logger /\ path'[m] = path[m]
               /\ eventBindings'[m] = eventBindings[m] /\ chain'[m] = chain[m]
    <3>1. m \in Born /\ m \in Logger
      BY <2>8, <1>7 DEF Born
    <3> QED
      BY <3>1, <2>8, <2>3, <1>7, <1>17
  <2>9. ASSUME NEW m \in Born' PROVE Shows(eventBindings'[m], m, path', givenTo')
    <3>1. CASE m = c
      BY <3>1, <2>3, <2>7
    <3>2. CASE m # c
      <4>1. m \in Born /\ eventBindings'[m] = eventBindings[m]
        BY <3>2, <2>8
      <4>2. Shows(eventBindings[m], m, path, givenTo)
        BY <4>1, <1>19 DEF BindingsInv, EventBindingsOK
      <4> QED
        BY <4>1, <4>2, <1>16
    <3> QED
      BY <3>1, <3>2
  <2>10. ASSUME NEW m \in Born, NEW a \in ToSet(path[m])
         PROVE  \/ bindings'[a] = Absent \/ bindings'[a].merged
                \/ bindings'[a] \in ToSet(eventBindings[m])
    <3>1. a \in Logger /\ a # c
      BY <1>1, PathsGive DEF BindingsInv, OwnInv, Born
    <3>2. bindings'[a] = bindings[a]
      BY <3>1, <1>13
    <3>3. bindings[a] = Absent \/ bindings[a].merged \/ bindings[a] \in ToSet(eventBindings[m])
      BY <1>19 DEF BindingsInv, EventBindingsOK
    <3> QED
      BY <3>2, <3>3
  <2>11. ASSUME NEW m \in Born', NEW a \in ToSet(path'[m])
         PROVE  \/ bindings'[a] = Absent \/ bindings'[a].merged
                \/ bindings'[a] \in ToSet(eventBindings'[m])
    <3>1. CASE m = c
      <4>1. a \in ToSet(path[p]) \/ a = c
        BY <3>1, <1>5, <1>6
      <4>2. CASE a = c
        BY <3>1, <4>2, <1>13, <2>3, <2>5
      <4>3. CASE a \in ToSet(path[p])
        BY <3>1, <4>3, <2>3, <2>5, <2>10
      <4> QED
        BY <4>1, <4>2, <4>3
    <3>2. CASE m # c
      BY <3>2, <2>8, <2>10
    <3> QED
      BY <3>1, <3>2
  <2>12. ASSUME NEW m \in Born', NEW o \in ToSet(chain'[m])
         PROVE  o.merged \/ o \in ToSet(eventBindings'[m])
    <3>1. CASE m = c
      BY <3>1, <1>17, <2>11
    <3>2. CASE m # c
      BY <3>2, <1>19, <2>8 DEF BindingsInv, EventBindingsOK
    <3> QED
      BY <3>1, <3>2
  <2>13. EventBindingsOK'
    BY <2>3, <2>9, <2>11, <2>12 DEF EventBindingsOK
  <2> QED
    BY <1>14, <1>15, <1>17, <2>13 DEF BindingsInv, OwnInv
<1> QED
  BY <1>18, <1>19

LEMMA BindingsStep == BindingsInv /\ EventsOK /\ [Next]_vars => BindingsInv'
<1> SUFFICES ASSUME BindingsInv, EventsOK, [Next]_vars PROVE BindingsInv'
  OBVIOUS
<1>1. ASSUME NEW l \in Born, NEW k \in LevelArgs, SetLevel(l, k) PROVE BindingsInv'
  BY <1>1, SetLevelKeepsBindings
<1>2. ASSUME NEW p \in Born, NEW c \in Logger, NEW k \in LevelArgs \cup {Absent}, Child(p, c, k)
      PROVE  BindingsInv'
  BY <1>2, ChildKeepsBindings
<1>3. ASSUME NEW l \in Born, SetBindings(l) PROVE BindingsInv'
  BY <1>3, SetBindingsKeepsBindings
<1>4. ASSUME NEW l \in Born, NEW k \in LogLabels, Log(l, k) PROVE BindingsInv'
  BY <1>4, QuietKeepsBindings DEF Log
<1>5. CASE SendReturns
  BY <1>5, QuietKeepsBindings DEF SendReturns
<1>6. CASE SendThrows
  BY <1>6, QuietKeepsBindings DEF SendThrows
<1>7. CASE UNCHANGED vars
  BY <1>7, QuietKeepsBindings DEF vars
<1> QED
  BY <1>1, <1>2, <1>3, <1>4, <1>5, <1>6, <1>7 DEF Next

-----------------------------------------------------------------------------
(* What a call shows, and the events *)

LEMMA ShownStep == ShownOK /\ [Next]_vars => ShownOK'
<1> SUFFICES ASSUME ShownOK, [Next]_vars PROVE ShownOK'
  OBVIOUS
<1>1. ASSUME obs' = Quiet PROVE ShownOK'
  BY <1>1 DEF ShownOK, Quiet
<1>2. ASSUME NEW l \in Born, NEW k \in LogLabels, Log(l, k) PROVE ShownOK'
  <2>1. /\ obs'.of = l /\ obs'.console = (k \in open[l])
        /\ obs'.prepended = (IF k \in open[l] THEN chain[l] ELSE << >>)
        /\ obs'.object = (IF k \in open[l] THEN ObjectFate(l) ELSE "none")
        /\ UNCHANGED <<config, path, chain>>
    BY <1>2 DEF Log, tree
  <2>2. ObjectFate(l)' = ObjectFate(l)
    BY <2>1 DEF ObjectFate, LeadingObjects
  <2> QED
    BY <2>1, <2>2 DEF ShownOK
<1>3. CASE UNCHANGED vars
  BY <1>3 DEF vars, tree, ShownOK, ObjectFate, LeadingObjects
<1> QED
  BY <1>1, <1>2, <1>3 DEF Next, SetLevel, Child, SetBindings, SendReturns, SendThrows

LEMMA FrontLast ==
    ASSUME NEW S, NEW s \in Seq(S), s # << >>
    PROVE  /\ Front(s) \in Seq(S) /\ DOMAIN Front(s) = 1 .. (Len(s) - 1)
           /\ \A i \in 1 .. (Len(s) - 1) : Front(s)[i] = s[i]
           /\ Last(s) = s[Len(s)] /\ Last(s) \in S
           /\ DOMAIN s = 1 .. Len(s) /\ Len(s) \in Nat \ {0}
<1>1. DOMAIN s = 1 .. Len(s) /\ Len(s) \in Nat \ {0} /\ s[Len(s)] \in S
  OBVIOUS
<1>2. /\ SubSeq(s, 1, Len(s) - 1) \in Seq(S)
      /\ Len(SubSeq(s, 1, Len(s) - 1)) = Len(s) - 1
      /\ \A i \in 1 .. (Len(s) - 1) : SubSeq(s, 1, Len(s) - 1)[i] = s[i]
  BY <1>1, SubSeqProperties
<1> QED
  BY <1>1, <1>2 DEF Front, Last

LEMMA QuietKeepsEvents ==
    ASSUME EventsOK, UNCHANGED <<tree, eventState>>
    PROVE  EventsOK'
<1>1. Values' = Values /\ (Transmits' <=> Transmits) /\ Born' = Born
  BY DEF tree, Values, Transmits, Born
<1>2. Event' = Event
  BY <1>1 DEF Event
<1> QED
  BY <1>1, <1>2 DEF EventsOK, eventState

LEMMA ChildKeepsEvents ==
    ASSUME BindingsInv, EventsOK, NEW p \in Born, NEW c \in Logger,
           NEW k \in LevelArgs \cup {Absent}, Child(p, c, k)
    PROVE  EventsOK'
<1>1. /\ config' = config /\ c \notin Born
      /\ path' = [path EXCEPT ![c] = Append(path[p], c)]
      /\ IF Transmits
         THEN /\ events' = Append(events, NewEvent(c, c))
              /\ current' = [current EXCEPT ![c] = Len(events) + 1]
         ELSE events' = events /\ current' = current
      /\ UNCHANGED <<sending, failed, calls>>
  BY DEF Child, ArrayFor
<1>2. Values' = Values /\ (Transmits' <=> Transmits)
  BY <1>1 DEF Values, Transmits
<1>3. Event' = Event
  BY <1>2 DEF Event
<1>4. Born' = Born \cup {c}
  <2>1. path[p] \in Seq(Logger) /\ path \in [Logger -> Seq(Logger)]
    BY PathsGive DEF BindingsInv, OwnInv, PathsOK
  <2>2. Append(path[p], c) # << >>
    <3>1. Len(Append(path[p], c)) = Len(path[p]) + 1 /\ Len(path[p]) \in Nat
      BY <2>1, AppendProps
    <3>2. Append(path[p], c) = << >> => Len(Append(path[p], c)) = 0
      OBVIOUS
    <3> QED
      BY <3>1, <3>2
  <2> QED
    BY <1>1, <2>1, <2>2 DEF Born
<1>5. CASE ~Transmits
  BY <1>1, <1>2, <1>3, <1>4, <1>5 DEF EventsOK
<1>6. CASE Transmits
  <2>1. /\ NewEvent(c, c) \in Event /\ NewEvent(c, c).of = c /\ NewEvent(c, c).call = 0
        /\ NewEvent(c, c).slipped = {} /\ NewEvent(c, c).array = c
    BY DEF NewEvent, Event
  <2>2. /\ events' \in Seq(Event) /\ DOMAIN events' = 1 .. (Len(events) + 1)
        /\ events'[Len(events) + 1] = NewEvent(c, c)
        /\ \A e \in 1 .. Len(events) : events'[e] = events[e]
    <3>1. events' = Append(events, NewEvent(c, c)) /\ events \in Seq(Event)
      BY <1>1, <1>6 DEF EventsOK
    <3> QED
      BY <3>1, <2>1, AppendProps
  <2>3. /\ current' \in [Logger -> Nat] /\ current'[c] = Len(events) + 1
        /\ \A l \in Logger \ {c} : current'[l] = current[l]
    <3>1. current \in [Logger -> Nat] /\ Len(events) \in Nat
      BY EventsGive
    <3> QED
      BY <1>1, <1>6, <3>1
  <2>4. ASSUME NEW e \in DOMAIN events'
        PROVE  /\ events'[e].of \in Born' /\ events'[e].call <= calls
               /\ events'[e].array = events'[e].of
               /\ \A object \in events'[e].slipped : object.merged
    <3>1. CASE e = Len(events) + 1
      BY <3>1, <2>1, <2>2, <1>4, EventsGive
    <3>2. CASE e # Len(events) + 1
      <4>1. e \in DOMAIN events /\ events'[e] = events[e]
        BY <3>2, <2>2, EventsGive
      <4> QED
        BY <4>1, <1>4, EventsGive
    <3> QED
      BY <3>1, <3>2
  <2>5. ASSUME NEW l \in Born'
        PROVE  /\ current'[l] \in DOMAIN events' /\ events'[current'[l]].of = l
               /\ \/ events'[current'[l]].call = 0
                  \/ current'[l] \in failed
                  \/ \E i \in DOMAIN sending : sending[i].event = current'[l]
    <3>1. CASE l = c
      BY <3>1, <2>1, <2>2, <2>3, EventsGive
    <3>2. CASE l # c
      <4>1. l \in Born /\ l \in Logger
        BY <3>2, <1>4 DEF Born
      <4>2. current'[l] = current[l]
        BY <3>2, <4>1, <2>3
      <4>3. /\ current[l] \in DOMAIN events /\ events[current[l]].of = l
            /\ events[current[l]].call = 0 \/ current[l] \in failed \/ InSend(current[l])
        BY <4>1, <1>6, EventsGive
      <4>4. current[l] \in DOMAIN events' /\ events'[current[l]] = events[current[l]]
        BY <4>3, <2>2, EventsGive
      <4> QED
        BY <4>2, <4>3, <4>4 DEF InSend
    <3> QED
      BY <3>1, <3>2
  <2>6. ASSUME NEW l \in Logger, l \notin Born' PROVE current'[l] = 0
    BY <2>6, <1>4, <2>3, EventsGive
  <2>7. ASSUME NEW i \in DOMAIN sending
        PROVE  sending[i].event \in DOMAIN events' /\ events'[sending[i].event].of = sending[i].of
    <3>1. /\ sending[i].event \in DOMAIN events
          /\ events[sending[i].event].of = sending[i].of
      BY EventsGive
    <3>2. sending[i].event \in 1 .. Len(events) /\ Len(events) \in Nat
      BY <3>1, EventsGive
    <3> QED
      BY <3>1, <3>2, <2>2
  <2>8. sending' = sending /\ failed' = failed /\ calls' = calls /\ calls \in Nat
        /\ sending \in Seq([of : Logger, event : Nat])
    BY <1>1, EventsGive
  <2>9. ASSUME NEW l \in Logger
        PROVE  IF Transmits' /\ l \in Born'
               THEN /\ current'[l] \in DOMAIN events' /\ events'[current'[l]].of = l
                    /\ \/ events'[current'[l]].call = 0
                       \/ current'[l] \in failed'
                       \/ \E i \in DOMAIN sending' : sending'[i].event = current'[l]
               ELSE current'[l] = 0
    BY <1>2, <1>6, <2>5, <2>6, <2>8
  <2> QED
    BY <1>2, <1>3, <1>6, <2>2, <2>3, <2>4, <2>7, <2>8, <2>9 DEF EventsOK
<1> QED
  BY <1>5, <1>6

\* A call that reaches send() is told to the logger's own event, with arguments
\* that are merged objects at most.
LEMMA LogKeepsEvents ==
    ASSUME BindingsInv, EventsOK, NEW l \in Born, NEW k \in LogLabels, Log(l, k)
    PROVE  EventsOK'
<1> DEFINE sends == k \in open[l] /\ Sends(l, k)
           told == Told(l, k)
<1>1. /\ UNCHANGED <<config, path, current, failed>> /\ k \in DOMAIN Values
      /\ IF sends
         THEN /\ events' = [events EXCEPT ![current[l]] = told]
              /\ sending' = Append(sending, [of |-> l, event |-> current[l]])
              /\ calls' = calls + 1
         ELSE UNCHANGED <<events, sending, calls>>
  BY DEF Log, tree
<1>2. Values' = Values /\ (Transmits' <=> Transmits) /\ Born' = Born
  BY <1>1 DEF Values, Transmits, Born
<1>3. Event' = Event
  BY <1>2 DEF Event
<1>4. CASE ~sends
  BY <1>1, <1>2, <1>3, <1>4 DEF EventsOK
<1>5. CASE sends
  <2>1. Transmits /\ l \in Logger
    BY <1>5 DEF Sends, Born
  <2>2. /\ current[l] \in DOMAIN events /\ events[current[l]].of = l
        /\ current[l] \in Nat /\ calls \in Nat /\ ArrayOf(l) = l
    BY <2>1, EventsGive, ArraysGive
  <2>3. Slipped(l) \subseteq Object /\ \A object \in Slipped(l) : object.merged
    <3>1. chain[l] \in Seq(Object)
      BY <2>1 DEF BindingsInv, ChainOK
    <3>2. ToSet(chain[l]) \subseteq Object
      BY <3>1 DEF ToSet
    <3>3. \A object \in ToSet(chain[l]) : object.merged \/ object \in ToSet(eventBindings[l])
      BY <2>1 DEF BindingsInv, EventBindingsOK
    <3> QED
      BY <2>2, <3>2, <3>3 DEF Slipped
  <2>4. /\ told \in Event /\ told.of = l /\ told.call = calls + 1 /\ told.slipped = Slipped(l)
        /\ told.array = l
    BY <1>1, <2>1, <2>2, <2>3 DEF Event, Told
  <2>5. PICK event \in Event : event = told
    BY <2>4
  <2> HIDE DEF told, sends
  <2>6. events' = [events EXCEPT ![current[l]] = event] /\ calls' = calls + 1
        /\ sending' = Append(sending, [of |-> l, event |-> current[l]])
    BY <1>1, <1>5, <2>5
  <2>7. /\ events' \in Seq(Event) /\ DOMAIN events' = DOMAIN events
        /\ events'[current[l]] = event
        /\ \A e \in DOMAIN events : e # current[l] => events'[e] = events[e]
    BY <2>2, <2>6, EventsGive
  <2>8. /\ event.of = l /\ event.call = calls + 1 /\ event.array = l
        /\ \A object \in event.slipped : object.merged
    BY <2>3, <2>4, <2>5
  <2>9. ASSUME NEW e \in DOMAIN events' PROVE events'[e].of = events[e].of
    BY <2>2, <2>7, <2>8
  <2>10. ASSUME NEW e \in DOMAIN events'
         PROVE  /\ events'[e].of \in Born /\ events'[e].call <= calls'
                /\ events'[e].array = events'[e].of
                /\ \A object \in events'[e].slipped : object.merged
    <3>1. CASE e = current[l]
      BY <3>1, <2>2, <2>6, <2>7, <2>8
    <3>2. CASE e # current[l]
      <4>1. /\ events'[e] = events[e] /\ events[e] \in Event /\ events[e].of \in Born
            /\ events[e].call <= calls /\ events[e].array = events[e].of
            /\ \A object \in events[e].slipped : object.merged
        BY <3>2, <2>7, EventsGive
      <4>2. events[e].call \in Nat
        BY <4>1 DEF Event
      <4> QED
        BY <4>1, <4>2, <2>2, <2>6
    <3> QED
      BY <3>1, <3>2
  <2>11. PICK call \in [of : Logger, event : Nat] :
           call = [of |-> l, event |-> current[l]]
    BY <2>1, <2>2
  <2>12. call.of = l /\ call.event = current[l]
    BY <2>11
  <2>13. /\ sending' \in Seq([of : Logger, event : Nat])
         /\ DOMAIN sending' = 1 .. (Len(sending) + 1) /\ DOMAIN sending = 1 .. Len(sending)
         /\ sending'[Len(sending) + 1] = call
         /\ \A i \in 1 .. Len(sending) : sending'[i] = sending[i]
         /\ Len(sending) \in Nat
    <3>1. sending \in Seq([of : Logger, event : Nat]) /\ sending' = Append(sending, call)
      BY <2>6, <2>11, EventsGive
    <3> QED
      BY <3>1, AppendProps
  <2>14. ASSUME NEW i \in DOMAIN sending'
         PROVE  /\ sending'[i].event \in DOMAIN events'
                /\ events'[sending'[i].event].of = sending'[i].of
    <3>1. CASE i = Len(sending) + 1
      BY <3>1, <2>2, <2>7, <2>8, <2>12, <2>13
    <3>2. CASE i # Len(sending) + 1
      <4>1. i \in DOMAIN sending /\ sending'[i] = sending[i]
        BY <3>2, <2>13
      <4>2. sending[i].event \in DOMAIN events /\ events[sending[i].event].of = sending[i].of
        BY <4>1, EventsGive
      <4> QED
        BY <4>1, <4>2, <2>7, <2>9
    <3> QED
      BY <3>1, <3>2
  <2>15. ASSUME NEW m \in Born
         PROVE  /\ current[m] \in DOMAIN events' /\ events'[current[m]].of = m
                /\ \/ events'[current[m]].call = 0
                   \/ current[m] \in failed
                   \/ \E i \in DOMAIN sending' : sending'[i].event = current[m]
    <3>1. /\ current[m] \in DOMAIN events /\ events[current[m]].of = m
          /\ events[current[m]].call = 0 \/ current[m] \in failed \/ InSend(current[m])
      BY <2>1, EventsGive
    <3>2. CASE m = l
      <4>1. Len(sending) + 1 \in DOMAIN sending' /\ sending'[Len(sending) + 1].event = current[l]
        BY <2>12, <2>13
      <4> QED
        BY <3>1, <3>2, <4>1, <2>7, <2>8
    <3>3. CASE m # l
      <4>1. current[m] # current[l]
        BY <3>1, <3>3, <2>2
      <4>2. events'[current[m]] = events[current[m]]
        BY <3>1, <4>1, <2>7
      <4>3. InSend(current[m]) => \E i \in DOMAIN sending' : sending'[i].event = current[m]
        BY <2>13 DEF InSend
      <4> QED
        BY <3>1, <4>2, <4>3, <2>7
    <3> QED
      BY <3>2, <3>3
  <2>16. ASSUME NEW m \in Logger
         PROVE  IF Transmits' /\ m \in Born'
                THEN /\ current'[m] \in DOMAIN events' /\ events'[current'[m]].of = m
                     /\ \/ events'[current'[m]].call = 0
                        \/ current'[m] \in failed'
                        \/ \E i \in DOMAIN sending' : sending'[i].event = current'[m]
                ELSE current'[m] = 0
    BY <1>1, <1>2, <2>15, EventsGive
  <2>17. calls' \in Nat /\ current' \in [Logger -> Nat]
    BY <1>1, <2>2, <2>6, EventsGive
  <2> QED
    BY <1>2, <1>3, <2>1, <2>7, <2>10, <2>13, <2>14, <2>16, <2>17 DEF EventsOK
<1> QED
  BY <1>4, <1>5

\* send() returns: the logger's event is a new one, and those of others that are
\* being sent are sent by calls below.
LEMMA ReturnKeepsEvents ==
    ASSUME EventsOK, SendReturns
    PROVE  EventsOK'
<1> DEFINE l == Last(sending).of
           rest == Front(sending)
<1>1. /\ UNCHANGED <<config, path, failed, calls>> /\ sending # << >>
      /\ sending' = rest
      /\ events' = Append(events, NewEvent(l, events[Last(sending).event].array))
      /\ current' = [current EXCEPT ![l] = Len(events) + 1]
  BY DEF SendReturns, tree
<1>2. Values' = Values /\ (Transmits' <=> Transmits) /\ Born' = Born
  BY <1>1 DEF Values, Transmits, Born
<1>3. Event' = Event
  BY <1>2 DEF Event
<1>4. /\ rest \in Seq([of : Logger, event : Nat]) /\ DOMAIN rest = 1 .. (Len(sending) - 1)
      /\ \A i \in 1 .. (Len(sending) - 1) : rest[i] = sending[i]
      /\ l = sending[Len(sending)].of /\ Last(sending) = sending[Len(sending)]
      /\ DOMAIN sending = 1 .. Len(sending) /\ Len(sending) \in Nat \ {0}
  <2>1. sending \in Seq([of : Logger, event : Nat]) /\ sending # << >>
    BY <1>1, EventsGive
  <2>2. PICK S : S = [of : Logger, event : Nat]
    OBVIOUS
  <2> QED
    BY <2>1, <2>2, FrontLast
<1> HIDE DEF rest
<1>5. /\ Len(sending) \in DOMAIN sending
      /\ sending[Len(sending)].event \in DOMAIN events
      /\ events[sending[Len(sending)].event].of = l
      /\ events[Last(sending).event].array = l
  <2>1. /\ \A i \in DOMAIN sending :
           /\ sending[i].event \in DOMAIN events
           /\ events[sending[i].event].of = sending[i].of
        /\ \A e \in DOMAIN events : events[e].array = events[e].of
    BY EventsGive
  <2>2. Len(sending) \in DOMAIN sending
    BY <1>4
  <2> QED
    BY <2>1, <2>2, <1>4
<1>6. l \in Born /\ l \in Logger
  BY <1>5, EventsGive DEF Born
<1> HIDE DEF l
<1>7. Transmits
  <2>1. events # << >>
    BY <1>5
  <2> QED
    BY <2>1, EventsGive
<1>8. /\ NewEvent(l, l) \in Event /\ NewEvent(l, l).of = l /\ NewEvent(l, l).call = 0
      /\ NewEvent(l, l).slipped = {} /\ NewEvent(l, l).array = l
  BY <1>6 DEF NewEvent, Event
<1>9. /\ events' \in Seq(Event) /\ DOMAIN events' = 1 .. (Len(events) + 1)
      /\ events'[Len(events) + 1] = NewEvent(l, l)
      /\ \A e \in 1 .. Len(events) : events'[e] = events[e]
  <2>1. events' = Append(events, NewEvent(l, l)) /\ events \in Seq(Event)
    BY <1>1, <1>5, EventsGive
  <2> QED
    BY <2>1, <1>8, AppendProps
<1>10. /\ current' \in [Logger -> Nat] /\ current'[l] = Len(events) + 1
       /\ \A m \in Logger \ {l} : current'[m] = current[m]
  BY <1>1, <1>6, EventsGive
<1>11. ASSUME NEW e \in DOMAIN events'
       PROVE  /\ events'[e].of \in Born /\ events'[e].call <= calls
              /\ events'[e].array = events'[e].of
              /\ \A object \in events'[e].slipped : object.merged
  <2>1. CASE e = Len(events) + 1
    BY <2>1, <1>6, <1>8, <1>9, EventsGive
  <2>2. CASE e # Len(events) + 1
    <3>1. e \in DOMAIN events /\ events'[e] = events[e]
      BY <2>2, <1>9, EventsGive
    <3> QED
      BY <3>1, EventsGive
  <2> QED
    BY <2>1, <2>2
<1>12. ASSUME NEW m \in Born
       PROVE  /\ current'[m] \in DOMAIN events' /\ events'[current'[m]].of = m
              /\ \/ events'[current'[m]].call = 0
                 \/ current'[m] \in failed
                 \/ \E i \in DOMAIN rest : rest[i].event = current'[m]
  <2>1. CASE m = l
    BY <2>1, <1>8, <1>9, <1>10, EventsGive
  <2>2. CASE m # l
    <3>1. /\ current[m] \in DOMAIN events /\ events[current[m]].of = m
          /\ events[current[m]].call = 0 \/ current[m] \in failed \/ InSend(current[m])
      BY <1>7, EventsGive
    <3>2. current'[m] = current[m]
      BY <2>2, <1>10 DEF Born
    <3>3. current[m] \in DOMAIN events' /\ events'[current[m]] = events[current[m]]
      BY <3>1, <1>9, EventsGive
    <3>4. ASSUME InSend(current[m]) PROVE \E i \in DOMAIN rest : rest[i].event = current[m]
      <4>1. PICK i \in DOMAIN sending : sending[i].event = current[m]
        BY <3>4 DEF InSend
      <4>2. i # Len(sending)
        BY <4>1, <3>1, <2>2, <1>5
      <4>3. i \in DOMAIN rest /\ rest[i] = sending[i]
        BY <4>2, <1>4
      <4> QED
        BY <4>1, <4>3
    <3> QED
      BY <3>1, <3>2, <3>3, <3>4
  <2> QED
    BY <2>1, <2>2
<1>13. ASSUME NEW m \in Logger
       PROVE  IF Transmits' /\ m \in Born'
              THEN /\ current'[m] \in DOMAIN events' /\ events'[current'[m]].of = m
                   /\ \/ events'[current'[m]].call = 0
                      \/ current'[m] \in failed'
                      \/ \E i \in DOMAIN sending' : sending'[i].event = current'[m]
              ELSE current'[m] = 0
  <2>1. CASE m \in Born
    BY <2>1, <1>1, <1>2, <1>7, <1>12
  <2>2. CASE m \notin Born
    BY <2>2, <1>2, <1>6, <1>10, EventsGive
  <2> QED
    BY <2>1, <2>2
<1>14. ASSUME NEW i \in DOMAIN rest
       PROVE  rest[i].event \in DOMAIN events' /\ events'[rest[i].event].of = rest[i].of
  <2>1. i \in DOMAIN sending /\ rest[i] = sending[i]
    BY <1>4
  <2>2. /\ sending[i].event \in 1 .. Len(events) /\ Len(events) \in Nat
        /\ events[sending[i].event].of = sending[i].of
    BY <2>1, EventsGive
  <2> QED
    BY <2>1, <2>2, <1>9
<1>15. calls' = calls /\ calls \in Nat /\ sending' = rest
  BY <1>1, EventsGive
<1> QED
  BY <1>2, <1>3, <1>4, <1>7, <1>9, <1>10, <1>11, <1>13, <1>14, <1>15 DEF EventsOK

\* send() throws: the logger keeps its event, told of a call that failed.
LEMMA ThrowKeepsEvents ==
    ASSUME EventsOK, SendThrows
    PROVE  EventsOK'
<1> DEFINE rest == Front(sending)
<1>1. /\ UNCHANGED <<config, path, events, current, calls>> /\ sending # << >>
      /\ sending' = rest
      /\ failed' = failed \cup {Last(sending).event}
  BY DEF SendThrows, tree
<1>2. Values' = Values /\ (Transmits' <=> Transmits) /\ Born' = Born
  BY <1>1 DEF Values, Transmits, Born
<1>3. Event' = Event
  BY <1>2 DEF Event
<1>4. /\ rest \in Seq([of : Logger, event : Nat]) /\ DOMAIN rest = 1 .. (Len(sending) - 1)
      /\ \A i \in 1 .. (Len(sending) - 1) : rest[i] = sending[i]
      /\ Last(sending) = sending[Len(sending)]
      /\ DOMAIN sending = 1 .. Len(sending) /\ Len(sending) \in Nat \ {0}
  <2>1. sending \in Seq([of : Logger, event : Nat]) /\ sending # << >>
    BY <1>1, EventsGive
  <2>2. PICK S : S = [of : Logger, event : Nat]
    OBVIOUS
  <2> QED
    BY <2>1, <2>2, FrontLast
<1> HIDE DEF rest
<1>5. ASSUME NEW e, InSend(e)
      PROVE  e \in failed' \/ \E i \in DOMAIN rest : rest[i].event = e
  <2>1. PICK i \in DOMAIN sending : sending[i].event = e
    BY <1>5 DEF InSend
  <2>2. CASE i = Len(sending)
    BY <2>1, <2>2, <1>1, <1>4
  <2>3. CASE i # Len(sending)
    <3>1. i \in DOMAIN rest /\ rest[i] = sending[i]
      BY <2>3, <1>4
    <3> QED
      BY <3>1, <2>1
  <2> QED
    BY <2>2, <2>3
<1>6. ASSUME NEW m \in Logger
      PROVE  IF Transmits' /\ m \in Born'
             THEN /\ current'[m] \in DOMAIN events' /\ events'[current'[m]].of = m
                  /\ \/ events'[current'[m]].call = 0
                     \/ current'[m] \in failed'
                     \/ \E i \in DOMAIN sending' : sending'[i].event = current'[m]
             ELSE current'[m] = 0
  <2>1. CASE Transmits /\ m \in Born
    <3>1. /\ current[m] \in DOMAIN events /\ events[current[m]].of = m
          /\ events[current[m]].call = 0 \/ current[m] \in failed \/ InSend(current[m])
      BY <2>1, EventsGive
    <3> QED
      BY <2>1, <3>1, <1>1, <1>2, <1>5
  <2>2. CASE ~(Transmits /\ m \in Born)
    BY <2>2, <1>1, <1>2, EventsGive
  <2> QED
    BY <2>1, <2>2
<1>7. ASSUME NEW i \in DOMAIN rest
      PROVE  rest[i].event \in DOMAIN events /\ events[rest[i].event].of = rest[i].of
  <2>1. \A j \in DOMAIN sending :
           /\ sending[j].event \in DOMAIN events
           /\ events[sending[j].event].of = sending[j].of
    BY EventsGive
  <2>2. i \in DOMAIN sending /\ rest[i] = sending[i]
    BY <1>4
  <2> QED
    BY <2>1, <2>2
<1> QED
  BY <1>1, <1>2, <1>3, <1>4, <1>6, <1>7 DEF EventsOK

LEMMA EventsStep == BindingsInv /\ EventsOK /\ [Next]_vars => EventsOK'
<1> SUFFICES ASSUME BindingsInv, EventsOK, [Next]_vars PROVE EventsOK'
  OBVIOUS
<1>1. ASSUME NEW l \in Born, NEW k \in LevelArgs, SetLevel(l, k) PROVE EventsOK'
  BY <1>1, QuietKeepsEvents DEF SetLevel
<1>2. ASSUME NEW p \in Born, NEW c \in Logger, NEW k \in LevelArgs \cup {Absent}, Child(p, c, k)
      PROVE  EventsOK'
  BY <1>2, ChildKeepsEvents
<1>3. ASSUME NEW l \in Born, SetBindings(l) PROVE EventsOK'
  BY <1>3, QuietKeepsEvents DEF SetBindings
<1>4. ASSUME NEW l \in Born, NEW k \in LogLabels, Log(l, k) PROVE EventsOK'
  BY <1>4, LogKeepsEvents
<1>5. CASE SendReturns
  BY <1>5, ReturnKeepsEvents
<1>6. CASE SendThrows
  BY <1>6, ThrowKeepsEvents
<1>7. CASE UNCHANGED vars
  BY <1>7, QuietKeepsEvents DEF vars
<1> QED
  BY <1>1, <1>2, <1>3, <1>4, <1>5, <1>6, <1>7 DEF Next

\* Bindings and events, which depend on each other: setBindings() finds the array
\* through the event, and a call tells the event what is not in the array.
LEMMA BothStep ==
    BindingsInv /\ EventsOK /\ ShownOK /\ [Next]_vars => (BindingsInv /\ EventsOK /\ ShownOK)'
BY BindingsStep, EventsStep, ShownStep

\* After any history of children, assignments, bindings and calls, the log
\* functions and the arrays of events show the bindings of the hierarchy (browser.js:
\* 169-177, 225-236, 296-312).
THEOREM BindingsInvariant == Spec => []BindingsInv
<1>1. Init => BindingsInv /\ EventsOK /\ ShownOK
  BY BindingsInit, EventsInit DEF BindingsInv
<1>2. BindingsInv /\ EventsOK /\ ShownOK /\ [Next]_vars => (BindingsInv /\ EventsOK /\ ShownOK)'
  BY BothStep
<1> QED
  BY <1>1, <1>2, PTL DEF Spec

\* Every event of a logger is told of one call, with arguments that are merged
\* objects at most, and is replaced when send() returns, by one that refers to the
\* same array (browser.js:466-508).
THEOREM EventsInvariant == Spec => [](EventsOK /\ ShownOK)
<1>1. Init => BindingsInv /\ EventsOK /\ ShownOK
  BY BindingsInit, EventsInit DEF BindingsInv
<1>2. BindingsInv /\ EventsOK /\ ShownOK /\ [Next]_vars => (BindingsInv /\ EventsOK /\ ShownOK)'
  BY BothStep
<1> QED
  BY <1>1, <1>2, PTL DEF Spec

-----------------------------------------------------------------------------
(* What follows from it *)

LEMMA GiveTypes == LevelsInv /\ BindingsInv /\ EventsOK => TypeOK
<1> SUFFICES ASSUME LevelsInv, BindingsInv, EventsOK PROVE TypeOK
  OBVIOUS
<1>1. /\ path \in [Logger -> Seq(Logger)]
      /\ level \in [Logger -> DOMAIN Values \cup {Silent, Absent}]
      /\ bindings \in [Logger -> Object \cup {Absent}]
      /\ open \in [Logger -> SUBSET DOMAIN Values]
      /\ chain \in [Logger -> Seq(Object)]
      /\ eventBindings \in [Logger -> Seq(Object)]
      /\ givenTo \in Seq(Born)
  BY DEF BindingsInv, OwnInv, PathsOK, BindingsOK, ChainOK, EventBindingsOK
<1>2. ASSUME NEW e \in DOMAIN events
      PROVE  /\ events[e].of \in Born /\ events[e].call \in 0 .. calls
             /\ events[e].slipped \subseteq Object /\ events[e].array \in Born
  <2>1. /\ events[e] \in Event /\ events[e].of \in Born /\ events[e].call <= calls /\ calls \in Nat
        /\ events[e].array = events[e].of
    BY EventsGive
  <2>2. events[e].call \in Nat /\ events[e].slipped \subseteq Object
    BY <2>1 DEF Event
  <2> QED
    BY <2>1, <2>2
<1>3. ASSUME NEW l \in Logger
      PROVE  /\ path[l] = << >> <=> level[l] = Absent
             /\ current[l] # 0 <=> Transmits /\ l \in Born
             /\ current[l] # 0 => events[current[l]].of = l
  <2>1. path[l] = << >> => level[l] = Absent
    BY DEF BindingsInv, OwnInv, PathsOK
  <2>2. path[l] # << >> => level[l] # Absent
    BY BrowserAssumption DEF LevelsInv, OpenOK, ValuesOK, LevelKnown
  <2>3. CASE Transmits /\ l \in Born
    <3>1. current[l] \in 1 .. Len(events) /\ Len(events) \in Nat /\ events[current[l]].of = l
      BY <2>3, EventsGive
    <3> QED
      BY <2>1, <2>2, <2>3, <3>1
  <2>4. CASE ~(Transmits /\ l \in Born)
    BY <2>1, <2>2, <2>4, EventsGive
  <2> QED
    BY <2>3, <2>4
<1>4. \A i \in DOMAIN sending : events[sending[i].event].of = sending[i].of
  BY EventsGive
<1> QED
  BY <1>1, <1>2, <1>3, <1>4 DEF TypeOK

\* The types hold for any loggers, levels, options and bounds; a logger that is
\* not made owns nothing, and with transmit every logger has an event of its own.
THEOREM BrowserTypeOK == Spec => []TypeOK
<1>1. LevelsInv /\ BindingsInv /\ EventsOK => TypeOK
  BY GiveTypes
<1> QED
  BY <1>1, LevelsInvariant, BindingsInvariant, EventsInvariant, PTL

\* What a call on the console showed, by what there is now.
LEMMA CallGives ==
    ASSUME LevelsInv, ShownOK, obs.kind = "call"
    PROVE  /\ obs.of \in Born
           /\ obs.console => obs.prepended = chain[obs.of] /\ obs.object = ObjectFate(obs.of)
           /\ ~obs.console => obs.object = "none"
           /\ obs.sent => obs.console /\ Transmits
BY DEF LevelsInv, CallOK, ShownOK, Born, Sends

LEMMA GivenInIs == \A loggers : GivenIn(loggers) = Among(givenTo, loggers)
BY DEF GivenIn, Among

LEMMA GiveHierarchy == LevelsInv /\ BindingsInv /\ EventsOK /\ ShownOK => BindingsOfHierarchy
<1> SUFFICES ASSUME LevelsInv, BindingsInv, EventsOK, ShownOK PROVE BindingsOfHierarchy
  OBVIOUS
<1>1. ASSUME obs.kind = "call", obs.console
      PROVE  /\ Among(givenTo, {obs.of}) \subseteq HeldIn(obs.prepended)
             /\ HeldIn(obs.prepended) \subseteq Among(givenTo, ToSet(path[obs.of]))
  <2>1. obs.of \in Born /\ obs.prepended = chain[obs.of]
    BY <1>1, CallGives
  <2> QED
    BY <2>1 DEF BindingsInv, ChainOK, Shows
<1>2. ASSUME Transmits, NEW l \in Born
      PROVE  /\ Among(givenTo, {l}) \subseteq HeldIn(eventBindings[ArrayOf(l)])
             /\ HeldIn(eventBindings[ArrayOf(l)]) \subseteq Among(givenTo, ToSet(path[l]))
  BY <1>2, ArraysGive DEF BindingsInv, EventBindingsOK, Shows
<1> QED
  BY <1>1, <1>2, GivenInIs DEF BindingsOfHierarchy

\* For any tree of loggers and any order of child(), setBindings() and level
\* assignments, a line shows what its logger was given and nothing but what its
\* hierarchy was.
THEOREM BindingsAlwaysOfHierarchy == Spec => []BindingsOfHierarchy
<1>1. LevelsInv /\ BindingsInv /\ EventsOK /\ ShownOK => BindingsOfHierarchy
  BY GiveHierarchy
<1> QED
  BY <1>1, LevelsInvariant, BindingsInvariant, EventsInvariant, PTL

LEMMA GiveAgreement == LevelsInv /\ BindingsInv /\ EventsOK /\ ShownOK => ConsoleAndEventAgree
<1> SUFFICES ASSUME LevelsInv, BindingsInv, EventsOK, ShownOK, obs.kind = "call", obs.sent,
                    ~AncestorChanged(obs.of)
             PROVE  HeldIn(obs.prepended) = HeldIn(eventBindings[ArrayOf(obs.of)])
  BY DEF ConsoleAndEventAgree
<1>1. obs.of \in Born /\ obs.prepended = chain[obs.of] /\ Transmits
  BY CallGives
<1>2. ~Changed(path[obs.of], path, givenTo)
  BY DEF AncestorChanged, Changed
<1>3. HeldIn(chain[obs.of]) = Among(givenTo, ToSet(path[obs.of]))
  BY <1>1, <1>2 DEF BindingsInv, ChainOK, Shows
<1>4. HeldIn(eventBindings[ArrayOf(obs.of)]) = Among(givenTo, ToSet(path[obs.of]))
  BY <1>1, <1>2, ArraysGive DEF BindingsInv, EventBindingsOK, Shows
<1> QED
  BY <1>1, <1>3, <1>4

\* For any tree of loggers the console and send() show the same bindings of a
\* call, unless an ancestor was given bindings after its descendants were made.
THEOREM ConsoleAndEventAlwaysAgree == Spec => []ConsoleAndEventAgree
<1>1. LevelsInv /\ BindingsInv /\ EventsOK /\ ShownOK => ConsoleAndEventAgree
  BY GiveAgreement
<1> QED
  BY <1>1, LevelsInvariant, BindingsInvariant, EventsInvariant, PTL

\* For any tree of loggers what send() gets as messages besides the arguments is
\* at most an object that setBindings() merged.
THEOREM MessagesAlwaysArguments == Spec => []MessagesAreArguments
<1>1. EventsOK => MessagesAreArguments
  BY DEF EventsOK, MessagesAreArguments
<1> QED
  BY <1>1, EventsInvariant, PTL

LEMMA GiveMerged == LevelsInv /\ BindingsInv /\ ShownOK => ObjectIsMerged
<1> SUFFICES ASSUME LevelsInv, BindingsInv, ShownOK, obs.kind = "call",
                    obs.object = "formatted"
             PROVE  \E i \in DOMAIN obs.prepended :
                       obs.prepended[i].holds \cap Among(givenTo, {Root}) # {}
  BY GivenInIs DEF ObjectIsMerged
<1>1. /\ obs.of \in Born /\ obs.prepended = chain[obs.of]
      /\ ObjectFate(obs.of) = "formatted"
  BY CallGives
<1>2. ~(Len(chain[obs.of]) < Len(path[obs.of]))
  BY <1>1 DEF ObjectFate, LeadingObjects
<1> QED
  BY <1>1, <1>2 DEF BindingsInv, ChainOK

\* For any depth of children the object a caller passes is merged into the line,
\* unless the root has bindings.
THEOREM ObjectAlwaysMerged == Spec => []ObjectIsMerged
<1>1. LevelsInv /\ BindingsInv /\ ShownOK => ObjectIsMerged
  BY GiveMerged
<1> QED
  BY <1>1, LevelsInvariant, BindingsInvariant, EventsInvariant, PTL

LEMMA SentStep ==
    ASSUME EventsOK, [Next]_vars, NEW e \in DOMAIN events, events[e].call # 0,
           events'[e] # events[e]
    PROVE  e \in failed \/ \E i \in DOMAIN sending : sending[i].event = e
<1> DEFINE Goal == e \in failed \/ \E i \in DOMAIN sending : sending[i].event = e
<1> SUFFICES Goal
  OBVIOUS
<1>1. events \in Seq(Event) /\ DOMAIN events = 1 .. Len(events)
  BY EventsGive
<1>2. ASSUME NEW m, events' = Append(events, m) PROVE FALSE
  <2>1. Append(events, m)[e] = events[e]
    BY <1>1
  <2> QED
    BY <1>2, <2>1
<1>3. ASSUME NEW l \in Born, NEW k \in LogLabels, Log(l, k) PROVE Goal
  <2>1. PICK told : events' = [events EXCEPT ![current[l]] = told] /\ Sends(l, k)
    BY <1>3 DEF Log
  <2>2. e = current[l]
    BY <2>1, <1>1
  <2>3. Transmits
    BY <2>1 DEF Sends
  <2> QED
    BY <2>2, <2>3, EventsGive DEF InSend
<1> HIDE DEF Goal
<1>4. ASSUME NEW p \in Born, NEW c \in Logger, NEW k \in LevelArgs \cup {Absent}, Child(p, c, k)
      PROVE  Goal
  BY <1>4, <1>2 DEF Child
<1>5. CASE SendReturns
  BY <1>5, <1>2 DEF SendReturns
<1>6. ASSUME UNCHANGED events PROVE Goal
  BY <1>6
<1>7. ASSUME NEW l \in Born, NEW k \in LevelArgs, SetLevel(l, k) PROVE Goal
  BY <1>6, <1>7 DEF SetLevel, eventState
<1>8. ASSUME NEW l \in Born, SetBindings(l) PROVE Goal
  BY <1>6, <1>8 DEF SetBindings, eventState
<1>9. CASE SendThrows
  BY <1>6, <1>9 DEF SendThrows
<1>10. CASE UNCHANGED vars
  BY <1>6, <1>10 DEF vars, eventState
<1> QED
  BY <1>3, <1>4, <1>5, <1>7, <1>8, <1>9, <1>10 DEF Next

\* No step takes an event to another array, or an event away.
LEMMA ArraysStay ==
    ASSUME EventsOK, EventsOK', [Next]_vars, NEW e \in DOMAIN events
    PROVE  e \in DOMAIN events' /\ events'[e].array = events[e].array
<1>1. /\ events \in Seq(Event) /\ DOMAIN events = 1 .. Len(events) /\ Len(events) \in Nat
      /\ events[e].array = events[e].of
  BY EventsGive
<1>2. ASSUME NEW m, events' = Append(events, m)
      PROVE  e \in DOMAIN events' /\ events'[e].array = events[e].array
  <2>1. DOMAIN events' = 1 .. (Len(events) + 1) /\ Append(events, m)[e] = events[e]
    BY <1>1, <1>2
  <2> QED
    BY <1>1, <1>2, <2>1
<1>3. ASSUME NEW l \in Born, NEW k \in LogLabels, Log(l, k)
      PROVE  e \in DOMAIN events' /\ events'[e].array = events[e].array
  <2>1. CASE UNCHANGED events
    BY <2>1
  <2>2. CASE ~UNCHANGED events
    <3>1. PICK told : events' = [events EXCEPT ![current[l]] = told] /\ told.array = ArrayOf(l)
      BY <1>3, <2>2 DEF Log, Told
    <3> QED
      BY <3>1, <1>1 DEF ArrayOf
  <2> QED
    BY <2>1, <2>2
<1>4. ASSUME NEW p \in Born, NEW c \in Logger, NEW k \in LevelArgs \cup {Absent}, Child(p, c, k)
      PROVE  e \in DOMAIN events' /\ events'[e].array = events[e].array
  BY <1>2, <1>4 DEF Child
<1>5. CASE SendReturns
  BY <1>2, <1>5 DEF SendReturns
<1>6. CASE UNCHANGED events
  BY <1>6
<1> QED
  BY <1>3, <1>4, <1>5, <1>6 DEF Next, SetLevel, SetBindings, SendThrows, vars, eventState

\* An array grows only by setBindings() of the logger it was made for.
LEMMA ArrayStep ==
    ASSUME BindingsInv, EventsOK, EventsOK', [Next]_vars, NEW e \in DOMAIN events,
           Shown(e)' # Shown(e)
    PROVE  /\ givenTo' = Append(givenTo, events[e].of)
           /\ Shown(e)' = Append(Shown(e), Given(Len(givenTo) + 1))
<1> DEFINE a == events[e].of
<1>1. a \in Born /\ a \in Logger /\ events[e].array = a /\ events'[e].array = a
  BY EventsGive, ArraysStay DEF Born
<1>2. Shown(e) = eventBindings[a] /\ Shown(e)' = eventBindings'[a]
  BY <1>1 DEF Shown
<1>3. Transmits
  BY EventsGive
<1>4. eventBindings \in [Logger -> Seq(Object)]
  BY DEF BindingsInv, EventBindingsOK
<1> HIDE DEF a
<1>5. eventBindings' # eventBindings
  BY <1>2
<1>6. ASSUME NEW p \in Born, NEW c \in Logger, NEW k \in LevelArgs \cup {Absent}, Child(p, c, k)
      PROVE  FALSE
  <2>1. PICK more : eventBindings' = [eventBindings EXCEPT ![c] = more] /\ c \notin Born
    BY <1>3, <1>6 DEF Child, ArrayFor
  <2> QED
    BY <2>1, <1>1, <1>2, <1>4
<1>7. ASSUME NEW l \in Born, SetBindings(l)
      PROVE  /\ givenTo' = Append(givenTo, a)
             /\ eventBindings'[a] = Append(eventBindings[a], Given(Len(givenTo) + 1))
  <2>1. /\ eventBindings' = [eventBindings EXCEPT ![l] = Append(@, Given(Len(givenTo) + 1))]
        /\ givenTo' = Append(givenTo, l)
    BY <1>3, <1>7, ArraysGive DEF SetBindings
  <2>2. a = l
    BY <2>1, <1>1, <1>2, <1>4
  <2> QED
    BY <2>1, <2>2, <1>1, <1>4
<1> QED
  <2>1. \/ \E l \in Born : SetBindings(l)
        \/ \E p \in Born, c \in Logger, k \in LevelArgs \cup {Absent} : Child(p, c, k)
    BY <1>5 DEF Next, SetLevel, Log, SendReturns, SendThrows, vars
  <2>2. a = events[e].of
    BY DEF a
  <2> QED
    BY <2>1, <2>2, <1>2, <1>6, <1>7

\* For any loggers and any interleaving of calls and send()s, an event that was
\* handed to send() keeps what it tells of the call, unless it is told of a call made
\* inside that send() or after it threw, and its bindings change only as the later
\* setBindings() of its own logger add to the array it shares with the next events.
THEOREM SentAlwaysStays == Spec => SentStays
<1>1. BindingsInv /\ EventsOK /\ EventsOK' /\ [Next]_vars =>
        [\A e \in DOMAIN events : events[e].call # 0 =>
            /\ events'[e] # events[e]
                  => e \in failed \/ \E i \in DOMAIN sending : sending[i].event = e
            /\ Shown(e)' # Shown(e)
                  => /\ givenTo' = Append(givenTo, events[e].of)
                     /\ Shown(e)' = Append(Shown(e), Given(Len(givenTo) + 1))]_vars
  BY SentStep, ArrayStep
<1> QED
  BY <1>1, BindingsInvariant, EventsInvariant, PTL DEF Spec, SentStays
=============================================================================
