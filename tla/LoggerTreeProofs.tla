-------------------------- MODULE LoggerTreeProofs --------------------------
(***************************************************************************)
(* Proofs about LoggerTree for any number of loggers, any custom levels    *)
(* and any comparison: the log methods of every logger agree with the      *)
(* level it reads, a level reads back, an event tells the transition that  *)
(* was made, a line opens with what was made of its own level, and         *)
(* bindings stay with the logger they were given to.                       *)
(***************************************************************************)
EXTENDS LoggerTree, SequenceTheorems, WellFoundedInduction, TLAPS

\* A set of naturals has a least element.
LEMMA LeastNatural ==
    ASSUME NEW T, T \subseteq Nat, T # {}
    PROVE  \E x \in T : \A y \in T : x =< y
  <1> DEFINE R == OpToRel(<, Nat)
  <1>1. IsWellFoundedOn(R, Nat)
    BY NatLessThanWellFounded, Zenon
  <1> HIDE DEF R
  <1>2. PICK x \in T : \A y \in T : ~(<<y, x>> \in R)
    BY <1>1, WFMin
  <1>3. \A y \in T : ~(y < x)
    BY <1>2 DEF R, OpToRel
  <1> QED BY <1>3

-----------------------------------------------------------------------------
(* Reading through the prototype chain *)

\* Where some logger of a chain owns a property, one owns it first.
LEMMA FirstExists ==
    ASSUME NEW c, Len(c) \in Nat, NEW S, NEW n \in 1 .. Len(c), c[n] \in S
    PROVE  \E i \in 1 .. n : IsFirst(c, i, S)
  <1> DEFINE T == {i \in 1 .. Len(c) : c[i] \in S}
  <1>1. T \subseteq Nat /\ n \in T
    OBVIOUS
  <1> HIDE DEF T
  <1>2. PICK i \in T : \A j \in T : i =< j
    BY <1>1, LeastNatural
  <1>3. i \in 1 .. n /\ c[i] \in S /\ \A j \in 1 .. (i - 1) : c[j] \notin S
    BY <1>1, <1>2 DEF T
  <1> QED BY <1>3 DEF IsFirst

\* ... and that is the one that is read.
LEMMA NearestIsFirst ==
    ASSUME NEW c, Len(c) \in Nat, NEW S, NEW i, IsFirst(c, i, S)
    PROVE  Nearest(c, S) = c[i]
  <1>1. \A j \in 1 .. Len(c) : IsFirst(c, j, S) => j = i
    BY DEF IsFirst
  <1>2. i \in 1 .. Len(c)
    BY DEF IsFirst
  <1>3. (CHOOSE j \in 1 .. Len(c) : IsFirst(c, j, S)) = i
    BY <1>1, <1>2
  <1> QED BY <1>3 DEF Nearest

\* A child reads its own property, or what its parent reads.
LEMMA NearestOfChild ==
    ASSUME NEW c \in Seq(Logger), NEW l \in Logger, NEW S,
           NEW n \in 1 .. Len(c), c[n] \in S
    PROVE  /\ l \in S => Nearest(<<l>> \o c, S) = l
           /\ l \notin S => Nearest(<<l>> \o c, S) = Nearest(c, S)
  <1> DEFINE d == <<l>> \o c
  <1>1. Len(d) = Len(c) + 1 /\ d[1] = l /\ \A i \in 1 .. Len(c) : d[i + 1] = c[i]
    OBVIOUS
  <1>2. Len(c) \in Nat
    OBVIOUS
  <1> HIDE DEF d
  <1>3. CASE l \in S
    <2>1. IsFirst(d, 1, S)
      BY <1>1, <1>2, <1>3 DEF IsFirst
    <2>2. Nearest(d, S) = d[1]
      BY <2>1, <1>1, <1>2, NearestIsFirst
    <2> QED BY <2>2, <1>1, <1>3 DEF d
  <1>4. CASE l \notin S
    <2>1. PICK i \in 1 .. n : IsFirst(c, i, S)
      BY <1>2, FirstExists
    <2>2. i \in 1 .. Len(c) /\ c[i] \in S /\ \A j \in 1 .. (i - 1) : c[j] \notin S
      BY <2>1 DEF IsFirst
    <2>3. ASSUME NEW j \in 1 .. i
          PROVE  d[j] \notin S
      <3>1. CASE j = 1
        BY <3>1, <1>1, <1>4
      <3>2. CASE j # 1
        <4>1. j - 1 \in 1 .. (i - 1) /\ j - 1 \in 1 .. Len(c) /\ (j - 1) + 1 = j
          BY <3>2, <2>2
        <4> QED BY <4>1, <1>1, <2>2
      <3> QED BY <3>1, <3>2
    <2>4. IsFirst(d, i + 1, S)
      <3>1. i + 1 \in 1 .. Len(d) /\ d[i + 1] \in S
        BY <1>1, <1>2, <2>2
      <3>2. 1 .. ((i + 1) - 1) = 1 .. i
        OBVIOUS
      <3> QED BY <3>1, <3>2, <2>3 DEF IsFirst
    <2>5. Nearest(d, S) = d[i + 1]
      <3>1. Len(d) \in Nat
        BY <1>1, <1>2
      <3> QED BY <3>1, <2>4, NearestIsFirst, Zenon
    <2>6. Nearest(c, S) = c[i]
      BY <1>2, <2>1, NearestIsFirst
    <2>7. d[i + 1] = c[i]
      BY <1>1, <1>2, <2>2
    <2> QED BY <2>5, <2>6, <2>7, <1>4 DEF d
  <1> QED BY <1>3, <1>4

-----------------------------------------------------------------------------
(* Level tables *)

LEMMA AbsentIsNoTable == Absent \notin Table
  BY AbsentAssumption

LEMMA DefaultLevels ==
    /\ Silent \notin DOMAIN DEFAULT_LEVELS
    /\ \A k \in DOMAIN DEFAULT_LEVELS : DEFAULT_LEVELS[k] \in Nat
    /\ \A j, k \in DOMAIN DEFAULT_LEVELS : DEFAULT_LEVELS[j] = DEFAULT_LEVELS[k] => j = k
  <1>1. DOMAIN DEFAULT_LEVELS = {"trace", "debug", "info", "warn", "error", "fatal"}
    BY DEF DEFAULT_LEVELS
  <1>2. /\ DEFAULT_LEVELS["trace"] = 10 /\ DEFAULT_LEVELS["debug"] = 20
        /\ DEFAULT_LEVELS["info"] = 30 /\ DEFAULT_LEVELS["warn"] = 40
        /\ DEFAULT_LEVELS["error"] = 50 /\ DEFAULT_LEVELS["fatal"] = 60
    BY DEF DEFAULT_LEVELS
  <1>3. Silent \notin DOMAIN DEFAULT_LEVELS
    BY <1>1 DEF Silent
  <1>4. \A k \in DOMAIN DEFAULT_LEVELS : DEFAULT_LEVELS[k] \in Nat
    BY <1>1, <1>2
  <1>5. \A j, k \in DOMAIN DEFAULT_LEVELS : DEFAULT_LEVELS[j] = DEFAULT_LEVELS[k] => j = k
    BY <1>1, <1>2
  <1> QED BY <1>3, <1>4, <1>5

\* The two halves of a table are inverse where it matters: the label of the value
\* of any label has that value, so a level reads back (mappings, levels.js:152).
LEMMA TableRoundTrip ==
    ASSUME NEW table \in Table, NEW k \in DOMAIN table.values
    PROVE  LET v == table.values[k]
           IN  /\ v \in Nat
               /\ v \in DOMAIN table.labels
               /\ table.labels[v] \in DOMAIN table.values
               /\ table.values[table.labels[v]] = v
  <1> USE LevelsAssumption
  <1>1. PICK custom \in CustomLevels, useOnly \in BOOLEAN : table = Mappings(custom, useOnly)
    BY DEF Table
  <1> DEFINE std == StandardLabels(useOnly)
             v == table.values[k]
  <1>2. std \subseteq DOMAIN DEFAULT_LEVELS
    BY DEF StandardLabels
  <1>3. table.values = ValuesMap(custom, useOnly) /\ table.labels = LabelsMap(custom, useOnly)
    BY <1>1 DEF Mappings
  <1>4. /\ DOMAIN table.values = DOMAIN custom \cup std \cup {Silent}
        /\ \A j \in DOMAIN custom : table.values[j] = custom[j]
        /\ table.values[Silent] = Infinity
        /\ \A j \in std \ DOMAIN custom : table.values[j] = DEFAULT_LEVELS[j]
    BY <1>2, <1>3, DefaultLevels DEF ValuesMap
  <1>5. DOMAIN table.labels = ValuesOf(custom) \cup {Infinity} \cup {DEFAULT_LEVELS[j] : j \in std}
    BY <1>3 DEF LabelsMap
  <1>6. ASSUME v \in ValuesOf(custom)
        PROVE  /\ v \in DOMAIN table.labels
               /\ table.labels[v] \in DOMAIN custom /\ custom[table.labels[v]] = v
    <2>1. table.labels[v] = CHOOSE j \in DOMAIN custom : custom[j] = v
      BY <1>3, <1>5, <1>6 DEF LabelsMap
    <2>2. \E j \in DOMAIN custom : custom[j] = v
      BY <1>6 DEF ValuesOf
    <2> QED BY <1>5, <1>6, <2>1, <2>2
  <1>7. CASE k \in DOMAIN custom
    <2>1. v \in ValuesOf(custom) /\ v \in Nat
      BY <1>4, <1>7 DEF ValuesOf
    <2> QED BY <2>1, <1>4, <1>6
  <1>8. CASE k = Silent
    <2>1. v = Infinity /\ v \notin ValuesOf(custom) /\ v \in DOMAIN table.labels
      BY <1>4, <1>5, <1>8 DEF ValuesOf
    <2>2. table.labels[v] = Silent
      BY <2>1, <1>3, <1>5 DEF LabelsMap
    <2> QED BY <2>1, <2>2, <1>4
  <1>9. CASE k \in std \ DOMAIN custom /\ v \notin ValuesOf(custom)
    <2>1. v = DEFAULT_LEVELS[k] /\ v # Infinity /\ v \in Nat /\ v \in DOMAIN table.labels
      BY <1>2, <1>4, <1>5, <1>9, DefaultLevels
    <2>2. table.labels[v] = CHOOSE j \in DOMAIN DEFAULT_LEVELS : DEFAULT_LEVELS[j] = v
      BY <2>1, <1>3, <1>5, <1>9 DEF LabelsMap
    <2>3. table.labels[v] = k
      BY <2>1, <2>2, <1>2, <1>9, DefaultLevels
    <2> QED BY <2>1, <2>3, <1>4, <1>9
  <1>10. CASE k \in std \ DOMAIN custom /\ v \in ValuesOf(custom)
    <2>1. v \in Nat
      BY <1>2, <1>4, <1>10, DefaultLevels
    <2> QED BY <2>1, <1>4, <1>6, <1>10
  <1> QED BY <1>4, <1>7, <1>8, <1>9, <1>10

\* The level pino() is given is known in the table it builds: the check it makes
\* (assertDefaultLevelFound) is as strong as the one setLevel would make.
LEMMA DefaultLevelIsKnown ==
    ASSUME NEW custom \in CustomLevels, NEW useOnly \in BOOLEAN, NEW arg,
           DefaultLevelFound(custom, useOnly, arg)
    PROVE  LabelOf(Mappings(custom, useOnly), arg) \in DOMAIN Mappings(custom, useOnly).values
  <1> USE LevelsAssumption
  <1> DEFINE table == Mappings(custom, useOnly)
             std == StandardLabels(useOnly)
             v == arg.is
  <1>1. table.values = ValuesMap(custom, useOnly) /\ table.labels = LabelsMap(custom, useOnly)
    BY DEF Mappings
  <1>2. DOMAIN table.values = DOMAIN custom \cup std \cup {Silent}
    BY <1>1 DEF ValuesMap
  <1>3. DOMAIN table.labels = ValuesOf(custom) \cup {Infinity} \cup {DEFAULT_LEVELS[j] : j \in std}
    BY <1>1 DEF LabelsMap
  <1>4. CASE arg.tag # "number"
    BY <1>1, <1>4 DEF DefaultLevelFound, LabelOf
  <1>5. CASE arg.tag = "number" /\ v \in ValuesOf(custom)
    <2>1. table.labels[v] = CHOOSE j \in DOMAIN custom : custom[j] = v
      BY <1>1, <1>3, <1>5 DEF LabelsMap
    <2>2. \E j \in DOMAIN custom : custom[j] = v
      BY <1>5 DEF ValuesOf
    <2> QED BY <1>2, <1>5, <2>1, <2>2 DEF LabelOf
  <1>6. CASE arg.tag = "number" /\ v \notin ValuesOf(custom) /\ v = Infinity
    <2>1. table.labels[v] = Silent
      BY <1>1, <1>3, <1>6 DEF LabelsMap
    <2> QED BY <1>2, <1>6, <2>1 DEF LabelOf
  <1>7. CASE arg.tag = "number" /\ v \notin ValuesOf(custom) /\ v # Infinity
    <2>1. ~useOnly /\ v \in ValuesOf(DEFAULT_LEVELS)
      BY <1>7 DEF DefaultLevelFound
    <2>2. std = DOMAIN DEFAULT_LEVELS
      BY <2>1 DEF StandardLabels
    <2>3. \E j \in DOMAIN DEFAULT_LEVELS : DEFAULT_LEVELS[j] = v
      BY <2>1 DEF ValuesOf
    <2>4. v \in DOMAIN table.labels
      BY <1>3, <2>2, <2>3
    <2>5. table.labels[v] = CHOOSE j \in DOMAIN DEFAULT_LEVELS : DEFAULT_LEVELS[j] = v
      BY <1>1, <1>3, <1>7, <2>4 DEF LabelsMap
    <2> QED BY <1>2, <1>7, <2>2, <2>3, <2>5 DEF LabelOf
  <1> QED BY <1>4, <1>5, <1>6, <1>7

-----------------------------------------------------------------------------
(* The chains *)

\* Two properties owned by the same loggers of a chain are read from the same one.
LEMMA SameNearest ==
    ASSUME NEW c, Len(c) \in Nat, NEW S, NEW T,
           \A i \in 1 .. Len(c) : c[i] \in S <=> c[i] \in T,
           NEW n \in 1 .. Len(c), c[n] \in S
    PROVE  Nearest(c, T) = Nearest(c, S)
  <1>1. PICK i \in 1 .. n : IsFirst(c, i, S)
    BY FirstExists
  <1>2. IsFirst(c, i, T)
    BY <1>1 DEF IsFirst
  <1> QED BY <1>1, <1>2, NearestIsFirst

\* Every logger on a chain exists, and the root is at its end.
LEMMA ChainFacts ==
    ASSUME ChainsOK, NEW l \in Born
    PROVE  /\ chain[l] \in Seq(Logger) /\ Len(chain[l]) \in Nat \ {0} /\ chain[l][1] = l
           /\ Len(chain[l]) \in 1 .. Len(chain[l]) /\ chain[l][Len(chain[l])] = Root
           /\ \A i \in 1 .. Len(chain[l]) : chain[l][i] \in Born
  <1>1. l \in Logger /\ chain[l] \in Seq(Logger) /\ chain[l] # << >>
    BY DEF ChainsOK, Born
  <1>2. Len(chain[l]) \in Nat \ {0}
    BY <1>1, EmptySeq
  <1>3. ASSUME NEW i \in 1 .. Len(chain[l])
        PROVE  chain[l][i] \in Born
    <2>1. chain[l][i] \in Logger /\ chain[chain[l][i]] \in Seq(Logger)
      BY <1>1 DEF ChainsOK
    <2>2. Len(chain[chain[l][i]]) = Len(chain[l]) - i + 1
      BY DEF ChainsOK, IsChain
    <2>3. Len(chain[chain[l][i]]) # 0
      BY <1>2, <2>2
    <2> QED BY <2>1, <2>3 DEF Born
  <1> QED BY <1>1, <1>2, <1>3 DEF ChainsOK, IsChain

\* A chain stays one while the chains of its loggers stay as they are ...
LEMMA ChainStays ==
    ASSUME NEW c, NEW f, NEW g, \A i \in 1 .. Len(c) : g[c[i]] = f[c[i]], IsChain(c, f)
    PROVE  IsChain(c, g)
  BY DEF IsChain

\* ... and grows at its front.
LEMMA ChainGrows ==
    ASSUME NEW c \in Seq(Logger), Len(c) # 0, NEW l \in Logger, NEW f,
           IsChain(c, f), f[l] = <<l>> \o c
    PROVE  IsChain(<<l>> \o c, f)
  <1> DEFINE d == <<l>> \o c
  <1>1. /\ Len(c) \in Nat \ {0} /\ Len(d) = Len(c) + 1 /\ d[1] = l
        /\ \A i \in 1 .. Len(c) : d[i + 1] = c[i]
    OBVIOUS
  <1>2. f[l] = d
    OBVIOUS
  <1> HIDE DEF d
  <1>3. d[Len(d)] = Root
    <2>1. c[Len(c)] = Root /\ Len(c) \in 1 .. Len(c)
      BY <1>1 DEF IsChain
    <2> QED BY <1>1, <2>1
  <1>4. ASSUME NEW i \in 1 .. Len(d)
        PROVE  /\ Len(f[d[i]]) = Len(d) - i + 1
               /\ \A j \in 1 .. Len(f[d[i]]) : f[d[i]][j] = d[i + j - 1]
    <2>1. CASE i = 1
      BY <2>1, <1>1, <1>2
    <2>2. CASE i # 1
      <3> DEFINE n == i - 1
                 rest == f[c[n]]
      <3>1. n \in 1 .. Len(c) /\ d[i] = c[n] /\ i = n + 1 /\ n \in Nat
        <4>1. i - 1 \in 1 .. Len(c) /\ (i - 1) + 1 = i
          BY <2>2, <1>1
        <4> QED BY <4>1, <1>1
      <3> HIDE DEF n
      <3>2. /\ Len(rest) = Len(c) - n + 1
            /\ \A j \in 1 .. Len(rest) : rest[j] = c[n + j - 1]
        BY <3>1 DEF IsChain
      <3>3. f[d[i]] = rest
        BY <3>1
      <3> HIDE DEF rest
      <3>4. ASSUME NEW j \in 1 .. Len(rest)
            PROVE  rest[j] = d[i + j - 1]
        <4>1. n + j - 1 \in 1 .. Len(c) /\ i + j - 1 = (n + j - 1) + 1
          BY <1>1, <3>1, <3>2
        <4> QED BY <4>1, <1>1, <3>2
      <3>5. Len(rest) = Len(d) - i + 1
        BY <1>1, <3>1, <3>2
      <3> QED BY <3>3, <3>4, <3>5
    <2> QED BY <2>1, <2>2
  <1>5. IsChain(d, f)
    BY <1>3, <1>4 DEF IsChain
  <1> QED BY <1>5 DEF d

\* A child's chain is its own name before its parent's chain; no other changes.
LEMMA ChildChain ==
    ASSUME ChainsOK, NEW p \in Born, NEW l \in Logger \ Born,
           chain' = [chain EXCEPT ![l] = <<l>> \o chain[p]]
    PROVE  /\ ChainsOK' /\ Born' = Born \cup {l}
           /\ chain'[l] = <<l>> \o chain[p]
           /\ \A m \in Logger \ {l} : chain'[m] = chain[m]
  <1> DEFINE c == chain[p]
             d == <<l>> \o c
  <1>1. c \in Seq(Logger) /\ Len(c) \in Nat \ {0} /\ chain \in [Logger -> Seq(Logger)]
    BY ChainFacts DEF ChainsOK
  <1>2. /\ d \in Seq(Logger) /\ Len(d) = Len(c) + 1 /\ d # << >> /\ d[1] = l
        /\ \A i \in 1 .. Len(c) : d[i + 1] = c[i]
    BY <1>1
  <1>3. /\ chain' \in [Logger -> Seq(Logger)] /\ chain'[l] = d
        /\ \A m \in Logger \ {l} : chain'[m] = chain[m]
    BY <1>1, <1>2
  <1>4. Born' = Born \cup {l} /\ Born \subseteq Logger
    BY <1>2, <1>3 DEF Born
  <1>5. ASSUME NEW m \in Born
        PROVE  /\ chain'[m] = chain[m]
               /\ \A i \in 1 .. Len(chain[m]) : chain'[chain[m][i]] = chain[chain[m][i]]
    BY <1>3, <1>4, ChainFacts
  <1>6. \A m \in Born : chain'[m][1] = m /\ IsChain(chain'[m], chain')
    <2> SUFFICES ASSUME NEW m \in Born PROVE chain'[m][1] = m /\ IsChain(chain'[m], chain')
      OBVIOUS
    <2>1. chain[m][1] = m /\ IsChain(chain[m], chain)
      BY DEF ChainsOK
    <2> DEFINE e == chain[m]
               f == chain
               g == chain'
    <2>2. /\ g[m] = e /\ e[1] = m /\ IsChain(e, f)
          /\ \A i \in 1 .. Len(e) : g[e[i]] = f[e[i]]
      BY <2>1, <1>5
    <2> HIDE DEF e, f, g
    <2>3. IsChain(e, g)
      BY <2>2, ChainStays
    <2> QED BY <2>2, <2>3 DEF g
  <1>7. IsChain(d, chain')
    <2>1. IsChain(c, chain')
      BY <1>5, <1>6
    <2> QED BY <2>1, <1>1, <1>3, ChainGrows
  <1> HIDE DEF d
  <1>8. Root \in Born'
    BY <1>4 DEF ChainsOK
  <1>9. ChainsOK'
    BY <1>2, <1>3, <1>4, <1>6, <1>7, <1>8, ZenonT(60) DEF ChainsOK
  <1> QED BY <1>3, <1>4, <1>9 DEF d

-----------------------------------------------------------------------------
(* The levels *)

\* Every logger reads its table, its level and the methods of that table from
\* its chain, the level from the first logger that has one.
LEMMA LevelSource ==
    ASSUME LevelInv, NEW l \in Born
    PROVE  \E i \in 1 .. Len(chain[l]) :
              LET a == chain[l][i]
              IN  /\ IsFirst(chain[l], i, Owners(levelVal))
                  /\ a \in Born /\ levelVal[a] # Absent /\ Bound(a)
                  /\ LevelVal(l) = levelVal[a]
                  /\ Get(levels, l) = Get(levels, a) /\ Get(levels, l) \in Table
  <1> DEFINE c == chain[l]
             S == Owners(levelVal)
             T == Owners(levels)
  <1>1. /\ Len(c) \in Nat \ {0} /\ Len(c) \in 1 .. Len(c) /\ c[Len(c)] = Root
        /\ \A i \in 1 .. Len(c) : c[i] \in Born /\ c[i] \in Logger
    BY ChainFacts DEF LevelInv, Born
  <1>2. T \subseteq S /\ Root \in T
    BY LoggerAssumption DEF LevelInv, OwnLevelsOK, Owners
  <1>3. \A a \in S : levelVal[a] # Absent /\ Bound(a)
    BY DEF LevelInv, OwnLevelsOK, Owners
  <1>4. \A a \in T : levels[a] \in Table
    BY DEF LevelInv, OwnLevelsOK, Owners
  <1>5. IsChain(c, chain)
    BY DEF LevelInv, ChainsOK
  <1>6. Get(levels, l) = levels[Nearest(c, T)] /\ LevelVal(l) = levelVal[Nearest(c, S)]
    BY DEF Get, LevelVal
  <1> HIDE DEF c, S, T
  <1>7. PICK j \in 1 .. Len(c) : IsFirst(c, j, T)
    BY <1>1, <1>2, FirstExists
  <1>8. j \in 1 .. Len(c) /\ c[j] \in T /\ \A k \in 1 .. (j - 1) : c[k] \notin T
    BY <1>7 DEF IsFirst
  <1>9. PICK i \in 1 .. j : IsFirst(c, i, S)
    BY <1>1, <1>2, <1>8, FirstExists
  <1>10. i \in 1 .. Len(c) /\ c[i] \in S
    BY <1>9 DEF IsFirst
  <1>11. Nearest(c, T) = c[j] /\ Nearest(c, S) = c[i]
    BY <1>1, <1>7, <1>9, NearestIsFirst
  <1> DEFINE rest == chain[c[i]]
             n == j - i + 1
  <1>12. /\ Len(rest) = Len(c) - i + 1
         /\ \A k \in 1 .. Len(rest) : rest[k] = c[i + k - 1]
    BY <1>5, <1>10 DEF IsChain
  <1>13. Get(levels, c[i]) = levels[Nearest(rest, T)]
    BY DEF Get, T
  <1> HIDE DEF rest
  <1>14. IsFirst(rest, n, T)
    <2>1. n \in 1 .. Len(rest) /\ i + n - 1 = j
      BY <1>1, <1>8, <1>9, <1>12
    <2>2. rest[n] \in T
      BY <2>1, <1>8, <1>12
    <2>3. ASSUME NEW k \in 1 .. (n - 1)
          PROVE  rest[k] \notin T
      <3>1. k \in 1 .. Len(rest) /\ i + k - 1 \in 1 .. (j - 1)
        BY <1>1, <1>8, <1>9, <2>1
      <3> QED BY <3>1, <1>8, <1>12
    <2> HIDE DEF n
    <2> QED BY <2>1, <2>2, <2>3 DEF IsFirst
  <1>15. Nearest(rest, T) = c[j]
    <2>1. n \in 1 .. Len(rest) /\ i + n - 1 = j /\ Len(rest) \in Nat
      BY <1>1, <1>8, <1>9, <1>12
    <2> HIDE DEF n
    <2> QED BY <2>1, <1>12, <1>14, NearestIsFirst
  <1>16. /\ IsFirst(c, i, S) /\ c[i] \in Born /\ levelVal[c[i]] # Absent /\ Bound(c[i])
         /\ LevelVal(l) = levelVal[c[i]]
         /\ Get(levels, l) = Get(levels, c[i]) /\ Get(levels, l) \in Table
    BY <1>1, <1>3, <1>4, <1>6, <1>8, <1>9, <1>10, <1>11, <1>13, <1>15
  <1> QED BY <1>10, <1>16 DEF c, S

\* The table a logger reads changes only with its chain or the tables on it.
LEMMA TableUnchanged ==
    ASSUME LevelInv, NEW m \in Born, chain'[m] = chain[m],
           \A i \in 1 .. Len(chain[m]) : levels'[chain[m][i]] = levels[chain[m][i]]
    PROVE  Get(levels, m)' = Get(levels, m)
  <1> DEFINE c == chain[m]
             S == Owners(levels)
             T == Owners(levels)'
             x == levels'
  <1>1. /\ Len(c) \in Nat /\ Len(c) \in 1 .. Len(c) /\ c[Len(c)] = Root
        /\ \A i \in 1 .. Len(c) : c[i] \in Logger
    BY ChainFacts DEF LevelInv, Born
  <1>2. \A i \in 1 .. Len(c) : c[i] \in S <=> c[i] \in T
    BY <1>1 DEF Owners
  <1>3. Root \in S
    BY LoggerAssumption DEF LevelInv, OwnLevelsOK, Owners
  <1>4. Get(levels, m)' = x[Nearest(c, T)] /\ Get(levels, m) = levels[Nearest(c, S)]
    BY DEF Get
  <1>5. \A i \in 1 .. Len(c) : x[c[i]] = levels[c[i]]
    OBVIOUS
  <1> HIDE DEF c, S, T, x
  <1>6. PICK i \in 1 .. Len(c) : IsFirst(c, i, S)
    BY <1>1, <1>3, FirstExists
  <1>7. Nearest(c, S) = c[i]
    BY <1>1, <1>6, NearestIsFirst
  <1>8. Nearest(c, T) = Nearest(c, S)
    BY <1>1, <1>2, <1>3, SameNearest
  <1> QED BY <1>4, <1>5, <1>6, <1>7, <1>8

\* A child reads its own table, or its parent's.
LEMMA TableOfChild ==
    ASSUME LevelInv, NEW p \in Born, NEW l \in Logger \ Born, NEW t,
           chain'[l] = <<l>> \o chain[p], levels' = [levels EXCEPT ![l] = t]
    PROVE  /\ t # Absent => Get(levels, l)' = t
           /\ t = Absent => Get(levels, l)' = Get(levels, p)
  <1> DEFINE c == chain[p]
             S == Owners(levels)
             T == Owners(levels)'
             x == levels'
  <1>1. /\ c \in Seq(Logger) /\ Len(c) \in Nat /\ Len(c) \in 1 .. Len(c) /\ c[Len(c)] = Root
        /\ \A i \in 1 .. Len(c) : c[i] \in Logger /\ c[i] # l
    BY ChainFacts DEF LevelInv, Born
  <1>2. x[l] = t /\ \A m \in Logger \ {l} : x[m] = levels[m]
    BY DEF LevelInv, OwnLevelsOK
  <1>3. /\ l \in T <=> t # Absent
        /\ \A m \in Logger \ {l} : m \in T <=> m \in S
        /\ Root \in S
    BY <1>2, LoggerAssumption DEF LevelInv, OwnLevelsOK, Owners
  <1>4. Get(levels, l)' = x[Nearest(<<l>> \o c, T)] /\ Get(levels, p) = levels[Nearest(c, S)]
    BY DEF Get
  <1> HIDE DEF c, S, T, x
  <1>5. \A i \in 1 .. Len(c) : c[i] \in S <=> c[i] \in T
    BY <1>1, <1>3
  <1>6. c[Len(c)] \in T
    BY <1>1, <1>3, <1>5
  <1>7. /\ l \in T => Nearest(<<l>> \o c, T) = l
        /\ l \notin T => Nearest(<<l>> \o c, T) = Nearest(c, T)
    BY <1>1, <1>6, NearestOfChild
  <1>8. Nearest(c, T) = Nearest(c, S)
    BY <1>1, <1>3, <1>5, SameNearest
  <1>9. Nearest(c, S) \in Logger \ {l}
    <2>1. PICK i \in 1 .. Len(c) : IsFirst(c, i, S)
      BY <1>1, <1>3, FirstExists
    <2> QED BY <2>1, <1>1, NearestIsFirst
  <1> QED BY <1>2, <1>3, <1>4, <1>7, <1>8, <1>9

\* setLevel leaves a logger with the methods of the table it reads.
LEMMA AssignBinds ==
    ASSUME NEW l \in Logger, NEW table \in Table, NEW k \in DOMAIN table.values,
           Get(levels, l)' = table, levelVal'[l] = table.values[k],
           methods'[l] = Assign(methods[l], MethodsAt(table, config.useOnly,
                                    config.comparison, table.values[k])),
           config' = config
    PROVE  Bound(l)' /\ levelVal'[l] \in Nat /\ levelVal'[l] # Absent
  <1>1. table.values[k] \in ValuesOf(table.values)
    BY DEF ValuesOf
  <1>2. table.values[k] \in Nat /\ table.values[k] # Absent
    BY TableRoundTrip, LevelsAssumption
  <1> DEFINE f == methods[l]
             g == MethodsAt(table, config.useOnly, config.comparison, table.values[k])
  <1>3. DOMAIN g = MethodLabels(table)
    BY DEF MethodsAt
  <1>4. methods'[l] = Assign(f, g)
    OBVIOUS
  <1> HIDE DEF f, g
  <1>5. \A j \in DOMAIN g : j \in DOMAIN Assign(f, g) /\ Assign(f, g)[j] = g[j]
    BY DEF Assign
  <1> QED BY <1>1, <1>2, <1>3, <1>4, <1>5 DEF Bound, g

\* What a logger is bound to depends on nothing else.
LEMMA BoundStays ==
    ASSUME NEW m, Bound(m), Get(levels, m)' = Get(levels, m), levelVal'[m] = levelVal[m],
           methods'[m] = methods[m], config' = config
    PROVE  Bound(m)'
  BY DEF Bound

\* pino() binds the methods of the root's table at the root's level.
LEMMA LevelInit == Init => LevelInv
  <1> SUFFICES ASSUME Init PROVE LevelInv
    OBVIOUS
  <1> USE LoggerAssumption
  <1>1. PICK opt \in RootOptions :
          LET table == Mappings(RootCustom(opt), opt.useOnly)
              val == table.values[LabelOf(table, RootLevelArg(opt))]
          IN  /\ RootOptionsPass(opt)
              /\ config = [comparison |-> opt.comparison, useOnly |-> opt.useOnly]
              /\ chain = [l \in Logger |-> IF l = Root THEN <<Root>> ELSE << >>]
              /\ levels = OwnAtRoot(table)
              /\ levelVal = OwnAtRoot(val)
              /\ methods = [l \in Logger |->
                    IF l = Root
                    THEN Assign([k \in {Silent} |-> Noop],
                                MethodsAt(table, opt.useOnly, opt.comparison, val))
                    ELSE << >>]
    BY DEF Init
  <1> DEFINE table == Mappings(RootCustom(opt), opt.useOnly)
             k == LabelOf(table, RootLevelArg(opt))
             val == table.values[k]
             g == MethodsAt(table, opt.useOnly, opt.comparison, val)
  <1>2. /\ RootCustom(opt) \in CustomLevels /\ opt.useOnly \in BOOLEAN
        /\ DefaultLevelFound(RootCustom(opt), opt.useOnly, RootLevelArg(opt))
    BY <1>1, OptionsAssumption DEF RootOptionsPass
  <1>3. table \in Table /\ table # Absent /\ k \in DOMAIN table.values
    BY <1>2, DefaultLevelIsKnown, AbsentIsNoTable DEF Table
  <1>4. val \in Nat /\ val # Absent /\ val \in ValuesOf(table.values)
    BY <1>3, TableRoundTrip, LevelsAssumption DEF ValuesOf
  <1>5. /\ config.comparison = opt.comparison /\ config.useOnly = opt.useOnly
        /\ chain = [l \in Logger |-> IF l = Root THEN <<Root>> ELSE << >>]
        /\ levels = [l \in Logger |-> IF l = Root THEN table ELSE Absent]
        /\ levelVal = [l \in Logger |-> IF l = Root THEN val ELSE Absent]
        /\ methods = [l \in Logger |-> IF l = Root THEN Assign([j \in {Silent} |-> Noop], g)
                                       ELSE << >>]
    BY <1>1 DEF OwnAtRoot
  <1>6. DOMAIN g = MethodLabels(table)
    BY DEF MethodsAt
  <1>7. g = MethodsAt(table, config.useOnly, config.comparison, val)
    BY <1>5
  <1> HIDE DEF table, k, val, g
  <1>8. Born = {Root} /\ chain[Root] = <<Root>>
    BY <1>5 DEF Born
  <1>9. ChainsOK
    BY <1>5, <1>8 DEF ChainsOK, IsChain
  <1>10. Get(levels, Root) = table
    <2>1. IsFirst(chain[Root], 1, Owners(levels))
      BY <1>3, <1>5, <1>8 DEF IsFirst, Owners
    <2>2. Nearest(chain[Root], Owners(levels)) = Root
      BY <2>1, <1>8, NearestIsFirst
    <2> QED BY <2>2, <1>5 DEF Get
  <1>11. Bound(Root)
    <2>1. \A j \in DOMAIN g : /\ j \in DOMAIN Assign([i \in {Silent} |-> Noop], g)
                              /\ Assign([i \in {Silent} |-> Noop], g)[j] = g[j]
      BY DEF Assign
    <2> QED BY <2>1, <1>4, <1>5, <1>6, <1>7, <1>10 DEF Bound
  <1>12. OwnLevelsOK
    BY <1>2, <1>3, <1>4, <1>5, <1>8, <1>11 DEF OwnLevelsOK
  <1> QED BY <1>9, <1>12 DEF LevelInv

\* Every operation keeps the methods of every logger bound to its level.
LEMMA LevelStep ==
    ASSUME LevelInv, [Next]_vars
    PROVE  LevelInv'
  <1>1. ASSUME NEW l \in Born, NEW arg \in LevelArgs, SetLevel(l, arg)
        PROVE  LevelInv'
    <2> DEFINE table == Get(levels, l)
               k == LabelOf(table, arg)
    <2>1. table \in Table /\ k \in DOMAIN table.values /\ l \in Logger
      BY <1>1, LevelSource DEF SetLevel, LevelKnown, Born
    <2>2. /\ config' = config /\ chain' = chain /\ levels' = levels
          /\ levelVal' = [levelVal EXCEPT ![l] = table.values[k]]
          /\ methods' = [methods EXCEPT ![l] = Assign(methods[l],
                MethodsAt(table, config.useOnly, config.comparison, table.values[k]))]
      BY <1>1 DEF SetLevel, AssignLevel
    <2>3. ChainsOK' /\ Born' = Born
      BY <2>2 DEF LevelInv, ChainsOK, Born
    <2>4. \A m \in Born : Get(levels, m)' = Get(levels, m)
      BY <2>2 DEF Get, Owners
    <2> HIDE DEF table, k
    <2>5. /\ levelVal'[l] = table.values[k]
          /\ methods'[l] = Assign(methods[l],
                MethodsAt(table, config.useOnly, config.comparison, table.values[k]))
          /\ methods' = [m \in Logger |-> methods'[m]]
          /\ \A m \in Logger \ {l} : levelVal'[m] = levelVal[m] /\ methods'[m] = methods[m]
      BY <2>1, <2>2 DEF LevelInv, OwnLevelsOK
    <2>6. Bound(l)' /\ levelVal'[l] \in Nat /\ levelVal'[l] # Absent
      BY <2>1, <2>2, <2>4, <2>5, AssignBinds DEF table
    <2>7. \A m \in Born \ {l} : levelVal'[m] # Absent => Bound(m)'
      BY <2>2, <2>4, <2>5 DEF LevelInv, OwnLevelsOK, Bound, Born
    <2>8. levelVal' \in [Logger -> Nat \cup {Absent}]
      BY <2>1, <2>2, <2>5, <2>6 DEF LevelInv, OwnLevelsOK
    <2>9. OwnLevelsOK'
      BY <2>1, <2>2, <2>3, <2>5, <2>6, <2>7, <2>8 DEF LevelInv, OwnLevelsOK, Born
    <2> QED BY <2>3, <2>9 DEF LevelInv
  <1>2. CASE UNCHANGED <<config, chain, levels, levelVal, methods>>
    <2>1. ChainsOK' /\ Born' = Born
      BY <1>2 DEF LevelInv, ChainsOK, Born
    <2>2. \A m \in Born : Bound(m) => Bound(m)'
      <3>1. \A m \in Born : Get(levels, m)' = Get(levels, m)
        BY <1>2 DEF Get, Owners
      <3> QED BY <1>2, <3>1, BoundStays
    <2> QED BY <1>2, <2>1, <2>2 DEF LevelInv, OwnLevelsOK
  <1>3. ASSUME NEW l \in Born, \/ \E b \in NewBindings : SetBindings(l, b)
                               \/ \E k \in LogLabels : Log(l, k)
        PROVE  LevelInv'
    BY <1>2, <1>3 DEF SetBindings, Log, levelState
  <1>4. ASSUME NEW p \in Born, NEW l \in Logger, NEW b \in Bindings, ChildFast(p, l, b)
        PROVE  LevelInv'
    <2>1. /\ l \in Logger \ Born /\ chain' = [chain EXCEPT ![l] = <<l>> \o chain[p]]
          /\ config' = config /\ levels' = levels /\ levelVal' = levelVal /\ methods' = methods
      BY <1>4 DEF ChildFast, levelState
    <2>2. /\ ChainsOK' /\ Born' = Born \cup {l}
          /\ \A m \in Logger \ {l} : chain'[m] = chain[m]
      BY <2>1, ChildChain DEF LevelInv
    <2>3. \A m \in Born : Bound(m) => Bound(m)'
      <3> SUFFICES ASSUME NEW m \in Born, Bound(m) PROVE Bound(m)'
        OBVIOUS
      <3>1. Get(levels, m)' = Get(levels, m)
        BY <2>1, <2>2, TableUnchanged DEF Born
      <3> QED BY <2>1, <3>1 DEF Bound
    <2> QED BY <2>1, <2>2, <2>3 DEF LevelInv, OwnLevelsOK
  <1>5. ASSUME NEW p \in Born, NEW l \in Logger, NEW b \in Bindings, NEW opt \in ChildOptions,
               ChildWithOptions(p, l, b, opt)
        PROVE  LevelInv'
    <2> DEFINE own == opt.customLevels # Absent
               table == IF own THEN Mappings(opt.customLevels, config.useOnly)
                        ELSE Get(levels, p)
               t == IF own THEN table ELSE Absent
               k == LabelOf(table, SpawnLevelArg(p, opt))
    <2>1. /\ l \in Logger \ Born /\ chain' = [chain EXCEPT ![l] = <<l>> \o chain[p]]
          /\ config' = config /\ levels' = [levels EXCEPT ![l] = t]
      BY <1>5 DEF ChildWithOptions
    <2>2. SetsOwnLevel(p, opt) =>
             /\ k \in DOMAIN table.values
             /\ levelVal' = [levelVal EXCEPT ![l] = table.values[k]]
             /\ methods' = [methods EXCEPT ![l] = Assign(methods[l],
                   MethodsAt(table, config.useOnly, config.comparison, table.values[k]))]
      BY <1>5 DEF ChildWithOptions, AssignLevel, LevelKnown
    <2>3. ~SetsOwnLevel(p, opt) => ~own /\ levelVal' = levelVal /\ methods' = methods
      BY <1>5 DEF ChildWithOptions, SetsOwnLevel
    <2>4. table \in Table
      <3>1. own => table \in Table
        BY OptionsAssumption DEF Table, LevelInv, OwnLevelsOK
      <3>2. ~own => table \in Table
        BY LevelSource
      <3> QED BY <3>1, <3>2
    <2>5. (own => t = table) /\ (~own => t = Absent /\ table = Get(levels, p)) /\ t \in Table \cup {Absent}
      BY <2>4
    <2> HIDE DEF own, table, t, k
    <2>6. /\ ChainsOK' /\ Born' = Born \cup {l} /\ chain'[l] = <<l>> \o chain[p]
          /\ \A m \in Logger \ {l} : chain'[m] = chain[m]
      BY <2>1, ChildChain DEF LevelInv
    <2>7. Get(levels, l)' = table
      <3>1. /\ t # Absent => Get(levels, l)' = t
            /\ t = Absent => Get(levels, l)' = Get(levels, p)
        BY <2>1, <2>6, TableOfChild
      <3>2. table # Absent
        BY <2>4, AbsentIsNoTable
      <3> QED BY <2>5, <3>1, <3>2 DEF own
    <2>8. /\ levels' \in [Logger -> Table \cup {Absent}] /\ levels'[l] = t
          /\ \A m \in Logger \ {l} : levels'[m] = levels[m]
      BY <2>1, <2>5 DEF LevelInv, OwnLevelsOK
    <2>9. \A m \in Born : Get(levels, m)' = Get(levels, m)
      <3> SUFFICES ASSUME NEW m \in Born PROVE Get(levels, m)' = Get(levels, m)
        OBVIOUS
      <3>1. \A i \in 1 .. Len(chain[m]) : chain[m][i] \in Logger \ {l}
        BY <2>1, ChainFacts DEF LevelInv, Born
      <3>2. chain'[m] = chain[m]
        BY <2>1, <2>6 DEF Born
      <3> QED BY <2>8, <3>1, <3>2, TableUnchanged
    <2>10. CASE SetsOwnLevel(p, opt)
      <3>1. /\ levelVal'[l] = table.values[k]
            /\ methods'[l] = Assign(methods[l],
                  MethodsAt(table, config.useOnly, config.comparison, table.values[k]))
            /\ methods' = [m \in Logger |-> methods'[m]]
            /\ \A m \in Logger \ {l} : levelVal'[m] = levelVal[m] /\ methods'[m] = methods[m]
        BY <2>1, <2>2, <2>10 DEF LevelInv, OwnLevelsOK
      <3>2. Bound(l)' /\ levelVal'[l] \in Nat /\ levelVal'[l] # Absent
        BY <2>1, <2>2, <2>4, <2>7, <2>10, <3>1, AssignBinds
      <3>3. \A m \in Born : levelVal'[m] # Absent => Bound(m)'
        <4> SUFFICES ASSUME NEW m \in Born, levelVal'[m] # Absent PROVE Bound(m)'
          OBVIOUS
        <4>1. levelVal'[m] = levelVal[m] /\ methods'[m] = methods[m] /\ m \in Logger
          BY <2>1, <3>1 DEF Born
        <4> QED BY <2>1, <2>9, <4>1, BoundStays DEF LevelInv, OwnLevelsOK
      <3>4. levelVal' \in [Logger -> Nat \cup {Absent}]
        BY <2>1, <2>2, <2>10, <3>1, <3>2 DEF LevelInv, OwnLevelsOK
      <3>5. Root # l /\ Root \in Logger
        BY <2>1 DEF LevelInv, ChainsOK, Born
      <3>6. OwnLevelsOK'
        BY <2>1, <2>6, <2>8, <3>1, <3>2, <3>3, <3>4, <3>5 DEF LevelInv, OwnLevelsOK, Born
      <3> QED BY <2>6, <3>6 DEF LevelInv
    <2>11. CASE ~SetsOwnLevel(p, opt)
      <3>1. t = Absent /\ levelVal' = levelVal /\ methods' = methods
        BY <2>3, <2>5, <2>11
      <3>2. \A m \in Born : levelVal[m] # Absent => Bound(m)'
        <4> SUFFICES ASSUME NEW m \in Born, levelVal[m] # Absent PROVE Bound(m)'
          OBVIOUS
        <4>1. levelVal'[m] = levelVal[m] /\ methods'[m] = methods[m] /\ m \in Logger
          BY <2>1, <3>1 DEF Born
        <4> QED BY <2>1, <2>9, <4>1, BoundStays DEF LevelInv, OwnLevelsOK
      <3>3. Root # l /\ Root \in Logger
        BY <2>1 DEF LevelInv, ChainsOK, Born
      <3>4. OwnLevelsOK'
        BY <2>1, <2>6, <2>8, <3>1, <3>2, <3>3 DEF LevelInv, OwnLevelsOK
      <3> QED BY <2>6, <3>4 DEF LevelInv
    <2> QED BY <2>10, <2>11
  <1>6. CASE UNCHANGED vars
    BY <1>2, <1>6 DEF vars, levelState
  <1> QED BY <1>1, <1>3, <1>4, <1>5, <1>6 DEF Next

THEOREM LevelInvariant == Spec => []LevelInv
  BY LevelInit, LevelStep, PTL DEF Spec

-----------------------------------------------------------------------------
(* What follows *)

\* The method a logger reads for a label of its table is the one its own level
\* calls for, wherever on the chain it comes from.
LEMMA MethodRead ==
    ASSUME LevelInv, NEW l \in Born, NEW k \in MethodLabels(Get(levels, l))
    PROVE  /\ HasMethod(l, k)
           /\ MethodOf(l, k) = MethodsAt(Get(levels, l), config.useOnly,
                                         config.comparison, LevelVal(l))[k]
  <1> DEFINE c == chain[l]
             T == MethodOwners(k)
             m == MethodsAt(Get(levels, l), config.useOnly, config.comparison, LevelVal(l))[k]
  <1>1. PICK i \in 1 .. Len(c) :
           /\ IsFirst(c, i, Owners(levelVal))
           /\ c[i] \in Born /\ Bound(c[i]) /\ LevelVal(l) = levelVal[c[i]]
           /\ Get(levels, l) = Get(levels, c[i])
    BY LevelSource
  <1>2. Len(c) \in Nat /\ \A j \in 1 .. Len(c) : c[j] \in Logger
    BY ChainFacts DEF LevelInv, Born
  <1>3. k \in DOMAIN methods[c[i]] /\ methods[c[i]][k] = m
    BY <1>1 DEF Bound
  <1>4. c[i] \in T
    BY <1>1, <1>2, <1>3 DEF MethodOwners
  <1>5. ASSUME NEW j \in 1 .. (i - 1)
        PROVE  c[j] \notin T
    <2>1. j \in 1 .. Len(c) /\ c[j] \in Logger /\ c[j] \notin Owners(levelVal)
      BY <1>1, <1>2 DEF IsFirst
    <2>2. methods[c[j]] = << >>
      BY <2>1 DEF Owners, LevelInv, OwnLevelsOK
    <2>3. k \notin DOMAIN << >>
      OBVIOUS
    <2> QED BY <2>2, <2>3 DEF MethodOwners
  <1>6. HasMethod(l, k)
    BY <1>4 DEF HasMethod
  <1>7. MethodOf(l, k) = methods[Nearest(c, T)][k]
    BY DEF MethodOf
  <1> HIDE DEF c, T, m
  <1>8. IsFirst(c, i, T)
    BY <1>1, <1>4, <1>5 DEF IsFirst
  <1>9. Nearest(c, T) = c[i]
    BY <1>2, <1>8, NearestIsFirst
  <1> QED BY <1>3, <1>6, <1>7, <1>9 DEF m

\* For any tree of loggers, any custom levels, any comparison and any order of
\* assignments and spawns: a log method writes exactly if isLevelEnabled would
\* say so, although it was bound when some ancestor's level was assigned.
THEOREM MethodsAlwaysFollowLevel == Spec => []MethodsFollowLevel
  <1>1. LevelInv => MethodsFollowLevel
    <2> SUFFICES ASSUME LevelInv, NEW l \in Born, NEW k \in MethodLabels(Get(levels, l))
                 PROVE  HasMethod(l, k) /\ (MethodOf(l, k).writes <=> IsLevelEnabled(l, k))
      BY DEF MethodsFollowLevel
    <2> DEFINE table == Get(levels, l)
               enabled == LevelEnabled(config.comparison, table.values[k], LevelVal(l))
    <2>1. /\ HasMethod(l, k)
          /\ MethodOf(l, k) = MethodsAt(table, config.useOnly, config.comparison, LevelVal(l))[k]
      BY MethodRead
    <2>2. k \in DOMAIN table.values
      BY DEF MethodLabels
    <2>3. MethodOf(l, k) = IF enabled THEN LogMethod(k, config.useOnly, table.values[k]) ELSE Noop
      BY <2>1 DEF MethodsAt
    <2>4. LogMethod(k, config.useOnly, table.values[k]).writes = TRUE /\ Noop.writes = FALSE
      BY DEF LogMethod, Noop
    <2>5. IsLevelEnabled(l, k) <=> enabled
      BY <2>2 DEF IsLevelEnabled
    <2> HIDE DEF enabled
    <2> QED BY <2>1, <2>3, <2>4, <2>5
  <1> QED BY <1>1, LevelInvariant, PTL

\* logger.level always reads as a label of the level in force: assigning it back
\* changes nothing, for any custom levels.
THEOREM LevelAlwaysReadsBack == Spec => []LevelReadsBack
  <1>1. LevelInv => LevelReadsBack
    <2> SUFFICES ASSUME LevelInv, NEW l \in Born
                 PROVE  /\ LevelVal(l) \in DOMAIN Get(levels, l).labels
                        /\ Level(l) \in DOMAIN Get(levels, l).values
                        /\ Get(levels, l).values[Level(l)] = LevelVal(l)
      BY DEF LevelReadsBack
    <2> DEFINE table == Get(levels, l)
    <2>1. table \in Table /\ LevelVal(l) \in ValuesOf(table.values)
      BY LevelSource DEF Bound
    <2>2. PICK k \in DOMAIN table.values : LevelVal(l) = table.values[k]
      BY <2>1 DEF ValuesOf
    <2>3. Level(l) = table.labels[LevelVal(l)]
      BY DEF Level
    <2> HIDE DEF table
    <2>4. /\ LevelVal(l) \in DOMAIN table.labels
          /\ table.labels[LevelVal(l)] \in DOMAIN table.values
          /\ table.values[table.labels[LevelVal(l)]] = LevelVal(l)
      BY <2>1, <2>2, TableRoundTrip
    <2> QED BY <2>3, <2>4 DEF table
  <1> QED BY <1>1, LevelInvariant, PTL

-----------------------------------------------------------------------------
(* What a step may change *)

MethodsRead ==
    \A l \in Born : \A k \in MethodLabels(Get(levels, l)) :
        MethodOf(l, k) = MethodsAt(Get(levels, l), config.useOnly,
                                   config.comparison, LevelVal(l))[k]

LEMMA MethodsAreRead == LevelInv => MethodsRead
  BY MethodRead DEF MethodsRead

LEMMA MethodsAreReadNext == LevelInv' => MethodsRead'
  BY MethodsAreRead, PTL

\* A logger keeps its level and its methods while its chain, the tables and the
\* levels up to the first one on it stay as they are.
LEMMA LevelUnchanged ==
    ASSUME LevelInv, LevelInv', NEW m \in Born, chain'[m] = chain[m], config' = config,
           \A j \in 1 .. Len(chain[m]) : levels'[chain[m][j]] = levels[chain[m][j]],
           NEW i \in 1 .. Len(chain[m]), IsFirst(chain[m], i, Owners(levelVal)),
           \A j \in 1 .. i : levelVal'[chain[m][j]] = levelVal[chain[m][j]]
    PROVE  /\ LevelVal(m)' = LevelVal(m)
           /\ \A k \in MethodLabels(Get(levels, m)) : MethodOf(m, k)' = MethodOf(m, k)
  <1> DEFINE c == chain[m]
             S == Owners(levelVal)
             T == Owners(levelVal)'
             x == levelVal'
  <1>1. Len(c) \in Nat /\ \A j \in 1 .. Len(c) : c[j] \in Logger
    BY ChainFacts DEF LevelInv, Born
  <1>2. \A j \in 1 .. i : c[j] \in S <=> c[j] \in T
    BY <1>1 DEF Owners
  <1>3. LevelVal(m)' = x[Nearest(c, T)] /\ LevelVal(m) = levelVal[Nearest(c, S)]
    BY DEF LevelVal, Get
  <1>4. IsFirst(c, i, S) /\ x[c[i]] = levelVal[c[i]]
    OBVIOUS
  <1>5. m \in Born'
    BY DEF Born
  <1> HIDE DEF c, S, T, x
  <1>6. IsFirst(c, i, T)
    BY <1>1, <1>2, <1>4 DEF IsFirst
  <1>7. Nearest(c, S) = c[i] /\ Nearest(c, T) = c[i]
    BY <1>1, <1>4, <1>6, NearestIsFirst
  <1>8. LevelVal(m)' = LevelVal(m)
    BY <1>3, <1>4, <1>7
  <1>9. Get(levels, m)' = Get(levels, m)
    BY TableUnchanged
  <1>10. MethodsRead /\ MethodsRead'
    BY MethodsAreRead, MethodsAreReadNext
  <1> QED BY <1>5, <1>8, <1>9, <1>10 DEF MethodsRead

\* Assigning a level reaches the loggers below with no level in between ...
LEMMA AssignmentStays ==
    ASSUME LevelInv, LevelInv', NEW l \in Born, NEW arg \in LevelArgs, SetLevel(l, arg),
           NEW m \in Born,
           \/ LevelVal(m)' # LevelVal(m)
           \/ \E k \in MethodLabels(Get(levels, m)) : MethodOf(m, k)' # MethodOf(m, k)
    PROVE  /\ obs'.kind = "level-change"
           /\ \E i \in 1 .. Len(chain[m]) :
                 /\ chain[m][i] = obs'.of
                 /\ \A j \in 1 .. (i - 1) : levelVal[chain[m][j]] = Absent
  <1>1. PICK i \in 1 .. Len(chain[m]) : IsFirst(chain[m], i, Owners(levelVal))
    BY LevelSource
  <1>2. /\ chain' = chain /\ config' = config /\ levels' = levels
        /\ obs'.kind = "level-change" /\ obs'.of = l
        /\ \E v : levelVal' = [levelVal EXCEPT ![l] = v]
    BY <1>1 DEF SetLevel, AssignLevel, LevelChange
  <1>3. /\ Len(chain[m]) \in Nat
        /\ \A j \in 1 .. Len(chain[m]) : chain[m][j] \in Logger
    BY ChainFacts DEF LevelInv, Born
  <1>4. \A j \in 1 .. (i - 1) : levelVal[chain[m][j]] = Absent
    BY <1>1, <1>3 DEF IsFirst, Owners
  <1>5. CASE \E j \in 1 .. i : chain[m][j] = l
    BY <1>1, <1>2, <1>3, <1>4, <1>5
  <1>6. CASE \A j \in 1 .. i : chain[m][j] # l
    <2>1. \A j \in 1 .. i : levelVal'[chain[m][j]] = levelVal[chain[m][j]]
      BY <1>1, <1>2, <1>3, <1>6 DEF LevelInv, OwnLevelsOK
    <2>2. /\ LevelVal(m)' = LevelVal(m)
          /\ \A k \in MethodLabels(Get(levels, m)) : MethodOf(m, k)' = MethodOf(m, k)
      BY <1>1, <1>2, <2>1, LevelUnchanged
    <2> QED BY <2>2
  <1> QED BY <1>5, <1>6

\* ... and no other operation changes a level or a method of a logger there was.
LEMMA OthersStay ==
    ASSUME LevelInv, LevelInv', config' = config, NEW m \in Born,
           \A a \in Born : /\ chain'[a] = chain[a] /\ levels'[a] = levels[a]
                          /\ levelVal'[a] = levelVal[a]
    PROVE  /\ LevelVal(m)' = LevelVal(m)
           /\ \A k \in MethodLabels(Get(levels, m)) : MethodOf(m, k)' = MethodOf(m, k)
  <1>1. PICK i \in 1 .. Len(chain[m]) : IsFirst(chain[m], i, Owners(levelVal))
    BY LevelSource
  <1>2. /\ Len(chain[m]) \in Nat
        /\ \A j \in 1 .. Len(chain[m]) : chain[m][j] \in Born
    BY ChainFacts DEF LevelInv
  <1>3. chain'[m] = chain[m]
    OBVIOUS
  <1> QED BY <1>1, <1>2, <1>3, LevelUnchanged

LEMMA SubtreeStep ==
    ASSUME LevelInv, LevelInv', Next, NEW m \in Born,
           \/ LevelVal(m)' # LevelVal(m)
           \/ \E k \in MethodLabels(Get(levels, m)) : MethodOf(m, k)' # MethodOf(m, k)
    PROVE  /\ obs'.kind = "level-change"
           /\ \E i \in 1 .. Len(chain[m]) :
                 /\ chain[m][i] = obs'.of
                 /\ \A j \in 1 .. (i - 1) : levelVal[chain[m][j]] = Absent
  <1>1. ASSUME NEW l \in Born, NEW arg \in LevelArgs, SetLevel(l, arg)
        PROVE  /\ obs'.kind = "level-change"
               /\ \E i \in 1 .. Len(chain[m]) :
                     /\ chain[m][i] = obs'.of
                     /\ \A j \in 1 .. (i - 1) : levelVal[chain[m][j]] = Absent
    BY <1>1, AssignmentStays
  <1>2. ASSUME UNCHANGED <<config, chain, levels, levelVal>>
        PROVE  FALSE
    BY <1>2, OthersStay
  <1>3. ASSUME NEW l \in Born, \/ \E b \in NewBindings : SetBindings(l, b)
                               \/ \E k \in LogLabels : Log(l, k)
        PROVE  FALSE
    BY <1>2, <1>3 DEF SetBindings, Log, levelState
  <1>4. ASSUME NEW p \in Born, NEW l \in Logger, NEW b \in Bindings,
               \/ ChildFast(p, l, b)
               \/ \E opt \in ChildOptions : ChildWithOptions(p, l, b, opt)
        PROVE  FALSE
    <2>1. l \notin Born /\ config' = config
      BY <1>4 DEF ChildFast, ChildWithOptions
    <2>2. \E x, y, z : /\ chain' = [chain EXCEPT ![l] = x]
                       /\ levels' = levels \/ levels' = [levels EXCEPT ![l] = y]
                       /\ levelVal' = levelVal \/ levelVal' = [levelVal EXCEPT ![l] = z]
      BY <1>4, SMTT(30) DEF ChildFast, ChildWithOptions, AssignLevel, levelState
    <2>3. \A a \in Born : /\ chain'[a] = chain[a] /\ levels'[a] = levels[a]
                         /\ levelVal'[a] = levelVal[a]
      <3> SUFFICES ASSUME NEW a \in Born
                   PROVE  /\ chain'[a] = chain[a] /\ levels'[a] = levels[a]
                          /\ levelVal'[a] = levelVal[a]
        OBVIOUS
      <3>1. a # l /\ a \in Logger
        BY <2>1 DEF Born
      <3>2. /\ chain = [n \in Logger |-> chain[n]]
            /\ levels = [n \in Logger |-> levels[n]]
            /\ levelVal = [n \in Logger |-> levelVal[n]]
        BY DEF LevelInv, ChainsOK, OwnLevelsOK
      <3>3. PICK x, y, z : /\ chain' = [chain EXCEPT ![l] = x]
                           /\ levels' = levels \/ levels' = [levels EXCEPT ![l] = y]
                           /\ levelVal' = levelVal \/ levelVal' = [levelVal EXCEPT ![l] = z]
        BY <2>2
      <3> HIDE <2>2
      <3>4. chain'[a] = chain[a]
        BY <3>1, <3>2, <3>3
      <3>5. levels'[a] = levels[a]
        BY <3>1, <3>2, <3>3
      <3>6. levelVal'[a] = levelVal[a]
        BY <3>1, <3>2, <3>3
      <3> QED BY <3>4, <3>5, <3>6
    <2> QED BY <2>1, <2>3, OthersStay
  <1> QED BY <1>1, <1>3, <1>4 DEF Next

\* A level and the methods it enables change only below the logger it was
\* assigned at, and only where no logger in between has a level of its own.
THEOREM LevelsAlwaysStayInSubtree == Spec => LevelStaysInSubtree
  <1>1. LevelInv /\ LevelInv' /\ [Next]_vars =>
          [\A m \in Born :
             (LevelVal(m)' # LevelVal(m)
                \/ \E k \in MethodLabels(Get(levels, m)) : MethodOf(m, k)' # MethodOf(m, k))
             => /\ obs'.kind = "level-change"
                /\ \E i \in 1 .. Len(chain[m]) :
                      /\ chain[m][i] = obs'.of
                      /\ \A j \in 1 .. (i - 1) : levelVal[chain[m][j]] = Absent]_vars
    BY SubtreeStep
  <1> QED BY <1>1, LevelInvariant, PTL DEF Spec, LevelStaysInSubtree

-----------------------------------------------------------------------------
(* What a level-change event tells *)

\* A logger with a level of its own reads it.
LEMMA OwnLevelRead ==
    ASSUME LevelInv, NEW l \in Born, levelVal[l] # Absent
    PROVE  LevelVal(l) = levelVal[l]
  <1>1. /\ Len(chain[l]) \in Nat \ {0} /\ chain[l][1] = l /\ l \in Logger
    BY ChainFacts DEF LevelInv, Born
  <1>2. IsFirst(chain[l], 1, Owners(levelVal))
    BY <1>1 DEF IsFirst, Owners
  <1>3. Nearest(chain[l], Owners(levelVal)) = l
    BY <1>1, <1>2, NearestIsFirst
  <1> QED BY <1>3 DEF LevelVal, Get

OwnLevelsRead == \A l \in Born : levelVal[l] # Absent => LevelVal(l) = levelVal[l]

LEMMA OwnLevelsReadNext == LevelInv' => OwnLevelsRead'
  <1>1. LevelInv => OwnLevelsRead
    BY OwnLevelRead DEF OwnLevelsRead
  <1> QED BY <1>1, PTL

LEMMA EventStep ==
    ASSUME LevelInv, LevelInv', Next, NEW l \in Logger,
           obs'.kind = "level-change", obs'.of = l
    PROVE  /\ obs'.val = LevelVal(l)'
           /\ IF l \in Born THEN obs'.prevVal = LevelVal(l)
              ELSE \E p \in Born : p = chain'[l][2] /\ obs'.prevVal = LevelVal(p)
  <1> DEFINE Told == /\ obs'.val = LevelVal(l)'
                     /\ IF l \in Born THEN obs'.prevVal = LevelVal(l)
                        ELSE \E p \in Born : p = chain'[l][2] /\ obs'.prevVal = LevelVal(p)
  <1> SUFFICES Told
    OBVIOUS
  <1>1. \A op \in {"bindings", "child", "noop"} : \A m : Quiet(op, m).kind # "level-change"
    BY DEF Quiet
  <1>2. ASSUME NEW k \in Born, NEW arg \in LevelArgs, SetLevel(k, arg)
        PROVE  Told
    <2> DEFINE val == Get(levels, k).values[LabelOf(Get(levels, k), arg)]
    <2>1. /\ obs'.of = k /\ obs'.val = val /\ obs'.prevVal = LevelVal(k)
          /\ levelVal' = [levelVal EXCEPT ![k] = val] /\ chain' = chain
      BY <1>2 DEF SetLevel, AssignLevel, LevelChange
    <2>2. Get(levels, k) \in Table /\ LabelOf(Get(levels, k), arg) \in DOMAIN Get(levels, k).values
      BY <1>2, LevelSource DEF SetLevel, LevelKnown
    <2>3. val # Absent
      BY <2>2, TableRoundTrip, LevelsAssumption
    <2> HIDE DEF val
    <2>4. l = k /\ levelVal'[l] = val /\ l \in Born'
      BY <2>1 DEF Born, LevelInv, OwnLevelsOK
    <2>5. LevelVal(l)' = val
      BY <2>3, <2>4, OwnLevelsReadNext DEF OwnLevelsRead
    <2> QED BY <2>1, <2>4, <2>5
  <1>3. ASSUME NEW k \in Born, NEW b \in NewBindings, SetBindings(k, b)
        PROVE  Told
    BY <1>1, <1>3 DEF SetBindings
  <1>4. ASSUME NEW k \in Born, NEW c \in Logger, NEW b \in Bindings, ChildFast(k, c, b)
        PROVE  Told
    BY <1>1, <1>4 DEF ChildFast
  <1>5. ASSUME NEW p \in Born, NEW c \in Logger, NEW b \in Bindings, NEW opt \in ChildOptions,
               ChildWithOptions(p, c, b, opt)
        PROVE  Told
    <2> DEFINE own == opt.customLevels # Absent
               table == IF own THEN Mappings(opt.customLevels, config.useOnly)
                        ELSE Get(levels, p)
               val == table.values[LabelOf(table, SpawnLevelArg(p, opt))]
    <2>1. /\ c \in Logger \ Born
          /\ SetsOwnLevel(p, opt) => LabelOf(table, SpawnLevelArg(p, opt)) \in DOMAIN table.values
          /\ chain' = [chain EXCEPT ![c] = <<c>> \o chain[p]]
      BY <1>5 DEF ChildWithOptions, LevelKnown
    <2>2. SetsOwnLevel(p, opt)
      BY <1>1, <1>5 DEF ChildWithOptions
    <2>3. AssignLevel(c, table, SpawnLevelArg(p, opt), LevelVal(p))
      BY <1>5, <2>2 DEF ChildWithOptions
    <2>4. /\ obs'.of = c /\ obs'.val = val /\ obs'.prevVal = LevelVal(p)
          /\ levelVal' = [levelVal EXCEPT ![c] = val]
      BY <2>3 DEF AssignLevel, LevelChange
    <2>5. table \in Table
      <3>1. own => table \in Table
        BY OptionsAssumption DEF Table, LevelInv, OwnLevelsOK
      <3>2. ~own => table \in Table
        BY LevelSource
      <3> QED BY <3>1, <3>2
    <2>6. val # Absent
      <3> HIDE DEF table
      <3> QED BY <2>1, <2>2, <2>5, TableRoundTrip, LevelsAssumption
    <2> HIDE DEF val, table, own
    <2>7. l = c /\ levelVal'[l] = val /\ l \notin Born
      BY <2>1, <2>4 DEF LevelInv, OwnLevelsOK
    <2>8. chain'[l] = <<l>> \o chain[p] /\ l \in Born'
      BY <2>1, <2>7, ChildChain DEF LevelInv
    <2>9. LevelVal(l)' = val
      BY <2>6, <2>7, <2>8, OwnLevelsReadNext DEF OwnLevelsRead
    <2>10. chain'[l][2] = p
      <3>1. chain[p] \in Seq(Logger) /\ Len(chain[p]) \in Nat \ {0} /\ chain[p][1] = p
        BY ChainFacts DEF LevelInv
      <3> QED BY <2>7, <2>8, <3>1
    <2> QED BY <2>4, <2>7, <2>9, <2>10
  <1>6. ASSUME NEW k \in Born, NEW label \in LogLabels, Log(k, label)
        PROVE  Told
    <2>1. Line(k, label).kind = "line"
      BY DEF Line
    <2> QED BY <1>1, <1>6, <2>1 DEF Log
  <1> HIDE DEF Told
  <1> QED BY <1>2, <1>3, <1>4, <1>5, <1>6 DEF Next

\* Every level-change event tells the level before and the one in force after,
\* for any tree, options and order of operations; for a new logger the level
\* before is its parent's.
THEOREM EventsAlwaysTellTransition == Spec => EventTellsTransition
  <1>1. LevelInv /\ LevelInv' /\ [Next]_vars =>
          [\A l \in Logger : obs'.kind = "level-change" /\ obs'.of = l =>
             /\ obs'.val = LevelVal(l)'
             /\ IF l \in Born THEN obs'.prevVal = LevelVal(l)
                ELSE \E p \in Born : p = chain'[l][2] /\ obs'.prevVal = LevelVal(p)]_vars
    BY EventStep
  <1> QED BY <1>1, LevelInvariant, PTL DEF Spec, EventTellsTransition

-----------------------------------------------------------------------------
(* Methods are functions, tables come with caches *)

\* What is assigned to a logger's methods are functions to methods.
LEMMA MethodsAtTyped ==
    ASSUME NEW table \in Table, NEW useOnly, NEW comparison, NEW val
    PROVE  /\ MethodsAt(table, useOnly, comparison, val)
                 \in [MethodLabels(table) -> Method]
  <1> SUFFICES ASSUME NEW k \in MethodLabels(table)
               PROVE  LogMethod(k, useOnly, table.values[k]) \in Method /\ Noop \in Method
    BY DEF MethodsAt
  <1>1. table.values[k] \in Nat
    BY TableRoundTrip DEF MethodLabels
  <1>2. k \in StandardLabels(useOnly) => DEFAULT_LEVELS[k] \in Nat
    BY DefaultLevels DEF StandardLabels
  <1> QED BY <1>1, <1>2 DEF LogMethod, Method, IsStandardLevel

LEMMA AssignTyped ==
    ASSUME NEW S, NEW R, NEW f \in [R -> S], NEW T, NEW g \in [T -> S]
    PROVE  Assign(f, g) \in [DOMAIN Assign(f, g) -> S]
  BY DEF Assign

\* The table child() makes or inherits is one.
LEMMA SpawnTable ==
    ASSUME LevelInv, NEW p \in Born, NEW opt \in ChildOptions
    PROVE  (IF opt.customLevels # Absent THEN Mappings(opt.customLevels, config.useOnly)
            ELSE Get(levels, p)) \in Table
  <1>1. opt.customLevels # Absent => Mappings(opt.customLevels, config.useOnly) \in Table
    BY OptionsAssumption DEF Table, LevelInv, OwnLevelsOK
  <1>2. Get(levels, p) \in Table
    BY LevelSource
  <1> QED BY <1>1, <1>2

LEMMA MethodsStep ==
    ASSUME LevelInv, MethodsAreFunctions, [Next]_vars
    PROVE  MethodsAreFunctions'
  <1>1. ASSUME NEW l \in Logger, NEW table \in Table, NEW arg, NEW prev,
               AssignLevel(l, table, arg, prev)
        PROVE  MethodsAreFunctions'
    <2> DEFINE g == MethodsAt(table, config.useOnly, config.comparison,
                              table.values[LabelOf(table, arg)])
    <2>1. methods' = [methods EXCEPT ![l] = Assign(methods[l], g)]
      BY <1>1 DEF AssignLevel
    <2>2. g \in [MethodLabels(table) -> Method]
      BY MethodsAtTyped
    <2> HIDE DEF g
    <2>3. Assign(methods[l], g) \in [DOMAIN Assign(methods[l], g) -> Method]
      BY <2>2, AssignTyped DEF MethodsAreFunctions
    <2>4. methods = [m \in Logger |-> methods[m]]
      BY DEF LevelInv, OwnLevelsOK
    <2>5. methods'[l] = Assign(methods[l], g) /\ \A m \in Logger \ {l} : methods'[m] = methods[m]
      BY <2>1, <2>4
    <2> QED BY <2>3, <2>5 DEF MethodsAreFunctions
  <1>2. ASSUME NEW l \in Born, NEW arg \in LevelArgs, SetLevel(l, arg)
        PROVE  MethodsAreFunctions'
    <2>1. Get(levels, l) \in Table /\ l \in Logger
      BY LevelSource DEF Born
    <2> QED BY <1>1, <1>2, <2>1 DEF SetLevel
  <1>3. CASE UNCHANGED methods
    BY <1>3 DEF MethodsAreFunctions
  <1>4. ASSUME NEW l \in Born, \/ \E b \in NewBindings : SetBindings(l, b)
                               \/ \E c \in Logger, b \in Bindings : ChildFast(l, c, b)
                               \/ \E k \in LogLabels : Log(l, k)
        PROVE  MethodsAreFunctions'
    BY <1>3, <1>4 DEF SetBindings, ChildFast, Log, levelState
  <1>5. ASSUME NEW p \in Born, NEW l \in Logger, NEW b \in Bindings, NEW opt \in ChildOptions,
               ChildWithOptions(p, l, b, opt)
        PROVE  MethodsAreFunctions'
    <2> DEFINE table == IF opt.customLevels # Absent
                        THEN Mappings(opt.customLevels, config.useOnly)
                        ELSE Get(levels, p)
    <2>1. \/ AssignLevel(l, table, SpawnLevelArg(p, opt), LevelVal(p))
          \/ UNCHANGED methods
      BY <1>5 DEF ChildWithOptions
    <2>2. table \in Table
      BY SpawnTable
    <2> HIDE DEF table
    <2> QED BY <1>1, <1>3, <2>1, <2>2
  <1>6. CASE UNCHANGED vars
    BY <1>3, <1>6 DEF vars
  <1> QED BY <1>2, <1>4, <1>5, <1>6 DEF Next

-----------------------------------------------------------------------------
(* What renders a line and its bindings *)

\* What is read from a chain stays while the chain and what its loggers own do.
LEMMA ReadStays ==
    ASSUME ChainsOK, NEW m \in Born, NEW f, NEW g, f[Root] # Absent,
           \A a \in Born : g[a] = f[a]
    PROVE  g[Nearest(chain[m], Owners(g))] = f[Nearest(chain[m], Owners(f))]
  <1> DEFINE c == chain[m]
             S == Owners(f)
             T == Owners(g)
  <1>1. /\ Len(c) \in Nat /\ Len(c) \in 1 .. Len(c)
        /\ \A i \in 1 .. Len(c) : c[i] \in Born /\ c[i] \in Logger
        /\ c[Len(c)] = Root /\ Root \in Logger
    BY ChainFacts, LoggerAssumption DEF Born
  <1>2. \A i \in 1 .. Len(c) : g[c[i]] = f[c[i]] /\ (c[i] \in S <=> c[i] \in T)
    BY <1>1 DEF Owners
  <1>3. c[Len(c)] \in S
    BY <1>1 DEF Owners
  <1> HIDE DEF c, S, T
  <1>4. PICK i \in 1 .. Len(c) : IsFirst(c, i, S)
    BY <1>1, <1>3, FirstExists
  <1>5. Nearest(c, S) = c[i] /\ Nearest(c, T) = Nearest(c, S)
    BY <1>1, <1>2, <1>3, <1>4, NearestIsFirst, SameNearest
  <1> QED BY <1>2, <1>4, <1>5 DEF c, S, T

\* A new logger reads what it owns itself, or what its parent reads.
LEMMA ReadOfChild ==
    ASSUME ChainsOK, NEW p \in Born, NEW l \in Logger \ Born, NEW f, NEW g, f[Root] # Absent,
           \A a \in Born : g[a] = f[a]
    PROVE  /\ g[l] # Absent => g[Nearest(<<l>> \o chain[p], Owners(g))] = g[l]
           /\ g[l] = Absent => g[Nearest(<<l>> \o chain[p], Owners(g))]
                                  = f[Nearest(chain[p], Owners(f))]
  <1> DEFINE c == chain[p]
             T == Owners(g)
  <1>1. /\ c \in Seq(Logger) /\ Len(c) \in 1 .. Len(c)
        /\ c[Len(c)] = Root /\ Root \in Born /\ Root \in Logger
    BY ChainFacts DEF ChainsOK, Born
  <1>2. g[Root] # Absent /\ Root \in T
    BY <1>1 DEF Owners
  <1>3. l \in T <=> g[l] # Absent
    BY DEF Owners
  <1>4. g[Nearest(c, T)] = f[Nearest(c, Owners(f))]
    BY ReadStays
  <1> HIDE DEF c, T
  <1>5. /\ l \in T => Nearest(<<l>> \o c, T) = l
        /\ l \notin T => Nearest(<<l>> \o c, T) = Nearest(c, T)
    BY <1>1, <1>2, NearestOfChild
  <1> QED BY <1>3, <1>4, <1>5 DEF c, T

\* What is read is one of the values that are owned.
LEMMA ReadTyped ==
    ASSUME ChainsOK, NEW m \in Born, NEW S, NEW f \in [Logger -> S \cup {Absent}],
           f[Root] # Absent
    PROVE  f[Nearest(chain[m], Owners(f))] \in S
  <1> DEFINE c == chain[m]
             T == Owners(f)
  <1>1. /\ Len(c) \in Nat /\ Len(c) \in 1 .. Len(c) /\ c[Len(c)] = Root
        /\ \A i \in 1 .. Len(c) : c[i] \in Logger
    BY ChainFacts DEF Born
  <1>2. c[Len(c)] \in T
    BY <1>1 DEF Owners
  <1> HIDE DEF c, T
  <1>3. PICK i \in 1 .. Len(c) : IsFirst(c, i, T)
    BY <1>1, <1>2, FirstExists
  <1>4. Nearest(c, T) = c[i] /\ c[i] \in T
    BY <1>1, <1>3, NearestIsFirst DEF IsFirst
  <1> QED BY <1>4 DEF c, T, Owners

\* Every logger reads formatters, serializers and redaction, and its own bindings.
LEMMA RenderingRead ==
    ASSUME ChainsOK, RenderingOK, NEW m \in Born
    PROVE  /\ Get(formatters, m) \in FormatterPair
           /\ Get(serializers, m) \in SerializerMap
           /\ Get(redact, m) \in Redact
           /\ Get(chindings, m) = chindings[m] /\ chindings[m] \in Seq(Segments)
  <1>1. Get(formatters, m) \in FormatterPair
    BY ReadTyped DEF RenderingOK, Get
  <1>2. Get(serializers, m) \in SerializerMap
    BY ReadTyped DEF RenderingOK, Get
  <1>3. Get(redact, m) \in Redact
    BY ReadTyped DEF RenderingOK, Get
  <1>4. Get(chindings, m) = chindings[m]
    <2>1. Len(chain[m]) \in Nat \ {0} /\ chain[m][1] = m /\ m \in Logger
      BY ChainFacts DEF Born
    <2>2. chindings[m] # Absent
      BY <2>1 DEF RenderingOK
    <2>3. IsFirst(chain[m], 1, Owners(chindings))
      BY <2>1, <2>2 DEF IsFirst, Owners
    <2>4. Nearest(chain[m], Owners(chindings)) = m
      BY <2>1, <2>3, NearestIsFirst
    <2> QED BY <2>4 DEF Get
  <1>5. chindings[m] \in Seq(Segments)
    BY DEF RenderingOK, Born
  <1> QED BY <1>1, <1>2, <1>3, <1>4, <1>5

\* It reads the same while what loggers own stays.
LEMMA RenderingStays ==
    ASSUME ChainsOK, RenderingOK, NEW m \in Born, chain'[m] = chain[m],
           \A a \in Born : /\ formatters'[a] = formatters[a]
                          /\ serializers'[a] = serializers[a]
                          /\ redact'[a] = redact[a]
    PROVE  /\ Get(formatters, m)' = Get(formatters, m)
           /\ Get(serializers, m)' = Get(serializers, m)
           /\ Get(redact, m)' = Get(redact, m)
  <1>1. formatters[Root] # Absent /\ serializers[Root] # Absent /\ redact[Root] # Absent
    BY DEF RenderingOK
  <1>2. Get(formatters, m)' = Get(formatters, m)
    BY <1>1, ReadStays DEF Get
  <1>3. Get(serializers, m)' = Get(serializers, m)
    BY <1>1, ReadStays DEF Get
  <1>4. Get(redact, m)' = Get(redact, m)
    BY <1>1, ReadStays DEF Get
  <1> QED BY <1>2, <1>3, <1>4

\* undefined is no value a logger may own.
LEMMA AbsentIsNoValue ==
    /\ Absent \notin FormatterPair /\ Absent \notin SerializerMap /\ Absent \notin Redact
    /\ Absent \notin Formatter /\ Absent \notin Seq(Segments)
  BY AbsentAssumption

\* What a new logger owns, and what it reads then: its first segment is rendered
\* with what it reads.
LEMMA ChildRendering ==
    ASSUME ChainsOK, RenderingOK, NEW p \in Born, NEW l \in Logger, NEW b \in Bindings,
           ChildFast(p, l, b) \/ \E opt \in ChildOptions : ChildWithOptions(p, l, b, opt)
    PROVE  /\ l \notin Born /\ ChainsOK' /\ Born' = Born \cup {l}
           /\ chain'[l] = <<l>> \o chain[p] /\ \A m \in Born : chain'[m] = chain[m]
           /\ \E x \in FormatterPair \cup {Absent} : formatters' = [formatters EXCEPT ![l] = x]
           /\ \E x \in SerializerMap \cup {Absent} : serializers' = [serializers EXCEPT ![l] = x]
           /\ \E x \in Redact \cup {Absent} : redact' = [redact EXCEPT ![l] = x]
           /\ Get(formatters, l)'.bindings \in Formatter
           /\ Get(serializers, l)' \in SerializerMap
           /\ Get(redact, l)' \in Redact
           /\ chindings' = [chindings EXCEPT ![l] =
                 Append(chindings[p], Segment(l, b, Get(formatters, l)'.bindings,
                                              Get(serializers, l)', Get(redact, l)'))]
  <1> DEFINE F == formatters'
             S == serializers'
             R == redact'
  <1>1. /\ l \notin Born /\ chain' = [chain EXCEPT ![l] = <<l>> \o chain[p]]
    BY DEF ChildFast, ChildWithOptions
  <1>2. /\ ChainsOK' /\ Born' = Born \cup {l}
        /\ chain'[l] = <<l>> \o chain[p] /\ \A m \in Born : chain'[m] = chain[m]
    <2>1. l \in Logger \ Born /\ \A m \in Born : m \in Logger \ {l}
      BY <1>1 DEF Born
    <2> QED BY <1>1, <2>1, ChildChain
  <1>3. /\ Get(formatters, p) \in FormatterPair /\ Get(serializers, p) \in SerializerMap
        /\ Get(redact, p) \in Redact /\ Get(chindings, p) = chindings[p]
    BY RenderingRead
  <1>4. /\ formatters[l] = Absent /\ serializers[l] = Absent /\ redact[l] = Absent
        /\ formatters[Root] # Absent /\ serializers[Root] # Absent /\ redact[Root] # Absent
    BY <1>1 DEF RenderingOK
  <1>5. /\ formatters = [m \in Logger |-> formatters[m]] /\ redact = [m \in Logger |-> redact[m]]
        /\ serializers = [m \in Logger |-> serializers[m]]
    BY DEF RenderingOK
  <1>6. /\ Get(formatters, l)' = F[Nearest(<<l>> \o chain[p], Owners(F))]
        /\ Get(serializers, l)' = S[Nearest(<<l>> \o chain[p], Owners(S))]
        /\ Get(redact, l)' = R[Nearest(<<l>> \o chain[p], Owners(R))]
    BY <1>2 DEF Get
  <1>7. ASSUME NEW x \in FormatterPair \cup {Absent}, F = [formatters EXCEPT ![l] = x]
        PROVE  Get(formatters, l)' = IF x = Absent THEN Get(formatters, p) ELSE x
    <2>1. F[l] = x /\ \A a \in Born : F[a] = formatters[a]
      BY <1>1, <1>5, <1>7 DEF Born
    <2> HIDE DEF F
    <2> QED BY <1>1, <1>4, <1>6, <2>1, ReadOfChild DEF Get
  <1>8. ASSUME NEW x \in SerializerMap \cup {Absent}, S = [serializers EXCEPT ![l] = x]
        PROVE  Get(serializers, l)' = IF x = Absent THEN Get(serializers, p) ELSE x
    <2>1. S[l] = x /\ \A a \in Born : S[a] = serializers[a]
      BY <1>1, <1>5, <1>8 DEF Born
    <2> HIDE DEF S
    <2> QED BY <1>1, <1>4, <1>6, <2>1, ReadOfChild DEF Get
  <1>9. ASSUME NEW x \in Redact \cup {Absent}, R = [redact EXCEPT ![l] = x]
        PROVE  Get(redact, l)' = IF x = Absent THEN Get(redact, p) ELSE x
    <2>1. R[l] = x /\ \A a \in Born : R[a] = redact[a]
      BY <1>1, <1>5, <1>9 DEF Born
    <2> HIDE DEF R
    <2> QED BY <1>1, <1>4, <1>6, <2>1, ReadOfChild DEF Get
  <1> DEFINE Rendered ==
        /\ \E x \in FormatterPair \cup {Absent} : formatters' = [formatters EXCEPT ![l] = x]
        /\ \E x \in SerializerMap \cup {Absent} : serializers' = [serializers EXCEPT ![l] = x]
        /\ \E x \in Redact \cup {Absent} : redact' = [redact EXCEPT ![l] = x]
        /\ Get(formatters, l)'.bindings \in Formatter
        /\ Get(serializers, l)' \in SerializerMap
        /\ Get(redact, l)' \in Redact
        /\ chindings' = [chindings EXCEPT ![l] =
              Append(chindings[p], Segment(l, b, Get(formatters, l)'.bindings,
                                           Get(serializers, l)', Get(redact, l)'))]
  <1>10. ASSUME ChildFast(p, l, b)
         PROVE  Rendered
    <2> DEFINE x == IF Get(formatters, p).bindings # ResetFormatter
                    THEN [level |-> Get(formatters, p).level, bindings |-> ResetFormatter]
                    ELSE Absent
    <2>1. x \in FormatterPair \cup {Absent}
      BY <1>3, LoggerAssumption DEF FormatterPair
    <2>2. (IF x = Absent THEN Get(formatters, p) ELSE x).bindings = ResetFormatter
      BY <1>3, AbsentIsNoValue, LoggerAssumption DEF FormatterPair
    <2>3. F = [formatters EXCEPT ![l] = x]
      BY <1>10 DEF ChildFast
    <2>4. S = serializers /\ R = redact
      BY <1>10 DEF ChildFast
    <2>5. S = [serializers EXCEPT ![l] = Absent] /\ R = [redact EXCEPT ![l] = Absent]
      BY <2>4, <1>4, <1>5
    <2>6. chindings' = [chindings EXCEPT ![l] = Append(Get(chindings, p),
               Segment(l, b, ResetFormatter, Get(serializers, p), Get(redact, p)))]
      BY <1>10 DEF ChildFast
    <2> HIDE DEF x
    <2>7. /\ Get(formatters, l)'.bindings = ResetFormatter
          /\ Get(serializers, l)' = Get(serializers, p)
          /\ Get(redact, l)' = Get(redact, p)
      BY <2>1, <2>2, <2>3, <2>5, <1>7, <1>8, <1>9
    <2>8. /\ Get(formatters, l)'.bindings \in Formatter
          /\ Get(serializers, l)' \in SerializerMap /\ Get(redact, l)' \in Redact
      BY <1>3, <2>7, LoggerAssumption
    <2>9. chindings' = [chindings EXCEPT ![l] =
              Append(chindings[p], Segment(l, b, Get(formatters, l)'.bindings,
                                           Get(serializers, l)', Get(redact, l)'))]
      BY <1>3, <2>6, <2>7
    <2> QED BY <2>1, <2>3, <2>5, <2>8, <2>9
  <1>11. ASSUME NEW opt \in ChildOptions, ChildWithOptions(p, l, b, opt)
         PROVE  Rendered
    <2> DEFINE fmt == [level |-> IF opt.formatLevel # Absent THEN opt.formatLevel
                                 ELSE Get(formatters, p).level,
                       bindings |-> IF opt.formatBindings # Absent THEN opt.formatBindings
                                    ELSE ResetFormatter]
               ser == Assign(Get(serializers, p), opt.serializers)
               red == IF opt.redact # Absent THEN opt.redact ELSE Get(redact, p)
    <2>1. fmt \in FormatterPair
      BY <1>3, OptionsAssumption, LoggerAssumption DEF FormatterPair
    <2>2. ser \in SerializerMap /\ red \in Redact /\ opt.redact \in Redact \cup {Absent}
      BY <1>3, OptionsAssumption
    <2>3. /\ F = [formatters EXCEPT ![l] = fmt] /\ S = [serializers EXCEPT ![l] = ser]
          /\ R = [redact EXCEPT ![l] = opt.redact]
      BY <1>11 DEF ChildWithOptions
    <2>4. chindings' = [chindings EXCEPT ![l] =
             Append(Get(chindings, p), Segment(l, b, fmt.bindings, ser, red))]
      BY <1>11 DEF ChildWithOptions
    <2>5. fmt.bindings \in Formatter
      BY <2>1 DEF FormatterPair
    <2> HIDE DEF fmt, ser
    <2>6. Get(formatters, l)' = fmt
      BY <2>1, <2>3, <1>7, AbsentIsNoValue
    <2>7. Get(serializers, l)' = ser
      BY <2>2, <2>3, <1>8, AbsentIsNoValue
    <2>8. Get(redact, l)' = red
      BY <2>2, <2>3, <1>9
    <2> HIDE DEF red
    <2> QED BY <1>3, <2>1, <2>2, <2>3, <2>4, <2>5, <2>6, <2>7, <2>8
  <1> HIDE DEF Rendered
  <1>12. Rendered
    <2>1. CASE ChildFast(p, l, b)
      BY <1>10, <2>1 DEF Rendered
    <2> QED BY <1>11, <2>1
  <1> QED BY <1>1, <1>2, <1>12 DEF Rendered

\* setBindings() and child() append one segment of the right kind ...
LEMMA SegmentTyped ==
    ASSUME NEW l \in Logger, NEW b \in Bindings \cup NewBindings, NEW fmt \in Formatter,
           NEW ser \in SerializerMap, NEW red \in Redact, NEW s \in Seq(Segments)
    PROVE  LET seg == Segment(l, b, fmt, ser, red)
           IN  /\ seg \in Segments /\ Append(s, seg) \in Seq(Segments)
               /\ Append(s, seg) # Absent
               /\ Len(Append(s, seg)) = Len(s) + 1 /\ Append(s, seg)[Len(s) + 1] = seg
               /\ \A i \in 1 .. Len(s) : Append(s, seg)[i] = s[i]
  <1> DEFINE seg == Segment(l, b, fmt, ser, red)
  <1>1. seg \in Segments
    BY DEF Segment, Segments
  <1> HIDE DEF seg
  <1>2. /\ Append(s, seg) \in Seq(Segments)
        /\ Len(Append(s, seg)) = Len(s) + 1 /\ Append(s, seg)[Len(s) + 1] = seg
        /\ \A i \in 1 .. Len(s) : Append(s, seg)[i] = s[i]
    BY <1>1, AppendProperties
  <1> QED BY <1>1, <1>2, AbsentIsNoValue DEF seg

\* ... so every logger goes on owning what it needs.
LEMMA RenderingStep ==
    ASSUME ChainsOK, RenderingOK, [Next]_vars
    PROVE  RenderingOK'
  <1>1. CASE UNCHANGED <<chain, formatters, serializers, redact, chindings>>
    BY <1>1 DEF RenderingOK, Born
  <1>2. ASSUME NEW l \in Born, NEW b \in NewBindings, SetBindings(l, b)
        PROVE  RenderingOK'
    <2> DEFINE s == Append(chindings[l], Segment(l, b, Get(formatters, l).bindings,
                                                 Get(serializers, l), Get(redact, l)))
    <2>1. /\ l \in Logger /\ Get(formatters, l).bindings \in Formatter
          /\ Get(serializers, l) \in SerializerMap /\ Get(redact, l) \in Redact
          /\ Get(chindings, l) = chindings[l] /\ chindings[l] \in Seq(Segments)
      BY RenderingRead DEF FormatterPair, Born
    <2>2. s \in Seq(Segments) /\ s # Absent
      BY <2>1, SegmentTyped
    <2>3. /\ chindings' = [chindings EXCEPT ![l] = s] /\ UNCHANGED <<chain, lineState>>
      BY <1>2, <2>1 DEF SetBindings
    <2> HIDE DEF s
    <2>4. Born' = Born /\ UNCHANGED <<formatters, serializers, redact>>
      BY <2>3 DEF Born, lineState
    <2> QED BY <2>1, <2>2, <2>3, <2>4 DEF RenderingOK
  <1>3. ASSUME NEW p \in Born, NEW l \in Logger, NEW b \in Bindings,
               ChildFast(p, l, b) \/ \E opt \in ChildOptions : ChildWithOptions(p, l, b, opt)
        PROVE  RenderingOK'
    <2> DEFINE s == Append(chindings[p], Segment(l, b, Get(formatters, l)'.bindings,
                                                 Get(serializers, l)', Get(redact, l)'))
    <2>1. /\ l \notin Born /\ Born' = Born \cup {l}
          /\ \E x \in FormatterPair \cup {Absent} : formatters' = [formatters EXCEPT ![l] = x]
          /\ \E x \in SerializerMap \cup {Absent} : serializers' = [serializers EXCEPT ![l] = x]
          /\ \E x \in Redact \cup {Absent} : redact' = [redact EXCEPT ![l] = x]
      BY <1>3, ChildRendering, ZenonT(60)
    <2>1a. chindings' = [chindings EXCEPT ![l] = s]
      BY <1>3, ChildRendering, ZenonT(60)
    <2>2. s \in Seq(Segments) /\ s # Absent
      <3>1. /\ Get(formatters, l)'.bindings \in Formatter
            /\ Get(serializers, l)' \in SerializerMap /\ Get(redact, l)' \in Redact
        BY <1>3, ChildRendering
      <3>2. chindings[p] \in Seq(Segments)
        BY RenderingRead
      <3> QED BY <3>1, <3>2, SegmentTyped
    <2> HIDE DEF s
    <2>3. Root # l /\ Root \in Logger
      BY <2>1, LoggerAssumption DEF ChainsOK
    <2>4. formatters' \in [Logger -> FormatterPair \cup {Absent}]
          /\ \A m \in Logger \ {l} : formatters'[m] = formatters[m]
      BY <2>1 DEF RenderingOK
    <2>5. serializers' \in [Logger -> SerializerMap \cup {Absent}]
          /\ \A m \in Logger \ {l} : serializers'[m] = serializers[m]
      BY <2>1 DEF RenderingOK
    <2>6. redact' \in [Logger -> Redact \cup {Absent}]
          /\ \A m \in Logger \ {l} : redact'[m] = redact[m]
      BY <2>1 DEF RenderingOK
    <2>7. /\ chindings' \in [Logger -> Seq(Segments) \cup {Absent}]
          /\ chindings'[l] # Absent /\ \A m \in Logger \ {l} : chindings'[m] = chindings[m]
      BY <2>1a, <2>2 DEF RenderingOK
    <2> QED BY <2>1, <2>3, <2>4, <2>5, <2>6, <2>7 DEF RenderingOK
  <1>4. ASSUME NEW l \in Born, \/ \E arg \in LevelArgs : SetLevel(l, arg)
                               \/ \E k \in LogLabels : Log(l, k)
        PROVE  RenderingOK'
    BY <1>1, <1>4 DEF SetLevel, Log, lineState
  <1>5. CASE UNCHANGED vars
    BY <1>1, <1>5 DEF vars
  <1> QED BY <1>2, <1>3, <1>4, <1>5 DEF Next

\* A segment was rendered with what the logger it is of reads.
OwnOptions(s) ==
    /\ s.serializers = Get(serializers, s.by)
    /\ s.redact = Get(redact, s.by)
    /\ s.formatter = Get(formatters, s.by).bindings

LEMMA OwnOptionsStay ==
    ASSUME ChainsOK, RenderingOK, NEW s, s.by \in Born, OwnOptions(s),
           \A a \in Born : /\ chain'[a] = chain[a] /\ formatters'[a] = formatters[a]
                          /\ serializers'[a] = serializers[a] /\ redact'[a] = redact[a]
    PROVE  OwnOptions(s)'
  <1> DEFINE m == s.by
  <1>1. m \in Born /\ chain'[m] = chain[m]
    OBVIOUS
  <1> HIDE DEF m
  <1>2. /\ Get(formatters, m)' = Get(formatters, m)
        /\ Get(serializers, m)' = Get(serializers, m)
        /\ Get(redact, m)' = Get(redact, m)
    BY <1>1, RenderingStays
  <1> QED BY <1>2 DEF OwnOptions, m

\* The segments a logger has are of loggers on its chain, each under its options.
LEMMA SegmentFacts ==
    ASSUME ChainsOK, RenderingOK, RenderedUnderOwnOptions, NEW m \in Born,
           NEW i \in 1 .. Len(chindings[m])
    PROVE  /\ \E j \in 1 .. Len(chain[m]) : chindings[m][i].by = chain[m][j]
           /\ chindings[m][i].by \in Born
           /\ OwnOptions(chindings[m][i])
  <1>1. PICK j \in 1 .. Len(chain[m]) : chindings[m][i].by = chain[m][j]
    BY DEF RenderedUnderOwnOptions
  <1>2. chain[m][j] \in Born
    BY ChainFacts
  <1>3. OwnOptions(chindings[m][i])
    BY DEF RenderedUnderOwnOptions, OwnOptions
  <1> QED BY <1>1, <1>2, <1>3

LEMMA RenderedStep ==
    ASSUME ChainsOK, RenderingOK, RenderedUnderOwnOptions, [Next]_vars
    PROVE  RenderedUnderOwnOptions'
  <1> DEFINE Good(m, i) == \E s : /\ s = chindings'[m][i] /\ OwnOptions(s)'
                                  /\ \E j \in 1 .. Len(chain'[m]) : s.by = chain'[m][j]
  <1>1. ASSUME \A m \in Born' : \A i \in 1 .. Len(chindings'[m]) : Good(m, i)
        PROVE  RenderedUnderOwnOptions'
    BY <1>1 DEF RenderedUnderOwnOptions, OwnOptions
  <1>2. ASSUME NEW m \in Born, NEW i \in 1 .. Len(chindings[m]),
               \A a \in Born : /\ chain'[a] = chain[a] /\ formatters'[a] = formatters[a]
                              /\ serializers'[a] = serializers[a] /\ redact'[a] = redact[a]
        PROVE  \E s : /\ s = chindings[m][i] /\ OwnOptions(s)'
                      /\ \E j \in 1 .. Len(chain[m]) : s.by = chain[m][j]
    <2>1. PICK s : s = chindings[m][i]
      OBVIOUS
    <2>2. s.by \in Born /\ OwnOptions(s) /\ \E j \in 1 .. Len(chain[m]) : s.by = chain[m][j]
      BY <2>1, SegmentFacts
    <2>3. OwnOptions(s)'
      BY <1>2, <2>2, OwnOptionsStay
    <2> QED BY <2>1, <2>2, <2>3
  <1>3. CASE UNCHANGED <<chain, formatters, serializers, redact, chindings>>
    <2>1. Born' = Born
      BY <1>3 DEF Born
    <2> QED BY <1>1, <1>2, <1>3, <2>1
  <1>4. ASSUME NEW l \in Born, NEW b \in NewBindings, SetBindings(l, b)
        PROVE  RenderedUnderOwnOptions'
    <2> DEFINE s == chindings[l]
    <2>0. PICK seg : seg = Segment(l, b, Get(formatters, l).bindings,
                                   Get(serializers, l), Get(redact, l))
      OBVIOUS
    <2>1. /\ UNCHANGED <<chain, formatters, serializers, redact>> /\ Born' = Born
          /\ chindings' = [chindings EXCEPT ![l] = Append(Get(chindings, l), seg)]
      BY <1>4, <2>0 DEF SetBindings, lineState, Born
    <2>2. /\ l \in Logger /\ Get(formatters, l).bindings \in Formatter
          /\ Get(serializers, l) \in SerializerMap /\ Get(redact, l) \in Redact
          /\ Get(chindings, l) = s /\ s \in Seq(Segments)
      BY RenderingRead DEF FormatterPair, Born
    <2>3. /\ Len(Append(s, seg)) = Len(s) + 1 /\ Append(s, seg)[Len(s) + 1] = seg
          /\ \A i \in 1 .. Len(s) : Append(s, seg)[i] = s[i]
      BY <2>0, <2>2, SegmentTyped
    <2>4. Len(s) \in Nat
      BY <2>2, LenProperties
    <2>5. OwnOptions(seg)' /\ seg.by = l
      <3>1. /\ Get(formatters, l)' = Get(formatters, l)
            /\ Get(serializers, l)' = Get(serializers, l)
            /\ Get(redact, l)' = Get(redact, l)
        BY <2>1, RenderingStays
      <3> QED BY <2>0, <3>1 DEF OwnOptions, Segment
    <2>6. Len(chain[l]) \in Nat \ {0} /\ chain[l][1] = l
      BY ChainFacts
    <2> HIDE DEF s
    <2>7. /\ chindings'[l] = Append(s, seg)
          /\ \A m \in Born \ {l} : chindings'[m] = chindings[m]
      BY <2>1, <2>2 DEF RenderingOK, Born
    <2>8. ASSUME NEW m \in Born', NEW i \in 1 .. Len(chindings'[m])
          PROVE  Good(m, i)
      <3>1. CASE m # l
        BY <3>1, <2>1, <2>7, <1>2
      <3>2. CASE m = l /\ i \in 1 .. Len(s)
        BY <3>2, <2>1, <2>3, <2>7, <1>2 DEF s
      <3>3. CASE m = l /\ i = Len(s) + 1
        BY <3>3, <2>1, <2>3, <2>5, <2>6, <2>7
      <3> QED BY <3>1, <3>2, <3>3, <2>3, <2>4, <2>7
    <2> QED BY <1>1, <2>8
  <1>5. ASSUME NEW p \in Born, NEW l \in Logger, NEW b \in Bindings,
               ChildFast(p, l, b) \/ \E opt \in ChildOptions : ChildWithOptions(p, l, b, opt)
        PROVE  RenderedUnderOwnOptions'
    <2> DEFINE s == chindings[p]
    <2>0. PICK fmt, ser, red, seg : /\ fmt = Get(formatters, l)'.bindings
                                    /\ ser = Get(serializers, l)' /\ red = Get(redact, l)'
                                    /\ seg = Segment(l, b, fmt, ser, red)
      OBVIOUS
    <2>1. /\ l \notin Born /\ Born' = Born \cup {l}
          /\ chain'[l] = <<l>> \o chain[p] /\ \A m \in Born : chain'[m] = chain[m]
          /\ \E x \in FormatterPair \cup {Absent} : formatters' = [formatters EXCEPT ![l] = x]
          /\ \E x \in SerializerMap \cup {Absent} : serializers' = [serializers EXCEPT ![l] = x]
          /\ \E x \in Redact \cup {Absent} : redact' = [redact EXCEPT ![l] = x]
      BY <1>5, ChildRendering
    <2>1a. chindings' = [chindings EXCEPT ![l] = Append(s, seg)]
      <3>1. chindings' = [chindings EXCEPT ![l] =
                 Append(chindings[p], Segment(l, b, Get(formatters, l)'.bindings,
                                              Get(serializers, l)', Get(redact, l)'))]
        BY <1>5, ChildRendering, ZenonT(60)
      <3> QED BY <2>0, <3>1
    <2>2. fmt \in Formatter /\ ser \in SerializerMap /\ red \in Redact
      BY <2>0, <1>5, ChildRendering
    <2>3. s \in Seq(Segments) /\ Len(s) \in Nat
      BY RenderingRead, LenProperties
    <2>4. /\ Len(Append(s, seg)) = Len(s) + 1 /\ Append(s, seg)[Len(s) + 1] = seg
          /\ \A i \in 1 .. Len(s) : Append(s, seg)[i] = s[i]
      BY <2>0, <2>2, <2>3, SegmentTyped
    <2>5. OwnOptions(seg)' /\ seg.by = l
      BY <2>0 DEF OwnOptions, Segment
    <2>6. /\ chain[p] \in Seq(Logger) /\ Len(chain[p]) \in Nat
      BY ChainFacts
    <2>7. /\ Len(chain'[l]) = Len(chain[p]) + 1 /\ chain'[l][1] = l
          /\ \A j \in 1 .. Len(chain[p]) : chain'[l][j + 1] = chain[p][j]
      BY <2>1, <2>6
    <2> HIDE DEF s
    <2>8. /\ chindings'[l] = Append(s, seg)
          /\ \A m \in Born \ {l} : chindings'[m] = chindings[m]
      BY <2>1a DEF RenderingOK, Born
    <2>9. \A a \in Born : /\ chain'[a] = chain[a] /\ formatters'[a] = formatters[a]
                         /\ serializers'[a] = serializers[a] /\ redact'[a] = redact[a]
      <3> SUFFICES ASSUME NEW a \in Born
                   PROVE  /\ chain'[a] = chain[a] /\ formatters'[a] = formatters[a]
                          /\ serializers'[a] = serializers[a] /\ redact'[a] = redact[a]
        OBVIOUS
      <3>1. a # l /\ a \in Logger
        BY <2>1 DEF Born
      <3>2. formatters'[a] = formatters[a]
        BY <3>1, <2>1 DEF RenderingOK
      <3>3. serializers'[a] = serializers[a]
        BY <3>1, <2>1 DEF RenderingOK
      <3>4. redact'[a] = redact[a]
        BY <3>1, <2>1 DEF RenderingOK
      <3> QED BY <2>1, <3>2, <3>3, <3>4
    <2>10. ASSUME NEW m \in Born', NEW i \in 1 .. Len(chindings'[m])
           PROVE  Good(m, i)
      <3>1. CASE m # l
        <4>1. m \in Born /\ chindings'[m] = chindings[m] /\ chain'[m] = chain[m]
          BY <3>1, <2>1, <2>8
        <4> QED BY <4>1, <2>9, <1>2
      <3>2. CASE m = l /\ i \in 1 .. Len(s)
        <4>1. chindings'[m][i] = chindings[p][i]
          BY <3>2, <2>4, <2>8 DEF s
        <4>2. PICK t : /\ t = chindings[p][i] /\ OwnOptions(t)'
                       /\ \E j \in 1 .. Len(chain[p]) : t.by = chain[p][j]
          BY <3>2, <2>9, <1>2 DEF s
        <4>3. PICK j \in 1 .. Len(chain[p]) : t.by = chain[p][j]
          BY <4>2
        <4>4. j + 1 \in 1 .. Len(chain'[m]) /\ chain'[m][j + 1] = t.by
          BY <3>2, <4>3, <2>6, <2>7
        <4> QED BY <4>1, <4>2, <4>4
      <3>3. CASE m = l /\ i = Len(s) + 1
        <4>1. 1 \in 1 .. Len(chain'[m]) /\ chindings'[m][i] = seg
          BY <3>3, <2>4, <2>6, <2>7, <2>8
        <4> QED BY <3>3, <4>1, <2>5, <2>7
      <3> QED BY <3>1, <3>2, <3>3, <2>3, <2>4, <2>8
    <2> QED BY <1>1, <2>10
  <1>6. ASSUME NEW l \in Born, \/ \E arg \in LevelArgs : SetLevel(l, arg)
                               \/ \E k \in LogLabels : Log(l, k)
        PROVE  RenderedUnderOwnOptions'
    BY <1>3, <1>6 DEF SetLevel, Log, lineState
  <1>7. CASE UNCHANGED vars
    BY <1>3, <1>7 DEF vars
  <1> QED BY <1>4, <1>5, <1>6, <1>7 DEF Next

-----------------------------------------------------------------------------
(* What a line opens with *)

\* The number a method of a table is bound to has a label there, other than silent.
LEMMA BoundNumberHasLabel ==
    ASSUME NEW c \in CustomLevels, NEW useOnly \in BOOLEAN,
           NEW k \in MethodLabels(Mappings(c, useOnly))
    PROVE  LogMethod(k, useOnly, Mappings(c, useOnly).values[k]).num
              \in DOMAIN Mappings(c, useOnly).labels \ {Infinity}
  <1> USE LevelsAssumption
  <1> DEFINE std == StandardLabels(useOnly)
             table == Mappings(c, useOnly)
  <1>1. table.values = ValuesMap(c, useOnly) /\ table.labels = LabelsMap(c, useOnly)
    BY DEF Mappings
  <1>2. /\ std \subseteq DOMAIN DEFAULT_LEVELS
        /\ k \in (DOMAIN c \cup std) \ {Silent}
    BY <1>1 DEF StandardLabels, MethodLabels, ValuesMap
  <1>3. DOMAIN table.labels = ValuesOf(c) \cup {Infinity} \cup {DEFAULT_LEVELS[j] : j \in std}
    BY <1>1 DEF LabelsMap
  <1> HIDE DEF table
  <1>4. CASE k \in std
    <2>1. LogMethod(k, useOnly, table.values[k]).num = DEFAULT_LEVELS[k]
      BY <1>4 DEF LogMethod, IsStandardLevel
    <2>2. DEFAULT_LEVELS[k] # Infinity
      BY <1>2, <1>4, DefaultLevels
    <2> QED BY <2>1, <2>2, <1>3, <1>4 DEF table
  <1>5. CASE k \notin std
    <2>1. LogMethod(k, useOnly, table.values[k]).num = table.values[k]
      BY <1>5 DEF LogMethod, IsStandardLevel
    <2>2. k \in DOMAIN c /\ table.values[k] = c[k]
      BY <1>1, <1>2, <1>5 DEF ValuesMap
    <2>3. c[k] \in ValuesOf(c) /\ c[k] # Infinity
      BY <2>2 DEF ValuesOf
    <2> QED BY <2>1, <2>2, <2>3, <1>3 DEF table
  <1> QED BY <1>4, <1>5

\* A logger reads the cache that was made for the table it reads.
LEMMA CacheRead ==
    ASSUME ChainsOK, CachesOK, levels[Root] # Absent, NEW l \in Born
    PROVE  \E c \in CustomLevels, f \in Formatter :
              /\ Get(levels, l) = Mappings(c, config.useOnly)
              /\ Get(lsCache, l) = LsCache(Get(levels, l), f)
  <1> DEFINE a == Nearest(chain[l], Owners(levels))
  <1>1. \A m \in Logger : levels[m] # Absent =>
           \E c \in CustomLevels, f \in Formatter :
              /\ levels[m] = Mappings(c, config.useOnly)
              /\ levels[m] \in Table /\ lsCache[m] = LsCache(levels[m], f)
    BY DEF CachesOK, Table
  <1>2. \A m \in Logger : lsCache[m] = Absent <=> levels[m] = Absent
    BY <1>1, AbsentAssumption DEF CachesOK
  <1>3. Owners(lsCache) = Owners(levels)
    BY <1>2 DEF Owners
  <1>4. Get(levels, l) = levels[a] /\ Get(lsCache, l) = lsCache[a]
    BY <1>3 DEF Get
  <1>5. a \in Logger /\ levels[a] # Absent
    <2>1. /\ Len(chain[l]) \in Nat /\ Len(chain[l]) \in 1 .. Len(chain[l])
          /\ chain[l][Len(chain[l])] \in Owners(levels)
      BY ChainFacts, LoggerAssumption DEF Owners
    <2>2. PICK i \in 1 .. Len(chain[l]) : IsFirst(chain[l], i, Owners(levels))
      BY <2>1, FirstExists
    <2>3. a = chain[l][i] /\ chain[l][i] \in Owners(levels)
      BY <2>1, <2>2, NearestIsFirst DEF IsFirst
    <2> QED BY <2>3 DEF Owners
  <1> HIDE DEF a
  <1> QED BY <1>1, <1>4, <1>5

LEMMA CachesStep ==
    ASSUME LevelInv, RenderingOK, CachesOK, [Next]_vars
    PROVE  CachesOK'
  <1>1. CASE UNCHANGED <<config, levels, lsCache>>
    BY <1>1 DEF CachesOK
  <1>2. ASSUME NEW l \in Born, \/ \E arg \in LevelArgs : SetLevel(l, arg)
                               \/ \E b \in NewBindings : SetBindings(l, b)
                               \/ \E c \in Logger, b \in Bindings : ChildFast(l, c, b)
                               \/ \E k \in LogLabels : Log(l, k)
        PROVE  CachesOK'
    BY <1>1, <1>2 DEF SetLevel, SetBindings, ChildFast, Log, levelState
  <1>3. ASSUME NEW p \in Born, NEW l \in Logger, NEW b \in Bindings, NEW opt \in ChildOptions,
               ChildWithOptions(p, l, b, opt)
        PROVE  CachesOK'
    <2> DEFINE own == opt.customLevels # Absent
               table == Mappings(opt.customLevels, config.useOnly)
               fmt == IF opt.formatLevel # Absent THEN opt.formatLevel
                      ELSE Get(formatters, p).level
    <2>1. /\ config' = config
          /\ levels' = [levels EXCEPT ![l] = IF own THEN table ELSE Absent]
          /\ lsCache' = [lsCache EXCEPT ![l] = IF own THEN LsCache(table, fmt) ELSE Absent]
      BY <1>3 DEF ChildWithOptions
    <2>2. fmt \in Formatter
      <3>1. Get(formatters, p) \in FormatterPair
        BY RenderingRead DEF LevelInv
      <3> QED BY <3>1, OptionsAssumption DEF FormatterPair
    <2>3. own => opt.customLevels \in CustomLevels /\ table # Absent
      <3>1. own => opt.customLevels \in CustomLevels
        BY OptionsAssumption
      <3>2. own => table \in Table
        BY <3>1 DEF Table, LevelInv, OwnLevelsOK
      <3> QED BY <3>1, <3>2, AbsentIsNoTable
    <2> HIDE DEF own, fmt
    <2>4. /\ levels'[l] = IF own THEN table ELSE Absent
          /\ \A m \in Logger \ {l} : levels'[m] = levels[m]
      BY <2>1 DEF LevelInv, OwnLevelsOK
    <2>5. /\ lsCache' = [m \in Logger |-> lsCache'[m]]
          /\ lsCache'[l] = IF own THEN LsCache(table, fmt) ELSE Absent
          /\ \A m \in Logger \ {l} : lsCache'[m] = lsCache[m]
      <3>1. lsCache = [m \in Logger |-> lsCache[m]]
        BY DEF CachesOK
      <3> QED BY <2>1, <3>1
    <2>6. ASSUME NEW m \in Logger
          PROVE  IF levels'[m] = Absent THEN lsCache'[m] = Absent
                 ELSE \E c \in CustomLevels, f \in Formatter :
                         /\ levels'[m] = Mappings(c, config.useOnly)
                         /\ lsCache'[m] = LsCache(levels'[m], f)
      <3>1. CASE m = l
        BY <3>1, <2>2, <2>3, <2>4, <2>5
      <3>2. CASE m # l
        <4>1. levels'[m] = levels[m] /\ lsCache'[m] = lsCache[m]
          BY <3>2, <2>4, <2>5
        <4> QED BY <4>1 DEF CachesOK
      <3> QED BY <3>1, <3>2
    <2> QED BY <2>1, <2>5, <2>6 DEF CachesOK
  <1>4. CASE UNCHANGED vars
    BY <1>1, <1>4 DEF vars, levelState
  <1> QED BY <1>2, <1>3, <1>4 DEF Next

LEMMA OpeningStep ==
    ASSUME LevelInv, CachesOK, KnownLevelOpensLine, [Next]_vars
    PROVE  KnownLevelOpensLine'
  <1>1. \A op \in {"bindings", "child", "noop"} : \A m : Quiet(op, m).kind # "line"
    BY DEF Quiet
  <1>2. \A m, t, arg, prev : LevelChange(m, t, arg, prev).kind # "line"
    BY DEF LevelChange
  <1>3. CASE obs'.kind # "line"
    BY <1>3 DEF KnownLevelOpensLine
  <1>4. ASSUME NEW l \in Born, NEW arg \in LevelArgs, SetLevel(l, arg)
        PROVE  KnownLevelOpensLine'
    BY <1>2, <1>3, <1>4 DEF SetLevel, AssignLevel
  <1>5. ASSUME NEW l \in Born, \/ \E b \in NewBindings : SetBindings(l, b)
                               \/ \E c \in Logger, b \in Bindings : ChildFast(l, c, b)
        PROVE  KnownLevelOpensLine'
    <2>1. \E op \in {"bindings", "child"} : \E m : obs' = Quiet(op, m)
      BY <1>5 DEF SetBindings, ChildFast
    <2> QED BY <2>1, <1>1, <1>3
  <1>6. ASSUME NEW p \in Born, NEW c \in Logger, NEW b \in Bindings, NEW opt \in ChildOptions,
               ChildWithOptions(p, c, b, opt)
        PROVE  KnownLevelOpensLine'
    <2>1. \/ obs' = Quiet("child", c)
          \/ \E t : AssignLevel(c, t, SpawnLevelArg(p, opt), LevelVal(p))
      BY <1>6 DEF ChildWithOptions
    <2> QED BY <2>1, <1>1, <1>2, <1>3 DEF AssignLevel
  <1>7. ASSUME NEW l \in Born, NEW k \in LogLabels, Log(l, k)
        PROVE  KnownLevelOpensLine'
    <2> SUFFICES ASSUME obs'.kind = "line", obs'.label \in MethodLabels(Get(levels, obs.of)')
                 PROVE  /\ obs'.opening # Absent
                        /\ obs'.opening.num = obs'.num
                        /\ obs'.opening.label = Get(levels, obs.of)'.labels[obs'.num]
      BY DEF KnownLevelOpensLine
    <2>1. obs' = Line(l, k) /\ MethodOf(l, k).writes /\ UNCHANGED <<chain, levels>>
      BY <1>7, <1>1 DEF Log, levelState
    <2> DEFINE table == Get(levels, l)
               n == MethodOf(l, k).num
    <2>2. /\ obs'.of = l /\ obs'.label = k /\ obs'.num = n
          /\ obs'.opening = IF n \in DOMAIN Get(lsCache, l) THEN Get(lsCache, l)[n] ELSE Absent
      BY <2>1 DEF Line
    <2>3. Get(levels, l)' = table
      BY <2>1 DEF Get, Owners
    <2>4. k \in MethodLabels(table)
      BY <2>2, <2>3
    <2>5. PICK c \in CustomLevels, f \in Formatter :
             /\ table = Mappings(c, config.useOnly)
             /\ Get(lsCache, l) = LsCache(table, f)
      BY CacheRead DEF LevelInv, OwnLevelsOK
    <2>6. MethodOf(l, k) = MethodsAt(table, config.useOnly, config.comparison, LevelVal(l))[k]
      BY <2>4, MethodRead
    <2>7. config.useOnly \in BOOLEAN /\ table \in Table
      BY <2>5 DEF CachesOK, Table
    <2> HIDE DEF table
    <2>8. n = LogMethod(k, config.useOnly, table.values[k]).num
      BY <2>1, <2>4, <2>6 DEF MethodsAt, Noop
    <2>9. n \in DOMAIN table.labels \ {Infinity}
      BY <2>4, <2>5, <2>7, <2>8, BoundNumberHasLabel
    <2> HIDE DEF n
    <2>10. /\ n \in DOMAIN LsCache(table, f)
           /\ LsCache(table, f)[n] = [formatter |-> f, label |-> table.labels[n], num |-> n]
      BY <2>9 DEF LsCache
    <2>11. LsCache(table, f)[n] # Absent
      BY <2>7, <2>10, AbsentAssumption
    <2> QED BY <2>2, <2>3, <2>5, <2>10, <2>11
  <1>8. CASE UNCHANGED vars
    <2>1. UNCHANGED <<obs, chain, levels>>
      BY <1>8 DEF vars
    <2>2. \A l : Get(levels, l)' = Get(levels, l)
      BY <2>1 DEF Get, Owners
    <2> QED BY <2>1, <2>2 DEF KnownLevelOpensLine
  <1> QED BY <1>4, <1>5, <1>6, <1>7, <1>8 DEF Next

-----------------------------------------------------------------------------
(* The inductive invariant of lines *)

\* pino() gives the root all that renders a line, from options that pass.
LEMMA LineInit == Init => LineInv
  <1> SUFFICES ASSUME Init PROVE LineInv
    OBVIOUS
  <1> USE LoggerAssumption
  <1>1. PICK opt \in RootOptions :
          LET table == Mappings(RootCustom(opt), opt.useOnly)
              val == table.values[LabelOf(table, RootLevelArg(opt))]
          IN  /\ RootOptionsPass(opt)
              /\ config = [comparison |-> opt.comparison, useOnly |-> opt.useOnly]
              /\ chain = [l \in Logger |-> IF l = Root THEN <<Root>> ELSE << >>]
              /\ levels = OwnAtRoot(table)
              /\ methods = [l \in Logger |->
                    IF l = Root
                    THEN Assign([k \in {Silent} |-> Noop],
                                MethodsAt(table, opt.useOnly, opt.comparison, val))
                    ELSE << >>]
              /\ lsCache = OwnAtRoot(LsCache(table, opt.formatLevel))
              /\ formatters = OwnAtRoot([level |-> opt.formatLevel,
                                         bindings |-> opt.formatBindings])
              /\ serializers = OwnAtRoot(opt.serializers)
              /\ redact = OwnAtRoot(opt.redact)
              /\ chindings = OwnAtRoot(
                    IF opt.base = Absent THEN << >>
                    ELSE <<Segment(Root, opt.base, opt.formatBindings,
                                   opt.serializers, opt.redact)>>)
              /\ obs = LevelChange(Root, table, RootLevelArg(opt), Absent)
    BY DEF Init
  <1> DEFINE table == Mappings(RootCustom(opt), opt.useOnly)
             val == table.values[LabelOf(table, RootLevelArg(opt))]
             g == MethodsAt(table, opt.useOnly, opt.comparison, val)
             pair == [level |-> opt.formatLevel, bindings |-> opt.formatBindings]
             seg == Segment(Root, opt.base, opt.formatBindings, opt.serializers, opt.redact)
             ch == IF opt.base = Absent THEN << >> ELSE <<seg>>
  <1>2. /\ RootCustom(opt) \in CustomLevels /\ opt.useOnly \in BOOLEAN
        /\ opt.comparison \in Comparison
        /\ opt.formatLevel \in Formatter /\ opt.formatBindings \in Formatter
        /\ opt.serializers \in SerializerMap /\ opt.redact \in Redact
        /\ opt.base \in Bindings \cup {Absent}
    BY <1>1, OptionsAssumption DEF RootOptionsPass
  <1>3. pair \in FormatterPair /\ pair.bindings = opt.formatBindings
    BY <1>2 DEF FormatterPair
  <1>4. ch \in Seq(Segments) /\ ch # Absent
    <2>1. opt.base # Absent => seg \in Segments
      BY <1>2 DEF Segment, Segments
    <2> HIDE DEF seg
    <2>2. ch \in Seq(Segments)
      BY <2>1
    <2> QED BY <2>2, AbsentIsNoValue
  <1>5. Born = {Root} /\ chain[Root] = <<Root>>
    BY <1>1 DEF Born
  <1>6. /\ levels = [l \in Logger |-> IF l = Root THEN table ELSE Absent]
        /\ lsCache = [l \in Logger |-> IF l = Root THEN LsCache(table, opt.formatLevel) ELSE Absent]
        /\ formatters = [l \in Logger |-> IF l = Root THEN pair ELSE Absent]
        /\ serializers = [l \in Logger |-> IF l = Root THEN opt.serializers ELSE Absent]
        /\ redact = [l \in Logger |-> IF l = Root THEN opt.redact ELSE Absent]
        /\ chindings = [l \in Logger |-> IF l = Root THEN ch ELSE Absent]
        /\ methods = [l \in Logger |-> IF l = Root THEN Assign([k \in {Silent} |-> Noop], g)
                                       ELSE << >>]
        /\ config = [comparison |-> opt.comparison, useOnly |-> opt.useOnly]
    BY <1>1 DEF OwnAtRoot
  <1>7. CachesOK
    <2>1. config \in [comparison : Comparison, useOnly : BOOLEAN] /\ config.useOnly = opt.useOnly
      BY <1>2, <1>6
    <2>2. table # Absent
      BY <1>2, AbsentIsNoTable DEF Table
    <2> HIDE DEF g, pair, seg, ch
    <2> QED BY <1>2, <1>6, <2>1, <2>2 DEF CachesOK
  <1>8. RenderingOK
    <2> HIDE DEF table, val, g, pair, seg, ch
    <2>1. formatters \in [Logger -> FormatterPair \cup {Absent}] /\ formatters[Root] # Absent
      BY <1>3, <1>6, AbsentIsNoValue
    <2>2. /\ serializers \in [Logger -> SerializerMap \cup {Absent}] /\ serializers[Root] # Absent
          /\ redact \in [Logger -> Redact \cup {Absent}] /\ redact[Root] # Absent
      BY <1>2, <1>6, AbsentIsNoValue
    <2>3. chindings \in [Logger -> Seq(Segments) \cup {Absent}] /\ chindings[Root] # Absent
      BY <1>4, <1>6
    <2> QED BY <1>5, <1>6, <2>1, <2>2, <2>3 DEF RenderingOK
  <1>9. MethodsAreFunctions
    <2>1. table \in Table
      BY <1>2 DEF Table
    <2>2. g \in [MethodLabels(table) -> Method]
      BY <2>1, MethodsAtTyped
    <2>3. [k \in {Silent} |-> Noop] \in [{Silent} -> Method]
      BY DEF Method
    <2> HIDE DEF g, table
    <2> DEFINE n == [k \in {Silent} |-> Noop]
    <2>4. Assign(n, g) \in [DOMAIN Assign(n, g) -> Method]
      BY <2>2, <2>3, AssignTyped
    <2>5. << >> \in [DOMAIN << >> -> Method]
      OBVIOUS
    <2> QED BY <1>6, <2>4, <2>5 DEF MethodsAreFunctions
  <1>10. RenderedUnderOwnOptions
    <2> HIDE DEF table, val, g, pair, seg
    <2>1. chain[Root] = <<Root>> /\ 1 \in 1 .. Len(chain[Root]) /\ chain[Root][1] = Root
      BY <1>5
    <2>2. ASSUME NEW f, f[Root] # Absent
          PROVE  f[Nearest(chain[Root], Owners(f))] = f[Root]
      <3>1. IsFirst(chain[Root], 1, Owners(f))
        BY <2>1, <2>2 DEF IsFirst, Owners
      <3> QED BY <2>1, <3>1, NearestIsFirst
    <2>3. /\ Get(formatters, Root) = pair /\ Get(serializers, Root) = opt.serializers
          /\ Get(redact, Root) = opt.redact
      <3>1. formatters[Root] = pair /\ pair # Absent
        BY <1>3, <1>6, AbsentIsNoValue
      <3>2. serializers[Root] = opt.serializers /\ opt.serializers # Absent
        BY <1>2, <1>6, AbsentIsNoValue
      <3>3. redact[Root] = opt.redact /\ opt.redact # Absent
        BY <1>2, <1>6, AbsentIsNoValue
      <3> QED BY <2>2, <3>1, <3>2, <3>3 DEF Get
    <2>4. ASSUME NEW i \in 1 .. Len(chindings[Root])
          PROVE  i = 1 /\ chindings[Root][i] = seg
      BY <1>6
    <2>5. /\ seg.by = Root /\ seg.serializers = opt.serializers /\ seg.redact = opt.redact
          /\ seg.formatter = opt.formatBindings
      BY DEF seg, Segment
    <2>6. Root \in {chain[Root][j] : j \in 1 .. Len(chain[Root])}
      BY <2>1
    <2> HIDE DEF ch
    <2>7. ASSUME NEW i \in 1 .. Len(chindings[Root])
          PROVE  LET s == chindings[Root][i]
                 IN  /\ s.by \in {chain[Root][j] : j \in 1 .. Len(chain[Root])}
                     /\ s.serializers = Get(serializers, s.by)
                     /\ s.redact = Get(redact, s.by)
                     /\ s.formatter = Get(formatters, s.by).bindings
      BY <1>3, <2>3, <2>4, <2>5, <2>6
    <2>8. SUFFICES ASSUME NEW l \in Born, NEW i \in 1 .. Len(chindings[l])
                   PROVE  LET s == chindings[l][i]
                          IN  /\ s.by \in {chain[l][j] : j \in 1 .. Len(chain[l])}
                              /\ s.serializers = Get(serializers, s.by)
                              /\ s.redact = Get(redact, s.by)
                              /\ s.formatter = Get(formatters, s.by).bindings
      BY Zenon DEF RenderedUnderOwnOptions
    <2>9. l = Root
      BY <1>5
    <2> QED BY <2>7, <2>9, Zenon
  <1>11. KnownLevelOpensLine
    BY <1>1 DEF KnownLevelOpensLine, LevelChange
  <1> QED BY <1>7, <1>8, <1>9, <1>10, <1>11 DEF LineInv

\* With LevelInv, every part of LineInv is inductive.
THEOREM LineInvariant == Spec => []LineInv
  <1>1. LevelInv /\ LineInv /\ [Next]_vars => LineInv'
    <2> SUFFICES ASSUME LevelInv, LineInv, [Next]_vars PROVE LineInv'
      OBVIOUS
    <2>1. CachesOK'
      BY CachesStep DEF LineInv
    <2>2. RenderingOK'
      BY RenderingStep DEF LineInv, LevelInv
    <2>3. MethodsAreFunctions'
      BY MethodsStep DEF LineInv
    <2>4. RenderedUnderOwnOptions'
      BY RenderedStep DEF LineInv, LevelInv
    <2>5. KnownLevelOpensLine'
      BY OpeningStep DEF LineInv
    <2> QED BY <2>1, <2>2, <2>3, <2>4, <2>5 DEF LineInv
  <1> QED BY <1>1, LineInit, LevelInvariant, PTL DEF Spec

\* Every own property of every logger has its type, and a logger that does not
\* exist owns no table, level or method.
THEOREM LoggerTreeTypeOK == Spec => []TypeOK
  <1>1. LevelInv /\ LineInv => TypeOK
    BY DEF LevelInv, LineInv, TypeOK, ChainsOK, OwnLevelsOK, CachesOK, RenderingOK,
           MethodsAreFunctions, Born
  <1> QED BY <1>1, LevelInvariant, LineInvariant, PTL

\* For any options on the way down a tree and any order of operations, bindings
\* are rendered with the serializers, the redaction and the bindings formatter
\* of the logger they were given to.
THEOREM BindingsAlwaysUnderOwnOptions == Spec => []RenderedUnderOwnOptions
  <1>1. LineInv => RenderedUnderOwnOptions
    BY DEF LineInv
  <1> QED BY <1>1, LineInvariant, PTL

\* A line written by a method of the logger's own table opens with what the
\* level formatter made of the number it was written with, for any custom levels
\* at any logger of the tree.
THEOREM KnownLevelAlwaysOpensLine == Spec => []KnownLevelOpensLine
  <1>1. LineInv => KnownLevelOpensLine
    BY DEF LineInv
  <1> QED BY <1>1, LineInvariant, PTL

\* Only setBindings() on a logger changes the bindings of a logger there was: not
\* the spawn of a child, and no operation on a parent, child or sibling.
THEOREM BindingsAlwaysIsolated == Spec => BindingsAreIsolated
  <1> DEFINE OwnRead == \A m \in Born : Get(chindings, m) = chindings[m]
  <1>1. LevelInv /\ LineInv => OwnRead
    BY RenderingRead DEF LevelInv, LineInv
  <1>2. ASSUME LevelInv, LineInv, OwnRead, OwnRead', Next, NEW m \in Born,
               Get(chindings, m)' # Get(chindings, m)
        PROVE  obs' = Quiet("bindings", m)
    <2>1. ChainsOK /\ RenderingOK /\ m \in Logger
      BY <1>2 DEF LevelInv, LineInv, Born
    <2>2. ASSUME m \in Born', chindings'[m] = chindings[m] PROVE FALSE
      BY <1>2, <2>2
    <2>3. ASSUME UNCHANGED <<chain, chindings>> PROVE FALSE
      BY <1>2, <2>3 DEF Get, Owners
    <2>4. ASSUME NEW l \in Born, NEW b \in NewBindings, SetBindings(l, b)
          PROVE  obs' = Quiet("bindings", m)
      <3>1. /\ chain' = chain /\ obs' = Quiet("bindings", l)
            /\ \E x : chindings' = [chindings EXCEPT ![l] = x]
        BY <2>4 DEF SetBindings
      <3>2. l # m => chindings'[m] = chindings[m] /\ m \in Born'
        BY <2>1, <3>1 DEF RenderingOK, Born
      <3> QED BY <2>2, <3>1, <3>2
    <2>5. ASSUME NEW p \in Born, NEW l \in Logger, NEW b \in Bindings,
                 ChildFast(p, l, b) \/ \E opt \in ChildOptions : ChildWithOptions(p, l, b, opt)
          PROVE  FALSE
      <3>1. l \notin Born /\ Born' = Born \cup {l}
        BY <2>1, <2>5, ChildRendering
      <3>2. PICK x : chindings' = [chindings EXCEPT ![l] = x]
        <4>1. chindings' = [chindings EXCEPT ![l] =
                 Append(chindings[p], Segment(l, b, Get(formatters, l)'.bindings,
                                              Get(serializers, l)', Get(redact, l)'))]
          BY <2>1, <2>5, ChildRendering, ZenonT(60)
        <4> QED BY <4>1
      <3>3. chindings'[m] = chindings[m]
        BY <2>1, <3>1, <3>2 DEF RenderingOK
      <3> QED BY <2>2, <3>1, <3>3
    <2>6. ASSUME NEW l \in Born, \/ \E arg \in LevelArgs : SetLevel(l, arg)
                                 \/ \E k \in LogLabels : Log(l, k)
          PROVE  FALSE
      BY <2>3, <2>6 DEF SetLevel, Log
    <2> QED BY <1>2, <2>4, <2>5, <2>6 DEF Next
  <1>3. LevelInv /\ LineInv /\ OwnRead /\ OwnRead' /\ [Next]_vars =>
          [\A m \in Born : Get(chindings, m)' # Get(chindings, m)
              => obs' = Quiet("bindings", m)]_vars
    BY <1>2
  <1> HIDE DEF OwnRead
  <1> QED BY <1>1, <1>3, LevelInvariant, LineInvariant, PTL DEF Spec, BindingsAreIsolated

=============================================================================
