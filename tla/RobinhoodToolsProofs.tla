------------------------ MODULE RobinhoodToolsProofs ------------------------
(***************************************************************************)
(* The weekday clock is right for every length of day and session, and an  *)
(* order reaches a tool that places orders whatever tools are listed, as   *)
(* long as one that places scores better than those that only look like it *)
(* (ToolsAssumption), which a plain enough name ensures                    *)
(* (PlainNamesOutscore).                                                   *)
(***************************************************************************)
EXTENDS RobinhoodTools, FiniteSetTheorems, TLAPS

-----------------------------------------------------------------------------
(* The clock.                                                              *)

LEMMA DayFacts ==
    ASSUME NEW t \in Nat
    PROVE  /\ DayOf(t) \in Nat
           /\ SlotOf(t) \in 0 .. Day - 1
           /\ t = DayOf(t) * Day + SlotOf(t)
BY ClockAssumption DEF DayOf, SlotOf

\* Days are Day slots long.
LEMMA DaysApart ==
    ASSUME NEW c \in Nat, NEW d \in Nat, c < d
    PROVE  c * Day + Day <= d * Day
<1>1. Day \in Nat
  BY ClockAssumption
<1>2. \A m, n \in Int : m >= 0 /\ n >= 0 => m * n >= 0
  BY SMT
<1>3. (d - (c + 1)) * Day >= 0
  BY <1>1, <1>2
<1>4. (d - (c + 1)) * Day = d * Day - (c * Day + Day)
  BY <1>1
<1>5. d * Day \in Int /\ c * Day \in Int
  BY <1>1
<1> QED BY <1>1, <1>3, <1>4, <1>5

\* A slot has one day and one place in it.
LEMMA SlotIsUnique ==
    ASSUME NEW t \in Nat, NEW d \in Nat, NEW s \in 0 .. Day - 1, t = d * Day + s
    PROVE  DayOf(t) = d /\ SlotOf(t) = s
<1>1. /\ DayOf(t) \in Nat /\ SlotOf(t) \in 0 .. Day - 1
      /\ t = DayOf(t) * Day + SlotOf(t)
  BY DayFacts
<1>2. Day \in Nat /\ s \in Nat /\ SlotOf(t) \in Nat
  BY <1>1, ClockAssumption
<1>3. ~(DayOf(t) < d)
  <2> SUFFICES ASSUME DayOf(t) < d PROVE FALSE
    OBVIOUS
  <2>1. DayOf(t) * Day + Day <= d * Day
    BY <1>1, DaysApart
  <2> QED BY <1>1, <1>2, <2>1
<1>4. ~(d < DayOf(t))
  <2> SUFFICES ASSUME d < DayOf(t) PROVE FALSE
    OBVIOUS
  <2>1. d * Day + Day <= DayOf(t) * Day
    BY <1>1, DaysApart
  <2> QED BY <1>1, <1>2, <2>1
<1>5. DayOf(t) = d
  BY <1>1, <1>3, <1>4
<1> QED BY <1>1, <1>2, <1>5

\* Earlier slots are of earlier days, or earlier in the same one.
LEMMA SlotOrder ==
    ASSUME NEW t \in Nat, NEW u \in Nat, t < u
    PROVE  \/ DayOf(t) < DayOf(u)
           \/ DayOf(t) = DayOf(u) /\ SlotOf(t) < SlotOf(u)
<1>1. /\ DayOf(t) \in Nat /\ SlotOf(t) \in 0 .. Day - 1
      /\ t = DayOf(t) * Day + SlotOf(t)
      /\ DayOf(u) \in Nat /\ SlotOf(u) \in 0 .. Day - 1
      /\ u = DayOf(u) * Day + SlotOf(u)
  BY DayFacts
<1>2. Day \in Nat
  BY ClockAssumption
<1>3. ~(DayOf(u) < DayOf(t))
  <2> SUFFICES ASSUME DayOf(u) < DayOf(t) PROVE FALSE
    OBVIOUS
  <2>1. DayOf(u) * Day + Day <= DayOf(t) * Day
    BY <1>1, DaysApart
  <2> QED BY <1>1, <1>2, <2>1
<1> QED BY <1>1, <1>2, <1>3

\* The slot before, in the same day or as the last of the day before.
LEMMA SlotBefore ==
    ASSUME NEW u \in Nat, u > 0
    PROVE  /\ u - 1 \in Nat
           /\ SlotOf(u) > 0 => DayOf(u - 1) = DayOf(u) /\ SlotOf(u - 1) = SlotOf(u) - 1
           /\ SlotOf(u) = 0 => SlotOf(u - 1) = Day - 1
<1>1. /\ DayOf(u) \in Nat /\ SlotOf(u) \in 0 .. Day - 1
      /\ u = DayOf(u) * Day + SlotOf(u)
  BY DayFacts
<1>2. Day \in Nat /\ Day > 0
  BY ClockAssumption
<1>3. CASE SlotOf(u) > 0
  <2>1. SlotOf(u) - 1 \in 0 .. Day - 1
    BY <1>1, <1>2, <1>3
  <2>2. u - 1 = DayOf(u) * Day + (SlotOf(u) - 1) /\ u - 1 \in Nat
    BY <1>1, <1>2
  <2> QED BY <1>1, <1>3, <2>1, <2>2, SlotIsUnique
<1>4. CASE SlotOf(u) = 0
  <2> DEFINE d == DayOf(u)
  <2>1. u = d * Day
    BY <1>1, <1>2, <1>4
  <2>2. d > 0
    BY <1>1, <1>2, <2>1
  <2> HIDE DEF d
  <2>3. d \in Nat
    BY <1>1 DEF d
  <2>4. d - 1 \in Nat /\ Day - 1 \in 0 .. Day - 1
    BY <1>2, <2>2, <2>3
  <2>5. (d - 1) * Day = d * Day - Day /\ d * Day \in Int
    BY <1>2, <2>3
  <2>6. u - 1 = (d - 1) * Day + (Day - 1) /\ u - 1 \in Nat
    BY <1>2, <2>1, <2>5
  <2> QED BY <1>4, <2>4, <2>6, SlotIsUnique
<1> QED BY <1>1, <1>3, <1>4

\* Sessions begin at OpenSlot and end at CloseSlot, on weekdays.
LEMMA OpensAt ==
    ASSUME NEW u \in Nat, u > 0
    PROVE  Opens(u) <=> (Weekday(DayOf(u)) /\ SlotOf(u) = OpenSlot)
<1>1. /\ SlotOf(u) \in 0 .. Day - 1
      /\ 0 < OpenSlot /\ OpenSlot < CloseSlot /\ CloseSlot < Day
      /\ Day \in Nat /\ OpenSlot \in Nat /\ CloseSlot \in Nat
  BY DayFacts, ClockAssumption
<1>2. CASE SlotOf(u) > 0
  <2>1. DayOf(u - 1) = DayOf(u) /\ SlotOf(u - 1) = SlotOf(u) - 1
    BY <1>2, SlotBefore
  <2>2. SlotOf(u) \in OpenSlot .. CloseSlot - 1 /\ SlotOf(u) - 1 \notin OpenSlot .. CloseSlot - 1
        <=> SlotOf(u) = OpenSlot
    BY <1>1, <1>2
  <2> QED BY <2>1, <2>2 DEF Opens, InSession
<1>3. CASE SlotOf(u) = 0
  BY <1>1, <1>3 DEF Opens, InSession
<1> QED BY <1>1, <1>2, <1>3

LEMMA ClosesAt ==
    ASSUME NEW u \in Nat, u > 0
    PROVE  Closes(u) <=> (Weekday(DayOf(u)) /\ SlotOf(u) = CloseSlot)
<1>1. /\ SlotOf(u) \in 0 .. Day - 1
      /\ 0 < OpenSlot /\ OpenSlot < CloseSlot /\ CloseSlot < Day
      /\ Day \in Nat /\ OpenSlot \in Nat /\ CloseSlot \in Nat
  BY DayFacts, ClockAssumption
<1>2. CASE SlotOf(u) > 0
  <2>1. DayOf(u - 1) = DayOf(u) /\ SlotOf(u - 1) = SlotOf(u) - 1
    BY <1>2, SlotBefore
  <2>2. SlotOf(u) - 1 \in OpenSlot .. CloseSlot - 1 /\ SlotOf(u) \notin OpenSlot .. CloseSlot - 1
        <=> SlotOf(u) = CloseSlot
    BY <1>1, <1>2
  <2> QED BY <2>1, <2>2 DEF Closes, InSession
<1>3. CASE SlotOf(u) = 0
  <2>1. SlotOf(u - 1) = Day - 1
    BY <1>3, SlotBefore
  <2> QED BY <1>1, <1>3, <2>1 DEF Closes, InSession
<1> QED BY <1>1, <1>2, <1>3

\* A weekend is two days.
LEMMA WeekendsEnd ==
    ASSUME NEW d \in Nat
    PROVE  LET n == NextTradingDay(d) IN
           /\ n \in d + 1 .. d + 3
           /\ Weekday(n)
           /\ \A e \in d + 1 .. n - 1 : ~Weekday(e)
<1>1. \E n \in d + 1 .. d + 3 : Weekday(n) /\ \A e \in d + 1 .. n - 1 : ~Weekday(e)
  <2>1. CASE (d + 1) % 7 < 5
    <3>1. d + 1 \in d + 1 .. d + 3 /\ Weekday(d + 1) /\ \A e \in d + 1 .. (d + 1) - 1 : ~Weekday(e)
      BY <2>1 DEF Weekday
    <3> QED BY <3>1
  <2>2. CASE (d + 1) % 7 = 5
    <3>1. (d + 2) % 7 = 6 /\ (d + 3) % 7 = 0
      BY <2>2
    <3>2. d + 3 \in d + 1 .. d + 3 /\ Weekday(d + 3)
      BY <3>1 DEF Weekday
    <3>3. \A e \in d + 1 .. (d + 3) - 1 : e = d + 1 \/ e = d + 2
      OBVIOUS
    <3>4. \A e \in d + 1 .. (d + 3) - 1 : ~Weekday(e)
      BY <2>2, <3>1, <3>3 DEF Weekday
    <3> QED BY <3>2, <3>4
  <2>3. CASE (d + 1) % 7 = 6
    <3>1. (d + 2) % 7 = 0
      BY <2>3
    <3>2. d + 2 \in d + 1 .. d + 3 /\ Weekday(d + 2)
      BY <3>1 DEF Weekday
    <3>3. \A e \in d + 1 .. (d + 2) - 1 : e = d + 1
      OBVIOUS
    <3>4. \A e \in d + 1 .. (d + 2) - 1 : ~Weekday(e)
      BY <2>3, <3>3 DEF Weekday
    <3> QED BY <3>2, <3>4
  <2>4. (d + 1) % 7 \in 0 .. 6
    OBVIOUS
  <2> QED BY <2>1, <2>2, <2>3, <2>4
<1> QED BY <1>1 DEF NextTradingDay

\* The first slot after t at place s of a weekday, where each weekday has one.
LEMMA NextAt ==
    ASSUME NEW t \in Nat, NEW s \in 1 .. Day - 1, NEW n,
           n = IF Weekday(DayOf(t)) /\ SlotOf(t) < s THEN DayOf(t) * Day + s
               ELSE NextTradingDay(DayOf(t)) * Day + s
    PROVE  /\ n \in Nat /\ n > t
           /\ Weekday(DayOf(n)) /\ SlotOf(n) = s
           /\ \A u \in t + 1 .. n - 1 : ~(Weekday(DayOf(u)) /\ SlotOf(u) = s)
           /\ DayOf(n) = IF Weekday(DayOf(t)) /\ SlotOf(t) < s THEN DayOf(t)
                         ELSE NextTradingDay(DayOf(t))
<1> DEFINE d == DayOf(t)
           e == IF Weekday(d) /\ SlotOf(t) < s THEN d ELSE NextTradingDay(d)
<1>1. /\ d \in Nat /\ SlotOf(t) \in 0 .. Day - 1 /\ t = d * Day + SlotOf(t)
      /\ Day \in Nat /\ Day > 0 /\ s \in Nat /\ s \in 0 .. Day - 1
  <2>1. Day \in Nat /\ Day > 0
    BY ClockAssumption
  <2>2. d \in Nat /\ SlotOf(t) \in 0 .. Day - 1 /\ t = d * Day + SlotOf(t)
    BY DayFacts
  <2> QED BY <2>1, <2>2
<1>2. /\ NextTradingDay(d) \in d + 1 .. d + 3
      /\ Weekday(NextTradingDay(d))
      /\ \A c \in d + 1 .. NextTradingDay(d) - 1 : ~Weekday(c)
  BY <1>1, WeekendsEnd
<1>3. /\ e \in Nat /\ d <= e /\ Weekday(e)
      /\ n = e * Day + s
      /\ \A c \in d + 1 .. e - 1 : ~Weekday(c)
      /\ d = e => SlotOf(t) < s
      /\ d # e => ~(Weekday(d) /\ SlotOf(t) < s)
  BY <1>1, <1>2
<1> HIDE DEF e, d
<1>4. n \in Nat /\ e * Day \in Nat
  BY <1>1, <1>3
<1>5. DayOf(n) = e /\ SlotOf(n) = s
  BY <1>1, <1>3, <1>4, SlotIsUnique
<1>6. n > t
  <2>1. CASE d = e
    BY <1>1, <1>3, <1>4, <2>1
  <2>2. CASE d < e
    <3>1. d * Day + Day <= e * Day
      BY <1>1, <1>3, <2>2, DaysApart
    <3>2. d * Day \in Nat
      BY <1>1
    <3> QED BY <1>1, <1>3, <1>4, <3>1, <3>2
  <2> QED BY <1>1, <1>3, <2>1, <2>2
<1>7. ASSUME NEW u \in t + 1 .. n - 1, Weekday(DayOf(u)), SlotOf(u) = s
      PROVE  FALSE
  <2>1. u \in Nat /\ t < u /\ u < n
    BY <1>4, <1>7
  <2>2. d < DayOf(u) \/ (d = DayOf(u) /\ SlotOf(t) < s)
    BY <1>7, <2>1, SlotOrder DEF d
  <2>3. DayOf(u) < e
    BY <1>5, <1>7, <1>1, <1>4, <2>1, SlotOrder
  <2>4. DayOf(u) \in Nat
    BY <2>1, DayFacts
  <2>5. ~(d < DayOf(u))
    BY <1>1, <1>3, <1>7, <2>3, <2>4
  <2> QED BY <1>3, <1>7, <2>2, <2>3, <2>5, <1>1
<1> QED BY <1>3, <1>4, <1>5, <1>6, <1>7 DEF e, d

\* The weekday clock is right.
LEMMA WeekdayClock ==
    ASSUME NEW t \in Nat
    PROVE  /\ Opens(NextOpen(t)) /\ \A u \in t + 1 .. NextOpen(t) - 1 : ~Opens(u)
           /\ Closes(NextClose(t)) /\ \A u \in t + 1 .. NextClose(t) - 1 : ~Closes(u)
           /\ InSession(t) = (NextClose(t) < NextOpen(t))
<1> DEFINE d == DayOf(t)
           n == NextOpen(t)
           m == NextClose(t)
<1>1. /\ OpenSlot \in 1 .. Day - 1 /\ CloseSlot \in 1 .. Day - 1
      /\ OpenSlot \in Nat /\ CloseSlot \in Nat /\ OpenSlot < CloseSlot /\ Day \in Nat
  BY ClockAssumption
<1>2. n = IF Weekday(DayOf(t)) /\ SlotOf(t) < OpenSlot THEN DayOf(t) * Day + OpenSlot
          ELSE NextTradingDay(DayOf(t)) * Day + OpenSlot
  BY DEF NextOpen, OpenOn
<1>3. m = IF Weekday(DayOf(t)) /\ SlotOf(t) < CloseSlot THEN DayOf(t) * Day + CloseSlot
          ELSE NextTradingDay(DayOf(t)) * Day + CloseSlot
  BY DEF NextClose, CloseOn
<1> HIDE DEF n, m
<1>4. /\ n \in Nat /\ n > t
      /\ Weekday(DayOf(n)) /\ SlotOf(n) = OpenSlot
      /\ \A u \in t + 1 .. n - 1 : ~(Weekday(DayOf(u)) /\ SlotOf(u) = OpenSlot)
      /\ DayOf(n) = IF Weekday(DayOf(t)) /\ SlotOf(t) < OpenSlot THEN DayOf(t)
                    ELSE NextTradingDay(DayOf(t))
  BY <1>1, <1>2, NextAt
<1>5. /\ m \in Nat /\ m > t
      /\ Weekday(DayOf(m)) /\ SlotOf(m) = CloseSlot
      /\ \A u \in t + 1 .. m - 1 : ~(Weekday(DayOf(u)) /\ SlotOf(u) = CloseSlot)
      /\ DayOf(m) = IF Weekday(DayOf(t)) /\ SlotOf(t) < CloseSlot THEN DayOf(t)
                    ELSE NextTradingDay(DayOf(t))
  BY <1>1, <1>3, NextAt
<1>6. Opens(n) /\ \A u \in t + 1 .. n - 1 : ~Opens(u)
  <2>1. Opens(n)
    BY <1>4, OpensAt
  <2>2. ASSUME NEW u \in t + 1 .. n - 1 PROVE ~Opens(u)
    <3>1. u \in Nat /\ u > 0
      BY <1>4
    <3> QED BY <1>4, <3>1, OpensAt
  <2> QED BY <2>1, <2>2
<1>7. Closes(m) /\ \A u \in t + 1 .. m - 1 : ~Closes(u)
  <2>1. Closes(m)
    BY <1>5, ClosesAt
  <2>2. ASSUME NEW u \in t + 1 .. m - 1 PROVE ~Closes(u)
    <3>1. u \in Nat /\ u > 0
      BY <1>5
    <3> QED BY <1>5, <3>1, ClosesAt
  <2> QED BY <2>1, <2>2
<1>8. InSession(t) = (m < n)
  <2>1. d \in Nat /\ SlotOf(t) \in 0 .. Day - 1 /\ NextTradingDay(d) \in d + 1 .. d + 3
    BY DayFacts, WeekendsEnd
  <2>2. ASSUME InSession(t) PROVE m < n
    <3>1. Weekday(d) /\ SlotOf(t) < CloseSlot /\ ~(SlotOf(t) < OpenSlot)
      BY <1>1, <2>1, <2>2 DEF InSession
    <3>2. DayOf(m) = d /\ DayOf(n) = NextTradingDay(d)
      BY <1>4, <1>5, <3>1
    <3>3. ~(n < m) /\ n # m
      BY <1>4, <1>5, <2>1, <3>2, SlotOrder
    <3> QED BY <1>4, <1>5, <3>3
  <2>3. ASSUME ~InSession(t) PROVE ~(m < n)
    <3>1. DayOf(m) = DayOf(n)
      BY <1>1, <1>4, <1>5, <2>1, <2>3 DEF InSession
    <3>2. DayOf(m) \in Nat
      BY <1>5, DayFacts
    <3> QED BY <1>1, <1>4, <1>5, <3>1, <3>2, SlotOrder
  <2>4. InSession(t) \in BOOLEAN
    BY DEF InSession
  <2> QED BY <2>2, <2>3, <2>4
<1> QED BY <1>6, <1>7, <1>8 DEF n, m

-----------------------------------------------------------------------------
(* The guesses.                                                            *)

\* Small sets.
LEMMA FewElements ==
    ASSUME NEW S, NEW a, NEW b, NEW c, NEW d
    PROVE  /\ S \subseteq {a, b} => Cardinality(S) \in 0 .. 2
           /\ S \subseteq {a, b, c, d} => Cardinality(S) \in 0 .. 4
<1>1. ASSUME NEW T, NEW n \in Nat, IsFiniteSet(T), Cardinality(T) <= n, S \subseteq T
      PROVE  Cardinality(S) \in 0 .. n
  BY <1>1, FS_Subset, FS_CardinalityType
<1> DEFINE A == {a}
           B == A \cup {b}
           C == B \cup {c}
           D == C \cup {d}
<1>2. IsFiniteSet(A) /\ Cardinality(A) \in 0 .. 1
  <2>1. IsFiniteSet(A) /\ Cardinality(A) = 1
    BY FS_Singleton
  <2> QED BY <2>1
<1> HIDE DEF A
<1>3. IsFiniteSet(B) /\ Cardinality(B) \in 0 .. 2
  <2>1. IsFiniteSet(B) /\ Cardinality(B) = IF b \in A THEN Cardinality(A) ELSE Cardinality(A) + 1
    BY <1>2, FS_AddElement
  <2> QED BY <1>2, <2>1
<1> HIDE DEF B
<1>4. IsFiniteSet(C) /\ Cardinality(C) \in 0 .. 3
  <2>1. IsFiniteSet(C) /\ Cardinality(C) = IF c \in B THEN Cardinality(B) ELSE Cardinality(B) + 1
    BY <1>3, FS_AddElement
  <2> QED BY <1>3, <2>1
<1> HIDE DEF C
<1>5. IsFiniteSet(D) /\ Cardinality(D) \in 0 .. 4
  <2>1. IsFiniteSet(D) /\ Cardinality(D) = IF d \in C THEN Cardinality(C) ELSE Cardinality(C) + 1
    BY <1>4, FS_AddElement
  <2> QED BY <1>4, <2>1
<1> HIDE DEF D
<1>6. {a, b} = B /\ {a, b, c, d} = D
  BY DEF A, B, C, D
<1>7. S \subseteq {a, b} => Cardinality(S) \in 0 .. 2
  BY <1>1, <1>3, <1>6
<1>8. S \subseteq {a, b, c, d} => Cardinality(S) \in 0 .. 4
  BY <1>1, <1>5, <1>6
<1> QED BY <1>7, <1>8

\* Four elements are finitely many, and three different ones are three.
LEMMA FourElements ==
    ASSUME NEW a, NEW b, NEW c, NEW d
    PROVE  IsFiniteSet({a, b, c, d})
<1>1. IsFiniteSet({a}) /\ IsFiniteSet({b}) /\ IsFiniteSet({c}) /\ IsFiniteSet({d})
  BY FS_Singleton
<1>2. IsFiniteSet({a} \cup {b}) /\ IsFiniteSet({c} \cup {d})
  BY <1>1, FS_Union
<1>3. IsFiniteSet(({a} \cup {b}) \cup ({c} \cup {d}))
  BY <1>2, FS_Union
<1>4. ({a} \cup {b}) \cup ({c} \cup {d}) = {a, b, c, d}
  OBVIOUS
<1> QED BY <1>3, <1>4

LEMMA ThreeElements ==
    ASSUME NEW q \in {"qty", "quantity"}
    PROVE  Cardinality({{"symbol"}, {"side"}, {q}}) = 3
<1> DEFINE A == {{"symbol"}}
           B == A \cup {{"side"}}
<1>1. IsFiniteSet(A) /\ Cardinality(A) = 1
  BY FS_Singleton
<1>2. {"side"} \notin A
  OBVIOUS
<1>3. {q} \notin B
  OBVIOUS
<1> HIDE DEF A
<1>4. IsFiniteSet(B) /\ Cardinality(B) = 2
  <2>1. IsFiniteSet(B) /\ Cardinality(B) = Cardinality(A) + 1
    BY <1>1, <1>2, FS_AddElement
  <2> QED BY <1>1, <2>1
<1> HIDE DEF B
<1>5. Cardinality(B \cup {{q}}) = 3
  <2>1. Cardinality(B \cup {{q}}) = Cardinality(B) + 1
    BY <1>3, <1>4, FS_AddElement
  <2> QED BY <1>4, <2>1
<1>6. B \cup {{q}} = {{"symbol"}, {"side"}, {q}}
  BY DEF A, B
<1> QED BY <1>5, <1>6

\* A tool that places orders never passes for one that reports them.
LEMMA PlacingIsNotReporting ==
    ASSUME NEW tool, PlainlyPlaces(tool)
    PROVE  ~(Score(tool, "order_status") >= 3)
<1> DEFINE words == NameHints["order_status"]
           hints == PropHints["order_status"]
           is == Cardinality(words \cap tool.is)
           has == Cardinality((words \cap tool.has) \ tool.is)
           said == Cardinality(words \cap tool.said)
           props == ParameterHits(tool, "order_status")
           bonus == Bonus(tool, "order_status")
           malus == Malus(tool, "order_status")
<1>1. SoundsLikePlacing(tool) /\ words \cap (tool.is \cup tool.has) = {}
  BY DEF PlainlyPlaces
<1>2. malus = 6 /\ bonus = 0
  BY <1>1 DEF Malus, Bonus
<1>3. /\ words = {"get_order", "order_status", "order_detail", "fetch_order"}
      /\ hints = {{"order_id"}, {"order_id", "id", "side"}}
  BY DEF NameHints, PropHints
<1>4. Points(tool, "order_status") = 5 * is + 3 * has + said + 2 * props + bonus
  BY DEF Points
<1> HIDE DEF words, hints, bonus, malus
<1>5. is = 0 /\ has = 0
  <2>1. words \cap tool.is = {} /\ (words \cap tool.has) \ tool.is = {}
    BY <1>1
  <2> QED BY <2>1, FS_EmptySet
<1>6. said \in 0 .. 4
  <2>1. words \cap tool.said \subseteq {"get_order", "order_status", "order_detail", "fetch_order"}
    BY <1>3
  <2> QED BY <2>1, FewElements
<1>7. props \in 0 .. 2
  <2>1. {h \in hints : h \cap tool.params # {}}
          \subseteq {{"order_id"}, {"order_id", "id", "side"}}
    BY <1>3
  <2> QED BY <2>1, FewElements DEF props, ParameterHits, hints
<1> HIDE DEF is, has, said, props
<1>8. Points(tool, "order_status") \in 0 .. 8
  BY <1>2, <1>4, <1>5, <1>6, <1>7
<1> QED BY <1>2, <1>8 DEF Score, malus

\* A pick is no tool, or a listed one that nothing uses yet and that scores 3;
\* of the tools nothing uses yet none is better, or as good and earlier.
LEMMA PickFacts ==
    ASSUME NEW tools, NEW used, NEW c
    PROVE  LET tool == Pick(tools, used, c) IN
           \/ tool = NoTool
           \/ \E i \in DOMAIN tools :
                /\ tool = tools[i] /\ tool \notin used /\ Score(tool, c) >= 3
                /\ \A j \in DOMAIN tools : tools[j] \notin used =>
                     \/ Score(tools[j], c) < Score(tools[i], c)
                     \/ Score(tools[j], c) = Score(tools[i], c) /\ j >= i
<1> DEFINE best == Best(tools, used, c)
<1>1. Pick(tools, used, c) = IF best = {} THEN NoTool ELSE tools[CHOOSE i \in best : TRUE]
  BY DEF Pick
<1>2. CASE best = {}
  BY <1>1, <1>2
<1>3. CASE best # {}
  <2>1. (CHOOSE i \in best : TRUE) \in best
    BY <1>3
  <2>2. \A i \in best :
          /\ i \in DOMAIN tools /\ tools[i] \notin used /\ Score(tools[i], c) >= 3
          /\ \A j \in DOMAIN tools : tools[j] \notin used =>
               \/ Score(tools[j], c) < Score(tools[i], c)
               \/ Score(tools[j], c) = Score(tools[i], c) /\ j >= i
    BY DEF Best
  <2> QED BY <1>1, <1>3, <2>1, <2>2
<1> QED BY <1>2, <1>3

\* Scores of the tools of a list are numbers.
LEMMA WriteScores ==
    ASSUME NEW tool
    PROVE  Score(tool, "write") \in Nat
<1> DEFINE words == NameHints["write"]
           hints == PropHints["write"]
           is == Cardinality(words \cap tool.is)
           has == Cardinality((words \cap tool.has) \ tool.is)
           said == Cardinality(words \cap tool.said)
           props == ParameterHits(tool, "write")
           bonus == Bonus(tool, "write")
<1>1. /\ words = {"place_order", "submit_order", "create_order", "place"}
      /\ hints = {{"symbol"}, {"side"}, {"qty"}, {"quantity"}}
  BY DEF NameHints, PropHints
<1>2. Points(tool, "write") = 5 * is + 3 * has + said + 2 * props + bonus
  BY DEF Points
<1>3. bonus \in Nat /\ Malus(tool, "write") = 0
  BY DEF Bonus, Malus
<1> HIDE DEF words, hints, bonus
<1>4. is \in 0 .. 4 /\ has \in 0 .. 4 /\ said \in 0 .. 4
  <2>1. \A S : S \subseteq {"place_order", "submit_order", "create_order", "place"}
                 => Cardinality(S) \in 0 .. 4
    BY FewElements
  <2>2. words \cap tool.is \subseteq words /\ (words \cap tool.has) \ tool.is \subseteq words
        /\ words \cap tool.said \subseteq words
    OBVIOUS
  <2> QED BY <1>1, <2>1, <2>2
<1>5. props \in 0 .. 4
  <2>1. {h \in hints : h \cap tool.params # {}} \subseteq {{"symbol"}, {"side"}, {"qty"}, {"quantity"}}
    BY <1>1
  <2> QED BY <2>1, FewElements DEF props, ParameterHits, hints
<1> HIDE DEF is, has, said, props
<1>6. Points(tool, "write") \in Nat
  BY <1>2, <1>3, <1>4, <1>5
<1> QED BY <1>3, <1>6 DEF Score

\* What the adapter makes of a list: nothing it uses to report an order places
\* one, and what it writes with places orders if it takes them at all.
LEMMA Mapped ==
    ASSUME NEW tools \in Listings
    PROVE  LET mapped == MapCapabilities(tools) IN
           /\ mapped["write"] # NoTool /\ TakesOrders(mapped["write"])
                => mapped["write"].kind = "place"
           /\ mapped["order_status"].kind # "place"
<1> DEFINE write == Pick(tools, {}, "write")
           status == Pick(tools, {write}, "order_status")
<1>1. /\ MapCapabilities(tools)["write"] = write
      /\ MapCapabilities(tools)["order_status"] = status
  BY DEF MapCapabilities, NameHints
<1>2. ASSUME write # NoTool, TakesOrders(write), write.kind # "place" PROVE FALSE
  <2>1. PICK i \in DOMAIN tools :
          /\ write = tools[i]
          /\ \A j \in DOMAIN tools :
               \/ Score(tools[j], "write") < Score(tools[i], "write")
               \/ Score(tools[j], "write") = Score(tools[i], "write") /\ j >= i
    BY <1>2, PickFacts
  <2>2. PICK j \in DOMAIN tools : Outranks(tools, j, i)
    BY <1>2, <2>1, ToolsAssumption DEF LookAlikesAreOutranked
  <2>3. Score(tools[i], "write") \in Nat /\ Score(tools[j], "write") \in Nat
    BY WriteScores
  <2>4. \/ Score(tools[j], "write") < Score(tools[i], "write")
        \/ Score(tools[j], "write") = Score(tools[i], "write") /\ j >= i
    BY <2>1
  <2>5. i \in Int /\ j \in Int
    BY ToolsAssumption
  <2> QED BY <2>2, <2>3, <2>4, <2>5 DEF Outranks
<1>3. status.kind # "place"
  <2>1. CASE status = NoTool
    BY <2>1 DEF NoTool
  <2>2. CASE status # NoTool
    <3>1. PICK i \in DOMAIN tools : status = tools[i] /\ Score(status, "order_status") >= 3
      BY <2>2, PickFacts
    <3>2. status.kind = "place" => PlainlyPlaces(status)
      BY <3>1, ToolsAssumption
    <3> QED BY <3>1, <3>2, PlacingIsNotReporting
  <2> QED BY <2>1, <2>2
<1> QED BY <1>1, <1>2, <1>3

\* No parameter can carry two things.
LEMMA KeysDiffer ==
    ASSUME NEW tool, NEW a \in {"symbol", "qty", "side", "stop", "target"},
           NEW b \in {"symbol", "qty", "side", "stop", "target"}, a # b
    PROVE  Keys(tool, a) \cap Keys(tool, b) = {}
<1> DEFINE target == {"take_profit_price", "take_profit", "profit_price", "target_price"}
                       \cup (IF tool.profit THEN {"limit_price"} ELSE {})
<1>1. /\ Keys(tool, "symbol") = {"symbol", "ticker", "instrument"}
      /\ Keys(tool, "qty") = {"qty", "quantity", "shares"}
      /\ Keys(tool, "side") = {"side", "action"}
      /\ Keys(tool, "stop") = {"stop_price", "stop", "stop_loss", "stop_loss_price"}
      /\ Keys(tool, "target") = target
  BY DEF Keys
<1>2. target \subseteq {"take_profit_price", "take_profit", "profit_price", "target_price",
                        "limit_price"}
  OBVIOUS
<1> HIDE DEF target
<1> QED BY <1>1, <1>2

\* What an order becomes is sent as a whole to a tool that places orders.
LEMMA OrderArguments ==
    ASSUME NEW tool, NEW exits \in SUBSET {"stop", "target"}, NEW whole,
           Binds(tool, exits, whole)
    PROVE  LET wanted == {"symbol", "qty", "side"} \cup exits
               args == Arguments(tool, wanted)
           IN  /\ TakesOrders(tool)
               /\ DOMAIN args = wanted
               /\ \A a, b \in DOMAIN args : args[a] = args[b] => a = b
<1> DEFINE wanted == {"symbol", "qty", "side"} \cup exits
           args == Arguments(tool, wanted)
<1>1. \A what \in wanted : Slots(tool, what) # {}
  BY DEF Binds, Required
<1>2. TakesOrders(tool)
  BY <1>1 DEF TakesOrders
<1>3. /\ DOMAIN args = wanted
      /\ \A a \in wanted : args[a] = CHOOSE p \in Slots(tool, a) : TRUE
  <2>1. {w \in wanted : Slots(tool, w) # {}} = wanted
    BY <1>1
  <2>2. args = [what \in wanted |-> CHOOSE p \in Slots(tool, what) : TRUE]
    BY <2>1 DEF Arguments
  <2> QED BY <2>2
<1>4. \A a \in wanted : args[a] \in Keys(tool, a)
  BY <1>1, <1>3 DEF Slots
<1>5. ASSUME NEW a \in wanted, NEW b \in wanted, args[a] = args[b] PROVE a = b
  BY <1>4, <1>5, KeysDiffer
<1> QED BY <1>2, <1>3, <1>5

\* What an order-taking tool scores at most without the words of one that
\* places, and at least with them.
LEMMA ScoresOfNames ==
    ASSUME NEW tool
    PROVE  /\ NameHints.write \cap (tool.is \cup tool.has) = {}
                => Score(tool, "write") <= 12
           /\ "place" \in tool.is /\ {"symbol", "side"} \subseteq tool.params
                /\ tool.params \cap {"qty", "quantity"} # {}
                => Score(tool, "write") >= 14
<1> DEFINE words == NameHints["write"]
           hints == PropHints["write"]
           is == Cardinality(words \cap tool.is)
           has == Cardinality((words \cap tool.has) \ tool.is)
           said == Cardinality(words \cap tool.said)
           hits == {h \in hints : h \cap tool.params # {}}
           props == Cardinality(hits)
           bonus == Bonus(tool, "write")
<1>1. /\ words = {"place_order", "submit_order", "create_order", "place"}
      /\ hints = {{"symbol"}, {"side"}, {"qty"}, {"quantity"}}
  BY DEF NameHints, PropHints
<1>2. Points(tool, "write") = 5 * is + 3 * has + said + 2 * props + bonus
  BY DEF Points, ParameterHits
<1>3. Malus(tool, "write") = 0 /\ bonus = IF "place" \in tool.is \cup tool.has THEN 3 ELSE 0
  BY DEF Malus, Bonus
<1>4. "place" \in words
  BY <1>1
<1>5. hits \subseteq hints
  OBVIOUS
<1>6. ASSUME {"symbol", "side"} \subseteq tool.params, tool.params \cap {"qty", "quantity"} # {}
      PROVE  \E q \in {"qty", "quantity"} : {{"symbol"}, {"side"}, {q}} \subseteq hits
  BY <1>1, <1>6
<1> HIDE DEF words, hints, bonus, hits
<1>7. IsFiniteSet(words) /\ IsFiniteSet(hints)
  BY <1>1, FourElements
<1>8. is \in Nat /\ has \in Nat /\ said \in 0 .. 4
  <2>1. \A S : S \subseteq words => Cardinality(S) \in 0 .. 4
    BY <1>1, FewElements
  <2>2. words \cap tool.is \subseteq words /\ (words \cap tool.has) \ tool.is \subseteq words
        /\ words \cap tool.said \subseteq words
    OBVIOUS
  <2> QED BY <2>1, <2>2
<1>9. props \in 0 .. 4
  BY <1>1, <1>5, FewElements
<1>10. ASSUME words \cap (tool.is \cup tool.has) = {} PROVE is = 0 /\ has = 0 /\ bonus = 0
  <2>1. words \cap tool.is = {} /\ (words \cap tool.has) \ tool.is = {}
        /\ "place" \notin tool.is \cup tool.has
    BY <1>4, <1>10
  <2> QED BY <1>3, <2>1, FS_EmptySet
<1>11. ASSUME "place" \in tool.is PROVE is >= 1 /\ bonus = 3
  <2>1. {"place"} \subseteq words \cap tool.is
    BY <1>4, <1>11
  <2>2. IsFiniteSet(words \cap tool.is)
    BY <1>7, FS_Intersection
  <2>3. Cardinality({"place"}) = 1
    BY FS_Singleton
  <2>4. Cardinality({"place"}) <= Cardinality(words \cap tool.is)
    BY <2>1, <2>2, FS_Subset
  <2> QED BY <1>3, <1>11, <2>3, <2>4
<1>12. ASSUME {"symbol", "side"} \subseteq tool.params, tool.params \cap {"qty", "quantity"} # {}
       PROVE  props >= 3
  <2>1. PICK q \in {"qty", "quantity"} : {{"symbol"}, {"side"}, {q}} \subseteq hits
    BY <1>6, <1>12
  <2>2. IsFiniteSet(hits)
    BY <1>5, <1>7, FS_Subset
  <2>3. Cardinality({{"symbol"}, {"side"}, {q}}) = 3
    BY ThreeElements
  <2>4. Cardinality({{"symbol"}, {"side"}, {q}}) <= Cardinality(hits)
    BY <2>1, <2>2, FS_Subset
  <2> QED BY <2>3, <2>4
<1> HIDE DEF is, has, said, props
<1>13. Score(tool, "write") = 5 * is + 3 * has + said + 2 * props + bonus
  <2>1. bonus \in {0, 3}
    BY <1>3
  <2>2. Points(tool, "write") \in Nat
    BY <1>2, <1>8, <1>9, <2>1
  <2> QED BY <1>2, <1>3, <2>2 DEF Score
<1>14. ASSUME words \cap (tool.is \cup tool.has) = {} PROVE Score(tool, "write") <= 12
  <2>1. is = 0 /\ has = 0 /\ bonus = 0
    BY <1>10, <1>14
  <2> QED BY <1>8, <1>9, <1>13, <2>1
<1>15. ASSUME "place" \in tool.is, {"symbol", "side"} \subseteq tool.params,
              tool.params \cap {"qty", "quantity"} # {}
       PROVE  Score(tool, "write") >= 14
  <2>1. is >= 1 /\ bonus = 3 /\ props >= 3
    BY <1>11, <1>12, <1>15
  <2> QED BY <1>8, <1>9, <1>13, <2>1
<1> QED BY <1>14, <1>15 DEF words

(* A plain name is enough: a tool named place or place_order, taking       *)
(* symbol, side and quantity, outscores any whose name has none of the     *)
(* words for placing, whatever its description says and parameters it      *)
(* takes (_score's weights).  So a list of which every tool that takes     *)
(* orders without placing them has such a name, and which has a tool named *)
(* place if it has one of those, is as LookAlikesAreOutranked asks.        *)
THEOREM PlainNamesOutscore ==
    ASSUME NEW tools,
           NEW j \in DOMAIN tools,
           tools[j].kind = "place", "place" \in tools[j].is,
           {"symbol", "side"} \subseteq tools[j].params,
           tools[j].params \cap {"qty", "quantity"} # {},
           \A i \in DOMAIN tools : tools[i].kind # "place" /\ TakesOrders(tools[i])
               => NameHints.write \cap (tools[i].is \cup tools[i].has) = {}
    PROVE  LookAlikesAreOutranked(tools)
<1> SUFFICES ASSUME NEW i \in DOMAIN tools, tools[i].kind # "place", TakesOrders(tools[i])
             PROVE  Outranks(tools, j, i)
  BY DEF LookAlikesAreOutranked
<1>1. Score(tools[i], "write") <= 12 /\ Score(tools[j], "write") >= 14
  BY ScoresOfNames
<1>2. Score(tools[i], "write") \in Nat /\ Score(tools[j], "write") \in Nat
  BY WriteScores
<1> QED BY <1>1, <1>2 DEF Outranks

-----------------------------------------------------------------------------
(* The requests.                                                           *)

\* What is remembered of the listing is what it would be asked for again.
Remembers ==
    /\ listed \in Listings
    /\ caps \in {Undiscovered, MapCapabilities(listed)}

IInv == Remembers /\ OrdersReachThePlacementTool /\ NextOpenOpens

LEMMA CapsAreMapped ==
    ASSUME Remembers
    PROVE  CapsFor = MapCapabilities(listed)
BY DEF Remembers, CapsFor

LEMMA ToolsStep ==
    ASSUME IInv, [Next]_vars
    PROVE  IInv'
<1>1. ASSUME NEW exits \in SUBSET {"stop", "target"}, NEW whole \in BOOLEAN,
             SubmitOrder(exits, whole)
      PROVE  IInv'
  <2> DEFINE tool == CapsFor["write"]
             wanted == {"symbol", "qty", "side"} \cup exits
  <2>1. Remembers'
    BY <1>1, CapsAreMapped DEF IInv, Remembers, SubmitOrder
  <2>2. tool # NoTool /\ TakesOrders(tool) => tool.kind = "place"
    BY CapsAreMapped, Mapped DEF IInv, Remembers
  <2>3. call' = IF tool # NoTool /\ Binds(tool, exits, whole)
                THEN [op |-> "submit", tool |-> tool, exits |-> exits,
                      args |-> Arguments(tool, wanted)]
                ELSE Refused("submit")
    BY <1>1 DEF SubmitOrder
  <2> HIDE DEF tool
  <2>4. CASE tool # NoTool /\ Binds(tool, exits, whole)
    <3>1. /\ call'.op = "submit" /\ call'.tool = tool /\ call'.exits = exits
          /\ call'.args = Arguments(tool, wanted)
      BY <2>3, <2>4
    <3>2. /\ tool.kind = "place"
          /\ DOMAIN Arguments(tool, wanted) = wanted
          /\ \A a, b \in DOMAIN Arguments(tool, wanted) :
               Arguments(tool, wanted)[a] = Arguments(tool, wanted)[b] => a = b
      BY <2>2, <2>4, OrderArguments
    <3> HIDE DEF wanted
    <3>3. OrdersReachThePlacementTool'
      BY <3>1, <3>2 DEF OrdersReachThePlacementTool, wanted
    <3>4. NextOpenOpens'
      BY <3>1 DEF NextOpenOpens
    <3> QED BY <2>1, <3>3, <3>4 DEF IInv
  <2>5. CASE ~(tool # NoTool /\ Binds(tool, exits, whole))
    <3>1. call'.op = "submit" /\ call'.tool = NoTool
      BY <2>3, <2>5 DEF Refused
    <3> QED BY <2>1, <3>1 DEF IInv, OrdersReachThePlacementTool, NextOpenOpens
  <2> QED BY <2>4, <2>5
<1>2. CASE GetOrder
  <2> DEFINE tool == CapsFor["order_status"]
  <2>1. Remembers'
    BY <1>2, CapsAreMapped DEF IInv, Remembers, GetOrder
  <2>2. tool.kind # "place"
    BY CapsAreMapped, Mapped DEF IInv, Remembers
  <2>3. call'.op = "status" /\ call'.tool \in {tool, NoTool}
    BY <1>2 DEF GetOrder, Refused
  <2>4. call'.tool.kind # "place"
    BY <2>2, <2>3 DEF NoTool
  <2> QED BY <2>1, <2>3, <2>4 DEF IInv, OrdersReachThePlacementTool, NextOpenOpens
<1>3. ASSUME NEW capability \in {"account", "positions", "quote", "bars"}, Read(capability)
      PROVE  IInv'
  <2>1. Remembers'
    BY <1>3, CapsAreMapped DEF IInv, Remembers, Read
  <2>2. call'.op = capability
    BY <1>3 DEF Read, Refused
  <2>3. call'.op \notin {"submit", "status", "clock"}
    BY <2>2
  <2> QED BY <2>1, <2>3 DEF IInv, OrdersReachThePlacementTool, NextOpenOpens
<1>4. ASSUME NEW now \in Times, NEW open \in BOOLEAN,
             NEW opens \in {0, now + 1}, NEW closes \in {0, now + 1},
             GetClock(now, open, opens, closes)
      PROVE  IInv'
  <2> DEFINE tool == CapsFor["clock"]
  <2>1. Remembers'
    BY <1>4, CapsAreMapped DEF IInv, Remembers, GetClock
  <2>2. /\ call'.op = "clock" /\ call'.tool = tool /\ call'.now = now
        /\ call'.stated = (tool # NoTool /\ (opens # 0 \/ closes # 0))
        /\ call'.is_open = IF tool = NoTool THEN InSession(now) ELSE open
        /\ call'.next_open = IF tool = NoTool THEN NextOpen(now) ELSE Or(opens, NextOpen(now))
        /\ call'.next_close = IF tool = NoTool THEN NextClose(now)
                              ELSE Or(closes, NextClose(now))
    BY <1>4 DEF GetClock
  <2> HIDE DEF tool
  <2>3. now \in Nat
    BY ToolsAssumption
  <2>4. ~call'.stated => /\ call'.next_open = NextOpen(now)
                         /\ call'.next_close = NextClose(now)
    BY <2>2 DEF Or
  <2>5. call'.tool = NoTool => call'.is_open = InSession(now)
    BY <2>2
  <2>6. NextOpenOpens'
    BY <2>2, <2>3, <2>4, <2>5, WeekdayClock DEF NextOpenOpens
  <2>7. OrdersReachThePlacementTool'
    BY <2>2 DEF OrdersReachThePlacementTool
  <2> QED BY <2>1, <2>6, <2>7 DEF IInv
<1>5. CASE UNCHANGED vars
  BY <1>5 DEF vars, IInv, Remembers, OrdersReachThePlacementTool, NextOpenOpens
<1> QED BY <1>1, <1>2, <1>3, <1>4, <1>5 DEF Next

LEMMA ToolsInit == Init => IInv
BY DEF Init, IInv, Remembers, Refused, NoTool, OrdersReachThePlacementTool, NextOpenOpens

THEOREM ToolsInvariant == Spec => []IInv
<1>1. IInv /\ [Next]_vars => IInv'
  BY ToolsStep
<1> QED BY <1>1, ToolsInit, PTL DEF Spec

(* Orders reach a tool that places orders, whole, and questions about one  *)
(* never do, for every list of tools: also where others take all an order  *)
(* needs, as long as one that places scores better.                        *)
THEOREM OrdersArePlaced == Spec => []OrdersReachThePlacementTool
<1>1. IInv => OrdersReachThePlacementTool
  BY DEF IInv
<1> QED BY <1>1, ToolsInvariant, PTL

(* What the clock says where the broker says nothing is true, for every    *)
(* day, session and weekend.                                               *)
THEOREM ClockIsRight == Spec => []NextOpenOpens
<1>1. IInv => NextOpenOpens
  BY DEF IInv
<1> QED BY <1>1, ToolsInvariant, PTL
=============================================================================
