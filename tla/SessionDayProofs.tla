-------------------------- MODULE SessionDayProofs --------------------------
(***************************************************************************)
(* What SessionDay promises for every length of the range and the session, *)
(* every bound on the height of a range and every set of bars.             *)
(***************************************************************************)
EXTENDS SessionDay, FiniteSetTheorems, WellFoundedInduction, TLAPS

-----------------------------------------------------------------------------
(* Smallest and largest elements.                                          *)

LEMMA SmallestNat ==
    ASSUME NEW S, S \subseteq Nat, S # {}
    PROVE  \E x \in S : \A y \in S : x <= y
<1>1. PICK x \in S : \A y \in S : <<y, x>> \notin OpToRel(<, Nat)
  BY NatLessThanWellFounded, WFMin
<1>2. \A y \in S : ~(y < x)
  BY <1>1 DEF OpToRel
<1> QED BY <1>2

LEMMA MinOfNats ==
    ASSUME NEW S, S \subseteq Nat, S # {}
    PROVE  Min(S) \in S /\ \A y \in S : Min(S) <= y
  BY SmallestNat DEF Min

\* A finite sequence of integers has a largest one: the first at which the
\* values so far have none would have one after all.
LEMMA LargestOf ==
    ASSUME NEW k \in Nat, NEW f, \A n \in 0 .. k : f[n] \in Int
    PROVE  \E m \in 0 .. k : \A n \in 0 .. k : f[n] <= f[m]
<1> DEFINE Good(n) == \E m \in 0 .. n : \A j \in 0 .. n : f[j] <= f[m]
           Bad == {n \in 0 .. k : ~Good(n)}
<1>1. SUFFICES ASSUME Bad # {} PROVE FALSE
  OBVIOUS
<1>2. PICK n \in Bad : \A y \in Bad : n <= y
  <2>1. Bad \subseteq Nat
    OBVIOUS
  <2> HIDE DEF Bad
  <2> QED BY <1>1, <2>1, SmallestNat
<1>3. n # 0
  BY <1>2
<1>4. n - 1 \in 0 .. k /\ n - 1 \notin Bad
  <2>1. n \in 0 .. k
    OBVIOUS
  <2> HIDE DEF Bad
  <2> QED BY <1>2, <1>3, <2>1
<1>5. PICK m \in 0 .. n - 1 : \A j \in 0 .. n - 1 : f[j] <= f[m]
  BY <1>4
<1>6. \A j \in 0 .. n : j = n \/ j \in 0 .. n - 1
  BY <1>2
<1>7. f[n] \in Int /\ f[m] \in Int /\ \A j \in 0 .. n : f[j] \in Int
  BY <1>2, <1>5
<1>8. CASE f[n] <= f[m]
  <2>1. m \in 0 .. n /\ \A j \in 0 .. n : f[j] <= f[m]
    BY <1>2, <1>5, <1>6, <1>8
  <2> QED BY <1>2, <2>1
<1>9. CASE f[m] < f[n]
  <2>1. n \in 0 .. n /\ \A j \in 0 .. n : f[j] <= f[n]
    BY <1>2, <1>5, <1>6, <1>7, <1>9
  <2> QED BY <1>2, <2>1
<1> QED BY <1>7, <1>8, <1>9

-----------------------------------------------------------------------------
(* The opening range.                                                      *)

\* A day of real bars.
SoundDay(day) ==
    /\ DOMAIN day \subseteq Nat
    /\ \A t \in DOMAIN day : /\ day[t] \in Bar
                             /\ day[t].l > 0 /\ day[t].l <= day[t].c /\ day[t].c <= day[t].h

LEMMA RangeFacts ==
    ASSUME NEW day, SoundDay(day), HasRange(day)
    PROVE  RangeHigh(day) \in Int /\ RangeHigh(day) > 0 /\ RangeLow(day) \in Int /\ RangeLow(day) > 0
<1> DEFINE k == RangeBars - 1
           highs == {day[t].h : t \in RangeSlots}
           lows == {day[t].l : t \in RangeSlots}
           f == [t \in 0 .. k |-> day[t].h]
<1>1. k \in Nat /\ RangeSlots = 0 .. k /\ 0 \in RangeSlots
  BY DayAssumption DEF RangeSlots
<1>2. \A t \in RangeSlots : /\ day[t].h \in Int /\ day[t].l \in Int
                            /\ day[t].l > 0 /\ day[t].h > 0
  BY DEF SoundDay, HasRange, Traded, Bar
<1>3. Max(highs) \in highs
  <2>1. \A t \in 0 .. k : f[t] \in Int
    BY <1>1, <1>2
  <2>2. PICK m \in 0 .. k : \A n \in 0 .. k : f[n] <= f[m]
    <3> HIDE DEF f, k
    <3> QED BY <1>1, <2>1, LargestOf
  <2>3. day[m].h \in highs /\ \A y \in highs : y <= day[m].h
    BY <1>1, <2>2
  <2>4. \E x \in highs : \A y \in highs : x >= y
    BY <2>3
  <2> HIDE DEF highs
  <2> QED BY <2>4 DEF Max
<1>4. Min(lows) \in lows
  <2>1. lows \subseteq Nat /\ lows # {}
    BY <1>1, <1>2
  <2> HIDE DEF lows
  <2> QED BY <2>1, MinOfNats
<1> QED BY <1>2, <1>3, <1>4 DEF RangeHigh, RangeLow, Highest, Lowest

\* A range that is tradable has a height.
LEMMA SetupFacts ==
    ASSUME NEW day, SoundDay(day), HasSetup(day)
    PROVE  RangeLow(day) \in Int /\ RangeHigh(day) \in Int /\ RangeLow(day) < RangeHigh(day)
<1> DEFINE H == RangeHigh(day)
           L == RangeLow(day)
<1>1. H \in Int /\ L \in Int /\ H > 0 /\ L > 0
  BY RangeFacts DEF HasSetup
<1>2. MinHeight \in Nat /\ MinHeight > 0 /\ MaxHeight \in Nat
  BY DayAssumption
<1>3. 20000 * (H - L) >= MinHeight * (H + L)
  BY <1>1, <1>2 DEF HasSetup
<1> HIDE DEF H, L
<1>4. MinHeight * (H + L) > 0
  BY <1>1, <1>2
<1>5. L < H
  BY <1>1, <1>2, <1>3, <1>4
<1> QED BY <1>1, <1>5 DEF H, L

-----------------------------------------------------------------------------
(* The trade.                                                              *)

\* The entry is a bar after the range whose close is outside of it.
LEMMA EntryFacts ==
    ASSUME NEW day, SoundDay(day), NEW d \in Sides, EntrySlots(day, d) # {}
    PROVE  Entry(day, d) \in DOMAIN day /\ Breaks(day, Entry(day, d), d)
<1>1. EntrySlots(day, d) \subseteq Nat
  BY DEF EntrySlots, SoundDay
<1>2. Entry(day, d) \in EntrySlots(day, d)
  BY <1>1, MinOfNats DEF Entry
<1> QED BY <1>2 DEF EntrySlots

\* The bar that ends a trade is one of the day.
LEMMA ExitFacts ==
    ASSUME NEW day, SoundDay(day), NEW entry, NEW d, ExitSlots(day, entry, d) # {}
    PROVE  Min(ExitSlots(day, entry, d)) \in DOMAIN day
<1>1. ExitSlots(day, entry, d) \subseteq Nat /\ ExitSlots(day, entry, d) \subseteq DOMAIN day
  BY DEF ExitSlots, SoundDay
<1> QED BY <1>1, MinOfNats

\* Where the trade ends, twice over: at its target, at its stop, or in between.
LEMMA TradeBounds ==
    ASSUME NEW H \in Int, NEW L \in Int, L < H,
           NEW day, SoundDay(day), RangeHigh(day) = H, RangeLow(day) = L,
           NEW e \in DOMAIN day, NEW x \in DOMAIN day, NEW d \in Sides, Breaks(day, e, d)
    PROVE  LET gain == TwiceGain(day, e, TwiceExit(day, e, x, d), d)
           IN  /\ TwiceRisk(day, e) > 0 /\ TwiceRisk(day, e) \in Int /\ gain \in Int
               /\ gain >= -TwiceRisk(day, e)
               /\ gain <= 3 * (H - L)
<1> DEFINE c == day[e].c
           b == day[x]
<1>1. c \in Int /\ b.h \in Int /\ b.l \in Int /\ b.c \in Int /\ b.l <= b.c /\ b.c <= b.h
  BY DEF SoundDay, Bar
<1>2. TwiceStop(day) = H + L
  BY DEF TwiceStop
<1>3. CASE d = "long"
  <2>1. c > H
    BY <1>3 DEF Breaks
  <2>2. TwiceTarget(day, e, d) = 2 * c + 3 * (H - L)
    BY <1>3 DEF TwiceTarget
  <2>3. TwiceRisk(day, e) = 2 * c - (H + L)
    BY <1>1, <1>2, <2>1 DEF TwiceRisk
  <2>4. TwiceExit(day, e, x, d) =
          IF 2 * b.h >= 2 * c + 3 * (H - L) THEN 2 * c + 3 * (H - L)
          ELSE IF 2 * b.l <= H + L THEN H + L ELSE 2 * b.c
    BY <1>2, <1>3, <2>2 DEF TwiceExit, Reaches, Stopped
  <2>5. TwiceGain(day, e, TwiceExit(day, e, x, d), d) = TwiceExit(day, e, x, d) - 2 * c
    BY <1>3 DEF TwiceGain
  <2> HIDE DEF c, b
  <2> QED BY <1>1, <2>1, <2>3, <2>4, <2>5
<1>4. CASE d = "short"
  <2>1. c < L
    BY <1>4 DEF Breaks
  <2>2. TwiceTarget(day, e, d) = 2 * c - 3 * (H - L)
    BY <1>4 DEF TwiceTarget
  <2>3. TwiceRisk(day, e) = (H + L) - 2 * c
    BY <1>1, <1>2, <2>1 DEF TwiceRisk
  <2>4. TwiceExit(day, e, x, d) =
          IF 2 * b.l <= 2 * c - 3 * (H - L) THEN 2 * c - 3 * (H - L)
          ELSE IF 2 * b.h >= H + L THEN H + L ELSE 2 * b.c
    BY <1>2, <1>4, <2>2 DEF TwiceExit, Reaches, Stopped
  <2>5. TwiceGain(day, e, TwiceExit(day, e, x, d), d) = 2 * c - TwiceExit(day, e, x, d)
    BY <1>4 DEF TwiceGain
  <2> HIDE DEF c, b
  <2> QED BY <1>1, <2>1, <2>3, <2>4, <2>5
<1> QED BY <1>3, <1>4 DEF Sides

\* The trade that a day makes risks something, loses that at most and wins its
\* target at most, whatever the bars.
THEOREM TradeStaysWithinRisk ==
    ASSUME NEW day, SoundDay(day), NEW regime, NEW trade \in TradesForDay(day, regime)
    PROVE  /\ trade.risk > 0
           /\ trade.pnl >= -trade.risk
           /\ trade.pnl <= 3 * (RangeHigh(day) - RangeLow(day))
<1>1. PICK d \in Directions(regime) :
          /\ HasSetup(day) /\ EntrySlots(day, d) # {}
          /\ trade = Simulate(day, Entry(day, d), d)
  BY DEF TradesForDay
<1>2. d \in Sides
  BY <1>1 DEF Directions, Sides
<1> DEFINE H == RangeHigh(day)
           L == RangeLow(day)
           e == Entry(day, d)
           exits == ExitSlots(day, e, d)
           x == IF exits = {} THEN e ELSE Min(exits)
<1>3. L \in Int /\ H \in Int /\ L < H
  BY <1>1, SetupFacts
<1>4. e \in DOMAIN day /\ Breaks(day, e, d)
  BY <1>1, <1>2, EntryFacts
<1>5. x \in DOMAIN day
  BY <1>4, ExitFacts
<1>6. trade.risk = TwiceRisk(day, e)
  BY <1>1 DEF Simulate
<1>7. CASE exits # {}
  <2>1. trade.pnl = TwiceGain(day, e, TwiceExit(day, e, x, d), d)
    BY <1>1, <1>7 DEF Simulate
  <2> HIDE DEF H, L, e, x
  <2> QED BY <1>2, <1>3, <1>4, <1>5, <1>6, <2>1, TradeBounds DEF H, L
<1>8. CASE exits = {}
  <2>1. trade.pnl = TwiceGain(day, e, 2 * day[e].c, d)
    BY <1>1, <1>8 DEF Simulate
  <2>2. day[e].c \in Int
    BY <1>4 DEF SoundDay, Bar
  <2>3. trade.pnl = 0
    BY <2>1, <2>2 DEF TwiceGain
  <2>4. TwiceRisk(day, e) > 0 /\ TwiceRisk(day, e) \in Int
    <3> HIDE DEF H, L, e
    <3> QED BY <1>2, <1>3, <1>4, TradeBounds DEF H, L
  <2> HIDE DEF H, L, e
  <2> QED BY <1>3, <1>6, <2>3, <2>4 DEF H, L
<1> QED BY <1>7, <1>8

-----------------------------------------------------------------------------
(* The day.                                                                *)

\* Whatever has traded so far are bars there may be.
DayOK ==
    /\ DOMAIN bars \subseteq Nat
    /\ bars \in [DOMAIN bars -> Shapes]
    /\ now \in Nat

LEMMA DayStep == DayOK /\ [Next]_vars => DayOK'
<1> SUFFICES ASSUME DayOK, [Next]_vars PROVE DayOK'
  OBVIOUS
<1>1. CASE BarBegins
  <2>1. PICK b \in Shapes :
            bars' = [t \in DOMAIN bars \cup {now} |-> IF t = now THEN b ELSE bars[t]]
    BY <1>1 DEF BarBegins
  <2>2. DOMAIN bars' = DOMAIN bars \cup {now} /\ now' = now
    BY <1>1, <2>1 DEF BarBegins
  <2> QED BY <2>1, <2>2 DEF DayOK
<1>2. CASE BarForms
  <2>1. PICK b \in Shapes : bars' = [bars EXCEPT ![now] = b]
    BY <1>2 DEF BarForms
  <2>2. DOMAIN bars' = DOMAIN bars /\ now' = now
    BY <1>2, <2>1 DEF BarForms, DayOK
  <2> QED BY <2>1, <2>2 DEF DayOK
<1>3. CASE BarCloses
  BY <1>3 DEF BarCloses, DayOK
<1>4. CASE UNCHANGED vars
  BY <1>4 DEF vars, DayOK
<1> QED BY <1>1, <1>2, <1>3, <1>4 DEF Next

\* The bars that are closed make a sound day, with the range of all of them.
LEMMA ClosedFacts ==
    ASSUME DayOK
    PROVE  /\ SoundDay(Closed)
           /\ HasRange(Closed) => RangeHigh(Closed) = RangeHigh(bars)
                                  /\ RangeLow(Closed) = RangeLow(bars)
<1>1. /\ DOMAIN Closed \subseteq DOMAIN bars
      /\ \A t \in DOMAIN Closed : Closed[t] = bars[t]
  BY DEF Closed, ClosedBars, Restrict
<1>2. \A t \in DOMAIN bars : /\ bars[t] \in Bar
                             /\ bars[t].l > 0 /\ bars[t].l <= bars[t].c /\ bars[t].c <= bars[t].h
  BY DayAssumption DEF DayOK
<1>3. SoundDay(Closed)
  BY <1>1, <1>2 DEF DayOK, SoundDay
<1>4. ASSUME HasRange(Closed)
      PROVE  RangeHigh(Closed) = RangeHigh(bars) /\ RangeLow(Closed) = RangeLow(bars)
  <2>1. \A t \in RangeSlots : Closed[t] = bars[t]
    BY <1>1, <1>4 DEF HasRange, Traded
  <2>2. /\ {Closed[t].h : t \in RangeSlots} = {bars[t].h : t \in RangeSlots}
        /\ {Closed[t].l : t \in RangeSlots} = {bars[t].l : t \in RangeSlots}
    BY <2>1
  <2> QED BY <2>2 DEF RangeHigh, RangeLow, Highest, Lowest
<1> QED BY <1>3, <1>4

\* At every moment of every day, the trade the day has made so far lost its
\* risk at most, and won its target at most.
THEOREM LossesAreWithinRisk == Spec => []LossesStayWithinRisk
<1>1. Init => DayOK
  BY DEF Init, DayOK
<1>2. DayOK => LossesStayWithinRisk
  <2> SUFFICES ASSUME DayOK, NEW regime \in {"up", "down"},
                      NEW trade \in TradesForDay(Closed, regime)
               PROVE  /\ trade.risk > 0
                      /\ trade.pnl >= -trade.risk
                      /\ trade.pnl <= 3 * (RangeHigh(bars) - RangeLow(bars))
    BY DEF LossesStayWithinRisk
  <2>1. HasRange(Closed)
    BY DEF TradesForDay, HasSetup
  <2> QED BY <2>1, ClosedFacts, TradeStaysWithinRisk
<1> QED BY <1>1, <1>2, DayStep, PTL DEF Spec

-----------------------------------------------------------------------------
(* The scanner and the backtest.                                           *)

LEMMA MaxOfSlots ==
    ASSUME NEW n \in Nat, NEW S, S \subseteq 0 .. n, S # {}
    PROVE  Max(S) \in S /\ \A y \in S : y <= Max(S)
<1> DEFINE f == [t \in 0 .. n |-> IF t \in S THEN t ELSE -1]
<1>1. PICK m \in 0 .. n : \A t \in 0 .. n : f[t] <= f[m]
  <2>1. \A t \in 0 .. n : f[t] \in Int
    OBVIOUS
  <2> HIDE DEF f
  <2> QED BY <2>1, LargestOf
<1>2. m \in S
  <2>1. PICK s \in S : s \in 0 .. n
    OBVIOUS
  <2>2. f[s] = s /\ f[s] <= f[m]
    BY <1>1, <2>1
  <2>3. f[m] = IF m \in S THEN m ELSE -1
    OBVIOUS
  <2> HIDE DEF f
  <2> QED BY <2>1, <2>2, <2>3
<1>3. \A y \in S : m >= y
  <2>1. f[m] = m /\ \A y \in S : f[y] = y
    BY <1>2
  <2> HIDE DEF f
  <2> QED BY <1>1, <2>1
<1> QED BY <1>2, <1>3 DEF Max

\* Two sets of naturals, the first of whose smallest elements starts the other.
LEMMA SameMin ==
    ASSUME NEW S, NEW T, T \subseteq Nat, S \subseteq T, S # {},
           \A x \in T \ S : \A y \in S : y <= x
    PROVE  Min(T) = Min(S)
<1>1. Min(S) \in S /\ \A y \in S : Min(S) <= y
  BY MinOfNats
<1>2. Min(T) \in T /\ \A y \in T : Min(T) <= y
  BY MinOfNats
<1>3. Min(S) \in Nat /\ Min(T) \in Nat /\ Min(T) <= Min(S)
  BY <1>1, <1>2
<1>4. Min(S) <= Min(T)
  BY <1>1, <1>2
<1> QED BY <1>3, <1>4

\* What the scanner knows when the slots up to now have been looked at.
Watch ==
    /\ DOMAIN bars \subseteq 0 .. now
    /\ signal \in [Sides -> Int]
    /\ \A d \in Sides : signal[d] = NoSlot \/ signal[d] \in RangeBars .. now - 1
    /\ ScannerAndBacktestAgree

\* A bar that forms is not one of the closed ones.
LEMMA FormingIsNotClosed ==
    ASSUME DayOK, BarBegins \/ BarForms
    PROVE  /\ Closed' = Closed /\ UNCHANGED <<now, signal>>
           /\ DOMAIN bars \subseteq 0 .. now => DOMAIN bars' \subseteq 0 .. now
<1>1. /\ DOMAIN bars \subseteq DOMAIN bars' /\ DOMAIN bars' \subseteq DOMAIN bars \cup {now}
      /\ \A t \in DOMAIN bars : t # now => bars'[t] = bars[t]
  <2>1. CASE BarBegins
    BY <2>1 DEF BarBegins
  <2>2. CASE BarForms
    BY <2>2 DEF BarForms, DayOK
  <2> QED BY <2>1, <2>2
<1>2. UNCHANGED <<now, signal>>
  BY DEF BarBegins, BarForms
<1>3. now \in Nat /\ DOMAIN bars \subseteq Nat
  BY DEF DayOK
<1> DEFINE S == {t \in DOMAIN bars : t + 1 <= now}
           T == {t \in DOMAIN bars' : t + 1 <= now}
<1>4. S = T /\ \A t \in S : bars'[t] = bars[t]
  BY <1>1, <1>3
<1>5. Closed = [t \in S |-> bars[t]] /\ Closed' = [t \in T |-> bars'[t]]
  BY <1>2 DEF Closed, ClosedBars, Restrict
<1>6. Closed' = Closed
  BY <1>4, <1>5
<1> QED BY <1>1, <1>2, <1>3, <1>6

\* When a slot is over, every bar there is has closed.
LEMMA AllHaveClosed ==
    ASSUME DayOK, DOMAIN bars \subseteq 0 .. now
    PROVE  ClosedBars(bars, now + 1) = bars
<1>1. {t \in DOMAIN bars : t + 1 <= now + 1} = DOMAIN bars
  BY DEF DayOK
<1> QED BY <1>1 DEF ClosedBars, Restrict, DayOK

LEMMA BarsAreSound == DayOK => SoundDay(bars)
BY DayAssumption DEF DayOK, SoundDay

\* The scanner shows a breakout where the newest bar is one after the range.
LEMMA ShownBreakout ==
    ASSUME DayOK, DOMAIN bars \subseteq 0 .. now, HasSetup(bars), NEW d \in Sides
    PROVE  /\ Max(DOMAIN bars) \in DOMAIN bars
           /\ \A t \in DOMAIN bars : t <= Max(DOMAIN bars)
           /\ /\ Shows(Position(bars, now + 1), d)
              /\ Max(DOMAIN bars) < EntryEnd
              <=> Max(DOMAIN bars) \in EntrySlots(bars, d)
<1> DEFINE m == Max(DOMAIN bars)
           after == {t \in DOMAIN bars : t >= RangeBars}
           H == RangeHigh(bars)
           L == RangeLow(bars)
           c == bars[m].c
<1>1. now \in Nat /\ RangeBars \in Nat \ {0} /\ EntryEnd \in Nat
  BY DayAssumption DEF DayOK
<1>2. HasRange(bars) /\ 0 \in DOMAIN bars
  BY <1>1 DEF HasSetup, HasRange, Traded, RangeSlots
<1>3. m \in DOMAIN bars /\ \A t \in DOMAIN bars : t <= m
  BY <1>1, <1>2, MaxOfSlots
<1>4. L \in Int /\ H \in Int /\ L < H /\ c \in Int
  <2>1. L \in Int /\ H \in Int /\ L < H
    BY BarsAreSound, SetupFacts
  <2>2. c \in Int
    BY <1>3, BarsAreSound DEF SoundDay, Bar
  <2> QED BY <2>1, <2>2
<1>5. CASE after = {}
  <2>1. Position(bars, now + 1) = None
    BY <1>5, AllHaveClosed DEF Position
  <2>2. ~(m >= RangeBars)
    BY <1>3, <1>5
  <2>3. m \notin EntrySlots(bars, d)
    BY <1>1, <2>2 DEF EntrySlots
  <2> QED BY <1>3, <2>1, <2>3 DEF Shows, None
<1>6. CASE after # {}
  <2>1. m \in after
    <3>1. PICK t \in DOMAIN bars : t >= RangeBars
      BY <1>6
    <3> QED BY <1>1, <1>3, <3>1
  <2>2. Max(after) = m
    <3>1. Max(after) \in after /\ \A t \in after : t <= Max(after)
      BY <1>1, <1>6, MaxOfSlots
    <3> QED BY <1>1, <1>3, <2>1, <3>1
  <2>3. Position(bars, now + 1) = IF c > H THEN "above" ELSE IF c < L THEN "below" ELSE "inside"
    BY <1>2, <1>6, <2>2, AllHaveClosed DEF Position
  <2>4. Shows(Position(bars, now + 1), d) <=> Breaks(bars, m, d)
    <3>1. Breaks(bars, m, d) <=> IF d = "long" THEN c > H ELSE c < L
      BY DEF Breaks
    <3> HIDE DEF H, L, c
    <3> QED BY <1>4, <2>3, <3>1 DEF Shows
  <2>5. m \in EntrySlots(bars, d) <=> m < EntryEnd /\ Breaks(bars, m, d)
    BY <1>1, <1>3, <2>1 DEF EntrySlots
  <2> QED BY <1>3, <2>4, <2>5
<1> QED BY <1>5, <1>6

\* What the closed bars say of the range and of a breakout, all the bars say too.
LEMMA ClosedPartOfBars ==
    ASSUME DayOK, DOMAIN bars \subseteq 0 .. now, HasRange(Closed)
    PROVE  /\ RangeBars <= now
           /\ HasSetup(Closed) <=> HasSetup(bars)
           /\ \A d \in Sides : EntrySlots(Closed, d) = {t \in EntrySlots(bars, d) : t < now}
<1>1. /\ DOMAIN Closed = {t \in DOMAIN bars : t + 1 <= now}
      /\ \A t \in DOMAIN Closed : Closed[t] = bars[t]
  BY DEF Closed, ClosedBars, Restrict
<1>2. now \in Nat /\ RangeBars \in Nat \ {0} /\ DOMAIN bars \subseteq Nat
  BY DayAssumption DEF DayOK
<1>3. RangeBars - 1 \in DOMAIN Closed
  BY <1>2 DEF HasRange, Traded, RangeSlots
<1>4. RangeBars <= now
  BY <1>1, <1>2, <1>3
<1>5. RangeHigh(Closed) = RangeHigh(bars) /\ RangeLow(Closed) = RangeLow(bars)
  BY ClosedFacts
<1>6. HasRange(bars)
  BY <1>1 DEF HasRange, Traded
<1>7. HasSetup(Closed) <=> HasSetup(bars)
  BY <1>5, <1>6 DEF HasSetup
<1>8. ASSUME NEW d \in Sides
      PROVE  EntrySlots(Closed, d) = {t \in EntrySlots(bars, d) : t < now}
  <2>1. \A t \in DOMAIN Closed : Breaks(Closed, t, d) <=> Breaks(bars, t, d)
    BY <1>1, <1>5 DEF Breaks
  <2>2. \A t \in DOMAIN bars : t + 1 <= now <=> t < now
    BY <1>2
  <2> QED BY <1>1, <2>1, <2>2 DEF EntrySlots
<1> QED BY <1>4, <1>7, <1>8

\* What has been shown before a slot is over is the first breakout before it.
LEMMA ShownSoFar ==
    ASSUME DayOK, Watch, HasSetup(bars), NEW d \in Sides
    PROVE  LET past == {t \in EntrySlots(bars, d) : t < now}
           IN  signal[d] = IF past = {} THEN NoSlot ELSE Min(past)
<1>1. now \in Nat /\ RangeBars \in Nat \ {0} /\ DOMAIN bars \subseteq 0 .. now
  BY DayAssumption DEF DayOK, Watch
<1>2. CASE HasRange(Closed)
  <2>1. HasSetup(Closed) /\ EntrySlots(Closed, d) = {t \in EntrySlots(bars, d) : t < now}
    BY <1>1, <1>2, ClosedPartOfBars
  <2> QED BY <2>1 DEF Watch, ScannerAndBacktestAgree, Entry
<1>3. CASE ~HasRange(Closed)
  <2>1. now < RangeBars
    <3> SUFFICES ASSUME RangeBars <= now PROVE FALSE
      BY <1>1
    <3>1. RangeSlots \subseteq DOMAIN bars
      BY DEF HasSetup, HasRange, Traded
    <3>2. \A t \in RangeSlots : t + 1 <= now
      BY <1>1 DEF RangeSlots
    <3>3. RangeSlots \subseteq DOMAIN Closed
      BY <3>1, <3>2 DEF Closed, ClosedBars, Restrict
    <3> QED BY <1>3, <3>3 DEF HasRange, Traded
  <2>2. {t \in EntrySlots(bars, d) : t < now} = {}
    BY <1>1, <2>1, DayAssumption DEF EntrySlots
  <2>3. signal[d] = NoSlot
    BY <1>1, <2>1 DEF Watch
  <2> QED BY <2>2, <2>3
<1> QED BY <1>2, <1>3

LEMMA WatchStep == DayOK /\ Watch /\ [Next]_vars => Watch'
<1> SUFFICES ASSUME DayOK, Watch, [Next]_vars PROVE Watch'
  OBVIOUS
<1>1. CASE BarBegins \/ BarForms
  <2>1. Closed' = Closed /\ now' = now /\ signal' = signal /\ DOMAIN bars' \subseteq 0 .. now
    BY <1>1, FormingIsNotClosed DEF Watch
  <2>2. ScannerAndBacktestAgree'
    BY <2>1 DEF Watch, ScannerAndBacktestAgree
  <2> QED BY <2>1, <2>2 DEF Watch
<1>2. CASE UNCHANGED vars
  <2>1. bars' = bars /\ now' = now /\ signal' = signal
    BY <1>2 DEF vars
  <2>2. Closed' = Closed
    BY <2>1 DEF Closed
  <2> QED BY <2>1, <2>2 DEF Watch, ScannerAndBacktestAgree
<1>3. CASE BarCloses
  <2> DEFINE m == Max(DOMAIN bars)
             Hit(d) == /\ signal[d] = NoSlot
                       /\ Shows(Position(bars, now + 1), d)
                       /\ m < EntryEnd
  <2>1. /\ now' = now + 1 /\ bars' = bars
        /\ \A d \in Sides : signal'[d] = IF Hit(d) THEN m ELSE signal[d]
    BY <1>3 DEF BarCloses
  <2>2. now \in Nat /\ DOMAIN bars \subseteq 0 .. now /\ RangeBars \in Nat \ {0}
    BY DayAssumption DEF DayOK, Watch
  <2>3. DOMAIN bars' \subseteq 0 .. now'
    BY <2>1, <2>2
  <2>4. ASSUME NEW d \in Sides, Hit(d)
        PROVE  m \in RangeBars .. now
    <3> DEFINE after == {t \in DOMAIN bars : t >= RangeBars}
    <3>1. after # {}
      <4> SUFFICES ASSUME after = {} PROVE FALSE
        OBVIOUS
      <4>1. Position(bars, now + 1) = None
        BY <2>2, AllHaveClosed DEF Position
      <4> QED BY <2>4, <4>1 DEF Shows, None
    <3>2. m \in DOMAIN bars /\ \A t \in DOMAIN bars : t <= m
      BY <2>2, <3>1, MaxOfSlots
    <3> QED BY <2>2, <3>1, <3>2
  <2>5. /\ signal' \in [Sides -> Int]
        /\ \A d \in Sides : signal'[d] = NoSlot \/ signal'[d] \in RangeBars .. now' - 1
    <3> HIDE DEF Hit, m
    <3>1. \A d \in Sides : /\ signal'[d] \in Int
                           /\ signal'[d] = NoSlot \/ signal'[d] \in RangeBars .. now
      BY <2>1, <2>2, <2>4 DEF Watch
    <3>2. DOMAIN signal' = Sides /\ signal' = [d \in Sides |-> signal'[d]]
      BY <1>3 DEF BarCloses
    <3> QED BY <2>1, <2>2, <3>1, <3>2
  <2>6. ScannerAndBacktestAgree'
    <3>1. Closed' = bars
      BY <2>1, <2>2, AllHaveClosed DEF Closed
    <3>2. SUFFICES ASSUME HasSetup(bars), NEW d \in Sides
                   PROVE  signal'[d] = IF EntrySlots(bars, d) = {} THEN NoSlot ELSE Entry(bars, d)
      BY <3>1 DEF ScannerAndBacktestAgree
    <3> DEFINE E == EntrySlots(bars, d)
               past == {t \in E : t < now}
    <3>3. m \in DOMAIN bars /\ \A t \in DOMAIN bars : t <= m
      BY <2>2, <3>2, ShownBreakout
    <3>4. Hit(d) <=> signal[d] = NoSlot /\ m \in E
      BY <2>2, <3>2, ShownBreakout
    <3>5. signal[d] = IF past = {} THEN NoSlot ELSE Min(past)
      BY <3>2, ShownSoFar
    <3>6. E \subseteq DOMAIN bars /\ E \subseteq Nat
      BY <2>2 DEF EntrySlots
    <3>7. signal'[d] = IF signal[d] = NoSlot /\ m \in E THEN m ELSE signal[d]
      BY <2>1, <3>4
    <3> HIDE DEF E, m, Hit
    <3>8. CASE past # {}
      <4>1. Min(past) \in Nat
        BY <3>6, <3>8, MinOfNats
      <4>2. signal'[d] = Min(past)
        BY <3>5, <3>7, <3>8, <4>1 DEF NoSlot
      <4>3. Min(E) = Min(past)
        BY <2>2, <3>6, <3>8, SameMin
      <4> QED BY <3>8, <4>2, <4>3 DEF E, Entry
    <3>9. CASE past = {}
      <4>1. E \subseteq {now}
        BY <2>2, <3>6, <3>9
      <4>2. E # {} => m = now
        BY <2>2, <3>3, <3>6, <4>1
      <4>3. E # {} => Min(E) = now
        BY <3>6, <4>1, MinOfNats
      <4>4. signal'[d] = IF E = {} THEN NoSlot ELSE Min(E)
        BY <3>5, <3>7, <3>9, <4>1, <4>2, <4>3
      <4> QED BY <4>4 DEF E, Entry
    <3> QED BY <3>8, <3>9
  <2> QED BY <2>3, <2>5, <2>6 DEF Watch
<1> QED BY <1>1, <1>2, <1>3 DEF Next

LEMMA WatchInit == Init => DayOK /\ Watch
<1> SUFFICES ASSUME Init PROVE DayOK /\ Watch
  OBVIOUS
<1>1. DOMAIN bars = {} /\ now = 0 /\ signal = [d \in Sides |-> NoSlot]
  BY DEF Init
<1>2. bars \in [DOMAIN bars -> Shapes]
  BY DEF Init
<1>3. ~HasSetup(Closed)
  <2>1. DOMAIN Closed = {} /\ 0 \in RangeSlots
    BY <1>1, DayAssumption DEF Closed, ClosedBars, Restrict, RangeSlots
  <2> QED BY <2>1 DEF HasSetup, HasRange, Traded
<1> QED BY <1>1, <1>2, <1>3 DEF DayOK, Watch, ScannerAndBacktestAgree, NoSlot

\* The backtest enters at the bar at which the scanner first showed the breakout.
THEOREM ScannerAndBacktestMeet == Spec => []ScannerAndBacktestAgree
<1>1. Init => DayOK /\ Watch
  BY WatchInit
<1>2. Watch => ScannerAndBacktestAgree
  BY DEF Watch
<1> QED BY <1>1, <1>2, DayStep, WatchStep, PTL DEF Spec

-----------------------------------------------------------------------------
(* Looking ahead.                                                          *)

\* The bars that are closed, from one state to the next of the same slot.
LEMMA ClosedStay ==
    ASSUME DayOK, BarBegins \/ BarForms
    PROVE  /\ ClosedBars(bars', now) = ClosedBars(bars, now)
           /\ \A t \in DOMAIN ClosedBars(bars, now) :
                 t \in DOMAIN bars /\ t \in DOMAIN bars' /\ bars'[t] = bars[t] /\ t < now
           /\ \A t \in Nat : t < now => (t \in DOMAIN bars <=> t \in DOMAIN bars')
<1>1. /\ DOMAIN bars \subseteq DOMAIN bars' /\ DOMAIN bars' \subseteq DOMAIN bars \cup {now}
      /\ \A t \in DOMAIN bars : t # now => bars'[t] = bars[t]
  <2>1. CASE BarBegins
    BY <2>1 DEF BarBegins
  <2>2. CASE BarForms
    BY <2>2 DEF BarForms, DayOK
  <2> QED BY <2>1, <2>2
<1>2. now' = now
  BY DEF BarBegins, BarForms
<1>3. now \in Nat /\ DOMAIN bars \subseteq Nat
  BY DEF DayOK
<1>4. ClosedBars(bars', now) = ClosedBars(bars, now)
  BY <1>2, FormingIsNotClosed DEF Closed
<1>5. DOMAIN ClosedBars(bars, now) = {t \in DOMAIN bars : t + 1 <= now}
  BY DEF ClosedBars, Restrict
<1> QED BY <1>1, <1>3, <1>4, <1>5

LEMMA PositionStays ==
    ASSUME DayOK, BarBegins \/ BarForms
    PROVE  Position(bars', now) = Position(bars, now)
<1> DEFINE K == ClosedBars(bars, now)
           after == {t \in DOMAIN K : t >= RangeBars}
<1>1. ClosedBars(bars', now) = K
  BY ClosedStay
<1>2. CASE after = {}
  BY <1>1, <1>2 DEF Position
<1>3. CASE after # {}
  <2>1. now \in Nat /\ RangeBars \in Nat \ {0}
    BY DayAssumption DEF DayOK
  <2>2. \A t \in DOMAIN K : t \in 0 .. now /\ bars'[t] = bars[t]
    BY ClosedStay DEF DayOK
  <2>3. Max(after) \in after
    BY <1>3, <2>1, <2>2, MaxOfSlots
  <2>4. RangeBars < now
    <3>1. PICK t \in after : TRUE
      BY <1>3
    <3>2. t \in Nat /\ t < now /\ t >= RangeBars
      BY <3>1, ClosedStay DEF DayOK
    <3> QED BY <2>1, <3>2
  <2>5. HasRange(bars') <=> HasRange(bars)
    <3>1. \A t \in RangeSlots : t \in Nat /\ t < now
      BY <2>1, <2>4 DEF RangeSlots
    <3> QED BY <3>1, ClosedStay DEF HasRange, Traded
  <2>6. CASE HasRange(bars)
    <3>1. \A t \in RangeSlots : bars'[t] = bars[t]
      <4>1. \A t \in RangeSlots : t \in DOMAIN bars /\ t + 1 <= now
        BY <2>1, <2>4, <2>6 DEF RangeSlots, HasRange, Traded
      <4>2. \A t \in RangeSlots : t \in DOMAIN K
        BY <4>1 DEF ClosedBars, Restrict
      <4> QED BY <2>2, <4>2
    <3>2. /\ {bars'[t].h : t \in RangeSlots} = {bars[t].h : t \in RangeSlots}
          /\ {bars'[t].l : t \in RangeSlots} = {bars[t].l : t \in RangeSlots}
      BY <3>1
    <3>3. RangeHigh(bars') = RangeHigh(bars) /\ RangeLow(bars') = RangeLow(bars)
      BY <3>2 DEF RangeHigh, RangeLow, Highest, Lowest
    <3>4. bars'[Max(after)].c = bars[Max(after)].c
      BY <2>2, <2>3
    <3> QED BY <1>1, <1>3, <2>5, <2>6, <3>3, <3>4 DEF Position
  <2>7. CASE ~HasRange(bars)
    BY <2>5, <2>7 DEF Position
  <2> QED BY <2>6, <2>7
<1> QED BY <1>2, <1>3

LEMMA RegimeStays ==
    ASSUME DayOK, BarBegins \/ BarForms
    PROVE  ClassifyRegime(bars', now) = ClassifyRegime(bars, now)
<1> DEFINE K == ClosedBars(bars, now)
           complete == CompletePeriods(K)
           newest == Max(complete)
           earlier == Max(complete \ {newest})
<1>1. ClosedBars(bars', now) = K
  BY ClosedStay
<1>2. CASE Cardinality(complete) < 2
  BY <1>1, <1>2 DEF ClassifyRegime
<1>3. CASE ~(Cardinality(complete) < 2)
  <2>1. now \in Nat /\ PeriodBars \in Nat \ {0}
    BY DayAssumption DEF DayOK
  <2>2. \A t \in DOMAIN K : t \in 0 .. now /\ bars'[t] = bars[t]
    BY ClosedStay DEF DayOK
  <2>3. complete \subseteq 0 .. now
    <3>1. \A t \in 0 .. now : t \div PeriodBars \in 0 .. now
      BY <2>1
    <3> QED BY <2>2, <3>1 DEF CompletePeriods
  <2>4. newest \in complete /\ earlier \in complete
    <3> HIDE DEF complete
    <3>1. complete # {}
      BY <1>3, FS_EmptySet
    <3>2. newest \in complete
      BY <2>1, <2>3, <3>1, MaxOfSlots
    <3>3. complete # {newest}
      BY <1>3, FS_Singleton
    <3>4. complete \ {newest} # {}
      BY <3>2, <3>3
    <3> HIDE DEF newest
    <3>5. earlier \in complete \ {newest}
      BY <2>1, <2>3, <3>4, MaxOfSlots
    <3> QED BY <3>2, <3>5
  <2>5. ASSUME NEW k \in complete
        PROVE  /\ Highest(bars', PeriodSlots(k)) = Highest(bars, PeriodSlots(k))
               /\ Lowest(bars', PeriodSlots(k)) = Lowest(bars, PeriodSlots(k))
               /\ bars'[Max(PeriodSlots(k))] = bars[Max(PeriodSlots(k))]
    <3>1. PeriodSlots(k) \subseteq DOMAIN K
      BY DEF CompletePeriods, Traded
    <3>2. \A t \in PeriodSlots(k) : t \in 0 .. now /\ bars'[t] = bars[t]
      BY <2>2, <3>1
    <3>3. PeriodSlots(k) # {}
      <4>1. PeriodBars * k \in Int
        BY <2>1, <2>3
      <4>2. PeriodBars * k \in PeriodSlots(k)
        BY <2>1, <4>1 DEF PeriodSlots
      <4> QED BY <4>2
    <3>4. Max(PeriodSlots(k)) \in PeriodSlots(k)
      BY <2>1, <3>2, <3>3, MaxOfSlots
    <3>5. /\ {bars'[t].h : t \in PeriodSlots(k)} = {bars[t].h : t \in PeriodSlots(k)}
          /\ {bars'[t].l : t \in PeriodSlots(k)} = {bars[t].l : t \in PeriodSlots(k)}
      BY <3>2
    <3> QED BY <3>2, <3>4, <3>5 DEF Highest, Lowest
  <2> HIDE DEF complete, newest, earlier
  <2>6. /\ Highest(bars', PeriodSlots(newest)) = Highest(bars, PeriodSlots(newest))
        /\ Lowest(bars', PeriodSlots(newest)) = Lowest(bars, PeriodSlots(newest))
        /\ bars'[Max(PeriodSlots(newest))] = bars[Max(PeriodSlots(newest))]
        /\ Highest(bars', PeriodSlots(earlier)) = Highest(bars, PeriodSlots(earlier))
        /\ Lowest(bars', PeriodSlots(earlier)) = Lowest(bars, PeriodSlots(earlier))
    BY <2>4, <2>5
  <2> QED BY <1>1, <2>6 DEF ClassifyRegime, complete, newest, earlier
<1> QED BY <1>2, <1>3

\* A trade that has ended is still the day's when one more slot is over.
LEMMA TradeStays ==
    ASSUME DayOK, DOMAIN bars \subseteq 0 .. now,
           NEW regime, NEW trade \in TradesForDay(Closed, regime), trade.exit > trade.entry
    PROVE  trade \in TradesForDay(bars, regime)
<1>1. PICK d \in Directions(regime) :
          /\ HasSetup(Closed) /\ EntrySlots(Closed, d) # {}
          /\ trade = Simulate(Closed, Entry(Closed, d), d)
  BY DEF TradesForDay
<1>2. d \in Sides
  BY <1>1 DEF Directions, Sides
<1> DEFINE e == Entry(Closed, d)
           X == ExitSlots(Closed, e, d)
           Y == ExitSlots(bars, e, d)
<1>3. /\ HasSetup(bars)
      /\ EntrySlots(Closed, d) = {t \in EntrySlots(bars, d) : t < now}
  BY <1>1, <1>2, ClosedPartOfBars DEF HasSetup
<1>4. /\ DOMAIN Closed = {t \in DOMAIN bars : t + 1 <= now}
      /\ \A t \in DOMAIN Closed : Closed[t] = bars[t]
      /\ DOMAIN bars \subseteq Nat /\ now \in Nat
  BY DEF Closed, ClosedBars, Restrict, DayOK
<1>5. Entry(bars, d) = e
  <2>1. EntrySlots(bars, d) \subseteq Nat
    BY <1>4 DEF EntrySlots
  <2> QED BY <1>1, <1>3, <1>4, <2>1, SameMin DEF Entry
<1>6. e \in DOMAIN Closed
  BY <1>1, <1>2, ClosedFacts, EntryFacts
<1>7. /\ TwiceStop(bars) = TwiceStop(Closed)
      /\ TwiceTarget(bars, e, d) = TwiceTarget(Closed, e, d)
      /\ TwiceRisk(bars, e) = TwiceRisk(Closed, e)
      /\ bars[e] = Closed[e]
  <2>1. RangeHigh(Closed) = RangeHigh(bars) /\ RangeLow(Closed) = RangeLow(bars)
    BY <1>1, ClosedFacts DEF HasSetup
  <2>2. bars[e] = Closed[e]
    BY <1>4, <1>6
  <2> HIDE DEF e
  <2> QED BY <2>1, <2>2 DEF TwiceStop, TwiceTarget, TwiceRisk
<1>8. X = {t \in Y : t < now}
  <2> HIDE DEF e
  <2> QED BY <1>4, <1>7 DEF ExitSlots
<1>9. X # {}
  <2> SUFFICES ASSUME X = {} PROVE FALSE
    OBVIOUS
  <2>1. trade.exit = e /\ trade.entry = e
    BY <1>1 DEF Simulate
  <2>2. e \in Nat
    BY <1>4, <1>6
  <2> HIDE DEF e
  <2> QED BY <2>1, <2>2
<1>10. Min(Y) = Min(X) /\ Y # {} /\ Min(X) \in DOMAIN Closed
  <2>1. Y \subseteq Nat
    BY <1>4 DEF ExitSlots
  <2>2. Min(Y) = Min(X)
    <3> HIDE DEF X, Y
    <3> QED BY <1>4, <1>8, <1>9, <2>1, SameMin
  <2>3. Min(X) \in DOMAIN Closed
    BY <1>9, ClosedFacts, ExitFacts
  <2> QED BY <1>8, <1>9, <2>2, <2>3
<1>11. TwiceExit(bars, e, Min(Y), d) = TwiceExit(Closed, e, Min(X), d)
  <2>1. bars[Min(X)] = Closed[Min(X)]
    BY <1>4, <1>10
  <2> HIDE DEF e, X, Y
  <2> QED BY <1>7, <1>10, <2>1 DEF TwiceExit
<1>12. Simulate(bars, e, d) = Simulate(Closed, e, d)
  <2>1. \A p : TwiceGain(bars, e, p, d) = TwiceGain(Closed, e, p, d)
    BY <1>7 DEF TwiceGain
  <2> HIDE DEF e
  <2> QED BY <1>7, <1>9, <1>10, <1>11, <2>1 DEF Simulate
<1>13. EntrySlots(bars, d) # {}
  BY <1>1, <1>3
<1>14. trade = Simulate(bars, Entry(bars, d), d)
  BY <1>1, <1>5, <1>12
<1> QED BY <1>1, <1>3, <1>13, <1>14 DEF TradesForDay

\* Nothing the forming bar does shows, and a trade that has ended is over.
THEOREM NothingLooksAhead == Spec => NoLookAhead
<1> DEFINE Inv == DayOK /\ Watch
<1>1. Init => Inv
  BY WatchInit
<1>2. Inv /\ [Next]_vars => Inv'
  BY DayStep, WatchStep
<1> DEFINE Blind == /\ now' = now =>
                           /\ Position(bars', now) = Position(bars, now)
                           /\ ClassifyRegime(bars', now) = ClassifyRegime(bars, now)
                    /\ \A regime \in {"up", "down"} : \A trade \in TradesForDay(Closed, regime) :
                           trade.exit > trade.entry => trade \in TradesForDay(Closed', regime)
<1>3. Inv /\ [Next]_vars => [Blind]_vars
  <2> SUFFICES ASSUME Inv, Next PROVE Blind
    OBVIOUS
  <2>1. CASE BarBegins \/ BarForms
    <3>1. Closed' = Closed
      BY <2>1, FormingIsNotClosed
    <3> QED BY <2>1, <3>1, PositionStays, RegimeStays
  <2>2. CASE BarCloses
    <3>1. now' = now + 1 /\ bars' = bars /\ now \in Nat /\ DOMAIN bars \subseteq 0 .. now
      BY <2>2 DEF BarCloses, DayOK, Watch
    <3>2. Closed' = bars
      BY <3>1, AllHaveClosed DEF Closed
    <3>3. now' # now
      BY <3>1
    <3> QED BY <3>1, <3>2, <3>3, TradeStays
  <2> QED BY <2>1, <2>2 DEF Next
<1> QED BY <1>1, <1>2, <1>3, PTL DEF Spec, NoLookAhead

-----------------------------------------------------------------------------
(* Upside down.                                                            *)

LEMMA MaxIs ==
    ASSUME NEW S, S \subseteq Int, NEW x \in S, \A y \in S : y <= x
    PROVE  Max(S) = x
<1>1. Max(S) \in S /\ \A y \in S : Max(S) >= y
  BY DEF Max
<1>2. Max(S) \in Int /\ x \in Int /\ Max(S) >= x /\ x >= Max(S)
  BY <1>1
<1> QED BY <1>2

LEMMA MinIs ==
    ASSUME NEW S, S \subseteq Int, NEW x \in S, \A y \in S : x <= y
    PROVE  Min(S) = x
<1>1. Min(S) \in S /\ \A y \in S : Min(S) <= y
  BY DEF Min
<1>2. Min(S) \in Int /\ x \in Int /\ Min(S) <= x /\ x <= Min(S)
  BY <1>1
<1> QED BY <1>2

\* Of some slots, one has the largest value.
LEMMA PeakOf ==
    ASSUME NEW n \in Nat, NEW S, S \subseteq 0 .. n, S # {}, NEW f, \A t \in S : f[t] \in Int
    PROVE  \E m \in S : \A t \in S : f[t] <= f[m]
<1>1. PICK s \in S : TRUE
  OBVIOUS
<1> DEFINE g == [t \in 0 .. n |-> IF t \in S THEN f[t] ELSE f[s]]
<1>2. /\ \A t \in 0 .. n : g[t] \in Int
      /\ \A t \in S : g[t] = f[t]
      /\ \A t \in 0 .. n : t \notin S => g[t] = g[s]
  OBVIOUS
<1> HIDE DEF g
<1>3. PICK m \in 0 .. n : \A t \in 0 .. n : g[t] <= g[m]
  BY <1>2, LargestOf
<1>4. CASE m \in S
  BY <1>2, <1>3, <1>4
<1>5. CASE m \notin S
  <2>1. \A t \in S : f[t] <= f[s]
    BY <1>1, <1>2, <1>3, <1>5
  <2> QED BY <1>1, <2>1
<1> QED BY <1>4, <1>5

\* The highest of the mirror image is the lowest of the day, and the other way round.
LEMMA ExtremesMirror ==
    ASSUME NEW n \in Nat, NEW S, S \subseteq 0 .. n, S # {},
           NEW day, SoundDay(day), S \subseteq DOMAIN day
    PROVE  /\ Highest(day, S) \in Int /\ Lowest(day, S) \in Int
           /\ Highest(Mirrored(day), S) = Mirror - Lowest(day, S)
           /\ Lowest(Mirrored(day), S) = Mirror - Highest(day, S)
<1> DEFINE other == Mirrored(day)
           high == [t \in S |-> day[t].h]
           depth == [t \in S |-> -day[t].l]
<1>1. /\ Mirror \in Int
      /\ \A t \in S : /\ day[t].h \in Int /\ day[t].l \in Int
                      /\ other[t].h = Mirror - day[t].l /\ other[t].l = Mirror - day[t].h
  BY DayAssumption DEF SoundDay, Bar, Mirrored
<1>2. PICK top \in S : \A t \in S : day[t].h <= day[top].h
  <2>1. \A t \in S : high[t] \in Int
    BY <1>1
  <2>2. PICK m \in S : \A t \in S : high[t] <= high[m]
    <3> HIDE DEF high
    <3> QED BY <2>1, PeakOf
  <2> QED BY <2>2
<1>3. PICK low \in S : \A t \in S : day[low].l <= day[t].l
  <2>1. \A t \in S : depth[t] \in Int
    BY <1>1
  <2>2. PICK m \in S : \A t \in S : depth[t] <= depth[m]
    <3> HIDE DEF depth
    <3> QED BY <2>1, PeakOf
  <2>3. \A t \in S : -day[t].l <= -day[m].l
    BY <2>2
  <2>4. \A t \in S : day[m].l <= day[t].l
    BY <1>1, <2>2, <2>3
  <2> QED BY <2>4
<1> HIDE DEF other
<1> DEFINE dayHighs == {day[t].h : t \in S}
           dayLows == {day[t].l : t \in S}
           otherHighs == {other[t].h : t \in S}
           otherLows == {other[t].l : t \in S}
<1>4. Max(dayHighs) = day[top].h
  <2>1. dayHighs \subseteq Int /\ day[top].h \in dayHighs /\ \A y \in dayHighs : y <= day[top].h
    BY <1>1, <1>2
  <2> HIDE DEF dayHighs
  <2> QED BY <2>1, MaxIs
<1>5. Min(dayLows) = day[low].l
  <2>1. dayLows \subseteq Int /\ day[low].l \in dayLows /\ \A y \in dayLows : day[low].l <= y
    BY <1>1, <1>3
  <2> HIDE DEF dayLows
  <2> QED BY <2>1, MinIs
<1>6. Max(otherHighs) = other[low].h
  <2>1. \A t \in S : other[t].h \in Int /\ other[t].h <= other[low].h
    BY <1>1, <1>3
  <2>2. otherHighs \subseteq Int /\ other[low].h \in otherHighs
        /\ \A y \in otherHighs : y <= other[low].h
    BY <2>1
  <2> HIDE DEF otherHighs
  <2> QED BY <2>2, MaxIs
<1>7. Min(otherLows) = other[top].l
  <2>1. \A t \in S : other[t].l \in Int /\ other[top].l <= other[t].l
    BY <1>1, <1>2
  <2>2. otherLows \subseteq Int /\ other[top].l \in otherLows
        /\ \A y \in otherLows : other[top].l <= y
    BY <2>1
  <2> HIDE DEF otherLows
  <2> QED BY <2>2, MinIs
<1> QED BY <1>1, <1>4, <1>5, <1>6, <1>7 DEF Highest, Lowest, other

\* Bars in the mirror image are where they were.
LEMMA BarsMirror ==
    ASSUME NEW day, SoundDay(day)
    PROVE  /\ DOMAIN Mirrored(day) = DOMAIN day
           /\ \A t \in DOMAIN day :
                 /\ day[t].h \in Int /\ day[t].l \in Int /\ day[t].c \in Int
                 /\ Mirrored(day)[t].h = Mirror - day[t].l
                 /\ Mirrored(day)[t].l = Mirror - day[t].h
                 /\ Mirrored(day)[t].c = Mirror - day[t].c
           /\ Mirror \in Int
  BY DayAssumption DEF SoundDay, Bar, Mirrored

\* An up day is a down day upside down.
LEMMA RegimeMirrors ==
    ASSUME NEW n \in Nat, NEW day, SoundDay(day), DOMAIN day \subseteq 0 .. n - 1,
           day = [t \in DOMAIN day |-> day[t]]
    PROVE  /\ ClassifyRegime(day, n) = "up" <=> ClassifyRegime(Mirrored(day), n) = "down"
           /\ ClassifyRegime(day, n) = "down" <=> ClassifyRegime(Mirrored(day), n) = "up"
<1> DEFINE other == Mirrored(day)
           complete == CompletePeriods(day)
           newest == Max(complete)
           earlier == Max(complete \ {newest})
           last == PeriodSlots(newest)
           before == PeriodSlots(earlier)
           c == day[Max(last)].c
<1>1. ClosedBars(day, n) = day /\ ClosedBars(other, n) = other
  <2>1. DOMAIN other = DOMAIN day
    BY BarsMirror
  <2> DEFINE slots == DOMAIN day
  <2>2. {t \in slots : t + 1 <= n} = slots
    <3> HIDE DEF slots
    <3>1. slots \subseteq 0 .. n - 1
      BY DEF slots
    <3> QED BY <3>1
  <2>3. other = [t \in DOMAIN other |-> other[t]]
    BY DEF Mirrored
  <2> HIDE DEF other
  <2> QED BY <2>1, <2>2, <2>3 DEF ClosedBars, Restrict
<1>2. CompletePeriods(other) = complete
  BY BarsMirror DEF CompletePeriods, Traded
<1>3. CASE Cardinality(complete) < 2
  <2>1. ClassifyRegime(day, n) = None /\ ClassifyRegime(other, n) = None
    <3> HIDE DEF other, complete
    <3> QED BY <1>1, <1>2, <1>3 DEF ClassifyRegime, complete
  <2> QED BY <2>1 DEF None
<1>4. CASE ~(Cardinality(complete) < 2)
  <2>1. PeriodBars \in Nat \ {0}
    BY DayAssumption
  <2>2. complete \subseteq 0 .. n
    <3>1. \A t \in 0 .. n : t \div PeriodBars \in 0 .. n
      BY <2>1
    <3> QED BY <3>1 DEF CompletePeriods
  <2>3. newest \in complete /\ earlier \in complete
    <3> HIDE DEF complete
    <3>1. complete # {}
      BY <1>4, FS_EmptySet
    <3>2. newest \in complete
      BY <2>2, <3>1, MaxOfSlots
    <3>3. complete # {newest}
      <4> HIDE DEF newest
      <4>1. Cardinality({newest}) = 1
        BY FS_Singleton
      <4> QED BY <1>4, <4>1
    <3>4. complete \ {newest} # {}
      BY <3>2, <3>3
    <3> HIDE DEF newest
    <3>5. earlier \in complete \ {newest}
      BY <2>2, <3>4, MaxOfSlots
    <3> QED BY <3>2, <3>5
  <2>4. ASSUME NEW k \in complete
        PROVE  /\ PeriodSlots(k) # {} /\ PeriodSlots(k) \subseteq DOMAIN day
               /\ PeriodSlots(k) \subseteq 0 .. n
    <3>1. PeriodSlots(k) \subseteq DOMAIN day
      BY DEF CompletePeriods, Traded
    <3>2. PeriodBars * k \in Int
      BY <2>1, <2>2
    <3>3. PeriodBars * k \in PeriodSlots(k)
      BY <2>1, <3>2 DEF PeriodSlots
    <3> QED BY <3>1, <3>3
  <2> HIDE DEF complete, newest, earlier
  <2>5. /\ last # {} /\ last \subseteq DOMAIN day /\ last \subseteq 0 .. n
        /\ before # {} /\ before \subseteq DOMAIN day /\ before \subseteq 0 .. n
    BY <2>3, <2>4
  <2> HIDE DEF last, before
  <2>6. Max(last) \in last
    BY <2>5, MaxOfSlots
  <2>7. c \in Int /\ other[Max(last)].c = Mirror - c /\ Mirror \in Int
    BY <2>5, <2>6, BarsMirror
  <2> HIDE DEF c
  <2>8. DOMAIN day # {} /\ DOMAIN day \subseteq 0 .. n /\ DOMAIN other = DOMAIN day
    BY <2>5, BarsMirror
  <2> DEFINE Hd == Highest(day, DOMAIN day)
             Ld == Lowest(day, DOMAIN day)
             Hl == Highest(day, last)
             Ll == Lowest(day, last)
             Hb == Highest(day, before)
             Lb == Lowest(day, before)
  <2>9. /\ Hd \in Int /\ Ld \in Int
        /\ Highest(other, DOMAIN day) = Mirror - Ld /\ Lowest(other, DOMAIN day) = Mirror - Hd
    BY <2>8, ExtremesMirror
  <2>10. /\ Hl \in Int /\ Ll \in Int
         /\ Highest(other, last) = Mirror - Ll /\ Lowest(other, last) = Mirror - Hl
    BY <2>5, ExtremesMirror
  <2>11. /\ Hb \in Int /\ Lb \in Int
         /\ Highest(other, before) = Mirror - Lb /\ Lowest(other, before) = Mirror - Hb
    BY <2>5, ExtremesMirror
  <2>12. ClassifyRegime(day, n) =
           IF 2 * c > Hd + Ld /\ Hl >= Hb THEN "up"
           ELSE IF 2 * c < Hd + Ld /\ Ll <= Lb THEN "down" ELSE "chop"
    BY <1>1, <1>4 DEF ClassifyRegime, Midpoint, complete, newest, earlier, last, before, c
  <2>13. ClassifyRegime(other, n) =
           IF 2 * other[Max(last)].c > Highest(other, DOMAIN day) + Lowest(other, DOMAIN day)
              /\ Highest(other, last) >= Highest(other, before) THEN "up"
           ELSE IF 2 * other[Max(last)].c < Highest(other, DOMAIN day) + Lowest(other, DOMAIN day)
                   /\ Lowest(other, last) <= Lowest(other, before) THEN "down" ELSE "chop"
    <3> HIDE DEF other
    <3> QED BY <1>1, <1>2, <1>4, <2>8
            DEF ClassifyRegime, Midpoint, complete, newest, earlier, last, before
  <2> HIDE DEF other, Hd, Ld, Hl, Ll, Hb, Lb
  <2>14. ClassifyRegime(other, n) =
           IF 2 * (Mirror - c) > (Mirror - Ld) + (Mirror - Hd) /\ Mirror - Ll >= Mirror - Lb THEN "up"
           ELSE IF 2 * (Mirror - c) < (Mirror - Ld) + (Mirror - Hd) /\ Mirror - Hl <= Mirror - Hb
                THEN "down" ELSE "chop"
    BY <2>7, <2>9, <2>10, <2>11, <2>13
  <2>15. /\ (2 * (Mirror - c) > (Mirror - Ld) + (Mirror - Hd)) <=> (2 * c < Hd + Ld)
         /\ (2 * (Mirror - c) < (Mirror - Ld) + (Mirror - Hd)) <=> (2 * c > Hd + Ld)
         /\ (Mirror - Ll >= Mirror - Lb) <=> (Ll <= Lb)
         /\ (Mirror - Hl <= Mirror - Hb) <=> (Hl >= Hb)
         /\ ~(2 * c < Hd + Ld /\ 2 * c > Hd + Ld)
    BY <2>7, <2>9, <2>10, <2>11
  <2>16. /\ ClassifyRegime(day, n) = "up" <=> ClassifyRegime(other, n) = "down"
         /\ ClassifyRegime(day, n) = "down" <=> ClassifyRegime(other, n) = "up"
    BY <2>12, <2>14, <2>15
  <2> QED BY <2>16 DEF other
<1> QED BY <1>3, <1>4

\* A long that a day makes, and the short its mirror image makes.
LEMMA TradeMirrors ==
    ASSUME NEW n \in Nat, NEW day, SoundDay(day), DOMAIN day \subseteq 0 .. n, HasRange(day)
    PROVE  /\ EntrySlots(Mirrored(day), "short") = EntrySlots(day, "long")
           /\ \A e \in DOMAIN day :
                 LET short == Simulate(Mirrored(day), e, "short")
                     long == Simulate(day, e, "long")
                 IN  /\ short.entry = long.entry /\ short.exit = long.exit
                     /\ short.pnl = long.pnl /\ short.risk = long.risk
<1> DEFINE other == Mirrored(day)
           H == RangeHigh(day)
           L == RangeLow(day)
<1>1. /\ DOMAIN other = DOMAIN day /\ Mirror \in Int
      /\ \A t \in DOMAIN day :
            /\ day[t].h \in Int /\ day[t].l \in Int /\ day[t].c \in Int
            /\ other[t].h = Mirror - day[t].l /\ other[t].l = Mirror - day[t].h
            /\ other[t].c = Mirror - day[t].c
  BY BarsMirror
<1>2. /\ H \in Int /\ L \in Int
      /\ RangeHigh(other) = Mirror - L /\ RangeLow(other) = Mirror - H
  <2>1. RangeSlots # {} /\ RangeSlots \subseteq DOMAIN day /\ RangeSlots \subseteq 0 .. n
    <3>1. 0 \in RangeSlots
      BY DayAssumption DEF RangeSlots
    <3> QED BY <3>1 DEF HasRange, Traded
  <2> QED BY <2>1, ExtremesMirror DEF RangeHigh, RangeLow
<1> HIDE DEF other, H, L
<1>3. \A t \in DOMAIN day : Breaks(other, t, "short") <=> Breaks(day, t, "long")
  BY <1>1, <1>2 DEF Breaks, H, L
<1>4. EntrySlots(other, "short") = EntrySlots(day, "long")
  BY <1>1, <1>3 DEF EntrySlots
<1>5. ASSUME NEW e \in DOMAIN day
      PROVE  LET short == Simulate(other, e, "short")
                 long == Simulate(day, e, "long")
             IN  /\ short.entry = long.entry /\ short.exit = long.exit
                 /\ short.pnl = long.pnl /\ short.risk = long.risk
  <2> DEFINE c == day[e].c
             stop == H + L
             target == 2 * c + 3 * (H - L)
  <2>1. c \in Int /\ other[e].c = Mirror - c
    BY <1>1
  <2>2. /\ TwiceStop(day) = stop /\ TwiceStop(other) = 2 * Mirror - stop
        /\ TwiceTarget(day, e, "long") = target
        /\ TwiceTarget(other, e, "short") = 2 * Mirror - target
        /\ stop \in Int /\ target \in Int
    BY <1>1, <1>2 DEF TwiceStop, TwiceTarget, H, L
  <2> HIDE DEF stop, target, c
  <2>3. \A t \in DOMAIN day :
           /\ Reaches(other[t], "short", 2 * Mirror - target) <=> Reaches(day[t], "long", target)
           /\ Stopped(other[t], "short", 2 * Mirror - stop) <=> Stopped(day[t], "long", stop)
    BY <1>1, <2>2 DEF Reaches, Stopped
  <2>4. ExitSlots(other, e, "short") = ExitSlots(day, e, "long")
    BY <1>1, <2>2, <2>3 DEF ExitSlots
  <2>5. ASSUME NEW x \in DOMAIN day
        PROVE  /\ TwiceExit(day, e, x, "long") \in Int
               /\ TwiceExit(other, e, x, "short") = 2 * Mirror - TwiceExit(day, e, x, "long")
    <3>1. TwiceExit(day, e, x, "long") =
             IF Reaches(day[x], "long", target) THEN target
             ELSE IF Stopped(day[x], "long", stop) THEN stop ELSE 2 * day[x].c
      BY <2>2 DEF TwiceExit
    <3>2. TwiceExit(other, e, x, "short") =
             IF Reaches(day[x], "long", target) THEN 2 * Mirror - target
             ELSE IF Stopped(day[x], "long", stop) THEN 2 * Mirror - stop
             ELSE 2 * (Mirror - day[x].c)
      BY <1>1, <2>2, <2>3 DEF TwiceExit
    <3> QED BY <1>1, <2>2, <3>1, <3>2
  <2>6. ASSUME NEW p \in Int
        PROVE  TwiceGain(other, e, 2 * Mirror - p, "short") = TwiceGain(day, e, p, "long")
    BY <1>1, <2>1 DEF TwiceGain, c
  <2>7. TwiceRisk(other, e) = TwiceRisk(day, e)
    <3>1. TwiceRisk(day, e) = IF 2 * c - stop < 0 THEN -(2 * c - stop) ELSE 2 * c - stop
      BY <2>2 DEF TwiceRisk, c
    <3> DEFINE gap == 2 * (Mirror - c) - (2 * Mirror - stop)
    <3>2. TwiceRisk(other, e) = IF gap < 0 THEN -gap ELSE gap
      BY <2>1, <2>2 DEF TwiceRisk
    <3>3. gap = -(2 * c - stop)
      BY <1>1, <2>1, <2>2
    <3> HIDE DEF gap
    <3> QED BY <2>1, <2>2, <3>1, <3>2, <3>3
  <2> DEFINE exits == ExitSlots(day, e, "long")
             x == Min(exits)
  <2>8. CASE exits = {}
    <3>1. 2 * other[e].c = 2 * Mirror - 2 * c /\ 2 * c \in Int
      BY <1>1, <2>1
    <3>2. TwiceGain(other, e, 2 * other[e].c, "short") = TwiceGain(day, e, 2 * day[e].c, "long")
      BY <2>6, <3>1 DEF c
    <3> QED BY <2>4, <2>7, <2>8, <3>2 DEF Simulate
  <2>9. CASE exits # {}
    <3>1. x \in DOMAIN day
      BY <2>9, ExitFacts
    <3>2. TwiceGain(other, e, TwiceExit(other, e, x, "short"), "short")
            = TwiceGain(day, e, TwiceExit(day, e, x, "long"), "long")
      <4> HIDE DEF x, exits
      <4> QED BY <2>5, <2>6, <3>1
    <3> QED BY <2>4, <2>7, <2>9, <3>2 DEF Simulate
  <2> QED BY <2>8, <2>9
<1> QED BY <1>4, <1>5 DEF other

LEMMA ResultsMirror ==
    ASSUME NEW n \in Nat, NEW day, SoundDay(day), DOMAIN day \subseteq 0 .. n,
           HasSetup(day), HasSetup(Mirrored(day))
    PROVE  Results(TradesForDay(day, "up")) = Results(TradesForDay(Mirrored(day), "down"))
<1> DEFINE other == Mirrored(day)
           E == EntrySlots(day, "long")
           e == Entry(day, "long")
           long == Simulate(day, e, "long")
           short == Simulate(other, e, "short")
<1>1. EntrySlots(other, "short") = E /\ Entry(other, "short") = e
  BY TradeMirrors DEF HasSetup, Entry
<1>2. CASE E = {}
  <2>1. TradesForDay(day, "up") = {} /\ TradesForDay(other, "down") = {}
    <3> HIDE DEF other
    <3> QED BY <1>1, <1>2 DEF TradesForDay, Directions
  <2> QED BY <2>1
<1>3. CASE E # {}
  <2>1. TradesForDay(day, "up") = {long}
    BY <1>3 DEF TradesForDay, Directions
  <2>2. TradesForDay(other, "down") = {short}
    <3> HIDE DEF other, e
    <3>1. Directions("down") = {"short"}
      BY DEF Directions
    <3>2. HasSetup(other)
      BY DEF other
    <3> QED BY <1>1, <1>3, <3>1, <3>2 DEF TradesForDay
  <2>3. e \in DOMAIN day
    BY <1>3, EntryFacts DEF Sides
  <2>4. /\ short.entry = long.entry /\ short.exit = long.exit
        /\ short.pnl = long.pnl /\ short.risk = long.risk
    <3> HIDE DEF e
    <3> QED BY <2>3, TradeMirrors DEF HasSetup
  <2> HIDE DEF long, short
  <2>5. Results({long}) = Results({short})
    BY <2>4 DEF Results
  <2> QED BY <2>1, <2>2, <2>5
<1> QED BY <1>2, <1>3

\* On every day, a short is a long upside down.
THEOREM ShortsMirrorLongs == Spec => []PlaybookMirrors
<1>1. Init => DayOK /\ Watch
  BY WatchInit
<1>2. DayOK /\ Watch => PlaybookMirrors
  <2> SUFFICES ASSUME DayOK, Watch PROVE PlaybookMirrors
    OBVIOUS
  <2>1. /\ now \in Nat /\ SoundDay(Closed)
        /\ Closed = [t \in DOMAIN Closed |-> Closed[t]]
        /\ DOMAIN Closed \subseteq 0 .. now - 1 /\ DOMAIN Closed \subseteq 0 .. now
    BY ClosedFacts DEF DayOK, Closed, ClosedBars, Restrict
  <2> QED BY <2>1, RegimeMirrors, ResultsMirror DEF PlaybookMirrors
<1> QED BY <1>1, <1>2, DayStep, WatchStep, PTL DEF Spec
=============================================================================
