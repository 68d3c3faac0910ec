-------------------------- MODULE RiskReviewProofs --------------------------
(* What the sixteen checks stop and let through, for every configuration,  *)
(* proposal and risk state.                                                *)
EXTENDS RiskReview, FiniteSetTheorems, WellFoundedInduction, TLAPS

-----------------------------------------------------------------------------
(* RiskState.total_exposure.  The sum takes the names one by one, in an    *)
(* order fixed by CHOOSE; what is proved of it is proved along that order. *)

First(T) == CHOOSE x \in T : TRUE

\* g adds the magnitudes of v up over every set of D, one name at a time.
Tally(v, g, D) ==
    g = [T \in D |-> IF T = {} THEN 0
                     ELSE Magnitude(v[First(T)]) + g[T \ {First(T)}]]

UpTo(n) == {T \in SUBSET Symbols : Cardinality(T) <= n}

LEMMA SmallestNat ==
    ASSUME NEW S, S \subseteq Nat, S # {}
    PROVE  \E x \in S : \A y \in S : x <= y
<1>1. PICK x \in S : \A y \in S : <<y, x>> \notin OpToRel(<, Nat)
  BY NatLessThanWellFounded, WFMin
<1>2. \A y \in S : ~(y < x)
  BY <1>1 DEF OpToRel
<1> QED BY <1>2

\* Without its first name a set is one smaller.
LEMMA Shorter ==
    ASSUME NEW T \in SUBSET Symbols, T # {}
    PROVE  /\ First(T) \in T
           /\ T \ {First(T)} \in SUBSET Symbols
           /\ IsFiniteSet(T)
           /\ Cardinality(T) \in Nat /\ Cardinality(T) > 0
           /\ Cardinality(T \ {First(T)}) = Cardinality(T) - 1
<1>1. First(T) \in T
  BY DEF First
<1>2. IsFiniteSet(T)
  BY FS_Subset, ConfigAssumption
<1>3. Cardinality(T) \in Nat /\ Cardinality(T) # 0
  BY <1>2, FS_CardinalityType, FS_EmptySet
<1>4. Cardinality(T \ {First(T)}) = Cardinality(T) - 1
  BY <1>1, <1>2, FS_RemoveElement
<1> QED BY <1>1, <1>2, <1>3, <1>4

\* The tally of the small sets extends to those one larger.
LEMMA TallyGrows ==
    ASSUME NEW v, NEW n \in Nat, \E g : Tally(v, g, UpTo(n))
    PROVE  \E g : Tally(v, g, UpTo(n + 1))
<1>1. PICK g : Tally(v, g, UpTo(n))
  OBVIOUS
<1> DEFINE F(h, T) == IF T = {} THEN 0 ELSE Magnitude(v[First(T)]) + h[T \ {First(T)}]
           h == [T \in UpTo(n + 1) |-> F(g, T)]
<1>2. \A T \in UpTo(n) : g[T] = F(g, T)
  BY <1>1 DEF Tally
<1>3. \A T \in UpTo(n) : T \in UpTo(n + 1)
  <2>1. \A T \in SUBSET Symbols : Cardinality(T) \in Nat
    BY FS_Subset, FS_CardinalityType, ConfigAssumption
  <2> QED BY <2>1 DEF UpTo
<1>4. \A T \in UpTo(n) : h[T] = g[T]
  BY <1>2, <1>3
<1>5. \A T \in UpTo(n + 1) : T # {} => T \ {First(T)} \in UpTo(n)
  BY Shorter DEF UpTo
<1>6. \A T \in UpTo(n + 1) : F(g, T) = F(h, T)
  BY <1>4, <1>5
<1>7. h = [T \in UpTo(n + 1) |-> F(h, T)]
  BY <1>6
<1>8. Tally(v, h, UpTo(n + 1))
  BY <1>7 DEF Tally
<1> QED BY <1>8

LEMMA TallyExists ==
    ASSUME NEW v
    PROVE  \E g : Tally(v, g, SUBSET Symbols)
<1> DEFINE Bad == {n \in Nat : ~\E g : Tally(v, g, UpTo(n))}
<1>1. Bad = {}
  <2> SUFFICES ASSUME Bad # {} PROVE FALSE
    OBVIOUS
  <2>1. PICK n \in Bad : \A m \in Bad : n <= m
    <3>1. Bad \subseteq Nat
      OBVIOUS
    <3> HIDE DEF Bad
    <3> QED BY <3>1, SmallestNat
  <2>2. CASE n = 0
    <3>1. ASSUME NEW T \in UpTo(0) PROVE T = {}
      <4>1. T \in SUBSET Symbols /\ Cardinality(T) <= 0
        BY DEF UpTo
      <4>2. CASE T # {}
        <5>1. Cardinality(T) \in Nat /\ Cardinality(T) > 0
          BY <4>1, <4>2, Shorter
        <5> QED BY <4>1, <5>1
      <4> QED BY <4>2
    <3> DEFINE g == [T \in UpTo(0) |-> 0]
    <3>2. Tally(v, g, UpTo(0))
      BY <3>1 DEF Tally
    <3> QED BY <2>2, <3>2
  <2>3. CASE n # 0
    <3>1. n - 1 \in Nat /\ (n - 1) + 1 = n /\ ~(n <= n - 1)
      BY <2>3
    <3>2. \E g : Tally(v, g, UpTo(n - 1))
      BY <2>1, <3>1
    <3>3. \E g : Tally(v, g, UpTo((n - 1) + 1))
      <4> HIDE DEF Bad
      <4> QED BY <3>1, <3>2, TallyGrows
    <3> QED BY <3>1, <3>3
  <2> QED BY <2>2, <2>3
<1>2. Cardinality(Symbols) \in Nat
  BY FS_CardinalityType, ConfigAssumption
<1>3. UpTo(Cardinality(Symbols)) = SUBSET Symbols
  BY FS_Subset, ConfigAssumption DEF UpTo
<1>4. \E g : Tally(v, g, UpTo(Cardinality(Symbols)))
  BY <1>1, <1>2
<1> QED BY <1>3, <1>4

\* total_exposure is a tally of all the names.
LEMMA ExposureIsTally ==
    ASSUME NEW s
    PROVE  \E g : Tally(s.value, g, SUBSET Symbols) /\ TotalExposure(s) = g[Symbols]
<1>1. PICK g : Tally(s.value, g, SUBSET Symbols)
  BY TallyExists
<1>2. g = [T \in SUBSET Symbols |->
             IF T = {} THEN 0
             ELSE LET x == CHOOSE x \in T : TRUE
                  IN  Magnitude(s.value[x]) + g[T \ {x}]]
  BY <1>1 DEF Tally, First
<1>3. PICK h :
        /\ h = [T \in SUBSET Symbols |->
                  IF T = {} THEN 0
                  ELSE LET x == CHOOSE x \in T : TRUE
                       IN  Magnitude(s.value[x]) + h[T \ {x}]]
        /\ TotalExposure(s) = h[Symbols]
  BY <1>2 DEF TotalExposure, MapThenSumSet, MapThenFoldSet
<1>4. Tally(s.value, h, SUBSET Symbols)
  BY <1>3 DEF Tally, First
<1> QED BY <1>3, <1>4

\* Where a property of a set of names passes from every set without its first
\* name to the set, all sets have it.  Bad is the sets without it.
LEMMA ByFirstName ==
    ASSUME NEW Bad, Bad \subseteq SUBSET Symbols, {} \notin Bad,
           \A T \in Bad : T \ {First(T)} \in Bad
    PROVE  Bad = {}
<1> SUFFICES ASSUME Bad # {} PROVE FALSE
  OBVIOUS
<1> DEFINE Sizes == {Cardinality(T) : T \in Bad}
<1>1. Sizes \subseteq Nat /\ Sizes # {}
  <2>1. \A T \in Bad : T # {} /\ T \in SUBSET Symbols
    OBVIOUS
  <2>2. \A T \in Bad : Cardinality(T) \in Nat
    BY <2>1, Shorter
  <2> QED BY <2>2
<1>2. PICK n \in Sizes : \A m \in Sizes : n <= m
  <2> HIDE DEF Sizes
  <2> QED BY <1>1, SmallestNat
<1>3. PICK T \in Bad : n = Cardinality(T)
  BY <1>2
<1>4. T # {} /\ T \ {First(T)} \in Bad
  BY <1>3
<1>5. Cardinality(T \ {First(T)}) = n - 1 /\ n \in Nat
  BY <1>3, <1>4, Shorter
<1> QED BY <1>2, <1>4, <1>5

LEMMA TallyNat ==
    ASSUME NEW v \in [Symbols -> Int], NEW g, Tally(v, g, SUBSET Symbols)
    PROVE  \A T \in SUBSET Symbols : g[T] \in Nat
<1>0. /\ g[{}] = 0
      /\ \A T \in SUBSET Symbols : T # {} => g[T] = Magnitude(v[First(T)]) + g[T \ {First(T)}]
  BY DEF Tally
<1> DEFINE Bad == {T \in SUBSET Symbols : g[T] \notin Nat}
<1>1. {} \notin Bad
  BY <1>0
<1>2. \A T \in Bad : T \ {First(T)} \in Bad
  <2> SUFFICES ASSUME NEW T \in Bad, g[T \ {First(T)}] \in Nat PROVE g[T] \in Nat
    BY <1>1, Shorter
  <2>1. First(T) \in Symbols /\ g[T] = Magnitude(v[First(T)]) + g[T \ {First(T)}]
    <3>1. T \in SUBSET Symbols /\ T # {}
      BY <1>1
    <3> QED BY <1>0, <3>1, Shorter
  <2>2. Magnitude(v[First(T)]) \in Nat
    BY <2>1 DEF Magnitude
  <2> QED BY <2>1, <2>2
<1>3. Bad = {}
  <2>1. Bad \subseteq SUBSET Symbols /\ {} \notin Bad
    BY <1>1
  <2> HIDE DEF Bad
  <2> QED BY <1>2, <2>1, ByFirstName
<1> QED BY <1>3

LEMMA TallyFlat ==
    ASSUME NEW v, \A z \in Symbols : v[z] = 0, NEW g, Tally(v, g, SUBSET Symbols)
    PROVE  \A T \in SUBSET Symbols : g[T] = 0
<1>0. /\ g[{}] = 0
      /\ \A T \in SUBSET Symbols : T # {} => g[T] = Magnitude(v[First(T)]) + g[T \ {First(T)}]
  BY DEF Tally
<1> DEFINE Bad == {T \in SUBSET Symbols : g[T] # 0}
<1>1. {} \notin Bad
  BY <1>0
<1>2. \A T \in Bad : T \ {First(T)} \in Bad
  <2> SUFFICES ASSUME NEW T \in Bad, g[T \ {First(T)}] = 0 PROVE g[T] = 0
    BY <1>1, Shorter
  <2>1. First(T) \in Symbols /\ g[T] = Magnitude(v[First(T)]) + g[T \ {First(T)}]
    <3>1. T \in SUBSET Symbols /\ T # {}
      BY <1>1
    <3> QED BY <1>0, <3>1, Shorter
  <2>2. Magnitude(v[First(T)]) = 0
    BY <2>1 DEF Magnitude
  <2> QED BY <2>1, <2>2
<1>3. Bad = {}
  <2>1. Bad \subseteq SUBSET Symbols /\ {} \notin Bad
    BY <1>1
  <2> HIDE DEF Bad
  <2> QED BY <1>2, <2>1, ByFirstName
<1> QED BY <1>3

\* The exposure is a number of at least 0, ...
LEMMA ExposureNat ==
    ASSUME NEW s, s.value \in [Symbols -> Int]
    PROVE  TotalExposure(s) \in Nat
BY ExposureIsTally, TallyNat

\* ... 0 where nothing is held, ...
LEMMA ExposureFlat ==
    ASSUME NEW s, \A z \in Symbols : s.value[z] = 0
    PROVE  TotalExposure(s) = 0
<1> DEFINE v == s.value
<1>1. PICK g : Tally(v, g, SUBSET Symbols) /\ TotalExposure(s) = g[Symbols]
  BY ExposureIsTally
<1>2. \A z \in Symbols : v[z] = 0
  OBVIOUS
<1> HIDE DEF v
<1> QED BY <1>1, <1>2, TallyFlat

\* ... and moves with one name by as much as that name's.
LEMMA ExposureMoves ==
    ASSUME NEW s, s.value \in [Symbols -> Int], NEW t, t.value \in [Symbols -> Int],
           NEW y \in Symbols, \A z \in Symbols : z # y => t.value[z] = s.value[z]
    PROVE  TotalExposure(t) = TotalExposure(s) - Magnitude(s.value[y]) + Magnitude(t.value[y])
<1> DEFINE v == s.value
           w == t.value
           m == w[y]
<1>1. PICK g : Tally(v, g, SUBSET Symbols) /\ TotalExposure(s) = g[Symbols]
  BY ExposureIsTally
<1>2. PICK h : Tally(w, h, SUBSET Symbols) /\ TotalExposure(t) = h[Symbols]
  BY ExposureIsTally
<1>3. /\ v \in [Symbols -> Int] /\ w \in [Symbols -> Int] /\ m \in Int /\ w[y] = m
      /\ \A z \in Symbols : z # y => w[z] = v[z]
  OBVIOUS
<1> HIDE DEF v, w, m
<1> DEFINE d(T) == IF y \in T THEN Magnitude(m) - Magnitude(v[y]) ELSE 0
           Bad == {T \in SUBSET Symbols : h[T] # g[T] + d(T)}
<1>4. /\ g[{}] = 0
      /\ \A T \in SUBSET Symbols : T # {} => g[T] = Magnitude(v[First(T)]) + g[T \ {First(T)}]
  BY <1>1 DEF Tally
<1>5. /\ h[{}] = 0
      /\ \A T \in SUBSET Symbols : T # {} => h[T] = Magnitude(w[First(T)]) + h[T \ {First(T)}]
  BY <1>2 DEF Tally
<1>6. \A T \in SUBSET Symbols : g[T] \in Nat /\ h[T] \in Nat
  BY <1>1, <1>2, <1>3, TallyNat
<1>7. {} \notin Bad
  BY <1>4, <1>5
<1>8. \A T \in Bad : T \ {First(T)} \in Bad
  <2> SUFFICES ASSUME NEW T \in Bad, h[T \ {First(T)}] = g[T \ {First(T)}] + d(T \ {First(T)})
               PROVE  h[T] = g[T] + d(T)
    BY <1>7, Shorter
  <2> DEFINE x == First(T)
             U == T \ {x}
  <2>1. x \in T /\ x \in Symbols /\ U \in SUBSET Symbols
    BY <1>7, Shorter
  <2>2. g[T] = Magnitude(v[x]) + g[U] /\ h[T] = Magnitude(w[x]) + h[U]
    BY <1>4, <1>5, <1>7
  <2>3. /\ Magnitude(v[x]) \in Int /\ Magnitude(w[x]) \in Int
        /\ Magnitude(v[y]) \in Int /\ Magnitude(m) \in Int
        /\ g[U] \in Int /\ h[U] \in Int
    BY <1>3, <1>6, <2>1 DEF Magnitude
  <2>4. CASE x = y
    <3>1. d(T) = Magnitude(m) - Magnitude(v[y]) /\ d(U) = 0
      BY <2>1, <2>4
    <3>2. h[U] = g[U]
      BY <2>3, <3>1
    <3>3. Magnitude(w[x]) = Magnitude(m)
      BY <1>3, <2>4
    <3> QED BY <2>2, <2>3, <2>4, <3>1, <3>2, <3>3
  <2>5. CASE x # y
    <3>1. d(T) = d(U) /\ d(U) \in Int
      BY <2>1, <2>3, <2>5
    <3>2. Magnitude(v[x]) = Magnitude(w[x])
      BY <1>3, <2>1, <2>5
    <3> HIDE DEF d
    <3> QED BY <2>2, <2>3, <3>1, <3>2
  <2> QED BY <2>4, <2>5
<1>9. Bad = {}
  <2>1. Bad \subseteq SUBSET Symbols /\ {} \notin Bad
    BY <1>7
  <2> HIDE DEF Bad
  <2> QED BY <1>8, <2>1, ByFirstName
<1>10. h[Symbols] = g[Symbols] + (Magnitude(m) - Magnitude(v[y]))
  BY <1>9
<1>11. g[Symbols] \in Int /\ Magnitude(m) \in Int /\ Magnitude(v[y]) \in Int
  BY <1>3, <1>6 DEF Magnitude
<1> QED BY <1>1, <1>2, <1>10, <1>11 DEF v, w, m

-----------------------------------------------------------------------------
(* The theorems.                                                           *)

\* The verdict on file is the one engine.evaluate makes.
VerdictOnFile ==
    /\ proposal \in Proposal
    /\ state \in RiskState
    /\ failures = IF reviewed THEN Evaluate(proposal, state) ELSE {}

LEMMA VerdictStays == Spec => []VerdictOnFile
<1>1. Init => VerdictOnFile
  BY ReviewAssumption DEF Init, VerdictOnFile
<1>2. VerdictOnFile /\ [Next]_vars => VerdictOnFile'
  BY DEF VerdictOnFile, Next, Review, vars
<1> QED BY <1>1, <1>2, PTL DEF Spec

\* A check is among the failures exactly when it fails.
LEMMA FailuresByName ==
    ASSUME NEW p, NEW s, NEW c \in CheckNames
    PROVE  c \in Evaluate(p, s) <=> Fails(p, s)[c]
BY DEF Evaluate

\* NaN is stopped by proposal_sanity or by protective_exits.
LEMMA NaNFails ==
    ASSUME NEW p \in Proposal, NEW s \in RiskState, Evaluate(p, s) = {}
    PROVE  NaN \notin {p.qty, p.price, p.stop, p.target}
<1>1. ~Fails(p, s)["proposal_sanity"] /\ ~Fails(p, s)["protective_exits"]
  BY FailuresByName DEF CheckNames
<1>2. ~ProposalSanity(p, s) /\ ~ProtectiveExits(p, s)
  BY <1>1 DEF Fails
<1>3. p.qty # NaN /\ p.price # NaN
  BY <1>2 DEF ProposalSanity, Priced
<1>4. ~BadPrice(p.stop) /\ ~BadPrice(p.target)
  BY <1>2 DEF ProtectiveExits
<1>5. p.stop # NaN /\ p.target # NaN
  BY <1>4, SentinelAssumption DEF BadPrice
<1> QED BY <1>3, <1>5

(* No proposal with a number that is not one is approved.                  *)
THEOREM NaNIsRejected == Spec => []NaNNeverPasses
<1>1. VerdictOnFile => NaNNeverPasses
  BY NaNFails DEF VerdictOnFile, NaNNeverPasses, Passed
<1> QED BY <1>1, VerdictStays, PTL

\* The checks on a proposal that takes the whole position off.
LEMMA FlattenPasses ==
    ASSUME NEW p \in Proposal, NEW s \in RiskState, Flattens(p, s)
    PROVE  /\ ~ProposalSanity(p, s)
           /\ ~NoUnintendedShort(p, s)
           /\ ~NoPyramid(p, s)
           /\ ~NoSameDayReentry(p, s)
           /\ ~OneNameBudget(p, s)
           /\ ~MaxPositionNotionalExceeded(p, s)
           /\ ~ProtectiveExits(p, s)
           /\ ~StopLossBudget(p, s)
           /\ ResultingNotional(p, s) = 0
<1>1. /\ p.qty \in Int /\ p.price \in Int /\ p.qty > 0 /\ p.price > 0
      /\ p.action \in {"buy", "sell"}
      /\ p.qty # NaN /\ p.price # NaN
      /\ p.stop = None /\ p.target = None
  BY DEF Flattens, Priced, Proposal
<1>2. s.qty[p.symbol] \in Int
  BY DEF Proposal, RiskState
<1>3. s.qty[p.symbol] + SignedQty(p) = 0
  BY DEF Flattens, Resulting
<1>4. s.qty[p.symbol] # 0
  BY <1>1, <1>2, <1>3 DEF SignedQty
<1>5. Magnitude(Resulting(p, s)) = 0
  BY <1>3 DEF Resulting, Magnitude
<1>6. ResultingNotional(p, s) = 0
  BY <1>1, <1>5 DEF ResultingNotional
<1>7. ~ProposalSanity(p, s)
  BY <1>1 DEF ProposalSanity, Priced
<1>8. ~NoUnintendedShort(p, s)
  BY <1>3 DEF NoUnintendedShort, Resulting
<1>9. ~NoPyramid(p, s)
  <2>1. Magnitude(s.qty[p.symbol]) > 0
    BY <1>2, <1>4 DEF Magnitude
  <2>2. ~(0 > Magnitude(s.qty[p.symbol]))
    BY <1>2, <2>1 DEF Magnitude
  <2> QED BY <1>5, <2>2 DEF NoPyramid, IncreasesExistingPosition
<1>10. ~NoSameDayReentry(p, s) /\ ~OneNameBudget(p, s)
  BY <1>4 DEF NoSameDayReentry, OneNameBudget
<1>11. ~MaxPositionNotionalExceeded(p, s)
  BY <1>6, ConfigAssumption DEF MaxPositionNotionalExceeded
<1>12. ~ProtectiveExits(p, s) /\ ~StopLossBudget(p, s)
  BY <1>1 DEF ProtectiveExits, StopLossBudget, BadPrice
<1> QED BY <1>6, <1>7, <1>8, <1>9, <1>10, <1>11, <1>12

(* A flatten is stopped only by what stops all trading, or by the other    *)
(* names' exposure.                                                        *)
THEOREM FlattenIsNeverSizedOut == Spec => []FlattenNeverSizedOut
<1>1. ASSUME NEW p \in Proposal, NEW s \in RiskState, Flattens(p, s)
      PROVE  /\ Evaluate(p, s) \subseteq Halts \cup {"max_total_exposure"}
             /\ "max_total_exposure" \in Evaluate(p, s) =>
                  TotalExposure(s) - Magnitude(s.value[p.symbol]) > MaxTotalExposure
  <2>1. /\ ~Fails(p, s)["proposal_sanity"]
        /\ ~Fails(p, s)["no_unintended_short"]
        /\ ~Fails(p, s)["no_pyramid"]
        /\ ~Fails(p, s)["no_same_day_reentry"]
        /\ ~Fails(p, s)["one_name_budget"]
        /\ ~Fails(p, s)["max_position_notional"]
        /\ ~Fails(p, s)["protective_exits"]
        /\ ~Fails(p, s)["stop_loss_budget"]
    BY <1>1, FlattenPasses DEF Fails
  <2>2. Evaluate(p, s) \subseteq Halts \cup {"max_total_exposure"}
    BY <2>1, FailuresByName DEF Evaluate, CheckNames, Halts
  <2>3. "max_total_exposure" \in Evaluate(p, s) => MaxTotalExposureExceeded(p, s)
    BY FailuresByName DEF CheckNames, Fails
  <2>4. ResultingNotional(p, s) = 0
    BY <1>1, FlattenPasses
  <2>5. TotalExposure(s) \in Int /\ Magnitude(s.value[p.symbol]) \in Int
    BY ExposureNat DEF Magnitude, RiskState, Proposal
  <2> QED BY <2>2, <2>3, <2>4, <2>5 DEF MaxTotalExposureExceeded
<1>2. VerdictOnFile => FlattenNeverSizedOut
  <2> SUFFICES ASSUME VerdictOnFile, reviewed, Flattens(proposal, state)
               PROVE  FlattenNeverSizedOut
    BY DEF FlattenNeverSizedOut
  <2> QED BY <1>1 DEF VerdictOnFile, FlattenNeverSizedOut
<1> QED BY <1>2, VerdictStays, PTL

\* A product grows with its first factor.
LEMMA Monotone ==
    ASSUME NEW a \in Int, NEW b \in Int, NEW c \in Int, a <= b, c >= 0
    PROVE  a * c <= b * c
<1>1. \A m, n \in Int : m >= 0 /\ n >= 0 => m * n >= 0
  BY SMT
<1>2. (b - a) * c >= 0
  BY <1>1
<1>3. (b - a) * c = b * c - a * c
  BY SMT
<1>4. a * c \in Int /\ b * c \in Int
  BY SMT
<1> QED BY <1>2, <1>3, <1>4

\* What an opening order of a smaller size costs and leaves.
LEMMA SmallerCosts ==
    ASSUME NEW p \in Proposal, NEW s \in RiskState, s.qty[p.symbol] = 0,
           p.action \in {"buy", "sell"}, p.qty \in Int, p.price \in Int, p.price > 0,
           NEW q \in 1 .. p.qty,
           NEW r \in Proposal, r = [p EXCEPT !.qty = q]
    PROVE  /\ Notional(r) \in Int /\ Notional(p) \in Int /\ Notional(r) <= Notional(p)
           /\ ResultingNotional(r, s) = Notional(r) /\ ResultingNotional(p, s) = Notional(p)
<1> DEFINE price == p.price
           n == p.qty
<1>1. n \in Int /\ q \in Int /\ 0 < q /\ q <= n /\ price \in Int /\ price > 0
  OBVIOUS
<1>2. r.qty = q /\ r.price = price /\ r.action = p.action /\ r.symbol = p.symbol
  BY DEF Proposal
<1>3. q * price <= n * price /\ q * price \in Int /\ n * price \in Int
  <2> HIDE DEF price, n
  <2>1. q * price <= n * price
    BY <1>1, Monotone
  <2> QED BY <1>1, <2>1
<1>4. Notional(r) = q * price /\ Notional(p) = n * price
  BY <1>1, <1>2 DEF Notional, Magnitude
<1>5. Magnitude(Resulting(r, s)) = q
  BY <1>1, <1>2 DEF Resulting, SignedQty, Magnitude
<1>6. Magnitude(Resulting(p, s)) = n
  BY <1>1 DEF Resulting, SignedQty, Magnitude
<1> QED BY <1>2, <1>3, <1>4, <1>5, <1>6 DEF ResultingNotional

\* The stop of a smaller order risks less.
LEMMA SmallerRisks ==
    ASSUME NEW p \in Proposal, NEW s \in RiskState, p.qty \in Int, p.price \in Int,
           NEW q \in 1 .. p.qty, NEW r \in Proposal, r = [p EXCEPT !.qty = q],
           ~StopLossBudget(p, s), Priced(p)
    PROVE  ~StopLossBudget(r, s)
<1>1. r.qty = q /\ r.price = p.price /\ r.stop = p.stop
  BY DEF Proposal
<1>2. CASE p.stop \in {None, NaN} \/ s.pl = Unknown
  BY <1>1, <1>2 DEF StopLossBudget
<1>3. CASE p.stop \notin {None, NaN} /\ s.pl # Unknown
  <2> DEFINE gap == Magnitude(p.price - p.stop)
             n == p.qty
  <2>1. p.stop \in Int /\ s.pl \in Int
    BY <1>3 DEF Proposal, RiskState
  <2>2. gap \in Int /\ gap >= 0 /\ n \in Int /\ q \in Int /\ q <= n
    BY <2>1 DEF Magnitude
  <2>3. RemainingBudget(s) \in Int
    BY <2>1, ConfigAssumption DEF RemainingBudget
  <2>4. ~(RemainingBudget(s) <= 0) /\ ~(gap * n > RemainingBudget(s))
    BY <1>3 DEF StopLossBudget
  <2>5. ~(gap * q > RemainingBudget(s))
    <3> HIDE DEF gap, n
    <3>1. q * gap <= n * gap
      BY <2>2, Monotone
    <3>2. q * gap = gap * q /\ n * gap = gap * n /\ gap * q \in Int /\ gap * n \in Int
      BY <2>2
    <3> QED BY <2>3, <2>4, <3>1, <3>2
  <2> QED BY <1>1, <2>4, <2>5 DEF StopLossBudget
<1> QED BY <1>2, <1>3

\* An opening order that is approved may be made smaller.
LEMMA SmallerApproved ==
    ASSUME NEW p \in Proposal, NEW s \in RiskState,
           Evaluate(p, s) = {}, s.qty[p.symbol] = 0, NEW q \in 1 .. p.qty
    PROVE  Approved([p EXCEPT !.qty = q], s)
<1> DEFINE r == [p EXCEPT !.qty = q]
<1>1. \A c \in CheckNames : ~Fails(p, s)[c]
  BY FailuresByName
<1>2. /\ ~KillSwitch(p, s) /\ ~ProposalSanity(p, s) /\ ~SymbolAllowlist(p, s)
      /\ ~RegularTradingHoursOnly(p, s) /\ ~NoUnintendedShort(p, s)
      /\ ~NoSameDayReentry(p, s) /\ ~OneNameBudget(p, s)
      /\ ~MaxPositionNotionalExceeded(p, s) /\ ~MaxTotalExposureExceeded(p, s)
      /\ ~MaxDailyLossReached(p, s) /\ ~OrdersPerHourReached(p, s)
      /\ ~OrdersPerDayReached(p, s) /\ ~OrdersPerCycleReached(p, s)
      /\ ~ProtectiveExits(p, s) /\ ~StopLossBudget(p, s)
  BY <1>1 DEF CheckNames, Fails
<1>3. /\ p.action \in {"buy", "sell"} /\ Priced(p) /\ p.qty \in Int /\ p.qty > 0
      /\ p.price \in Int /\ p.price > 0
  BY <1>2 DEF ProposalSanity, Priced, Proposal
<1>4. /\ r \in Proposal /\ r.action = p.action /\ r.symbol = p.symbol /\ r.qty = q
      /\ r.price = p.price /\ r.stop = p.stop /\ r.target = p.target
      /\ q \in Int /\ q > 0 /\ q <= p.qty
  BY <1>3 DEF Proposal
<1> HIDE DEF r
<1>5. Priced(r)
  BY <1>3, <1>4, SentinelAssumption DEF Priced
<1>6. ~ProposalSanity(r, s)
  BY <1>3, <1>4, <1>5 DEF ProposalSanity
<1>7. /\ ~KillSwitch(r, s) /\ ~SymbolAllowlist(r, s) /\ ~RegularTradingHoursOnly(r, s)
      /\ ~NoSameDayReentry(r, s) /\ ~MaxDailyLossReached(r, s)
      /\ ~OrdersPerHourReached(r, s) /\ ~OrdersPerDayReached(r, s)
      /\ ~OrdersPerCycleReached(r, s)
  BY <1>2, <1>4 DEF KillSwitch, SymbolAllowlist, RegularTradingHoursOnly, NoSameDayReentry,
     MaxDailyLossReached, OrdersPerHourReached, OrdersPerDayReached, OrdersPerCycleReached
<1>8. ~NoUnintendedShort(r, s)
  BY <1>2, <1>3, <1>4 DEF NoUnintendedShort, Resulting, SignedQty, Priced
<1>9. ~NoPyramid(r, s)
  BY <1>4 DEF NoPyramid, IncreasesExistingPosition
<1>10. /\ Notional(r) \in Int /\ Notional(p) \in Int /\ Notional(r) <= Notional(p)
       /\ ResultingNotional(r, s) = Notional(r) /\ ResultingNotional(p, s) = Notional(p)
  BY <1>3, <1>4, SmallerCosts DEF r
<1>11. ~OneNameBudget(r, s)
  <2>1. TotalExposure(s) \in Int
    BY ExposureNat DEF RiskState
  <2> QED BY <1>2, <1>4, <1>5, <1>10, <2>1, ConfigAssumption DEF OneNameBudget
<1>12. ~MaxPositionNotionalExceeded(r, s)
  BY <1>2, <1>3, <1>10, ConfigAssumption DEF MaxPositionNotionalExceeded
<1>13. ~MaxTotalExposureExceeded(r, s)
  <2>1. TotalExposure(s) \in Int /\ Magnitude(s.value[p.symbol]) \in Int
    BY ExposureNat DEF Magnitude, RiskState, Proposal
  <2> QED BY <1>2, <1>3, <1>4, <1>10, <2>1, ConfigAssumption DEF MaxTotalExposureExceeded
<1>14. ~ProtectiveExits(r, s)
  BY <1>2, <1>4 DEF ProtectiveExits
<1>15. ~StopLossBudget(r, s)
  BY <1>2, <1>3, <1>4, SmallerRisks DEF r
<1>16. \A c \in CheckNames : ~Fails(r, s)[c]
  BY <1>6, <1>7, <1>8, <1>9, <1>11, <1>12, <1>13, <1>14, <1>15 DEF CheckNames, Fails
<1>17. Evaluate(r, s) = {}
  BY <1>16, FailuresByName DEF Evaluate
<1> QED BY <1>17 DEF Approved, r

(* Sizing an approved opening order down never gets it rejected.           *)
THEOREM SmallerOpeningsPass == Spec => []SmallerOpeningPasses
<1>1. VerdictOnFile => SmallerOpeningPasses
  <2> SUFFICES ASSUME VerdictOnFile, Passed, state.qty[proposal.symbol] = 0,
                      NEW q \in 1 .. proposal.qty
               PROVE  Approved([proposal EXCEPT !.qty = q], state)
    BY DEF SmallerOpeningPasses
  <2>1. proposal \in Proposal /\ state \in RiskState /\ Evaluate(proposal, state) = {}
    BY DEF VerdictOnFile, Passed
  <2> QED BY <2>1, SmallerApproved
<1> QED BY <1>1, VerdictStays, PTL
=============================================================================
