---------------------------- MODULE CycleAdvice_proofs ----------------------------
(***************************************************************************)
(* Proofs about CycleAdvice: the ladders of the engines are monotone, for  *)
(* every fail, event, day and quote, and what a cycle publishes keeps the  *)
(* thresholds of the engines and of the alerts in step.                    *)
(***************************************************************************)
EXTENDS CycleAdvice, TLAPS

-----------------------------------------------------------------------------
(* Arithmetic *)

LEMMA CappedMonotone ==
    ASSUME NEW x \in Int, NEW y \in Int, NEW cap \in Int, x <= y
    PROVE  /\ Capped(x, cap) \in Int
           /\ Capped(x, cap) <= Capped(y, cap)
  BY DEF Capped

LEMMA ProductMonotone ==
    ASSUME NEW a \in Nat, NEW b \in Nat, NEW c \in Nat, NEW d \in Nat, a <= b, c <= d
    PROVE  a * c \in Nat /\ b * d \in Nat /\ a * c <= b * d
<1>1. a * c <= b * c
  BY SMT
<1>2. b * c <= b * d
  BY SMT
<1>3. a * c \in Nat /\ b * c \in Nat /\ b * d \in Nat
  BY SMT
<1>4. QED
  BY <1>1, <1>2, <1>3

-----------------------------------------------------------------------------
(* The ladder of the corporate actions *)

LEMMA WeightRange ==
    ASSUME NEW type \in EventType, NEW i \in 1..5
    PROVE  ImpactWeights[type][i] \in 0..100
  BY DEF EventType, ImpactWeights

LEMMA KeyDateType ==
    ASSUME NEW e \in Event
    PROVE  KeyDate(e) \in Date
  BY DEF Event, KeyDate, Date

LEMMA DaysToType ==
    ASSUME NEW e \in Event, NEW t \in Int
    PROVE  DaysTo(e, t) \in Date
  BY KeyDateType DEF DaysTo, Date

LEMMA MultiplierRange ==
    ASSUME NEW days \in Date
    PROVE  ProximityMultiplier(days) \in 6..30
  BY NoneAssumption DEF ProximityMultiplier, Date

\* The nearer, the larger, down to the day itself.
LEMMA MultiplierMonotone ==
    ASSUME NEW far \in Nat, NEW near \in Nat, near <= far
    PROVE  ProximityMultiplier(far) <= ProximityMultiplier(near)
  BY NoneAssumption DEF ProximityMultiplier

LEMMA ScoreDef ==
    ASSUME NEW type \in EventType, NEW days \in Date, NEW i \in 1..5
    PROVE  RiskScores(type, days)[i] = Capped(ImpactWeights[type][i] * ProximityMultiplier(days), 2000)
  BY DEF RiskScores

LEMMA ScoreType ==
    ASSUME NEW type \in EventType, NEW days \in Date, NEW i \in 1..5
    PROVE  RiskScores(type, days)[i] \in Int
<1> DEFINE x == ImpactWeights[type][i] * ProximityMultiplier(days)
<1>1. ImpactWeights[type][i] \in Nat /\ ProximityMultiplier(days) \in Nat
  BY WeightRange, MultiplierRange
<1>2. x \in Int
  BY <1>1, ProductMonotone
<1>3. Capped(x, 2000) \in Int
  <2> HIDE DEF x
  <2>1. QED
    BY <1>2 DEF Capped
<1>4. RiskScores(type, days)[i] = Capped(x, 2000)
  BY ScoreDef
<1>5. QED
  <2> HIDE DEF x
  <2>1. QED
    BY <1>3, <1>4, SMT

LEMMA ScoreMonotone ==
    ASSUME NEW type \in EventType, NEW far \in Nat, NEW near \in Nat, near <= far, NEW i \in 1..5
    PROVE  RiskScores(type, far)[i] <= RiskScores(type, near)[i]
<1>1. far \in Date /\ near \in Date
  BY DEF Date
<1> DEFINE w == ImpactWeights[type][i]
           x == w * ProximityMultiplier(far)
           y == w * ProximityMultiplier(near)
<1>2. w \in Nat /\ ProximityMultiplier(far) \in Nat /\ ProximityMultiplier(near) \in Nat
  BY <1>1, WeightRange, MultiplierRange
<1>3. ProximityMultiplier(far) <= ProximityMultiplier(near)
  BY MultiplierMonotone
<1>4. x \in Int /\ y \in Int /\ x <= y
  <2> HIDE DEF w
  <2>1. w <= w
    BY <1>2
  <2>2. QED
    BY <1>2, <1>3, <2>1, ProductMonotone
<1>5. Capped(x, 2000) <= Capped(y, 2000)
  <2> HIDE DEF x, y
  <2>1. QED
    BY <1>4, CappedMonotone
<1>6. RiskScores(type, far)[i] = Capped(x, 2000)
  BY <1>1, ScoreDef
<1>7. RiskScores(type, near)[i] = Capped(y, 2000)
  BY <1>1, ScoreDef
<1>8. QED
  <2> HIDE DEF x, y
  <2>1. QED
    BY <1>5, <1>6, <1>7, SMT

LEMMA CompositeMonotone ==
    ASSUME NEW type \in EventType, NEW far \in Nat, NEW near \in Nat, near <= far
    PROVE  /\ CompositeScore(RiskScores(type, far)) \in Int
           /\ CompositeScore(RiskScores(type, near)) \in Int
           /\ CompositeScore(RiskScores(type, far)) <= CompositeScore(RiskScores(type, near))
<1>1. far \in Date /\ near \in Date
  BY DEF Date
<1> DEFINE f == RiskScores(type, far)
           g == RiskScores(type, near)
<1>2. \A i \in 1..5 : f[i] \in Int
  BY <1>1, ScoreType, Zenon
<1>3. \A i \in 1..5 : g[i] \in Int
  BY <1>1, ScoreType, Zenon
<1>4. \A i \in 1..5 : f[i] <= g[i]
  BY ScoreMonotone, Zenon
<1> HIDE DEF f, g
<1>5. /\ f[1] \in Int /\ g[1] \in Int /\ f[1] <= g[1]
      /\ f[2] \in Int /\ g[2] \in Int /\ f[2] <= g[2]
      /\ f[3] \in Int /\ g[3] \in Int /\ f[3] <= g[3]
      /\ f[4] \in Int /\ g[4] \in Int /\ f[4] <= g[4]
      /\ f[5] \in Int /\ g[5] \in Int /\ f[5] <= g[5]
  BY <1>2, <1>3, <1>4
<1>6. /\ CompositeScore(f) \in Int
      /\ CompositeScore(g) \in Int
      /\ CompositeScore(f) <= CompositeScore(g)
  BY <1>5 DEF CompositeScore
<1>7. QED
  BY <1>6 DEF f, g

LEMMA UrgencyMonotone ==
    ASSUME NEW far \in Nat, NEW near \in Nat, near <= far,
           NEW c \in Int, NEW d \in Int, c <= d
    PROVE  UrgencyRank(UrgencyFromScores(c, far)) <= UrgencyRank(UrgencyFromScores(d, near))
<1>1. far # None /\ near # None
  BY NoneAssumption
<1>2. \A u \in Urgency : UrgencyRank(u) \in 1..5
  BY DEF Urgency, UrgencyRank
<1>3. QED
  BY <1>1 DEF UrgencyFromScores, UrgencyRank

LEMMA ImpactType ==
    ASSUME NEW type \in EventType, NEW days \in Date, NEW affected
    PROVE  Impact(type, days, affected) \in WatchlistEntry
<1> DEFINE scores == RiskScores(type, days)
           urgency == UrgencyFromScores(CompositeScore(scores), days)
<1>1. urgency \in Urgency
  BY DEF UrgencyFromScores, Urgency
<1>2. EventAction(scores, urgency, affected) \in {"RETURN", "HEDGE", "DO_NOTHING"}
  BY DEF EventAction
<1>3. EventAlert(urgency) \in AlertLevel
  BY DEF EventAlert, AlertLevel
<1>4. QED
  BY <1>1, <1>2, <1>3 DEF Impact, WatchlistEntry

\* Where an event stands in the watchlist: off it, or at the rank of its urgency.
LEMMA WatchRankOf ==
    ASSUME NEW e \in Event, NEW t \in Int, NEW affected
    PROVE  /\ InWindow(e, t) =>
                WatchRank(WatchlistRow(e, t, affected)) = UrgencyRank(UrgencyFromScores(
                    CompositeScore(RiskScores(e.type, DaysTo(e, t))), DaysTo(e, t)))
           /\ ~InWindow(e, t) => WatchRank(WatchlistRow(e, t, affected)) = 0
<1>1. ASSUME InWindow(e, t)
      PROVE  WatchRank(WatchlistRow(e, t, affected)) = UrgencyRank(UrgencyFromScores(
                 CompositeScore(RiskScores(e.type, DaysTo(e, t))), DaysTo(e, t)))
  <2>1. WatchlistRow(e, t, affected) = Impact(e.type, DaysTo(e, t), affected)
    BY <1>1 DEF WatchlistRow
  <2>2. Impact(e.type, DaysTo(e, t), affected) # None
    BY DaysToType, ImpactType, CorporateActionAssumption DEF Event
  <2>3. Impact(e.type, DaysTo(e, t), affected).urgency
           = UrgencyFromScores(CompositeScore(RiskScores(e.type, DaysTo(e, t))), DaysTo(e, t))
    BY DEF Impact
  <2>4. QED
    BY <2>1, <2>2, <2>3 DEF WatchRank
<1>2. ASSUME ~InWindow(e, t)
      PROVE  WatchRank(WatchlistRow(e, t, affected)) = 0
  BY <1>2 DEF WatchlistRow, WatchRank
<1>3. QED
  BY <1>1, <1>2

LEMMA UrgencyRankPositive ==
    ASSUME NEW c, NEW days
    PROVE  UrgencyRank(UrgencyFromScores(c, days)) \in 1..5
  BY DEF UrgencyFromScores, UrgencyRank

LEMMA WatchMonotone ==
    ASSUME NEW e \in Event, NEW s \in Int, NEW t \in Int, s <= t, NEW then, NEW now,
           KeyDate(e) # None => KeyDate(e) >= t
    PROVE  WatchRank(WatchlistRow(e, s, then)) <= WatchRank(WatchlistRow(e, t, now))
<1>1. CASE KeyDate(e) = None
  <2>1. InWindow(e, s) /\ InWindow(e, t) /\ DaysTo(e, s) = DaysTo(e, t)
    BY <1>1 DEF InWindow, DaysTo
  <2>2. WatchRank(WatchlistRow(e, s, then)) = WatchRank(WatchlistRow(e, t, now))
    BY <2>1, WatchRankOf
  <2>3. WatchRank(WatchlistRow(e, t, now)) \in 1..5
    BY <2>1, WatchRankOf, UrgencyRankPositive
  <2>4. QED
    BY <2>2, <2>3
<1>2. CASE KeyDate(e) # None
  <2> DEFINE far == KeyDate(e) - s
             near == KeyDate(e) - t
  <2>1. KeyDate(e) \in Int
    BY <1>2, KeyDateType DEF Date
  <2>2. far \in Nat /\ near \in Nat /\ near <= far
    BY <1>2, <2>1
  <2>3. DaysTo(e, s) = far /\ DaysTo(e, t) = near
    BY <1>2 DEF DaysTo
  <2>4. InWindow(e, s) => InWindow(e, t)
    BY <1>2, <2>1 DEF InWindow, WindowDays
  <2>5. e.type \in EventType
    BY DEF Event
  <2> DEFINE rs == UrgencyRank(UrgencyFromScores(CompositeScore(RiskScores(e.type, far)), far))
             rt == UrgencyRank(UrgencyFromScores(CompositeScore(RiskScores(e.type, near)), near))
  <2>6. rs <= rt
    <3> HIDE DEF far, near
    <3>1. QED
      BY <2>2, <2>5, CompositeMonotone, UrgencyMonotone
  <2>7. rs \in 1..5 /\ rt \in 1..5
    BY UrgencyRankPositive
  <2>8. CASE InWindow(e, s)
    <3>1. WatchRank(WatchlistRow(e, s, then)) = rs
      BY <2>3, <2>8, WatchRankOf
    <3>2. WatchRank(WatchlistRow(e, t, now)) = rt
      BY <2>3, <2>4, <2>8, WatchRankOf
    <3>3. QED
      BY <2>6, <3>1, <3>2
  <2>9. CASE ~InWindow(e, s)
    <3>1. WatchRank(WatchlistRow(e, s, then)) = 0
      BY <2>9, WatchRankOf
    <3>2. WatchRank(WatchlistRow(e, t, now)) \in 0..5
      <4>1. InWindow(e, t) => WatchRank(WatchlistRow(e, t, now)) = rt
        BY <2>3, WatchRankOf
      <4>2. ~InWindow(e, t) => WatchRank(WatchlistRow(e, t, now)) = 0
        BY WatchRankOf
      <4> HIDE DEF rt
      <4>3. QED
        BY <2>7, <4>1, <4>2
    <3>3. QED
      BY <3>1, <3>2
  <2>10. QED
    BY <2>8, <2>9
<1>3. QED
  BY <1>1, <1>2

\* An alerted event is near and its date has not passed.
LEMMA AlertedIsNear ==
    ASSUME NEW type \in EventType, NEW days \in Date, NEW affected,
           Impact(type, days, affected).alert # "NONE"
    PROVE  days \in 0..3
<1> DEFINE c == CompositeScore(RiskScores(type, days))
<1>1. EventAlert(UrgencyFromScores(c, days)) # "NONE"
  BY DEF Impact
<1>2. days \in Int /\ days <= 3 /\ (c >= 50 * 400 \/ c >= 40 * 400)
  <2> HIDE DEF c
  <2>1. days # None
    BY <1>1 DEF EventAlert, UrgencyFromScores
  <2>2. days \in Int
    BY <2>1 DEF Date
  <2>3. QED
    BY <1>1, <2>1, <2>2 DEF EventAlert, UrgencyFromScores
<1>3. ASSUME days < 0
      PROVE  FALSE
  <2> DEFINE r == RiskScores(type, days)
  <2>1. ProximityMultiplier(days) = 6
    BY <1>2, <1>3, NoneAssumption DEF ProximityMultiplier
  <2>2. ASSUME NEW i \in 1..5
        PROVE  r[i] \in Int /\ r[i] <= 600
    <3> DEFINE w == ImpactWeights[type][i]
    <3>1. w \in 0..100
      BY WeightRange
    <3>2. r[i] = Capped(w * 6, 2000)
      BY <2>1, ScoreDef
    <3>3. Capped(w * 6, 2000) \in Int /\ Capped(w * 6, 2000) <= 600
      <4> HIDE DEF w
      <4>1. QED
        BY <3>1 DEF Capped
    <3> HIDE DEF r, w
    <3>4. QED
      BY <3>2, <3>3
  <2> HIDE DEF r
  <2>3. /\ r[1] \in Int /\ r[1] <= 600
        /\ r[2] \in Int /\ r[2] <= 600
        /\ r[3] \in Int /\ r[3] <= 600
        /\ r[4] \in Int /\ r[4] <= 600
        /\ r[5] \in Int /\ r[5] <= 600
    BY <2>2
  <2>4. CompositeScore(r) \in Int /\ CompositeScore(r) <= 12000
    BY <2>3 DEF CompositeScore
  <2>5. c \in Int /\ c <= 12000
    BY <2>4 DEF r
  <2> HIDE DEF c
  <2>6. QED
    BY <1>2, <2>5
<1>4. QED
  BY <1>2, <1>3

\* Events of the kinds that make lenders recall are alerted on with an order to return.
LEMMA AlertedImpactReturns ==
    ASSUME NEW type \in RecallKinds, NEW days \in Date, NEW affected, affected # {},
           Impact(type, days, affected).alert # "NONE"
    PROVE  Impact(type, days, affected).action = "RETURN"
<1> DEFINE r == RiskScores(type, days)
           u == UrgencyFromScores(CompositeScore(r), days)
           w == ImpactWeights[type][Recall]
<1>1. type \in EventType /\ w >= 48 /\ Recall \in 1..5 /\ Recall = 2
  BY DEF RecallKinds, Recall
<1>2. w \in 0..100
  BY <1>1, WeightRange
<1>3. ProximityMultiplier(days) \in {25, 30}
  <2>1. days \in 0..3
    BY <1>1, AlertedIsNear
  <2>2. QED
    BY <2>1, NoneAssumption DEF ProximityMultiplier
<1>4. r[Recall] = Capped(w * ProximityMultiplier(days), 2000)
  BY <1>1, ScoreDef
<1>5. r[Recall] >= 60 * 20
  <2>1. Capped(w * ProximityMultiplier(days), 2000) >= 1200
    <3> HIDE DEF w
    <3>1. CASE ProximityMultiplier(days) = 25
      BY <1>1, <1>2, <3>1 DEF Capped
    <3>2. CASE ProximityMultiplier(days) = 30
      BY <1>1, <1>2, <3>2 DEF Capped
    <3>3. QED
      BY <1>3, <3>1, <3>2
  <2> HIDE DEF r, w
  <2>2. QED
    BY <1>4, <2>1
<1>6. EventAlert(u) # "NONE"
  BY DEF Impact
<1> HIDE DEF r
<1>7. u \notin {"INFORMATIONAL", "MONITOR"}
  BY <1>6 DEF EventAlert
<1>8. EventAction(r, u, affected) = "RETURN"
  BY <1>5, <1>7 DEF EventAction
<1>9. QED
  BY <1>8 DEF Impact, r

-----------------------------------------------------------------------------
(* The ladder of the settlement fails *)

LEMMA TierOfType ==
    ASSUME NEW s \in Security
    PROVE  TierOf(s) \in Tier \cup {None}
<1>1. \A q : ClassifySpecialness(q) \in Tier
  BY DEF ClassifySpecialness, Tier
<1>2. QED
  BY <1>1 DEF TierOf

LEMMA BaseMonotone ==
    ASSUME NEW f \in Fact, NEW g \in Fact, f.age <= g.age, f.receiving = g.receiving
    PROVE  BuyinBase(f) \in Nat /\ BuyinBase(g) \in Nat /\ BuyinBase(f) <= BuyinBase(g)
<1>1. f.age \in Nat /\ g.age \in Nat
  BY DEF Fact
<1>2. QED
  BY <1>1 DEF BuyinBase, NoticeDays, Capped

LEMMA SpecialnessMonotone ==
    ASSUME NEW s \in Tier \cup {None}, NEW t \in Tier \cup {None}, TierRank(s) <= TierRank(t)
    PROVE  /\ SpecialnessMultiplier(s) \in Nat /\ SpecialnessMultiplier(t) \in Nat
           /\ SpecialnessMultiplier(s) <= SpecialnessMultiplier(t)
<1>1. \A u \in Tier \cup {None} :
        \/ TierRank(u) = 1 /\ SpecialnessMultiplier(u) = 8
        \/ TierRank(u) = 2 /\ SpecialnessMultiplier(u) = 10
        \/ TierRank(u) = 3 /\ SpecialnessMultiplier(u) = 13
        \/ TierRank(u) = 4 /\ SpecialnessMultiplier(u) = 15
        \/ TierRank(u) = 5 /\ SpecialnessMultiplier(u) = 18
        \/ TierRank(u) = 6 /\ SpecialnessMultiplier(u) = 22
  BY RecallAssumption DEF Tier, TierRank, SpecialnessMultiplier
<1>2. QED
  BY <1>1

LEMMA ScarcityMonotone ==
    ASSUME NEW s \in Tier \cup {None}, NEW t \in Tier \cup {None}, TierRank(s) <= TierRank(t),
           ~(s = "SPECIALS_IN_WAITING" /\ t = "SPECIAL")
    PROVE  /\ ScarcityUrgency(s) \in Nat /\ ScarcityUrgency(t) \in Nat
           /\ ScarcityUrgency(s) <= ScarcityUrgency(t)
<1>1. \A u \in Tier \cup {None} :
        \/ TierRank(u) = 1 /\ ScarcityUrgency(u) = 0
        \/ TierRank(u) = 2 /\ ScarcityUrgency(u) = 0
        \/ TierRank(u) = 3 /\ ScarcityUrgency(u) = 8 /\ u = "SPECIALS_IN_WAITING"
        \/ TierRank(u) = 4 /\ ScarcityUrgency(u) = 0 /\ u = "SPECIAL"
        \/ TierRank(u) = 5 /\ ScarcityUrgency(u) = 15
        \/ TierRank(u) = 6 /\ ScarcityUrgency(u) = 15
  BY RecallAssumption DEF Tier, TierRank, ScarcityUrgency
<1>2. QED
  BY <1>1

LEMMA BuyinMonotone ==
    ASSUME NEW f \in Fact, NEW g \in Fact, NoBetterFacts(f, g)
    PROVE  /\ BuyinRiskScore(f) \in Int /\ BuyinRiskScore(g) \in Int
           /\ BuyinRiskScore(f) <= BuyinRiskScore(g)
<1> DEFINE base(h) == BuyinBase(h)
           tier(h) == SpecialnessMultiplier(h.tier)
           substitute(h) == IF h.substitute THEN 4 ELSE 5
<1>1. base(f) \in Nat /\ base(g) \in Nat /\ base(f) <= base(g)
  BY BaseMonotone DEF NoBetterFacts
<1>2. tier(f) \in Nat /\ tier(g) \in Nat /\ tier(f) <= tier(g)
  BY SpecialnessMonotone DEF NoBetterFacts, Fact
<1>3. substitute(f) \in Nat /\ substitute(g) \in Nat /\ substitute(f) <= substitute(g)
  BY DEF NoBetterFacts, Fact
<1> HIDE DEF base, tier, substitute
<1>4. /\ base(f) * tier(f) \in Nat /\ base(g) * tier(g) \in Nat
      /\ base(f) * tier(f) <= base(g) * tier(g)
  BY <1>1, <1>2, ProductMonotone
<1>5. /\ base(f) * tier(f) * substitute(f) \in Int /\ base(g) * tier(g) * substitute(g) \in Int
      /\ base(f) * tier(f) * substitute(f) <= base(g) * tier(g) * substitute(g)
  BY <1>3, <1>4, ProductMonotone
<1> DEFINE x == base(f) * tier(f) * substitute(f)
           y == base(g) * tier(g) * substitute(g)
<1>6. x \in Int /\ y \in Int /\ x <= y
  BY <1>5
<1> HIDE DEF x, y
<1>7. /\ Capped(x, 4000) \in Int /\ Capped(y, 4000) \in Int
      /\ Capped(x, 4000) <= Capped(y, 4000)
  BY <1>6 DEF Capped
<1>8. BuyinRiskScore(f) = Capped(x, 4000) /\ BuyinRiskScore(g) = Capped(y, 4000)
  BY DEF BuyinRiskScore, BuyinPoint, x, y, base, tier, substitute
<1>9. QED
  BY <1>7, <1>8

LEMMA UrgencyScoreMonotone ==
    ASSUME NEW f \in Fact, NEW g \in Fact, NoBetterFacts(f, g)
    PROVE  /\ UrgencyScore(f) \in Int /\ UrgencyScore(g) \in Int
           /\ UrgencyScore(f) <= UrgencyScore(g)
<1>1. /\ FailAgeComponent(f.age) \in Nat /\ FailAgeComponent(g.age) \in Nat
      /\ FailAgeComponent(f.age) <= FailAgeComponent(g.age)
  BY DEF NoBetterFacts, Fact, FailAgeComponent, Capped
<1>2. /\ ScarcityUrgency(f.tier) \in Nat /\ ScarcityUrgency(g.tier) \in Nat
      /\ ScarcityUrgency(f.tier) <= ScarcityUrgency(g.tier)
  BY ScarcityMonotone DEF NoBetterFacts, Fact
<1> DEFINE rest(h) == (IF h.shortage THEN 15 ELSE 0) + (IF h.caDriven THEN 20 ELSE 0)
                        + (IF h.substitute THEN 0 ELSE 5)
           sum(h) == FailAgeComponent(h.age) + (IF h.shortage THEN 15 ELSE 0)
                        + ScarcityUrgency(h.tier) + (IF h.caDriven THEN 20 ELSE 0)
                        + (IF h.substitute THEN 0 ELSE 5)
<1>3. rest(f) \in Nat /\ rest(g) \in Nat /\ rest(f) <= rest(g)
  BY DEF NoBetterFacts, Fact
<1>4. sum(f) \in Int /\ sum(g) \in Int /\ sum(f) <= sum(g)
  BY <1>1, <1>2, <1>3
<1>5. UrgencyScore(f) = Capped(sum(f), 100) /\ UrgencyScore(g) = Capped(sum(g), 100)
  BY DEF UrgencyScore
<1> HIDE DEF sum
<1>6. QED
  BY <1>4, <1>5 DEF Capped

LEMMA ScoreTypes ==
    ASSUME NEW f \in Fact
    PROVE  BuyinRiskScore(f) \in Int /\ UrgencyScore(f) \in Int
<1>1. TierRank(f.tier) \in Nat
  BY RecallAssumption DEF Fact, Tier, TierRank
<1>2. NoBetterFacts(f, f)
  BY <1>1 DEF Fact, NoBetterFacts
<1>3. QED
  BY <1>2, BuyinMonotone, UrgencyScoreMonotone

LEMMA BuyinSteps ==
    ASSUME NEW f \in Fact
    PROVE  BuyinAtLeast(f, 85) => BuyinAtLeast(f, 70)
  BY ScoreTypes DEF BuyinAtLeast, BuyinPoint

\* The two ladders of a settlement fail, for all facts an engine can look up: when
\* nothing about a fail has got better, neither alert nor action gets milder.
THEOREM LadderMonotone ==
    ASSUME NEW f \in Fact, NEW g \in Fact, NoBetterFacts(f, g)
    PROVE  NoMilder(f, g)
<1>1. /\ BuyinRiskScore(f) \in Int /\ BuyinRiskScore(g) \in Int
      /\ BuyinRiskScore(f) <= BuyinRiskScore(g)
  BY BuyinMonotone
<1>2. /\ UrgencyScore(f) \in Int /\ UrgencyScore(g) \in Int
      /\ UrgencyScore(f) <= UrgencyScore(g)
  BY UrgencyScoreMonotone
<1>3. /\ BuyinAtLeast(f, 70) => BuyinAtLeast(g, 70)
      /\ BuyinAtLeast(f, 85) => BuyinAtLeast(g, 85)
  BY <1>1 DEF BuyinAtLeast, BuyinPoint
<1>4. AlertRank(RecallAlert(f)) <= AlertRank(RecallAlert(g))
  <2>1. BuyinAtLeast(g, 85) => BuyinAtLeast(g, 70)
    BY BuyinSteps
  <2>2. QED
    BY <1>2, <1>3, <2>1 DEF RecallAlert, AlertRank
<1>5. ASSUME f.substitute = g.substitute
      PROVE  ActionRank(RecallAction(f)) <= ActionRank(RecallAction(g))
  BY <1>2, <1>3, <1>5 DEF RecallAction, ActionRank
<1>6. QED
  BY <1>4, <1>5 DEF NoMilder

\* A row has the order its alert calls for.
LEMMA RowInOrder ==
    ASSUME NEW f \in Fact
    PROVE  /\ QueueRow(f).alert # "NONE" => QueueRow(f).action # "DO_NOTHING"
           /\ QueueRow(f).alert = "CRITICAL" => QueueRow(f).action \in {"RECALL", "RETURN"}
<1>1. BuyinAtLeast(f, 85) => BuyinAtLeast(f, 70)
  BY BuyinSteps
<1>2. UrgencyScore(f) \in Int
  BY ScoreTypes
<1>3. /\ RecallAlert(f) # "NONE" => RecallAction(f) # "DO_NOTHING"
      /\ RecallAlert(f) = "CRITICAL" => RecallAction(f) \in {"RECALL", "RETURN"}
  BY <1>1, <1>2 DEF RecallAlert, RecallAction
<1>4. QED
  BY <1>3 DEF QueueRow

-----------------------------------------------------------------------------
(* Type correctness *)

LEMMA FactsType ==
    ASSUME TypeOK, NEW p \in Position, fails[p] # None
    PROVE  FactsOf(p) \in Fact
<1>1. fails[p] \in Fail
  BY DEF TypeOK
<1>2. SecurityOf[p] \in Security
  BY PricingAssumption
<1>3. TierOf(SecurityOf[p]) \in Tier \cup {None}
  BY <1>2, TierOfType
<1>4. fails[p].age \in Nat /\ fails[p].receiving \in BOOLEAN
  BY <1>1, AdviceAssumption DEF Fail
<1>5. CaDrivenReturn(SecurityOf[p]) \in BOOLEAN
  BY DEF CaDrivenReturn
<1>6. QED
  BY <1>3, <1>4, <1>5 DEF FactsOf, Fact

LEMMA QueueType ==
    ASSUME TypeOK
    PROVE  \A row \in UrgencyQueue : \E f \in Fact : f.position \in book /\ row = QueueRow(f)
<1>1. ASSUME NEW p \in BookFails
      PROVE  FactsOf(p) \in Fact /\ FactsOf(p).position = p /\ p \in book
  <2>1. p \in Position /\ p \in book /\ fails[p] # None
    BY DEF BookFails, TypeOK
  <2>2. QED
    BY <2>1, FactsType DEF FactsOf
<1>2. QED
  BY <1>1 DEF UrgencyQueue

LEMMA RowType ==
    ASSUME NEW f \in Fact
    PROVE  /\ QueueRow(f) \in [position : Position, action : RecallActions, alert : AlertLevel]
           /\ QueueRow(f).position = f.position
  BY DEF QueueRow, Fact, RecallAction, RecallActions, RecallAlert, AlertLevel

LEMMA PricingType ==
    ASSUME TypeOK
    PROVE  /\ PricingRecommendations(book, quotes) \in [Position -> Nat \cup {None}]
           /\ \A p \in Position : PricingRecommendations(book, quotes)[p] # None => p \in book
<1>1. ASSUME NEW p \in Repriced(book, quotes)
      PROVE  p \in book /\ Fee(quotes[SecurityOf[p]]) \in Nat
  <2>1. p \in book /\ HasMarketRate(quotes, SecurityOf[p])
    BY DEF Repriced
  <2>2. p \in Position /\ SecurityOf[p] \in Security
    BY <2>1, PricingAssumption DEF TypeOK
  <2>3. quotes[SecurityOf[p]] \in Quote
    BY <2>1, <2>2, AdviceAssumption DEF TypeOK, HasMarketRate
  <2>4. QED
    BY <2>1, <2>3 DEF HasMarketRate, Fee, Quote
<1>2. QED
  BY <1>1 DEF PricingRecommendations

LEMMA TypeInit == Init => TypeOK
  BY AdviceAssumption DEF Init, TypeOK, Day

LEMMA CycleOutputs ==
    ASSUME TypeOK, RunCycle
    PROVE  latest' \in Outputs /\ TypeOK'
<1> DEFINE out == [asOf |-> today, positions |-> book,
                   pricing |-> PricingRecommendations(book, quotes), recall |-> UrgencyQueue]
<1>1. UNCHANGED inputs /\ latest' = out
  BY DEF RunCycle
<1>2. \A row \in UrgencyQueue :
        /\ row \in [position : Position, action : RecallActions, alert : AlertLevel]
        /\ row.position \in book
  BY QueueType, RowType
<1>3. out \in Outputs
  BY <1>2, PricingType DEF Outputs, TypeOK
<1>4. /\ out.asOf <= today
      /\ \A p \in Position : out.pricing[p] # None => p \in out.positions
      /\ \A row \in out.recall : row.position \in out.positions
  BY <1>2, PricingType, AdviceAssumption DEF TypeOK, Day
<1> HIDE DEF out
<1>5. QED
  BY <1>1, <1>3, <1>4 DEF TypeOK, inputs

LEMMA TypeStep == TypeOK /\ [Next]_vars => TypeOK'
<1> SUFFICES ASSUME TypeOK, [Next]_vars
             PROVE  TypeOK'
  OBVIOUS
<1>1. CASE RunCycle
  BY <1>1, CycleOutputs
<1>2. CASE NewDay
  <2>1. today' \in Day /\ today <= today'
    BY <1>2, AdviceAssumption DEF TypeOK, NewDay, Day, Capped
  <2>2. \A f \in Fail : [f EXCEPT !.age = Capped(@ + 1, MaxAge)] \in Fail
    BY AdviceAssumption DEF Fail, Capped
  <2>3. fails' \in [Position -> Fail \cup {None}]
    BY <1>2, <2>2 DEF TypeOK, NewDay
  <2>4. ASSUME latest # None
        PROVE  latest.asOf <= today'
    <3>1. latest.asOf \in Day /\ today \in Day /\ latest.asOf <= today
      BY <2>4 DEF TypeOK, Outputs
    <3>2. QED
      BY <2>1, <3>1, AdviceAssumption DEF Day
  <2>5. QED
    BY <1>2, <2>1, <2>3, <2>4 DEF TypeOK, NewDay
<1>3. ASSUME NEW s \in Security, NEW q \in Quotes \cup {None}, QuoteMoves(s, q)
      PROVE  TypeOK'
  <2>1. quotes' \in [Security -> Quotes \cup {None}]
    BY <1>3 DEF TypeOK, QuoteMoves
  <2>2. QED
    BY <1>3, <2>1 DEF TypeOK, QuoteMoves
<1>4. ASSUME NEW s \in Security, SubstitutesChange(s)
      PROVE  TypeOK'
  BY <1>4 DEF TypeOK, SubstitutesChange
<1>5. ASSUME NEW s \in Security, ShortagesChange(s)
      PROVE  TypeOK'
  BY <1>5 DEF TypeOK, ShortagesChange
<1>6. ASSUME NEW p \in Position, NEW receiving \in BOOLEAN, FailOpens(p, receiving)
      PROVE  TypeOK'
  <2>1. [age |-> 0, receiving |-> receiving] \in Fail
    BY AdviceAssumption DEF Fail
  <2>2. fails' \in [Position -> Fail \cup {None}]
    BY <1>6, <2>1 DEF TypeOK, FailOpens
  <2>3. QED
    BY <1>6, <2>2 DEF TypeOK, FailOpens
<1>7. ASSUME NEW p \in Position, FailSettles(p)
      PROVE  TypeOK'
  <2>1. fails' \in [Position -> Fail \cup {None}]
    BY <1>7 DEF TypeOK, FailSettles
  <2>2. QED
    BY <1>7, <2>1 DEF TypeOK, FailSettles
<1>8. ASSUME NEW p \in Position, BookChanges(p)
      PROVE  TypeOK'
  BY <1>8 DEF TypeOK, BookChanges
<1>9. CASE UNCHANGED vars
  BY <1>9 DEF TypeOK, vars, inputs
<1>10. QED
  BY <1>1, <1>2, <1>3, <1>4, <1>5, <1>6, <1>7, <1>8, <1>9 DEF Next

\* Outputs are well-formed, about positions of their own book and never from the
\* future, for every set of positions, quotes, calendars and bounds.
THEOREM AdviceTypeCorrect == Spec => []TypeOK
  BY TypeInit, TypeStep, PTL DEF Spec

-----------------------------------------------------------------------------
(* Invariants *)

\* The thresholds of engine and alerts are in step for every fail there can be.
THEOREM FailOrders == Spec => []AlertedFailHasOrder
<1>1. Init => AlertedFailHasOrder
  BY DEF Init, AlertedFailHasOrder
<1>2. TypeOK /\ AlertedFailHasOrder /\ [Next]_vars => AlertedFailHasOrder'
  <2> SUFFICES ASSUME TypeOK, AlertedFailHasOrder, [Next]_vars
               PROVE  AlertedFailHasOrder'
    OBVIOUS
  <2>1. CASE RunCycle
    <3>1. \A row \in UrgencyQueue :
             /\ row.alert # "NONE" => row.action # "DO_NOTHING"
             /\ row.alert = "CRITICAL" => row.action \in {"RECALL", "RETURN"}
      BY QueueType, RowInOrder
    <3>2. QED
      BY <2>1, <3>1 DEF RunCycle, AlertedFailHasOrder
  <2>2. CASE UNCHANGED latest
    BY <2>2 DEF AlertedFailHasOrder
  <2>3. RunCycle \/ UNCHANGED latest
    BY DEF Next, vars, NewDay, QuoteMoves, FailOpens, FailSettles, SubstitutesChange,
           ShortagesChange, BookChanges
  <2>4. QED
    BY <2>1, <2>2, <2>3
<1>3. QED
  BY <1>1, <1>2, AdviceTypeCorrect, PTL DEF Spec

\* For every calendar, every book and every day, passed dates included: only near
\* events are alerted on, and near enough for a recall weight of 48 to reach 60, so that
\* the positions there are in the security get the order.
THEOREM EventOrders == Spec => []AlertedEventHasOrder
<1>1. TypeOK => AlertedEventHasOrder
  <2> SUFFICES ASSUME TypeOK, latest # None, NEW e \in events, e.type \in RecallKinds,
                      Affected(e, latest.positions) # {},
                      Watched(e) # None, Watched(e).alert # "NONE"
               PROVE  Watched(e).action = "RETURN"
    BY DEF AlertedEventHasOrder
  <2>1. e \in Event /\ latest.asOf \in Int
    BY AdviceAssumption DEF TypeOK, Outputs, Day
  <2>2. Watched(e) = Impact(e.type, DaysTo(e, latest.asOf), Affected(e, latest.positions))
    BY DEF Watched, WatchlistRow
  <2>3. DaysTo(e, latest.asOf) \in Date
    BY <2>1, DaysToType
  <2>4. QED
    BY <2>2, <2>3, AlertedImpactReturns
<1>2. QED
  BY <1>1, AdviceTypeCorrect, PTL

\* An old watchlist only understates what is coming.
THEOREM ApproachUrgent == Spec => []ApproachingNeverCalmer
<1>1. TypeOK => ApproachingNeverCalmer
  <2> SUFFICES ASSUME TypeOK, latest # None, NEW e \in events,
                      KeyDate(e) # None => KeyDate(e) >= today
               PROVE  WatchRank(Watched(e)) <= WatchRank(WatchlistRow(e, today, Affected(e, book)))
    BY DEF ApproachingNeverCalmer
  <2>1. e \in Event /\ latest.asOf \in Int /\ today \in Int /\ latest.asOf <= today
    BY AdviceAssumption DEF TypeOK, Outputs, Day
  <2>2. QED
    BY <2>1, WatchMonotone DEF Watched
<1>2. QED
  BY <1>1, AdviceTypeCorrect, PTL

-----------------------------------------------------------------------------
(* Action properties *)

\* The ladder of the fails over every step of the world.
THEOREM FailsNeverCalmer == Spec => WorseFactsNeverCalmer
<1> DEFINE A == \A p \in Position : fails[p] # None /\ fails'[p] # None =>
                   \A f \in {FactsOf(p)}, g \in {FactsOf(p)'} :
                      NoBetterFacts(f, g) => NoMilder(f, g)
           FactsKnown == \A p \in Position : fails[p] # None => FactsOf(p) \in Fact
<1>1. TypeOK => FactsKnown
  BY FactsType
<1>2. TypeOK' => FactsKnown'
  BY <1>1, PTL
<1>3. TypeOK /\ TypeOK' => A
  <2> SUFFICES ASSUME TypeOK, TypeOK', NEW p \in Position, fails[p] # None, fails'[p] # None,
                      NoBetterFacts(FactsOf(p), FactsOf(p)')
               PROVE  NoMilder(FactsOf(p), FactsOf(p)')
    OBVIOUS
  <2>1. FactsOf(p) \in Fact
    BY <1>1
  <2>2. FactsOf(p)' \in Fact
    BY <1>2
  <2>3. QED
    BY <2>1, <2>2, LadderMonotone
<1>4. TypeOK /\ [Next]_vars => [A]_vars
  BY <1>3, TypeStep
<1>5. QED
  BY <1>4, AdviceTypeCorrect, PTL DEF Spec, WorseFactsNeverCalmer

\* From its fifth day on a fail is recommended on whatever its other facts are: the age
\* alone scores 60, and 60 is the step of HEDGE.
LEMMA OldFailHasOrder ==
    ASSUME NEW f \in Fact, f.age >= 5
    PROVE  RecallAction(f) # "DO_NOTHING"
<1>1. f.age \in Nat /\ f.tier \in Tier \cup {None}
  BY DEF Fact
<1>2. FailAgeComponent(f.age) = 60
  BY <1>1 DEF FailAgeComponent, Capped
<1>3. ScarcityUrgency(f.tier) \in Nat
  BY DEF ScarcityUrgency
<1>4. UrgencyScore(f) >= 60
  BY <1>2, <1>3 DEF UrgencyScore, Capped
<1>5. QED
  BY <1>4 DEF RecallAction

\* The safety half of OpenFailIsActedOn.  While a fail stays open no step makes it
\* younger and every day makes it older, to the bound; and each cycle that finds a fail
\* of five days or more in the book acts on it, whatever the quotes, inventory,
\* locates and events have become.
THEOREM AgeBringsAction ==
    Spec => [][/\ \A p \in Position : fails[p] # None /\ fails'[p] # None =>
                     /\ fails[p].age <= fails'[p].age
                     /\ NewDay => fails'[p].age = Capped(fails[p].age + 1, MaxAge)
               /\ RunCycle => \A p \in book :
                     fails[p] # None /\ fails[p].age >= 5 => ActedOn(p)']_vars
<1> DEFINE Ages == \A p \in Position : fails[p] # None /\ fails'[p] # None =>
                     /\ fails[p].age <= fails'[p].age
                     /\ NewDay => fails'[p].age = Capped(fails[p].age + 1, MaxAge)
           Acts == RunCycle => \A p \in book :
                     fails[p] # None /\ fails[p].age >= 5 => ActedOn(p)'
<1>1. TypeOK /\ [Next]_vars => Ages
  <2> SUFFICES ASSUME TypeOK, [Next]_vars, NEW p \in Position,
                      fails[p] # None, fails'[p] # None
               PROVE  /\ fails[p].age <= fails'[p].age
                      /\ NewDay => fails'[p].age = Capped(fails[p].age + 1, MaxAge)
    OBVIOUS
  <2>1. fails[p] \in Fail /\ fails[p].age \in 0..MaxAge /\ MaxAge \in Nat
    BY AdviceAssumption DEF TypeOK, Fail
  <2>2. ASSUME NewDay
        PROVE  /\ fails'[p].age = Capped(fails[p].age + 1, MaxAge)
               /\ fails[p].age <= fails'[p].age
    <3>1. fails'[p] = [fails[p] EXCEPT !.age = Capped(@ + 1, MaxAge)]
      BY <2>2 DEF NewDay
    <3>2. fails'[p].age = Capped(fails[p].age + 1, MaxAge)
      BY <2>1, <3>1 DEF Fail
    <3>3. QED
      BY <2>1, <3>2 DEF Capped
  <2>3. ASSUME ~NewDay PROVE fails'[p] = fails[p]
    <3>1. CASE UNCHANGED fails
      BY <3>1
    <3>2. ASSUME NEW q \in Position, NEW receiving \in BOOLEAN, FailOpens(q, receiving)
          PROVE  fails'[p] = fails[p]
      BY <3>2 DEF FailOpens, TypeOK
    <3>3. ASSUME NEW q \in Position, FailSettles(q)
          PROVE  fails'[p] = fails[p]
      BY <3>3 DEF FailSettles, TypeOK
    <3>4. QED
      BY <2>3, <3>1, <3>2, <3>3 DEF Next, RunCycle, inputs, vars, QuoteMoves,
         SubstitutesChange, ShortagesChange, BookChanges
  <2>4. QED
    BY <2>1, <2>2, <2>3
<1>2. TypeOK => Acts
  <2> SUFFICES ASSUME TypeOK, RunCycle, NEW p \in book, fails[p] # None, fails[p].age >= 5
               PROVE  ActedOn(p)'
    OBVIOUS
  <2>1. p \in Position /\ p \in BookFails
    BY DEF TypeOK, BookFails
  <2>2. FactsOf(p) \in Fact /\ FactsOf(p).age >= 5 /\ FactsOf(p).position = p
    BY <2>1, FactsType DEF FactsOf
  <2>3. QueueRow(FactsOf(p)).position = p /\ QueueRow(FactsOf(p)).action # "DO_NOTHING"
    BY <2>2, OldFailHasOrder DEF QueueRow
  <2>4. QueueRow(FactsOf(p)) \in latest'.recall /\ latest'.recall = UrgencyQueue
    BY <2>1 DEF RunCycle, UrgencyQueue
  <2>5. latest' # None
    <3>1. latest' \in Outputs
      BY CycleOutputs
    <3>2. QED
      BY <3>1, AdviceAssumption
  <2>6. QED
    BY <2>3, <2>4, <2>5 DEF ActedOn
<1>3. TypeOK /\ [Next]_vars => Ages /\ Acts
  BY <1>1, <1>2
<1>4. QED
  BY <1>3, AdviceTypeCorrect, PTL DEF Spec

\* The row that stays in the dict is the last one of its security.
LEMMA LastRow ==
    ASSUME NEW positions \in SUBSET Position, NEW p \in positions, SpeaksForSecurity(p, positions)
    PROVE  DispersionRow(positions, SecurityOf[p]) = p
<1> DEFINE Speaks(q) == /\ SecurityOf[q] = SecurityOf[p]
                        /\ \A r \in positions : SecurityOf[r] = SecurityOf[p] => FileRow[r] <= FileRow[q]
<1>1. Speaks(p)
  BY DEF SpeaksForSecurity
<1>2. ASSUME NEW q \in positions, Speaks(q)
      PROVE  q = p
  <2>1. FileRow[p] \in Nat /\ FileRow[q] \in Nat
    BY PricingAssumption
  <2>2. FileRow[p] <= FileRow[q] /\ FileRow[q] <= FileRow[p]
    BY <1>1, <1>2
  <2>3. FileRow[q] = FileRow[p]
    BY <2>1, <2>2
  <2>4. QED
    BY <2>3, PricingAssumption
<1>3. DispersionRow(positions, SecurityOf[p]) = CHOOSE q \in positions : Speaks(q)
  BY DEF DispersionRow
<1> HIDE DEF Speaks
<1>4. QED
  BY <1>1, <1>2, <1>3

\* For every book and every order of its file.
THEOREM LastIsPriced == Spec => LastPositionPriced
<1> DEFINE A == latest' # latest => \A p \in book :
                   SpeaksForSecurity(p, book) /\ HasMarketRate(quotes, SecurityOf[p]) =>
                   LET market == Fee(quotes[SecurityOf[p]])
                       gain == IF EarnsTheRate(p) THEN market - RateOf[p] ELSE RateOf[p] - market
                   IN  latest'.pricing[p] = IF gain > MinActionableGap THEN market ELSE None
<1>1. TypeOK /\ [Next]_vars => A
  <2> SUFFICES ASSUME TypeOK, [Next]_vars, latest' # latest, NEW p \in book,
                      SpeaksForSecurity(p, book), HasMarketRate(quotes, SecurityOf[p])
               PROVE  LET market == Fee(quotes[SecurityOf[p]])
                          gain == IF EarnsTheRate(p) THEN market - RateOf[p] ELSE RateOf[p] - market
                      IN  latest'.pricing[p] = IF gain > MinActionableGap THEN market ELSE None
    OBVIOUS
  <2>1. RunCycle
    BY DEF Next, vars, NewDay, QuoteMoves, FailOpens, FailSettles, SubstitutesChange,
           ShortagesChange, BookChanges
  <2>2. p \in Position /\ book \in SUBSET Position /\ SecurityOf[p] \in Security /\ RateOf[p] \in Int
    BY PricingAssumption DEF TypeOK
  <2> DEFINE market == Fee(quotes[SecurityOf[p]])
             gain == IF EarnsTheRate(p) THEN market - RateOf[p] ELSE RateOf[p] - market
  <2>3. market \in Int
    <3>1. quotes[SecurityOf[p]] \in Quote
      BY <2>2, AdviceAssumption DEF TypeOK, HasMarketRate
    <3>2. QED
      BY <3>1 DEF Fee, Quote, HasMarketRate
  <2>4. DispersionRow(book, SecurityOf[p]) = p
    BY <2>2, LastRow
  <2>5. Mispriced(p, Gap(quotes, p)) <=> gain > MinActionableGap
    <3>1. Gap(quotes, p) = RateOf[p] - market
      BY DEF Gap
    <3> HIDE DEF market
    <3>2. QED
      BY <2>2, <2>3, <3>1 DEF Mispriced, MinActionableGap
  <2>6. p \in Repriced(book, quotes) <=> gain > MinActionableGap
    BY <2>4, <2>5 DEF Repriced
  <2>7. latest'.pricing[p] = IF p \in Repriced(book, quotes) THEN market ELSE None
    BY <2>1, <2>2 DEF RunCycle, PricingRecommendations
  <2>8. QED
    BY <2>6, <2>7
<1>2. QED
  BY <1>1, AdviceTypeCorrect, PTL DEF Spec, LastPositionPriced
=============================================================================
