--------------------------- MODULE DeskCycle_proofs ---------------------------
(***************************************************************************)
(* Proofs about the desk's day, for every set of counterparties, limits,   *)
(* credit figures, traders and trade sizes.                                *)
(***************************************************************************)
EXTENDS DeskCycle, TLAPS

-----------------------------------------------------------------------------
(* The decision tree *)

LEMMA AssessIsAction ==
    ASSUME NEW p, NEW b
    PROVE  Assess(p, b) \in Action
BY DEF Assess, Action

LEMMA LimitAlertIsLevel ==
    ASSUME NEW p
    PROVE  LimitAlert(p) \in AlertLevel
BY DEF LimitAlert, AlertLevel

\* A worse credit is never judged more generously than a better one: more exposure
\* against the same limit, less return, a watch-list entry, a wrong-way risk or a
\* break can only lower the commitment.
THEOREM WorseNeverPromoted ==
    ASSUME NEW p \in AnyProfile, NEW q \in AnyProfile, NoBetterThan(p, q),
           NEW pBreak \in BOOLEAN, NEW qBreak \in BOOLEAN, qBreak => pBreak
    PROVE  Commitment(Assess(p, pBreak)) <= Commitment(Assess(q, qBreak))
<1> USE NoneAssumption
<1>1. /\ p.gross \in Nat /\ q.gross \in Nat /\ p.gross >= q.gross
      /\ p.limit = q.limit /\ q.limit \in Nat \cup {None}
      /\ p.roc \in Int \cup {None} /\ q.roc \in Int \cup {None}
      /\ p.roc = q.roc \/ (p.roc # None /\ q.roc # None /\ p.roc <= q.roc)
      /\ q.watch => p.watch
      /\ q.wwr => p.wwr
  BY DEF AnyProfile, NoBetterThan, RocKnown
<1>2. OverUtilized(q) => OverUtilized(p)
  BY <1>1 DEF OverUtilized, UtilAbove, HasLimit, ReduceFloor
<1>3. Unprofitable(q) => Unprofitable(p)
  BY <1>1 DEF Unprofitable, RocKnown, MinAcceptableRoc
<1>4. Underpriced(q) => Underpriced(p) \/ Unprofitable(p)
  BY <1>1 DEF Underpriced, Unprofitable, RocKnown, MinAcceptableRoc, TargetRoc
<1>5. Growable(p) => Growable(q)
  BY <1>1 DEF Growable, UtilBelow, HasLimit, RocKnown, TargetRoc, GrowCeiling
<1>6. QED
  BY <1>1, <1>2, <1>3, <1>4, <1>5 DEF Assess, Commitment

-----------------------------------------------------------------------------
(* Type correctness *)

LEMMA ProfileType ==
    ASSUME DeskAssumption, NEW c \in Cpty, gross \in [Cpty -> Gross],
           credit \in [Cpty -> Credit]
    PROVE  Profile(c) \in AnyProfile
<1>1. credit[c] \in [roc : Int \cup {None}, watch : BOOLEAN, crowded : BOOLEAN]
  BY DEF DeskAssumption
<1>2. Limit[c] \in Nat \cup {None}
  BY DEF DeskAssumption
<1>3. gross[c] \in Nat
  BY DEF Gross, DeskAssumption
<1>4. (gross[c] > 0 /\ (credit[c].crowded \/ credit[c].watch)) \in BOOLEAN
  OBVIOUS
<1>5. QED
  BY <1>1, <1>2, <1>3, <1>4 DEF Profile, AnyProfile

LEMMA TypeInit == Init => TypeOK
BY DeskAssumption DEF Init, TypeOK, Gross

LEMMA CyclePublishes ==
    ASSUME TypeOK, NEW reconciled \in BOOLEAN, RunCycle(reconciled)
    PROVE  /\ latest' \in Outputs
           /\ latest'.reconciled = reconciled
           /\ latest'.profile = [c \in Cpty |-> Profile(c)]
           /\ latest'.breaks = CriticalBreaksByCpty(reconciled)
           /\ latest'.action = GrowthOpportunities(reconciled)
           /\ latest'.alert = [c \in Cpty |-> LimitAlert(Profile(c))]
<1>1. GrowthOpportunities(reconciled) \in [Cpty -> Action]
  BY AssessIsAction DEF GrowthOpportunities
<1>2. [c \in Cpty |-> LimitAlert(Profile(c))] \in [Cpty -> AlertLevel]
  BY LimitAlertIsLevel
<1>3. CriticalBreaksByCpty(reconciled) \in SUBSET Cpty
  BY DEF CriticalBreaksByCpty, TypeOK
<1>4. [c \in Cpty |-> Profile(c)] \in [Cpty -> AnyProfile]
  BY ProfileType, DeskAssumption DEF TypeOK
<1>5. QED
  BY <1>1, <1>2, <1>3, <1>4 DEF RunCycle, Outputs

LEMMA TypeStep == TypeOK /\ [Next]_vars => TypeOK'
<1> SUFFICES ASSUME TypeOK, [Next]_vars PROVE TypeOK'
  OBVIOUS
<1> USE DeskAssumption, NoneAssumption
<1>1. ASSUME NEW reconciled \in BOOLEAN, RunCycle(reconciled) PROVE TypeOK'
  <2>1. latest' \in Outputs
    BY <1>1, CyclePublishes
  <2>2. latest' # None /\ ~latest'.reconciled => latest'.breaks = {}
    BY <1>1, CyclePublishes DEF CriticalBreaksByCpty
  <2>3. latest' # None \/ \A t \in Trader : advice[t] = None
    BY <1>1, <2>1 DEF RunCycle, TypeOK
  <2>4. found' \subseteq critical /\ seen' \subseteq Cpty /\ UNCHANGED <<world, advice, fresh>>
    BY <1>1 DEF RunCycle, TypeOK
  <2>5. latest' = None => \A t \in Trader : advice[t] = None
    BY <2>3
  <2>6. QED
    BY <2>1, <2>2, <2>4, <2>5 DEF TypeOK, world
<1>2. ASSUME NEW t \in Trader, NEW c \in Cpty, NEW x \in Amount, Simulate(t, c, x)
      PROVE  TypeOK'
  <2>1. fresh' \in [Trader -> BOOLEAN]
    BY <1>2 DEF Simulate, TypeOK, Gross
  <2>2. advice' \in [Trader -> [cpty : Cpty, amount : Amount] \cup {None}]
    BY <1>2 DEF Simulate, TypeOK
  <2>3. QED
    BY <1>2, <2>1, <2>2 DEF Simulate, TypeOK, world
<1>3. ASSUME NEW t \in Trader, Book(t) PROVE TypeOK'
  <2>1. advice[t] \in [cpty : Cpty, amount : Amount]
    BY <1>3 DEF Book, TypeOK
  <2>2. gross' \in [Cpty -> Gross]
    BY <1>3, <2>1 DEF Book, TypeOK
  <2>3. fresh' \in [Trader -> BOOLEAN]
    <3>1. \A s \in Trader : fresh[s] \in BOOLEAN
      BY DEF TypeOK
    <3>2. QED
      BY <1>3, <3>1, Zenon DEF Book
  <2>4. QED
    BY <1>3, <2>2, <2>3 DEF Book, TypeOK
<1>4. ASSUME NEW t \in Trader, Discard(t) PROVE TypeOK'
  BY <1>4 DEF Discard, TypeOK, world
<1>5. ASSUME NEW c \in Cpty, NEW x \in Amount, Drift(c, x) \/ Drift(c, -x) PROVE TypeOK'
  <2>1. PICK d : Drift(c, d)
    BY <1>5
  <2>2. gross' \in [Cpty -> Gross]
    BY <2>1 DEF Drift, TypeOK
  <2>3. fresh' \in [Trader -> BOOLEAN]
    <3>1. \A s \in Trader : fresh[s] \in BOOLEAN
      BY DEF TypeOK
    <3>2. QED
      BY <2>1, <3>1, Zenon DEF Drift
  <2>4. QED
    BY <2>1, <2>2, <2>3 DEF Drift, TypeOK
<1>6. ASSUME NEW c \in Cpty, BreakOpens(c) \/ BreakResolved(c) PROVE TypeOK'
  BY <1>6 DEF BreakOpens, BreakResolved, TypeOK
<1>7. ASSUME NEW c \in Cpty, NEW figures \in Credit, CreditMoves(c, figures) PROVE TypeOK'
  <2>1. credit' \in [Cpty -> Credit]
    BY <1>7 DEF CreditMoves, TypeOK
  <2>2. QED
    BY <1>7, <2>1 DEF CreditMoves, TypeOK
<1>8. CASE UNCHANGED vars
  BY <1>8 DEF vars, world, TypeOK
<1>9. QED
  BY <1>1, <1>2, <1>3, <1>4, <1>5, <1>6, <1>7, <1>8 DEF Next, EndOfDayCycle, FastCycle

\* The book, the outputs and the traders' answers keep their types.
THEOREM DeskTypeCorrect == Spec => []TypeOK
BY TypeInit, TypeStep, PTL DEF Spec

-----------------------------------------------------------------------------
(* What is published *)

\* The outputs are what the engines compute from the figures they carry.
PublishedIsComputed ==
    latest # None =>
        /\ \A c \in Cpty :
              /\ latest.action[c] = Assess(Published(c), c \in latest.breaks)
              /\ latest.alert[c] = LimitAlert(Published(c))
              /\ Published(c).limit = Limit[c]
        /\ latest.reconciled => seen \subseteq latest.breaks

IInv == TypeOK /\ PublishedIsComputed /\ FreshAdviceIsSafe

LEMMA CycleInv ==
    ASSUME TypeOK, NEW reconciled \in BOOLEAN, RunCycle(reconciled)
    PROVE  PublishedIsComputed'
<1>1. /\ latest'.reconciled = reconciled
      /\ latest'.profile = [c \in Cpty |-> Profile(c)]
      /\ latest'.breaks = CriticalBreaksByCpty(reconciled)
      /\ latest'.action = GrowthOpportunities(reconciled)
      /\ latest'.alert = [c \in Cpty |-> LimitAlert(Profile(c))]
  BY CyclePublishes
<1>2. \A c \in Cpty : Published(c)' = Profile(c) /\ Profile(c).limit = Limit[c]
  BY <1>1 DEF Published, Profile
<1>3. reconciled => seen' \subseteq latest'.breaks
  BY <1>1 DEF RunCycle, CriticalBreaksByCpty
<1>4. QED
  BY <1>1, <1>2, <1>3 DEF PublishedIsComputed, GrowthOpportunities

LEMMA OtherInv ==
    ASSUME PublishedIsComputed, UNCHANGED <<latest, seen>>
    PROVE  PublishedIsComputed'
BY DEF PublishedIsComputed, Published

\* The headroom an answer promised is there as long as exposure has not risen.
Holds(c, x, g) == ~(Limit[c] # None /\ Limit[c] > 0 /\ 100 * (g[c] + x) >= 100 * Limit[c])

LEMMA AdviceInArithmetic ==
    /\ FreshAdviceIsSafe <=>
          \A t \in Trader : advice[t] # None /\ fresh[t] =>
              Holds(advice[t].cpty, advice[t].amount, gross)
    /\ FreshAdviceIsSafe' <=>
          \A t \in Trader : advice'[t] # None /\ fresh'[t] =>
              Holds(advice'[t].cpty, advice'[t].amount, gross')
<1>1. ASSUME NEW c, NEW x
      PROVE  UtilAtLeast([Profile(c) EXCEPT !.gross = @ + x], 100) <=> ~Holds(c, x, gross)
  BY DEF Profile, UtilAtLeast, HasLimit, Holds
<1>2. FreshAdviceIsSafe <=>
          \A t \in Trader : advice[t] # None /\ fresh[t] =>
              Holds(advice[t].cpty, advice[t].amount, gross)
  BY <1>1 DEF FreshAdviceIsSafe
<1>3. FreshAdviceIsSafe' <=>
          \A t \in Trader : advice'[t] # None /\ fresh'[t] =>
              Holds(advice'[t].cpty, advice'[t].amount, gross')
  BY DEF FreshAdviceIsSafe, Profile, UtilAtLeast, HasLimit, Holds
<1>4. QED
  BY <1>2, <1>3

LEMMA SimulateSafe ==
    ASSUME TypeOK, PublishedIsComputed, FreshAdviceIsSafe,
           NEW t \in Trader, NEW c \in Cpty, NEW x \in Amount, Simulate(t, c, x)
    PROVE  FreshAdviceIsSafe'
<1> USE DeskAssumption
<1>1. latest \in Outputs /\ latest.profile[c] \in AnyProfile /\ gross \in [Cpty -> Gross]
  BY DEF Simulate, TypeOK, Outputs
<1> DEFINE p == latest.profile[c]
<1>2. /\ p.gross \in Int /\ gross[c] \in Int /\ x \in Int /\ Limit[c] \in Int \cup {None}
      /\ p.limit = Limit[c]
  BY <1>1 DEF Gross, AnyProfile, PublishedIsComputed, Published, Simulate
<1>3. ~(Limit[c] # None /\ Limit[c] > 0 /\ 100 * (p.gross + x) >= 100 * Limit[c])
  <2>1. ~UtilAtLeast([p EXCEPT !.gross = @ + x], 100)
    BY DEF Simulate, WouldBreach
  <2>2. [p EXCEPT !.gross = @ + x].gross = p.gross + x /\ [p EXCEPT !.gross = @ + x].limit = p.limit
    BY <1>1 DEF AnyProfile
  <2> HIDE DEF p
  <2>3. QED
    BY <1>2, <2>1, <2>2 DEF UtilAtLeast, HasLimit
<1> HIDE DEF p
<1>4. gross[c] <= p.gross => Holds(c, x, gross)
  BY <1>2, <1>3 DEF Holds
<1>5. /\ advice' = [advice EXCEPT ![t] = [cpty |-> c, amount |-> x]]
      /\ fresh' = [fresh EXCEPT ![t] = gross[c] <= p.gross]
      /\ gross' = gross
      /\ advice \in [Trader -> [cpty : Cpty, amount : Amount] \cup {None}]
      /\ fresh \in [Trader -> BOOLEAN]
  BY DEF Simulate, TypeOK, world, p
<1>6. ASSUME NEW s \in Trader, advice'[s] # None, fresh'[s]
      PROVE  Holds(advice'[s].cpty, advice'[s].amount, gross')
  <2>1. CASE s = t
    BY <1>4, <1>5, <1>6, <2>1
  <2>2. CASE s # t
    <3>1. advice'[s] = advice[s] /\ fresh'[s] = fresh[s]
      BY <1>5, <2>2
    <3>2. QED
      BY <1>5, <1>6, <3>1, AdviceInArithmetic
  <2>3. QED
    BY <2>1, <2>2
<1>7. QED
  BY <1>6, AdviceInArithmetic

\* The steps that move exposure: they take the freshness of every answer about the
\* counterparty away unless they lower it.
LEMMA MoveSafe ==
    ASSUME TypeOK, FreshAdviceIsSafe, NEW c \in Cpty, NEW x \in Int,
           gross[c] + x \in Gross,
           gross' = [gross EXCEPT ![c] = @ + x],
           \A s \in Trader :
              advice'[s] # None /\ fresh'[s] =>
                 /\ advice'[s] = advice[s]
                 /\ fresh[s]
                 /\ x < 0 \/ advice[s].cpty # c
    PROVE  FreshAdviceIsSafe'
<1> USE DeskAssumption
<1>1. ASSUME NEW s \in Trader, advice'[s] # None, fresh'[s]
      PROVE  Holds(advice'[s].cpty, advice'[s].amount, gross')
  <2> DEFINE d == advice[s].cpty
             y == advice[s].amount
  <2>1. advice[s] \in [cpty : Cpty, amount : Amount] /\ advice'[s] = advice[s]
    BY <1>1 DEF TypeOK
  <2>2. d \in Cpty /\ y \in Int
    <3>1. d \in Cpty /\ y \in Amount
      BY <2>1
    <3>2. Amount \subseteq Int
      BY DeskAssumption
    <3>3. QED
      BY <3>1, <3>2
  <2>3. gross[d] \in Int /\ gross'[d] \in Int /\ gross'[d] <= gross[d]
    BY <1>1, <2>2 DEF TypeOK, Gross
  <2>4. Limit[d] \in Int \cup {None}
    BY <2>2
  <2>5. Holds(d, y, gross)
    BY <1>1, AdviceInArithmetic
  <2> HIDE DEF d, y
  <2>6. Holds(d, y, gross')
    BY <2>2, <2>3, <2>4, <2>5 DEF Holds
  <2>7. QED
    BY <2>1, <2>6 DEF d, y
<1>2. QED
  BY <1>1, AdviceInArithmetic

\* A step that leaves exposure and answers alone leaves them safe.
LEMMA StaySafe ==
    ASSUME FreshAdviceIsSafe, UNCHANGED <<gross, advice, fresh>>
    PROVE  FreshAdviceIsSafe'
<1>1. \A t \in Trader : advice'[t] # None /\ fresh'[t] =>
          Holds(advice'[t].cpty, advice'[t].amount, gross')
  BY AdviceInArithmetic
<1>2. QED
  BY <1>1, AdviceInArithmetic

LEMMA DeskInit == Init => IInv
BY TypeInit DEF Init, IInv, PublishedIsComputed, FreshAdviceIsSafe

LEMMA DeskStep == IInv /\ [Next]_vars => IInv'
<1> SUFFICES ASSUME IInv, [Next]_vars PROVE IInv'
  OBVIOUS
<1>1. TypeOK /\ TypeOK' /\ PublishedIsComputed /\ FreshAdviceIsSafe
  BY TypeStep DEF IInv
<1>2. ASSUME NEW reconciled \in BOOLEAN, RunCycle(reconciled) PROVE IInv'
  <2>1. UNCHANGED <<gross, advice, fresh>>
    BY <1>2 DEF RunCycle, world
  <2>2. QED
    BY <1>1, <1>2, <2>1, StaySafe, CycleInv DEF IInv
<1>3. ASSUME NEW t \in Trader, NEW c \in Cpty, NEW x \in Amount, Simulate(t, c, x)
      PROVE  IInv'
  <2>1. UNCHANGED <<latest, seen>>
    BY <1>3 DEF Simulate
  <2>2. QED
    BY <1>1, <1>3, <2>1, SimulateSafe, OtherInv DEF IInv
<1>4. ASSUME NEW t \in Trader, Book(t) PROVE IInv'
  <2>1. UNCHANGED <<latest, seen>>
    BY <1>4 DEF Book
  <2>2. advice[t] \in [cpty : Cpty, amount : Amount]
    BY <1>1, <1>4 DEF Book, TypeOK
  <2>3. advice[t].cpty \in Cpty /\ advice[t].amount \in Int
    <3>1. Amount \subseteq Int
      BY DeskAssumption
    <3>2. QED
      BY <2>2, <3>1
  <2>4. \A s \in Trader : advice'[s] # None /\ fresh'[s] =>
           /\ advice'[s] = advice[s]
           /\ fresh[s]
           /\ advice[s].cpty # advice[t].cpty
    BY <1>1, <1>4 DEF Book, TypeOK
  <2>5. FreshAdviceIsSafe'
    BY <1>1, <1>4, <2>3, <2>4, MoveSafe DEF Book
  <2>6. QED
    BY <1>1, <2>1, <2>5, OtherInv DEF IInv
<1>5. ASSUME NEW t \in Trader, Discard(t) PROVE IInv'
  <2>1. UNCHANGED <<latest, seen>>
    BY <1>5 DEF Discard
  <2>2. \A s \in Trader : advice'[s] # None /\ fresh'[s] =>
           advice'[s] = advice[s] /\ fresh[s] /\ gross' = gross
    BY <1>1, <1>5 DEF Discard, TypeOK, world
  <2>3. FreshAdviceIsSafe'
    BY <1>1, <2>2, AdviceInArithmetic
  <2>4. QED
    BY <1>1, <2>1, <2>3, OtherInv DEF IInv
<1>6. ASSUME NEW c \in Cpty, NEW x \in Int, Drift(c, x) PROVE IInv'
  <2>1. UNCHANGED <<latest, seen>> /\ advice' = advice
    BY <1>6 DEF Drift
  <2>2. \A s \in Trader : advice'[s] # None /\ fresh'[s] =>
           fresh[s] /\ (x < 0 \/ advice[s].cpty # c)
    BY <1>6, <2>1 DEF Drift
  <2>3. FreshAdviceIsSafe'
    BY <1>1, <1>6, <2>1, <2>2, MoveSafe DEF Drift
  <2>4. QED
    BY <1>1, <2>1, <2>3, OtherInv DEF IInv
<1>7. ASSUME NEW c \in Cpty,
             \/ BreakOpens(c)
             \/ BreakResolved(c)
             \/ \E figures \in Credit : CreditMoves(c, figures)
      PROVE  IInv'
  <2>1. UNCHANGED <<gross, latest, seen, advice, fresh>>
    BY <1>7 DEF BreakOpens, BreakResolved, CreditMoves
  <2>2. QED
    BY <1>1, <2>1, StaySafe, OtherInv DEF IInv
<1>8. CASE UNCHANGED vars
  <2>1. UNCHANGED <<gross, latest, seen, advice, fresh>>
    BY <1>8 DEF vars, world
  <2>2. QED
    BY <1>1, <2>1, StaySafe, OtherInv DEF IInv
<1>9. \A x \in Amount : x \in Int /\ -x \in Int
  BY DeskAssumption
<1>10. QED
  BY <1>2, <1>3, <1>4, <1>5, <1>6, <1>7, <1>8, <1>9 DEF Next, EndOfDayCycle, FastCycle

-----------------------------------------------------------------------------
(* Theorems *)

\* A PROCEED that has not gone stale keeps the desk under the limit.
THEOREM FreshAdviceSafe == Spec => []FreshAdviceIsSafe
<1>1. IInv => FreshAdviceIsSafe
  BY DEF IInv
<1>2. QED
  BY <1>1, DeskInit, DeskStep, PTL DEF Spec

\* The break override reaches the recommendations of every reconciled cycle.
THEOREM BreaksOverrideGrowth == Spec => []BreaksReachGrowth
<1>1. IInv => BreaksReachGrowth
  <2> SUFFICES ASSUME IInv, latest # None, latest.reconciled, NEW c \in seen
               PROVE  latest.action[c] = "REDUCE"
    BY DEF BreaksReachGrowth
  <2>1. c \in Cpty /\ c \in latest.breaks
    BY DEF IInv, TypeOK, PublishedIsComputed
  <2>2. latest.action[c] = Assess(Published(c), TRUE)
    BY <2>1 DEF IInv, PublishedIsComputed
  <2>3. QED
    BY <2>2 DEF Assess
<1>2. QED
  BY <1>1, DeskInit, DeskStep, PTL DEF Spec

\* The limit alert, the breach page, the growth recommendation and the what-if answer
\* of one cycle agree about every counterparty, whatever its exposure and limit, with
\* one exception: at exactly the limit the alert speaks and the breach page is silent.
THEOREM EnginesConsistent == Spec => []EnginesAgree
<1>1. IInv => EnginesAgree
  <2> SUFFICES ASSUME IInv, latest # None, NEW c \in Cpty
               PROVE  /\ latest.alert[c] = "CRITICAL" <=>
                            c \in TierPage("BREACH")
                               \/ (HasLimit(Published(c))
                                     /\ Published(c).gross = Published(c).limit)
                      /\ c \in TierPage("AMBER") <=> latest.alert[c] = "HIGH"
                      /\ c \in TierPage("GREEN") => latest.alert[c] = "NONE"
                      /\ latest.alert[c] = "CRITICAL" =>
                            latest.action[c] = "REDUCE" /\ \A x \in Amount : WouldBreach(c, x)
                      /\ latest.action[c] = "GROW" => latest.alert[c] = "NONE"
    BY DEF EnginesAgree
  <2> DEFINE p == Published(c)
  <2>1. p \in AnyProfile /\ p = latest.profile[c]
    BY DEF IInv, TypeOK, Outputs, Published
  <2>2. p.gross \in Nat /\ p.limit \in Nat \cup {None}
    BY <2>1 DEF AnyProfile
  <2>3. /\ latest.action[c] = Assess(p, c \in latest.breaks)
        /\ latest.alert[c] = LimitAlert(p)
    BY DEF IInv, PublishedIsComputed
  <2>4. ASSUME NEW x \in Amount
        PROVE  WouldBreach(c, x) <=> HasLimit(p) /\ 100 * (p.gross + x) >= 100 * p.limit
    <3>1. [p EXCEPT !.gross = @ + x].gross = p.gross + x /\ [p EXCEPT !.gross = @ + x].limit = p.limit
      BY <2>1 DEF AnyProfile
    <3>2. WouldBreach(c, x) <=> UtilAtLeast([p EXCEPT !.gross = @ + x], 100)
      BY <2>1 DEF WouldBreach
    <3> HIDE DEF p
    <3>3. QED
      BY <3>1, <3>2 DEF UtilAtLeast, HasLimit
  <2>5. /\ c \in TierPage("BREACH") <=> LimitBreached(p)
        /\ c \in TierPage("AMBER") <=> p.gross # 0 /\ UtilAtLeast(p, 85) /\ UtilBelow(p, 100)
        /\ c \in TierPage("GREEN") <=> p.gross # 0 /\ UtilBelow(p, 85)
    BY DEF TierPage, p
  <2> HIDE DEF p
  <2>6. UtilAtLeast(p, 100) <=> LimitBreached(p) \/ (HasLimit(p) /\ p.gross = p.limit)
    BY <2>2, NoneAssumption DEF LimitBreached, UtilAtLeast, HasLimit
  <2>7. UtilAtLeast(p, 100) => OverUtilized(p)
    BY <2>2, NoneAssumption DEF OverUtilized, UtilAtLeast, UtilAbove, HasLimit, ReduceFloor
  <2>8. Growable(p) => ~UtilAtLeast(p, 85) /\ ~UtilAtLeast(p, 100)
    BY <2>2, NoneAssumption DEF Growable, UtilBelow, UtilAtLeast, HasLimit, GrowCeiling
  <2>9. ASSUME UtilAtLeast(p, 100), NEW x \in Amount PROVE WouldBreach(c, x)
    <3>1. x \in Nat
      BY DeskAssumption
    <3>2. HasLimit(p) /\ 100 * p.gross >= 100 * p.limit
      BY <2>9 DEF UtilAtLeast
    <3>3. p.limit \in Nat
      BY <2>2, <3>2 DEF HasLimit
    <3>4. 100 * (p.gross + x) >= 100 * p.limit
      BY <2>2, <3>1, <3>2, <3>3
    <3>5. QED
      BY <2>4, <3>2, <3>4
  <2>10. latest.alert[c] = "CRITICAL" <=> UtilAtLeast(p, 100)
    BY <2>3 DEF LimitAlert
  <2>11. UtilAtLeast(p, 100) => latest.action[c] = "REDUCE"
    BY <2>3, <2>7 DEF Assess
  <2>12. latest.action[c] = "GROW" => Growable(p)
    BY <2>3 DEF Assess
  <2>13. Growable(p) => latest.alert[c] = "NONE"
    BY <2>3, <2>8 DEF LimitAlert, WarnPct
  <2>14. UtilAtLeast(p, 85) => p.gross # 0
    BY <2>2, NoneAssumption DEF UtilAtLeast, HasLimit
  <2>15. HasLimit(p) => /\ UtilBelow(p, 100) <=> ~UtilAtLeast(p, 100)
                        /\ UtilBelow(p, 85) <=> ~UtilAtLeast(p, 85)
                        /\ UtilAtLeast(p, 100) => UtilAtLeast(p, 85)
    BY <2>2, NoneAssumption DEF UtilAtLeast, UtilBelow, HasLimit
  <2>16. (UtilAtLeast(p, 85) \/ UtilBelow(p, 85)) => HasLimit(p)
    BY DEF UtilAtLeast, UtilBelow
  <2>17. /\ c \in TierPage("AMBER") <=> latest.alert[c] = "HIGH"
         /\ c \in TierPage("GREEN") => latest.alert[c] = "NONE"
    BY <2>3, <2>5, <2>14, <2>15, <2>16 DEF LimitAlert, WarnPct
  <2>18. latest.alert[c] = "CRITICAL" <=>
            c \in TierPage("BREACH") \/ (HasLimit(p) /\ p.gross = p.limit)
    BY <2>5, <2>6, <2>10
  <2>19. latest.alert[c] = "CRITICAL" =>
            latest.action[c] = "REDUCE" /\ \A x \in Amount : WouldBreach(c, x)
    BY <2>9, <2>10, <2>11
  <2>20. QED
    BY <2>12, <2>13, <2>17, <2>18, <2>19 DEF p
<1>2. QED
  BY <1>1, DeskInit, DeskStep, PTL DEF Spec

\* From cycle to cycle, with the book, the returns, the wrong-way flags and the watch
\* list moving in between, worse news never earns a counterparty a better treatment.
THEOREM NoPromotion == Spec => NoPromotionOnWorseNews
<1>1. IInv /\ IInv' /\ [Next]_vars =>
         [latest # None /\ latest' # None => \A c \in Cpty :
             /\ NoBetterThan(latest'.profile[c], latest.profile[c])
             /\ c \in latest.breaks => c \in latest'.breaks
             => Commitment(latest'.action[c]) <= Commitment(latest.action[c])]_vars
  <2> SUFFICES ASSUME IInv, IInv', latest # None, latest' # None, NEW c \in Cpty,
                      NoBetterThan(latest'.profile[c], latest.profile[c]),
                      c \in latest.breaks => c \in latest'.breaks
               PROVE  Commitment(latest'.action[c]) <= Commitment(latest.action[c])
    OBVIOUS
  <2>1. /\ latest.action[c] = Assess(latest.profile[c], c \in latest.breaks)
        /\ latest'.action[c] = Assess(latest'.profile[c], c \in latest'.breaks)
    BY DEF IInv, PublishedIsComputed, Published
  <2>2. latest.profile[c] \in AnyProfile /\ latest'.profile[c] \in AnyProfile
    BY DEF IInv, TypeOK, Outputs
  <2>3. (c \in latest.breaks) \in BOOLEAN /\ (c \in latest'.breaks) \in BOOLEAN
    OBVIOUS
  <2>4. QED
    BY <2>1, <2>2, <2>3, WorseNeverPromoted
<1>2. QED
  BY <1>1, DeskInit, DeskStep, PTL DEF Spec, NoPromotionOnWorseNews
=============================================================================
