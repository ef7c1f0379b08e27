----------------------- MODULE AlertPrioritizer_proofs -----------------------
(***************************************************************************)
(* Proofs about the alert prioritizer, for every set of categories and     *)
(* entities and every value of the interval, the threshold and the bounds. *)
(***************************************************************************)
EXTENDS AlertPrioritizer, FiniteSetTheorems, WellFoundedInduction, TLAPS

-----------------------------------------------------------------------------
(* Batches *)

\* The stamped batch is a finite set of alerts with distinct time stamps.
LEMMA StampedBatch ==
    ASSUME NEW raw \in RawBatch
    PROVE  /\ Stamped(raw) \subseteq Alert
           /\ IsFiniteSet(Stamped(raw))
           /\ \A a, b \in Stamped(raw) : a.raised = b.raised => a = b
<1>1. PICK n \in 0..MaxBatch : raw \in [1..n -> Raisable]
  BY DEF RawBatch
<1>2. \A i \in 1..n : Stamp(raw[i], i) \in Alert
  BY <1>1, PrioritizerAssumption DEF Raisable, Alert, Stamp
<1>3. DOMAIN raw = 1..n
  BY <1>1
<1>4. Stamped(raw) \subseteq Alert
  BY <1>2, <1>3 DEF Stamped
<1>5. IsFiniteSet(Stamped(raw))
  <2> DEFINE f == [i \in 1..n |-> Stamp(raw[i], i)]
  <2>1. f \in Surjection(1..n, Stamped(raw))
    BY <1>3 DEF Surjection, Stamped
  <2>2. IsFiniteSet(1..n)
    BY <1>1, PrioritizerAssumption, FS_Interval
  <2>3. QED
    BY <2>1, <2>2, FS_Surjection
<1>6. \A a, b \in Stamped(raw) : a.raised = b.raised => a = b
  BY <1>3 DEF Stamped, Stamp
<1>7. QED
  BY <1>4, <1>5, <1>6

\* A collapsed category has alerts.
LEMMA CollapsedNonEmpty ==
    ASSUME NEW alerts, IsFiniteSet(alerts), NEW c, Collapses(c, alerts)
    PROVE  OfCategory(c, alerts) # {}
<1>1. Cardinality({}) = 0
  BY FS_EmptySet
<1>2. QED
  BY <1>1, PrioritizerAssumption DEF Collapses

\* WorstSeverity picks a severity of the alerts that none of them exceeds.
LEMMA WorstSeverityWorst ==
    ASSUME NEW alerts \in SUBSET Alert, alerts # {}
    PROVE  /\ WorstSeverity(alerts) \in {a.severity : a \in alerts}
           /\ WorstSeverity(alerts) \in Severity
           /\ \A a \in alerts :
                 SeverityRank(WorstSeverity(alerts)) <= SeverityRank(a.severity)
<1> DEFINE Sevs == {a.severity : a \in alerts}
<1>1. Sevs \subseteq Severity /\ Sevs # {}
  BY DEF Alert
<1>2. \E s \in Sevs : \A t \in Sevs : SeverityRank(s) <= SeverityRank(t)
  <2>1. CASE "CRITICAL" \in Sevs
    BY <2>1, <1>1 DEF SeverityRank, Severity
  <2>2. CASE "CRITICAL" \notin Sevs /\ "HIGH" \in Sevs
    BY <2>2, <1>1 DEF SeverityRank, Severity
  <2>3. CASE "CRITICAL" \notin Sevs /\ "HIGH" \notin Sevs /\ "MEDIUM" \in Sevs
    BY <2>3, <1>1 DEF SeverityRank, Severity
  <2>4. CASE Sevs = {"LOW"}
    BY <2>4 DEF SeverityRank
  <2>5. QED
    BY <1>1, <2>1, <2>2, <2>3, <2>4 DEF Severity
<1>3. \E s \in Sevs : \A a \in alerts : SeverityRank(s) <= SeverityRank(a.severity)
  BY <1>2
<1>4. QED
  BY <1>1, <1>3 DEF WorstSeverity

\* The list the deduplication walks is a finite set of alerts.
LEMMA ProcessedType ==
    ASSUME NEW alerts \in SUBSET Alert, IsFiniteSet(alerts)
    PROVE  Processed(alerts) \subseteq Alert /\ IsFiniteSet(Processed(alerts))
<1>1. Cardinality(alerts) \in Nat
  BY FS_CardinalityType
<1>2. ASSUME NEW c \in CollapsedCategories(alerts)
      PROVE  Summary(c, alerts) \in Alert
  <2>1. OfCategory(c, alerts) # {} /\ OfCategory(c, alerts) \in SUBSET Alert
    BY <1>2, CollapsedNonEmpty DEF CollapsedCategories, OfCategory
  <2>2. WorstSeverity(OfCategory(c, alerts)) \in Severity
    BY <2>1, WorstSeverityWorst
  <2>3. QED
    BY <1>1, <1>2, <2>2 DEF Summary, Alert, CollapsedCategories
<1>3. Kept(alerts) \subseteq alerts
  BY DEF Kept
<1> DEFINE Collapsed == {a \in alerts : Collapses(a.category, alerts)}
           Summaries == {Summary(c, alerts) : c \in CollapsedCategories(alerts)}
           f == [a \in Collapsed |-> Summary(a.category, alerts)]
<1>4. f \in Surjection(Collapsed, Summaries)
  <2>1. \A a \in Collapsed : a.category \in CollapsedCategories(alerts)
    BY DEF CollapsedCategories, Alert
  <2>2. \A c \in CollapsedCategories(alerts) : \E a \in Collapsed : a.category = c
    BY CollapsedNonEmpty DEF CollapsedCategories, OfCategory
  <2>3. QED
    BY <2>1, <2>2 DEF Surjection
<1>5. IsFiniteSet(Kept(alerts)) /\ IsFiniteSet(Collapsed)
  BY <1>3, FS_Subset
<1>6. IsFiniteSet(Summaries)
  BY <1>4, <1>5, FS_Surjection
<1>7. QED
  BY <1>2, <1>3, <1>5, <1>6, FS_Union DEF Processed

LEMMA FiredKeysType ==
    ASSUME NEW alerts \in SUBSET Alert, IsFiniteSet(alerts)
    PROVE  FiredKeys(alerts) \subseteq Key
BY ProcessedType DEF FiredKeys, ActiveIn, DedupKey, Key, Alert

LEMMA PrioritizedType ==
    ASSUME NEW alerts \in SUBSET Alert, IsFiniteSet(alerts)
    PROVE  Prioritized(alerts) \subseteq FeedEntry
<1> DEFINE list == Processed(alerts)
           active == ActiveIn(list)
<1>1. list \subseteq Alert /\ IsFiniteSet(list) /\ active \subseteq list
  BY ProcessedType DEF ActiveIn
<1>2. \A a \in active : Rank(a, active, alerts) \in Nat
  <2> TAKE a \in active
  <2> DEFINE before == {b \in active : RankedBefore(b, a, alerts)}
  <2>1. IsFiniteSet(before)
    BY <1>1, FS_Subset
  <2>2. Cardinality(before) \in Nat
    BY <2>1, FS_CardinalityType
  <2>3. QED
    BY <2>2 DEF Rank
<1>3. ASSUME NEW a \in active
      PROVE  [alert |-> a, suppressed |-> FALSE, rank |-> Rank(a, active, alerts)]
                \in FeedEntry
  BY <1>1, <1>2 DEF FeedEntry
<1>4. ASSUME NEW a \in list \ active
      PROVE  [alert |-> a, suppressed |-> TRUE, rank |-> 0] \in FeedEntry
  BY <1>1 DEF FeedEntry
<1>5. QED
  BY <1>3, <1>4 DEF Prioritized

-----------------------------------------------------------------------------
(* Type correctness *)

\* The registry never holds a time in the future, and the returned list is well
\* formed, whatever is raised and whenever the registry is reset.
THEOREM TypeCorrect == Spec => []TypeOK
<1>1. Init => TypeOK
  BY PrioritizerAssumption DEF Init, TypeOK
<1>2. TypeOK /\ [Next]_vars => TypeOK'
  <2> SUFFICES ASSUME TypeOK, [Next]_vars PROVE TypeOK'
    OBVIOUS
  <2> USE DEF TypeOK
  <2>1. ASSUME NEW raw \in RawBatch, Prioritize(raw) PROVE TypeOK'
    <3> DEFINE alerts == Stamped(raw)
    <3>1. alerts \in SUBSET Alert /\ IsFiniteSet(alerts)
      BY StampedBatch
    <3>2. batch' \subseteq Alert /\ feed' \subseteq FeedEntry
      BY <2>1, <3>1, PrioritizedType DEF Prioritize
    <3>3. registry' \in [Key -> 0..now \cup {Never}] /\ now' = now
      BY <2>1 DEF Prioritize, Registered
    <3>4. QED
      BY <3>2, <3>3
  <2>2. CASE Reset
    BY <2>2 DEF Reset
  <2>3. CASE Tick
    <3>1. now' \in 0..MaxClock /\ 0..now \subseteq 0..now'
      BY <2>3, PrioritizerAssumption DEF Tick
    <3>2. QED
      BY <2>3, <3>1 DEF Tick
  <2>4. CASE UNCHANGED vars
    BY <2>4 DEF vars
  <2>5. QED
    BY <2>1, <2>2, <2>3, <2>4 DEF Next
<1>3. QED
  BY <1>1, <1>2, PTL DEF Spec

-----------------------------------------------------------------------------
(* What one call puts in front of the desk *)

LEMMA CollectedBeforeOrder ==
    /\ \A a \in Alert : ~CollectedBefore(a, a)
    /\ \A a, b, c \in Alert :
          CollectedBefore(a, b) /\ CollectedBefore(b, c) => CollectedBefore(a, c)
    /\ \A a, b \in Alert :
          CollectedBefore(a, b) \/ CollectedBefore(b, a) \/ a.raised = b.raised
<1>1. \A a \in Alert : a.severity \in Severity /\ a.raised \in Nat
  BY DEF Alert
<1>2. \A s \in Severity : SeverityRank(s) \in Nat
  BY DEF Severity, SeverityRank
<1>3. \A s, t \in Severity : SeverityRank(s) = SeverityRank(t) => s = t
  BY DEF Severity, SeverityRank
<1>4. QED
  BY <1>1, <1>2, <1>3 DEF CollectedBefore

\* Of any finite set of alerts there is one that no other precedes.
LEMMA FirstCollected ==
    ASSUME NEW S \in SUBSET Alert, IsFiniteSet(S), S # {}
    PROVE  \E m \in S : \A b \in S : ~CollectedBefore(b, m)
<1> DEFINE Down(m) == {b \in S : CollectedBefore(b, m)}
           T == {Down(m) : m \in S}
<1>1. T \subseteq FiniteSubsetsOf(S) /\ T # {}
  <2>1. \A m \in S : Down(m) \subseteq S /\ IsFiniteSet(Down(m))
    BY FS_Subset
  <2>2. QED
    BY <2>1 DEF FiniteSubsetsOf
<1>2. IsWellFoundedOn(StrictSubsetOrdering(S), FiniteSubsetsOf(S))
  BY FS_StrictSubsetOrderingWellFounded
<1>3. PICK D \in T : \A E \in T : <<E, D>> \notin StrictSubsetOrdering(S)
  <2> HIDE DEF T
  <2> QED
    BY <1>1, <1>2, WFMin
<1>4. PICK m \in S : D = Down(m)
  BY <1>3
<1>5. Down(m) = {}
  <2> SUFFICES ASSUME NEW b \in Down(m) PROVE FALSE
    OBVIOUS
  <2>1. Down(b) \subseteq Down(m)
    BY <1>4, CollectedBeforeOrder
  <2>2. b \in Down(m) /\ b \notin Down(b)
    BY CollectedBeforeOrder
  <2>3. <<Down(b), D>> \in StrictSubsetOrdering(S)
    BY <1>4, <2>1, <2>2 DEF StrictSubsetOrdering
  <2>4. QED
    BY <1>3, <2>3
<1>6. QED
  BY <1>4, <1>5

\* Among the processed alerts of a key there is one that no other precedes.
LEMMA FirstOfKey ==
    ASSUME NEW alerts \in SUBSET Alert, IsFiniteSet(alerts),
           NEW a \in Processed(alerts)
    PROVE  \E m \in Processed(alerts) :
              /\ DedupKey(m) = DedupKey(a)
              /\ \A b \in Processed(alerts) \ {m} :
                    ~(DedupKey(b) = DedupKey(m) /\ CollectedBefore(b, m))
<1> DEFINE list == Processed(alerts)
           same == {b \in list : DedupKey(b) = DedupKey(a)}
<1>1. list \subseteq Alert /\ IsFiniteSet(list)
  BY ProcessedType
<1>2. same \in SUBSET Alert /\ IsFiniteSet(same) /\ same # {}
  BY <1>1, FS_Subset
<1>3. PICK m \in same : \A b \in same : ~CollectedBefore(b, m)
  BY <1>2, FirstCollected
<1>4. QED
  BY <1>3

\* Every key of the processed list is in the registry after the pass, with a time
\* younger than the interval.
LEMMA EveryKeyRecentAfter ==
    ASSUME NEW alerts \in SUBSET Alert, IsFiniteSet(alerts), TypeOK,
           NEW a \in Processed(alerts)
    PROVE  /\ DedupKey(a) \in Key
           /\ Registered(alerts)[DedupKey(a)] # Never
           /\ now - Registered(alerts)[DedupKey(a)] < Interval
<1>1. PICK m \in Processed(alerts) :
         /\ DedupKey(m) = DedupKey(a)
         /\ \A b \in Processed(alerts) \ {m} :
               ~(DedupKey(b) = DedupKey(m) /\ CollectedBefore(b, m))
  BY FirstOfKey
<1>2. DedupKey(a) \in Key
  BY ProcessedType DEF DedupKey, Key, Alert
<1>3. CASE Recent(DedupKey(a))
  <2>1. DedupKey(a) \notin FiredKeys(alerts)
    BY <1>3 DEF FiredKeys, ActiveIn, Suppressed
  <2>2. QED
    BY <1>2, <1>3, <2>1 DEF Recent, Registered
<1>4. CASE ~Recent(DedupKey(a))
  <2>1. m \in ActiveIn(Processed(alerts))
    BY <1>1, <1>4 DEF ActiveIn, Suppressed
  <2>2. DedupKey(a) \in FiredKeys(alerts)
    BY <1>1, <2>1 DEF FiredKeys
  <2>3. Registered(alerts)[DedupKey(a)] = now
    BY <1>2, <2>2 DEF Registered
  <2>4. QED
    BY <1>2, <2>3, PrioritizerAssumption DEF TypeOK
<1>5. QED
  BY <1>3, <1>4

\* The alert that shows a condition of the batch is in the processed list.
LEMMA ShownIsProcessed ==
    ASSUME NEW alerts \in SUBSET Alert, NEW a \in alerts
    PROVE  \E s \in Processed(alerts) :
              DedupKey(s) = IF Collapses(a.category, alerts)
                            THEN <<a.category, BookWide>> ELSE DedupKey(a)
<1>1. CASE Collapses(a.category, alerts)
  <2>1. Summary(a.category, alerts) \in Processed(alerts)
    BY <1>1 DEF Processed, CollapsedCategories, Alert
  <2>2. DedupKey(Summary(a.category, alerts)) = <<a.category, BookWide>>
    BY DEF DedupKey, Summary
  <2>3. QED
    BY <1>1, <2>1, <2>2
<1>2. CASE ~Collapses(a.category, alerts)
  BY <1>2 DEF Processed, Kept
<1>3. QED
  BY <1>1, <1>2

\* An entry of the returned list stands for an alert of the processed list; it is
\* active exactly when the deduplication let the alert through.
LEMMA PrioritizedEntry ==
    ASSUME NEW alerts, NEW e \in Prioritized(alerts)
    PROVE  /\ e.alert \in Processed(alerts)
           /\ ~e.suppressed <=> e.alert \in ActiveIn(Processed(alerts))
           /\ ~e.suppressed =>
                 e = [alert |-> e.alert, suppressed |-> FALSE,
                      rank |-> Rank(e.alert, ActiveIn(Processed(alerts)), alerts)]
BY DEF Prioritized, ActiveIn

LEMMA EveryProcessedListed ==
    ASSUME NEW alerts, NEW s \in Processed(alerts)
    PROVE  \E e \in Prioritized(alerts) : e.alert = s
<1> DEFINE active == ActiveIn(Processed(alerts))
           shown  == [alert |-> s, suppressed |-> FALSE, rank |-> Rank(s, active, alerts)]
           hidden == [alert |-> s, suppressed |-> TRUE, rank |-> 0]
<1>1. CASE s \in active
  <2>1. shown \in Prioritized(alerts) /\ shown.alert = s
    BY <1>1 DEF Prioritized
  <2>2. QED
    BY <2>1
<1>2. CASE s \notin active
  <2>1. hidden \in Prioritized(alerts) /\ hidden.alert = s
    BY <1>2 DEF Prioritized
  <2>2. QED
    BY <2>1
<1>3. QED
  BY <1>1, <1>2

\* No condition is dropped: each one of a batch is in front of the desk, now or
\* by an alert of the same key that is younger than the interval.
THEOREM NothingDropped == Spec => []ConditionsAccounted
<1>1. Init => ConditionsAccounted
  BY DEF Init, ConditionsAccounted
<1>2. TypeOK /\ ConditionsAccounted /\ [Next]_vars => ConditionsAccounted'
  <2> SUFFICES ASSUME TypeOK, ConditionsAccounted, [Next]_vars
               PROVE  ConditionsAccounted'
    OBVIOUS
  <2>1. ASSUME NEW raw \in RawBatch, Prioritize(raw) PROVE ConditionsAccounted'
    <3> DEFINE alerts == Stamped(raw)
    <3>1. alerts \in SUBSET Alert /\ IsFiniteSet(alerts)
      BY StampedBatch
    <3>2. /\ batch' = alerts /\ feed' = Prioritized(alerts)
          /\ registry' = Registered(alerts) /\ now' = now
      BY <2>1 DEF Prioritize
    <3> HIDE DEF alerts
    <3> SUFFICES ASSUME NEW a \in alerts
                 PROVE  /\ Recent(ShownKey(a))'
                        /\ \E e \in feed' : DedupKey(e.alert) = ShownKey(a)'
                        /\ \A e \in feed' :
                              DedupKey(e.alert) = ShownKey(a)' /\ ~e.suppressed
                                => registry'[ShownKey(a)'] = now'
      BY <3>2 DEF ConditionsAccounted
    <3>3. PICK s \in Processed(alerts) : DedupKey(s) = ShownKey(a)'
      BY <3>1, <3>2, ShownIsProcessed DEF ShownKey
    <3>4. Recent(ShownKey(a))'
      BY <3>1, <3>2, <3>3, EveryKeyRecentAfter DEF Recent
    <3>5. \E e \in feed' : DedupKey(e.alert) = ShownKey(a)'
      BY <3>2, <3>3, EveryProcessedListed
    <3>6. ASSUME NEW e \in feed', DedupKey(e.alert) = ShownKey(a)', ~e.suppressed
          PROVE  registry'[ShownKey(a)'] = now'
      <4>1. ShownKey(a)' \in FiredKeys(alerts)
        BY <3>2, <3>6, PrioritizedEntry DEF FiredKeys
      <4>2. ShownKey(a)' \in Key
        BY <3>1, <4>1, FiredKeysType
      <4>3. QED
        BY <3>2, <4>1, <4>2 DEF Registered
    <3>7. QED
      BY <3>4, <3>5, <3>6
  <2>2. CASE Reset
    BY <2>2 DEF Reset, ConditionsAccounted
  <2>3. CASE Tick
    BY <2>3 DEF Tick, ConditionsAccounted
  <2>4. CASE UNCHANGED vars
    BY <2>4 DEF vars, ConditionsAccounted, ShownKey, Recent, Collapses, OfCategory,
                DedupKey
  <2>5. QED
    BY <2>1, <2>2, <2>3, <2>4 DEF Next
<1>3. QED
  BY <1>1, <1>2, TypeCorrect, PTL DEF Spec

\* Two active alerts of one key are the same alert.
LEMMA OneActivePerKey ==
    ASSUME NEW alerts \in SUBSET Alert, IsFiniteSet(alerts),
           \A a, b \in alerts : a.raised = b.raised => a = b,
           NEW x \in ActiveIn(Processed(alerts)),
           NEW y \in ActiveIn(Processed(alerts)),
           DedupKey(x) = DedupKey(y)
    PROVE  x = y
<1>1. x \in Alert /\ y \in Alert
  BY ProcessedType DEF ActiveIn
<1>2. x # y => ~CollectedBefore(x, y) /\ ~CollectedBefore(y, x)
  BY DEF ActiveIn, Suppressed
<1>3. x # y => x.raised = y.raised
  BY <1>1, <1>2, CollectedBeforeOrder
<1>4. x.category = y.category
  BY DEF DedupKey
<1>5. CASE Collapses(x.category, alerts)
  <2>1. x = Summary(x.category, alerts) /\ y = Summary(x.category, alerts)
    BY <1>4, <1>5 DEF ActiveIn, Processed, Kept, Summary
  <2>2. QED
    BY <2>1
<1>6. CASE ~Collapses(x.category, alerts)
  <2>1. x \in alerts /\ y \in alerts
    BY <1>4, <1>6 DEF ActiveIn, Processed, Kept, CollapsedCategories, Summary
  <2>2. QED
    BY <1>3, <2>1
<1>7. QED
  BY <1>5, <1>6

\* An active alert is at least as severe as every condition it stands for.
LEMMA ActiveIsWorst ==
    ASSUME NEW alerts \in SUBSET Alert, IsFiniteSet(alerts),
           NEW x \in ActiveIn(Processed(alerts)), NEW a \in alerts,
           DedupKey(x) = IF Collapses(a.category, alerts)
                         THEN <<a.category, BookWide>> ELSE DedupKey(a)
    PROVE  SeverityRank(x.severity) <= SeverityRank(a.severity)
<1>1. x \in Alert /\ x \in Processed(alerts)
  BY ProcessedType DEF ActiveIn
<1>2. x.category = a.category
  BY DEF DedupKey
<1>3. CASE Collapses(a.category, alerts)
  <2>1. x = Summary(a.category, alerts)
    BY <1>1, <1>2, <1>3 DEF Processed, Kept, Summary
  <2>2. a \in OfCategory(a.category, alerts)
        /\ OfCategory(a.category, alerts) \in SUBSET Alert
    BY DEF OfCategory
  <2>3. QED
    BY <2>1, <2>2, WorstSeverityWorst DEF Summary
<1>4. CASE ~Collapses(a.category, alerts)
  <2>1. x \in alerts /\ a \in Processed(alerts)
    BY <1>1, <1>2, <1>4 DEF Processed, Kept, CollapsedCategories, Summary
  <2>2. a = x \/ ~CollectedBefore(a, x)
    BY <1>4, <2>1 DEF ActiveIn, Suppressed
  <2>3. \A s \in Severity : SeverityRank(s) \in Nat
    BY DEF Severity, SeverityRank
  <2>4. a.severity \in Severity /\ x.severity \in Severity
    BY <1>1 DEF Alert
  <2>5. QED
    BY <2>2, <2>3, <2>4 DEF CollectedBefore
<1>5. QED
  BY <1>3, <1>4

\* The desk sees every key once, at the worst severity that is open for it.
THEOREM WorstIsShown == Spec => []ShownSeverityIsWorst
<1>1. Init => ShownSeverityIsWorst
  BY DEF Init, ShownSeverityIsWorst
<1>2. ShownSeverityIsWorst /\ [Next]_vars => ShownSeverityIsWorst'
  <2> SUFFICES ASSUME ShownSeverityIsWorst, [Next]_vars
               PROVE  ShownSeverityIsWorst'
    OBVIOUS
  <2>1. ASSUME NEW raw \in RawBatch, Prioritize(raw) PROVE ShownSeverityIsWorst'
    <3> DEFINE alerts == Stamped(raw)
    <3>1. /\ alerts \in SUBSET Alert /\ IsFiniteSet(alerts)
          /\ \A a, b \in alerts : a.raised = b.raised => a = b
      BY StampedBatch
    <3>2. batch' = alerts /\ feed' = Prioritized(alerts)
      BY <2>1 DEF Prioritize
    <3> HIDE DEF alerts
    <3> SUFFICES ASSUME NEW e \in feed', ~e.suppressed
                 PROVE  /\ \A a \in alerts : ShownKey(a)' = DedupKey(e.alert)
                             => SeverityRank(e.alert.severity)
                                  <= SeverityRank(a.severity)
                        /\ \A f \in feed' :
                             ~f.suppressed /\ DedupKey(f.alert) = DedupKey(e.alert)
                               => f = e
      BY <3>2 DEF ShownSeverityIsWorst
    <3>3. e.alert \in ActiveIn(Processed(alerts))
      BY <3>2, PrioritizedEntry
    <3>4. ASSUME NEW a \in alerts, ShownKey(a)' = DedupKey(e.alert)
          PROVE  SeverityRank(e.alert.severity) <= SeverityRank(a.severity)
      BY <3>1, <3>2, <3>3, <3>4, ActiveIsWorst DEF ShownKey
    <3>5. ASSUME NEW f \in feed', ~f.suppressed, DedupKey(f.alert) = DedupKey(e.alert)
          PROVE  f = e
      <4>1. f.alert \in ActiveIn(Processed(alerts))
        BY <3>2, <3>5, PrioritizedEntry
      <4>2. f.alert = e.alert
        BY <3>1, <3>3, <3>5, <4>1, OneActivePerKey
      <4> DEFINE Shown(x) == [alert |-> x, suppressed |-> FALSE,
                              rank |-> Rank(x, ActiveIn(Processed(alerts)), alerts)]
      <4>3. e = Shown(e.alert)
        BY <3>2, PrioritizedEntry
      <4>4. f = Shown(f.alert)
        BY <3>2, <3>5, PrioritizedEntry
      <4>5. QED
        BY <4>2, <4>3, <4>4
    <3>6. QED
      BY <3>4, <3>5
  <2>2. CASE Reset
    BY <2>2 DEF Reset, ShownSeverityIsWorst
  <2>3. CASE Tick
    BY <2>3 DEF Tick, ShownSeverityIsWorst
  <2>4. CASE UNCHANGED vars
    BY <2>4 DEF vars, ShownSeverityIsWorst, ShownKey, Collapses, OfCategory, DedupKey
  <2>5. QED
    BY <2>1, <2>2, <2>3, <2>4 DEF Next
<1>3. QED
  BY <1>1, <1>2, PTL DEF Spec

-----------------------------------------------------------------------------
(* Refinement *)

\* The keys of the list that the deduplication walks.
Asked(alerts) == {DedupKey(a) : a \in Processed(alerts)}

\* A call of prioritize_alerts fires the keys of its list that are due, and no other.
LEMMA ExactlyDueKeysFire ==
    ASSUME NEW alerts \in SUBSET Alert, IsFiniteSet(alerts), TypeOK
    PROVE  FiredKeys(alerts) = {k \in Asked(alerts) : Limiter!Due(k)}
<1>1. \A k \in Asked(alerts) : k \in Key
  BY ProcessedType DEF Asked, DedupKey, Key, Alert
<1>2. \A k \in Key : Limiter!Due(k) <=> ~Recent(k)
  BY PrioritizerAssumption DEF Recent, TypeOK, Limiter!Due
<1>3. ASSUME NEW k \in FiredKeys(alerts) PROVE k \in Asked(alerts) /\ ~Recent(k)
  BY DEF FiredKeys, Asked, ActiveIn, Suppressed
<1>4. ASSUME NEW a \in Processed(alerts), ~Recent(DedupKey(a))
      PROVE  DedupKey(a) \in FiredKeys(alerts)
  <2>1. PICK m \in Processed(alerts) :
           /\ DedupKey(m) = DedupKey(a)
           /\ \A b \in Processed(alerts) \ {m} :
                 ~(DedupKey(b) = DedupKey(m) /\ CollectedBefore(b, m))
    BY FirstOfKey
  <2>2. m \in ActiveIn(Processed(alerts))
    BY <1>4, <2>1 DEF ActiveIn, Suppressed
  <2>3. QED
    BY <2>1, <2>2 DEF FiredKeys
<1>5. QED
  BY <1>1, <1>2, <1>3, <1>4 DEF Asked

LEMMA NothingAsked == Asked({}) = {}
<1>1. Cardinality({}) = 0
  BY FS_EmptySet
<1>2. \A c \in Category : ~Collapses(c, {})
  BY <1>1, PrioritizerAssumption DEF Collapses, OfCategory
<1>3. QED
  BY <1>2 DEF Asked, Processed, Kept, CollapsedCategories

\* The prioritizer implements the per-condition rate limiter: a call asks for the
\* keys of its list, a reset is a Forget, a tick is a Tick.
THEOREM ImplementsRateLimit == Spec => RateLimited
<1>1. Init => Limiter!Init
  BY NothingAsked DEF Init, Limiter!Init, Asked
<1>2. TypeOK /\ [Next]_vars => [Limiter!Next]_(Limiter!rlVars)
  <2> SUFFICES ASSUME TypeOK, [Next]_vars
               PROVE  [Limiter!Next]_(Limiter!rlVars)
    OBVIOUS
  <2>1. ASSUME NEW raw \in RawBatch, Prioritize(raw)
        PROVE  \E S \in SUBSET Key : Limiter!Ask(S)
    <3> DEFINE alerts == Stamped(raw)
               S == Asked(alerts)
    <3>1. alerts \in SUBSET Alert /\ IsFiniteSet(alerts)
      BY StampedBatch
    <3>2. S \in SUBSET Key
      BY <3>1, ProcessedType DEF Asked, DedupKey, Key, Alert
    <3>3. FiredKeys(alerts) = {k \in S : Limiter!Due(k)}
      BY <3>1, ExactlyDueKeysFire
    <3>4. batch' = alerts /\ now' = now /\ registry' = Registered(alerts)
      BY <2>1 DEF Prioritize
    <3>5. {DedupKey(a) : a \in Processed(batch')} = S
      BY <3>4 DEF Asked
    <3>6. registry' = [k \in Key |-> IF k \in S /\ Limiter!Due(k) THEN now ELSE registry[k]]
      BY <3>3, <3>4 DEF Registered
    <3>7. Limiter!Ask(S)
      BY <3>4, <3>5, <3>6 DEF Limiter!Ask, Asked
    <3>8. QED
      BY <3>2, <3>7
  <2>2. CASE Reset
    BY <2>2, NothingAsked DEF Reset, Limiter!Next, Limiter!Forget, Asked
  <2>3. CASE Tick
    BY <2>3, NothingAsked DEF Tick, Limiter!Next, Limiter!Tick, Asked
  <2>4. CASE UNCHANGED vars
    BY <2>4 DEF vars, Limiter!rlVars
  <2>5. QED
    BY <2>1, <2>2, <2>3, <2>4 DEF Next, Limiter!Next
<1>3. QED
  BY <1>1, <1>2, TypeCorrect, PTL DEF Spec, RateLimited, Limiter!Spec

-----------------------------------------------------------------------------
(* The order of the feed *)

\* What the deduplication is given: alerts of one cycle, no two raised at once.
Batch(alerts) ==
    /\ alerts \subseteq Alert
    /\ IsFiniteSet(alerts)
    /\ \A a, b \in alerts : a.raised = b.raised => a = b

\* The first collected alert of a category that has any is one of them.
LEMMA FirstOfCategory ==
    ASSUME NEW alerts, Batch(alerts), NEW c, OfCategory(c, alerts) # {}
    PROVE  FirstOf(c, alerts) \in OfCategory(c, alerts)
<1> DEFINE S == OfCategory(c, alerts)
<1>1. S \subseteq alerts /\ S \in SUBSET Alert /\ IsFiniteSet(S)
  BY FS_Subset DEF Batch, OfCategory
<1>2. PICK m \in S : \A b \in S : ~CollectedBefore(b, m)
  BY <1>1, FirstCollected
<1>3. \A b \in S \ {m} : CollectedBefore(m, b)
  BY <1>1, <1>2, CollectedBeforeOrder DEF Batch
<1>4. \E a \in S : \A b \in S \ {a} : CollectedBefore(a, b)
  BY <1>3
<1>5. QED
  BY <1>4 DEF FirstOf

\* An alert of the processed list has a category with alerts in the batch; two that
\* are raised at once have different ones.
LEMMA ProcessedTies ==
    ASSUME NEW alerts, Batch(alerts)
    PROVE  /\ \A a \in Processed(alerts) : OfCategory(a.category, alerts) # {}
           /\ \A a, b \in Processed(alerts) :
                 a # b /\ a.raised = b.raised => a.category # b.category
<1>1. \A a \in Processed(alerts) :
         \/ a \in Kept(alerts)
         \/ Collapses(a.category, alerts) /\ a = Summary(a.category, alerts)
  BY DEF Processed, CollapsedCategories, Summary
<1>2. \A a \in Kept(alerts) : a \in alerts /\ ~Collapses(a.category, alerts)
  BY DEF Kept
<1>3. \A a \in Processed(alerts) : OfCategory(a.category, alerts) # {}
  BY <1>1, <1>2, CollapsedNonEmpty DEF Batch, OfCategory
<1>4. \A a, b \in Processed(alerts) :
         a # b /\ a.raised = b.raised => a.category # b.category
  BY <1>1, <1>2 DEF Batch
<1>5. QED
  BY <1>3, <1>4

\* The sort key orders the processed list strictly and leaves no tie.
LEMMA RankedBeforeOrder ==
    ASSUME NEW alerts, Batch(alerts)
    PROVE  /\ \A a \in Processed(alerts) : ~RankedBefore(a, a, alerts)
           /\ \A a, b, c \in Processed(alerts) :
                 RankedBefore(a, b, alerts) /\ RankedBefore(b, c, alerts)
                    => RankedBefore(a, c, alerts)
           /\ \A a, b \in Processed(alerts) :
                 a = b \/ RankedBefore(a, b, alerts) \/ RankedBefore(b, a, alerts)
<1> DEFINE First(a) == FirstOf(a.category, alerts)
           P == Processed(alerts)
<1>1. \A a \in P : a \in Alert
  BY ProcessedType DEF Batch
<1>2. \A a \in P : a.severity \in Severity /\ a.raised \in Nat
  BY <1>1 DEF Alert
<1>3. \A s \in Severity : SeverityRank(s) \in Nat /\ ~(PnlAtRisk(s) > PnlAtRisk(s))
  BY DEF Severity, SeverityRank, PnlAtRisk
<1>4. \A s, t \in Severity : SeverityRank(s) = SeverityRank(t) => s = t
  BY DEF Severity, SeverityRank
<1>5. \A a \in P : First(a) \in alerts /\ First(a).category = a.category
  BY FirstOfCategory, ProcessedTies DEF OfCategory
<1>6. \A a \in P : First(a) \in Alert
  BY <1>5 DEF Batch
<1>7. \A a \in P : ~CollectedBefore(First(a), First(a))
  BY <1>6, CollectedBeforeOrder
<1>8. \A a, b, c \in P :
         CollectedBefore(First(a), First(b)) /\ CollectedBefore(First(b), First(c))
            => CollectedBefore(First(a), First(c))
  BY <1>6, CollectedBeforeOrder
<1>9. \A a, b \in P : a # b /\ a.raised = b.raised =>
         CollectedBefore(First(a), First(b)) \/ CollectedBefore(First(b), First(a))
  <2> SUFFICES ASSUME NEW a \in P, NEW b \in P, a # b, a.raised = b.raised
               PROVE  \/ CollectedBefore(First(a), First(b))
                      \/ CollectedBefore(First(b), First(a))
    OBVIOUS
  <2>1. First(a) # First(b)
    BY <1>5, ProcessedTies
  <2>2. First(a).raised # First(b).raised
    BY <1>5, <2>1 DEF Batch
  <2>3. QED
    BY <1>6, <2>2, CollectedBeforeOrder
<1> DEFINE Tie(a, b) == CollectedBefore(First(a), First(b))
<1>10. \A a, b \in P : RankedBefore(a, b, alerts) <=>
          \/ SeverityRank(a.severity) < SeverityRank(b.severity)
          \/ /\ a.severity = b.severity
             /\ a.raised < b.raised \/ (a.raised = b.raised /\ Tie(a, b))
  BY <1>2, <1>3 DEF RankedBefore
<1> HIDE DEF First, P, Tie
<1>11. \A a \in P : ~Tie(a, a)
  BY <1>7 DEF Tie
<1>12. \A a, b, c \in P : Tie(a, b) /\ Tie(b, c) => Tie(a, c)
  BY <1>8 DEF Tie
<1>13. \A a, b \in P : a # b /\ a.raised = b.raised => Tie(a, b) \/ Tie(b, a)
  BY <1>9 DEF Tie
<1>14. \A a \in P : ~RankedBefore(a, a, alerts)
  BY <1>2, <1>3, <1>10, <1>11
<1>15. ASSUME NEW a \in P, NEW b \in P, NEW c \in P,
              RankedBefore(a, b, alerts), RankedBefore(b, c, alerts)
       PROVE  RankedBefore(a, c, alerts)
  BY <1>2, <1>3, <1>10, <1>12, <1>15
<1>16. ASSUME NEW a \in P, NEW b \in P, a # b
       PROVE  RankedBefore(a, b, alerts) \/ RankedBefore(b, a, alerts)
  BY <1>2, <1>3, <1>4, <1>10, <1>13, <1>16
<1>17. QED
  BY <1>14, <1>15, <1>16 DEF P

\* Ranks follow the order of the list and run from 1 to its length without a gap.
LEMMA RanksRun ==
    ASSUME NEW alerts, Batch(alerts), NEW active \in SUBSET Processed(alerts)
    PROVE  /\ IsFiniteSet(active)
           /\ \A a, b \in active :
                 RankedBefore(a, b, alerts)
                    => Rank(a, active, alerts) < Rank(b, active, alerts)
           /\ \A a \in active : Rank(a, active, alerts) \in Nat
           /\ {Rank(a, active, alerts) : a \in active} = 1..Cardinality(active)
<1> DEFINE R(a) == Rank(a, active, alerts)
           Before(a) == {b \in active : RankedBefore(b, a, alerts)}
           n == Cardinality(active)
<1>1. IsFiniteSet(active) /\ n \in Nat
  BY ProcessedType, FS_Subset, FS_CardinalityType DEF Batch
<1>2. ASSUME NEW a \in active
      PROVE  /\ IsFiniteSet(Before(a)) /\ Cardinality(Before(a)) \in Nat
             /\ R(a) = 1 + Cardinality(Before(a))
  <2>1. IsFiniteSet(Before(a))
    BY <1>1, FS_Subset
  <2>2. QED
    BY <2>1, FS_CardinalityType DEF Rank
<1>3. ASSUME NEW a \in active PROVE R(a) \in 1..n
  <2>1. Before(a) \subseteq active \ {a}
    BY RankedBeforeOrder
  <2>2. IsFiniteSet(active \ {a}) /\ Cardinality(active \ {a}) = n - 1
    BY <1>1, FS_RemoveElement
  <2>3. Cardinality(Before(a)) <= n - 1
    BY <2>1, <2>2, FS_Subset
  <2>4. QED
    BY <1>1, <1>2, <2>3
<1>4. ASSUME NEW a \in active, NEW b \in active, RankedBefore(a, b, alerts)
      PROVE  R(a) < R(b)
  <2>1. Before(a) \subseteq Before(b)
    BY <1>4, RankedBeforeOrder
  <2>2. a \in Before(b) /\ a \notin Before(a)
    BY <1>4, RankedBeforeOrder
  <2>3. /\ Cardinality(Before(a)) <= Cardinality(Before(b))
        /\ Cardinality(Before(a)) # Cardinality(Before(b))
    BY <1>2, <2>1, <2>2, FS_Subset
  <2>4. /\ R(a) = 1 + Cardinality(Before(a)) /\ Cardinality(Before(a)) \in Nat
        /\ R(b) = 1 + Cardinality(Before(b)) /\ Cardinality(Before(b)) \in Nat
    BY <1>2
  <2> HIDE DEF R, Before
  <2>5. QED
    BY <2>3, <2>4
<1> DEFINE f == [a \in active |-> R(a)]
<1> HIDE DEF R
<1>5. \A a, b \in active : R(a) = R(b) => a = b
  BY <1>1, <1>3, <1>4, RankedBeforeOrder
<1>6. f \in Injection(active, 1..n)
  BY <1>3, <1>5 DEF Injection, IsInjective
<1>7. IsFiniteSet(1..n) /\ Cardinality(1..n) = n
  BY <1>1, FS_Interval
<1>8. f \in Surjection(active, 1..n)
  BY <1>6, <1>7, FS_Injection
<1>9. {R(a) : a \in active} = 1..n
  BY <1>8 DEF Surjection
<1>10. QED
  BY <1>1, <1>3, <1>4, <1>9 DEF R

\* The active entries of the list that a call returns, one for each active alert.
LEMMA ShownEntries ==
    ASSUME NEW alerts, Batch(alerts)
    PROVE  LET active == ActiveIn(Processed(alerts))
               shown  == {e \in Prioritized(alerts) : ~e.suppressed}
           IN  /\ shown = {[alert |-> a, suppressed |-> FALSE,
                            rank |-> Rank(a, active, alerts)] : a \in active}
               /\ active \in SUBSET Processed(alerts)
               /\ IsFiniteSet(shown)
               /\ Cardinality(shown) = Cardinality(active)
<1> DEFINE active == ActiveIn(Processed(alerts))
           Shown(a) == [alert |-> a, suppressed |-> FALSE, rank |-> Rank(a, active, alerts)]
           shown == {e \in Prioritized(alerts) : ~e.suppressed}
           f == [a \in active |-> Shown(a)]
<1>1. shown = {Shown(a) : a \in active}
  BY DEF Prioritized
<1>2. active \in SUBSET Processed(alerts) /\ IsFiniteSet(active)
  BY ProcessedType, FS_Subset DEF ActiveIn, Batch
<1>3. \A a, b \in active : Shown(a) = Shown(b) => a = b
  OBVIOUS
<1> HIDE DEF active, Shown, shown
<1>4. f \in Surjection(active, shown) /\ f \in Injection(active, shown)
  BY <1>1, <1>3 DEF Surjection, Injection, IsInjective
<1>5. IsFiniteSet(shown) /\ Cardinality(shown) = Cardinality(active)
  BY <1>2, <1>4, FS_Surjection
<1>6. QED
  BY <1>1, <1>2, <1>5 DEF active, Shown, shown

\* RankIsTriageOrder and CategoryBounded, of any list and the batch it answers: the
\* list of a call was made from the registry before it.
InTriageOrder(list) ==
    LET shown == {e \in list : ~e.suppressed} IN
    /\ {e.rank : e \in shown} = 1..FeedSummary(list).total_active_alerts
    /\ Cardinality(shown) = FeedSummary(list).total_active_alerts
    /\ \A e, f \in shown : e.rank < f.rank
           => SeverityRank(e.alert.severity) <= SeverityRank(f.alert.severity)

Throttled(list, alerts) ==
    LET counted == FeedSummary(list).by_category IN
    \A c \in DOMAIN counted :
        /\ counted[c] <= MassThreshold
        /\ Collapses(c, alerts) => counted[c] = 1

\* A list that ranks a batch is in triage order.
LEMMA PrioritizedInTriageOrder ==
    ASSUME NEW alerts, Batch(alerts)
    PROVE  InTriageOrder(Prioritized(alerts))
<1> DEFINE active == ActiveIn(Processed(alerts))
           R(a) == Rank(a, active, alerts)
           Shown(a) == [alert |-> a, suppressed |-> FALSE, rank |-> R(a)]
           list == Prioritized(alerts)
           shown == {e \in list : ~e.suppressed}
<1>1. /\ shown = {Shown(a) : a \in active}
      /\ active \in SUBSET Processed(alerts)
      /\ Cardinality(shown) = Cardinality(active)
  BY ShownEntries
<1>2. FeedSummary(list).total_active_alerts = Cardinality(shown)
  BY DEF FeedSummary
<1>3. /\ \A a, b \in active : RankedBefore(a, b, alerts) => R(a) < R(b)
      /\ \A a \in active : R(a) \in Nat
      /\ {R(a) : a \in active} = 1..Cardinality(active)
  BY <1>1, RanksRun
<1>4. {e.rank : e \in shown} = {R(a) : a \in active}
  <2> HIDE DEF active, R, shown
  <2>1. \A a \in active : Shown(a) \in shown /\ Shown(a).rank = R(a)
    BY <1>1
  <2>2. \A e \in shown : \E a \in active : e.rank = R(a)
    BY <1>1
  <2> HIDE DEF Shown
  <2>3. QED
    BY <2>1, <2>2
<1>5. ASSUME NEW a \in active, NEW b \in active, R(a) < R(b)
      PROVE  SeverityRank(a.severity) <= SeverityRank(b.severity)
  <2>1. a # b /\ ~RankedBefore(b, a, alerts)
    <3> HIDE DEF R, active
    <3> QED
      BY <1>3, <1>5
  <2>2. RankedBefore(a, b, alerts)
    BY <1>1, <2>1, RankedBeforeOrder
  <2>3. a.severity \in Severity /\ b.severity \in Severity
    BY <1>1, ProcessedType DEF Batch, Alert
  <2>4. \A s \in Severity : SeverityRank(s) \in Nat
    BY DEF Severity, SeverityRank
  <2>5. QED
    BY <2>2, <2>3, <2>4 DEF RankedBefore
<1>6. ASSUME NEW e \in shown, NEW g \in shown, e.rank < g.rank
      PROVE  SeverityRank(e.alert.severity) <= SeverityRank(g.alert.severity)
  <2>1. PICK a \in active : e = Shown(a)
    BY <1>1
  <2>2. PICK b \in active : g = Shown(b)
    BY <1>1
  <2>3. QED
    BY <1>5, <1>6, <2>1, <2>2
<1>7. QED
  BY <1>1, <1>2, <1>3, <1>4, <1>6 DEF InTriageOrder

\* A category that collapsed shows at most its summary; any other one shows only
\* alerts of the batch, which are too few to collapse.
LEMMA ActiveOfCategory ==
    ASSUME NEW alerts, Batch(alerts), NEW a \in ActiveIn(Processed(alerts))
    PROVE  /\ Collapses(a.category, alerts) => a = Summary(a.category, alerts)
           /\ ~Collapses(a.category, alerts) => a \in OfCategory(a.category, alerts)
<1>1. CASE a \in Kept(alerts)
  BY <1>1 DEF Kept, OfCategory
<1>2. ASSUME NEW c \in CollapsedCategories(alerts), a = Summary(c, alerts)
      PROVE  Collapses(a.category, alerts) /\ a = Summary(a.category, alerts)
  <2>1. a.category = c
    BY <1>2 DEF Summary
  <2>2. QED
    BY <1>2, <2>1 DEF CollapsedCategories
<1>3. QED
  BY <1>1, <1>2 DEF ActiveIn, Processed

LEMMA PrioritizedThrottled ==
    ASSUME NEW alerts, Batch(alerts)
    PROVE  Throttled(Prioritized(alerts), alerts)
<1> DEFINE active == ActiveIn(Processed(alerts))
           list == Prioritized(alerts)
           Shown(a) == [alert |-> a, suppressed |-> FALSE, rank |-> Rank(a, active, alerts)]
           shown == {e \in list : ~e.suppressed}
           OfCat(c) == {e \in shown : e.alert.category = c}
           counted == FeedSummary(list).by_category
<1>1. shown = {Shown(a) : a \in active} /\ IsFiniteSet(shown)
  BY ShownEntries
<1>2. counted = [c \in {e.alert.category : e \in shown} |-> Cardinality(OfCat(c))]
  BY DEF FeedSummary
<1>3. MassThreshold \in Nat \ {0}
  BY PrioritizerAssumption
<1>4. ASSUME NEW c \in DOMAIN counted
      PROVE  /\ counted[c] <= MassThreshold
             /\ Collapses(c, alerts) => counted[c] = 1
  <2>1. counted[c] = Cardinality(OfCat(c)) /\ OfCat(c) # {}
    BY <1>2, <1>4
  <2>2. \A e \in OfCat(c) : /\ e.alert \in active /\ e.alert.category = c
                            /\ e = Shown(e.alert)
    BY <1>1
  <2>3. CASE Collapses(c, alerts)
    <3>1. \A e \in OfCat(c) : e = Shown(Summary(c, alerts))
      BY <2>2, <2>3, ActiveOfCategory
    <3>2. OfCat(c) = {Shown(Summary(c, alerts))}
      BY <2>1, <3>1
    <3>3. Cardinality(OfCat(c)) = 1
      BY <3>2, FS_Singleton
    <3>4. QED
      BY <1>3, <2>1, <3>3
  <2>4. CASE ~Collapses(c, alerts)
    <3> DEFINE f == [e \in OfCat(c) |-> e.alert]
    <3>1. \A e \in OfCat(c) : e.alert \in OfCategory(c, alerts)
      BY <2>2, <2>4, ActiveOfCategory
    <3>2. \A e, g \in OfCat(c) : e.alert = g.alert => e = g
      BY <2>2
    <3>3. f \in Injection(OfCat(c), OfCategory(c, alerts))
      <4> HIDE DEF OfCat
      <4> QED
        BY <3>1, <3>2 DEF Injection, IsInjective
    <3>4. IsFiniteSet(OfCategory(c, alerts))
      BY FS_Subset DEF OfCategory, Batch
    <3>5. /\ Cardinality(OfCat(c)) <= Cardinality(OfCategory(c, alerts))
          /\ Cardinality(OfCat(c)) \in Nat
      <4> HIDE DEF OfCat
      <4> QED
        BY <3>3, <3>4, FS_Injection, FS_CardinalityType
    <3>6. /\ Cardinality(OfCategory(c, alerts)) \in Nat
          /\ Cardinality(OfCategory(c, alerts)) <= MassThreshold
      BY <1>3, <2>4, <3>4, FS_CardinalityType DEF Collapses
    <3> HIDE DEF OfCat, counted
    <3>7. QED
      BY <1>3, <2>1, <2>4, <3>5, <3>6
  <2>5. QED
    BY <2>3, <2>4
<1>5. QED
  BY <1>4 DEF Throttled

-----------------------------------------------------------------------------
(* The answer that is current is the list of its batch *)

Answered == InTriageOrder(feed) /\ Throttled(feed, batch)

LEMMA NothingShown ==
    ASSUME NEW alerts
    PROVE  InTriageOrder({}) /\ Throttled({}, alerts)
<1> DEFINE shown == {e \in {} : ~e.suppressed}
<1>1. shown = {} /\ Cardinality(shown) = 0
  BY FS_EmptySet
<1>2. FeedSummary({}).total_active_alerts = 0
  BY <1>1 DEF FeedSummary
<1>3. DOMAIN FeedSummary({}).by_category = {}
  BY DEF FeedSummary
<1>4. {e.rank : e \in shown} = 1..0
  BY <1>1
<1>5. InTriageOrder({})
  BY <1>1, <1>2, <1>4 DEF InTriageOrder
<1>6. Throttled({}, alerts)
  BY <1>3 DEF Throttled
<1>7. QED
  BY <1>5, <1>6

LEMMA AnsweredInv == Spec => []Answered
<1>1. Init => Answered
  BY NothingShown DEF Init, Answered
<1>2. Answered /\ [Next]_vars => Answered'
  <2> SUFFICES ASSUME Answered, [Next]_vars PROVE Answered'
    OBVIOUS
  <2>1. ASSUME NEW raw \in RawBatch, Prioritize(raw) PROVE Answered'
    <3>1. Batch(Stamped(raw))
      BY StampedBatch DEF Batch
    <3>2. batch' = Stamped(raw) /\ feed' = Prioritized(Stamped(raw))
      BY <2>1 DEF Prioritize
    <3>3. QED
      BY <3>1, <3>2, PrioritizedInTriageOrder, PrioritizedThrottled DEF Answered
  <2>2. CASE batch' = {} /\ feed' = {}
    BY <2>2, NothingShown DEF Answered
  <2>3. CASE UNCHANGED vars
    BY <2>3 DEF vars, Answered
  <2>4. QED
    BY <2>1, <2>2, <2>3 DEF Next, Reset, Tick
<1>3. QED
  BY <1>1, <1>2, PTL DEF Spec

\* The desk reads its list in triage order: the ranks of the active alerts run from 1
\* to their number, which is the total the summary reports, each one is given once,
\* and no alert stands before a more severe one.
THEOREM RankedForTriage == Spec => []RankIsTriageOrder
<1>1. Answered => RankIsTriageOrder
  BY DEF Answered, InTriageOrder, RankIsTriageOrder
<1>2. QED
  BY <1>1, AnsweredInv, PTL

\* Throttling holds for every batch: no category fills the list beyond the mass
\* threshold, and the summary counts a collapsed one as a single alert.
THEOREM CategoriesThrottled == Spec => []CategoryBounded
<1>1. Answered => CategoryBounded
  BY DEF Answered, Throttled, CategoryBounded
<1>2. QED
  BY <1>1, AnsweredInv, PTL
=============================================================================
