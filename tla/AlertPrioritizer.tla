--------------------------- MODULE AlertPrioritizer ---------------------------
(***************************************************************************)
(* prioritize_alerts (alerting/prioritizer.py) over the batches that       *)
(* collect_alerts (alerting/alert_engine.py) hands to it, as a state       *)
(* machine over the module-level deduplication registry.                   *)
(*                                                                         *)
(* One call of prioritize_alerts is one action: this is the behaviour of   *)
(* callers that do not overlap.  Overlapping callers are AlertFeedApi.     *)
(***************************************************************************)
EXTENDS Naturals, FiniteSets

CONSTANTS
    Category,        \* alert categories
    Entity,          \* related entities, a (type, id) pair each
    BookWide,        \* the ("BOOK", "BOOK_WIDE") entity of a mass summary
    RaisedSeverity,  \* the severities the alerting engine raises
    Interval,        \* re_alert_interval_minutes, in ticks
    MassThreshold,   \* mass_alert_threshold
    MaxBatch,        \* bound on the alerts of one call
    MaxClock,        \* bound on the clock
    Never            \* no registry entry

Severity == {"LOW", "MEDIUM", "HIGH", "CRITICAL"}

ASSUME PrioritizerAssumption ==
    /\ BookWide \notin Entity
    /\ RaisedSeverity \subseteq Severity
    /\ Interval \in Nat \ {0}
    /\ MassThreshold \in Nat \ {0}
    /\ MaxBatch \in Nat
    /\ MaxClock \in Nat
    /\ Never \notin Nat

VARIABLES
    now,       \* wall clock read once per call
    registry,  \* _dedup_registry: key -> time it last fired
    batch,     \* the alerts handed to the call that has just returned
    feed       \* the PrioritizedAlerts that call returned

vars == <<now, registry, batch, feed>>

-----------------------------------------------------------------------------
(* Alerts *)

\* `raised` stands for raised_at: alerts of one cycle are raised one after the
\* other, a mass summary is raised after all of them.
Alert == [category : Category, entity : Entity \cup {BookWide},
          severity : Severity, raised : Nat]

Raisable == [category : Category, entity : Entity, severity : RaisedSeverity]

\* The raw alerts of a cycle, in the order in which they were raised.
RawBatch == UNION {[1..n -> Raisable] : n \in 0..MaxBatch}

Stamp(a, i) == [category |-> a.category, entity |-> a.entity,
                severity |-> a.severity, raised |-> i]

Stamped(raw) == {Stamp(raw[i], i) : i \in DOMAIN raw}

\* severity_rank: 0 is the most severe.
SeverityRank(s) ==
    CASE s = "CRITICAL" -> 0
      [] s = "HIGH"     -> 1
      [] s = "MEDIUM"   -> 2
      [] s = "LOW"      -> 3

\* _estimate_pnl_at_risk, in thousands of USD.
PnlAtRisk(s) ==
    CASE s = "CRITICAL" -> 500
      [] s = "HIGH"     -> 100
      [] s = "MEDIUM"   -> 25
      [] s = "LOW"      -> 5

\* The pair the deduplication remembers an alert by; the severity is no part of it.
Key == Category \X (Entity \cup {BookWide})

DedupKey(a) == <<a.category, a.entity>>

\* Mutant: the alerts are handed over unsorted.
CollectedInRaiseOrder(a, b) == a.raised < b.raised

\* collect_alerts sorts stably by severity, most severe first: a precedes b.
CollectedBefore(a, b) ==
    \/ SeverityRank(a.severity) < SeverityRank(b.severity)
    \/ a.severity = b.severity /\ a.raised < b.raised

-----------------------------------------------------------------------------
(* Mass collapse *)

OfCategory(c, alerts) == {a \in alerts : a.category = c}

Collapses(c, alerts) == Cardinality(OfCategory(c, alerts)) > MassThreshold

\* The severity of the alert that min() picks by severity rank.
WorstSeverity(alerts) ==
    CHOOSE s \in {a.severity : a \in alerts} :
        \A a \in alerts : SeverityRank(s) <= SeverityRank(a.severity)

Summary(c, alerts) ==
    [category |-> c, entity |-> BookWide,
     severity |-> WorstSeverity(OfCategory(c, alerts)),
     raised   |-> Cardinality(alerts) + 1]

CollapsedCategories(alerts) == {c \in Category : Collapses(c, alerts)}

\* Mutant: the collapsed alerts stay in the list beside their summary.
KeptBesideSummary(alerts) == alerts

Kept(alerts) == {a \in alerts : ~Collapses(a.category, alerts)}

\* Mutant: the deduplication walks `processed` and forgets `collapsed`.
ProcessedOnly(alerts) == Kept(alerts)

\* processed + collapsed, the list the deduplication pass walks.
Processed(alerts) ==
    Kept(alerts) \cup {Summary(c, alerts) : c \in CollapsedCategories(alerts)}

-----------------------------------------------------------------------------
(* Deduplication and ranking *)

\* Mutant: the re-alert comes one tick late.
RecentOneLong(k) == registry[k] # Never /\ now - registry[k] <= Interval

Recent(k) == registry[k] # Never /\ now - registry[k] < Interval

\* A second alert with the key of an earlier one of the same pass finds the
\* time the first one wrote, or the recent time that suppressed the first one.
Suppressed(a, list) ==
    \/ Recent(DedupKey(a))
    \/ \E b \in list \ {a} : DedupKey(b) = DedupKey(a) /\ CollectedBefore(b, a)

ActiveIn(list) == {a \in list : ~Suppressed(a, list)}

\* by_category keeps categories in the order of their first collected alert;
\* it decides between two summaries, which are raised at the same instant.
FirstOf(c, alerts) ==
    CHOOSE a \in OfCategory(c, alerts) :
        \A b \in OfCategory(c, alerts) \ {a} : CollectedBefore(a, b)

\* Mutant: the feed is ordered by time alone.
RankedByTime(a, b, alerts) == a.raised < b.raised

\* The sort key (severity rank, -P&L at risk, raised_at), then list order.
RankedBefore(a, b, alerts) ==
    \/ SeverityRank(a.severity) < SeverityRank(b.severity)
    \/ /\ a.severity = b.severity
       /\ \/ PnlAtRisk(a.severity) > PnlAtRisk(b.severity)
          \/ a.raised < b.raised
          \/ /\ a.raised = b.raised
             /\ CollectedBefore(FirstOf(a.category, alerts),
                                FirstOf(b.category, alerts))

Rank(a, active, alerts) ==
    1 + Cardinality({b \in active : RankedBefore(b, a, alerts)})

\* The list that is returned: active alerts carry the rank at which they stand,
\* suppressed ones keep the rank 0 they were created with.
Prioritized(alerts) ==
    LET list   == Processed(alerts)
        active == ActiveIn(list)
    IN  {[alert |-> a, suppressed |-> FALSE, rank |-> Rank(a, active, alerts)]
            : a \in active}
        \cup {[alert |-> a, suppressed |-> TRUE, rank |-> 0] : a \in list \ active}

\* alert_feed_summary: what the answer says of its list.
FeedSummary(list) ==
    LET active == {e \in list : ~e.suppressed}
    IN  [total_active_alerts |-> Cardinality(active),
         suppressed_alerts   |-> Cardinality(list) - Cardinality(active),
         by_category         |-> [c \in {e.alert.category : e \in active} |->
                                     Cardinality({e \in active : e.alert.category = c})]]

FiredKeys(alerts) == {DedupKey(a) : a \in ActiveIn(Processed(alerts))}

\* Mutant: the registry holds the time the key is due again.
RegisteredNextDue(alerts) ==
    LET fired == FiredKeys(alerts)
    IN  [k \in Key |-> IF k \in fired THEN now + Interval ELSE registry[k]]

Registered(alerts) ==
    LET fired == FiredKeys(alerts)
    IN  [k \in Key |-> IF k \in fired THEN now ELSE registry[k]]

-----------------------------------------------------------------------------
(* Behaviour *)

Init ==
    /\ now = 0
    /\ registry = [k \in Key |-> Never]
    /\ batch = {}
    /\ feed = {}

\* prioritize_alerts(collect_alerts(raw)).  A call reads the clock later than the
\* call before it did, so an answer that is still current excludes another call.
Prioritize(raw) ==
    LET alerts == Stamped(raw) IN
    /\ batch = {}
    /\ batch' = alerts
    /\ feed' = Prioritized(alerts)
    /\ registry' = Registered(alerts)
    /\ UNCHANGED now

\* reset_dedup_registry
Reset ==
    /\ registry' = [k \in Key |-> Never]
    /\ batch' = {}
    /\ feed' = {}
    /\ UNCHANGED now

\* Time passes; the answer of the last call is no longer current.
Tick ==
    /\ now < MaxClock
    /\ now' = now + 1
    /\ batch' = {}
    /\ feed' = {}
    /\ UNCHANGED registry

Next ==
    \/ \E raw \in RawBatch : Prioritize(raw)
    \/ Reset
    \/ Tick

Spec == Init /\ [][Next]_vars

-----------------------------------------------------------------------------
(* Properties *)

FeedEntry == [alert : Alert, suppressed : BOOLEAN, rank : Nat]

\* The clock, the registry and the returned list have their types, and no
\* registry entry lies in the future.
TypeOK ==
    /\ now \in 0..MaxClock
    /\ registry \in [Key -> 0..now \cup {Never}]
    /\ batch \subseteq Alert
    /\ feed \subseteq FeedEntry

\* The key under which the desk sees a condition: its own, or the book-wide one
\* when its category was collapsed.
ShownKey(a) ==
    IF Collapses(a.category, batch) THEN <<a.category, BookWide>> ELSE DedupKey(a)

\* prioritize_alerts drops nothing silently: every condition of the batch is in
\* front of the desk, now or by an alert of the same key younger than the interval,
\* and the list itself says which of the two.
ConditionsAccounted ==
    \A a \in batch :
        /\ Recent(ShownKey(a))
        /\ \E e \in feed : DedupKey(e.alert) = ShownKey(a)
        /\ \A e \in feed :
              DedupKey(e.alert) = ShownKey(a) /\ ~e.suppressed
                  => registry[ShownKey(a)] = now

\* collect_alerts' sort and the first-wins deduplication together put the worst
\* alert of a key in front of the desk, and put it there once.
ShownSeverityIsWorst ==
    \A e \in feed : ~e.suppressed =>
        /\ \A a \in batch : ShownKey(a) = DedupKey(e.alert)
               => SeverityRank(e.alert.severity) <= SeverityRank(a.severity)
        /\ \A f \in feed : ~f.suppressed /\ DedupKey(f.alert) = DedupKey(e.alert)
               => f = e

\* The ranks of the active alerts are 1..n without a gap or a tie, n is the total that
\* the summary counts, and an alert never stands before a more severe one.
RankIsTriageOrder ==
    LET shown == {e \in feed : ~e.suppressed} IN
    /\ {e.rank : e \in shown} = 1..FeedSummary(feed).total_active_alerts
    /\ Cardinality(shown) = FeedSummary(feed).total_active_alerts
    /\ \A e, f \in shown : e.rank < f.rank
           => SeverityRank(e.alert.severity) <= SeverityRank(f.alert.severity)

\* Throttling: the summary counts at most mass_alert_threshold alerts in a category, and
\* a collapsed category is counted as the one alert that stands for it, or not at all.
CategoryBounded ==
    LET counted == FeedSummary(feed).by_category IN
    \A c \in DOMAIN counted :
        /\ counted[c] <= MassThreshold
        /\ Collapses(c, batch) => counted[c] = 1

Limiter == INSTANCE AlertRateLimit
    WITH fired <- registry, asked <- {DedupKey(a) : a \in Processed(batch)}

\* prioritize_alerts is a rate limiter per condition, a collapsed category being one
\* condition: an alert younger than the interval is not repeated, one that is exactly
\* an interval old is, and the severity, the size and the company of an alert have no
\* say in it.
RateLimited == Limiter!Spec
=============================================================================
