---------------------------- MODULE CorporateActions ----------------------------
(***************************************************************************)
(* corporate_actions/ca_impact_engine.py: how severe and how urgent an     *)
(* event is on a day, what it recommends for the positions in its          *)
(* security, and the alert alerting/alert_engine.py makes of it.  Days are *)
(* integers; an event is a record of its type, its security and its five   *)
(* dates, each a day or None.                                              *)
(***************************************************************************)
EXTENDS Scores

Date == Int \cup {None}

\* EVENT_IMPACT_WEIGHTS: supply, recall, rate dislocation, settlement, balance sheet.
ImpactWeights ==
    [CASH_DIVIDEND          |-> <<20, 55, 35, 15, 10>>,
     STOCK_DIVIDEND         |-> <<35, 45, 30, 50, 30>>,
     SPLIT                  |-> <<30, 30, 25, 55, 35>>,
     REVERSE_SPLIT          |-> <<60, 65, 55, 75, 60>>,
     MERGER                 |-> <<80, 75, 60, 50, 70>>,
     TENDER_OFFER           |-> <<75, 80, 55, 45, 65>>,
     SPIN_OFF               |-> <<55, 70, 40, 55, 80>>,
     REDEMPTION             |-> <<70, 40, 30, 60, 55>>,
     BOND_CALL              |-> <<70, 35, 30, 60, 55>>,
     COUPON_PAYMENT         |-> <<10, 30, 15, 10, 5>>,
     UST_AUCTION_SETTLEMENT |-> <<25, 15, 35, 30, 20>>,
     ADR_RATIO_CHANGE       |-> <<40, 40, 45, 50, 45>>,
     INDEX_REBALANCE        |-> <<50, 35, 60, 25, 30>>,
     VOLUNTARY_ELECTION     |-> <<45, 60, 30, 30, 40>>,
     MANDATORY_OTHER        |-> <<40, 40, 30, 35, 35>>]

EventType == DOMAIN ImpactWeights

Recall == 2
RateDislocation == 3

\* The first date there is, in the engine's order, passed or not.
KeyDate(e) ==
    IF e.record # None THEN e.record
    ELSE IF e.ex # None THEN e.ex
    ELSE IF e.effective # None THEN e.effective
    ELSE IF e.election # None THEN e.election
    ELSE e.payment

\* days_to_event
DaysTo(e, today) == IF KeyDate(e) = None THEN None ELSE KeyDate(e) - today

\* Mutant: two steps of the ladder change places.
ProximityMultiplierSwapped(days) ==
    IF days = None THEN 10
    ELSE IF days < 0 THEN 6
    ELSE IF days <= 2 THEN 25
    ELSE IF days <= 7 THEN 30
    ELSE IF days <= 15 THEN 20
    ELSE IF days <= 30 THEN 15
    ELSE 10

\* In twentieths.
ProximityMultiplier(days) ==
    IF days = None THEN 10
    ELSE IF days < 0 THEN 6
    ELSE IF days <= 2 THEN 30
    ELSE IF days <= 7 THEN 25
    ELSE IF days <= 15 THEN 20
    ELSE IF days <= 30 THEN 15
    ELSE 10

\* The five risk scores, in twentieths of a point.
RiskScores(type, days) ==
    LET multiplier == ProximityMultiplier(days)
    IN  [i \in 1..5 |-> Capped(ImpactWeights[type][i] * multiplier, 2000)]

\* The composite score, in four hundredths of a point.
CompositeScore(scores) ==
    5 * scores[1] + 5 * scores[2] + 4 * scores[3] + 3 * scores[4] + 3 * scores[5]

Urgency == {"INFORMATIONAL", "MONITOR", "ACT_THIS_WEEK", "ACT_TODAY", "IMMEDIATE"}

UrgencyFromScores(composite, days) ==
    IF days # None /\ days <= 1 /\ composite >= 50 * 400 THEN "IMMEDIATE"
    ELSE IF days # None /\ days <= 3 /\ composite >= 40 * 400 THEN "ACT_TODAY"
    ELSE IF composite >= 60 * 400 THEN "ACT_THIS_WEEK"
    ELSE IF composite >= 30 * 400 THEN "MONITOR"
    ELSE "INFORMATIONAL"

WindowDays == 60

InWindow(e, today) == KeyDate(e) # None => KeyDate(e) - today <= WindowDays

\* Mutant: the milder answer is looked for first.
EventActionHedgeFirst(scores, urgency, affected) ==
    IF affected = {} \/ urgency \in {"INFORMATIONAL", "MONITOR"} THEN "DO_NOTHING"
    ELSE IF scores[RateDislocation] >= 50 * 20 THEN "HEDGE"
    ELSE IF scores[Recall] >= 60 * 20 THEN "RETURN"
    ELSE "DO_NOTHING"

\* What is recommended for the open positions in the security of an event: nothing
\* when there are none.
EventAction(scores, urgency, affected) ==
    IF affected = {} \/ urgency \in {"INFORMATIONAL", "MONITOR"} THEN "DO_NOTHING"
    ELSE IF scores[Recall] >= 60 * 20 THEN "RETURN"
    ELSE IF scores[RateDislocation] >= 50 * 20 THEN "HEDGE"
    ELSE "DO_NOTHING"

\* The alert does not ask whether the event affects a position.
EventAlert(urgency) ==
    CASE urgency = "IMMEDIATE" -> "CRITICAL"
      [] urgency = "ACT_TODAY" -> "HIGH"
      [] OTHER -> "NONE"

WatchlistEntry ==
    [urgency : Urgency, action : {"RETURN", "HEDGE", "DO_NOTHING"}, alert : AlertLevel]

ASSUME CorporateActionAssumption == None \notin WatchlistEntry

\* CorporateActionImpact, which lists the positions it affects, with what becomes of it.
Impact(type, days, affected) ==
    LET scores == RiskScores(type, days)
        urgency == UrgencyFromScores(CompositeScore(scores), days)
    IN  [urgency |-> urgency, action |-> EventAction(scores, urgency, affected),
         alert |-> EventAlert(urgency)]

\* The entry of an event in the watchlist of a day, None when it is not on it.  An event
\* is on it whether or not it affects a position.
WatchlistRow(e, today, affected) ==
    IF InWindow(e, today) THEN Impact(e.type, DaysTo(e, today), affected) ELSE None
=============================================================================
