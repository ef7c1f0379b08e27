--------------------------- MODULE GrowthAssessment ---------------------------
(***************************************************************************)
(* How a cycle judges one counterparty: the limit figures of               *)
(* compute_counterparty_exposure (risk/counterparty_risk.py), the decision *)
(* tree of assess_counterparty_opportunity (growth/counterparty_growth.py) *)
(* and alert_from_limit_breach (alerting/alert_engine.py).                 *)
(***************************************************************************)
EXTENDS Integers

CONSTANT None  \* Python's None: no limit is configured, no capital is consumed

ASSUME NoneAssumption == None \notin Int

\* A counterparty's gross exposure and limit in USD, its blended return on capital
\* in percent, its place on the watch list, and whether the concentration of its
\* exposure flags a wrong-way risk.
AnyProfile == [gross : Nat, limit : Nat \cup {None}, roc : Int \cup {None},
               watch : BOOLEAN, wwr : BOOLEAN]

-----------------------------------------------------------------------------
(* Limit figures.  utilization_pct is gross / limit, and None without a limit;  *)
(* a limit of zero counts as none.                                              *)

HasLimit(p) == p.limit # None /\ p.limit > 0

UtilAtLeast(p, pct) == HasLimit(p) /\ 100 * p.gross >= pct * p.limit
UtilAbove(p, pct) == HasLimit(p) /\ 100 * p.gross > pct * p.limit
UtilBelow(p, pct) == HasLimit(p) /\ 100 * p.gross < pct * p.limit

LimitBreached(p) == HasLimit(p) /\ p.gross > p.limit

-----------------------------------------------------------------------------
(* Growth *)

\* GrowthThresholds, in percent.
TargetRoc == 15
MinAcceptableRoc == 5
GrowCeiling == 60
ReduceFloor == 90

Action == {"GROW", "HOLD", "REPRICE", "REDUCE"}

RocKnown(p) == p.roc # None
OverUtilized(p) == UtilAbove(p, ReduceFloor)
Unprofitable(p) == RocKnown(p) /\ p.roc < MinAcceptableRoc
Underpriced(p) == RocKnown(p) /\ MinAcceptableRoc <= p.roc /\ p.roc < TargetRoc

Growable(p) ==
    /\ RocKnown(p)
    /\ p.roc >= TargetRoc
    /\ UtilBelow(p, GrowCeiling)
    /\ ~p.wwr

\* Mutant: the pricing rule comes before the limits.
AssessPriceFirst(p, criticalBreak) ==
    IF p.watch \/ criticalBreak \/ Unprofitable(p) THEN "REDUCE"
    ELSE IF Underpriced(p) THEN "REPRICE"
    ELSE IF OverUtilized(p) THEN "REDUCE"
    ELSE IF Growable(p) THEN "GROW"
    ELSE "HOLD"

\* The if / elif chain of the decision tree.
Assess(p, criticalBreak) ==
    IF p.watch \/ criticalBreak \/ OverUtilized(p) \/ Unprofitable(p) THEN "REDUCE"
    ELSE IF Underpriced(p) THEN "REPRICE"
    ELSE IF Growable(p) THEN "GROW"
    ELSE "HOLD"

\* How far an action commits the desk.
Commitment(action) ==
    CASE action = "REDUCE"  -> 0
      [] action = "REPRICE" -> 1
      [] action = "HOLD"    -> 2
      [] action = "GROW"    -> 3

\* p is in no respect a better credit than q.
NoBetterThan(p, q) ==
    /\ p.gross >= q.gross
    /\ p.limit = q.limit
    /\ p.roc = q.roc \/ (RocKnown(p) /\ RocKnown(q) /\ p.roc <= q.roc)
    /\ q.watch => p.watch
    /\ q.wwr => p.wwr

-----------------------------------------------------------------------------
(* Limit alerts *)

WarnPct == 85

\* Mutant: the warning has a severity no queue shows.
LimitAlertMedium(p) ==
    IF UtilAtLeast(p, 100) THEN "CRITICAL"
    ELSE IF UtilAtLeast(p, WarnPct) THEN "MEDIUM"
    ELSE "NONE"

\* Mutant: the alert waits, as limit_breached does, until the limit is exceeded.
LimitAlertAbove(p) ==
    IF UtilAbove(p, 100) THEN "CRITICAL"
    ELSE IF UtilAtLeast(p, WarnPct) THEN "HIGH"
    ELSE "NONE"

LimitAlert(p) ==
    IF UtilAtLeast(p, 100) THEN "CRITICAL"
    ELSE IF UtilAtLeast(p, WarnPct) THEN "HIGH"
    ELSE "NONE"
=============================================================================
