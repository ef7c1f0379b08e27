------------------------------- MODULE RecallRisk -------------------------------
(***************************************************************************)
(* recall_buyin/recall_risk_engine.py: the scores of a settlement fail and *)
(* what to do about it, and the alert that alerting/alert_engine.py makes  *)
(* of its row.  A fail comes as a record of the facts the engine looks up: *)
(*   position    the position that has failed to settle                    *)
(*   age         days the fail is open                                     *)
(*   receiving   the desk is owed the securities (else it owes them)       *)
(*   tier        specialness of the security, None without a quote         *)
(*   substitute  there is substitute inventory                             *)
(*   shortage    there is an open locate shortage                          *)
(*   caDriven    a corporate action is about to make it return             *)
(***************************************************************************)
EXTENDS PricingIntelligence

Fact == [position : Position, age : Nat, receiving : BOOLEAN, tier : Tier \cup {None},
         substitute : BOOLEAN, shortage : BOOLEAN, caDriven : BOOLEAN]

ASSUME RecallAssumption == None \notin Tier

\* REGIME_NOTICE_DAYS_DEFAULT; the cycle passes no other.
NoticeDays == 4

BuyinBase(f) ==
    IF f.receiving
    THEN Capped((20 \div NoticeDays) * f.age, 30)
    ELSE Capped((60 \div NoticeDays) * f.age, 80)

\* Mutant: a tier without an entry in the table gets the default.
MultiplierWithoutHtb(tier) ==
    CASE tier = "GC" -> 8
      [] tier = "SPECIALS_IN_WAITING" -> 13
      [] tier = "SPECIAL" -> 15
      [] tier = "DEEP_SPECIAL" -> 22
      [] OTHER -> 10

\* In tenths.
SpecialnessMultiplier(tier) ==
    CASE tier = "GC" -> 8
      [] tier \in {None, "WARM"} -> 10
      [] tier = "SPECIALS_IN_WAITING" -> 13
      [] tier = "SPECIAL" -> 15
      [] tier = "HTB" -> 18
      [] tier = "DEEP_SPECIAL" -> 22

\* Buy-in risk in fortieths of a point.
BuyinPoint == 40

BuyinRiskScore(f) ==
    Capped(BuyinBase(f) * SpecialnessMultiplier(f.tier) * (IF f.substitute THEN 4 ELSE 5),
           100 * BuyinPoint)

BuyinAtLeast(f, points) == BuyinRiskScore(f) >= points * BuyinPoint

\* Mutant: the cap is too low to ever make a fail urgent by its age.
FailAgeComponentLow(age) == Capped(12 * age, 50)

FailAgeComponent(age) == Capped(12 * age, 60)

ScarcityUrgency(tier) ==
    CASE tier \in {"HTB", "DEEP_SPECIAL"} -> 15
      [] tier = "SPECIALS_IN_WAITING" -> 8
      [] OTHER -> 0

UrgencyScore(f) ==
    Capped(FailAgeComponent(f.age)
             + (IF f.shortage THEN 15 ELSE 0)
             + ScarcityUrgency(f.tier)
             + (IF f.caDriven THEN 20 ELSE 0)
             + (IF f.substitute THEN 0 ELSE 5), 100)

RecallActions == {"RECALL", "RETURN", "SUBSTITUTE", "HEDGE", "DO_NOTHING"}

\* Mutant: a hedge needs more urgency than an alert.
RecallActionLate(f) ==
    IF BuyinAtLeast(f, 70) THEN (IF f.receiving THEN "RECALL" ELSE "RETURN")
    ELSE IF f.substitute THEN "SUBSTITUTE"
    ELSE IF UrgencyScore(f) >= 80 THEN "HEDGE"
    ELSE "DO_NOTHING"

\* recommended_action; a row with DO_NOTHING becomes no recommendation.
RecallAction(f) ==
    IF BuyinAtLeast(f, 70) THEN (IF f.receiving THEN "RECALL" ELSE "RETURN")
    ELSE IF f.substitute THEN "SUBSTITUTE"
    ELSE IF UrgencyScore(f) >= 60 THEN "HEDGE"
    ELSE "DO_NOTHING"

RecallAlert(f) ==
    IF ~BuyinAtLeast(f, 70) /\ UrgencyScore(f) < 70 THEN "NONE"
    ELSE IF BuyinAtLeast(f, 85) THEN "CRITICAL"
    ELSE "HIGH"

\* A row of the urgency queue.
QueueRow(f) == [position |-> f.position, action |-> RecallAction(f), alert |-> RecallAlert(f)]
=============================================================================
