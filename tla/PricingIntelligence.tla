--------------------------- MODULE PricingIntelligence ---------------------------
(***************************************************************************)
(* pricing/pricing_intelligence.py: how special a security is, and which   *)
(* positions of a book should be repriced to the market.  Fees and rates   *)
(* are in basis points, utilization in percent.  P&L, confidence, priority *)
(* and the z-score of a row decide nothing but the order of the list and   *)
(* are left out; prior_week_fee_bps is passed by no caller.                *)
(***************************************************************************)
EXTENDS Scores

CONSTANTS
    Security,
    Position,
    SecurityOf,  \* the security of a position
    SideOf,      \* its direction
    RateOf,      \* the rate the desk trades it at
    FileRow      \* its place in the book's list of positions

Direction == {"LEND", "BORROW", "REPO", "REVERSE_REPO"}

Quote == [weighted : Nat \cup {None}, avg : Nat \cup {None}, util : (0..100) \cup {None}]

ASSUME PricingAssumption ==
    /\ SecurityOf \in [Position -> Security]
    /\ SideOf \in [Position -> Direction]
    /\ RateOf \in [Position -> Int]
    /\ FileRow \in [Position -> Nat]
    /\ \A p, q \in Position : FileRow[p] = FileRow[q] => p = q
    /\ None \notin Quote

Tier == {"GC", "WARM", "SPECIALS_IN_WAITING", "SPECIAL", "HTB", "DEEP_SPECIAL"}

Fee(q) == IF q.weighted # None THEN q.weighted ELSE q.avg

Utilization(q) == IF q.util # None THEN q.util ELSE 0

\* The first test that applies decides.
ClassifySpecialness(q) ==
    LET fee == Fee(q)
        util == Utilization(q)
    IN  IF fee = None THEN "GC"
        ELSE IF fee >= 1000 THEN "DEEP_SPECIAL"
        ELSE IF fee >= 300 /\ util >= 90 THEN "HTB"
        ELSE IF fee >= 100 THEN "SPECIAL"
        ELSE IF util >= 85 THEN "SPECIALS_IN_WAITING"
        ELSE IF util < 50 /\ fee < 25 THEN "GC"
        ELSE "WARM"

-----------------------------------------------------------------------------
(* Recommendations.  `quotes` has a quote or None for every security. *)

HasMarketRate(quotes, s) == quotes[s] # None /\ Fee(quotes[s]) # None

Gap(quotes, p) == RateOf[p] - Fee(quotes[SecurityOf[p]])

\* Mutant: the first row of a security is kept.
FirstRow(book, s) ==
    CHOOSE p \in book : SecurityOf[p] = s /\
        \A q \in book : SecurityOf[q] = s => FileRow[p] <= FileRow[q]

\* The rows are put into a dict by security: the last one of a security stays.
DispersionRow(book, s) ==
    CHOOSE p \in book : SecurityOf[p] = s /\
        \A q \in book : SecurityOf[q] = s => FileRow[q] <= FileRow[p]

MinActionableGap == 5

EarnsTheRate(p) == SideOf[p] \in {"LEND", "REVERSE_REPO"}

Mispriced(p, gap) ==
    \/ EarnsTheRate(p) /\ gap < -MinActionableGap
    \/ ~EarnsTheRate(p) /\ gap > MinActionableGap

\* The positions of a book that get a REPRICE recommendation, judged by the row of
\* their security, and the rate it names.
Repriced(book, quotes) ==
    {p \in book : LET s == SecurityOf[p] IN
        /\ HasMarketRate(quotes, s)
        /\ Mispriced(p, Gap(quotes, DispersionRow(book, s)))}

PricingRecommendations(book, quotes) ==
    [p \in Position |-> IF p \in Repriced(book, quotes) THEN Fee(quotes[SecurityOf[p]]) ELSE None]
=============================================================================
