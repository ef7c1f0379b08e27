------------------------------ MODULE MCDeskCycle ------------------------------
(* One counterparty with a limit of 20 units; every band of the thresholds is a *)
(* whole number of units, and steps of 3 and 5 units reach all of them.         *)
EXTENDS DeskCycle, TLC

CONSTANT c1

MCLimit == c1 :> 20

\* A good credit, an underpriced one, one whose exposure is crowded in a sector, one
\* on the watch list, and one whose return on capital is not known.
MCCredit == {[roc |-> 15, watch |-> FALSE, crowded |-> FALSE],
             [roc |-> 10, watch |-> FALSE, crowded |-> FALSE],
             [roc |-> 15, watch |-> FALSE, crowded |-> TRUE],
             [roc |-> 15, watch |-> TRUE, crowded |-> FALSE],
             [roc |-> None, watch |-> FALSE, crowded |-> FALSE]}

Symmetric == Permutations(Trader)
=============================================================================
