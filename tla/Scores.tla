--------------------------------- MODULE Scores ---------------------------------
(***************************************************************************)
(* What the decision engines have in common: scores stop at a cap.  They   *)
(* are kept as integers, in units fine enough for every weight and         *)
(* multiplier of the code; each module names its unit.  The code rounds    *)
(* scores to two decimals, which no threshold can tell: in these units a   *)
(* score is at a threshold or off it by more than the rounding.            *)
(***************************************************************************)
EXTENDS Integers

CONSTANT None  \* Python's None

ASSUME NoneAssumption == None \notin Int

\* Severity of the alert made of a row, if any.
AlertLevel == {"NONE", "HIGH", "CRITICAL"}

Capped(x, cap) == IF x <= cap THEN x ELSE cap
=============================================================================
