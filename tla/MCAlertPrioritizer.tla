-------------------------- MODULE MCAlertPrioritizer --------------------------
(* Two categories of two entities each, seen by calls of up to three alerts. *)
EXTENDS AlertPrioritizer, TLC

\* Categories and entities carry no order and no meaning of their own.
Symmetric == Permutations(Category) \cup Permutations(Entity)
=============================================================================
