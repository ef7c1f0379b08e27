------------------------- MODULE MCExceptionLifecycle -------------------------
(* Two exceptions and two approvers over three days. *)
EXTENDS ExceptionLifecycle, TLC

Symmetric == Permutations(Exception) \cup Permutations(Approver)
=============================================================================
