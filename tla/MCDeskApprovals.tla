---------------------------- MODULE MCDeskApprovals ----------------------------
(* Two targets, one of them without a screen, and two requests over two cycles. *)
EXTENDS DeskApprovals, TLC

Symmetric == Permutations(Request)
=============================================================================
