---------------------------- MODULE MCAlertFeedApi ----------------------------
(* Two requests over snapshots of up to three alerts with two keys. *)
EXTENDS AlertFeedApi, TLC

Symmetric == Permutations(Request) \cup Permutations(Key)
=============================================================================
