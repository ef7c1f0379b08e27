------------------------------ MODULE MCDailyBatch ------------------------------
(* Two keys.  1001 is 0.1% off a book of 1000 and 1000 less than that off a book *)
(* of 1001; 1101 is more than 10% off a book of 1000 and 1000 less than 10% off  *)
(* a book of 1101.  A value of 199 is 0.5% off a book of 200, one of 200 is more *)
(* than that off a book of 199.                                                  *)
EXTENDS DailyBatch, TLC

Symmetric == Permutations(Key)
=============================================================================
