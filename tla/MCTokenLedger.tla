---------------------------- MODULE MCTokenLedger ----------------------------
(* The token ledger on a small instance: days of three seconds, a start in the last second of a day
   and a retention of two days, so that one behaviour turns the day over, forgets a day, prunes the
   log and restarts. *)
EXTENDS TokenLedger, TLC

CONSTANTS m1, m2

MCModels == {m1, m2}
MCSymmetry == Permutations(MCModels)
=============================================================================
