-------------------------------- MODULE Sums --------------------------------
(***************************************************************************)
(* The sum of the values of a finite set, which coin selection compares    *)
(* with an amount and the ledger with a balance.                           *)
(***************************************************************************)
EXTENDS Integers, FiniteSetsExt

Total(value, set) == MapThenSumSet(LAMBDA x : value[x], set)
=============================================================================
