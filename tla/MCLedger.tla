------------------------------ MODULE MCLedger ------------------------------
(***************************************************************************)
(* One wallet, a deposit that is first seen unconfirmed and then final,    *)
(* and a confirmed withdrawal of an earlier block that takes the wallet    *)
(* below its minimum.                                                      *)
(***************************************************************************)
EXTENDS Ledger, TLC

MCInfo ==
  ("deposit" :> [tx |-> 1, amount |-> 4, confirmations |-> 3, finalized |-> FALSE,
                 block |-> 2]) @@
  ("final" :> [tx |-> 1, amount |-> 4, confirmations |-> 12, finalized |-> FALSE,
               block |-> 2]) @@
  ("settled" :> [tx |-> 2, amount |-> -3, confirmations |-> 12, finalized |-> FALSE,
                 block |-> 1])

MCWorkloads ==
  {{"deposit", "final", "settled", "reorg"}, {"deposit", "settled", "lock", "release"},
   {"deposit", "settled", "fund"}, {"fund", "callback"},
   {"deposit", "settled", "callback"}, {"deposit", "settled", "drain"}}

MCEvents == {"deposit", "final", "settled"}
=============================================================================
