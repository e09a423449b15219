---------------------------- MODULE MCWithdrawal ----------------------------
(* Instances of Withdrawal.  Requests r1 and r2 ask for the same payment.  *)
EXTENDS Withdrawal, TLC

CONSTANTS r1, r2, r3, o1, o2

MCPayment == [i \in Ids |-> IF i \in {r1, r2} THEN "p" ELSE "q"]

MCAmount == [i \in Ids |-> IF i = r1 THEN 2 ELSE 1]

MCValue == [o \in Outpoints |-> IF o = o1 THEN 2 ELSE 1]

Symmetry == Permutations(Workers)

(* Three requests, two at a time (three on Bitcoin), with the failures the *)
(* code handles.                                                           *)
Evm == [chain |-> "EVM", ids |-> {r1, r2, r3}, busy |-> 2, serial |-> TRUE,
        failFrom |-> {"PENDING", "SIGNED"}, walletStates |-> {},
        faults |-> {"build", "reorg"}]

Btc == [Evm EXCEPT !.chain = "BTC", !.busy = 3,
          !.failFrom = {"PENDING", "WHITELISTED"}]

(* Everything may fail.                                                    *)
Faulty == [Btc EXCEPT !.ids = {r1, r3}, !.busy = 2, !.walletStates = {"PAUSED"},
             !.failFrom = {"PENDING", "WHITELISTED", "SIGNED"},
             !.faults = FaultKinds]

(* Everything may fail and race, on one withdrawal: two operations at a    *)
(* time on EVM, three on Solana, where nothing is reserved.                *)
Racing == [Evm EXCEPT !.ids = {r1}, !.serial = FALSE,
             !.failFrom = States \ {"ABSENT"}, !.faults = FaultKinds]

RacingSol == [Racing EXCEPT !.chain = "SOL", !.busy = 3]

MCSettings == {Evm, Btc, Faulty, Racing, RacingSol}

(* Fail is called on a WHITELISTED withdrawal whose build had failed.      *)
NonceReuseSettings ==
  {[Evm EXCEPT !.busy = 1, !.failFrom = {"WHITELISTED"}, !.faults = {"build"}]}
=============================================================================
