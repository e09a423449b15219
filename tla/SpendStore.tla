----------------------------- MODULE SpendStore -----------------------------
(***************************************************************************)
(* The statements of the PostgreSQL store that the spend path is built     *)
(* from, as operators on the rows they touch.  A statement, or a           *)
(* transaction opened by one store method, is atomic; everything between   *)
(* two store calls is not, so the modules that use these operators take    *)
(* one step per call.                                                      *)
(*                                                                         *)
(* A row of table nonces is [pending, broadcast]: the columns pending_nonce*)
(* and broadcast_nonce of one (wallet, chain).  A missing row reads as     *)
(* zeros (GetNonce) and is created by the first IncrementPendingNonce.     *)
(* Table utxos is a function from outpoints to lock states.                *)
(***************************************************************************)
EXTENDS Integers, FiniteSets

NonceRow == [pending : Nat, broadcast : Nat]

NoNonceRow == [pending |-> 0, broadcast |-> 0]

(* The transaction increments the counter; the value it returns is the     *)
(* counter before the increment.                                           *)
IncrementPendingNonce(row) == [row EXCEPT !.pending = @ + 1]

(* Mutant: the counter is overwritten with the nonce, not raised to it.    *)
AdvanceWithoutGreatest(row, n) == [row EXCEPT !.broadcast = n + 1]

(* broadcast_nonce = GREATEST(broadcast_nonce, n + 1).                     *)
AdvanceBroadcastNonce(row, n) ==
  [row EXCEPT !.broadcast = IF @ >= n + 1 THEN @ ELSE n + 1]

(* Mutant: the rollback forgets the condition pending_nonce = n + 1.       *)
RollbackUnconditionally(row, n) == [row EXCEPT !.pending = n]

(* Mutant: the rollback goes one too far.                                  *)
RollbackOffByOne(row, n) ==
  IF row.pending = n + 1 THEN [row EXCEPT !.pending = n - 1] ELSE row

(* The conditional decrement: only the most recent reservation is undone.  *)
RollbackPendingNonce(row, n) ==
  IF row.pending = n + 1 THEN [row EXCEPT !.pending = n] ELSE row

-----------------------------------------------------------------------------

(* "ABSENT" stands for an outpoint that has no row.                        *)
UTXOLockState == {"ABSENT", "FREE", "LOCKED", "SPENT"}

InsertUTXO(table, o) == [table EXCEPT ![o] = "FREE"]

ListFreeUTXOs(table) == {o \in DOMAIN table : table[o] = "FREE"}

(* LockUTXOs is one transaction that locks every outpoint or none: it      *)
(* fails on the first outpoint that is not FREE any more.                  *)
LockableUTXOs(table, ops) == \A o \in ops : table[o] = "FREE"

LockUTXOs(table, ops) ==
  [o \in DOMAIN table |-> IF o \in ops THEN "LOCKED" ELSE table[o]]

(* An UPDATE by primary key changes nothing when the row is gone.          *)
SetRow(table, o, state) ==
  [table EXCEPT ![o] = IF @ = "ABSENT" THEN @ ELSE state]

(* Mutant: the column is free text (no CHECK), and the state is misspelt.  *)
MarkSpentLowerCase(table, o) == SetRow(table, o, "spent")

(* One iteration of the loop over the outpoints; the loop is not a         *)
(* transaction, and neither statement looks at the old lock state.         *)
MarkUTXOSpent(table, o) == SetRow(table, o, "SPENT")

RestoreUTXO(table, o) == SetRow(table, o, "FREE")

PruneUTXO(table, o) == [table EXCEPT ![o] = "ABSENT"]
=============================================================================
