-------------------------- MODULE WithdrawalProofs --------------------------
(***************************************************************************)
(* The control of the withdrawal saga, for any requests, workers,          *)
(* outpoints and settings, with every fault.  In the first part operations *)
(* may overlap and Fail may be called at any time: nothing that the policy *)
(* engine did not approve goes past PENDING or onto the network.  In the   *)
(* second, operations on one withdrawal do not overlap: withdrawals live   *)
(* as WithdrawalLifecycle says, and a SIGNED row describes its             *)
(* transaction.                                                            *)
(***************************************************************************)
EXTENDS Withdrawal, TLAPS

(* The states of a withdrawal that passed the gate.                        *)
Past == {"WHITELISTED", "SIGNED", "BROADCAST", "CONFIRMED"}

(* Where an operation can only be after it read a row past the gate.       *)
Working == {"reserve", "lock", "persist", "build", "saveTx", "send", "settle"}

(* Operation r acts for a request, and for an approved one where it must;  *)
(* approved are those in the set ok.                                       *)
ClearedBy(r, ok) ==
  /\ r.pc \notin {"idle", "setWallet"} => r.id \in Ids
  /\ r.pc \in Working => r.id \in ok
  /\ r.to \in Past => r.id \in ok
  /\ r.tx # None => r.tx.id \in ok
  /\ r.pc = "send" => r.tx # None
  /\ r.pc = "save" => r.to # None
  /\ r.to \in IF r.pc = "setWallet" THEN WalletState ELSE States \cup {None}

RowsCleared(table, ok) ==
  \A i \in Ids : /\ table[i].state \in Past => i \in ok
                 /\ table[i].signed # None => table[i].signed.id \in ok

IInv ==
  /\ TypeOK
  /\ \A w \in Workers : ClearedBy(h[w], approved)
  /\ RowsCleared(row, approved)
  /\ \A t \in net : t.id \in approved

USE RequestAssumption

-----------------------------------------------------------------------------
LEMMA IdleCleared == Idle \in Handler /\ \A ok : ClearedBy(Idle, ok)
  BY DEF Idle, Handler, PC, ClearedBy, Working, Past, States, InFlight

LEMMA InitIInv == Init => IInv
<1> SUFFICES ASSUME Init PROVE IInv
  OBVIOUS
<1>1. TypeOK
  BY IdleCleared DEF Init, TypeOK, NoRow, Row, States, InFlight, NonceRow, NoNonceRow,
     UTXOLockState, WalletState
<1>2. RowsCleared(row, approved)
  BY DEF Init, RowsCleared, NoRow, Past
<1>3. QED
  BY <1>1, <1>2, IdleCleared DEF Init, IInv

(* The end of a loop keeps what was cleared.                               *)
LEMMA FinishCleared ==
  ASSUME NEW r \in Handler, NEW ok, ClearedBy(r, ok), r.id \in Ids, r.pc # "setWallet"
  PROVE  Finish(r) \in Handler /\ ClearedBy(Finish(r), ok)
<1>1. CASE Finish(r) = r
  BY <1>1
<1>2. CASE Finish(r) = Idle
  BY <1>2, IdleCleared
<1>3. CASE Finish(r) = [r EXCEPT !.pc = "save"] /\ r.to # None
  BY <1>3 DEF Handler, PC, ClearedBy, Working
<1>4. QED
  BY <1>1, <1>2, <1>3 DEF Finish

(* A rollback that ends in FAILED, or in no write, needs no approval.      *)
LEMMA RollBackCleared ==
  ASSUME NEW r \in Handler, NEW ok, r.tx # None => r.tx.id \in ok,
         r.id \in Ids, NEW s \in {"FAILED", None}
  PROVE  RollBack(r, s) \in Handler /\ ClearedBy(RollBack(r, s), ok)
<1> DEFINE q == [r EXCEPT !.pc = "undo", !.to = s]
<1>1. q \in Handler
  BY DEF Handler, PC, States, InFlight
<1>2. ClearedBy(q, ok)
  BY <1>1 DEF ClearedBy, Working, Past, Handler, States, InFlight
<1>3. q.id \in Ids /\ q.pc # "setWallet"
  BY DEF Handler
<1>4. QED
  BY <1>1, <1>2, <1>3, FinishCleared DEF RollBack

(* A step of worker w, which goes on as r.                                 *)
LEMMA Preserve ==
  ASSUME IInv, NEW w \in Workers, NEW r \in Handler, h' = [h EXCEPT ![w] = r],
         setting' = setting, wallet' \in WalletState, row' \in [Ids -> Row],
         nonce' \in NonceRow, utxos' \in [Outpoints -> UTXOLockState],
         approved \subseteq approved', approved' \subseteq Ids, net' \subseteq Tx,
         ClearedBy(r, approved'), RowsCleared(row', approved'),
         \A t \in net' : t.id \in approved'
  PROVE  IInv'
<1>1. TypeOK'
  BY DEF IInv, TypeOK
<1>2. \A v \in Workers : ClearedBy(h'[v], approved')
  BY DEF IInv, TypeOK, ClearedBy
<1>3. QED
  BY <1>1, <1>2 DEF IInv, RowsCleared, ClearedBy

(* One that touches no row, transaction or approval.                       *)
LEMMA Quiet ==
  ASSUME IInv, NEW w \in Workers, NEW r \in Handler, Become(w, r),
         UNCHANGED <<setting, row, approved, net>>, wallet' \in WalletState,
         nonce' \in NonceRow, utxos' \in [Outpoints -> UTXOLockState],
         ClearedBy(r, approved)
  PROVE  IInv'
  BY Preserve DEF IInv, TypeOK, Become

(* What the statements on withdrawal_requests do to the rows.              *)
LEMMA StateWrite ==
  ASSUME NEW table \in [Ids -> Row], NEW i \in Ids, NEW s \in States, NEW ok,
         RowsCleared(table, ok), s \in Past => i \in ok
  PROVE  /\ [table EXCEPT ![i].state = s] \in [Ids -> Row]
         /\ RowsCleared([table EXCEPT ![i].state = s], ok)
<1> DEFINE t == [table EXCEPT ![i].state = s]
<1>1. t \in [Ids -> Row]
  BY DEF Row
<1>2. \A j \in Ids : t[j].state = (IF j = i THEN s ELSE table[j].state)
                    /\ t[j].signed = table[j].signed
  BY DEF Row
<1>3. QED
  BY <1>1, <1>2 DEF RowsCleared

LEMMA OtherWrites ==
  ASSUME NEW table \in [Ids -> Row], NEW i \in Ids, NEW ok, RowsCleared(table, ok),
         NEW n \in Nat \cup {None}, NEW ops \in SUBSET Outpoints,
         NEW tx \in Tx \cup {None}, tx # None => tx.id \in ok,
         NEW t, t \in {[table EXCEPT ![i].nonce = n], [table EXCEPT ![i].ops = ops],
                       [table EXCEPT ![i].signed = tx]}
  PROVE  t \in [Ids -> Row] /\ RowsCleared(t, ok)
<1>1. t \in [Ids -> Row]
  BY DEF Row
<1>2. \A j \in Ids : /\ t[j].state = table[j].state
                     /\ t[j].signed \in {table[j].signed, tx}
  BY DEF Row
<1>3. QED
  BY <1>1, <1>2 DEF RowsCleared

LEMMA RowSteps ==
  ASSUME NEW table \in [Outpoints -> UTXOLockState], NEW o \in Outpoints
  PROVE  /\ RestoreUTXO(table, o) \in [Outpoints -> UTXOLockState]
         /\ MarkUTXOSpent(table, o) \in [Outpoints -> UTXOLockState]
  BY DEF RestoreUTXO, MarkUTXOSpent, SetRow, UTXOLockState

LEMMA NonceSteps ==
  ASSUME NEW r \in NonceRow, NEW n \in Nat
  PROVE  /\ IncrementPendingNonce(r) \in NonceRow
         /\ AdvanceBroadcastNonce(r, n) \in NonceRow
         /\ RollbackPendingNonce(r, n) \in NonceRow
  BY DEF NonceRow, IncrementPendingNonce, AdvanceBroadcastNonce, RollbackPendingNonce

(* What the rows say of a worker: the type of its record.                  *)
LEMMA HandlerTyped ==
  ASSUME IInv, NEW w \in Workers
  PROVE  /\ h[w] \in Handler
         /\ ClearedBy(h[w], approved)
         /\ wallet \in WalletState /\ nonce \in NonceRow
         /\ utxos \in [Outpoints -> UTXOLockState]
         /\ row \in [Ids -> Row] /\ approved \subseteq Ids /\ net \subseteq Tx
         /\ RowsCleared(row, approved)
         /\ \A t \in net : t.id \in approved
  BY DEF IInv, TypeOK

-----------------------------------------------------------------------------
(* Create.                                                                 *)
LEMMA CreateSteps ==
  ASSUME IInv, NEW w \in Workers,
         \/ \E i \in Ids : Create(w, i)
         \/ InsertRow(w) \/ Approve(w) \/ Reject(w)
  PROVE  IInv'
<1> USE HandlerTyped
<1>1. ASSUME NEW i \in Ids, Create(w, i) PROVE IInv'
  <2> DEFINE r == [Idle EXCEPT !.pc = "insert", !.id = i]
  <2>1. r \in Handler /\ ClearedBy(r, approved)
    BY DEF Idle, Handler, PC, ClearedBy, Working, Past, States, InFlight
  <2>2. QED
    BY <1>1, <2>1, Quiet DEF Create
<1>2. CASE InsertRow(w)
  <2>1. CASE row' = [row EXCEPT ![h[w].id].state = "PENDING"] /\ Goto(w, "check")
    <3> DEFINE r == [h[w] EXCEPT !.pc = "check"]
    <3>1. r \in Handler /\ ClearedBy(r, approved)
      BY <1>2 DEF InsertRow, At, Handler, PC, ClearedBy, Working
    <3>2. row' \in [Ids -> Row] /\ RowsCleared(row', approved)
      <4>1. h[w].id \in Ids
        BY <1>2 DEF InsertRow, At, ClearedBy
      <4>2. QED
        BY <2>1, <4>1, StateWrite DEF States, InFlight, Past
    <3>3. QED
      BY <1>2, <2>1, <3>1, <3>2, Preserve DEF InsertRow, Goto, Become
  <2>2. CASE UNCHANGED row /\ Return(w)
    BY <1>2, <2>2, IdleCleared, Quiet DEF InsertRow, Return
  <2>3. QED
    BY <1>2, <2>1, <2>2 DEF InsertRow
<1>3. CASE Approve(w)
  <2> DEFINE r == [h[w] EXCEPT !.pc = "save", !.to = "WHITELISTED"]
  <2>1. h[w].id \in Ids /\ r \in Handler
    BY <1>3 DEF Approve, At, ClearedBy, Handler, PC, States, InFlight
  <2>2. ClearedBy(r, approved')
    BY <1>3, <2>1 DEF Approve, ClearedBy, Working, Handler, States, InFlight
  <2>3. RowsCleared(row', approved') /\ \A t \in net' : t.id \in approved'
    BY <1>3 DEF Approve, RowsCleared
  <2>4. QED
    BY <1>3, <2>1, <2>2, <2>3, Preserve DEF Approve, Become
<1>4. CASE Reject(w)
  <2> DEFINE r == [h[w] EXCEPT !.pc = "save", !.to = "FAILED"]
  <2>1. r \in Handler /\ ClearedBy(r, approved)
    BY <1>4 DEF Reject, At, Handler, PC, States, InFlight, ClearedBy, Working, Past
  <2>2. QED
    BY <1>4, <2>1, Quiet DEF Reject
<1>5. QED
  BY <1>1, <1>2, <1>3, <1>4

-----------------------------------------------------------------------------
(* ConstructAndSign up to the built transaction.                           *)
LEMMA ReserveSteps ==
  ASSUME IInv, NEW w \in Workers,
         \/ \E i \in Ids : ConstructAndSign(w, i)
         \/ ReserveNonce(w) \/ SelectList(w) \/ ReserveFails(w) \/ SelectLock(w)
  PROVE  IInv'
<1> USE HandlerTyped
<1>1. ASSUME NEW i \in Ids, ConstructAndSign(w, i) PROVE IInv'
  <2> DEFINE r == [Idle EXCEPT !.pc = IF Chain = "SOL" THEN "build" ELSE "reserve",
                               !.id = i]
  <2>1. i \in approved
    BY <1>1 DEF ConstructAndSign, RowsCleared, Past
  <2>2. r \in Handler /\ ClearedBy(r, approved)
    BY <2>1 DEF Idle, Handler, PC, ClearedBy, Working, Past, States, InFlight
  <2>3. QED
    BY <1>1, <2>2, Quiet DEF ConstructAndSign
<1>2. CASE ReserveNonce(w)
  <2> DEFINE r == [h[w] EXCEPT !.pc = "persist", !.nonce = nonce.pending]
  <2>1. r \in Handler /\ ClearedBy(r, approved)
    BY <1>2 DEF ReserveNonce, At, Handler, PC, ClearedBy, Working, NonceRow
  <2>2. nonce' \in NonceRow
    BY <1>2 DEF ReserveNonce, NonceRow, IncrementPendingNonce
  <2>3. QED
    BY <1>2, <2>1, <2>2, Quiet DEF ReserveNonce
<1>3. CASE SelectList(w)
  <2>1. PICK ops \in SUBSET Outpoints :
          Become(w, [h[w] EXCEPT !.pc = "lock", !.ops = ops])
    BY <1>3 DEF SelectList, Selectable, Selections, ListFreeUTXOs
  <2> DEFINE r == [h[w] EXCEPT !.pc = "lock", !.ops = ops]
  <2>2. r \in Handler /\ ClearedBy(r, approved)
    BY <1>3 DEF SelectList, At, Handler, PC, ClearedBy, Working
  <2>3. QED
    BY <1>3, <2>1, <2>2, Quiet DEF SelectList
<1>4. CASE ReserveFails(w)
  BY <1>4, IdleCleared, Quiet DEF ReserveFails, Return
<1>5. CASE SelectLock(w)
  <2>1. utxos' \in [Outpoints -> UTXOLockState]
    BY <1>5 DEF SelectLock, LockUTXOs, UTXOLockState
  <2>2. CASE Goto(w, "persist")
    <3> DEFINE r == [h[w] EXCEPT !.pc = "persist"]
    <3>1. r \in Handler /\ ClearedBy(r, approved)
      BY <1>5 DEF SelectLock, At, Handler, PC, ClearedBy, Working
    <3>2. QED
      BY <1>5, <2>1, <2>2, <3>1, Quiet DEF SelectLock, Goto
  <2>3. CASE Return(w)
    BY <1>5, <2>1, <2>3, IdleCleared, Quiet DEF SelectLock, Return
  <2>4. QED
    BY <1>5, <2>2, <2>3 DEF SelectLock
<1>6. QED
  BY <1>1, <1>2, <1>3, <1>4, <1>5

(* A worker that rolls back, with the rows in any cleared form.            *)
LEMMA RollBackStep ==
  ASSUME IInv, NEW w \in Workers, h[w].id \in Ids, NEW s \in {"FAILED", None},
         Become(w, RollBack(h[w], s)), UNCHANGED <<setting, wallet, nonce, utxos, approved>>,
         row' \in [Ids -> Row], RowsCleared(row', approved),
         net' \subseteq Tx, \A t \in net' : t.id \in approved
  PROVE  IInv'
<1>1. h[w].tx # None => h[w].tx.id \in approved
  BY HandlerTyped DEF ClearedBy
<1>2. RollBack(h[w], s) \in Handler /\ ClearedBy(RollBack(h[w], s), approved)
  BY <1>1, HandlerTyped, RollBackCleared
<1>3. QED
  BY <1>2, HandlerTyped, Preserve DEF Become

(* ConstructAndSign from the reservation to the signed row.                *)
LEMMA BuildSteps ==
  ASSUME IInv, NEW w \in Workers,
         Persist(w) \/ BuildAndSign(w) \/ BuildFails(w) \/ SignFails(w) \/ SaveTx(w)
  PROVE  IInv'
<1> USE HandlerTyped
<1>0. h[w].id \in Ids /\ h[w].id \in approved
  BY DEF Persist, BuildAndSign, BuildFails, SignFails, SaveTx, At, ClearedBy, Working
<1>1. CASE Persist(w)
  <2>1. /\ Persisted(w) \in [Ids -> Row] /\ RowsCleared(Persisted(w), approved)
    <3>1. h[w].nonce \in Nat \cup {None} /\ h[w].ops \in SUBSET Outpoints
      BY DEF Handler
    <3>2. QED
      BY <1>0, <3>1, OtherWrites DEF Persisted
  <2>2. row' \in {row, Persisted(w)}
    BY <1>1 DEF Persist
  <2>3. CASE Goto(w, "build")
    <3> DEFINE r == [h[w] EXCEPT !.pc = "build"]
    <3>1. r \in Handler /\ ClearedBy(r, approved)
      BY <1>0, <1>1 DEF Persist, At, Handler, PC, ClearedBy, Working
    <3>2. QED
      BY <1>1, <2>1, <2>2, <2>3, <3>1, Preserve DEF Persist, Goto, Become
  <2>4. CASE Become(w, RollBack(h[w], None))
    BY <1>0, <1>1, <2>1, <2>2, <2>4, RollBackStep DEF Persist
  <2>5. QED
    BY <1>1, <2>3, <2>4 DEF Persist
<1>2. CASE BuildAndSign(w)
  <2> DEFINE x == [id |-> h[w].id, nonce |-> h[w].nonce, ins |-> h[w].ops]
             r == [h[w] EXCEPT !.pc = "saveTx", !.tx = x]
  <2>1. x \in Tx /\ x.id \in approved
    BY <1>0 DEF Tx, Handler
  <2>2. r \in Handler
    BY <2>1 DEF Handler, PC
  <2>3. ClearedBy(r, approved)
    BY <1>0, <1>2, <2>1 DEF BuildAndSign, At, ClearedBy, Handler
  <2>4. QED
    BY <1>2, <2>2, <2>3, Quiet DEF BuildAndSign
<1>3. CASE BuildFails(w) \/ SignFails(w)
  BY <1>0, <1>3, RollBackStep DEF BuildFails, SignFails
<1>4. CASE SaveTx(w)
  <2> DEFINE saved == [row EXCEPT ![h[w].id].signed = h[w].tx]
  <2>1. saved \in [Ids -> Row] /\ RowsCleared(saved, approved)
    <3>1. h[w].tx \in Tx \cup {None} /\ (h[w].tx # None => h[w].tx.id \in approved)
      BY DEF Handler, ClearedBy
    <3>2. QED
      BY <1>0, <3>1, OtherWrites
  <2>2. CASE row' = saved /\ Become(w, [h[w] EXCEPT !.pc = "save", !.to = "SIGNED"])
    <3> DEFINE r == [h[w] EXCEPT !.pc = "save", !.to = "SIGNED"]
    <3>1. r \in Handler /\ ClearedBy(r, approved)
      BY <1>0 DEF Handler, PC, States, InFlight, ClearedBy, Working
    <3>2. QED
      BY <1>4, <2>1, <2>2, <3>1, Preserve DEF SaveTx, Become
  <2>3. CASE row' \in {row, saved} /\ Become(w, RollBack(h[w], None))
    BY <1>0, <1>4, <2>1, <2>3, RollBackStep DEF SaveTx
  <2>4. QED
    BY <1>4, <2>2, <2>3 DEF SaveTx
<1>5. QED
  BY <1>1, <1>2, <1>3, <1>4

-----------------------------------------------------------------------------
(* Broadcast.                                                              *)
LEMMA BroadcastSteps ==
  ASSUME IInv, NEW w \in Workers,
         \/ \E i \in Ids : Broadcast(w, i)
         \/ SendOk(w) \/ SendFails(w)
  PROVE  IInv'
<1> USE HandlerTyped
<1>1. ASSUME NEW i \in Ids, Broadcast(w, i) PROVE IInv'
  <2> DEFINE r == [Idle EXCEPT !.pc = "send", !.id = i, !.nonce = row[i].nonce,
                               !.ops = row[i].ops, !.tx = row[i].signed]
  <2>1. i \in approved /\ row[i].signed # None /\ row[i].signed.id \in approved
    BY <1>1 DEF Broadcast, RowsCleared, Past
  <2>2. r \in Handler
    BY DEF Idle, Handler, PC, Row
  <2>3. ClearedBy(r, approved)
    BY <2>1 DEF Idle, ClearedBy, Working, Past, States, InFlight
  <2>4. QED
    BY <1>1, <2>2, <2>3, Quiet DEF Broadcast
<1>2. ASSUME At(w, "send")
      PROVE  /\ h[w].id \in Ids /\ h[w].id \in approved
             /\ h[w].tx \in Tx /\ h[w].tx.id \in approved
  BY <1>2 DEF At, ClearedBy, Working, Handler
<1>3. CASE SendOk(w)
  <2> DEFINE r == [h[w] EXCEPT !.pc = "settle", !.to = "BROADCAST"]
  <2>1. At(w, "send")
    BY <1>3 DEF SendOk
  <2>2. r \in Handler /\ r.id \in Ids /\ r.pc # "setWallet"
    BY <1>2, <2>1 DEF Handler, PC, States, InFlight
  <2>3. ClearedBy(r, approved)
    BY <1>2, <2>1 DEF ClearedBy, Working, Handler, States, InFlight
  <2>4. Finish(r) \in Handler /\ ClearedBy(Finish(r), approved)
    BY <2>2, <2>3, FinishCleared
  <2>5. net' \subseteq Tx /\ \A t \in net' : t.id \in approved
    BY <1>2, <1>3, <2>1 DEF SendOk
  <2>6. QED
    BY <1>3, <2>4, <2>5, Preserve DEF SendOk, Become
<1>4. CASE SendFails(w)
  <2>1. net' \subseteq Tx /\ \A t \in net' : t.id \in approved
    BY <1>2, <1>4 DEF SendFails
  <2>2. QED
    BY <1>2, <1>4, <2>1, RollBackStep DEF SendFails
<1>5. QED
  BY <1>1, <1>3, <1>4

(* A worker that has dealt with one resource and goes on with the loop.    *)
LEMMA LoopStep ==
  ASSUME IInv, NEW w \in Workers, At(w, "settle") \/ At(w, "undo") \/ At(w, "restore"),
         NEW n \in Nat \cup {None}, NEW ops \in SUBSET Outpoints,
         NEW r, r \in {[h[w] EXCEPT !.nonce = n], [h[w] EXCEPT !.ops = ops]},
         Become(w, Finish(r)), UNCHANGED <<setting, wallet, row, approved, net>>,
         nonce' \in NonceRow, utxos' \in [Outpoints -> UTXOLockState]
  PROVE  IInv'
<1>1. r \in Handler /\ r.id \in Ids /\ r.pc # "setWallet"
  BY HandlerTyped DEF Handler, At, ClearedBy
<1>2. ClearedBy(r, approved)
  BY HandlerTyped DEF Handler, ClearedBy
<1>3. Finish(r) \in Handler /\ ClearedBy(Finish(r), approved)
  BY <1>1, <1>2, FinishCleared
<1>4. QED
  BY <1>3, HandlerTyped, Quiet

LEMMA LoopSteps ==
  ASSUME IInv, NEW w \in Workers,
         \/ SettleNonce(w) \/ UndoNonce(w) \/ LoopFails(w)
         \/ \E o \in Outpoints : SettleRow(w, o) \/ UndoRow(w, o) \/ RestoreRow(w, o)
  PROVE  IInv'
<1> USE HandlerTyped
<1>0. h[w].ops \in SUBSET Outpoints /\ h[w].nonce \in Nat \cup {None}
  BY DEF Handler
<1>1. CASE SettleNonce(w) \/ UndoNonce(w)
  <2>1. nonce' \in NonceRow
    BY <1>0, <1>1, NonceSteps DEF SettleNonce, UndoNonce
  <2>2. QED
    BY <1>1, <2>1, LoopStep DEF SettleNonce, UndoNonce
<1>2. CASE LoopFails(w)
  BY <1>2, LoopStep DEF LoopFails
<1>3. ASSUME NEW o \in Outpoints, SettleRow(w, o) \/ UndoRow(w, o) \/ RestoreRow(w, o)
      PROVE  IInv'
  <2>1. utxos' \in [Outpoints -> UTXOLockState]
    BY <1>3, RowSteps DEF SettleRow, UndoRow, RestoreRow
  <2>2. CASE Return(w)
    BY <1>3, <2>1, <2>2, IdleCleared, Quiet DEF SettleRow, UndoRow, RestoreRow, Return
  <2>3. CASE Become(w, Finish([h[w] EXCEPT !.ops = @ \ {o}]))
    <3>1. h[w].ops \ {o} \in SUBSET Outpoints
      BY <1>0
    <3>2. QED
      BY <1>3, <2>1, <2>3, <3>1, LoopStep DEF SettleRow, UndoRow, RestoreRow
  <2>4. QED
    BY <1>3, <2>2, <2>3 DEF SettleRow, UndoRow, RestoreRow
<1>4. QED
  BY <1>1, <1>2, <1>3

-----------------------------------------------------------------------------
(* Confirm, Fail and OnReorg.                                              *)
LEMMA EventSteps ==
  ASSUME IInv, NEW w \in Workers,
         \/ \E i \in Ids : Confirm(w, i) \/ Fail(w, i)
         \/ \E t \in net : OnReorg(w, t)
  PROVE  IInv'
<1> USE HandlerTyped
<1>1. ASSUME NEW i \in Ids, Confirm(w, i) PROVE IInv'
  <2> DEFINE r == [Idle EXCEPT !.pc = "save", !.id = i, !.to = "CONFIRMED"]
  <2>1. i \in approved
    BY <1>1 DEF Confirm, RowsCleared, Past
  <2>2. r \in Handler /\ ClearedBy(r, approved)
    BY <2>1 DEF Idle, Handler, PC, ClearedBy, Working, States, InFlight
  <2>3. QED
    BY <1>1, <2>2, Quiet DEF Confirm
<1>2. ASSUME NEW i \in Ids, Fail(w, i) PROVE IInv'
  <2> DEFINE r == [Idle EXCEPT !.id = i, !.nonce = row[i].nonce]
  <2>1. r \in Handler /\ r.tx = None /\ r.id \in Ids
    BY DEF Idle, Handler, PC, Row
  <2>2. RollBack(r, "FAILED") \in Handler /\ ClearedBy(RollBack(r, "FAILED"), approved)
    BY <2>1, RollBackCleared
  <2>3. QED
    BY <1>2, <2>2, Quiet DEF Fail
<1>3. ASSUME NEW t \in net, OnReorg(w, t) PROVE IInv'
  <2> DEFINE s == IF row[t.id].state = "CONFIRMED" THEN "BROADCAST" ELSE None
             r == [Idle EXCEPT !.pc = "restore", !.id = t.id, !.ops = t.ins, !.to = s]
  <2>1. t.id \in Ids /\ t.id \in approved /\ t.ins \in SUBSET Outpoints
    BY DEF Tx
  <2>2. r \in Handler /\ r.id \in Ids /\ r.pc # "setWallet"
    BY <2>1 DEF Idle, Handler, PC, States, InFlight
  <2>3. ClearedBy(r, approved)
    BY <2>1 DEF Idle, ClearedBy, Working, States, InFlight
  <2>4. Finish(r) \in Handler /\ ClearedBy(Finish(r), approved)
    <3> HIDE DEF r
    <3> QED
      BY <2>2, <2>3, FinishCleared
  <2>5. QED
    BY <1>3, <2>4, Preserve DEF OnReorg, Become
<1>4. QED
  BY <1>1, <1>2, <1>3

(* The writes of states, and a crash.                                      *)
LEMMA StateSteps ==
  ASSUME IInv, NEW w \in Workers,
         \/ SaveState(w) \/ UpdateWalletState(w) \/ Crash(w)
         \/ \E s \in setting.walletStates : SetState(w, s)
  PROVE  IInv'
<1> USE HandlerTyped
<1>1. CASE SaveState(w)
  <2>1. /\ h[w].id \in Ids /\ h[w].to \in States
        /\ h[w].to \in Past => h[w].id \in approved
    BY <1>1 DEF SaveState, At, ClearedBy
  <2>2. row' \in [Ids -> Row] /\ RowsCleared(row', approved)
    BY <1>1, <2>1, StateWrite DEF SaveState
  <2>3. QED
    BY <1>1, <2>2, IdleCleared, Preserve DEF SaveState, Return, Become
<1>2. CASE UpdateWalletState(w)
  <2>1. wallet' \in WalletState
    BY <1>2 DEF UpdateWalletState, At, ClearedBy
  <2>2. QED
    BY <1>2, <2>1, IdleCleared, Quiet DEF UpdateWalletState, Return
<1>3. CASE Crash(w)
  BY <1>3, IdleCleared, Quiet DEF Crash, Return
<1>4. ASSUME NEW s \in setting.walletStates, SetState(w, s) PROVE IInv'
  <2> DEFINE r == [Idle EXCEPT !.pc = "setWallet", !.to = s]
  <2>1. s \in WalletState
    BY SettingAssumption DEF IInv, TypeOK, Setting
  <2>2. r \in Handler
    BY <2>1 DEF Idle, Handler, PC
  <2>3. ClearedBy(r, approved)
    BY <2>1 DEF Idle, ClearedBy, Working, Past, WalletState
  <2>4. QED
    BY <1>4, <2>2, <2>3, Quiet DEF SetState
<1>5. QED
  BY <1>1, <1>2, <1>3, <1>4

-----------------------------------------------------------------------------
LEMMA NextIInv == IInv /\ [Next]_vars => IInv'
<1> SUFFICES ASSUME IInv, [Next]_vars PROVE IInv'
  OBVIOUS
<1>1. CASE UNCHANGED vars
  BY <1>1 DEF vars, IInv, TypeOK, RowsCleared, ClearedBy
<1>2. ASSUME NEW w \in Workers, Step(w) PROVE IInv'
  BY <1>2, CreateSteps, ReserveSteps, BuildSteps, BroadcastSteps, LoopSteps, StateSteps
     DEF Step
<1>3. QED
  BY <1>1, <1>2, CreateSteps, ReserveSteps, BroadcastSteps, EventSteps, StateSteps DEF Next

(* Every withdrawal, reservation, transaction and running operation stays  *)
(* well formed; among others, a failed or reorged loop never leaves a      *)
(* state to write that is not a withdrawal's.                              *)
THEOREM TypeCorrect == Spec => []TypeOK
<1>1. IInv => TypeOK
  BY DEF IInv
<1>2. QED
  BY <1>1, InitIInv, NextIInv, PTL DEF Spec

(* Nothing goes past PENDING and nothing reaches the network that the      *)
(* policy engine did not approve: ConstructAndSign and Broadcast act on    *)
(* the state they read first, Create ignores a failed rejection, and OnReorg *)
(* and Confirm write states of their own, under every fault and any number *)
(* of operations that run at once on one withdrawal.                       *)
THEOREM PolicyHolds == Spec => []PolicyGate
<1>1. IInv => PolicyGate
  BY DEF IInv, RowsCleared, Past, PolicyGate
<1>2. QED
  BY <1>1, InitIInv, NextIInv, PTL DEF Spec

-----------------------------------------------------------------------------
(* Operations on one withdrawal do not overlap: each acts on a row in the  *)
(* state its guard read, whatever fails in between.                        *)

(* The definitions below take the setting as the parameter e.              *)

(* A nonce is reserved on EVM chains only, outpoints on Bitcoin only.      *)
OfChain(e, n, ops) == (e.chain # "EVM" => n = None) /\ (e.chain # "BTC" => ops = {})

TxOf(e, t, i) == t # None => t.id = i /\ OfChain(e, t.nonce, t.ins)

Shaped(e, r) == OfChain(e, r.nonce, r.ops) /\ TxOf(e, r.tx, r.id)

RowsShaped(e, table) ==
  \A i \in Ids : OfChain(e, table[i].nonce, table[i].ops) /\ TxOf(e, table[i].signed, i)

NetShaped(e, txs) == \A t \in txs : OfChain(e, t.nonce, t.ins)

(* A write of state s over state from is a move of the life cycle, or one  *)
(* that a call of Fail asks for.                                           *)
Leads(e, from, s) ==
  \/ <<from, s>> \in Lifecycle!Forward
  \/ s = "FAILED" /\ from \in Lifecycle!MayFail \cup e.failFrom

Constructing == {"reserve", "lock", "persist", "build", "saveTx"}

(* Operation r fits its row, which is in state s.                          *)
Fits(e, r, s) ==
  /\ r.pc = "insert" => s = "ABSENT"
  /\ r.pc = "check" => s = "PENDING"
  /\ r.pc \in Constructing => s = "WHITELISTED"
  /\ r.pc \in {"send", "settle"} => s = "SIGNED"
  /\ r.pc = "settle" => r.to = "BROADCAST"
  /\ r.pc = "undo" => r.to \in {None, "FAILED"}
  /\ r.pc = "undo" /\ r.to = None => s = "WHITELISTED"
  /\ r.pc = "undo" /\ r.ops # {} => s \in {"WHITELISTED", "SIGNED"}
  /\ r.pc = "restore" => r.to = None \/ (r.to = "BROADCAST" /\ s = "CONFIRMED")
  /\ r.pc \in {"undo", "restore", "save"} /\ r.to # None => Leads(e, s, r.to)

(* Row q names what its transaction uses.                                  *)
Describes(q) == q.signed # None /\ q.nonce = q.signed.nonce /\ q.ops = q.signed.ins

(* Operation r and its row q agree on what is reserved.                    *)
Agrees(r, q) ==
  /\ r.pc \in {"build", "saveTx"} => q.nonce = r.nonce /\ q.ops = r.ops
  /\ r.pc = "saveTx" => r.tx # None /\ r.tx.nonce = r.nonce /\ r.tx.ins = r.ops
  /\ (r.pc = "save" /\ r.to = "SIGNED") \/ r.pc = "send"
       => Describes(q) /\ r.tx = q.signed /\ r.nonce = q.nonce /\ r.ops = q.ops

(* The nonce of a row is written whenever it is reserved.                  *)
Recorded(e) == e.chain = "EVM" => "store" \notin e.faults

Ordered(e, r, q) == Fits(e, r, q.state) /\ (Recorded(e) => Agrees(r, q))

(* Operations do not overlap on a withdrawal, and each fits its row.       *)
InOrder(e, ops, table) ==
  /\ \A v, w \in Workers : v # w /\ ops[v].id = ops[w].id => ops[v].id = None
  /\ \A w \in Workers : ops[w].id # None => Ordered(e, ops[w], table[ops[w].id])
  /\ Recorded(e) => \A i \in Ids : table[i].state = "SIGNED" => Describes(table[i])

Order ==
  /\ \A w \in Workers : Shaped(setting, h[w])
  /\ RowsShaped(setting, row)
  /\ NetShaped(setting, net)
  /\ setting.serial => InOrder(setting, h, row)

-----------------------------------------------------------------------------
USE RequestAssumption

LEMMA IdleShaped == \A e : Shaped(e, Idle)
  BY DEF Shaped, OfChain, TxOf, Idle

LEMMA InitOrder == Init => Order
<1> SUFFICES ASSUME Init PROVE Order
  OBVIOUS
<1>1. \A w \in Workers : h[w] = Idle
  BY DEF Init
<1>2. RowsShaped(setting, row) /\ NetShaped(setting, net)
  BY DEF Init, RowsShaped, NetShaped, OfChain, TxOf, NoRow
<1>3. InOrder(setting, h, row)
  BY <1>1 DEF Init, InOrder, Idle, NoRow
<1>4. QED
  BY <1>1, <1>2, <1>3, IdleShaped DEF Order

(* A step of worker w, which goes on as r: it touches only its own row, or *)
(* takes up a request nobody works on.                                     *)
LEMMA OrderStep ==
  ASSUME IInv, IInv', Order, NEW w \in Workers, NEW r, Become(w, r), setting' = setting,
         Shaped(setting, r), RowsShaped(setting, row'), NetShaped(setting, net'),
         setting.serial =>
           /\ r.id # None => r.id = h[w].id \/ \A v \in Workers : h[v].id # r.id
           /\ \A i \in Ids : i # h[w].id => row'[i] = row[i]
           /\ r.id # None => Ordered(setting, r, row'[r.id])
           /\ Recorded(setting) /\ h[w].id # None /\ row'[h[w].id].state = "SIGNED"
                => Describes(row'[h[w].id])
  PROVE  Order'
<1>1. h' = [h EXCEPT ![w] = r] /\ DOMAIN h = Workers
  BY DEF Become, IInv, TypeOK
<1>2. \A v \in Workers : h'[v] = IF v = w THEN r ELSE h[v]
  BY <1>1
<1>3. \A v \in Workers : Shaped(setting, h'[v])
  BY <1>2 DEF Order
<1>4. ASSUME setting.serial PROVE InOrder(setting, h', row')
  <2>1. InOrder(setting, h, row)
    BY <1>4 DEF Order
  <2>2. \A v \in Workers : h[v].id \in Ids \cup {None}
    BY DEF IInv, TypeOK, Handler
  <2>3. ASSUME NEW u \in Workers, NEW v \in Workers, u # v, h'[u].id = h'[v].id
        PROVE  h'[u].id = None
    BY <1>2, <1>4, <2>1, <2>3 DEF InOrder
  <2>4. ASSUME NEW v \in Workers, h'[v].id # None
        PROVE  Ordered(setting, h'[v], row'[h'[v].id])
    <3>1. CASE v = w
      BY <1>2, <1>4, <2>4, <3>1
    <3>2. CASE v # w
      <4>1. h'[v] = h[v] /\ h[v].id # h[w].id /\ h[v].id \in Ids
        BY <1>2, <2>1, <2>2, <2>4, <3>2 DEF InOrder
      <4>2. row'[h[v].id] = row[h[v].id]
        BY <1>4, <4>1
      <4>3. QED
        BY <2>1, <2>4, <4>1, <4>2 DEF InOrder
    <3>3. QED
      BY <3>1, <3>2
  <2>5. ASSUME Recorded(setting), NEW i \in Ids, row'[i].state = "SIGNED"
        PROVE  Describes(row'[i])
    <3>1. CASE i = h[w].id
      BY <1>4, <2>5, <3>1
    <3>2. CASE i # h[w].id
      <4>1. row'[i] = row[i]
        BY <1>4, <3>2
      <4>2. QED
        BY <2>1, <2>5, <4>1 DEF InOrder
    <3>3. QED
      BY <3>1, <3>2
  <2>6. QED
    BY <2>3, <2>4, <2>5 DEF InOrder
<1>5. QED
  BY <1>3, <1>4 DEF Order

(* One that writes no row.                                                 *)
LEMMA OrderQuiet ==
  ASSUME IInv, IInv', Order, NEW w \in Workers, NEW r, Become(w, r), setting' = setting,
         row' = row, Shaped(setting, r), NetShaped(setting, net'),
         setting.serial =>
           /\ r.id # None => r.id = h[w].id \/ \A v \in Workers : h[v].id # r.id
           /\ r.id # None => Ordered(setting, r, row[r.id])
  PROVE  Order'
<1>1. RowsShaped(setting, row')
  BY DEF Order
<1>2. h[w].id # None => h[w].id \in Ids
  BY DEF IInv, TypeOK, Handler
<1>3. setting.serial /\ Recorded(setting) /\ h[w].id # None /\ row'[h[w].id].state = "SIGNED"
        => Describes(row'[h[w].id])
  BY <1>2 DEF Order, InOrder
<1>4. QED
  BY <1>1, <1>3, OrderStep

(* A worker that returns or dies.                                          *)
LEMMA OrderReturn ==
  ASSUME IInv, IInv', Order, NEW w \in Workers, Return(w), setting' = setting,
         row' = row, net' = net
  PROVE  Order'
<1>1. NetShaped(setting, net')
  BY DEF Order
<1>2. Idle.id = None
  BY DEF Idle
<1>3. QED
  BY <1>1, <1>2, IdleShaped, OrderQuiet DEF Return

(* What an operation at work on a request may rely on.                     *)
LEMMA Known ==
  ASSUME IInv, Order, NEW w \in Workers, h[w].pc \notin {"idle", "setWallet"}
  PROVE  /\ h[w] \in Handler /\ h[w].id \in Ids /\ h[w].id # None
         /\ row \in [Ids -> Row] /\ row[h[w].id] \in Row
         /\ Shaped(setting, h[w]) /\ RowsShaped(setting, row) /\ NetShaped(setting, net)
         /\ setting.serial => Ordered(setting, h[w], row[h[w].id])
<1>1. h[w] \in Handler /\ h[w].id \in Ids /\ row \in [Ids -> Row]
  BY DEF IInv, TypeOK, ClearedBy
<1>2. setting.serial => Ordered(setting, h[w], row[h[w].id])
  BY <1>1 DEF Order, InOrder
<1>3. QED
  BY <1>1, <1>2 DEF Order

(* Writes of one column keep the rows in shape.                            *)
LEMMA ShapedWrite ==
  ASSUME NEW e, NEW table \in [Ids -> Row], RowsShaped(e, table), NEW i \in Ids,
         NEW q \in Row, OfChain(e, q.nonce, q.ops), TxOf(e, q.signed, i)
  PROVE  RowsShaped(e, [table EXCEPT ![i] = q])
<1>1. \A j \in Ids : [table EXCEPT ![i] = q][j] = IF j = i THEN q ELSE table[j]
  OBVIOUS
<1>2. QED
  BY <1>1 DEF RowsShaped

(* Worker w writes its row, which becomes q.                               *)
LEMMA OrderWrite ==
  ASSUME IInv, IInv', Order, NEW w \in Workers, h[w].pc \notin {"idle", "setWallet"},
         NEW r, Become(w, r), setting' = setting, net' = net,
         NEW q \in Row, row' = [row EXCEPT ![h[w].id] = q],
         Shaped(setting, r), r.id # None => r.id = h[w].id,
         OfChain(setting, q.nonce, q.ops), TxOf(setting, q.signed, h[w].id),
         setting.serial => /\ r.id # None => Ordered(setting, r, q)
                           /\ Recorded(setting) /\ q.state = "SIGNED" => Describes(q)
  PROVE  Order'
<1>1. RowsShaped(setting, row')
  BY Known, ShapedWrite
<1>2. row'[h[w].id] = q /\ \A i \in Ids : i # h[w].id => row'[i] = row[i]
  BY Known
<1>3. NetShaped(setting, net')
  BY DEF Order
<1>4. QED
  BY <1>1, <1>2, <1>3, OrderStep

-----------------------------------------------------------------------------
(* Create.                                                                 *)
LEMMA CreateOrder ==
  ASSUME IInv, IInv', Order, NEW w \in Workers,
         \/ \E i \in Ids : Create(w, i)
         \/ InsertRow(w) \/ Approve(w) \/ Reject(w)
  PROVE  Order'
<1>1. ASSUME NEW i \in Ids, Create(w, i) PROVE Order'
  <2> DEFINE r == [Idle EXCEPT !.pc = "insert", !.id = i]
  <2>1. Shaped(setting, r) /\ r.id = i
    BY DEF Idle, Shaped, OfChain, TxOf
  <2>2. Ordered(setting, r, row[i])
    BY <1>1 DEF Create, Idle, Ordered, Fits, Agrees, Constructing
  <2>3. QED
    BY <1>1, <2>1, <2>2, OrderQuiet DEF Create, Order
<1>2. CASE InsertRow(w)
  <2>1. CASE row' = [row EXCEPT ![h[w].id].state = "PENDING"] /\ Goto(w, "check")
    <3> DEFINE r == [h[w] EXCEPT !.pc = "check"]
               i == h[w].id
               q == [row[i] EXCEPT !.state = "PENDING"]
    <3>0. h[w].pc = "insert"
      BY <1>2 DEF InsertRow, At
    <3>1. r.pc = "check" /\ r.id = i /\ Shaped(setting, r)
      BY <3>0, Known DEF Handler, Shaped
    <3>2. q \in Row /\ q.state = "PENDING" /\ row' = [row EXCEPT ![i] = q]
      BY <2>1, <3>0, Known DEF Row, States, InFlight
    <3>3. OfChain(setting, q.nonce, q.ops) /\ TxOf(setting, q.signed, i)
      BY <3>0, Known DEF RowsShaped, Row
    <3>4. Ordered(setting, r, q)
      BY <3>1, <3>2 DEF Ordered, Fits, Agrees, Constructing
    <3>5. Become(w, r) /\ setting' = setting /\ net' = net
      BY <1>2, <2>1 DEF InsertRow, Goto
    <3> HIDE DEF r, q
    <3>6. QED
      BY <3>0, <3>1, <3>2, <3>3, <3>4, <3>5, OrderWrite
  <2>2. CASE UNCHANGED row /\ Return(w)
    BY <1>2, <2>2, OrderReturn DEF InsertRow
  <2>3. QED
    BY <1>2, <2>1, <2>2 DEF InsertRow
<1>3. CASE Approve(w) \/ Reject(w)
  <2>0. h[w].pc = "check"
    BY <1>3 DEF Approve, Reject, At
  <2>1. PICK s \in {"WHITELISTED", "FAILED"} :
          Become(w, [h[w] EXCEPT !.pc = "save", !.to = s])
    BY <1>3 DEF Approve, Reject
  <2> DEFINE r == [h[w] EXCEPT !.pc = "save", !.to = s]
  <2>2. r.pc = "save" /\ r.to = s /\ r.id = h[w].id /\ Shaped(setting, r)
    BY <2>0, Known DEF Handler, Shaped
  <2>3. setting.serial => row[h[w].id].state = "PENDING"
    BY <2>0, Known DEF Ordered, Fits
  <2>4. setting.serial => Ordered(setting, r, row[r.id])
    BY <2>2, <2>3 DEF Ordered, Fits, Agrees, Constructing, Leads, Lifecycle!Forward,
       Lifecycle!MayFail
  <2>5. QED
    BY <1>3, <2>1, <2>2, <2>4, OrderQuiet DEF Approve, Reject, Order
<1>4. QED
  BY <1>1, <1>2, <1>3

-----------------------------------------------------------------------------
(* ConstructAndSign up to the reservation.                                 *)
LEMMA ReserveOrder ==
  ASSUME IInv, IInv', Order, NEW w \in Workers,
         \/ \E i \in Ids : ConstructAndSign(w, i)
         \/ ReserveNonce(w) \/ SelectList(w) \/ ReserveFails(w) \/ SelectLock(w)
  PROVE  Order'
<1>1. ASSUME NEW i \in Ids, ConstructAndSign(w, i) PROVE Order'
  <2> DEFINE r == [Idle EXCEPT !.pc = IF Chain = "SOL" THEN "build" ELSE "reserve",
                               !.id = i]
  <2>1. Shaped(setting, r) /\ r.id = i
    BY DEF Idle, Shaped, OfChain, TxOf
  <2>2. /\ r.nonce = None /\ r.ops = {} /\ r.pc \in {"build", "reserve"}
        /\ r.pc = "build" => setting.chain = "SOL"
    BY DEF Idle, Chain
  <2>3. row[i].state = "WHITELISTED" /\ OfChain(setting, row[i].nonce, row[i].ops)
    BY <1>1 DEF ConstructAndSign, Order, RowsShaped
  <2>4. Fits(setting, r, row[i].state)
    BY <2>2, <2>3 DEF Fits, Constructing
  <2>5. Agrees(r, row[i])
    BY <2>2, <2>3 DEF Agrees, OfChain
  <2>6. QED
    BY <1>1, <2>1, <2>4, <2>5, OrderQuiet DEF ConstructAndSign, Starts, Serial, Order, Ordered
<1>2. CASE ReserveNonce(w)
  <2> DEFINE r == [h[w] EXCEPT !.pc = "persist", !.nonce = nonce.pending]
  <2>0. h[w].pc = "reserve" /\ setting.chain = "EVM"
    BY <1>2 DEF ReserveNonce, At, Chain
  <2>1. r.pc = "persist" /\ r.id = h[w].id /\ r.ops = h[w].ops /\ r.tx = h[w].tx
    BY <2>0, Known DEF Handler
  <2>2. Shaped(setting, r)
    BY <2>0, <2>1, Known DEF Shaped, OfChain
  <2>3. setting.serial => Ordered(setting, r, row[r.id])
    BY <2>0, <2>1, Known DEF Ordered, Fits, Agrees, Constructing
  <2>4. QED
    BY <1>2, <2>1, <2>2, <2>3, OrderQuiet DEF ReserveNonce, Order
<1>3. CASE SelectList(w)
  <2>0. h[w].pc = "reserve" /\ setting.chain = "BTC"
    BY <1>3 DEF SelectList, At, Chain
  <2>1. PICK ops : Become(w, [h[w] EXCEPT !.pc = "lock", !.ops = ops])
    BY <1>3 DEF SelectList
  <2> DEFINE r == [h[w] EXCEPT !.pc = "lock", !.ops = ops]
  <2>2. r.pc = "lock" /\ r.id = h[w].id /\ r.nonce = h[w].nonce /\ r.tx = h[w].tx
    BY <2>0, Known DEF Handler
  <2>3. Shaped(setting, r)
    BY <2>0, <2>2, Known DEF Shaped, OfChain
  <2>4. setting.serial => Ordered(setting, r, row[r.id])
    BY <2>0, <2>2, Known DEF Ordered, Fits, Agrees, Constructing
  <2>5. QED
    BY <1>3, <2>1, <2>2, <2>3, <2>4, OrderQuiet DEF SelectList, Order
<1>4. CASE ReserveFails(w)
  BY <1>4, OrderReturn DEF ReserveFails
<1>5. CASE SelectLock(w)
  <2>1. CASE Goto(w, "persist")
    <3> DEFINE r == [h[w] EXCEPT !.pc = "persist"]
    <3>0. h[w].pc = "lock"
      BY <1>5 DEF SelectLock, At
    <3>1. r.pc = "persist" /\ r.id = h[w].id /\ Shaped(setting, r)
      BY <3>0, Known DEF Handler, Shaped
    <3>2. setting.serial => Ordered(setting, r, row[r.id])
      BY <3>0, <3>1, Known DEF Ordered, Fits, Agrees, Constructing
    <3>3. QED
      BY <1>5, <2>1, <3>1, <3>2, OrderQuiet DEF SelectLock, Goto, Order
  <2>2. CASE Return(w)
    BY <1>5, <2>2, OrderReturn DEF SelectLock
  <2>3. QED
    BY <1>5, <2>1, <2>2 DEF SelectLock
<1>6. QED
  BY <1>1, <1>2, <1>3, <1>4, <1>5

(* The end of a loop over resources.                                       *)
LEMMA FinishOrdered ==
  ASSUME NEW e, NEW r \in Handler, r.pc \in {"undo", "settle", "restore"},
         Shaped(e, r)
  PROVE  /\ Shaped(e, Finish(r))
         /\ Finish(r).id # None => Finish(r).id = r.id
         /\ \A q : Finish(r).id # None /\ Fits(e, r, q.state) => Ordered(e, Finish(r), q)
<1>1. CASE Finish(r) = r
  <2>1. \A q : Agrees(r, q)
    BY DEF Agrees
  <2>2. QED
    BY <1>1, <2>1 DEF Ordered
<1>2. CASE Finish(r) = Idle
  BY <1>2, IdleShaped DEF Idle
<1>3. CASE Finish(r) = [r EXCEPT !.pc = "save"] /\ r.to # None
  <2> DEFINE f == [r EXCEPT !.pc = "save"]
  <2>1. f.pc = "save" /\ f.id = r.id /\ f.to = r.to /\ Shaped(e, f)
    BY DEF Handler, Shaped
  <2>2. ASSUME NEW q, Fits(e, r, q.state) PROVE Ordered(e, f, q)
    <3>1. r.to # "SIGNED"
      BY <1>3, <2>2 DEF Fits
    <3>2. Leads(e, q.state, r.to)
      BY <1>3, <2>2 DEF Fits, Leads, Lifecycle!Forward
    <3>3. QED
      BY <1>3, <2>1, <3>1, <3>2 DEF Ordered, Fits, Agrees, Constructing
  <2>3. QED
    BY <1>3, <2>1, <2>2
<1>4. QED
  BY <1>1, <1>2, <1>3 DEF Finish

(* A rollback after which state s is written.                              *)
LEMMA RollBackOrdered ==
  ASSUME NEW e, NEW r \in Handler, Shaped(e, r), NEW s \in {None, "FAILED"}
  PROVE  /\ Shaped(e, RollBack(r, s))
         /\ RollBack(r, s).id # None => RollBack(r, s).id = r.id
         /\ \A q : /\ RollBack(r, s).id # None
                   /\ r.ops # {} \/ s = None => q.state \in {"WHITELISTED", "SIGNED"}
                   /\ s = None => q.state = "WHITELISTED"
                   /\ q.state \in Lifecycle!MayFail \cup e.failFrom
                   => Ordered(e, RollBack(r, s), q)
<1> DEFINE u == [r EXCEPT !.pc = "undo", !.to = s]
<1>1. u \in Handler /\ u.pc = "undo" /\ u.to = s /\ u.id = r.id /\ u.ops = r.ops
  BY DEF Handler, PC, States, InFlight
<1>2. Shaped(e, u)
  BY DEF Shaped, Handler
<1>3. ASSUME NEW q, r.ops # {} => q.state \in {"WHITELISTED", "SIGNED"},
             s = None => q.state = "WHITELISTED",
             q.state \in Lifecycle!MayFail \cup e.failFrom
      PROVE  Fits(e, u, q.state)
  <2> HIDE DEF u
  <2> QED
    BY <1>1, <1>3 DEF Fits, Leads, Constructing
<1>4. RollBack(r, s) = Finish(u)
  BY DEF RollBack
<1>5. QED
  <2> HIDE DEF u
  <2> QED
    BY <1>1, <1>2, <1>3, <1>4, FinishOrdered

(* Worker w rolls back; its row is WHITELISTED or, with state FAILED to    *)
(* write, SIGNED.                                                          *)
LEMMA OrderRollBack ==
  ASSUME IInv, IInv', Order, NEW w \in Workers, h[w].pc \notin {"idle", "setWallet"},
         NEW s \in {None, "FAILED"}, Become(w, RollBack(h[w], s)), setting' = setting,
         NetShaped(setting, net'),
         \/ row' = row
         \/ \E q \in Row : /\ row' = [row EXCEPT ![h[w].id] = q] /\ net' = net
                           /\ OfChain(setting, q.nonce, q.ops)
                           /\ TxOf(setting, q.signed, h[w].id)
                           /\ q.state = row[h[w].id].state,
         setting.serial => \/ row[h[w].id].state = "WHITELISTED"
                           \/ s # None /\ row[h[w].id].state = "SIGNED" /\ row' = row
  PROVE  Order'
<1> DEFINE r == RollBack(h[w], s)
<1>1. Shaped(setting, r) /\ (r.id # None => r.id = h[w].id)
  BY Known, RollBackOrdered
<1>2. ASSUME NEW q, setting.serial, r.id # None, q.state = row[h[w].id].state
      PROVE  Ordered(setting, r, q)
  <2>1. /\ h[w].ops # {} \/ s = None => q.state \in {"WHITELISTED", "SIGNED"}
        /\ s = None => q.state = "WHITELISTED"
        /\ q.state \in Lifecycle!MayFail \cup setting.failFrom
    BY <1>2 DEF Lifecycle!MayFail
  <2>2. QED
    BY <1>2, <2>1, Known, RollBackOrdered
<1>3. CASE row' = row
  <2> HIDE DEF r
  <2>1. setting.serial /\ r.id # None => Ordered(setting, r, row[r.id])
    BY <1>1, <1>2
  <2>2. Become(w, r)
    BY DEF r
  <2>3. QED
    BY <1>1, <1>3, <2>1, <2>2, OrderQuiet
<1>4. ASSUME NEW q \in Row, row' = [row EXCEPT ![h[w].id] = q], net' = net,
             OfChain(setting, q.nonce, q.ops), TxOf(setting, q.signed, h[w].id),
             q.state = row[h[w].id].state, row' # row
      PROVE  Order'
  <2> HIDE DEF r
  <2>1. setting.serial => /\ r.id # None => Ordered(setting, r, q)
                          /\ q.state # "SIGNED"
    BY <1>2, <1>4
  <2>2. Become(w, r)
    BY DEF r
  <2>3. QED
    BY <1>1, <1>4, <2>1, <2>2, OrderWrite
<1>5. QED
  BY <1>3, <1>4

-----------------------------------------------------------------------------
(* ConstructAndSign from the reservation to the signed row.                *)
LEMMA BuildOrder ==
  ASSUME IInv, IInv', Order, NEW w \in Workers,
         Persist(w) \/ BuildAndSign(w) \/ BuildFails(w) \/ SignFails(w) \/ SaveTx(w)
  PROVE  Order'
<1> DEFINE i == h[w].id
<1>0. /\ h[w].pc \in {"persist", "build", "saveTx"} /\ setting' = setting /\ net' = net
      /\ h[w].pc \notin {"idle", "setWallet"} /\ NetShaped(setting, net')
  BY DEF Persist, BuildAndSign, BuildFails, SignFails, SaveTx, At, Order
<1>a. setting.serial => row[i].state = "WHITELISTED"
  BY <1>0, Known DEF Ordered, Fits, Constructing
<1>b. OfChain(setting, row[i].nonce, row[i].ops) /\ TxOf(setting, row[i].signed, i)
  BY <1>0, Known DEF RowsShaped
<1>1. CASE Persist(w)
  <2> DEFINE q == IF setting.chain = "EVM" THEN [row[i] EXCEPT !.nonce = h[w].nonce]
                                           ELSE [row[i] EXCEPT !.ops = h[w].ops]
  <2>1. /\ q \in Row /\ q.state = row[i].state /\ q.signed = row[i].signed
        /\ setting.chain = "EVM" => q.nonce = h[w].nonce /\ q.ops = row[i].ops
        /\ setting.chain # "EVM" => q.nonce = row[i].nonce /\ q.ops = h[w].ops
    BY <1>0, Known DEF Row, Handler
  <2>2. Persisted(w) = [row EXCEPT ![i] = q]
    BY <1>0, Known DEF Persisted, Chain, Row
  <2> HIDE DEF q
  <2>3. q.nonce = h[w].nonce /\ q.ops = h[w].ops
    BY <1>0, <1>b, <2>1, Known DEF Shaped, OfChain
  <2>4. OfChain(setting, q.nonce, q.ops) /\ TxOf(setting, q.signed, i)
    BY <1>0, <1>b, <2>1, <2>3, Known DEF Shaped
  <2>5. CASE /\ Goto(w, "build")
             /\ row' = Persisted(w) \/ (StoreFails /\ Chain = "EVM" /\ UNCHANGED row)
    <3> DEFINE r == [h[w] EXCEPT !.pc = "build"]
    <3>1. /\ r.pc = "build" /\ r.id = i /\ r.nonce = h[w].nonce /\ r.ops = h[w].ops
          /\ Shaped(setting, r)
      BY <1>0, Known DEF Handler, Shaped
    <3>2. Become(w, r)
      BY <2>5 DEF Goto
    <3> HIDE DEF r
    <3>3. setting.serial => Fits(setting, r, "WHITELISTED")
      BY <3>1 DEF Fits, Constructing
    <3>4. CASE row' = Persisted(w)
      <4>1. setting.serial => Ordered(setting, r, q) /\ q.state # "SIGNED"
        BY <1>a, <2>1, <2>3, <3>1, <3>3 DEF Ordered, Agrees
      <4>2. QED
        BY <1>0, <2>1, <2>2, <2>4, <3>1, <3>2, <3>4, <4>1, OrderWrite
    <3>5. CASE StoreFails /\ Chain = "EVM" /\ UNCHANGED row
      <4>1. ~Recorded(setting)
        BY <3>5 DEF Recorded, StoreFails, Faults, Chain
      <4>2. setting.serial => Ordered(setting, r, row[i])
        BY <1>a, <3>3, <4>1 DEF Ordered
      <4>3. QED
        BY <1>0, <3>1, <3>2, <3>5, <4>2, OrderQuiet
    <3>6. QED
      BY <2>5, <3>4, <3>5
  <2>6. CASE Become(w, RollBack(h[w], None))
    <3>1. row' \in {row, [row EXCEPT ![i] = q]}
      BY <1>1, <2>2 DEF Persist
    <3>2. QED
      BY <1>0, <1>a, <2>1, <2>4, <2>6, <3>1, OrderRollBack
  <2>7. QED
    BY <1>1, <2>5, <2>6 DEF Persist
<1>2. CASE BuildAndSign(w)
  <2> DEFINE x == [id |-> h[w].id, nonce |-> h[w].nonce, ins |-> h[w].ops]
             r == [h[w] EXCEPT !.pc = "saveTx", !.tx = x]
  <2>0. h[w].pc = "build" /\ row' = row
    BY <1>2 DEF BuildAndSign, At
  <2>1. r.pc = "saveTx" /\ r.id = i /\ r.nonce = h[w].nonce /\ r.ops = h[w].ops /\ r.tx = x
    BY <1>0, Known DEF Handler
  <2>2. Shaped(setting, r)
    BY <1>0, <2>1, Known DEF Shaped, TxOf
  <2>3. x \in Tx /\ x # None
    BY <1>0, Known DEF Tx, Handler
  <2>4. setting.serial => Ordered(setting, r, row[i])
    <3>1. Fits(setting, r, "WHITELISTED")
      BY <2>1 DEF Fits, Constructing
    <3>2. ASSUME setting.serial, Recorded(setting) PROVE Agrees(r, row[i])
      BY <2>0, <2>1, <2>3, <3>2, <1>0, Known DEF Agrees, Ordered
    <3>3. QED
      BY <1>a, <3>1, <3>2 DEF Ordered
  <2>5. Become(w, r)
    BY <1>2 DEF BuildAndSign
  <2> HIDE DEF r
  <2>6. QED
    BY <1>0, <2>0, <2>1, <2>2, <2>4, <2>5, OrderQuiet
<1>3. CASE BuildFails(w) \/ SignFails(w)
  BY <1>0, <1>a, <1>3, OrderRollBack DEF BuildFails, SignFails

<1>4. CASE SaveTx(w)
  <2> DEFINE q == [row[i] EXCEPT !.signed = h[w].tx]
  <2>0. h[w].pc = "saveTx"
    BY <1>4 DEF SaveTx, At
  <2>1. /\ q \in Row /\ q.state = row[i].state /\ q.signed = h[w].tx
        /\ q.nonce = row[i].nonce /\ q.ops = row[i].ops
        /\ [row EXCEPT ![i].signed = h[w].tx] = [row EXCEPT ![i] = q]
    BY <1>0, Known DEF Row, Handler
  <2> HIDE DEF q
  <2>2. OfChain(setting, q.nonce, q.ops) /\ TxOf(setting, q.signed, i)
    BY <1>0, <1>b, <2>1, Known DEF Shaped
  <2>3. CASE /\ row' = [row EXCEPT ![i] = q]
             /\ Become(w, [h[w] EXCEPT !.pc = "save", !.to = "SIGNED"])
    <3> DEFINE r == [h[w] EXCEPT !.pc = "save", !.to = "SIGNED"]
    <3>1. /\ r.pc = "save" /\ r.to = "SIGNED" /\ r.id = i /\ r.nonce = h[w].nonce
          /\ r.ops = h[w].ops /\ r.tx = h[w].tx /\ Shaped(setting, r)
      BY <1>0, Known DEF Handler, Shaped
    <3> HIDE DEF r
    <3>2. Fits(setting, r, "WHITELISTED")
      BY <3>1 DEF Fits, Constructing, Leads, Lifecycle!Forward
    <3>3. ASSUME setting.serial, Recorded(setting) PROVE Agrees(r, q)
      <4>1. Agrees(h[w], row[i])
        BY <1>0, <3>3, Known DEF Ordered
      <4>2. h[w].tx # None /\ h[w].tx.nonce = row[i].nonce /\ h[w].tx.ins = row[i].ops
        BY <2>0, <4>1 DEF Agrees
      <4>3. Describes(q) /\ r.tx = q.signed /\ r.nonce = q.nonce /\ r.ops = q.ops
        BY <2>0, <2>1, <3>1, <4>1, <4>2 DEF Agrees, Describes
      <4>4. QED
        BY <3>1, <4>3 DEF Agrees
    <3>4. setting.serial => Ordered(setting, r, q) /\ q.state # "SIGNED"
      BY <1>a, <2>1, <3>2, <3>3 DEF Ordered
    <3>5. Become(w, r)
      BY <2>3 DEF r
    <3>6. QED
      BY <1>0, <2>1, <2>2, <2>3, <3>1, <3>4, <3>5, OrderWrite
  <2>4. CASE row' \in {row, [row EXCEPT ![i] = q]} /\ Become(w, RollBack(h[w], None))
    BY <1>0, <1>a, <2>1, <2>2, <2>4, OrderRollBack
  <2>5. QED
    BY <1>4, <2>1, <2>3, <2>4 DEF SaveTx
<1>5. QED
  BY <1>1, <1>2, <1>3, <1>4

-----------------------------------------------------------------------------
(* Broadcast.                                                              *)
LEMMA BroadcastOrder ==
  ASSUME IInv, IInv', Order, NEW w \in Workers,
         \/ \E i \in Ids : Broadcast(w, i)
         \/ SendOk(w) \/ SendFails(w)
  PROVE  Order'
<1>1. ASSUME NEW i \in Ids, Broadcast(w, i) PROVE Order'
  <2> DEFINE r == [Idle EXCEPT !.pc = "send", !.id = i, !.nonce = row[i].nonce,
                               !.ops = row[i].ops, !.tx = row[i].signed]
  <2>1. /\ r.pc = "send" /\ r.id = i /\ r.nonce = row[i].nonce /\ r.ops = row[i].ops
        /\ r.tx = row[i].signed
    BY DEF Idle
  <2>2. Become(w, r) /\ row[i].state = "SIGNED" /\ UNCHANGED <<setting, row, net>>
    BY <1>1 DEF Broadcast
  <2>3. setting.serial => \A v \in Workers : h[v].id # i
    BY <1>1 DEF Broadcast, Starts, Serial
  <2> HIDE DEF r
  <2>4. Shaped(setting, r)
    BY <2>1 DEF Order, RowsShaped, Shaped
  <2>5. Fits(setting, r, "SIGNED")
    BY <2>1 DEF Fits, Constructing
  <2>6. setting.serial => Ordered(setting, r, row[i])
    BY <2>1, <2>2, <2>5 DEF Ordered, Agrees, Order, InOrder
  <2>7. QED
    BY <2>1, <2>2, <2>3, <2>4, <2>6, OrderQuiet DEF Order
<1>2. CASE SendOk(w) \/ SendFails(w)
  <2>0. /\ h[w].pc = "send" /\ h[w].pc \notin {"idle", "setWallet"}
        /\ setting' = setting /\ row' = row /\ net' \in {net, net \cup {h[w].tx}}
    BY <1>2 DEF SendOk, SendFails, At
  <2>1. setting.serial => row[h[w].id].state = "SIGNED"
    BY <2>0, Known DEF Ordered, Fits
  <2>2. h[w].tx # None
    BY <2>0 DEF IInv, ClearedBy
  <2>3. NetShaped(setting, net')
    BY <2>0, <2>2, Known DEF NetShaped, Shaped, TxOf
  <2>4. CASE SendOk(w)
    <3> DEFINE r == [h[w] EXCEPT !.pc = "settle", !.to = "BROADCAST"]
    <3>1. /\ r \in Handler /\ r.pc = "settle" /\ r.to = "BROADCAST" /\ r.id = h[w].id
          /\ Shaped(setting, r)
      BY <2>0, Known DEF Handler, PC, States, InFlight, Shaped
    <3>2. Become(w, Finish(r))
      BY <2>4 DEF SendOk
    <3> HIDE DEF r
    <3>3. Fits(setting, r, "SIGNED")
      BY <3>1 DEF Fits, Constructing
    <3>4. /\ Shaped(setting, Finish(r)) /\ (Finish(r).id # None => Finish(r).id = h[w].id)
          /\ setting.serial /\ Finish(r).id # None => Ordered(setting, Finish(r), row[h[w].id])
      BY <2>1, <3>1, <3>3, FinishOrdered
    <3>5. QED
      BY <2>0, <2>3, <3>2, <3>4, OrderQuiet
  <2>5. CASE SendFails(w)
    <3>1. Become(w, RollBack(h[w], "FAILED"))
      BY <2>5 DEF SendFails
    <3>2. "FAILED" # None
      BY DEF States
    <3>3. QED
      BY <2>0, <2>1, <2>3, <3>1, <3>2, OrderRollBack
  <2>6. QED
    BY <1>2, <2>4, <2>5
<1>3. QED
  BY <1>1, <1>2

(* The loops of rollback, CommitNonce and MarkSpent, and RestoreOnReorg.   *)
LEMMA LoopOrder ==
  ASSUME IInv, IInv', Order, NEW w \in Workers,
         \/ SettleNonce(w) \/ UndoNonce(w) \/ LoopFails(w)
         \/ \E o \in Outpoints : SettleRow(w, o) \/ UndoRow(w, o) \/ RestoreRow(w, o)
  PROVE  Order'
<1>0. /\ h[w].pc \in {"settle", "undo", "restore"} /\ h[w].pc \notin {"idle", "setWallet"}
      /\ setting' = setting /\ row' = row /\ net' = net
  BY DEF SettleNonce, UndoNonce, LoopFails, SettleRow, UndoRow, RestoreRow, At
<1>1. CASE Return(w)
  BY <1>0, <1>1, OrderReturn
<1>2. ASSUME NEW r, Become(w, Finish(r)),
             \/ r = [h[w] EXCEPT !.nonce = None]
             \/ \E ops \in SUBSET h[w].ops : r = [h[w] EXCEPT !.ops = ops]
      PROVE  Order'
  <2>1. /\ r \in Handler /\ r.pc = h[w].pc /\ r.id = h[w].id /\ r.to = h[w].to
        /\ r.tx = h[w].tx /\ r.ops \subseteq h[w].ops /\ r.nonce \in {None, h[w].nonce}
    BY <1>0, <1>2, Known DEF Handler
  <2>2. Shaped(setting, r)
    BY <1>0, <2>1, Known DEF Shaped, OfChain
  <2>3. setting.serial => Fits(setting, r, row[h[w].id].state)
    BY <1>0, <2>1, Known DEF Ordered, Fits
  <2>4. /\ Shaped(setting, Finish(r)) /\ (Finish(r).id # None => Finish(r).id = h[w].id)
        /\ setting.serial /\ Finish(r).id # None => Ordered(setting, Finish(r), row[h[w].id])
    BY <1>0, <2>1, <2>2, <2>3, FinishOrdered
  <2>5. QED
    BY <1>0, <1>2, <2>4, OrderQuiet DEF Order
<1>3. CASE SettleNonce(w) \/ UndoNonce(w)
  BY <1>2, <1>3 DEF SettleNonce, UndoNonce
<1>4. CASE LoopFails(w)
  BY <1>2, <1>4 DEF LoopFails
<1>5. ASSUME NEW o \in Outpoints, SettleRow(w, o) \/ UndoRow(w, o) \/ RestoreRow(w, o)
      PROVE  Return(w) \/ Become(w, Finish([h[w] EXCEPT !.ops = h[w].ops \ {o}]))
  BY <1>5 DEF SettleRow, UndoRow, RestoreRow
<1>6. QED
  BY <1>1, <1>2, <1>3, <1>4, <1>5

-----------------------------------------------------------------------------
(* Confirm, Fail and OnReorg.                                              *)
LEMMA EventOrder ==
  ASSUME IInv, IInv', Order, NEW w \in Workers,
         \/ \E i \in Ids : Confirm(w, i) \/ Fail(w, i)
         \/ \E t \in net : OnReorg(w, t)
  PROVE  Order'
<1>1. ASSUME NEW i \in Ids, Confirm(w, i) PROVE Order'
  <2> DEFINE r == [Idle EXCEPT !.pc = "save", !.id = i, !.to = "CONFIRMED"]
  <2>1. r.pc = "save" /\ r.id = i /\ r.to = "CONFIRMED" /\ Shaped(setting, r)
    BY DEF Idle, Shaped, OfChain, TxOf
  <2>2. Become(w, r) /\ row[i].state = "BROADCAST" /\ UNCHANGED <<setting, row, net>>
    BY <1>1 DEF Confirm
  <2>3. setting.serial => \A v \in Workers : h[v].id # i
    BY <1>1 DEF Confirm, Starts, Serial
  <2> HIDE DEF r
  <2>4. Ordered(setting, r, row[i])
    BY <2>1, <2>2 DEF Ordered, Fits, Agrees, Constructing, Leads, Lifecycle!Forward
  <2>5. QED
    BY <2>1, <2>2, <2>3, <2>4, OrderQuiet DEF Order
<1>2. ASSUME NEW i \in Ids, Fail(w, i) PROVE Order'
  <2> DEFINE r == [Idle EXCEPT !.id = i, !.nonce = row[i].nonce]
             f == RollBack(r, "FAILED")
  <2>1. r \in Handler /\ r.id = i /\ r.nonce = row[i].nonce /\ r.ops = {} /\ r.tx = None
    BY DEF Idle, Handler, PC, IInv, TypeOK, Row
  <2>2. Become(w, f) /\ row[i].state \in setting.failFrom /\ UNCHANGED <<setting, row, net>>
    BY <1>2 DEF Fail, FailFrom
  <2>3. setting.serial => \A v \in Workers : h[v].id # i
    BY <1>2 DEF Fail, Starts, Serial
  <2>4. Shaped(setting, r)
    BY <2>1 DEF Order, RowsShaped, Shaped, OfChain, TxOf
  <2>5. "FAILED" # None
    BY DEF States
  <2> HIDE DEF r
  <2>6. /\ Shaped(setting, f) /\ (f.id # None => f.id = i)
        /\ f.id # None => Ordered(setting, f, row[i])
    BY <2>1, <2>2, <2>4, <2>5, RollBackOrdered
  <2> HIDE DEF f
  <2>7. QED
    BY <2>2, <2>3, <2>6, OrderQuiet DEF Order
<1>3. ASSUME NEW t \in net, OnReorg(w, t) PROVE Order'
  <2> DEFINE s == IF row[t.id].state = "CONFIRMED" THEN "BROADCAST" ELSE None
             r == [Idle EXCEPT !.pc = "restore", !.id = t.id, !.ops = t.ins, !.to = s]
  <2>1. t.id \in Ids /\ t.ins \in SUBSET Outpoints
    BY DEF IInv, TypeOK, Tx
  <2>2. /\ r \in Handler /\ r.pc = "restore" /\ r.id = t.id /\ r.ops = t.ins /\ r.to = s
        /\ r.nonce = None /\ r.tx = None
    BY <2>1 DEF Idle, Handler, PC, States, InFlight
  <2>3. Become(w, Finish(r)) /\ net' = net \ {t} /\ UNCHANGED <<setting, row>>
    BY <1>3 DEF OnReorg
  <2>4. setting.serial => \A v \in Workers : h[v].id # t.id
    BY <1>3 DEF OnReorg, Starts, Serial
  <2>5. NetShaped(setting, net')
    BY <2>3 DEF Order, NetShaped
  <2> HIDE DEF r
  <2>6. Shaped(setting, r)
    BY <2>2 DEF Order, NetShaped, Shaped, OfChain, TxOf
  <2>7. Fits(setting, r, row[t.id].state)
    BY <2>2 DEF Fits, Constructing, Leads, Lifecycle!Forward
  <2>8. /\ Shaped(setting, Finish(r)) /\ (Finish(r).id # None => Finish(r).id = t.id)
        /\ Finish(r).id # None => Ordered(setting, Finish(r), row[t.id])
    BY <2>2, <2>6, <2>7, FinishOrdered
  <2>9. QED
    BY <2>3, <2>4, <2>5, <2>8, OrderQuiet
<1>4. QED
  BY <1>1, <1>2, <1>3

(* The writes of states, and a crash.                                      *)
LEMMA StateOrder ==
  ASSUME IInv, IInv', Order, NEW w \in Workers,
         \/ SaveState(w) \/ UpdateWalletState(w) \/ Crash(w)
         \/ \E s \in setting.walletStates : SetState(w, s)
  PROVE  Order'
<1>1. CASE SaveState(w)
  <2>0. /\ h[w].pc = "save" /\ h[w].pc \notin {"idle", "setWallet"} /\ Return(w)
        /\ setting' = setting /\ net' = net
    BY <1>1 DEF SaveState, At
  <2>1. CASE UNCHANGED row
    BY <2>0, <2>1, OrderReturn
  <2>2. CASE row' = [row EXCEPT ![h[w].id].state = h[w].to]
    <3> DEFINE i == h[w].id
               q == [row[i] EXCEPT !.state = h[w].to]
    <3>1. h[w].to \in States
      BY <2>0 DEF IInv, ClearedBy
    <3>2. /\ q \in Row /\ q.state = h[w].to /\ q.nonce = row[i].nonce /\ q.ops = row[i].ops
          /\ q.signed = row[i].signed /\ row' = [row EXCEPT ![i] = q]
      BY <2>0, <2>2, <3>1, Known DEF Row
    <3>3. OfChain(setting, q.nonce, q.ops) /\ TxOf(setting, q.signed, i)
      BY <2>0, <3>2, Known DEF RowsShaped
    <3>4. setting.serial /\ Recorded(setting) /\ q.state = "SIGNED" => Describes(q)
      BY <2>0, <3>2, Known DEF Ordered, Agrees, Describes
    <3>5. Become(w, Idle) /\ Idle.id = None
      BY <2>0 DEF Return, Idle
    <3> HIDE DEF q
    <3>6. QED
      BY <2>0, <3>2, <3>3, <3>4, <3>5, IdleShaped, OrderWrite
  <2>3. QED
    BY <1>1, <2>1, <2>2 DEF SaveState
<1>2. CASE UpdateWalletState(w)
  BY <1>2, OrderReturn DEF UpdateWalletState
<1>3. CASE Crash(w)
  BY <1>3, OrderReturn DEF Crash
<1>4. ASSUME NEW s \in setting.walletStates, SetState(w, s) PROVE Order'
  <2> DEFINE r == [Idle EXCEPT !.pc = "setWallet", !.to = s]
  <2>1. r.id = None /\ Shaped(setting, r)
    BY DEF Idle, Shaped, OfChain, TxOf
  <2>2. Become(w, r) /\ UNCHANGED <<setting, row, net>>
    BY <1>4 DEF SetState
  <2> HIDE DEF r
  <2>3. QED
    BY <2>1, <2>2, OrderQuiet DEF Order
<1>5. QED
  BY <1>1, <1>2, <1>3, <1>4

-----------------------------------------------------------------------------
LEMMA NextOrder == IInv /\ Order /\ [Next]_vars => Order'
<1> SUFFICES ASSUME IInv, Order, [Next]_vars PROVE Order'
  OBVIOUS
<1>1. IInv'
  BY NextIInv
<1>2. CASE UNCHANGED vars
  BY <1>2 DEF vars, Order
<1>3. ASSUME NEW w \in Workers, Step(w) PROVE Order'
  BY <1>1, <1>3, CreateOrder, ReserveOrder, BuildOrder, BroadcastOrder, LoopOrder, StateOrder
     DEF Step
<1>4. QED
  BY <1>1, <1>2, <1>3, CreateOrder, ReserveOrder, BroadcastOrder, EventOrder, StateOrder
     DEF Next

(* Each operation finds its withdrawal in the state it tested first, and   *)
(* nonces and outpoints are what the chain of the wallet calls for.        *)
LEMMA OrderHolds == Spec => [](IInv /\ Order)
  BY InitIInv, NextIInv, InitOrder, NextOrder, PTL DEF Spec

(* A SIGNED row names the nonce and the outpoints of its transaction:      *)
(* Persist, SaveTx and SaveState write them in this order, and crashes,    *)
(* lost replies of the store and rollbacks between these writes leave the  *)
(* row WHITELISTED.                                                        *)
THEOREM RowDescribes == Spec => []RowDescribesTx
<1>1. Order => RowDescribesTx
  <2> SUFFICES ASSUME Order, Serial, Chain = "EVM" => ~StoreFails, NEW i \in Ids,
                      row[i].state = "SIGNED"
               PROVE  Describes(row[i])
    BY DEF RowDescribesTx, Describes
  <2>1. setting.serial /\ Recorded(setting)
    BY DEF Serial, Chain, StoreFails, Faults, Recorded
  <2>2. QED
    BY <2>1 DEF Order, InOrder
<1>2. QED
  BY <1>1, OrderHolds, PTL

(* No step changes the setting, and four of them write a withdrawal's row. *)
LEMMA Frame ==
  ASSUME [Next]_vars
  PROVE  /\ setting' = setting
         /\ \/ row' = row
            \/ \E w \in Workers : InsertRow(w) \/ SaveState(w) \/ Persist(w) \/ SaveTx(w)
<1> DEFINE Writes(w) == InsertRow(w) \/ SaveState(w) \/ Persist(w) \/ SaveTx(w)
<1>1. ASSUME NEW w \in Workers, Writes(w) PROVE setting' = setting
  BY <1>1 DEF InsertRow, SaveState, Persist, SaveTx
<1>2. ASSUME NEW w \in Workers,
             \/ Approve(w) \/ Reject(w) \/ ReserveNonce(w) \/ SelectList(w)
             \/ ReserveFails(w) \/ SelectLock(w) \/ BuildAndSign(w) \/ BuildFails(w)
             \/ SignFails(w)
      PROVE  setting' = setting /\ row' = row
  BY <1>2 DEF Approve, Reject, ReserveNonce, SelectList, ReserveFails, SelectLock,
     BuildAndSign, BuildFails, SignFails
<1>3. ASSUME NEW w \in Workers,
             \/ SendOk(w) \/ SendFails(w) \/ SettleNonce(w) \/ UndoNonce(w) \/ LoopFails(w)
             \/ \E o \in Outpoints : SettleRow(w, o) \/ UndoRow(w, o) \/ RestoreRow(w, o)
             \/ UpdateWalletState(w) \/ Crash(w)
      PROVE  setting' = setting /\ row' = row
  BY <1>3 DEF SendOk, SendFails, SettleNonce, UndoNonce, LoopFails, SettleRow, UndoRow,
     RestoreRow, UpdateWalletState, Crash
<1>4. ASSUME NEW w \in Workers,
             \/ \E i \in Ids : \/ Create(w, i) \/ ConstructAndSign(w, i)
                             \/ Broadcast(w, i) \/ Confirm(w, i) \/ Fail(w, i)
             \/ \E t \in net : OnReorg(w, t)
             \/ \E s \in setting.walletStates : SetState(w, s)
      PROVE  setting' = setting /\ row' = row
  BY <1>4 DEF Create, ConstructAndSign, Broadcast, Confirm, Fail, OnReorg, SetState
<1>5. ASSUME NEW w \in Workers, Step(w)
      PROVE  Writes(w) \/ (setting' = setting /\ row' = row)
  BY <1>2, <1>3, <1>5 DEF Step
<1>6. ASSUME UNCHANGED vars PROVE setting' = setting /\ row' = row
  BY <1>6 DEF vars
<1> HIDE DEF Writes
<1>7. ASSUME NEW w \in Workers, Step(w)
      PROVE  setting' = setting /\ (row' = row \/ Writes(w))
  BY <1>1, <1>5, <1>7
<1>8. setting' = setting /\ (row' = row \/ \E w \in Workers : Writes(w))
  <2>1. CASE Next
    <3>1. PICK w \in Workers :
            \/ Step(w) \/ Crash(w)
            \/ \E i \in Ids : \/ Create(w, i) \/ ConstructAndSign(w, i)
                            \/ Broadcast(w, i) \/ Confirm(w, i) \/ Fail(w, i)
            \/ \E t \in net : OnReorg(w, t)
            \/ \E s \in setting.walletStates : SetState(w, s)
      BY <2>1 DEF Next
    <3>2. QED
      BY <1>3, <1>4, <1>7, <3>1
  <2>2. QED
    BY <1>6, <2>1
<1>9. QED
  BY <1>8 DEF Writes

(* What a step does to the states of withdrawals: at most one write, and   *)
(* it follows the life cycle or a call of Fail.                            *)
LEMMA StateMoves ==
  ASSUME IInv, Order, [Next]_vars, setting.serial
  PROVE  \/ \A i \in Ids : row'[i].state = row[i].state
         \/ \E i \in Ids, s \in States :
              /\ Leads(setting, row[i].state, s)
              /\ row' = [row EXCEPT ![i].state = s]
<1>1. row \in [Ids -> Row]
  BY DEF IInv, TypeOK
<1>2. CASE row' = row
  BY <1>2
<1>3. ASSUME NEW w \in Workers, InsertRow(w),
             row' = [row EXCEPT ![h[w].id].state = "PENDING"]
      PROVE  Leads(setting, row[h[w].id].state, "PENDING") /\ h[w].id \in Ids
  BY <1>3, Known DEF InsertRow, At, Ordered, Fits, Leads, Lifecycle!Forward
<1>4. ASSUME NEW w \in Workers, SaveState(w),
             row' = [row EXCEPT ![h[w].id].state = h[w].to]
      PROVE  /\ Leads(setting, row[h[w].id].state, h[w].to)
             /\ h[w].id \in Ids /\ h[w].to \in States
  <2>1. h[w].pc = "save" /\ h[w].to # None /\ h[w].to \in States
    BY <1>4 DEF SaveState, At, IInv, ClearedBy
  <2>2. QED
    BY <2>1, <1>4, Known DEF Ordered, Fits
<1>5. ASSUME NEW w \in Workers, Persist(w) \/ SaveTx(w)
      PROVE  \A i \in Ids : row'[i].state = row[i].state
  <2>1. h[w].id \in Ids
    BY <1>5, Known DEF Persist, SaveTx, At
  <2>2. row' \in {row, [row EXCEPT ![h[w].id].nonce = h[w].nonce],
                  [row EXCEPT ![h[w].id].ops = h[w].ops],
                  [row EXCEPT ![h[w].id].signed = h[w].tx]}
    BY <1>5 DEF Persist, Persisted, SaveTx
  <2>3. QED
    BY <1>1, <2>1, <2>2 DEF Row
<1>6. \/ row' = row
      \/ \E w \in Workers : \/ InsertRow(w) \/ SaveState(w) \/ Persist(w) \/ SaveTx(w)
  BY Frame
<1>7. "PENDING" \in States
  BY DEF States, InFlight
<1>8. ASSUME NEW w \in Workers, InsertRow(w)
      PROVE  row' = row \/ row' = [row EXCEPT ![h[w].id].state = "PENDING"]
  BY <1>8 DEF InsertRow
<1>9. ASSUME NEW w \in Workers, SaveState(w)
      PROVE  row' = row \/ row' = [row EXCEPT ![h[w].id].state = h[w].to]
  BY <1>9 DEF SaveState
<1>10. ASSUME NEW i \in Ids, NEW s \in States, Leads(setting, row[i].state, s),
              row' = [row EXCEPT ![i].state = s]
       PROVE  \E j \in Ids, z \in States : /\ Leads(setting, row[j].state, z)
                                          /\ row' = [row EXCEPT ![j].state = z]
  BY <1>10
<1>11. ASSUME NEW w \in Workers, InsertRow(w) \/ SaveState(w), row' # row
       PROVE  \E j \in Ids, z \in States : /\ Leads(setting, row[j].state, z)
                                          /\ row' = [row EXCEPT ![j].state = z]
  <2>1. CASE InsertRow(w)
    BY <1>3, <1>7, <1>8, <1>10, <1>11, <2>1
  <2>2. CASE SaveState(w)
    BY <1>4, <1>9, <1>10, <1>11, <2>2
  <2>3. QED
    BY <1>11, <2>1, <2>2
<1>12. QED
  BY <1>2, <1>5, <1>6, <1>11

(* Withdrawals live as the abstract life cycle says: every write of a      *)
(* state by Create, ConstructAndSign, Broadcast, Confirm, Fail or OnReorg  *)
(* is a move of WithdrawalLifecycle and every other step a stutter, under  *)
(* all faults, when operations on one withdrawal do not overlap and Fail   *)
(* is not called on one that was sent.                                     *)
THEOREM LifecycleRefined == Spec => FollowsLifecycle
<1> DEFINE bar == [i \in Ids |-> IF Regular THEN row[i].state ELSE "ABSENT"]
<1>1. Init => Lifecycle!Init
  BY DEF Init, Lifecycle!Init, NoRow
<1>2. IInv /\ Order /\ [Next]_vars => [Lifecycle!Next]_bar
  <2> SUFFICES ASSUME IInv, Order, [Next]_vars PROVE Lifecycle!Next \/ bar' = bar
    OBVIOUS
  <2>1. setting' = setting
    BY Frame
  <2>2. Regular' = Regular
    BY <2>1 DEF Regular, Serial, FailFrom
  <2>3. CASE ~Regular
    BY <2>2, <2>3
  <2>4. CASE Regular
    <3>1. /\ bar = [i \in Ids |-> row[i].state] /\ bar' = [i \in Ids |-> row'[i].state]
          /\ row \in [Ids -> Row]
      BY <2>2, <2>4 DEF IInv, TypeOK
    <3>2. setting.serial /\ setting.failFrom \subseteq {"PENDING", "WHITELISTED", "SIGNED"}
      BY <2>4 DEF Regular, Serial, FailFrom
    <3>3. CASE \A i \in Ids : row'[i].state = row[i].state
      BY <3>1, <3>3
    <3>4. ASSUME NEW i \in Ids, NEW s \in States, Leads(setting, row[i].state, s),
                 row' = [row EXCEPT ![i].state = s]
          PROVE  Lifecycle!Next
      <4>1. bar[i] = row[i].state /\ bar' = [bar EXCEPT ![i] = s]
        <5>1. \A j \in Ids : row'[j].state = IF j = i THEN s ELSE row[j].state
          BY <3>1, <3>4 DEF Row
        <5>2. \A j \in Ids : bar[j] = row[j].state /\ bar'[j] = IF j = i THEN s ELSE bar[j]
          BY <3>1, <5>1
        <5>3. bar' = [j \in Ids |-> bar'[j]] /\ DOMAIN bar = Ids
          BY <3>1
        <5> HIDE DEF bar
        <5>4. QED
          BY <5>2, <5>3
      <4>2. <<bar[i], s>> \in Lifecycle!Forward \/ (bar[i] \in Lifecycle!MayFail /\ s = "FAILED")
        BY <3>2, <3>4, <4>1 DEF Leads, Lifecycle!MayFail
      <4>3. s \in Lifecycle!States
        BY DEF States, InFlight, Lifecycle!States
      <4>4. Lifecycle!Move(i, s)
        BY <4>1, <4>2 DEF Lifecycle!Move
      <4>5. QED
        BY <4>3, <4>4 DEF Lifecycle!Next
    <3>5. QED
      BY <3>2, <3>3, <3>4, StateMoves
  <2>5. QED
    BY <2>3, <2>4
<1>3. QED
  BY <1>1, <1>2, OrderHolds, PTL DEF Spec, FollowsLifecycle, Lifecycle!Spec
=============================================================================
