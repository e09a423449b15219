----------------------------- MODULE Withdrawal -----------------------------
(***************************************************************************)
(* Package withdrawal: the saga that takes the withdrawals of one wallet   *)
(* from creation over the policy check, the reservation of a nonce or of   *)
(* outpoints, signing and broadcast to confirmation, with its failure and  *)
(* reorg paths, over the PostgreSQL store.                                 *)
(*                                                                         *)
(* A worker is a goroutine that runs one operation of the service.  It     *)
(* takes one step per call that reads or writes shared state; the guard of *)
(* an operation is evaluated on the row it read first, so another worker   *)
(* may act in between.  ReserveNonce is one step (NonceService shows that  *)
(* it implements an atomic allocator).  Audit events are left out.         *)
(*                                                                         *)
(* The operations after Create have no caller in the repository but the    *)
(* tests; an orchestrator calls them.  A setting, fixed in the initial     *)
(* state, says what it is assumed to do and what may go wrong around it.   *)
(***************************************************************************)
EXTENDS SpendStore, CoinSelection

CONSTANTS Workers,
          Ids,          \* withdrawal requests; an id is a fresh UUID
          Payment,      \* (to_address, amount, asset) of each request
          Amount,       \* the amount of each request
          Outpoints,    \* outpoints the wallet owns from the start
          Value,        \* the value of each outpoint
          None,
          MaxNonce,     \* bound of the model on pending_nonce
          Settings      \* the assumptions to explore, a set of Setting

(* A worker dies; a store call fails; the gateway accepts a transaction    *)
(* and reports an error; a transaction cannot be built; the chain reorgs.  *)
FaultKinds == {"crash", "store", "timeout", "build", "reorg"}

InFlight == {"PENDING", "WHITELISTED", "SIGNED", "BROADCAST"}

States == InFlight \cup {"ABSENT", "CONFIRMED", "FAILED"}

WalletState == {"ACTIVE", "PAUSED", "RETIRED"}

Setting ==
  [chain : {"EVM", "BTC", "SOL"},       \* chain of the wallet
   ids : SUBSET Ids,                    \* requests made
   busy : Nat,                          \* operations that run at a time
   serial : BOOLEAN,                    \* one at a time per withdrawal
   failFrom : SUBSET (States \ {"ABSENT"}), \* states Fail is called in
   walletStates : SUBSET WalletState,   \* states SetState is asked for
   faults : SUBSET FaultKinds]          \* what may go wrong

(* A signed transaction: whose it is and what it spends.                   *)
Tx == [id : Ids, nonce : Nat \cup {None}, ins : SUBSET Outpoints]

ASSUME RequestAssumption ==
  /\ Amount \in [Ids -> Nat] /\ Value \in [Outpoints -> Nat]
  /\ None \notin Nat \cup Ids \cup States /\ None \notin Tx
  /\ MaxNonce \in Nat
ASSUME SettingAssumption == Settings \subseteq Setting

VARIABLES
  setting,   \* the assumptions of this behaviour
  wallet,    \* wallets.state
  row,       \* table withdrawal_requests
  nonce,     \* the wallet's row of table nonces
  utxos,     \* table utxos
  h,         \* what each worker is doing
  approved,  \* requests the policy engine approved
  net        \* transactions the gateway accepted and the chain still has

vars == <<setting, wallet, row, nonce, utxos, h, approved, net>>

Chain == setting.chain
Serial == setting.serial
FailFrom == setting.failFrom
Faults == setting.faults

Row == [state : States, nonce : Nat \cup {None}, ops : SUBSET Outpoints,
        signed : Tx \cup {None}]

NoRow == [state |-> "ABSENT", nonce |-> None, ops |-> {}, signed |-> None]

PC == {"idle", "insert", "check", "reserve", "lock", "persist", "build",
       "saveTx", "send", "settle", "undo", "restore", "save", "setWallet"}

(* Locals of an operation: its request, the nonce and the outpoints it     *)
(* works on, its transaction, and the state it writes last (None: it       *)
(* returns without writing one).                                           *)
Handler == [pc : PC, id : Ids \cup {None}, nonce : Nat \cup {None},
            ops : SUBSET Outpoints, tx : Tx \cup {None},
            to : {None} \cup States \cup WalletState]

Idle == [pc |-> "idle", id |-> None, nonce |-> None, ops |-> {}, tx |-> None,
         to |-> None]

TypeOK ==
  /\ setting \in Settings
  /\ wallet \in WalletState
  /\ row \in [Ids -> Row]
  /\ nonce \in NonceRow
  /\ utxos \in [Outpoints -> UTXOLockState]
  /\ h \in [Workers -> Handler]
  /\ approved \subseteq Ids
  /\ net \subseteq Tx

Init ==
  /\ setting \in Settings
  /\ wallet = "ACTIVE"
  /\ row = [i \in Ids |-> NoRow]
  /\ nonce = NoNonceRow
  /\ utxos = [o \in Outpoints |-> "FREE"]
  /\ h = [w \in Workers |-> Idle]
  /\ approved = {}
  /\ net = {}

-----------------------------------------------------------------------------
(* A store call may fail without effect.  One that takes effect and loses  *)
(* its reply is spelled out where it differs from a crash after the call.  *)
StoreFails == "store" \in Faults

At(w, label) == h[w].pc = label

Become(w, handler) == h' = [h EXCEPT ![w] = handler]

Goto(w, label) == Become(w, [h[w] EXCEPT !.pc = label])

Return(w) == Become(w, Idle)

(* A worker that may take up an operation.                                 *)
Free(w) ==
  /\ At(w, "idle")
  /\ Cardinality({v \in Workers : ~At(v, "idle")}) < setting.busy

(* It takes one up on request i.                                           *)
Starts(w, i) ==
  /\ Free(w)
  /\ Serial => \A v \in Workers : h[v].id # i

(* Mutant: the partial unique index withdrawal_inflight_dedup is missing.  *)
NoDedup(i, s) == TRUE

(* The partial unique index withdrawal_inflight_dedup admits state s.      *)
Dedup(i, s) ==
  s \in InFlight =>
    \A j \in Ids \ {i} : Payment[j] = Payment[i] => row[j].state \notin InFlight

(* The end of a loop over resources: the state is written, or the          *)
(* operation returns.                                                      *)
Finish(r) ==
  IF r.nonce # None \/ r.ops # {} THEN r
  ELSE IF r.to = None THEN Idle ELSE [r EXCEPT !.pc = "save"]

(* rollback(nonce, outpoints), then write state s.                         *)
RollBack(r, s) == Finish([r EXCEPT !.pc = "undo", !.to = s])

-----------------------------------------------------------------------------
(* Create.                                                                 *)

(* GetWallet, and the test of the wallet state.                            *)
Create(w, i) ==
  /\ Free(w) /\ i \in setting.ids /\ row[i].state = "ABSENT"
  /\ \A v \in Workers : h[v].id # i
  /\ wallet = "ACTIVE"
  /\ Become(w, [Idle EXCEPT !.pc = "insert", !.id = i])
  /\ UNCHANGED <<setting, wallet, row, nonce, utxos, approved, net>>

(* CreateWithdrawal inserts the PENDING row or fails on the index.         *)
InsertRow(w) ==
  /\ At(w, "insert")
  /\ \/ /\ Dedup(h[w].id, "PENDING")
        /\ row' = [row EXCEPT ![h[w].id].state = "PENDING"]
        /\ Goto(w, "check")
     \/ /\ ~Dedup(h[w].id, "PENDING") \/ StoreFails
        /\ UNCHANGED row
        /\ Return(w)
  /\ UNCHANGED <<setting, wallet, nonce, utxos, approved, net>>

(* CheckWhitelist approves.                                                *)
Approve(w) ==
  /\ At(w, "check")
  /\ approved' = approved \cup {h[w].id}
  /\ Become(w, [h[w] EXCEPT !.pc = "save", !.to = "WHITELISTED"])
  /\ UNCHANGED <<setting, wallet, row, nonce, utxos, net>>

(* Mutant: an error of the policy engine counts as an approval.            *)
RejectFailsOpen(w) ==
  /\ At(w, "check")
  /\ Become(w, [h[w] EXCEPT !.pc = "save", !.to = "WHITELISTED"])
  /\ UNCHANGED <<setting, wallet, row, nonce, utxos, approved, net>>

(* CheckWhitelist rejects, fails or returns nothing.                       *)
Reject(w) ==
  /\ At(w, "check")
  /\ Become(w, [h[w] EXCEPT !.pc = "save", !.to = "FAILED"])
  /\ UNCHANGED <<setting, wallet, row, nonce, utxos, approved, net>>

-----------------------------------------------------------------------------
(* ConstructAndSign.                                                       *)

(* Mutant: the state of the withdrawal is not tested.                      *)
ConstructUnguarded(w, i) ==
  /\ Starts(w, i) /\ row[i].state # "ABSENT"
  /\ Become(w, [Idle EXCEPT !.pc = IF Chain = "SOL" THEN "build" ELSE "reserve",
                            !.id = i])
  /\ UNCHANGED <<setting, wallet, row, nonce, utxos, approved, net>>

(* GetWithdrawal and the test of its state.  Failures of the reads that    *)
(* follow (wallet, key) return without a trace.                            *)
ConstructAndSign(w, i) ==
  /\ Starts(w, i) /\ row[i].state = "WHITELISTED"
  /\ Become(w, [Idle EXCEPT !.pc = IF Chain = "SOL" THEN "build" ELSE "reserve",
                            !.id = i])
  /\ UNCHANGED <<setting, wallet, row, nonce, utxos, approved, net>>

ReserveNonce(w) ==
  /\ At(w, "reserve") /\ Chain = "EVM" /\ nonce.pending < MaxNonce
  /\ nonce' = IncrementPendingNonce(nonce)
  /\ Become(w, [h[w] EXCEPT !.pc = "persist", !.nonce = nonce.pending])
  /\ UNCHANGED <<setting, wallet, row, utxos, approved, net>>

Selectable(i) == Selections(Value, ListFreeUTXOs(utxos), Amount[i])

SelectList(w) ==
  /\ At(w, "reserve") /\ Chain = "BTC"
  /\ \E ops \in Selectable(h[w].id) :
       Become(w, [h[w] EXCEPT !.pc = "lock", !.ops = ops])
  /\ UNCHANGED <<setting, wallet, row, nonce, utxos, approved, net>>

(* The nonce lock is contended, or the funds are insufficient.             *)
ReserveFails(w) ==
  /\ At(w, "reserve")
  /\ Chain = "BTC" => Selectable(h[w].id) = {} \/ StoreFails
  /\ Return(w)
  /\ UNCHANGED <<setting, wallet, row, nonce, utxos, approved, net>>

SelectLock(w) ==
  /\ At(w, "lock")
  /\ \/ /\ LockableUTXOs(utxos, h[w].ops)
        /\ utxos' = LockUTXOs(utxos, h[w].ops)
        /\ Goto(w, "persist")
     \/ /\ ~LockableUTXOs(utxos, h[w].ops) \/ StoreFails
        /\ UNCHANGED utxos
        /\ Return(w)
  /\ UNCHANGED <<setting, wallet, row, nonce, approved, net>>

(* The row once the reservation of h[w] is written to it.                  *)
Persisted(w) ==
  IF Chain = "EVM" THEN [row EXCEPT ![h[w].id].nonce = h[w].nonce]
                   ELSE [row EXCEPT ![h[w].id].ops = h[w].ops]

(* Mutant: the reserved nonce or outpoints are not persisted.              *)
PersistSkipped(w) ==
  /\ At(w, "persist")
  /\ Goto(w, "build")
  /\ UNCHANGED <<setting, wallet, row, nonce, utxos, approved, net>>

(* UpdateWithdrawalNonce, its error ignored; UpdateWithdrawalOutpoints,    *)
(* whose error unlocks the outpoints.                                      *)
Persist(w) ==
  /\ At(w, "persist")
  /\ \/ row' = Persisted(w) /\ Goto(w, "build")
     \/ StoreFails /\ Chain = "EVM" /\ UNCHANGED row /\ Goto(w, "build")
     \/ /\ StoreFails /\ Chain = "BTC"
        /\ row' \in {row, Persisted(w)}
        /\ Become(w, RollBack(h[w], None))
  /\ UNCHANGED <<setting, wallet, nonce, utxos, approved, net>>

(* BuildUnsignedTx, Sign and Assemble succeed.                             *)
BuildAndSign(w) ==
  /\ At(w, "build")
  /\ Chain = "BTC" => h[w].ops # {}
  /\ Become(w, [h[w] EXCEPT !.pc = "saveTx",
       !.tx = [id |-> h[w].id, nonce |-> h[w].nonce, ins |-> h[w].ops]])
  /\ UNCHANGED <<setting, wallet, row, nonce, utxos, approved, net>>

(* The transaction cannot be built: the reservation is rolled back, the    *)
(* row stays WHITELISTED and keeps what Persist wrote.                     *)
BuildFails(w) ==
  /\ At(w, "build")
  /\ "build" \in Faults \/ (Chain = "BTC" /\ h[w].ops = {})
  /\ Become(w, RollBack(h[w], None))
  /\ UNCHANGED <<setting, wallet, row, nonce, utxos, approved, net>>

(* Sign or Assemble fails.                                                 *)
SignFails(w) ==
  /\ At(w, "build")
  /\ Chain = "BTC" => h[w].ops # {}
  /\ Become(w, RollBack(h[w], "FAILED"))
  /\ UNCHANGED <<setting, wallet, row, nonce, utxos, approved, net>>

(* UpdateWithdrawalSignedTx; its error rolls back the reservation.         *)
SaveTx(w) ==
  /\ At(w, "saveTx")
  /\ LET saved == [row EXCEPT ![h[w].id].signed = h[w].tx] IN
       \/ row' = saved /\ Become(w, [h[w] EXCEPT !.pc = "save", !.to = "SIGNED"])
       \/ /\ StoreFails
          /\ row' \in {row, saved}
          /\ Become(w, RollBack(h[w], None))
  /\ UNCHANGED <<setting, wallet, nonce, utxos, approved, net>>

-----------------------------------------------------------------------------
(* Broadcast.                                                              *)

Broadcast(w, i) ==
  /\ Starts(w, i) /\ row[i].state = "SIGNED" /\ row[i].signed # None
  /\ Become(w, [Idle EXCEPT !.pc = "send", !.id = i, !.nonce = row[i].nonce,
                            !.ops = row[i].ops, !.tx = row[i].signed])
  /\ UNCHANGED <<setting, wallet, row, nonce, utxos, approved, net>>

(* The gateway accepts the transaction (again, if it has it already).      *)
SendOk(w) ==
  /\ At(w, "send")
  /\ net' = net \cup {h[w].tx}
  /\ Become(w, Finish([h[w] EXCEPT !.pc = "settle", !.to = "BROADCAST"]))
  /\ UNCHANGED <<setting, wallet, row, nonce, utxos, approved>>

(* Mutant: a failed broadcast leaves the reserved outpoints locked.        *)
SendFailsKeepsOps(w) ==
  /\ At(w, "send")
  /\ Become(w, RollBack([h[w] EXCEPT !.ops = {}], "FAILED"))
  /\ UNCHANGED <<setting, wallet, row, nonce, utxos, approved, net>>

(* Mutant: what was reserved is rolled back, but the row stays SIGNED.     *)
SendFailsStaysSigned(w) ==
  /\ At(w, "send")
  /\ Become(w, RollBack(h[w], None))
  /\ UNCHANGED <<setting, wallet, row, nonce, utxos, approved, net>>

(* The gateway reports an error; with a timeout, the transaction may have  *)
(* been accepted all the same.                                             *)
SendFails(w) ==
  /\ At(w, "send")
  /\ \/ UNCHANGED net
     \/ "timeout" \in Faults /\ net' = net \cup {h[w].tx}
  /\ Become(w, RollBack(h[w], "FAILED"))
  /\ UNCHANGED <<setting, wallet, row, nonce, utxos, approved>>

(* CommitNonce, its error ignored.                                         *)
SettleNonce(w) ==
  /\ At(w, "settle") /\ h[w].nonce # None
  /\ \/ nonce' = AdvanceBroadcastNonce(nonce, h[w].nonce)
     \/ StoreFails /\ UNCHANGED nonce
  /\ Become(w, Finish([h[w] EXCEPT !.nonce = None]))
  /\ UNCHANGED <<setting, wallet, row, utxos, approved, net>>

(* One row of MarkSpent.                                                   *)
SettleRow(w, o) ==
  /\ At(w, "settle") /\ o \in h[w].ops
  /\ utxos' = MarkUTXOSpent(utxos, o)
  /\ Become(w, Finish([h[w] EXCEPT !.ops = @ \ {o}]))
  /\ UNCHANGED <<setting, wallet, row, nonce, approved, net>>

-----------------------------------------------------------------------------
(* Confirm, Fail and OnReorg.                                              *)

(* A confirmation event names a withdrawal whose transaction is on chain.  *)
Confirm(w, i) ==
  /\ Starts(w, i) /\ row[i].state = "BROADCAST"
  /\ \E t \in net : t.id = i
  /\ Become(w, [Idle EXCEPT !.pc = "save", !.id = i, !.to = "CONFIRMED"])
  /\ UNCHANGED <<setting, wallet, row, nonce, utxos, approved, net>>

(* Fail has no guard of its own and passes no outpoints to rollback.       *)
Fail(w, i) ==
  /\ Starts(w, i) /\ row[i].state \in FailFrom
  /\ Become(w, RollBack([Idle EXCEPT !.id = i, !.nonce = row[i].nonce], "FAILED"))
  /\ UNCHANGED <<setting, wallet, row, nonce, utxos, approved, net>>

(* A reorg drops transaction t and its event reaches the service.          *)
OnReorg(w, t) ==
  /\ "reorg" \in Faults /\ t \in net /\ Starts(w, t.id)
  /\ net' = net \ {t}
  /\ Become(w, Finish([Idle EXCEPT !.pc = "restore", !.id = t.id, !.ops = t.ins,
       !.to = IF row[t.id].state = "CONFIRMED" THEN "BROADCAST" ELSE None]))
  /\ UNCHANGED <<setting, wallet, row, nonce, utxos, approved>>

(* One row of RestoreOnReorg; its error ends the operation.                *)
RestoreRow(w, o) ==
  /\ At(w, "restore") /\ o \in h[w].ops
  /\ \/ /\ utxos' = RestoreUTXO(utxos, o)
        /\ Become(w, Finish([h[w] EXCEPT !.ops = @ \ {o}]))
     \/ StoreFails /\ UNCHANGED utxos /\ Return(w)
  /\ UNCHANGED <<setting, wallet, row, nonce, approved, net>>

-----------------------------------------------------------------------------
(* What several operations share.                                          *)

(* rollback: RollbackNonce, its error ignored.                             *)
UndoNonce(w) ==
  /\ At(w, "undo") /\ h[w].nonce # None
  /\ \/ nonce' = RollbackPendingNonce(nonce, h[w].nonce)
     \/ StoreFails /\ UNCHANGED nonce
  /\ Become(w, Finish([h[w] EXCEPT !.nonce = None]))
  /\ UNCHANGED <<setting, wallet, row, utxos, approved, net>>

(* rollback: one row of Unlock.                                            *)
UndoRow(w, o) ==
  /\ At(w, "undo") /\ o \in h[w].ops
  /\ utxos' = RestoreUTXO(utxos, o)
  /\ Become(w, Finish([h[w] EXCEPT !.ops = @ \ {o}]))
  /\ UNCHANGED <<setting, wallet, row, nonce, approved, net>>

(* An update fails inside Unlock or MarkSpent: the loop ends, and the      *)
(* caller ignores the error.                                               *)
LoopFails(w) ==
  /\ StoreFails
  /\ At(w, "undo") \/ At(w, "settle")
  /\ h[w].ops # {}
  /\ Become(w, Finish([h[w] EXCEPT !.ops = {}]))
  /\ UNCHANGED <<setting, wallet, row, nonce, utxos, approved, net>>

(* UpdateWithdrawalState, the last call of every operation that makes it:  *)
(* it does not look at the state it overwrites, and fails on the index.    *)
SaveState(w) ==
  /\ At(w, "save")
  /\ \/ /\ Dedup(h[w].id, h[w].to)
        /\ row' = [row EXCEPT ![h[w].id].state = h[w].to]
     \/ /\ ~Dedup(h[w].id, h[w].to) \/ StoreFails
        /\ UNCHANGED row
  /\ Return(w)
  /\ UNCHANGED <<setting, wallet, nonce, utxos, approved, net>>

(* SetState of the wallet service: read and test, then write.              *)
SetState(w, s) ==
  /\ Free(w)
  /\ wallet = "RETIRED" => s = "RETIRED"
  /\ Become(w, [Idle EXCEPT !.pc = "setWallet", !.to = s])
  /\ UNCHANGED <<setting, wallet, row, nonce, utxos, approved, net>>

UpdateWalletState(w) ==
  /\ At(w, "setWallet")
  /\ wallet' = h[w].to \/ (StoreFails /\ UNCHANGED wallet)
  /\ Return(w)
  /\ UNCHANGED <<setting, row, nonce, utxos, approved, net>>

Crash(w) ==
  /\ "crash" \in Faults /\ ~At(w, "idle")
  /\ Return(w)
  /\ UNCHANGED <<setting, wallet, row, nonce, utxos, approved, net>>

(* A step of an operation that runs.                                       *)
Step(w) ==
  \/ InsertRow(w) \/ Approve(w) \/ Reject(w)
  \/ ReserveNonce(w) \/ SelectList(w) \/ ReserveFails(w) \/ SelectLock(w)
  \/ Persist(w) \/ BuildAndSign(w) \/ BuildFails(w) \/ SignFails(w) \/ SaveTx(w)
  \/ SendOk(w) \/ SendFails(w) \/ SettleNonce(w) \/ UndoNonce(w) \/ LoopFails(w)
  \/ \E o \in Outpoints : SettleRow(w, o) \/ UndoRow(w, o) \/ RestoreRow(w, o)
  \/ SaveState(w) \/ UpdateWalletState(w)

Next ==
  \E w \in Workers :
    \/ Step(w) \/ Crash(w)
    \/ \E i \in Ids : \/ Create(w, i) \/ ConstructAndSign(w, i)
                      \/ Broadcast(w, i) \/ Confirm(w, i) \/ Fail(w, i)
    \/ \E t \in net : OnReorg(w, t)
    \/ \E s \in setting.walletStates : SetState(w, s)

Spec == Init /\ [][Next]_vars

-----------------------------------------------------------------------------
(* Nothing goes past PENDING, and nothing reaches the network, that the    *)
(* policy engine did not approve, whatever fails or runs concurrently:     *)
(* Create ignores the error of the write that records a rejection.         *)
PolicyGate ==
  /\ \A i \in Ids : row[i].state \in {"WHITELISTED", "SIGNED", "BROADCAST", "CONFIRMED"}
                      => i \in approved
  /\ \A t \in net : t.id \in approved

(* No operation on request i is running.                                   *)
AtRest(i) == \A w \in Workers : h[w].id # i

(* The transactions that are out, being sent, or signed and waiting.  One  *)
(* whose reservation is being rolled back is none of these.                *)
Live ==
  net \cup {h[w].tx : w \in {v \in Workers : At(v, "send")}}
      \cup {row[i].signed : i \in {j \in Ids : row[j].state = "SIGNED" /\ AtRest(j)}}

(* Nothing fails but what the code has a path for, and nothing races: the  *)
(* code does not keep the properties that ask for this without it.         *)
Orderly == Serial /\ Faults \subseteq {"build", "reorg"}

(* Live transactions of two withdrawals share no nonce and no outpoint:    *)
(* what ReserveNonce ("distinct values") and SelectForAmount are for,      *)
(* carried through the rollbacks of ConstructAndSign, Broadcast and Fail.  *)
NoSharedResource ==
  Orderly =>
    \A t, u \in Live : t.id # u.id =>
      /\ t.nonce = None \/ t.nonce # u.nonce
      /\ t.ins \cap u.ins = {}

(* A SIGNED row names the nonce and the outpoints its transaction uses, so *)
(* that Broadcast and Fail commit or roll back the right ones.  On EVM the *)
(* error of UpdateWithdrawalNonce is ignored, so the store must not fail.  *)
RowDescribesTx ==
  Serial /\ (Chain = "EVM" => ~StoreFails) =>
    \A i \in Ids : row[i].state = "SIGNED" =>
      /\ row[i].signed # None
      /\ row[i].nonce = row[i].signed.nonce /\ row[i].ops = row[i].signed.ins

(* A locked outpoint is one an operation works on or a SIGNED withdrawal   *)
(* will spend: no failure path forgets to unlock, but Fail on a SIGNED one. *)
NoOrphanLock ==
  Orderly /\ "SIGNED" \notin FailFrom =>
    \A o \in Outpoints : utxos[o] = "LOCKED" =>
      \/ \E w \in Workers : o \in h[w].ops
      \/ \E i \in Ids : row[i].state = "SIGNED" /\ o \in row[i].ops

(* Two requests for the same payment are not both out on the network       *)
(* unless one was confirmed: what withdrawal_inflight_dedup is for.        *)
OnePayout ==
  Orderly =>
    \A t, u \in net : t.id # u.id /\ Payment[t.id] = Payment[u.id] =>
      "CONFIRMED" \in {row[t.id].state, row[u.id].state}

(* Withdrawals live as the abstract life cycle says, if operations on one  *)
(* do not overlap and Fail is not called on a withdrawal that was sent.    *)
Regular == Serial /\ FailFrom \subseteq {"PENDING", "WHITELISTED", "SIGNED"}

Lifecycle == INSTANCE WithdrawalLifecycle WITH
               state <- [i \in Ids |-> IF Regular THEN row[i].state ELSE "ABSENT"]

FollowsLifecycle == Lifecycle!Spec
=============================================================================
