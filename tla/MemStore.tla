------------------------------ MODULE MemStore ------------------------------
(***************************************************************************)
(* Package memstore, the store of the unit tests: the methods of Store on  *)
(* Go maps, each under one mutex, with the checks the code makes.          *)
(***************************************************************************)
EXTENDS StoreResult

(* Updates of a row that must exist.                                       *)
Update(t, id, row) ==
  IF id \in DOMAIN t THEN Ok([t EXCEPT ![id] = row]) ELSE Fail(t, "missing")

-----------------------------------------------------------------------------
(* Wallets: the id is the only key.                                        *)
CreateWallet(t, id, row) ==
  IF id \in DOMAIN t THEN Fail(t, "error") ELSE Ok(Put(t, id, row))

GetWallet(t, id) == Get(t, id)

UpdateWalletState(t, id, state) == Update(t, id, [t[id] EXCEPT !.state = state])

ListWallets(t, stateF) == List(t, LAMBDA r : stateF \in {"", r.state})

(* Addresses: one active address per wallet, no other constraint.          *)
InsertAddress(t, id, row) ==
  IF id \in DOMAIN t THEN Fail(t, "error")
  ELSE IF row.state = "ACTIVE" /\ \E i \in DOMAIN t : t[i].wallet = row.wallet
                                                      /\ t[i].state = "ACTIVE"
  THEN Fail(t, "error")
  ELSE Ok(Put(t, id, row))

GetActiveAddress(t, w) == GetWhere(t, LAMBDA r : r.wallet = w /\ r.state = "ACTIVE")

ListAddresses(t, w) == List(t, LAMBDA r : r.wallet = w)

DeprecateAddress(t, id) == Update(t, id, [t[id] EXCEPT !.state = "DEPRECATED"])

GetAddress(t, id) == Get(t, id)

(* Mutant: the indices are counted, not followed.                          *)
NextByCount(t) == OkWith(t, {Cardinality(DOMAIN t)})

(* Of the addresses of one chain, here all.                                *)
NextAddressIndex(t) == OkWith(t, {Max({-1} \cup {t[i].index : i \in DOMAIN t}) + 1})

IncrementReceiveCount(t, id) ==
  Update(t, id, [t[id] EXCEPT !.receives = @ + 1])

-----------------------------------------------------------------------------
(* Balances, and the events applied to them.  The amount of a row stands   *)
(* for its confirmed, pending and locked amounts, and is kept as written.  *)
UpsertBalance(t, id, row) == Ok(Put(t, id, row))

GetBalance(t, id) == Get(t, id)

ListBalances(t) == List(t, LAMBDA r : TRUE)

RecordBalanceEvent(t, e) ==
  IF e \in DOMAIN t THEN Fail(t, "duplicate") ELSE Ok(Put(t, e, TRUE))

-----------------------------------------------------------------------------
(* Outpoints.  LockUTXOs checks all, then locks all.  The two loops below  *)
(* stop at the first missing outpoint and keep what they did before it.    *)
InsertUTXO(t, o) == IF o \in DOMAIN t THEN Fail(t, "error") ELSE Ok(Put(t, o, "FREE"))

ListFreeUTXOs(t) == OkWith(t, {o \in DOMAIN t : t[o] = "FREE"})

SetAll(t, ops, state) == [o \in DOMAIN t |-> IF o \in Range(ops) THEN state ELSE t[o]]

(* Mutant: each outpoint is locked as soon as it is found free.            *)
LockOneByOne(t, ops) ==
  LET bad == {i \in DOMAIN ops : ops[i] \notin DOMAIN t \/ t[ops[i]] # "FREE"}
  IN  IF bad = {} THEN Ok(SetAll(t, ops, "LOCKED"))
      ELSE Fail(SetAll(t, SubSeq(ops, 1, Min(bad) - 1), "LOCKED"), "error")

LockUTXOs(t, ops) ==
  IF \A o \in Range(ops) : o \in DOMAIN t /\ t[o] = "FREE"
  THEN Ok(SetAll(t, ops, "LOCKED"))
  ELSE Fail(t, "error")

SetUntilMissing(t, ops, state) ==
  LET gone == {i \in DOMAIN ops : ops[i] \notin DOMAIN t}
  IN  IF gone = {} THEN Ok(SetAll(t, ops, state))
      ELSE Fail(SetAll(t, SubSeq(ops, 1, Min(gone) - 1), state), "error")

MarkUTXOsSpent(t, ops) == SetUntilMissing(t, ops, "SPENT")

RestoreUTXOs(t, ops) == SetUntilMissing(t, ops, "FREE")

PruneUTXOs(t, ops) == Ok(Remove(t, Range(ops)))

-----------------------------------------------------------------------------
(* Nonces, by (wallet, chain).                                             *)
NoNonce == [pending |-> 0, broadcast |-> 0, version |-> 0]

NonceOf(t, id) == IF id \in DOMAIN t THEN t[id] ELSE NoNonce

GetNonce(t, id) == OkWith(t, {NonceOf(t, id)})

UpsertNonce(t, id, row) == Ok(Put(t, id, row))

IncrementPendingNonce(t, id) ==
  LET row == NonceOf(t, id)
  IN  OkWith(Put(t, id, [row EXCEPT !.pending = @ + 1, !.version = @ + 1]),
             {[val |-> row.pending, ver |-> row.version + 1]})

(* It creates a missing row.                                               *)
AdvanceBroadcastNonce(t, id, n) ==
  Ok(Put(t, id, [NonceOf(t, id) EXCEPT !.broadcast = Max({@, n + 1})]))

(* The reply is the number of rows rolled back.                            *)
RollbackPendingNonce(t, id, n) ==
  IF id \in DOMAIN t /\ t[id].pending = n + 1
  THEN OkWith([t EXCEPT ![id] = [t[id] EXCEPT !.pending = n, !.version = @ + 1]], {1})
  ELSE OkWith(t, {0})

-----------------------------------------------------------------------------
(* Withdrawals.  A set of payments in flight stands for the partial unique *)
(* index; it is emptied by the final states and never filled again.  The   *)
(* amount is kept as it was written.                                       *)
Payment(row) == row.amount

CreateWithdrawal(t, id, row) ==
  IF id \in DOMAIN t.rows THEN Fail(t, "error")
  ELSE IF Payment(row) \in t.inflight THEN Fail(t, "duplicate")
  ELSE Ok([rows |-> Put(t.rows, id, row), inflight |-> t.inflight \cup {Payment(row)}])

GetWithdrawal(t, id) == [Get(t.rows, id) EXCEPT !.t = t]

ListWithdrawals(t, stateF) ==
  [List(t.rows, LAMBDA r : stateF \in {"", r.state}) EXCEPT !.t = t]

UpdateWithdrawal(t, id, row) ==
  LET u == Update(t.rows, id, row) IN [u EXCEPT !.t = [t EXCEPT !.rows = u.t]]

(* Mutant: a failed payment stays in flight.                               *)
UpdateKeepsFailed(t, id, state, tx) ==
  LET free == IF id \in DOMAIN t.rows /\ state = "CONFIRMED"
              THEN {Payment(t.rows[id])} ELSE {}
  IN  UpdateWithdrawal([t EXCEPT !.inflight = @ \ free], id,
        [t.rows[id] EXCEPT !.state = state, !.tx = IF tx = "" THEN @ ELSE tx])

UpdateWithdrawalState(t, id, state, tx) ==
  LET free == IF id \in DOMAIN t.rows /\ state \in {"CONFIRMED", "FAILED"}
              THEN {Payment(t.rows[id])} ELSE {}
  IN  UpdateWithdrawal([t EXCEPT !.inflight = @ \ free], id,
        [t.rows[id] EXCEPT !.state = state, !.tx = IF tx = "" THEN @ ELSE tx])

UpdateWithdrawalNonce(t, id, n) == UpdateWithdrawal(t, id, [t.rows[id] EXCEPT !.nonce = n])

UpdateWithdrawalOutpoints(t, id, ops) ==
  UpdateWithdrawal(t, id, [t.rows[id] EXCEPT !.outpoints = ops])

UpdateWithdrawalSignedTx(t, id, tx) ==
  UpdateWithdrawal(t, id, [t.rows[id] EXCEPT !.signed = tx])

-----------------------------------------------------------------------------
(* Key mappings of one wallet, by key id.  active_to is -1 when it is      *)
(* null.                                                                   *)
NewKey(now) == [state |-> "CURRENT", from |-> now, to |-> -1]

HasCurrent(t) == \E k \in DOMAIN t : t[k].state = "CURRENT"

(* The list may hold a key id twice; then only the reply is modelled.      *)
BindKeyMapping(t, k, now) ==
  IF HasCurrent(t) THEN Fail(t, "error") ELSE Ok(Put(t, k, NewKey(now)))

ResolveActiveKey(t) ==
  LET live == List(t, LAMBDA r : r.state \in {"CURRENT", "COOLING"})
  IN  IF live.r.v = {} THEN Fail(t, "missing") ELSE live

Cooled(t, until) ==
  [k \in DOMAIN t |-> IF t[k].state = "CURRENT"
                      THEN [t[k] EXCEPT !.state = "COOLING", !.to = until] ELSE t[k]]

RotateKeyMapping(t, k, now, cooling) == Ok(Put(Cooled(t, now + cooling), k, NewKey(now)))

ExpireCooling(t, now) ==
  Ok([k \in DOMAIN t |-> IF t[k].state = "COOLING" /\ now > t[k].to
                         THEN [t[k] EXCEPT !.state = "RETIRED"] ELSE t[k]])

-----------------------------------------------------------------------------
(* Funding requests of one (wallet, asset).                                *)
IsOpen(row) == row.state = "REQUESTED"

CreateFundingRequest(t, id, row) ==
  IF \E i \in DOMAIN t : IsOpen(t[i]) THEN Fail(t, "duplicate") ELSE Ok(Put(t, id, row))

GetOpenFundingRequest(t) == GetWhere(t, IsOpen)

ListFundingRequests(t, stateF) == List(t, LAMBDA r : stateF \in {"", r.state})

UpdateFundingState(t, id, state, batch) ==
  Update(t, id, [t[id] EXCEPT !.state = state,
                                !.batch = IF batch = "" THEN @ ELSE batch])

-----------------------------------------------------------------------------
(* The audit outbox and the sequence counter of one wallet.                *)
AppendAuditEvent(t, id, row) ==
  IF \E i \in DOMAIN t : t[i].event = row.event THEN Fail(t, "duplicate")
  ELSE Ok(Put(t, id, row))

(* A limit that is not positive is none.                                   *)
ListUndeliveredAuditEvents(t, limit) ==
  LET open == {i \in DOMAIN t : ~t[i].delivered}
  IN  OkWith(t, {i \in open :
        limit > 0 => Cardinality({j \in open : t[j].seq < t[i].seq}) < limit})

MarkAuditDelivered(t, id) ==
  Update(t, id, [t[id] EXCEPT !.delivered = TRUE, !.attempts = @ + 1])

NextAuditSeq(n) == OkWith(n + 1, {n + 1})
=============================================================================
