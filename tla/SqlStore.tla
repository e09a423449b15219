------------------------------ MODULE SqlStore ------------------------------
(***************************************************************************)
(* Package postgres, the store of the service: the methods of Store as SQL *)
(* statements on tables with primary keys, unique indexes and typed        *)
(* columns.  Rows refer to wallets that exist.                             *)
(***************************************************************************)
EXTENDS StoreResult

CONSTANTS Canonical(_),  \* what NUMERIC(38,18) makes of the text of an amount
          IsNumeric(_)   \* the texts it accepts

(* UPDATE ... WHERE id = $1 changes nothing and succeeds without the row.  *)
Update(t, id, row) == Ok(IF id \in DOMAIN t THEN [t EXCEPT ![id] = row] ELSE t)

(* INSERT of a row that no other conflicts with under a unique index.      *)
Insert(t, id, row, conflicts) ==
  IF id \in DOMAIN t \/ conflicts # {} THEN Fail(t, "error")
  ELSE Ok(Put(t, id, row))

-----------------------------------------------------------------------------
(* UNIQUE (chain, key_id), for wallets of one chain.                       *)
CreateWallet(t, id, row) == Insert(t, id, row, {r \in Range(t) : r.key = row.key})

GetWallet(t, id) == Get(t, id)

UpdateWalletState(t, id, state) == Update(t, id, [t[id] EXCEPT !.state = state])

ListWallets(t, stateF) == List(t, LAMBDA r : stateF \in {"", r.state})

(* UNIQUE (wallet_id, index, change), UNIQUE (chain, address), and one     *)
(* active address per wallet.                                              *)
InsertAddress(t, id, row) ==
  Insert(t, id, row, {r \in Range(t) :
    \/ r.wallet = row.wallet /\ r.index = row.index
    \/ r.address = row.address
    \/ r.wallet = row.wallet /\ r.state = "ACTIVE" /\ row.state = "ACTIVE"})

GetActiveAddress(t, w) == GetWhere(t, LAMBDA r : r.wallet = w /\ r.state = "ACTIVE")

ListAddresses(t, w) == List(t, LAMBDA r : r.wallet = w)

DeprecateAddress(t, id) == Update(t, id, [t[id] EXCEPT !.state = "DEPRECATED"])

GetAddress(t, id) == Get(t, id)

(* Mutant: the next index after those of the active addresses.             *)
NextActiveIndex(t) ==
  OkWith(t, {Max({-1} \cup {t[i].index : i \in {j \in DOMAIN t : t[j].state = "ACTIVE"}}) + 1})

NextAddressIndex(t) == OkWith(t, {Max({-1} \cup {t[i].index : i \in DOMAIN t}) + 1})

IncrementReceiveCount(t, id) ==
  Update(t, id, [t[id] EXCEPT !.receives = @ + 1])

-----------------------------------------------------------------------------
(* The numeric columns refuse text that is not a number, and keep the      *)
(* number.                                                                 *)
UpsertBalance(t, id, row) ==
  IF IsNumeric(row.amount) THEN Ok(Put(t, id, [row EXCEPT !.amount = Canonical(@)]))
  ELSE Fail(t, "error")

GetBalance(t, id) == Get(t, id)

ListBalances(t) == List(t, LAMBDA r : TRUE)

(* ON CONFLICT DO NOTHING, then a search for the event under another id.   *)
RecordBalanceEvent(t, e) ==
  IF e \in DOMAIN t THEN Fail(t, "duplicate") ELSE Ok(Put(t, e, TRUE))

-----------------------------------------------------------------------------
InsertUTXO(t, o) == Insert(t, o, "FREE", {})

ListFreeUTXOs(t) == OkWith(t, {o \in DOMAIN t : t[o] = "FREE"})

SetAll(t, ops, state) == [o \in DOMAIN t |-> IF o \in Range(ops) THEN state ELSE t[o]]

(* One transaction that updates FREE rows in turn: a repeated outpoint is  *)
(* no longer FREE at its second occurrence.                                *)
LockUTXOs(t, ops) ==
  IF IsInjective(ops) /\ \A o \in Range(ops) : o \in DOMAIN t /\ t[o] = "FREE"
  THEN Ok(SetAll(t, ops, "LOCKED"))
  ELSE Fail(t, "error")

MarkUTXOsSpent(t, ops) == Ok(SetAll(t, ops, "SPENT"))

RestoreUTXOs(t, ops) == Ok(SetAll(t, ops, "FREE"))

PruneUTXOs(t, ops) == Ok(Remove(t, Range(ops)))

-----------------------------------------------------------------------------
NoNonce == [pending |-> 0, broadcast |-> 0, version |-> 0]

GetNonce(t, id) == OkWith(t, {IF id \in DOMAIN t THEN t[id] ELSE NoNonce})

UpsertNonce(t, id, row) == Ok(Put(t, id, row))

IncrementPendingNonce(t, id) ==
  IF id \in DOMAIN t
  THEN OkWith([t EXCEPT ![id] = [t[id] EXCEPT !.pending = @ + 1, !.version = @ + 1]],
              {[val |-> t[id].pending, ver |-> t[id].version + 1]})
  ELSE OkWith(Put(t, id, [NoNonce EXCEPT !.pending = 1, !.version = 1]),
              {[val |-> 0, ver |-> 1]})

AdvanceBroadcastNonce(t, id, n) ==
  Update(t, id, [t[id] EXCEPT !.broadcast = Max({@, n + 1})])

(* The version stays.                                                      *)
RollbackPendingNonce(t, id, n) ==
  IF id \in DOMAIN t /\ t[id].pending = n + 1
  THEN OkWith([t EXCEPT ![id].pending = n], {1})
  ELSE OkWith(t, {0})

-----------------------------------------------------------------------------
(* At most one row in flight per payment, on every write; amounts are      *)
(* kept and compared as numbers.                                           *)
InFlight(row) == row.state \in {"PENDING", "WHITELISTED", "SIGNED", "BROADCAST"}

CreateWithdrawal(t, id, row) ==
  LET new == [row EXCEPT !.amount = Canonical(@)]
  IN  IF ~IsNumeric(row.amount) THEN Fail(t, "error")
      ELSE Insert(t, id, new, {r \in Range(t) : InFlight(r) /\ InFlight(new)
                                               /\ r.amount = new.amount})

GetWithdrawal(t, id) == Get(t, id)

ListWithdrawals(t, stateF) == List(t, LAMBDA r : stateF \in {"", r.state})

UpdateWithdrawalState(t, id, state, tx) ==
  LET u == Update(t, id, [t[id] EXCEPT !.state = state,
                                         !.tx = IF tx = "" THEN @ ELSE tx]).t
  IN  IF \E i \in DOMAIN t \ {id} : id \in DOMAIN t /\ InFlight(u[i]) /\ InFlight(u[id])
                                    /\ u[i].amount = u[id].amount
      THEN Fail(t, "error") ELSE Ok(u)

UpdateWithdrawalNonce(t, id, n) == Update(t, id, [t[id] EXCEPT !.nonce = n])

UpdateWithdrawalOutpoints(t, id, ops) ==
  Update(t, id, [t[id] EXCEPT !.outpoints = ops])

UpdateWithdrawalSignedTx(t, id, tx) == Update(t, id, [t[id] EXCEPT !.signed = tx])

-----------------------------------------------------------------------------
(* PRIMARY KEY (wallet_id, key_id), one current key per wallet.            *)
NewKey(now) == [state |-> "CURRENT", from |-> now, to |-> -1]

BindKeyMapping(t, k, now) == Insert(t, k, NewKey(now), {r \in Range(t) : r.state = "CURRENT"})

ResolveActiveKey(t) ==
  LET live == List(t, LAMBDA r : r.state \in {"CURRENT", "COOLING"})
  IN  IF live.r.v = {} THEN Fail(t, "missing") ELSE live

(* Mutant: ON CONFLICT DO NOTHING.                                         *)
RotateInsertsOnly(t, k, now, cooling) ==
  LET cooled == [i \in DOMAIN t |->
                   IF t[i].state = "CURRENT"
                   THEN [t[i] EXCEPT !.state = "COOLING", !.to = now + cooling]
                   ELSE t[i]]
  IN  Ok(cooled @@ (k :> NewKey(now)))

(* One transaction: the current key cools, the new one is inserted or      *)
(* becomes current again.                                                  *)
RotateKeyMapping(t, k, now, cooling) ==
  LET cooled == [i \in DOMAIN t |->
                   IF t[i].state = "CURRENT"
                   THEN [t[i] EXCEPT !.state = "COOLING", !.to = now + cooling]
                   ELSE t[i]]
  IN  Ok(Put(cooled, k, NewKey(now)))

(* Mutant: active_to <= now.                                               *)
ExpireAtOnce(t, now) ==
  Ok([k \in DOMAIN t |-> IF t[k].state = "COOLING" /\ t[k].to # -1 /\ t[k].to <= now
                         THEN [t[k] EXCEPT !.state = "RETIRED"] ELSE t[k]])

ExpireCooling(t, now) ==
  Ok([k \in DOMAIN t |-> IF t[k].state = "COOLING" /\ t[k].to # -1 /\ t[k].to < now
                         THEN [t[k] EXCEPT !.state = "RETIRED"] ELSE t[k]])

-----------------------------------------------------------------------------
IsOpen(row) == row.state = "REQUESTED"

CreateFundingRequest(t, id, row) ==
  Insert(t, id, row, {r \in Range(t) : IsOpen(r) /\ IsOpen(row)})

GetOpenFundingRequest(t) == GetWhere(t, IsOpen)

ListFundingRequests(t, stateF) == List(t, LAMBDA r : stateF \in {"", r.state})

UpdateFundingState(t, id, state, batch) ==
  Update(t, id, [t[id] EXCEPT !.state = state,
                                !.batch = IF batch = "" THEN @ ELSE batch])

-----------------------------------------------------------------------------
AppendAuditEvent(t, id, row) == Insert(t, id, row, {r \in Range(t) : r.event = row.event})

(* LIMIT 0 returns nothing, a negative LIMIT is an error.                  *)
ListUndeliveredAuditEvents(t, limit) ==
  LET open == {i \in DOMAIN t : ~t[i].delivered}
  IN  IF limit < 0 THEN Fail(t, "error")
      ELSE OkWith(t, {i \in open :
             limit > 0 /\ Cardinality({j \in open : t[j].seq < t[i].seq}) < limit})

MarkAuditDelivered(t, id) ==
  Update(t, id, [t[id] EXCEPT !.delivered = TRUE, !.attempts = @ + 1])

NextAuditSeq(n) == OkWith(n + 1, {n + 1})
=============================================================================
