------------------------------- MODULE Stores -------------------------------
(***************************************************************************)
(* The Store interface on both implementations: the same calls are made on *)
(* the in-memory store of the unit tests and on the PostgreSQL store of    *)
(* the service.  What the tests establish carries over to the service only *)
(* as far as the two agree.                                                *)
(*                                                                         *)
(* A behaviour exercises one group of methods.  It ends when one store     *)
(* accepts a call that the other refuses.                                  *)
(*                                                                         *)
(* Left out of the rows: the value of an outpoint and the amount of a      *)
(* funding request, which are NUMERIC as well and differ in their text as  *)
(* the amounts of balances and withdrawals do.                             *)
(***************************************************************************)
EXTENDS StoreResult

CONSTANTS Ids,           \* ids of rows, fresh UUIDs in the code
          Parents,       \* the wallets addresses belong to
          Texts,         \* amounts as callers write them, numbers or not
          Canonical(_), IsNumeric(_),
          Cooling, MaxTime, MaxCount  \* bounds of the model but for Cooling

(* A NUMERIC column returns the text of a number in one form, which it     *)
(* reads back as the same number; a text it refuses has no other form.     *)
ASSUME CanonicalAssumption == \A text \in Texts : Canonical(Canonical(text)) = Canonical(text)

ASSUME CoolingAssumption == Cooling \in Nat

Mem == INSTANCE MemStore
Sql == INSTANCE SqlStore

VARIABLES
  focus,     \* the group of methods called in this behaviour
  mem, sql,  \* the tables of the two stores
  tx,        \* the open transaction, if any: snapshots, and whether it failed
  now,
  last       \* the last call and its two replies

vars == <<focus, mem, sql, tx, now, last>>

Groups == {"wallets", "addresses", "balances", "utxos", "nonces", "withdrawals",
           "keys", "funding", "audit", "tx"}

WalletStates == {"ACTIVE", "PAUSED", "RETIRED"}
WithdrawalStates == {"PENDING", "SIGNED", "BROADCAST", "CONFIRMED", "FAILED"}

EmptyTables ==
  [wallets |-> <<>>, addresses |-> <<>>, balances |-> <<>>, events |-> <<>>,
   utxos |-> <<>>, nonces |-> <<>>, withdrawals |-> <<>>, keys |-> <<>>,
   funding |-> <<>>, audit |-> <<>>, seq |-> 0]

Init ==
  /\ focus \in Groups
  /\ mem = [EmptyTables EXCEPT !.withdrawals = [rows |-> <<>>, inflight |-> {}]]
  /\ sql = EmptyTables
  /\ tx = {} /\ now = 0
  /\ last = [op |-> "New", mem |-> Ok(0).r, sql |-> Ok(0).r]

(* One store took the call and the other refused it.                       *)
Diverged == (last.mem.s = "ok") # (last.sql.s = "ok")

(* After a statement has failed, the rest of a PostgreSQL transaction      *)
(* fails too; the in-memory store goes on.                                 *)
Failed == \E x \in tx : x.failed

(* Method op on table f, with the results m and s of the two stores.       *)
Call(op, f, m, s) ==
  LET t == IF Failed THEN Fail(sql[f], "error") ELSE s IN
  /\ ~Diverged
  /\ mem' = [mem EXCEPT ![f] = m.t]
  /\ sql' = [sql EXCEPT ![f] = t.t]
  /\ tx' = {[x EXCEPT !.failed = @ \/ t.r.s = "error"] : x \in tx}
  /\ last' = [op |-> op, mem |-> m.r, sql |-> t.r]
  /\ UNCHANGED <<focus, now>>

-----------------------------------------------------------------------------
WalletCalls ==
  LET m == mem.wallets  s == sql.wallets  f == "wallets" IN
  /\ focus = f
  /\ \E id \in Ids :
       \/ \E k \in Ids : LET row == [key |-> k, state |-> "ACTIVE"] IN
            Call("CreateWallet", f, Mem!CreateWallet(m, id, row), Sql!CreateWallet(s, id, row))
       \/ Call("GetWallet", f, Mem!GetWallet(m, id), Sql!GetWallet(s, id))
       \/ \E st \in WalletStates :
            \/ Call("UpdateWalletState", f, Mem!UpdateWalletState(m, id, st),
                                            Sql!UpdateWalletState(s, id, st))
            \/ Call("ListWallets", f, Mem!ListWallets(m, st), Sql!ListWallets(s, st))

(* The address is derived from the chain's key and the index.              *)
AddressCalls ==
  LET m == mem.addresses  s == sql.addresses  f == "addresses" IN
  /\ focus = f
  /\ \/ \E id \in Ids :
          \/ \E w \in Parents, n \in 0..MaxCount :
               LET row == [wallet |-> w, index |-> n, address |-> n,
                           state |-> "ACTIVE", receives |-> 0]
               IN  Call("InsertAddress", f, Mem!InsertAddress(m, id, row),
                                            Sql!InsertAddress(s, id, row))
          \/ Call("DeprecateAddress", f, Mem!DeprecateAddress(m, id), Sql!DeprecateAddress(s, id))
          \/ Call("GetAddress", f, Mem!GetAddress(m, id), Sql!GetAddress(s, id))
          \/ /\ id \in DOMAIN m => m[id].receives < 1
             /\ Call("IncrementReceiveCount", f, Mem!IncrementReceiveCount(m, id),
                                                 Sql!IncrementReceiveCount(s, id))
     \/ \E w \in Parents :
          \/ Call("GetActiveAddress", f, Mem!GetActiveAddress(m, w), Sql!GetActiveAddress(s, w))
          \/ Call("ListAddresses", f, Mem!ListAddresses(m, w), Sql!ListAddresses(s, w))
     \/ Call("NextAddressIndex", f, Mem!NextAddressIndex(m), Sql!NextAddressIndex(s))

Upsert(id, text) ==
  LET row == [amount |-> text] IN
  Call("UpsertBalance", "balances", Mem!UpsertBalance(mem.balances, id, row),
                                    Sql!UpsertBalance(sql.balances, id, row))

ReadBalance(id) ==
  Call("GetBalance", "balances", Mem!GetBalance(mem.balances, id),
                                 Sql!GetBalance(sql.balances, id))

BalanceCalls ==
  /\ focus = "balances"
  /\ \/ \E id \in Ids :
          \/ \E text \in Texts : Upsert(id, text)
          \/ ReadBalance(id)
          \/ Call("RecordBalanceEvent", "events", Mem!RecordBalanceEvent(mem.events, id),
                                                  Sql!RecordBalanceEvent(sql.events, id))
     \/ Call("ListBalances", "balances", Mem!ListBalances(mem.balances),
                                         Sql!ListBalances(sql.balances))

UTXOCalls ==
  LET m == mem.utxos  s == sql.utxos  f == "utxos" IN
  /\ focus = f
  /\ \/ \E o \in Ids : Call("InsertUTXO", f, Mem!InsertUTXO(m, o), Sql!InsertUTXO(s, o))
     \/ Call("ListFreeUTXOs", f, Mem!ListFreeUTXOs(m), Sql!ListFreeUTXOs(s))
     \/ \E ops \in {<<o>> : o \in Ids} \cup (Ids \X Ids) :
          \/ Call("LockUTXOs", f, Mem!LockUTXOs(m, ops), Sql!LockUTXOs(s, ops))
          \/ Call("MarkUTXOsSpent", f, Mem!MarkUTXOsSpent(m, ops), Sql!MarkUTXOsSpent(s, ops))
          \/ Call("RestoreUTXOs", f, Mem!RestoreUTXOs(m, ops), Sql!RestoreUTXOs(s, ops))
          \/ Call("PruneUTXOs", f, Mem!PruneUTXOs(m, ops), Sql!PruneUTXOs(s, ops))

(* CommitNonce is called for a nonce that was reserved, so the row exists. *)
NonceCalls ==
  LET m == mem.nonces  s == sql.nonces  f == "nonces" IN
  /\ focus = f
  /\ \E id \in Ids :
       \/ Call("GetNonce", f, Mem!GetNonce(m, id), Sql!GetNonce(s, id))
       \/ /\ Mem!NonceOf(m, id).version < MaxCount
          /\ Call("IncrementPendingNonce", f, Mem!IncrementPendingNonce(m, id),
                                              Sql!IncrementPendingNonce(s, id))
       \/ LET row == [pending |-> 1, broadcast |-> 0, version |-> 0] IN
            Call("UpsertNonce", f, Mem!UpsertNonce(m, id, row), Sql!UpsertNonce(s, id, row))
       \/ \E n \in 0..MaxCount :
            \/ /\ id \in DOMAIN m /\ n < m[id].pending
               /\ Call("AdvanceBroadcastNonce", f, Mem!AdvanceBroadcastNonce(m, id, n),
                                                   Sql!AdvanceBroadcastNonce(s, id, n))
            \/ Call("RollbackPendingNonce", f, Mem!RollbackPendingNonce(m, id, n),
                                               Sql!RollbackPendingNonce(s, id, n))

WithdrawalCalls ==
  LET m == mem.withdrawals  s == sql.withdrawals  f == "withdrawals" IN
  /\ focus = f
  /\ \E id \in Ids :
       \/ \E a \in Texts :
            LET row == [amount |-> a, state |-> "PENDING", tx |-> "", nonce |-> -1,
                        outpoints |-> {}, signed |-> ""]
            IN  Call("CreateWithdrawal", f, Mem!CreateWithdrawal(m, id, row),
                                            Sql!CreateWithdrawal(s, id, row))
       \/ Call("GetWithdrawal", f, Mem!GetWithdrawal(m, id), Sql!GetWithdrawal(s, id))
       \/ \E st \in WithdrawalStates :
            \/ Call("UpdateWithdrawalState", f,
                 Mem!UpdateWithdrawalState(m, id, st, IF st = "BROADCAST" THEN "hash" ELSE ""),
                 Sql!UpdateWithdrawalState(s, id, st, IF st = "BROADCAST" THEN "hash" ELSE ""))
            \/ Call("ListWithdrawals", f, Mem!ListWithdrawals(m, st), Sql!ListWithdrawals(s, st))
       \/ Call("UpdateWithdrawalNonce", f, Mem!UpdateWithdrawalNonce(m, id, 0),
                                           Sql!UpdateWithdrawalNonce(s, id, 0))
       \/ Call("UpdateWithdrawalOutpoints", f, Mem!UpdateWithdrawalOutpoints(m, id, {1}),
                                               Sql!UpdateWithdrawalOutpoints(s, id, {1}))
       \/ Call("UpdateWithdrawalSignedTx", f, Mem!UpdateWithdrawalSignedTx(m, id, "bytes"),
                                              Sql!UpdateWithdrawalSignedTx(s, id, "bytes"))

Tick == /\ focus = "keys" /\ now < MaxTime /\ ~Diverged
        /\ now' = now + 1
        /\ UNCHANGED <<focus, mem, sql, tx, last>>

KeyCalls ==
  LET m == mem.keys  s == sql.keys  f == "keys" IN
  /\ focus = f
  /\ \/ \E k \in Ids :
          \/ Call("BindKeyMapping", f, Mem!BindKeyMapping(m, k, now), Sql!BindKeyMapping(s, k, now))
          \/ Call("RotateKeyMapping", f, Mem!RotateKeyMapping(m, k, now, Cooling),
                                         Sql!RotateKeyMapping(s, k, now, Cooling))
     \/ Call("ResolveActiveKey", f, Mem!ResolveActiveKey(m), Sql!ResolveActiveKey(s))
     \/ Call("ExpireCooling", f, Mem!ExpireCooling(m, now), Sql!ExpireCooling(s, now))

FundingCalls ==
  LET m == mem.funding  s == sql.funding  f == "funding" IN
  /\ focus = f
  /\ \/ \E id \in Ids \ DOMAIN m :
          LET row == [state |-> "REQUESTED", batch |-> ""] IN
          Call("CreateFundingRequest", f, Mem!CreateFundingRequest(m, id, row),
                                          Sql!CreateFundingRequest(s, id, row))
     \/ Call("GetOpenFundingRequest", f, Mem!GetOpenFundingRequest(m), Sql!GetOpenFundingRequest(s))
     \/ \E st \in {"APPROVED", "SETTLED", "REJECTED"} :
          \/ Call("ListFundingRequests", f, Mem!ListFundingRequests(m, st),
                                            Sql!ListFundingRequests(s, st))
          \/ \E id \in Ids, b \in {"", "batch"} :
               Call("UpdateFundingState", f, Mem!UpdateFundingState(m, id, st, b),
                                             Sql!UpdateFundingState(s, id, st, b))

NextSeq ==
  /\ mem.seq < MaxCount
  /\ Call("NextAuditSeq", "seq", Mem!NextAuditSeq(mem.seq), Sql!NextAuditSeq(sql.seq))

(* A sequence number is used for one event.                                *)
AppendEvent(id, e) ==
  /\ id \notin DOMAIN mem.audit /\ id <= mem.seq
  /\ LET row == [event |-> e, seq |-> id, delivered |-> FALSE, attempts |-> 0]
     IN  Call("AppendAuditEvent", "audit", Mem!AppendAuditEvent(mem.audit, id, row),
                                           Sql!AppendAuditEvent(sql.audit, id, row))

(* A limit that is not positive means none in memory only, so such a call  *)
(* of ListUndeliveredAuditEvents is told apart.                            *)
AuditCalls ==
  LET m == mem.audit  s == sql.audit  f == "audit" IN
  /\ focus = f
  /\ \/ NextSeq
     \/ \E id \in Ids :
          \/ \E e \in Ids : AppendEvent(id, e)
          \/ /\ id \in DOMAIN m => m[id].attempts < MaxCount
             /\ Call("MarkAuditDelivered", f, Mem!MarkAuditDelivered(m, id),
                                              Sql!MarkAuditDelivered(s, id))
     \/ \E limit \in -1..2 :
          Call(IF limit > 0 THEN "ListUndeliveredAuditEvents" ELSE "ListWithoutLimit", f,
               Mem!ListUndeliveredAuditEvents(m, limit), Sql!ListUndeliveredAuditEvents(s, limit))

-----------------------------------------------------------------------------
(* InTx, with the calls the balance service makes inside: the in-memory    *)
(* store copies its maps first and puts the copies back after an error.    *)
Begin == /\ focus = "tx" /\ tx = {} /\ ~Diverged
         /\ tx' = {[mem |-> mem, sql |-> sql, failed |-> FALSE]}
         /\ UNCHANGED <<focus, mem, sql, now, last>>

TxCalls ==
  /\ focus = "tx" /\ tx # {}
  /\ \/ \E id \in Ids : ReadBalance(id) \/ \E text \in Texts : Upsert(id, text)
     \/ NextSeq
     \/ \E id, e \in Ids : AppendEvent(id, e)

Commit ==
  \E x \in tx :
    /\ ~Diverged /\ tx' = {}
    /\ sql' = IF x.failed THEN x.sql ELSE sql
    /\ last' = [op |-> "InTx", mem |-> Ok(0).r,
                sql |-> IF x.failed THEN Fail(0, "error").r ELSE Ok(0).r]
    /\ UNCHANGED <<focus, mem, now>>

(* The function returns an error.                                          *)
Rollback ==
  \E x \in tx :
    /\ ~Diverged /\ tx' = {}
    /\ mem' = x.mem /\ sql' = x.sql
    /\ last' = [op |-> "InTx", mem |-> Fail(0, "error").r, sql |-> Fail(0, "error").r]
    /\ UNCHANGED <<focus, now>>

Next ==
  \/ WalletCalls \/ AddressCalls \/ BalanceCalls \/ UTXOCalls \/ NonceCalls
  \/ WithdrawalCalls \/ KeyCalls \/ Tick \/ FundingCalls \/ AuditCalls
  \/ Begin \/ TxCalls \/ Commit \/ Rollback

Spec == Init /\ [][Next]_vars

-----------------------------------------------------------------------------
(* Rows as both stores would return them: amounts, which are kept as text  *)
(* in memory, as numbers, and without the version of a nonce row, which    *)
(* RollbackPendingNonce moves in memory only.                              *)
Amounts(row) == [row EXCEPT !.amount = Canonical(@)]

NoVersion(row) == [row EXCEPT !.version = 0]

View(t, withdrawals) ==
  [t EXCEPT !.withdrawals = [i \in DOMAIN withdrawals |-> Amounts(withdrawals[i])],
            !.balances = [i \in DOMAIN t.balances |-> Amounts(t.balances[i])],
            !.nonces = [i \in DOMAIN t.nonces |-> NoVersion(t.nonces[i])]]

(* As long as both stores take and refuse the same calls they hold the     *)
(* same rows, also after a rolled back transaction: nothing the memory     *)
(* store does silently differs from the statements of the service.         *)
SameRows ==
  ~Diverged => View(mem, mem.withdrawals.rows) = View(sql, sql.withdrawals)

(* The methods whose constraints only PostgreSQL checks.                   *)
StricterSql == {"CreateWallet", "InsertAddress", "UpsertBalance", "LockUTXOs",
                "CreateWithdrawal", "UpdateWithdrawalState", "BindKeyMapping",
                "ListWithoutLimit"}

(* The methods that report a missing row in memory only.                   *)
StricterMem == {"UpdateWalletState", "DeprecateAddress", "IncrementReceiveCount",
                "MarkUTXOsSpent", "RestoreUTXOs", "UpdateWithdrawalState",
                "UpdateWithdrawalNonce", "UpdateWithdrawalOutpoints",
                "UpdateWithdrawalSignedTx", "UpdateFundingState", "MarkAuditDelivered"}

(* Every other difference a caller can see is one of these: a duplicate    *)
(* has no error of its own in PostgreSQL; a transaction that goes on after *)
(* a failed statement commits in memory only; a limit of zero lists all    *)
(* undelivered audit events in memory and none in PostgreSQL.  Apart from  *)
(* that, values that both return are equal up to the version of a nonce    *)
(* row and the text of an amount, which PostgreSQL returns with 18         *)
(* decimals.                                                               *)
KnownDifferences ==
  LET m == last.mem  s == last.sql IN
  \/ m = s
  \/ m.s = "ok" /\ s.s = "error" /\ (last.op \in StricterSql \cup {"InTx"} \/ Failed)
  \/ m.s \in {"missing", "error"} /\ s.s = "ok" /\ last.op \in StricterMem
  \/ /\ m.s = "duplicate" /\ s.s = "error"
     /\ last.op \in {"CreateWithdrawal", "CreateFundingRequest", "AppendAuditEvent"} \/ Failed
  \/ m.s = "missing" /\ s.s = "error" /\ Failed
  \/ m.s = "ok" /\ s.s = "ok" /\
       CASE last.op = "GetNonce" -> {NoVersion(r) : r \in m.v} = {NoVersion(r) : r \in s.v}
         [] last.op = "IncrementPendingNonce" -> {r.val : r \in m.v} = {r.val : r \in s.v}
         [] last.op \in {"GetWithdrawal", "GetBalance"} -> {Amounts(r) : r \in m.v} = s.v
         [] last.op \in {"ListWithdrawals", "ListBalances"} ->
              {<<r[1], Amounts(r[2])>> : r \in m.v} = s.v
         [] last.op = "ListWithoutLimit" -> s.v = {}
         [] OTHER -> FALSE

(* What the in-memory store takes for a payment in flight really is one.   *)
InflightIsInFlight ==
  \A a \in mem.withdrawals.inflight :
    \E i \in DOMAIN mem.withdrawals.rows :
      mem.withdrawals.rows[i].amount = a /\ Sql!InFlight(mem.withdrawals.rows[i])
=============================================================================
