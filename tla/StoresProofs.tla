---------------------------- MODULE StoresProofs ----------------------------
(***************************************************************************)
(* Proofs about Stores, for any ids, wallets, amounts and bounds: the two  *)
(* stores hold the same rows as long as they take the same calls, and they *)
(* disagree on a call only in the ways that are listed.                    *)
(***************************************************************************)
EXTENDS Stores, TLAPS

Names == {"wallets", "addresses", "balances", "events", "utxos", "nonces",
          "withdrawals", "keys", "funding", "audit", "seq"}

(* Rows of the tables on which the stores may differ, and of key mappings. *)
NonceRow == [pending : Int, broadcast : Int, version : Int]

WithdrawalRow ==
  [amount : Texts, state : WithdrawalStates, tx : {"", "hash"}, nonce : {-1, 0},
   outpoints : {{}, {1}}, signed : {"", "bytes"}]

BalanceRow == [amount : Texts]

KeyRow == [state : {"CURRENT", "COOLING", "RETIRED"}, from : Int, to : Int]

(* A payment the in-memory store takes for one in flight has a row that is.*)
Backed(t) ==
  \A a \in t.inflight : \E i \in DOMAIN t.rows :
    t.rows[i].amount = a /\ Sql!InFlight(t.rows[i])

WithdrawalsOwn(t) ==
  /\ t = [rows |-> t.rows, inflight |-> t.inflight]
  /\ t.rows \in [DOMAIN t.rows -> WithdrawalRow]
  /\ Backed(t)

BalancesOwn(t) == t \in [DOMAIN t -> BalanceRow]

(* A cooling key has an end, which the in-memory store does not test for.  *)
KeysOwn(t) ==
  /\ t \in [DOMAIN t -> KeyRow]
  /\ \A k \in DOMAIN t : t[k].state = "COOLING" => t[k].to >= 0

(* What holds of a table of the in-memory store by itself.                 *)
OwnTable(f, a) ==
  /\ f = "withdrawals" => WithdrawalsOwn(a)
  /\ f = "balances" => BalancesOwn(a)
  /\ f = "keys" => KeysOwn(a)

(* The same table in the two stores.                                       *)
SameNonces(a, b) ==
  /\ a \in [DOMAIN a -> NonceRow] /\ b \in [DOMAIN a -> NonceRow]
  /\ \A i \in DOMAIN a : a[i].pending = b[i].pending /\ a[i].broadcast = b[i].broadcast

SameWithdrawals(a, b) == b = [i \in DOMAIN a.rows |-> Amounts(a.rows[i])]

SameBalances(a, b) == b = [i \in DOMAIN a |-> Amounts(a[i])]

SameTable(f, a, b) ==
  /\ f = "nonces" => SameNonces(a, b)
  /\ f = "withdrawals" => SameWithdrawals(a, b)
  /\ f = "balances" => SameBalances(a, b)
  /\ f \notin {"nonces", "withdrawals", "balances"} => a = b

Own(t) == t = [f \in Names |-> t[f]] /\ \A f \in Names : OwnTable(f, t[f])

Same(t, u) == u = [f \in Names |-> u[f]] /\ \A f \in Names : SameTable(f, t[f], u[f])

(* Values that both stores return and that are not equal as they stand.    *)
SameValues(op, v, w) ==
  \/ op = "GetNonce" /\ {NoVersion(r) : r \in v} = {NoVersion(r) : r \in w}
  \/ op = "IncrementPendingNonce" /\ {r.val : r \in v} = {r.val : r \in w}
  \/ op \in {"GetWithdrawal", "GetBalance"} /\ {Amounts(r) : r \in v} = w
  \/ op \in {"ListWithdrawals", "ListBalances"} /\ {<<r[1], Amounts(r[2])>> : r \in v} = w
  \/ op = "ListWithoutLimit" /\ w = {}

(* Differences between two replies outside a failed transaction.           *)
Differ(op, m, s) ==
  \/ m = s
  \/ m.s = "ok" /\ s.s = "error" /\ op \in StricterSql
  \/ m.s \in {"missing", "error"} /\ s.s = "ok" /\ op \in StricterMem
  \/ m.s = "duplicate" /\ s.s = "error"
     /\ op \in {"CreateWithdrawal", "CreateFundingRequest", "AppendAuditEvent"}
  \/ m.s = "ok" /\ s.s = "ok" /\ SameValues(op, m.v, s.v)

(* The results m and s of one method on the tables a and b.                *)
Agree(op, f, a, b, m, s) ==
  /\ OwnTable(f, m.t)
  /\ m.r.s = "ok" /\ s.r.s = "ok" => SameTable(f, m.t, s.t)
  /\ m.r.s # "ok" /\ s.r.s # "ok" => m.t = a /\ s.t = b
  /\ Differ(op, m.r, s.r)

(* A method of the in-memory store that changes nothing when it fails.     *)
AllOrNothing(a, m) ==
  \/ m.r.s = "ok"
  \/ m.t = a /\ m.r.v = {} /\ m.r.s \in {"missing", "duplicate", "error"}
     /\ m.r = [s |-> m.r.s, v |-> m.r.v]

StoreInv ==
  /\ now \in Nat
  /\ tx # {} => focus = "tx"
  /\ Own(mem)
  /\ \A x \in tx : x = [mem |-> x.mem, sql |-> x.sql, failed |-> x.failed]
                   /\ x.failed \in BOOLEAN /\ Own(x.mem)
  /\ ~Diverged => Same(mem, sql) /\ \A x \in tx : Same(x.mem, x.sql)
  /\ KnownDifferences

-----------------------------------------------------------------------------
LEMMA StoreInit == Init => StoreInv
<1> SUFFICES ASSUME Init PROVE StoreInv
  OBVIOUS
<1>0. /\ sql = EmptyTables
      /\ mem = [EmptyTables EXCEPT !.withdrawals = [rows |-> <<>>, inflight |-> {}]]
  BY DEF Init
<1>1. /\ sql = [f \in Names |-> sql[f]] /\ sql.withdrawals = <<>> /\ sql.nonces = <<>>
      /\ mem = [f \in Names |-> mem[f]] /\ mem.nonces = <<>> /\ mem.keys = <<>>
      /\ mem.balances = <<>> /\ sql.balances = <<>>
      /\ mem.withdrawals = [rows |-> <<>>, inflight |-> {}]
      /\ \A f \in Names \ {"withdrawals"} : mem[f] = sql[f]
  BY <1>0 DEF EmptyTables, Names
<1>2. /\ OwnTable("withdrawals", [rows |-> <<>>, inflight |-> {}]) /\ OwnTable("keys", <<>>)
      /\ OwnTable("balances", <<>>)
  BY DEF OwnTable, WithdrawalsOwn, KeysOwn, BalancesOwn, Backed
<1>3. Own(mem)
  BY <1>1, <1>2 DEF Own, OwnTable
<1>4. /\ SameNonces(<<>>, <<>>) /\ SameWithdrawals([rows |-> <<>>, inflight |-> {}], <<>>)
      /\ SameBalances(<<>>, <<>>)
  BY DEF SameNonces, SameWithdrawals, SameBalances
<1>5. Same(mem, sql)
  BY <1>1, <1>4 DEF Same, SameTable
<1>6. KnownDifferences
  BY DEF Init, KnownDifferences
<1>7. QED
  BY <1>3, <1>5, <1>6 DEF Init, StoreInv

(* A call replaces one table of each store.                                *)
LEMMA ReplaceOwn ==
  ASSUME NEW t, Own(t), NEW f \in Names, NEW a, OwnTable(f, a)
  PROVE  Own([t EXCEPT ![f] = a])
  BY DEF Own

LEMMA ReplaceSame ==
  ASSUME NEW t, NEW u, Own(t), Same(t, u), NEW f \in Names, NEW a, NEW b, SameTable(f, a, b)
  PROVE  Same([t EXCEPT ![f] = a], [u EXCEPT ![f] = b])
<1>1. DOMAIN t = Names /\ DOMAIN u = Names
  BY DEF Own, Same
<1>2. QED
  BY <1>1 DEF Same

LEMMA ReplaceNothing ==
  ASSUME NEW t, NEW f \in Names, t = [g \in Names |-> t[g]]
  PROVE  [t EXCEPT ![f] = t[f]] = t
  OBVIOUS

(* What a call leaves of the open transaction.                             *)
LEMMA CallTx ==
  ASSUME StoreInv, NEW op, NEW f, NEW m, NEW s, Call(op, f, m, s)
  PROVE  /\ tx' # {} => tx # {}
         /\ \A y \in tx' : \E x \in tx :
              /\ y = [mem |-> x.mem, sql |-> x.sql, failed |-> y.failed]
              /\ y.failed \in BOOLEAN /\ y.mem = x.mem /\ y.sql = x.sql
         /\ Failed => Failed'
<1> DEFINE t == IF Failed THEN Fail(sql[f], "error") ELSE s
           error == t.r.s = "error"
<1>1. tx' = {[x EXCEPT !.failed = @ \/ error] : x \in tx}
  BY DEF Call
<1>2. error \in BOOLEAN
  OBVIOUS
<1> HIDE DEF error
<1>3. \A x \in tx : x = [mem |-> x.mem, sql |-> x.sql, failed |-> x.failed] /\ x.failed \in BOOLEAN
  BY DEF StoreInv
<1>4. \A x \in tx : [x EXCEPT !.failed = @ \/ error]
                      = [mem |-> x.mem, sql |-> x.sql, failed |-> x.failed \/ error]
  BY <1>3
<1>5. ASSUME NEW y \in tx'
      PROVE  \E x \in tx : y = [mem |-> x.mem, sql |-> x.sql, failed |-> x.failed \/ error]
  <2>1. PICK x \in tx : y = [x EXCEPT !.failed = @ \/ error]
    BY <1>1
  <2>2. y = [mem |-> x.mem, sql |-> x.sql, failed |-> x.failed \/ error]
    BY <1>4, <2>1
  <2>3. QED
    BY <2>2
<1>6. ASSUME NEW y \in tx'
      PROVE  \E x \in tx :
              /\ y = [mem |-> x.mem, sql |-> x.sql, failed |-> y.failed]
              /\ y.failed \in BOOLEAN /\ y.mem = x.mem /\ y.sql = x.sql
  <2>1. PICK x \in tx : y = [mem |-> x.mem, sql |-> x.sql, failed |-> x.failed \/ error]
    BY <1>5
  <2>2. (x.failed \/ error) \in BOOLEAN
    OBVIOUS
  <2>3. QED
    BY <2>1, <2>2
<1>7. ASSUME Failed PROVE Failed'
  <2>1. PICK x \in tx : x.failed
    BY <1>7 DEF Failed
  <2>2. [mem |-> x.mem, sql |-> x.sql, failed |-> x.failed \/ error] \in tx'
    BY <1>1, <1>4
  <2>3. [mem |-> x.mem, sql |-> x.sql, failed |-> x.failed \/ error].failed
    BY <2>1, Zenon
  <2>4. QED
    BY <2>2, <2>3 DEF Failed
<1>8. QED
  BY <1>1, <1>6, <1>7

(* A method on whose results the stores agree keeps the invariant.         *)
LEMMA CallStep ==
  ASSUME StoreInv, NEW op, NEW f \in Names, NEW m, NEW s, Call(op, f, m, s),
         Agree(op, f, mem[f], sql[f], m, s), tx = {} \/ AllOrNothing(mem[f], m)
  PROVE  StoreInv'
<1> DEFINE t == IF Failed THEN Fail(sql[f], "error") ELSE s
<1>1. /\ ~Diverged /\ mem' = [mem EXCEPT ![f] = m.t] /\ sql' = [sql EXCEPT ![f] = t.t]
      /\ last' = [op |-> op, mem |-> m.r, sql |-> t.r] /\ focus' = focus /\ now' = now
  BY DEF Call
<1>2. CASE Failed
  <2>1. t = Fail(sql[f], "error")
    BY <1>2
  <2>2. t.t = sql[f] /\ t.r = [s |-> "error", v |-> {}]
    BY <2>1 DEF Fail
  <2>3. AllOrNothing(mem[f], m)
    BY <1>2 DEF Failed
  <2>4. Failed'
    BY <1>2, CallTx
  <2>5. KnownDifferences'
    <3>1. last'.mem = m.r /\ last'.sql.s = "error" /\ last'.sql = [s |-> "error", v |-> {}]
      BY <1>1, <2>2
    <3>2. m.r.s \in {"ok", "missing", "duplicate"} \/ m.r = [s |-> "error", v |-> {}]
      BY <2>3 DEF AllOrNothing
    <3>3. QED
      BY <2>4, <3>1, <3>2 DEF KnownDifferences
  <2>6. ~Diverged' => m.t = mem[f]
    BY <1>1, <2>2, <2>3 DEF Diverged, AllOrNothing
  <2>7. ~Diverged' => mem' = mem /\ sql' = sql
    BY <1>1, <2>2, <2>6, ReplaceNothing DEF StoreInv, Own, Same
  <2>8. Own(mem')
    BY <1>1, ReplaceOwn, ZenonT(30) DEF StoreInv, Agree
  <2>9. QED
    BY <1>1, <2>5, <2>7, <2>8, CallTx, ZenonT(30) DEF StoreInv
<1>3. CASE ~Failed
  <2>1. t = s
    BY <1>3
  <2> HIDE DEF t
  <2>2. KnownDifferences'
    BY <1>1, <2>1, ZenonT(30) DEF KnownDifferences, Agree, Differ, SameValues
  <2>3. Own(mem')
    BY <1>1, ReplaceOwn, ZenonT(30) DEF StoreInv, Agree
  <2>4. Same(mem, sql) /\ Own(mem) /\ \A x \in tx : Same(x.mem, x.sql)
    BY <1>1 DEF StoreInv
  <2>5. ASSUME ~Diverged' PROVE Same(mem', sql')
    <3>1. CASE m.r.s = "ok" /\ s.r.s = "ok"
      <4>1. SameTable(f, m.t, s.t)
        BY <3>1 DEF Agree
      <4>2. QED
        BY <1>1, <2>1, <2>4, <4>1, ReplaceSame, ZenonT(30)
    <3>2. CASE m.r.s # "ok" /\ s.r.s # "ok"
      <4>1. m.t = mem[f] /\ s.t = sql[f]
        BY <3>2 DEF Agree
      <4>2. mem' = mem /\ sql' = sql
        BY <1>1, <2>1, <2>4, <4>1, ReplaceNothing, ZenonT(30) DEF Own, Same
      <4>3. QED
        BY <2>4, <4>2
    <3>3. QED
      BY <1>1, <2>1, <2>5, <3>1, <3>2 DEF Diverged
  <2>6. QED
    BY <1>1, <2>2, <2>3, <2>4, <2>5, CallTx DEF StoreInv
<1>4. QED
  BY <1>2, <1>3

-----------------------------------------------------------------------------
(* The ways to agree.                                                      *)
LEMMA OkAgrees ==
  ASSUME NEW op, NEW f, NEW a, NEW b, NEW u, NEW w, OwnTable(f, u), SameTable(f, u, w)
  PROVE  Agree(op, f, a, b, Mem!Ok(u), Sql!Ok(w))
<1> DEFINE r == [s |-> "ok", v |-> {}]
<1>1. /\ Mem!Ok(u).t = u /\ Mem!Ok(u).r = r
      /\ Sql!Ok(w).t = w /\ Sql!Ok(w).r = r /\ r.s = "ok"
  BY DEF Mem!Ok, Sql!Ok
<1> HIDE DEF r
<1>2. Differ(op, r, r)
  BY DEF Differ
<1>3. QED
  BY <1>1, <1>2 DEF Agree

LEMMA ValuesAgree ==
  ASSUME NEW op, NEW f, NEW a, NEW b, NEW u, NEW w, OwnTable(f, u), SameTable(f, u, w),
         NEW v, NEW x, v = x \/ SameValues(op, v, x)
  PROVE  Agree(op, f, a, b, Mem!OkWith(u, v), Sql!OkWith(w, x))
<1> DEFINE m == [s |-> "ok", v |-> v]
           s == [s |-> "ok", v |-> x]
<1>1. /\ Mem!OkWith(u, v).t = u /\ Mem!OkWith(u, v).r = m /\ m.s = "ok" /\ m.v = v
      /\ Sql!OkWith(w, x).t = w /\ Sql!OkWith(w, x).r = s /\ s.s = "ok" /\ s.v = x
      /\ (v = x => m = s)
  BY DEF Mem!OkWith, Sql!OkWith
<1> HIDE DEF m, s
<1>2. Differ(op, m, s)
  BY <1>1 DEF Differ
<1>3. QED
  BY <1>1, <1>2 DEF Agree

LEMMA FailAgrees ==
  ASSUME NEW op, NEW f, NEW a, NEW b, NEW st, OwnTable(f, a), st # "ok"
  PROVE  Agree(op, f, a, b, Mem!Fail(a, st), Sql!Fail(b, st))
<1> DEFINE r == [s |-> st, v |-> {}]
<1>1. /\ Mem!Fail(a, st).t = a /\ Mem!Fail(a, st).r = r
      /\ Sql!Fail(b, st).t = b /\ Sql!Fail(b, st).r = r /\ r.s = st
  BY DEF Mem!Fail, Sql!Fail
<1> HIDE DEF r
<1>2. Differ(op, r, r)
  BY DEF Differ
<1>3. QED
  BY <1>1, <1>2 DEF Agree

LEMMA DuplicateAgrees ==
  ASSUME NEW op \in {"CreateWithdrawal", "CreateFundingRequest", "AppendAuditEvent"},
         NEW f, NEW a, NEW b, OwnTable(f, a)
  PROVE  Agree(op, f, a, b, Mem!Fail(a, "duplicate"), Sql!Fail(b, "error"))
<1>1. /\ Mem!Fail(a, "duplicate").t = a /\ Mem!Fail(a, "duplicate").r.s = "duplicate"
      /\ Sql!Fail(b, "error").t = b /\ Sql!Fail(b, "error").r.s = "error"
  BY DEF Mem!Fail, Sql!Fail
<1>2. QED
  BY <1>1 DEF Agree, Differ

LEMMA OnlyMemTakes ==
  ASSUME NEW op \in StricterSql, NEW f, NEW a, NEW b, NEW u, OwnTable(f, u)
  PROVE  Agree(op, f, a, b, Mem!Ok(u), Sql!Fail(b, "error"))
<1>1. /\ Mem!Ok(u).t = u /\ Mem!Ok(u).r.s = "ok"
      /\ Sql!Fail(b, "error").t = b /\ Sql!Fail(b, "error").r.s = "error"
  BY DEF Mem!Ok, Sql!Fail
<1>2. QED
  BY <1>1 DEF Agree, Differ

LEMMA OnlySqlTakes ==
  ASSUME NEW op \in StricterMem, NEW f, NEW a, NEW b, NEW u, NEW w, OwnTable(f, u)
  PROVE  Agree(op, f, a, b, Mem!Fail(u, "missing"), Sql!Ok(w))
<1>1. /\ Mem!Fail(u, "missing").t = u /\ Mem!Fail(u, "missing").r.s = "missing"
      /\ Sql!Ok(w).t = w /\ Sql!Ok(w).r.s = "ok"
  BY DEF Mem!Fail, Sql!Ok
<1>2. QED
  BY <1>1 DEF Agree, Differ

-----------------------------------------------------------------------------
(* The methods, group by group.  Where the tables are equal the stores     *)
(* write the same rows; what is left is which calls they refuse.           *)

LEMMA WalletsAgree ==
  ASSUME NEW t, NEW id, NEW row, NEW st
  PROVE  /\ Agree("CreateWallet", "wallets", t, t,
                  Mem!CreateWallet(t, id, row), Sql!CreateWallet(t, id, row))
         /\ Agree("GetWallet", "wallets", t, t, Mem!GetWallet(t, id), Sql!GetWallet(t, id))
         /\ Agree("UpdateWalletState", "wallets", t, t,
                  Mem!UpdateWalletState(t, id, st), Sql!UpdateWalletState(t, id, st))
         /\ Agree("ListWallets", "wallets", t, t,
                  Mem!ListWallets(t, st), Sql!ListWallets(t, st))
<1> USE DEF Agree, OwnTable, SameTable, Differ, StricterSql, StricterMem,
            Mem!Ok, Sql!Ok, Mem!OkWith, Sql!OkWith, Mem!Fail, Sql!Fail
<1>1. Agree("CreateWallet", "wallets", t, t,
            Mem!CreateWallet(t, id, row), Sql!CreateWallet(t, id, row))
  BY ZenonT(30) DEF Mem!CreateWallet, Sql!CreateWallet, Sql!Insert, Mem!Put, Sql!Put
<1>2. Agree("GetWallet", "wallets", t, t, Mem!GetWallet(t, id), Sql!GetWallet(t, id))
  BY ZenonT(30) DEF Mem!GetWallet, Sql!GetWallet, Mem!Get, Sql!Get
<1>3. Agree("UpdateWalletState", "wallets", t, t,
            Mem!UpdateWalletState(t, id, st), Sql!UpdateWalletState(t, id, st))
  BY DEF Mem!UpdateWalletState, Sql!UpdateWalletState, Mem!Update, Sql!Update
<1>4. Agree("ListWallets", "wallets", t, t, Mem!ListWallets(t, st), Sql!ListWallets(t, st))
  BY ZenonT(30) DEF Mem!ListWallets, Sql!ListWallets, Mem!List, Sql!List
<1>5. QED
  BY <1>1, <1>2, <1>3, <1>4, ZenonT(30)

LEMMA AddressesAgree ==
  ASSUME NEW t, NEW id, NEW row, NEW w
  PROVE  /\ Agree("InsertAddress", "addresses", t, t,
                  Mem!InsertAddress(t, id, row), Sql!InsertAddress(t, id, row))
         /\ Agree("DeprecateAddress", "addresses", t, t,
                  Mem!DeprecateAddress(t, id), Sql!DeprecateAddress(t, id))
         /\ Agree("GetAddress", "addresses", t, t, Mem!GetAddress(t, id), Sql!GetAddress(t, id))
         /\ Agree("IncrementReceiveCount", "addresses", t, t,
                  Mem!IncrementReceiveCount(t, id), Sql!IncrementReceiveCount(t, id))
         /\ Agree("GetActiveAddress", "addresses", t, t,
                  Mem!GetActiveAddress(t, w), Sql!GetActiveAddress(t, w))
         /\ Agree("ListAddresses", "addresses", t, t,
                  Mem!ListAddresses(t, w), Sql!ListAddresses(t, w))
         /\ Agree("NextAddressIndex", "addresses", t, t,
                  Mem!NextAddressIndex(t), Sql!NextAddressIndex(t))
<1> USE DEF Agree, OwnTable, SameTable, Differ, StricterSql, StricterMem,
            Mem!Ok, Sql!Ok, Mem!OkWith, Sql!OkWith, Mem!Fail, Sql!Fail
<1>1. Agree("InsertAddress", "addresses", t, t,
            Mem!InsertAddress(t, id, row), Sql!InsertAddress(t, id, row))
  BY ZenonT(30) DEF Mem!InsertAddress, Sql!InsertAddress, Sql!Insert, Mem!Put, Sql!Put, Sql!Range
<1>2. Agree("DeprecateAddress", "addresses", t, t,
            Mem!DeprecateAddress(t, id), Sql!DeprecateAddress(t, id))
  BY DEF Mem!DeprecateAddress, Sql!DeprecateAddress, Mem!Update, Sql!Update
<1>3. Agree("GetAddress", "addresses", t, t, Mem!GetAddress(t, id), Sql!GetAddress(t, id))
  BY ZenonT(30) DEF Mem!GetAddress, Sql!GetAddress, Mem!Get, Sql!Get
<1>4. Agree("IncrementReceiveCount", "addresses", t, t,
            Mem!IncrementReceiveCount(t, id), Sql!IncrementReceiveCount(t, id))
  BY DEF Mem!IncrementReceiveCount, Sql!IncrementReceiveCount, Mem!Update, Sql!Update
<1>5. Agree("GetActiveAddress", "addresses", t, t,
            Mem!GetActiveAddress(t, w), Sql!GetActiveAddress(t, w))
  BY ZenonT(30) DEF Mem!GetActiveAddress, Sql!GetActiveAddress, Mem!GetWhere, Sql!GetWhere
<1>6. Agree("ListAddresses", "addresses", t, t,
            Mem!ListAddresses(t, w), Sql!ListAddresses(t, w))
  BY ZenonT(30) DEF Mem!ListAddresses, Sql!ListAddresses, Mem!List, Sql!List
<1>7. Agree("NextAddressIndex", "addresses", t, t,
            Mem!NextAddressIndex(t), Sql!NextAddressIndex(t))
  BY DEF Mem!NextAddressIndex, Sql!NextAddressIndex, Mem!Max, Sql!Max
<1>8. QED
  BY <1>1, <1>2, <1>3, <1>4, <1>5, <1>6, <1>7, ZenonT(30)

(* Balances: the SQL rows are the rows in memory with their amounts as     *)
(* numbers.                                                                *)
LEMMA BalanceTable ==
  ASSUME NEW a, NEW b, BalancesOwn(a), SameBalances(a, b)
  PROVE  OwnTable("balances", a) /\ SameTable("balances", a, b)
  BY DEF OwnTable, SameTable

LEMMA UpsertAgrees ==
  ASSUME NEW a, NEW b, BalancesOwn(a), SameBalances(a, b), NEW id, NEW row \in BalanceRow
  PROVE  Agree("UpsertBalance", "balances", a, b,
               Mem!UpsertBalance(a, id, row), Sql!UpsertBalance(b, id, row))
<1> DEFINE c == [i \in DOMAIN a \cup {id} |-> IF i = id THEN row ELSE a[i]]
           d == [i \in DOMAIN b \cup {id} |-> IF i = id THEN Amounts(row) ELSE b[i]]
<1>1. Mem!UpsertBalance(a, id, row) = Mem!Ok(c)
  BY DEF Mem!UpsertBalance, Mem!Put
<1>2. Sql!UpsertBalance(b, id, row) = IF IsNumeric(row.amount) THEN Sql!Ok(d) ELSE Sql!Fail(b, "error")
  BY DEF Sql!UpsertBalance, Sql!Put, Amounts
<1>3. BalancesOwn(c)
  BY DEF BalancesOwn
<1>4. DOMAIN b = DOMAIN a /\ \A i \in DOMAIN a : b[i] = Amounts(a[i])
  BY DEF SameBalances
<1>5. SameBalances(c, d)
  <2> DEFINE e == [i \in DOMAIN c |-> Amounts(c[i])]
  <2>1. DOMAIN c = DOMAIN a \cup {id} /\ DOMAIN d = DOMAIN c /\ DOMAIN e = DOMAIN c
    BY <1>4
  <2>2. \A i \in DOMAIN c : d[i] = e[i]
    BY <1>4, <2>1
  <2>3. d = e
    BY <2>1, <2>2, ZenonT(30)
  <2>4. QED
    BY <2>3 DEF SameBalances
<1> HIDE DEF c, d
<1>6. CASE IsNumeric(row.amount)
  BY <1>1, <1>2, <1>3, <1>5, <1>6, BalanceTable, OkAgrees
<1>7. CASE ~IsNumeric(row.amount)
  <2>1. "UpsertBalance" \in StricterSql /\ OwnTable("balances", c)
    BY <1>3, <1>5, BalanceTable DEF StricterSql
  <2>2. QED
    BY <1>1, <1>2, <1>7, <2>1, OnlyMemTakes
<1>8. QED
  BY <1>6, <1>7

LEMMA BalancesAgree ==
  ASSUME NEW a, NEW b, BalancesOwn(a), SameBalances(a, b), NEW id
  PROVE  /\ Agree("GetBalance", "balances", a, b, Mem!GetBalance(a, id), Sql!GetBalance(b, id))
         /\ Agree("ListBalances", "balances", a, b, Mem!ListBalances(a), Sql!ListBalances(b))
<1>1. DOMAIN b = DOMAIN a /\ \A i \in DOMAIN a : b[i] = Amounts(a[i])
  BY DEF SameBalances
<1>2. Agree("GetBalance", "balances", a, b, Mem!GetBalance(a, id), Sql!GetBalance(b, id))
  <2>1. CASE id \in DOMAIN a
    <3>1. /\ Mem!GetBalance(a, id) = Mem!OkWith(a, {a[id]})
          /\ Sql!GetBalance(b, id) = Sql!OkWith(b, {b[id]})
      BY <1>1, <2>1 DEF Mem!GetBalance, Sql!GetBalance, Mem!Get, Sql!Get
    <3>2. {Amounts(x) : x \in {a[id]}} = {b[id]}
      BY <1>1, <2>1
    <3>3. SameValues("GetBalance", {a[id]}, {b[id]})
      BY <3>2 DEF SameValues
    <3>4. QED
      BY <3>1, <3>3, BalanceTable, ValuesAgree
  <2>2. CASE id \notin DOMAIN a
    <3>1. /\ Mem!GetBalance(a, id) = Mem!Fail(a, "missing")
          /\ Sql!GetBalance(b, id) = Sql!Fail(b, "missing")
      BY <1>1, <2>2 DEF Mem!GetBalance, Sql!GetBalance, Mem!Get, Sql!Get
    <3>2. QED
      BY <3>1, BalanceTable, FailAgrees
  <2>3. QED
    BY <2>1, <2>2
<1>3. Agree("ListBalances", "balances", a, b, Mem!ListBalances(a), Sql!ListBalances(b))
  <2> DEFINE v == {<<i, a[i]>> : i \in DOMAIN a}
             w == {<<i, b[i]>> : i \in DOMAIN a}
  <2>1. Mem!ListBalances(a) = Mem!OkWith(a, v) /\ Sql!ListBalances(b) = Sql!OkWith(b, w)
    BY <1>1 DEF Mem!ListBalances, Sql!ListBalances, Mem!List, Sql!List
  <2>2. {<<x[1], Amounts(x[2])>> : x \in v} = w
    <3>1. ASSUME NEW y \in w PROVE y \in {<<x[1], Amounts(x[2])>> : x \in v}
      <4>1. PICK i \in DOMAIN a : y = <<i, b[i]>>
        OBVIOUS
      <4>2. <<i, a[i]>> \in v /\ <<i, a[i]>>[1] = i /\ <<i, a[i]>>[2] = a[i]
        OBVIOUS
      <4>3. QED
        BY <1>1, <4>1, <4>2, ZenonT(30)
    <3>2. ASSUME NEW x \in v PROVE <<x[1], Amounts(x[2])>> \in w
      BY <1>1
    <3>3. QED
      BY <3>1, <3>2
  <2> HIDE DEF v, w
  <2>3. SameValues("ListBalances", v, w)
    BY <2>2 DEF SameValues
  <2>4. QED
    BY <2>1, <2>3, BalanceTable, ValuesAgree
<1>4. QED
  BY <1>2, <1>3

LEMMA EventsAgree ==
  ASSUME NEW t, NEW e
  PROVE  Agree("RecordBalanceEvent", "events", t, t,
               Mem!RecordBalanceEvent(t, e), Sql!RecordBalanceEvent(t, e))
<1> USE DEF Agree, OwnTable, SameTable, Differ, StricterSql, StricterMem,
            Mem!Ok, Sql!Ok, Mem!OkWith, Sql!OkWith, Mem!Fail, Sql!Fail
<1>1. Agree("RecordBalanceEvent", "events", t, t,
            Mem!RecordBalanceEvent(t, e), Sql!RecordBalanceEvent(t, e))
  BY ZenonT(30) DEF Mem!RecordBalanceEvent, Sql!RecordBalanceEvent, Mem!Put, Sql!Put
<1>2. QED
  BY <1>1

LEMMA OutpointsAgree ==
  ASSUME NEW t, NEW o, NEW ops
  PROVE  /\ Agree("InsertUTXO", "utxos", t, t, Mem!InsertUTXO(t, o), Sql!InsertUTXO(t, o))
         /\ Agree("ListFreeUTXOs", "utxos", t, t, Mem!ListFreeUTXOs(t), Sql!ListFreeUTXOs(t))
         /\ Agree("LockUTXOs", "utxos", t, t, Mem!LockUTXOs(t, ops), Sql!LockUTXOs(t, ops))
         /\ Agree("MarkUTXOsSpent", "utxos", t, t,
                  Mem!MarkUTXOsSpent(t, ops), Sql!MarkUTXOsSpent(t, ops))
         /\ Agree("RestoreUTXOs", "utxos", t, t,
                  Mem!RestoreUTXOs(t, ops), Sql!RestoreUTXOs(t, ops))
         /\ Agree("PruneUTXOs", "utxos", t, t, Mem!PruneUTXOs(t, ops), Sql!PruneUTXOs(t, ops))
<1> USE DEF Agree, OwnTable, SameTable, Differ, StricterSql, StricterMem,
            Mem!Ok, Sql!Ok, Mem!OkWith, Sql!OkWith, Mem!Fail, Sql!Fail
<1>1. Agree("InsertUTXO", "utxos", t, t, Mem!InsertUTXO(t, o), Sql!InsertUTXO(t, o))
  BY ZenonT(30) DEF Mem!InsertUTXO, Sql!InsertUTXO, Sql!Insert, Mem!Put, Sql!Put
<1>2. Agree("ListFreeUTXOs", "utxos", t, t, Mem!ListFreeUTXOs(t), Sql!ListFreeUTXOs(t))
  BY DEF Mem!ListFreeUTXOs, Sql!ListFreeUTXOs
<1>3. Agree("LockUTXOs", "utxos", t, t, Mem!LockUTXOs(t, ops), Sql!LockUTXOs(t, ops))
  BY DEF Mem!LockUTXOs, Sql!LockUTXOs, Mem!SetAll, Sql!SetAll, Mem!Range, Sql!Range
<1>4. Agree("MarkUTXOsSpent", "utxos", t, t,
            Mem!MarkUTXOsSpent(t, ops), Sql!MarkUTXOsSpent(t, ops))
  BY DEF Mem!MarkUTXOsSpent, Sql!MarkUTXOsSpent, Mem!SetUntilMissing, Mem!SetAll, Sql!SetAll,
         Mem!Range, Sql!Range
<1>5. Agree("RestoreUTXOs", "utxos", t, t, Mem!RestoreUTXOs(t, ops), Sql!RestoreUTXOs(t, ops))
  BY DEF Mem!RestoreUTXOs, Sql!RestoreUTXOs, Mem!SetUntilMissing, Mem!SetAll, Sql!SetAll,
         Mem!Range, Sql!Range
<1>6. Agree("PruneUTXOs", "utxos", t, t, Mem!PruneUTXOs(t, ops), Sql!PruneUTXOs(t, ops))
  BY DEF Mem!PruneUTXOs, Sql!PruneUTXOs, Mem!Remove, Sql!Remove, Mem!Restrict, Sql!Restrict,
         Mem!Range, Sql!Range
<1>7. QED
  BY <1>1, <1>2, <1>3, <1>4, <1>5, <1>6, ZenonT(30)

LEMMA FundingAgrees ==
  ASSUME NEW t, NEW id, NEW st, NEW b
  PROVE  /\ Agree("GetOpenFundingRequest", "funding", t, t,
                  Mem!GetOpenFundingRequest(t), Sql!GetOpenFundingRequest(t))
         /\ Agree("ListFundingRequests", "funding", t, t,
                  Mem!ListFundingRequests(t, st), Sql!ListFundingRequests(t, st))
         /\ Agree("UpdateFundingState", "funding", t, t,
                  Mem!UpdateFundingState(t, id, st, b), Sql!UpdateFundingState(t, id, st, b))
<1> USE DEF Agree, OwnTable, SameTable, Differ, StricterSql, StricterMem,
            Mem!Ok, Sql!Ok, Mem!OkWith, Sql!OkWith, Mem!Fail, Sql!Fail
<1>1. Agree("GetOpenFundingRequest", "funding", t, t,
            Mem!GetOpenFundingRequest(t), Sql!GetOpenFundingRequest(t))
  BY ZenonT(30) DEF Mem!GetOpenFundingRequest, Sql!GetOpenFundingRequest, Mem!GetWhere, Sql!GetWhere,
         Mem!IsOpen, Sql!IsOpen
<1>2. Agree("ListFundingRequests", "funding", t, t,
            Mem!ListFundingRequests(t, st), Sql!ListFundingRequests(t, st))
  BY ZenonT(30) DEF Mem!ListFundingRequests, Sql!ListFundingRequests, Mem!List, Sql!List
<1>3. Agree("UpdateFundingState", "funding", t, t,
            Mem!UpdateFundingState(t, id, st, b), Sql!UpdateFundingState(t, id, st, b))
  BY DEF Mem!UpdateFundingState, Sql!UpdateFundingState, Mem!Update, Sql!Update
<1>4. QED
  BY <1>1, <1>2, <1>3, ZenonT(30)

LEMMA AuditAgrees ==
  ASSUME NEW t, NEW id
  PROVE  Agree("MarkAuditDelivered", "audit", t, t,
               Mem!MarkAuditDelivered(t, id), Sql!MarkAuditDelivered(t, id))
<1> USE DEF Agree, OwnTable, SameTable, Differ, StricterSql, StricterMem,
            Mem!Ok, Sql!Ok, Mem!OkWith, Sql!OkWith, Mem!Fail, Sql!Fail
<1>1. Agree("MarkAuditDelivered", "audit", t, t,
            Mem!MarkAuditDelivered(t, id), Sql!MarkAuditDelivered(t, id))
  BY DEF Mem!MarkAuditDelivered, Sql!MarkAuditDelivered, Mem!Update, Sql!Update
<1>2. QED
  BY <1>1, ZenonT(30)

LEMMA SequenceAgrees ==
  ASSUME NEW t
  PROVE  Agree("NextAuditSeq", "seq", t, t, Mem!NextAuditSeq(t), Sql!NextAuditSeq(t))
<1> USE DEF Agree, OwnTable, SameTable, Differ, StricterSql, StricterMem,
            Mem!Ok, Sql!Ok, Mem!OkWith, Sql!OkWith, Mem!Fail, Sql!Fail
<1>1. Agree("NextAuditSeq", "seq", t, t, Mem!NextAuditSeq(t), Sql!NextAuditSeq(t))
  BY DEF Mem!NextAuditSeq, Sql!NextAuditSeq
<1>2. QED
  BY <1>1, ZenonT(30)

(* A new request has an id of its own; while one is open both refuse it.   *)
LEMMA NewFundingAgrees ==
  ASSUME NEW t, NEW id, id \notin DOMAIN t, NEW row, row.state = "REQUESTED"
  PROVE  Agree("CreateFundingRequest", "funding", t, t,
               Mem!CreateFundingRequest(t, id, row), Sql!CreateFundingRequest(t, id, row))
<1> DEFINE conflicts == {r \in Sql!Range(t) : Sql!IsOpen(r) /\ Sql!IsOpen(row)}
<1>1. conflicts = {} <=> ~\E i \in DOMAIN t : Mem!IsOpen(t[i])
  BY DEF Sql!Range, Mem!IsOpen, Sql!IsOpen
<1> HIDE DEF conflicts
<1>2. Sql!CreateFundingRequest(t, id, row)
        = IF conflicts = {} THEN Sql!Ok(Put(t, id, row)) ELSE Sql!Fail(t, "error")
  BY DEF conflicts, Sql!CreateFundingRequest, Sql!Insert, Sql!Put, Put
<1>3. Mem!CreateFundingRequest(t, id, row)
        = IF conflicts = {} THEN Mem!Ok(Put(t, id, row)) ELSE Mem!Fail(t, "duplicate")
  BY <1>1 DEF Mem!CreateFundingRequest, Mem!Put, Put
<1>4. OwnTable("funding", t) /\ \A u : OwnTable("funding", u) /\ SameTable("funding", u, u)
  BY DEF OwnTable, SameTable
<1>5. CASE conflicts = {}
  BY <1>2, <1>3, <1>4, <1>5, OkAgrees
<1>6. CASE conflicts # {}
  BY <1>2, <1>3, <1>4, <1>6, DuplicateAgrees
<1>7. QED
  BY <1>5, <1>6

(* An event that is in the outbox is refused under another id as well.     *)
LEMMA NewEventAgrees ==
  ASSUME NEW t, NEW id, id \notin DOMAIN t, NEW row
  PROVE  /\ Agree("AppendAuditEvent", "audit", t, t,
                  Mem!AppendAuditEvent(t, id, row), Sql!AppendAuditEvent(t, id, row))
         /\ AllOrNothing(t, Mem!AppendAuditEvent(t, id, row))
<1> DEFINE conflicts == {r \in Sql!Range(t) : r.event = row.event}
<1>1. conflicts = {} <=> ~\E i \in DOMAIN t : t[i].event = row.event
  BY DEF Sql!Range
<1> HIDE DEF conflicts
<1>2. Sql!AppendAuditEvent(t, id, row)
        = IF conflicts = {} THEN Sql!Ok(Put(t, id, row)) ELSE Sql!Fail(t, "error")
  BY DEF conflicts, Sql!AppendAuditEvent, Sql!Insert, Sql!Put, Put
<1>3. Mem!AppendAuditEvent(t, id, row)
        = IF conflicts = {} THEN Mem!Ok(Put(t, id, row)) ELSE Mem!Fail(t, "duplicate")
  BY <1>1 DEF Mem!AppendAuditEvent, Mem!Put, Put
<1>4. OwnTable("audit", t) /\ \A u : OwnTable("audit", u) /\ SameTable("audit", u, u)
  BY DEF OwnTable, SameTable
<1>5. CASE conflicts = {}
  <2>1. AllOrNothing(t, Mem!Ok(Put(t, id, row)))
    BY DEF AllOrNothing, Mem!Ok
  <2>2. QED
    BY <1>2, <1>3, <1>4, <1>5, <2>1, OkAgrees
<1>6. CASE conflicts # {}
  <2>1. AllOrNothing(t, Mem!Fail(t, "duplicate"))
    BY DEF AllOrNothing, Mem!Fail
  <2>2. QED
    BY <1>2, <1>3, <1>4, <1>6, <2>1, DuplicateAgrees
<1>7. QED
  BY <1>5, <1>6

LEMMA OutboxAgrees ==
  ASSUME NEW t, NEW limit \in Int, limit > 0
  PROVE  Agree("ListUndeliveredAuditEvents", "audit", t, t,
               Mem!ListUndeliveredAuditEvents(t, limit), Sql!ListUndeliveredAuditEvents(t, limit))
<1>0. \A S : Mem!Cardinality(S) = Sql!Cardinality(S)
  BY DEF Mem!Cardinality, Sql!Cardinality
<1> DEFINE open == {i \in DOMAIN t : ~t[i].delivered}
           earlier(i) == {j \in open : t[j].seq < t[i].seq}
           v == {i \in open : limit > 0 => Mem!Cardinality(earlier(i)) < limit}
           w == {i \in open : limit > 0 /\ Sql!Cardinality(earlier(i)) < limit}
<1>1. ~(limit < 0)
  OBVIOUS
<1>2. /\ Mem!ListUndeliveredAuditEvents(t, limit) = Mem!OkWith(t, v)
      /\ Sql!ListUndeliveredAuditEvents(t, limit) = Sql!OkWith(t, w)
  BY <1>1 DEF Mem!ListUndeliveredAuditEvents, Sql!ListUndeliveredAuditEvents
<1> HIDE DEF open, earlier
<1>3. v = w
  BY <1>0
<1> HIDE DEF v, w
<1>4. OwnTable("audit", t) /\ SameTable("audit", t, t)
  BY DEF OwnTable, SameTable
<1>5. QED
  BY <1>2, <1>3, <1>4, ValuesAgree

(* Without a limit PostgreSQL returns nothing, or refuses the query.       *)
LEMMA WithoutLimitAgrees ==
  ASSUME NEW t, NEW limit \in Int, ~(limit > 0)
  PROVE  Agree("ListWithoutLimit", "audit", t, t,
               Mem!ListUndeliveredAuditEvents(t, limit), Sql!ListUndeliveredAuditEvents(t, limit))
<1> DEFINE open == {i \in DOMAIN t : ~t[i].delivered}
           earlier(i) == {j \in open : t[j].seq < t[i].seq}
           v == {i \in open : limit > 0 => Mem!Cardinality(earlier(i)) < limit}
           w == {i \in open : limit > 0 /\ Sql!Cardinality(earlier(i)) < limit}
<1>1. Mem!ListUndeliveredAuditEvents(t, limit) = Mem!OkWith(t, v)
  BY DEF Mem!ListUndeliveredAuditEvents
<1>2. Sql!ListUndeliveredAuditEvents(t, limit)
        = IF limit < 0 THEN Sql!Fail(t, "error") ELSE Sql!OkWith(t, w)
  BY DEF Sql!ListUndeliveredAuditEvents
<1>3. OwnTable("audit", t) /\ SameTable("audit", t, t)
  BY DEF OwnTable, SameTable
<1> HIDE DEF v
<1>4. CASE limit < 0
  <2> HIDE DEF w
  <2>1. /\ Mem!OkWith(t, v).t = t /\ Mem!OkWith(t, v).r.s = "ok"
        /\ Sql!Fail(t, "error").t = t /\ Sql!Fail(t, "error").r.s = "error"
    BY DEF Mem!OkWith, Sql!Fail
  <2>2. "ListWithoutLimit" \in StricterSql
    BY DEF StricterSql
  <2>3. QED
    BY <1>1, <1>2, <1>3, <1>4, <2>1, <2>2 DEF Agree, Differ
<1>5. CASE limit = 0
  <2>1. w = {}
    BY <1>5
  <2> HIDE DEF w
  <2>2. SameValues("ListWithoutLimit", v, w)
    BY <2>1 DEF SameValues
  <2>3. Sql!ListUndeliveredAuditEvents(t, limit) = Sql!OkWith(t, w)
    BY <1>2, <1>5
  <2>4. QED
    BY <1>1, <1>3, <2>2, <2>3, ValuesAgree
<1>6. QED
  BY <1>4, <1>5

(* The methods called in transactions.                                     *)
LEMMA InTxAllOrNothing ==
  ASSUME NEW t, NEW id, NEW row
  PROVE  /\ AllOrNothing(t, Mem!UpsertBalance(t, id, row))
         /\ AllOrNothing(t, Mem!GetBalance(t, id))
         /\ AllOrNothing(t, Mem!NextAuditSeq(t))
  BY ZenonT(30) DEF AllOrNothing, Mem!UpsertBalance, Mem!GetBalance, Mem!Get, Mem!NextAuditSeq,
         Mem!Ok, Mem!OkWith, Mem!Fail

(* Key mappings: a cooling key ends at a time, so the test for a null end  *)
(* that only the SQL makes does not matter.                                *)
LEMMA BindAgrees ==
  ASSUME NEW t, KeysOwn(t), NEW k, NEW i \in Nat
  PROVE  Agree("BindKeyMapping", "keys", t, t,
               Mem!BindKeyMapping(t, k, i), Sql!BindKeyMapping(t, k, i))
<1> DEFINE conflicts == {r \in Sql!Range(t) : r.state = "CURRENT"}
           new == [state |-> "CURRENT", from |-> i, to |-> -1]
           u == [j \in DOMAIN t \cup {k} |-> IF j = k THEN new ELSE t[j]]
<1>1. conflicts = {} <=> ~Mem!HasCurrent(t)
  BY DEF Sql!Range, Mem!HasCurrent
<1>2. new \in KeyRow /\ new.state = "CURRENT"
  BY DEF KeyRow
<1>3. /\ Sql!BindKeyMapping(t, k, i) = Sql!Insert(t, k, new, conflicts)
      /\ Mem!BindKeyMapping(t, k, i) = IF Mem!HasCurrent(t) THEN Mem!Fail(t, "error") ELSE Mem!Ok(u)
      /\ Sql!Put(t, k, new) = u
  BY DEF Sql!BindKeyMapping, Sql!NewKey, Mem!BindKeyMapping, Mem!NewKey, Mem!Put, Sql!Put
<1> HIDE DEF conflicts, new
<1>4. KeysOwn(u)
  BY <1>2 DEF KeysOwn
<1> HIDE DEF u
<1>5. OwnTable("keys", t) /\ OwnTable("keys", u) /\ SameTable("keys", u, u)
  BY <1>4 DEF OwnTable, SameTable
<1>6. CASE Mem!HasCurrent(t)
  <2>1. Mem!BindKeyMapping(t, k, i) = Mem!Fail(t, "error")
        /\ Sql!BindKeyMapping(t, k, i) = Sql!Fail(t, "error")
    BY <1>1, <1>3, <1>6 DEF Sql!Insert
  <2>2. QED
    BY <1>5, <2>1, FailAgrees
<1>7. CASE ~Mem!HasCurrent(t) /\ k \in DOMAIN t
  <2>1. Mem!BindKeyMapping(t, k, i) = Mem!Ok(u)
        /\ Sql!BindKeyMapping(t, k, i) = Sql!Fail(t, "error")
    BY <1>1, <1>3, <1>7 DEF Sql!Insert
  <2>2. QED
    BY <1>5, <2>1, OnlyMemTakes DEF StricterSql
<1>8. CASE ~Mem!HasCurrent(t) /\ k \notin DOMAIN t
  <2>1. Mem!BindKeyMapping(t, k, i) = Mem!Ok(u) /\ Sql!BindKeyMapping(t, k, i) = Sql!Ok(u)
    BY <1>1, <1>3, <1>8 DEF Sql!Insert
  <2>2. QED
    BY <1>5, <2>1, OkAgrees
<1>9. QED
  BY <1>6, <1>7, <1>8

LEMMA RotateAgrees ==
  ASSUME NEW t, KeysOwn(t), NEW k, NEW i \in Nat
  PROVE  Agree("RotateKeyMapping", "keys", t, t,
               Mem!RotateKeyMapping(t, k, i, Cooling), Sql!RotateKeyMapping(t, k, i, Cooling))
<1> DEFINE new == [state |-> "CURRENT", from |-> i, to |-> -1]
           c == [j \in DOMAIN t |-> IF t[j].state = "CURRENT"
                   THEN [t[j] EXCEPT !.state = "COOLING", !.to = i + Cooling] ELSE t[j]]
           u == [j \in DOMAIN c \cup {k} |-> IF j = k THEN new ELSE c[j]]
<1>1. Mem!RotateKeyMapping(t, k, i, Cooling) = Mem!Ok(u)
  BY DEF Mem!RotateKeyMapping, Mem!NewKey, Mem!Put, Mem!Cooled
<1>2. Sql!RotateKeyMapping(t, k, i, Cooling) = Sql!Ok(u)
  BY DEF Sql!RotateKeyMapping, Sql!NewKey, Sql!Put
<1>3. new \in KeyRow /\ new.state = "CURRENT"
  BY DEF KeyRow
<1>4. i + Cooling \in Int /\ i + Cooling >= 0
  BY CoolingAssumption
<1>5. KeysOwn(c)
  BY <1>4, ZenonT(30) DEF KeysOwn, KeyRow
<1> HIDE DEF new, c
<1>6. KeysOwn(u)
  BY <1>3, <1>5 DEF KeysOwn
<1> HIDE DEF u
<1>7. OwnTable("keys", u) /\ SameTable("keys", u, u)
  BY <1>6 DEF OwnTable, SameTable
<1>8. QED
  BY <1>1, <1>2, <1>7, OkAgrees

LEMMA ExpireAgrees ==
  ASSUME NEW t, KeysOwn(t), NEW i \in Nat
  PROVE  Agree("ExpireCooling", "keys", t, t, Mem!ExpireCooling(t, i), Sql!ExpireCooling(t, i))
<1> DEFINE u == [k \in DOMAIN t |-> IF t[k].state = "COOLING" /\ i > t[k].to
                                    THEN [t[k] EXCEPT !.state = "RETIRED"] ELSE t[k]]
<1>1. Mem!ExpireCooling(t, i) = Mem!Ok(u)
  BY DEF Mem!ExpireCooling
<1>2. \A k \in DOMAIN t : /\ t[k] \in KeyRow /\ t[k].to \in Int
                          /\ t[k].state = "COOLING" => t[k].to >= 0
  BY DEF KeysOwn, KeyRow
<1>3. ASSUME NEW k \in DOMAIN t
      PROVE  (t[k].state = "COOLING" /\ t[k].to # -1 /\ t[k].to < i)
               <=> (t[k].state = "COOLING" /\ i > t[k].to)
  <2> DEFINE n == t[k].to
  <2>1. n \in Int /\ (t[k].state = "COOLING" => n >= 0)
    BY <1>2
  <2> HIDE DEF n
  <2>2. (t[k].state = "COOLING" /\ n # -1 /\ n < i) <=> (t[k].state = "COOLING" /\ i > n)
    BY <2>1
  <2>3. QED
    BY <2>2 DEF n
<1>4. Sql!ExpireCooling(t, i) = Sql!Ok(u)
  BY <1>3 DEF Sql!ExpireCooling
<1>5. KeysOwn(u)
  BY <1>2 DEF KeysOwn, KeyRow
<1> HIDE DEF u
<1>6. OwnTable("keys", u) /\ SameTable("keys", u, u)
  BY <1>5 DEF OwnTable, SameTable
<1>7. QED
  BY <1>1, <1>4, <1>6, OkAgrees

LEMMA ResolveAgrees ==
  ASSUME NEW t, KeysOwn(t)
  PROVE  Agree("ResolveActiveKey", "keys", t, t, Mem!ResolveActiveKey(t), Sql!ResolveActiveKey(t))
<1>1. /\ Mem!ResolveActiveKey(t) = Sql!ResolveActiveKey(t)
      /\ Mem!ResolveActiveKey(t).t = t
  BY DEF Mem!ResolveActiveKey, Sql!ResolveActiveKey, Mem!List, Sql!List, Mem!OkWith, Sql!OkWith,
         Mem!Fail, Sql!Fail
<1>2. QED
  BY <1>1 DEF Agree, OwnTable, SameTable, Differ

-----------------------------------------------------------------------------
(* Nonce rows that differ at most in the version.                          *)
SameNonce(x, y) ==
  x \in NonceRow /\ y \in NonceRow /\ x.pending = y.pending /\ x.broadcast = y.broadcast

NonceFields == {"pending", "broadcast", "version"}

LEMMA VersionMoved ==
  ASSUME NEW x \in NonceRow, NEW k
  PROVE  [x EXCEPT !.version = k]
           = [pending |-> x.pending, broadcast |-> x.broadcast, version |-> k]
<1> DEFINE u == [x EXCEPT !.version = k]
           v == [pending |-> x.pending, broadcast |-> x.broadcast, version |-> k]
<1>1. u = [f \in NonceFields |-> u[f]] /\ v = [f \in NonceFields |-> v[f]]
  BY DEF NonceRow, NonceFields
<1>2. u.pending = v.pending /\ u.broadcast = v.broadcast /\ u.version = v.version
  BY DEF NonceRow
<1> HIDE DEF u, v
<1>3. u = v
  BY <1>1, <1>2 DEF NonceFields
<1>4. QED
  BY <1>3 DEF u, v

LEMMA PendingMoved ==
  ASSUME NEW x \in NonceRow, NEW n
  PROVE  [x EXCEPT !.pending = n]
           = [pending |-> n, broadcast |-> x.broadcast, version |-> x.version]
<1> DEFINE u == [x EXCEPT !.pending = n]
           v == [pending |-> n, broadcast |-> x.broadcast, version |-> x.version]
<1>1. u = [f \in NonceFields |-> u[f]] /\ v = [f \in NonceFields |-> v[f]]
  BY DEF NonceRow, NonceFields
<1>2. u.pending = v.pending /\ u.broadcast = v.broadcast /\ u.version = v.version
  BY DEF NonceRow
<1> HIDE DEF u, v
<1>3. u = v
  BY <1>1, <1>2 DEF NonceFields
<1>4. QED
  BY <1>3 DEF u, v

LEMMA NonceMoved ==
  ASSUME NEW x \in NonceRow, NEW n, NEW k
  PROVE  [x EXCEPT !.pending = n, !.version = k]
           = [pending |-> n, broadcast |-> x.broadcast, version |-> k]
<1> DEFINE u == [x EXCEPT !.pending = n, !.version = k]
           v == [pending |-> n, broadcast |-> x.broadcast, version |-> k]
<1>1. u = [f \in NonceFields |-> u[f]] /\ v = [f \in NonceFields |-> v[f]]
  BY ZenonT(30) DEF NonceRow, NonceFields
<1>2. u.pending = v.pending /\ u.broadcast = v.broadcast /\ u.version = v.version
  BY DEF NonceRow
<1> HIDE DEF u, v
<1>3. u = v
  BY <1>1, <1>2 DEF NonceFields
<1>4. QED
  BY <1>3 DEF u, v

LEMMA PutNonces ==
  ASSUME NEW a, NEW b, SameNonces(a, b), NEW id, NEW x, NEW y, SameNonce(x, y)
  PROVE  SameNonces(Put(a, id, x), Put(b, id, y))
<1> DEFINE u == Put(a, id, x)
           v == Put(b, id, y)
<1>1. /\ u = [i \in DOMAIN a \cup {id} |-> IF i = id THEN x ELSE a[i]]
      /\ v = [i \in DOMAIN a \cup {id} |-> IF i = id THEN y ELSE b[i]]
  BY DEF Put, SameNonces
<1>2. x \in NonceRow /\ y \in NonceRow /\ x.pending = y.pending /\ x.broadcast = y.broadcast
  BY DEF SameNonce
<1>3. \A i \in DOMAIN a : a[i] \in NonceRow /\ b[i] \in NonceRow
                          /\ a[i].pending = b[i].pending /\ a[i].broadcast = b[i].broadcast
  BY DEF SameNonces
<1> HIDE DEF u, v
<1>4. DOMAIN u = DOMAIN a \cup {id} /\ u \in [DOMAIN u -> NonceRow] /\ v \in [DOMAIN u -> NonceRow]
  BY <1>1, <1>2, <1>3
<1>5. \A i \in DOMAIN u : u[i].pending = v[i].pending /\ u[i].broadcast = v[i].broadcast
  BY <1>1, <1>2, <1>3, <1>4
<1>6. SameNonces(u, v)
  BY <1>4, <1>5 DEF SameNonces
<1>7. QED
  BY <1>6 DEF u, v

LEMMA ReplaceIsPut ==
  ASSUME NEW t, t = [i \in DOMAIN t |-> t[i]], NEW id \in DOMAIN t, NEW x
  PROVE  [t EXCEPT ![id] = x] = Put(t, id, x)
  BY DEF Put

(* The rows the two stores see under one key.                              *)
SqlNonceOf(b, id) == IF id \in DOMAIN b THEN b[id] ELSE Sql!NoNonce

LEMMA NonceSeen ==
  ASSUME NEW a, NEW b, SameNonces(a, b), NEW id
  PROVE  /\ SameNonce(Mem!NonceOf(a, id), SqlNonceOf(b, id))
         /\ DOMAIN a = DOMAIN b
         /\ a = [i \in DOMAIN a |-> a[i]] /\ b = [i \in DOMAIN b |-> b[i]]
<1>1. Mem!NoNonce = Sql!NoNonce /\ Sql!NoNonce \in NonceRow
  BY DEF Mem!NoNonce, Sql!NoNonce, NonceRow
<1>2. QED
  BY <1>1 DEF SameNonces, SameNonce, Mem!NonceOf, SqlNonceOf

LEMMA NonceTable ==
  ASSUME NEW a, NEW b, SameNonces(a, b)
  PROVE  OwnTable("nonces", a) /\ SameTable("nonces", a, b)
  BY DEF OwnTable, SameTable

LEMMA GetNonceAgrees ==
  ASSUME NEW a, NEW b, SameNonces(a, b), NEW id
  PROVE  Agree("GetNonce", "nonces", a, b, Mem!GetNonce(a, id), Sql!GetNonce(b, id))
<1> DEFINE x == Mem!NonceOf(a, id)
           y == SqlNonceOf(b, id)
<1>1. Mem!GetNonce(a, id) = Mem!OkWith(a, {x}) /\ Sql!GetNonce(b, id) = Sql!OkWith(b, {y})
  BY DEF Mem!GetNonce, Sql!GetNonce, SqlNonceOf
<1>2. SameNonce(x, y)
  BY NonceSeen
<1> HIDE DEF x, y
<1>3. NoVersion(x) = NoVersion(y)
  BY <1>2, VersionMoved, ZenonT(30) DEF SameNonce, NoVersion
<1>4. {NoVersion(r) : r \in {x}} = {NoVersion(r) : r \in {y}}
  BY <1>3
<1>5. SameValues("GetNonce", {x}, {y})
  BY <1>4 DEF SameValues
<1>6. QED
  BY <1>1, <1>5, NonceTable, ValuesAgree

LEMMA IncrementAgrees ==
  ASSUME NEW a, NEW b, SameNonces(a, b), NEW id
  PROVE  Agree("IncrementPendingNonce", "nonces", a, b,
               Mem!IncrementPendingNonce(a, id), Sql!IncrementPendingNonce(b, id))
<1> DEFINE x == Mem!NonceOf(a, id)
           y == SqlNonceOf(b, id)
           p == [pending |-> x.pending + 1, broadcast |-> x.broadcast, version |-> x.version + 1]
           q == [pending |-> y.pending + 1, broadcast |-> y.broadcast, version |-> y.version + 1]
<1>1. SameNonce(x, y) /\ b = [i \in DOMAIN b |-> b[i]]
  BY NonceSeen
<1>0. /\ [x EXCEPT !.pending = x.pending + 1, !.version = @ + 1] = p
      /\ [y EXCEPT !.pending = y.pending + 1, !.version = @ + 1] = q
  <2> HIDE DEF x, y
  <2>1. QED
    BY <1>1, NonceMoved, ZenonT(30) DEF SameNonce
<1>2. Mem!IncrementPendingNonce(a, id)
        = Mem!OkWith(Put(a, id, p), {[val |-> x.pending, ver |-> x.version + 1]})
  BY <1>0 DEF Mem!IncrementPendingNonce, Mem!Put, Put
<1>3. Sql!IncrementPendingNonce(b, id)
        = Sql!OkWith(Put(b, id, q), {[val |-> y.pending, ver |-> y.version + 1]})
  <2>1. CASE id \in DOMAIN b
    <3>1. y = b[id]
      BY <2>1 DEF SqlNonceOf
    <3>2. [b EXCEPT ![id] = q] = Put(b, id, q)
      <4> HIDE DEF q
      <4>1. QED
        BY <1>1, <2>1, ReplaceIsPut
    <3>3. [b EXCEPT ![id] = [b[id] EXCEPT !.pending = @ + 1, !.version = @ + 1]]
            = [b EXCEPT ![id] = q]
      BY <1>0, <3>1, ZenonT(30)
    <3>4. QED
      BY <2>1, <3>1, <3>2, <3>3 DEF Sql!IncrementPendingNonce
  <2>2. CASE id \notin DOMAIN b
    <3>1. y = Sql!NoNonce
      BY <2>2 DEF SqlNonceOf
    <3>0. Sql!NoNonce \in NonceRow
      BY DEF Sql!NoNonce, NonceRow
    <3>2. Sql!NoNonce.pending = 0 /\ Sql!NoNonce.version = 0
      BY DEF Sql!NoNonce
    <3>3. [Sql!NoNonce EXCEPT !.pending = 1, !.version = 1]
            = [pending |-> 1, broadcast |-> Sql!NoNonce.broadcast, version |-> 1]
      BY <3>0, NonceMoved, ZenonT(30)
    <3>4. /\ [Sql!NoNonce EXCEPT !.pending = 1, !.version = 1] = q
          /\ y.pending = 0 /\ y.version + 1 = 1
      BY <3>1, <3>2, <3>3
    <3>5. QED
      BY <2>2, <3>4 DEF Sql!IncrementPendingNonce, Sql!Put, Put
  <2>3. QED
    BY <2>1, <2>2
<1>4. SameNonce(p, q) /\ x.pending = y.pending
  <2> HIDE DEF x, y
  <2>1. QED
    BY <1>1 DEF SameNonce, NonceRow
<1> HIDE DEF x, y, p, q
<1>5. SameNonces(Put(a, id, p), Put(b, id, q))
  BY <1>4, PutNonces
<1> DEFINE i == [val |-> x.pending, ver |-> x.version + 1]
           j == [val |-> y.pending, ver |-> y.version + 1]
<1>6. i.val = j.val
  BY <1>4
<1>7. Mem!IncrementPendingNonce(a, id) = Mem!OkWith(Put(a, id, p), {i})
      /\ Sql!IncrementPendingNonce(b, id) = Sql!OkWith(Put(b, id, q), {j})
  BY <1>2, <1>3
<1> HIDE DEF i, j
<1>8. {r.val : r \in {i}} = {r.val : r \in {j}}
  BY <1>6
<1>9. SameValues("IncrementPendingNonce", {i}, {j})
  BY <1>8 DEF SameValues
<1>10. QED
  BY <1>5, <1>7, <1>9, NonceTable, ValuesAgree

LEMMA UpsertNonceAgrees ==
  ASSUME NEW a, NEW b, SameNonces(a, b), NEW id, NEW row \in NonceRow
  PROVE  Agree("UpsertNonce", "nonces", a, b,
               Mem!UpsertNonce(a, id, row), Sql!UpsertNonce(b, id, row))
<1>1. SameNonces(Put(a, id, row), Put(b, id, row))
  BY PutNonces DEF SameNonce
<1>2. /\ Mem!UpsertNonce(a, id, row) = Mem!Ok(Put(a, id, row))
      /\ Sql!UpsertNonce(b, id, row) = Sql!Ok(Put(b, id, row))
  BY DEF Mem!UpsertNonce, Sql!UpsertNonce, Mem!Put, Sql!Put, Put
<1>3. QED
  BY <1>1, <1>2, NonceTable, OkAgrees

LEMMA MaxOfTwo ==
  ASSUME NEW i \in Int, NEW j \in Int
  PROVE  /\ Mem!Max({i, j}) \in Int
         /\ Mem!Max({i, j}) = Sql!Max({i, j})
<1>1. Mem!Max({i, j}) = IF i >= j THEN i ELSE j
  BY DEF Mem!Max
<1>2. Sql!Max({i, j}) = IF i >= j THEN i ELSE j
  BY DEF Sql!Max
<1>3. QED
  BY <1>1, <1>2

LEMMA AdvanceAgrees ==
  ASSUME NEW a, NEW b, SameNonces(a, b), NEW id \in DOMAIN a, NEW n \in Int
  PROVE  Agree("AdvanceBroadcastNonce", "nonces", a, b,
               Mem!AdvanceBroadcastNonce(a, id, n), Sql!AdvanceBroadcastNonce(b, id, n))
<1> DEFINE x == a[id]
           y == b[id]
           p == [x EXCEPT !.broadcast = Mem!Max({@, n + 1})]
           q == [y EXCEPT !.broadcast = Sql!Max({@, n + 1})]
<1>1. /\ id \in DOMAIN b /\ b = [i \in DOMAIN b |-> b[i]]
      /\ x \in NonceRow /\ y \in NonceRow /\ x.pending = y.pending /\ x.broadcast = y.broadcast
  BY DEF SameNonces
<1>2. Mem!AdvanceBroadcastNonce(a, id, n) = Mem!Ok(Put(a, id, p))
  BY DEF Mem!AdvanceBroadcastNonce, Mem!NonceOf, Mem!Put, Put
<1>3. [b EXCEPT ![id] = q] = Put(b, id, q)
  BY <1>1, ReplaceIsPut
<1>4. Sql!AdvanceBroadcastNonce(b, id, n) = Sql!Ok(Put(b, id, q))
  BY <1>1, <1>3 DEF Sql!AdvanceBroadcastNonce, Sql!Update
<1> HIDE DEF x, y
<1>5. x.broadcast \in Int /\ n + 1 \in Int
  BY <1>1 DEF NonceRow
<1>6. Mem!Max({x.broadcast, n + 1}) \in Int
      /\ Mem!Max({x.broadcast, n + 1}) = Sql!Max({y.broadcast, n + 1})
  BY <1>1, <1>5, MaxOfTwo
<1>7. SameNonce(p, q)
  BY <1>1, <1>6 DEF SameNonce, NonceRow
<1> HIDE DEF p, q
<1>8. SameNonces(Put(a, id, p), Put(b, id, q))
  BY <1>7, PutNonces
<1>9. QED
  BY <1>2, <1>4, <1>8, NonceTable, OkAgrees

(* Only the in-memory store moves the version.                             *)
LEMMA RollbackAgrees ==
  ASSUME NEW a, NEW b, SameNonces(a, b), NEW id, NEW n \in Int
  PROVE  Agree("RollbackPendingNonce", "nonces", a, b,
               Mem!RollbackPendingNonce(a, id, n), Sql!RollbackPendingNonce(b, id, n))
<1>1. DOMAIN a = DOMAIN b /\ b = [i \in DOMAIN b |-> b[i]] /\ a = [i \in DOMAIN a |-> a[i]]
  BY DEF SameNonces
<1>2. CASE id \in DOMAIN a /\ a[id].pending = n + 1
  <2> DEFINE x == a[id]
             y == b[id]
             p == [pending |-> n, broadcast |-> x.broadcast, version |-> x.version + 1]
             q == [pending |-> n, broadcast |-> y.broadcast, version |-> y.version]
  <2>1. x \in NonceRow /\ y \in NonceRow /\ y.pending = n + 1 /\ x.broadcast = y.broadcast
    BY <1>2 DEF SameNonces
  <2>2. /\ [a EXCEPT ![id] = [a[id] EXCEPT !.pending = n, !.version = @ + 1]] = [a EXCEPT ![id] = p]
        /\ [b EXCEPT ![id].pending = n] = [b EXCEPT ![id] = q]
    <3>0. [x EXCEPT !.pending = n, !.version = x.version + 1] = p
      <4> DEFINE k == x.version + 1
      <4>1. x \in NonceRow
        BY <2>1
      <4> HIDE DEF x, k
      <4>2. [x EXCEPT !.pending = n, !.version = k]
              = [pending |-> n, broadcast |-> x.broadcast, version |-> k]
        BY <4>1, NonceMoved, ZenonT(30)
      <4>3. QED
        BY <4>2 DEF k
    <3>1. [a[id] EXCEPT !.pending = n, !.version = @ + 1] = p
      BY <3>0
    <3>2. [b[id] EXCEPT !.pending = n] = q
      BY <2>1, PendingMoved
    <3>3. [b EXCEPT ![id].pending = n] = [b EXCEPT ![id] = [b[id] EXCEPT !.pending = n]]
      OBVIOUS
    <3>4. QED
      BY <3>1, <3>2, <3>3, Zenon
  <2>3. SameNonce(p, q)
    BY <2>1 DEF SameNonce, NonceRow
  <2> HIDE DEF p, q
  <2>4. [a EXCEPT ![id] = p] = Put(a, id, p)
    BY <1>1, <1>2, ReplaceIsPut
  <2>5. [b EXCEPT ![id] = q] = Put(b, id, q)
    BY <1>1, <1>2, ReplaceIsPut
  <2>8. Mem!RollbackPendingNonce(a, id, n) = Mem!OkWith(Put(a, id, p), {1})
    BY <1>2, <2>2, <2>4, ZenonT(30) DEF Mem!RollbackPendingNonce
  <2>9. Sql!RollbackPendingNonce(b, id, n) = Sql!OkWith(Put(b, id, q), {1})
    BY <1>1, <1>2, <2>1, <2>2, <2>5, ZenonT(30) DEF Sql!RollbackPendingNonce
  <2> HIDE DEF p, q
  <2>6. SameNonces(Put(a, id, p), Put(b, id, q))
    BY <2>3, PutNonces
  <2>7. QED
    BY <2>6, <2>8, <2>9, NonceTable, ValuesAgree
<1>3. CASE ~(id \in DOMAIN a /\ a[id].pending = n + 1)
  <2>1. ~(id \in DOMAIN b /\ b[id].pending = n + 1)
    BY <1>1, <1>3 DEF SameNonces
  <2>2. /\ Mem!RollbackPendingNonce(a, id, n) = Mem!OkWith(a, {0})
        /\ Sql!RollbackPendingNonce(b, id, n) = Sql!OkWith(b, {0})
    BY <1>3, <2>1 DEF Mem!RollbackPendingNonce, Sql!RollbackPendingNonce
  <2>3. QED
    BY <2>2, NonceTable, ValuesAgree
<1>4. QED
  BY <1>2, <1>3

-----------------------------------------------------------------------------
(* Withdrawals: the SQL rows are the rows in memory with their amounts as  *)
(* numbers, and stay so under each update.                                 *)
WithdrawalFields == {"amount", "state", "tx", "nonce", "outpoints", "signed"}

LEMMA SameFields ==
  ASSUME NEW x, NEW y, x = [f \in WithdrawalFields |-> x[f]], y = [f \in WithdrawalFields |-> y[f]],
         x.amount = y.amount, x.state = y.state, x.tx = y.tx, x.nonce = y.nonce,
         x.outpoints = y.outpoints, x.signed = y.signed
  PROVE  x = y
  BY DEF WithdrawalFields

LEMMA AmountsIs ==
  ASSUME NEW x \in WithdrawalRow
  PROVE  /\ Amounts(x) = [f \in WithdrawalFields |-> Amounts(x)[f]]
         /\ Amounts(x).amount = Canonical(x.amount) /\ Amounts(x).state = x.state
         /\ Amounts(x).tx = x.tx /\ Amounts(x).nonce = x.nonce
         /\ Amounts(x).outpoints = x.outpoints /\ Amounts(x).signed = x.signed
  BY DEF Amounts, WithdrawalRow, WithdrawalFields

(* The fields of a row that PostgreSQL keeps for the row p.                *)
SqlRow(p, q) ==
  /\ q = [f \in WithdrawalFields |-> q[f]]
  /\ q.amount = Canonical(p.amount) /\ q.state = p.state /\ q.tx = p.tx
  /\ q.nonce = p.nonce /\ q.outpoints = p.outpoints /\ q.signed = p.signed

LEMMA SqlRowIs ==
  ASSUME NEW p \in WithdrawalRow, NEW q, SqlRow(p, q)
  PROVE  q = Amounts(p)
<1> DEFINE y == Amounts(p)
<1>1. SqlRow(p, y)
  BY AmountsIs DEF SqlRow
<1> HIDE DEF y
<1>2. q = y
  BY <1>1, SameFields DEF SqlRow
<1>3. QED
  BY <1>2 DEF y

(* The row x of a withdrawal after an update, and the same in PostgreSQL.  *)
Updated(x, p, q) ==
  /\ p \in WithdrawalRow /\ p.amount = x.amount
  /\ q = Amounts(p)

LEMMA NonceUpdated ==
  ASSUME NEW x \in WithdrawalRow
  PROVE  /\ Updated(x, [x EXCEPT !.nonce = 0], [Amounts(x) EXCEPT !.nonce = 0])
         /\ [x EXCEPT !.nonce = 0].state = x.state
<1> DEFINE p == [x EXCEPT !.nonce = 0]
           y == Amounts(x)
           q == [y EXCEPT !.nonce = 0]
<1>1. /\ p \in WithdrawalRow /\ p.amount = x.amount /\ p.state = x.state /\ p.tx = x.tx
      /\ p.nonce = 0 /\ p.outpoints = x.outpoints /\ p.signed = x.signed
  BY DEF WithdrawalRow
<1>2. /\ y = [f \in WithdrawalFields |-> y[f]] /\ y.amount = Canonical(x.amount)
      /\ y.state = x.state /\ y.tx = x.tx /\ y.outpoints = x.outpoints /\ y.signed = x.signed
  BY AmountsIs
<1> HIDE DEF p, y
<1>3. /\ q = [f \in WithdrawalFields |-> q[f]]
      /\ q.amount = y.amount /\ q.state = y.state /\ q.tx = y.tx
      /\ q.nonce = 0 /\ q.outpoints = y.outpoints /\ q.signed = y.signed
  BY <1>2 DEF WithdrawalFields
<1> HIDE DEF q
<1>4. q = Amounts(p)
  <2>1. SqlRow(p, q)
    BY <1>1, <1>2, <1>3 DEF SqlRow
  <2>2. p \in WithdrawalRow
    BY <1>1, <1>2, <1>3
  <2>3. QED
    BY <2>1, <2>2, SqlRowIs
<1>5. Updated(x, p, q) /\ p.state = x.state
  BY <1>1, <1>4 DEF Updated
<1>6. QED
  BY <1>5 DEF p, q, y

LEMMA OutpointsUpdated ==
  ASSUME NEW x \in WithdrawalRow
  PROVE  /\ Updated(x, [x EXCEPT !.outpoints = {1}], [Amounts(x) EXCEPT !.outpoints = {1}])
         /\ [x EXCEPT !.outpoints = {1}].state = x.state
<1> DEFINE p == [x EXCEPT !.outpoints = {1}]
           y == Amounts(x)
           q == [y EXCEPT !.outpoints = {1}]
<1>1. /\ p \in WithdrawalRow /\ p.amount = x.amount /\ p.state = x.state /\ p.tx = x.tx
      /\ p.nonce = x.nonce /\ p.outpoints = {1} /\ p.signed = x.signed
  BY DEF WithdrawalRow
<1>2. /\ y = [g \in WithdrawalFields |-> y[g]] /\ y.amount = Canonical(x.amount)
      /\ y.state = x.state /\ y.tx = x.tx /\ y.nonce = x.nonce /\ y.signed = x.signed
  BY AmountsIs
<1> HIDE DEF p, y
<1>3. /\ q = [g \in WithdrawalFields |-> q[g]]
      /\ q.amount = y.amount /\ q.state = y.state /\ q.tx = y.tx
      /\ q.nonce = y.nonce /\ q.outpoints = {1} /\ q.signed = y.signed
  BY <1>2 DEF WithdrawalFields
<1> HIDE DEF q
<1>4. q = Amounts(p)
  <2>1. SqlRow(p, q)
    BY <1>1, <1>2, <1>3 DEF SqlRow
  <2>2. p \in WithdrawalRow
    BY <1>1, <1>2, <1>3
  <2>3. QED
    BY <2>1, <2>2, SqlRowIs
<1>5. Updated(x, p, q) /\ p.state = x.state
  BY <1>1, <1>4 DEF Updated
<1>6. QED
  BY <1>5 DEF p, q, y

LEMMA SignedTxUpdated ==
  ASSUME NEW x \in WithdrawalRow
  PROVE  /\ Updated(x, [x EXCEPT !.signed = "bytes"], [Amounts(x) EXCEPT !.signed = "bytes"])
         /\ [x EXCEPT !.signed = "bytes"].state = x.state
<1> DEFINE p == [x EXCEPT !.signed = "bytes"]
           y == Amounts(x)
           q == [y EXCEPT !.signed = "bytes"]
<1>1. /\ p \in WithdrawalRow /\ p.amount = x.amount /\ p.state = x.state /\ p.tx = x.tx
      /\ p.nonce = x.nonce /\ p.outpoints = x.outpoints /\ p.signed = "bytes"
  BY DEF WithdrawalRow
<1>2. /\ y = [g \in WithdrawalFields |-> y[g]] /\ y.amount = Canonical(x.amount)
      /\ y.state = x.state /\ y.tx = x.tx /\ y.nonce = x.nonce /\ y.outpoints = x.outpoints
  BY AmountsIs
<1> HIDE DEF p, y
<1>3. /\ q = [g \in WithdrawalFields |-> q[g]]
      /\ q.amount = y.amount /\ q.state = y.state /\ q.tx = y.tx
      /\ q.nonce = y.nonce /\ q.outpoints = y.outpoints /\ q.signed = "bytes"
  BY <1>2 DEF WithdrawalFields
<1> HIDE DEF q
<1>4. q = Amounts(p)
  <2>1. SqlRow(p, q)
    BY <1>1, <1>2, <1>3 DEF SqlRow
  <2>2. p \in WithdrawalRow
    BY <1>1, <1>2, <1>3
  <2>3. QED
    BY <2>1, <2>2, SqlRowIs
<1>5. Updated(x, p, q) /\ p.state = x.state
  BY <1>1, <1>4 DEF Updated
<1>6. QED
  BY <1>5 DEF p, q, y

LEMMA StateUpdated ==
  ASSUME NEW x \in WithdrawalRow, NEW st \in WithdrawalStates, NEW h \in {"", "hash"}
  PROVE  /\ Updated(x, [x EXCEPT !.state = st, !.tx = IF h = "" THEN @ ELSE h],
                       [Amounts(x) EXCEPT !.state = st, !.tx = IF h = "" THEN @ ELSE h])
         /\ [x EXCEPT !.state = st, !.tx = IF h = "" THEN @ ELSE h].state = st
<1> DEFINE k == IF h = "" THEN x.tx ELSE h
           p == [x EXCEPT !.state = st, !.tx = k]
           y == Amounts(x)
           q == [y EXCEPT !.state = st, !.tx = k]
<1>1. k \in {"", "hash"}
  BY DEF WithdrawalRow
<1>2. /\ y = [g \in WithdrawalFields |-> y[g]] /\ y.amount = Canonical(x.amount)
      /\ y.tx = x.tx /\ y.nonce = x.nonce /\ y.outpoints = x.outpoints /\ y.signed = x.signed
  BY AmountsIs
<1>3. [y EXCEPT !.state = st, !.tx = IF h = "" THEN @ ELSE h] = q
  BY <1>2
<1> HIDE DEF k
<1>4. /\ p \in WithdrawalRow /\ p.amount = x.amount /\ p.state = st /\ p.tx = k
      /\ p.nonce = x.nonce /\ p.outpoints = x.outpoints /\ p.signed = x.signed
  BY <1>1 DEF WithdrawalRow
<1> HIDE DEF p, y
<1>5. /\ q = [g \in WithdrawalFields |-> q[g]]
      /\ q.amount = y.amount /\ q.state = st /\ q.tx = k
      /\ q.nonce = y.nonce /\ q.outpoints = y.outpoints /\ q.signed = y.signed
  BY <1>2 DEF WithdrawalFields
<1> HIDE DEF q
<1>6. q = Amounts(p)
  <2>1. SqlRow(p, q)
    BY <1>2, <1>4, <1>5 DEF SqlRow
  <2>2. p \in WithdrawalRow
    BY <1>2, <1>4, <1>5
  <2>3. QED
    BY <2>1, <2>2, SqlRowIs
<1>7. Updated(x, p, q) /\ p.state = st
  BY <1>4, <1>6 DEF Updated
<1>8. QED
  BY <1>3, <1>7 DEF p, y, k

LEMMA PutWithdrawals ==
  ASSUME NEW a, NEW b, SameWithdrawals(a, b), NEW id, NEW p, NEW z
  PROVE  SameWithdrawals([rows |-> Put(a.rows, id, p), inflight |-> z], Put(b, id, Amounts(p)))
<1> DEFINE c == [rows |-> Put(a.rows, id, p), inflight |-> z]
<1>1. c.rows = [i \in DOMAIN a.rows \cup {id} |-> IF i = id THEN p ELSE a.rows[i]]
  BY DEF Put
<1>2. Put(b, id, Amounts(p))
        = [i \in DOMAIN a.rows \cup {id} |-> IF i = id THEN Amounts(p) ELSE Amounts(a.rows[i])]
  BY DEF Put, SameWithdrawals
<1> HIDE DEF c
<1>3. SameWithdrawals(c, Put(b, id, Amounts(p)))
  BY <1>1, <1>2 DEF SameWithdrawals
<1>4. QED
  BY <1>3 DEF c

(* A row that is put keeps the table its own when the payments in flight   *)
(* that are left have other rows, or this one.                             *)
LEMMA PutOwn ==
  ASSUME NEW a, WithdrawalsOwn(a), NEW id, NEW p \in WithdrawalRow, NEW z,
         \A v \in z : \/ p.amount = v /\ Sql!InFlight(p)
                      \/ \E i \in DOMAIN a.rows \ {id} :
                           a.rows[i].amount = v /\ Sql!InFlight(a.rows[i])
  PROVE  WithdrawalsOwn([rows |-> Put(a.rows, id, p), inflight |-> z])
<1> DEFINE r == Put(a.rows, id, p)
           c == [rows |-> r, inflight |-> z]
<1>1. r = [i \in DOMAIN a.rows \cup {id} |-> IF i = id THEN p ELSE a.rows[i]]
  BY DEF Put
<1>2. \A i \in DOMAIN a.rows : a.rows[i] \in WithdrawalRow
  BY DEF WithdrawalsOwn
<1> HIDE DEF r
<1>3. DOMAIN r = DOMAIN a.rows \cup {id} /\ r[id] = p /\ r \in [DOMAIN r -> WithdrawalRow]
      /\ \A i \in DOMAIN a.rows \ {id} : r[i] = a.rows[i]
  BY <1>1, <1>2
<1>4. c.rows = r /\ c.inflight = z /\ c = [rows |-> c.rows, inflight |-> c.inflight]
  OBVIOUS
<1> HIDE DEF c
<1>5. Backed(c)
  <2> SUFFICES ASSUME NEW v \in z
               PROVE  \E i \in DOMAIN r : r[i].amount = v /\ Sql!InFlight(r[i])
    BY <1>4 DEF Backed
  <2>1. CASE p.amount = v /\ Sql!InFlight(p)
    BY <1>3, <2>1
  <2>2. CASE \E i \in DOMAIN a.rows \ {id} : a.rows[i].amount = v /\ Sql!InFlight(a.rows[i])
    <3>1. PICK i \in DOMAIN a.rows \ {id} : a.rows[i].amount = v /\ Sql!InFlight(a.rows[i])
      BY <2>2
    <3>2. i \in DOMAIN r /\ r[i] = a.rows[i]
      BY <1>3
    <3>3. QED
      BY <3>1, <3>2
  <2>3. QED
    BY <2>1, <2>2
<1>6. WithdrawalsOwn(c)
  BY <1>3, <1>4, <1>5 DEF WithdrawalsOwn
<1>7. QED
  BY <1>6 DEF c, r

(* UPDATE of a row: only the in-memory store misses it.                    *)
LEMMA MemUpdateIs ==
  ASSUME NEW a, WithdrawalsOwn(a), NEW z, NEW id, NEW p
  PROVE  LET m == Mem!UpdateWithdrawal([a EXCEPT !.inflight = z], id, p) IN
         /\ id \in DOMAIN a.rows =>
              m = Mem!Ok([rows |-> Put(a.rows, id, p), inflight |-> z])
         /\ id \notin DOMAIN a.rows =>
              m = Mem!Fail([rows |-> a.rows, inflight |-> z], "missing")
<1> DEFINE r == a.rows
           c == [a EXCEPT !.inflight = z]
           u == Mem!Update(r, id, p)
           m == Mem!UpdateWithdrawal(c, id, p)
<1>1. c = [rows |-> r, inflight |-> z] /\ r = [i \in DOMAIN r |-> r[i]]
  BY DEF WithdrawalsOwn
<1>2. c.rows = r
  BY <1>1
<1>3. m = [u EXCEPT !.t = [c EXCEPT !.rows = u.t]]
  BY <1>2 DEF Mem!UpdateWithdrawal
<1>4. \A x, y : [Mem!Ok(x) EXCEPT !.t = y] = Mem!Ok(y) /\ Mem!Ok(x).t = x
  BY DEF Mem!Ok
<1>5. \A x, y : [Mem!Fail(x, "missing") EXCEPT !.t = y] = Mem!Fail(y, "missing")
               /\ Mem!Fail(x, "missing").t = x
  BY DEF Mem!Fail
<1> HIDE DEF r, c, m
<1>6. CASE id \in DOMAIN r
  <2>1. [r EXCEPT ![id] = p] = Put(r, id, p)
    BY <1>1, <1>6, ReplaceIsPut
  <2>2. u = Mem!Ok(Put(r, id, p))
    BY <1>6, <2>1, ZenonT(30) DEF Mem!Update
  <2>3. [c EXCEPT !.rows = Put(r, id, p)] = [rows |-> Put(r, id, p), inflight |-> z]
    BY <1>1
  <2> HIDE DEF u
  <2>4. m = Mem!Ok([c EXCEPT !.rows = Put(r, id, p)])
    BY <1>3, <1>4, <2>2
  <2>5. QED
    BY <1>6, <2>3, <2>4 DEF r, m, c
<1>7. CASE id \notin DOMAIN r
  <2>1. u = Mem!Fail(r, "missing")
    BY <1>7 DEF Mem!Update
  <2>2. [c EXCEPT !.rows = r] = [rows |-> r, inflight |-> z]
    BY <1>1
  <2> HIDE DEF u
  <2>3. m = Mem!Fail([c EXCEPT !.rows = r], "missing")
    BY <1>3, <1>5, <2>1
  <2>4. QED
    BY <1>7, <2>2, <2>3 DEF r, m, c
<1>8. QED
  BY <1>6, <1>7 DEF r

(* The table of the in-memory store stays its own under an update that     *)
(* keeps the amount and frees the payment with the last state in flight.   *)
LEMMA UpdateOwn ==
  ASSUME NEW a, WithdrawalsOwn(a), NEW id \in DOMAIN a.rows, NEW p \in WithdrawalRow,
         p.amount = a.rows[id].amount, NEW z, z \subseteq a.inflight,
         \/ Sql!InFlight(p)
         \/ p.state = a.rows[id].state
         \/ a.rows[id].amount \notin z
  PROVE  WithdrawalsOwn([rows |-> Put(a.rows, id, p), inflight |-> z])
<1>1. ASSUME NEW v \in z
      PROVE  \/ p.amount = v /\ Sql!InFlight(p)
             \/ \E i \in DOMAIN a.rows \ {id} : a.rows[i].amount = v /\ Sql!InFlight(a.rows[i])
  <2>1. PICK i \in DOMAIN a.rows : a.rows[i].amount = v /\ Sql!InFlight(a.rows[i])
    BY DEF WithdrawalsOwn, Backed
  <2>2. CASE i = id
    BY <2>1, <2>2 DEF Sql!InFlight
  <2>3. CASE i # id
    BY <2>1, <2>3
  <2>4. QED
    BY <2>2, <2>3
<1>2. QED
  BY <1>1, PutOwn, ZenonT(30)

LEMMA FewerOwn ==
  ASSUME NEW a, WithdrawalsOwn(a), NEW z, z \subseteq a.inflight
  PROVE  WithdrawalsOwn([rows |-> a.rows, inflight |-> z])
<1> DEFINE c == [rows |-> a.rows, inflight |-> z]
<1>1. c.rows = a.rows /\ c.inflight = z /\ c = [rows |-> c.rows, inflight |-> c.inflight]
  OBVIOUS
<1> HIDE DEF c
<1>2. WithdrawalsOwn(c)
  BY <1>1 DEF WithdrawalsOwn, Backed
<1>3. QED
  BY <1>2 DEF c

LEMMA SqlUpdateIs ==
  ASSUME NEW a, NEW b, WithdrawalsOwn(a), SameWithdrawals(a, b), NEW id, NEW q
  PROVE  /\ DOMAIN b = DOMAIN a.rows
         /\ id \in DOMAIN a.rows =>
              b[id] = Amounts(a.rows[id]) /\ Sql!Update(b, id, q) = Sql!Ok(Put(b, id, q))
         /\ id \notin DOMAIN a.rows => Sql!Update(b, id, q) = Sql!Ok(b)
<1>1. DOMAIN b = DOMAIN a.rows /\ b = [i \in DOMAIN b |-> b[i]]
      /\ \A i \in DOMAIN b : b[i] = Amounts(a.rows[i])
  BY DEF SameWithdrawals
<1>2. CASE id \in DOMAIN b
  <2>1. [b EXCEPT ![id] = q] = Put(b, id, q)
    BY <1>1, <1>2, ReplaceIsPut
  <2>2. QED
    BY <1>1, <1>2, <2>1, ZenonT(30) DEF Sql!Update
<1>3. CASE id \notin DOMAIN b
  BY <1>1, <1>3 DEF Sql!Update
<1>4. QED
  BY <1>2, <1>3

LEMMA WithdrawalTable ==
  ASSUME NEW a, WithdrawalsOwn(a)
  PROVE  /\ OwnTable("withdrawals", a)
         /\ \A b : SameWithdrawals(a, b) => SameTable("withdrawals", a, b)
  BY DEF OwnTable, SameTable

LEMMA FieldAgrees ==
  ASSUME NEW a, NEW b, WithdrawalsOwn(a), SameWithdrawals(a, b), NEW id,
         NEW op \in StricterMem, NEW p, NEW q,
         id \in DOMAIN a.rows => Updated(a.rows[id], p, q) /\ p.state = a.rows[id].state
  PROVE  Agree(op, "withdrawals", a, b, Mem!UpdateWithdrawal(a, id, p), Sql!Update(b, id, q))
<1> DEFINE z == a.inflight
           m == Mem!UpdateWithdrawal(a, id, p)
           s == Sql!Update(b, id, q)
           c == [rows |-> Put(a.rows, id, p), inflight |-> z]
           d == [rows |-> a.rows, inflight |-> z]
<1>1. [a EXCEPT !.inflight = z] = a
  BY DEF WithdrawalsOwn
<1>2. /\ id \in DOMAIN a.rows => m = Mem!Ok(c)
      /\ id \notin DOMAIN a.rows => m = Mem!Fail(d, "missing")
  BY <1>1, MemUpdateIs
<1> HIDE DEF c, d, m
<1>3. CASE id \in DOMAIN a.rows
  <2>1. p \in WithdrawalRow /\ p.amount = a.rows[id].amount /\ q = Amounts(p)
    BY <1>3 DEF Updated
  <2>2. WithdrawalsOwn(c)
    BY <1>3, <2>1, UpdateOwn DEF c
  <2>3. SameWithdrawals(c, Put(b, id, q))
    BY <2>1, PutWithdrawals DEF c
  <2>4. s = Sql!Ok(Put(b, id, q))
    BY <1>3, SqlUpdateIs
  <2> HIDE DEF s
  <2>5. Agree(op, "withdrawals", a, b, m, s)
    BY <1>2, <1>3, <2>2, <2>3, <2>4, WithdrawalTable, OkAgrees
  <2>6. QED
    BY <2>5 DEF m, s
<1>4. CASE id \notin DOMAIN a.rows
  <2>1. WithdrawalsOwn(d)
    BY FewerOwn DEF d
  <2>2. s = Sql!Ok(b)
    BY <1>4, SqlUpdateIs
  <2> HIDE DEF s
  <2>3. Agree(op, "withdrawals", a, b, m, s)
    BY <1>2, <1>4, <2>1, <2>2, WithdrawalTable, OnlySqlTakes
  <2>4. QED
    BY <2>3 DEF m, s
<1>5. QED
  BY <1>3, <1>4

LEMMA FieldsAgree ==
  ASSUME NEW a, NEW b, WithdrawalsOwn(a), SameWithdrawals(a, b), NEW id
  PROVE  /\ Agree("UpdateWithdrawalNonce", "withdrawals", a, b,
                  Mem!UpdateWithdrawalNonce(a, id, 0), Sql!UpdateWithdrawalNonce(b, id, 0))
         /\ Agree("UpdateWithdrawalOutpoints", "withdrawals", a, b,
                  Mem!UpdateWithdrawalOutpoints(a, id, {1}),
                  Sql!UpdateWithdrawalOutpoints(b, id, {1}))
         /\ Agree("UpdateWithdrawalSignedTx", "withdrawals", a, b,
                  Mem!UpdateWithdrawalSignedTx(a, id, "bytes"),
                  Sql!UpdateWithdrawalSignedTx(b, id, "bytes"))
<1>1. id \in DOMAIN a.rows => a.rows[id] \in WithdrawalRow /\ b[id] = Amounts(a.rows[id])
  BY SqlUpdateIs DEF WithdrawalsOwn
<1>2. Agree("UpdateWithdrawalNonce", "withdrawals", a, b,
            Mem!UpdateWithdrawalNonce(a, id, 0), Sql!UpdateWithdrawalNonce(b, id, 0))
  <2> DEFINE op == "UpdateWithdrawalNonce"
             p == [a.rows[id] EXCEPT !.nonce = 0]
             q == [b[id] EXCEPT !.nonce = 0]
  <2>1. op \in StricterMem
    BY DEF StricterMem
  <2>2. id \in DOMAIN a.rows => Updated(a.rows[id], p, q) /\ p.state = a.rows[id].state
    BY <1>1, NonceUpdated
  <2> HIDE DEF op, p, q
  <2>3. Agree(op, "withdrawals", a, b, Mem!UpdateWithdrawal(a, id, p), Sql!Update(b, id, q))
    BY <2>1, <2>2, FieldAgrees, ZenonT(30)
  <2>4. QED
    BY <2>3 DEF op, p, q, Mem!UpdateWithdrawalNonce, Sql!UpdateWithdrawalNonce
<1>3. Agree("UpdateWithdrawalOutpoints", "withdrawals", a, b,
            Mem!UpdateWithdrawalOutpoints(a, id, {1}), Sql!UpdateWithdrawalOutpoints(b, id, {1}))
  <2> DEFINE op == "UpdateWithdrawalOutpoints"
             p == [a.rows[id] EXCEPT !.outpoints = {1}]
             q == [b[id] EXCEPT !.outpoints = {1}]
  <2>1. op \in StricterMem
    BY DEF StricterMem
  <2>2. id \in DOMAIN a.rows => Updated(a.rows[id], p, q) /\ p.state = a.rows[id].state
    BY <1>1, OutpointsUpdated
  <2> HIDE DEF op, p, q
  <2>3. Agree(op, "withdrawals", a, b, Mem!UpdateWithdrawal(a, id, p), Sql!Update(b, id, q))
    BY <2>1, <2>2, FieldAgrees, ZenonT(30)
  <2>4. QED
    BY <2>3 DEF op, p, q, Mem!UpdateWithdrawalOutpoints, Sql!UpdateWithdrawalOutpoints
<1>4. Agree("UpdateWithdrawalSignedTx", "withdrawals", a, b,
            Mem!UpdateWithdrawalSignedTx(a, id, "bytes"),
            Sql!UpdateWithdrawalSignedTx(b, id, "bytes"))
  <2> DEFINE op == "UpdateWithdrawalSignedTx"
             p == [a.rows[id] EXCEPT !.signed = "bytes"]
             q == [b[id] EXCEPT !.signed = "bytes"]
  <2>1. op \in StricterMem
    BY DEF StricterMem
  <2>2. id \in DOMAIN a.rows => Updated(a.rows[id], p, q) /\ p.state = a.rows[id].state
    BY <1>1, SignedTxUpdated
  <2> HIDE DEF op, p, q
  <2>3. Agree(op, "withdrawals", a, b, Mem!UpdateWithdrawal(a, id, p), Sql!Update(b, id, q))
    BY <2>1, <2>2, FieldAgrees
  <2>4. QED
    BY <2>3 DEF op, p, q, Mem!UpdateWithdrawalSignedTx, Sql!UpdateWithdrawalSignedTx
<1>5. QED
  BY <1>2, <1>3, <1>4

(* PostgreSQL may refuse a state that the in-memory store takes, since its *)
(* index covers every write.                                               *)
LEMMA StateStep ==
  ASSUME NEW a, NEW b, WithdrawalsOwn(a), SameWithdrawals(a, b), NEW id, NEW p, NEW q,
         NEW z, z \subseteq a.inflight,
         id \in DOMAIN a.rows =>
           Updated(a.rows[id], p, q) /\ (Sql!InFlight(p) \/ a.rows[id].amount \notin z),
         NEW op, op \in StricterMem, op \in StricterSql,
         NEW m, m = Mem!UpdateWithdrawal([a EXCEPT !.inflight = z], id, p),
         NEW s, \/ s = Sql!Ok(Sql!Update(b, id, q).t)
                \/ id \in DOMAIN b /\ s = Sql!Fail(b, "error")
  PROVE  Agree(op, "withdrawals", a, b, m, s)
<1> DEFINE c == [rows |-> Put(a.rows, id, p), inflight |-> z]
           d == [rows |-> a.rows, inflight |-> z]
<1>1. /\ id \in DOMAIN a.rows => m = Mem!Ok(c)
      /\ id \notin DOMAIN a.rows => m = Mem!Fail(d, "missing")
  BY MemUpdateIs
<1>2. DOMAIN b = DOMAIN a.rows
  BY SqlUpdateIs
<1>3. \A u : Sql!Ok(Sql!Ok(u).t) = Sql!Ok(u)
  BY DEF Sql!Ok
<1>4. CASE id \in DOMAIN a.rows
  <2>1. p \in WithdrawalRow /\ p.amount = a.rows[id].amount /\ q = Amounts(p)
    BY <1>4 DEF Updated
  <2>2. WithdrawalsOwn(c)
    BY <1>4, <2>1, UpdateOwn
  <2>3. SameWithdrawals(c, Put(b, id, q))
    BY <2>1, PutWithdrawals
  <2> HIDE DEF c
  <2>4. CASE s = Sql!Ok(Sql!Update(b, id, q).t)
    <3>1. Sql!Update(b, id, q) = Sql!Ok(Put(b, id, q))
      BY <1>4, SqlUpdateIs
    <3>2. s = Sql!Ok(Put(b, id, q))
      BY <1>3, <2>4, <3>1, Zenon
    <3>3. QED
      BY <1>1, <1>4, <2>2, <2>3, <3>2, WithdrawalTable, OkAgrees
  <2>5. CASE s = Sql!Fail(b, "error")
    BY <1>1, <1>4, <2>2, <2>5, WithdrawalTable, OnlyMemTakes
  <2>6. QED
    BY <2>4, <2>5
<1>5. CASE id \notin DOMAIN a.rows
  <2>1. WithdrawalsOwn(d)
    BY FewerOwn
  <2> HIDE DEF d
  <2>2. s = Sql!Ok(Sql!Update(b, id, q).t)
    BY <1>2, <1>5
  <2>3. QED
    BY <1>1, <1>5, <2>1, <2>2, WithdrawalTable, OnlySqlTakes
<1>6. QED
  BY <1>4, <1>5

LEMMA StateAgrees ==
  ASSUME NEW a, NEW b, WithdrawalsOwn(a), SameWithdrawals(a, b), NEW id,
         NEW st \in WithdrawalStates, NEW h \in {"", "hash"}
  PROVE  Agree("UpdateWithdrawalState", "withdrawals", a, b,
               Mem!UpdateWithdrawalState(a, id, st, h), Sql!UpdateWithdrawalState(b, id, st, h))
<1> DEFINE op == "UpdateWithdrawalState"
           x == a.rows[id]
           free == IF id \in DOMAIN a.rows /\ st \in {"CONFIRMED", "FAILED"} THEN {x.amount} ELSE {}
           z == a.inflight \ free
           p == [x EXCEPT !.state = st, !.tx = IF h = "" THEN @ ELSE h]
           y == b[id]
           q == [y EXCEPT !.state = st, !.tx = IF h = "" THEN @ ELSE h]
           m == Mem!UpdateWithdrawalState(a, id, st, h)
           s == Sql!UpdateWithdrawalState(b, id, st, h)
<1>1. m = Mem!UpdateWithdrawal([a EXCEPT !.inflight = z], id, p)
  BY DEF Mem!UpdateWithdrawalState, Mem!Payment
<1>2. \/ s = Sql!Ok(Sql!Update(b, id, q).t)
      \/ id \in DOMAIN b /\ s = Sql!Fail(b, "error")
  BY DEF Sql!UpdateWithdrawalState
<1>3. id \in DOMAIN a.rows => y = Amounts(x) /\ x \in WithdrawalRow
  BY DEF SameWithdrawals, WithdrawalsOwn
<1>4. /\ z \subseteq a.inflight
      /\ id \in DOMAIN a.rows /\ st \in {"CONFIRMED", "FAILED"} => x.amount \notin z
  BY ZenonT(30)
<1>5. op \in StricterMem /\ op \in StricterSql
  BY ZenonT(30) DEF StricterMem, StricterSql
<1> HIDE DEF op, x, y, free, z, m, s
<1>6. id \in DOMAIN a.rows => Updated(x, p, q) /\ p.state = st
  BY <1>3, StateUpdated, ZenonT(30)
<1> HIDE DEF p, q
<1>7. id \in DOMAIN a.rows => Sql!InFlight(p) \/ x.amount \notin z
  BY <1>4, <1>6 DEF Sql!InFlight, WithdrawalStates
<1>8. id \in DOMAIN a.rows =>
        Updated(a.rows[id], p, q) /\ (Sql!InFlight(p) \/ a.rows[id].amount \notin z)
  BY <1>6, <1>7 DEF x
<1>9. z \subseteq a.inflight
  BY <1>4
<1>10. Agree(op, "withdrawals", a, b, m, s)
  BY <1>1, <1>2, <1>5, <1>8, <1>9, StateStep, ZenonT(30)
<1>11. QED
  BY <1>10 DEF op, m, s

(* A payment the in-memory store refuses as a duplicate has a row in       *)
(* flight, which PostgreSQL finds as well.                                 *)
LEMMA CreateAgrees ==
  ASSUME NEW a, NEW b, WithdrawalsOwn(a), SameWithdrawals(a, b), NEW id,
         NEW row \in WithdrawalRow, row.state = "PENDING"
  PROVE  Agree("CreateWithdrawal", "withdrawals", a, b,
               Mem!CreateWithdrawal(a, id, row), Sql!CreateWithdrawal(b, id, row))
<1> DEFINE op == "CreateWithdrawal"
           new == Amounts(row)
           conflicts == {r \in Sql!Range(b) : Sql!InFlight(r) /\ Sql!InFlight(new)
                                              /\ r.amount = new.amount}
           m == Mem!CreateWithdrawal(a, id, row)
           s == Sql!CreateWithdrawal(b, id, row)
           z == a.inflight \cup {row.amount}
<1>1. s = IF ~IsNumeric(row.amount) THEN Sql!Fail(b, "error")
          ELSE Sql!Insert(b, id, new, conflicts)
  BY DEF Sql!CreateWithdrawal, Amounts
<1>2. DOMAIN b = DOMAIN a.rows /\ \A i \in DOMAIN b : b[i] = Amounts(a.rows[i])
  BY DEF SameWithdrawals
<1>3. m = IF id \in DOMAIN a.rows THEN Mem!Fail(a, "error")
          ELSE IF row.amount \in a.inflight THEN Mem!Fail(a, "duplicate")
          ELSE Mem!Ok([rows |-> Put(a.rows, id, row), inflight |-> z])
  BY DEF Mem!CreateWithdrawal, Mem!Payment, Mem!Put, Put
<1>4. new.amount = Canonical(row.amount) /\ new.state = "PENDING"
  BY AmountsIs
<1>5. ASSUME row.amount \in a.inflight PROVE conflicts # {}
  <2>1. PICK i \in DOMAIN a.rows : a.rows[i].amount = row.amount /\ Sql!InFlight(a.rows[i])
    BY <1>5 DEF WithdrawalsOwn, Backed
  <2>2. a.rows[i] \in WithdrawalRow
    BY DEF WithdrawalsOwn
  <2>3. b[i].amount = Canonical(row.amount) /\ b[i].state = a.rows[i].state /\ i \in DOMAIN b
    BY <1>2, <2>1, <2>2, AmountsIs
  <2> HIDE DEF new
  <2>4. Sql!InFlight(b[i]) /\ Sql!InFlight(new) /\ b[i].amount = new.amount /\ b[i] \in Sql!Range(b)
    BY <1>4, <2>1, <2>3 DEF Sql!InFlight, Sql!Range
  <2>5. QED
    BY <2>4
<1> HIDE DEF conflicts, m, s, z
<1>6. op \in StricterSql /\ OwnTable("withdrawals", a)
  BY WithdrawalTable DEF StricterSql
<1>7. CASE id \in DOMAIN a.rows
  <2>1. m = Mem!Fail(a, "error") /\ s = Sql!Fail(b, "error")
    BY <1>1, <1>2, <1>3, <1>7 DEF Sql!Insert
  <2>2. QED
    BY <1>6, <2>1, FailAgrees DEF m, s
<1>8. CASE id \notin DOMAIN a.rows /\ row.amount \in a.inflight
  <2>1. m = Mem!Fail(a, "duplicate") /\ s = Sql!Fail(b, "error")
    BY <1>1, <1>2, <1>3, <1>5, <1>8 DEF Sql!Insert
  <2>2. QED
    BY <1>6, <2>1, DuplicateAgrees DEF m, s
<1>9. CASE id \notin DOMAIN a.rows /\ row.amount \notin a.inflight
  <2> DEFINE c == [rows |-> Put(a.rows, id, row), inflight |-> z]
  <2>1. m = Mem!Ok(c)
    BY <1>3, <1>9
  <2>2. ASSUME NEW v \in z
        PROVE  \/ row.amount = v /\ Sql!InFlight(row)
               \/ \E i \in DOMAIN a.rows \ {id} : a.rows[i].amount = v /\ Sql!InFlight(a.rows[i])
    BY <1>9 DEF WithdrawalsOwn, Backed, Sql!InFlight, z
  <2>3. WithdrawalsOwn(c)
    BY <2>2, PutOwn
  <2>4. SameWithdrawals(c, Put(b, id, new))
    BY PutWithdrawals
  <2> HIDE DEF c, new, op
  <2>5. Agree(op, "withdrawals", a, b, m, s)
    <3>1. CASE id \in DOMAIN b \/ conflicts # {} \/ ~IsNumeric(row.amount)
      <4>1. s = Sql!Fail(b, "error")
        BY <1>1, <3>1 DEF Sql!Insert
      <4>2. QED
        BY <1>6, <2>1, <2>3, <4>1, WithdrawalTable, OnlyMemTakes
    <3>2. CASE ~(id \in DOMAIN b \/ conflicts # {} \/ ~IsNumeric(row.amount))
      <4>1. s = Sql!Ok(Put(b, id, new))
        BY <1>1, <3>2 DEF Sql!Insert, Sql!Put, Put
      <4>2. QED
        BY <2>1, <2>3, <2>4, <4>1, WithdrawalTable, OkAgrees
    <3>3. QED
      BY <3>1, <3>2
  <2>6. QED
    BY <2>5 DEF op, m, s
<1>10. QED
  BY <1>7, <1>8, <1>9

LEMMA ReadsAgree ==
  ASSUME NEW a, NEW b, WithdrawalsOwn(a), SameWithdrawals(a, b), NEW id, NEW st
  PROVE  /\ Agree("GetWithdrawal", "withdrawals", a, b,
                  Mem!GetWithdrawal(a, id), Sql!GetWithdrawal(b, id))
         /\ Agree("ListWithdrawals", "withdrawals", a, b,
                  Mem!ListWithdrawals(a, st), Sql!ListWithdrawals(b, st))
<1> DEFINE r == a.rows
<1>1. DOMAIN b = DOMAIN r /\ \A i \in DOMAIN r : r[i] \in WithdrawalRow /\ b[i] = Amounts(r[i])
  BY DEF SameWithdrawals, WithdrawalsOwn
<1> HIDE DEF r
<1>2. Agree("GetWithdrawal", "withdrawals", a, b,
            Mem!GetWithdrawal(a, id), Sql!GetWithdrawal(b, id))
  <2> DEFINE m == Mem!GetWithdrawal(a, id)
             s == Sql!GetWithdrawal(b, id)
  <2>1. CASE id \in DOMAIN r
    <3>1. m = Mem!OkWith(a, {r[id]}) /\ s = Sql!OkWith(b, {b[id]})
      <4>1. m = Mem!OkWith(a, {r[id]})
        BY <2>1 DEF Mem!GetWithdrawal, Mem!Get, Mem!OkWith, r
      <4>2. s = Sql!OkWith(b, {b[id]})
        BY <1>1, <2>1 DEF Sql!GetWithdrawal, Sql!Get
      <4>3. QED
        BY <4>1, <4>2
    <3>2. {Amounts(x) : x \in {r[id]}} = {b[id]}
      BY <1>1, <2>1
    <3>3. SameValues("GetWithdrawal", {r[id]}, {b[id]})
      BY <3>2 DEF SameValues
    <3> HIDE DEF m, s
    <3>4. QED
      BY <3>1, <3>3, WithdrawalTable, ValuesAgree DEF m, s
  <2>2. CASE id \notin DOMAIN r
    <3>1. m = Mem!Fail(a, "missing")
      BY <2>2 DEF Mem!GetWithdrawal, Mem!Get, Mem!Fail, r
    <3>2. s = Sql!Fail(b, "missing")
      BY <1>1, <2>2 DEF Sql!GetWithdrawal, Sql!Get
    <3> HIDE DEF m, s
    <3>3. QED
      BY <3>1, <3>2, WithdrawalTable, FailAgrees DEF m, s
  <2>3. QED
    BY <2>1, <2>2
<1>3. Agree("ListWithdrawals", "withdrawals", a, b,
            Mem!ListWithdrawals(a, st), Sql!ListWithdrawals(b, st))
  <2> DEFINE m == Mem!ListWithdrawals(a, st)
             s == Sql!ListWithdrawals(b, st)
             ids == {i \in DOMAIN r : st \in {"", r[i].state}}
             v == {<<i, r[i]>> : i \in ids}
             w == {<<i, b[i]>> : i \in ids}
  <2>1. m = Mem!OkWith(a, v)
    <3>1. m = [[t |-> r, r |-> [s |-> "ok", v |-> v]] EXCEPT !.t = a]
      BY DEF Mem!ListWithdrawals, Mem!List, Mem!OkWith, r
    <3> HIDE DEF v, m
    <3>2. QED
      BY <3>1 DEF Mem!OkWith
  <2>2. \A i \in DOMAIN r : b[i].state = r[i].state
    BY <1>1, AmountsIs
  <2>3. s = Sql!OkWith(b, w)
    <3>1. {i \in DOMAIN b : st \in {"", b[i].state}} = ids
      BY <1>1, <2>2
    <3> HIDE DEF ids
    <3>2. QED
      BY <3>1, ZenonT(30) DEF Sql!ListWithdrawals, Sql!List
  <2>4. \A i \in ids : b[i] = Amounts(r[i])
    BY <1>1, ZenonT(30)
  <2> HIDE DEF ids
  <2>5. {<<x[1], Amounts(x[2])>> : x \in v} = w
    <3>1. ASSUME NEW y \in w PROVE y \in {<<x[1], Amounts(x[2])>> : x \in v}
      <4>1. PICK i \in ids : y = <<i, b[i]>>
        OBVIOUS
      <4>2. <<i, r[i]>> \in v /\ <<i, r[i]>>[1] = i /\ <<i, r[i]>>[2] = r[i]
        OBVIOUS
      <4>3. QED
        BY <2>4, <4>1, <4>2, ZenonT(30)
    <3>2. ASSUME NEW x \in v PROVE <<x[1], Amounts(x[2])>> \in w
      BY <2>4
    <3>3. QED
      BY <3>1, <3>2
  <2> HIDE DEF v, w
  <2>6. SameValues("ListWithdrawals", v, w)
    BY <2>5 DEF SameValues
  <2> HIDE DEF m, s
  <2>7. QED
    BY <2>1, <2>3, <2>6, WithdrawalTable, ValuesAgree DEF m, s
<1>4. QED
  BY <1>2, <1>3

-----------------------------------------------------------------------------
(* The tables a call finds.                                                *)
LEMMA Tables ==
  ASSUME StoreInv, ~Diverged
  PROVE  /\ sql.wallets = mem.wallets /\ sql.addresses = mem.addresses
         /\ sql.events = mem.events /\ sql.utxos = mem.utxos
         /\ sql.keys = mem.keys /\ sql.funding = mem.funding
         /\ sql.audit = mem.audit /\ sql.seq = mem.seq
         /\ SameNonces(mem.nonces, sql.nonces)
         /\ SameWithdrawals(mem.withdrawals, sql.withdrawals)
         /\ SameBalances(mem.balances, sql.balances) /\ BalancesOwn(mem.balances)
         /\ WithdrawalsOwn(mem.withdrawals) /\ KeysOwn(mem.keys) /\ now \in Nat
<1>1. /\ \A f \in Names : OwnTable(f, mem[f]) /\ SameTable(f, mem[f], sql[f])
      /\ now \in Nat
  BY DEF StoreInv, Own, Same
<1>2. QED
  BY <1>1 DEF Names, OwnTable, SameTable

Good(op, f, m, s) == ~Diverged => Agree(op, f, mem[f], sql[f], m, s)

LEMMA GoodCall ==
  ASSUME StoreInv, focus # "tx", NEW op, NEW f \in Names, NEW m, NEW s,
         Good(op, f, m, s), Call(op, f, m, s)
  PROVE  StoreInv'
<1>1. ~Diverged
  BY DEF Call
<1>2. Agree(op, f, mem[f], sql[f], m, s) /\ tx = {}
  BY <1>1 DEF Good, StoreInv
<1>3. QED
  BY <1>2, CallStep

LEMMA WalletsNext ==
  ASSUME StoreInv, WalletCalls
  PROVE  StoreInv'
<1>1. focus # "tx" /\ "wallets" \in Names
  BY DEF WalletCalls, Names
<1>2. ASSUME NEW id, NEW row, NEW st
      PROVE  /\ Good("CreateWallet", "wallets", Mem!CreateWallet(mem.wallets, id, row),
                                                Sql!CreateWallet(sql.wallets, id, row))
             /\ Good("GetWallet", "wallets", Mem!GetWallet(mem.wallets, id),
                                             Sql!GetWallet(sql.wallets, id))
             /\ Good("UpdateWalletState", "wallets", Mem!UpdateWalletState(mem.wallets, id, st),
                                                     Sql!UpdateWalletState(sql.wallets, id, st))
             /\ Good("ListWallets", "wallets", Mem!ListWallets(mem.wallets, st),
                                               Sql!ListWallets(sql.wallets, st))
  <2> DEFINE t == mem.wallets
  <2>1. ~Diverged => sql.wallets = t /\ mem["wallets"] = t /\ sql["wallets"] = t
    BY Tables
  <2> HIDE DEF t
  <2>2. QED
    BY <2>1, WalletsAgree, ZenonT(30) DEF Good, t
<1>3. QED
  BY <1>1, <1>2, GoodCall, ZenonT(30) DEF WalletCalls

LEMMA AddressesNext ==
  ASSUME StoreInv, AddressCalls
  PROVE  StoreInv'
<1>1. focus # "tx" /\ "addresses" \in Names
  BY ZenonT(30) DEF AddressCalls, Names
<1>2. ASSUME NEW id, NEW row, NEW w
      PROVE  /\ Good("InsertAddress", "addresses", Mem!InsertAddress(mem.addresses, id, row),
                                                   Sql!InsertAddress(sql.addresses, id, row))
             /\ Good("DeprecateAddress", "addresses", Mem!DeprecateAddress(mem.addresses, id),
                                                      Sql!DeprecateAddress(sql.addresses, id))
             /\ Good("GetAddress", "addresses", Mem!GetAddress(mem.addresses, id),
                                                Sql!GetAddress(sql.addresses, id))
             /\ Good("IncrementReceiveCount", "addresses",
                     Mem!IncrementReceiveCount(mem.addresses, id),
                     Sql!IncrementReceiveCount(sql.addresses, id))
             /\ Good("GetActiveAddress", "addresses", Mem!GetActiveAddress(mem.addresses, w),
                                                      Sql!GetActiveAddress(sql.addresses, w))
             /\ Good("ListAddresses", "addresses", Mem!ListAddresses(mem.addresses, w),
                                                   Sql!ListAddresses(sql.addresses, w))
             /\ Good("NextAddressIndex", "addresses", Mem!NextAddressIndex(mem.addresses),
                                                      Sql!NextAddressIndex(sql.addresses))
  <2> DEFINE t == mem.addresses
  <2>1. ~Diverged => sql.addresses = t /\ mem["addresses"] = t /\ sql["addresses"] = t
    BY Tables
  <2> HIDE DEF t
  <2>2. QED
    BY <2>1, AddressesAgree, ZenonT(30) DEF Good, t
<1>3. QED
  BY <1>1, <1>2, GoodCall, ZenonT(30) DEF AddressCalls

LEMMA UpsertGood ==
  ASSUME StoreInv, NEW id, NEW text \in Texts
  PROVE  Good("UpsertBalance", "balances", Mem!UpsertBalance(mem.balances, id, [amount |-> text]),
                                           Sql!UpsertBalance(sql.balances, id, [amount |-> text]))
<1> DEFINE a == mem.balances
           b == sql.balances
           row == [amount |-> text]
<1>1. /\ ~Diverged => SameBalances(a, b) /\ BalancesOwn(a)
      /\ mem["balances"] = a /\ sql["balances"] = b
  BY Tables
<1>2. row \in BalanceRow
  BY DEF BalanceRow
<1> HIDE DEF a, b, row
<1>3. QED
  BY <1>1, <1>2, UpsertAgrees DEF Good, a, b, row

LEMMA BalancesGood ==
  ASSUME StoreInv, NEW id
  PROVE  /\ Good("GetBalance", "balances", Mem!GetBalance(mem.balances, id),
                                           Sql!GetBalance(sql.balances, id))
         /\ Good("ListBalances", "balances", Mem!ListBalances(mem.balances),
                                             Sql!ListBalances(sql.balances))
<1> DEFINE a == mem.balances
           b == sql.balances
<1>1. /\ ~Diverged => SameBalances(a, b) /\ BalancesOwn(a)
      /\ mem["balances"] = a /\ sql["balances"] = b
  BY Tables
<1> HIDE DEF a, b
<1>2. QED
  BY <1>1, BalancesAgree DEF Good, a, b

LEMMA BalancesNext ==
  ASSUME StoreInv, BalanceCalls
  PROVE  StoreInv'
<1>1. focus # "tx" /\ "balances" \in Names /\ "events" \in Names
  BY DEF BalanceCalls, Names
<1>2. ASSUME NEW id
      PROVE  Good("RecordBalanceEvent", "events", Mem!RecordBalanceEvent(mem.events, id),
                                                  Sql!RecordBalanceEvent(sql.events, id))
  <2> DEFINE t == mem.events
  <2>1. ~Diverged => sql.events = t /\ mem["events"] = t /\ sql["events"] = t
    BY Tables
  <2> HIDE DEF t
  <2>2. QED
    BY <2>1, EventsAgree DEF Good, t
<1>3. QED
  BY <1>1, <1>2, UpsertGood, BalancesGood, GoodCall, ZenonT(30) DEF BalanceCalls, Upsert, ReadBalance

LEMMA OutpointsNext ==
  ASSUME StoreInv, UTXOCalls
  PROVE  StoreInv'
<1>1. focus # "tx" /\ "utxos" \in Names
  BY DEF UTXOCalls, Names
<1>2. ASSUME NEW o, NEW ops
      PROVE  /\ Good("InsertUTXO", "utxos", Mem!InsertUTXO(mem.utxos, o),
                                            Sql!InsertUTXO(sql.utxos, o))
             /\ Good("ListFreeUTXOs", "utxos", Mem!ListFreeUTXOs(mem.utxos),
                                               Sql!ListFreeUTXOs(sql.utxos))
             /\ Good("LockUTXOs", "utxos", Mem!LockUTXOs(mem.utxos, ops),
                                           Sql!LockUTXOs(sql.utxos, ops))
             /\ Good("MarkUTXOsSpent", "utxos", Mem!MarkUTXOsSpent(mem.utxos, ops),
                                                Sql!MarkUTXOsSpent(sql.utxos, ops))
             /\ Good("RestoreUTXOs", "utxos", Mem!RestoreUTXOs(mem.utxos, ops),
                                              Sql!RestoreUTXOs(sql.utxos, ops))
             /\ Good("PruneUTXOs", "utxos", Mem!PruneUTXOs(mem.utxos, ops),
                                            Sql!PruneUTXOs(sql.utxos, ops))
  <2> DEFINE t == mem.utxos
  <2>1. ~Diverged => sql.utxos = t /\ mem["utxos"] = t /\ sql["utxos"] = t
    BY Tables, ZenonT(30)
  <2> HIDE DEF t
  <2>2. QED
    BY <2>1, OutpointsAgree, ZenonT(30) DEF Good, t
<1>3. QED
  BY <1>1, <1>2, GoodCall DEF UTXOCalls

LEMMA NoncesNext ==
  ASSUME StoreInv, NonceCalls
  PROVE  StoreInv'
<1> DEFINE a == mem.nonces
           b == sql.nonces
           row == [pending |-> 1, broadcast |-> 0, version |-> 0]
<1>1. focus # "tx" /\ "nonces" \in Names
  BY DEF NonceCalls, Names
<1>2. ~Diverged => SameNonces(a, b)
  BY Tables
<1>3. mem["nonces"] = a /\ sql["nonces"] = b /\ row \in NonceRow
  BY DEF NonceRow
<1> HIDE DEF a, b, row
<1>4. ASSUME NEW id, NEW n \in Int
      PROVE  /\ Good("GetNonce", "nonces", Mem!GetNonce(a, id), Sql!GetNonce(b, id))
             /\ Good("IncrementPendingNonce", "nonces", Mem!IncrementPendingNonce(a, id),
                                                        Sql!IncrementPendingNonce(b, id))
             /\ Good("UpsertNonce", "nonces", Mem!UpsertNonce(a, id, row),
                                              Sql!UpsertNonce(b, id, row))
             /\ id \in DOMAIN a =>
                  Good("AdvanceBroadcastNonce", "nonces", Mem!AdvanceBroadcastNonce(a, id, n),
                                                          Sql!AdvanceBroadcastNonce(b, id, n))
             /\ Good("RollbackPendingNonce", "nonces", Mem!RollbackPendingNonce(a, id, n),
                                                       Sql!RollbackPendingNonce(b, id, n))
  BY <1>2, <1>3, GetNonceAgrees, IncrementAgrees, UpsertNonceAgrees, AdvanceAgrees, RollbackAgrees
     DEF Good
<1>5. \A n \in 0..MaxCount : n \in Int
  OBVIOUS
<1>6. PICK id \in Ids :
        \/ Call("GetNonce", "nonces", Mem!GetNonce(a, id), Sql!GetNonce(b, id))
        \/ Call("IncrementPendingNonce", "nonces", Mem!IncrementPendingNonce(a, id),
                                                  Sql!IncrementPendingNonce(b, id))
        \/ Call("UpsertNonce", "nonces", Mem!UpsertNonce(a, id, row), Sql!UpsertNonce(b, id, row))
        \/ \E n \in 0..MaxCount :
             \/ /\ id \in DOMAIN a
                /\ Call("AdvanceBroadcastNonce", "nonces", Mem!AdvanceBroadcastNonce(a, id, n),
                                                           Sql!AdvanceBroadcastNonce(b, id, n))
             \/ Call("RollbackPendingNonce", "nonces", Mem!RollbackPendingNonce(a, id, n),
                                                      Sql!RollbackPendingNonce(b, id, n))
  BY ZenonT(30) DEF NonceCalls, a, b, row
<1>7. CASE \/ Call("GetNonce", "nonces", Mem!GetNonce(a, id), Sql!GetNonce(b, id))
           \/ Call("IncrementPendingNonce", "nonces", Mem!IncrementPendingNonce(a, id),
                                                     Sql!IncrementPendingNonce(b, id))
           \/ Call("UpsertNonce", "nonces", Mem!UpsertNonce(a, id, row),
                                           Sql!UpsertNonce(b, id, row))
  BY <1>1, <1>4, <1>7, GoodCall
<1>8. CASE \E n \in 0..MaxCount :
             \/ /\ id \in DOMAIN a
                /\ Call("AdvanceBroadcastNonce", "nonces", Mem!AdvanceBroadcastNonce(a, id, n),
                                                           Sql!AdvanceBroadcastNonce(b, id, n))
             \/ Call("RollbackPendingNonce", "nonces", Mem!RollbackPendingNonce(a, id, n),
                                                      Sql!RollbackPendingNonce(b, id, n))
  BY <1>1, <1>4, <1>5, <1>8, GoodCall
<1>9. QED
  BY <1>6, <1>7, <1>8

LEMMA WithdrawalsNext ==
  ASSUME StoreInv, WithdrawalCalls
  PROVE  StoreInv'
<1> DEFINE a == mem.withdrawals
           b == sql.withdrawals
           row(v) == [amount |-> v, state |-> "PENDING", tx |-> "", nonce |-> -1,
                      outpoints |-> {}, signed |-> ""]
           hash(st) == IF st = "BROADCAST" THEN "hash" ELSE ""
<1>1. focus # "tx" /\ "withdrawals" \in Names
  BY ZenonT(30) DEF WithdrawalCalls, Names
<1>2. ~Diverged => WithdrawalsOwn(a) /\ SameWithdrawals(a, b)
  BY Tables
<1>3. mem["withdrawals"] = a /\ sql["withdrawals"] = b
  OBVIOUS
<1>4. \A v \in Texts : row(v) \in WithdrawalRow /\ row(v).state = "PENDING"
  BY DEF WithdrawalRow, WithdrawalStates
<1>5. \A st : hash(st) \in {"", "hash"}
  OBVIOUS
<1> HIDE DEF a, b, row, hash
<1>6. ASSUME NEW id, NEW v \in Texts
      PROVE  Good("CreateWithdrawal", "withdrawals", Mem!CreateWithdrawal(a, id, row(v)),
                                                     Sql!CreateWithdrawal(b, id, row(v)))
  BY <1>2, <1>3, <1>4, CreateAgrees DEF Good
<1>7. ASSUME NEW id, NEW st \in WithdrawalStates
      PROVE  /\ Good("UpdateWithdrawalState", "withdrawals",
                     Mem!UpdateWithdrawalState(a, id, st, hash(st)),
                     Sql!UpdateWithdrawalState(b, id, st, hash(st)))
             /\ Good("ListWithdrawals", "withdrawals", Mem!ListWithdrawals(a, st),
                                                       Sql!ListWithdrawals(b, st))
  BY <1>2, <1>3, <1>5, StateAgrees, ReadsAgree, ZenonT(30) DEF Good
<1>8. ASSUME NEW id
      PROVE  /\ Good("GetWithdrawal", "withdrawals", Mem!GetWithdrawal(a, id),
                                                     Sql!GetWithdrawal(b, id))
             /\ Good("UpdateWithdrawalNonce", "withdrawals", Mem!UpdateWithdrawalNonce(a, id, 0),
                                                             Sql!UpdateWithdrawalNonce(b, id, 0))
             /\ Good("UpdateWithdrawalOutpoints", "withdrawals",
                     Mem!UpdateWithdrawalOutpoints(a, id, {1}),
                     Sql!UpdateWithdrawalOutpoints(b, id, {1}))
             /\ Good("UpdateWithdrawalSignedTx", "withdrawals",
                     Mem!UpdateWithdrawalSignedTx(a, id, "bytes"),
                     Sql!UpdateWithdrawalSignedTx(b, id, "bytes"))
  BY <1>2, <1>3, ReadsAgree, FieldsAgree DEF Good
<1>9. QED
  BY <1>1, <1>6, <1>7, <1>8, GoodCall, ZenonT(30) DEF WithdrawalCalls, a, b, row, hash

LEMMA KeysNext ==
  ASSUME StoreInv, KeyCalls
  PROVE  StoreInv'
<1> DEFINE t == mem.keys
<1>1. focus # "tx" /\ "keys" \in Names
  BY DEF KeyCalls, Names
<1>2. ~Diverged => /\ sql.keys = t /\ mem["keys"] = t /\ sql["keys"] = t
                   /\ KeysOwn(t) /\ now \in Nat
  BY Tables
<1> HIDE DEF t
<1>3. ASSUME NEW k
      PROVE  /\ Good("BindKeyMapping", "keys", Mem!BindKeyMapping(t, k, now),
                                               Sql!BindKeyMapping(sql.keys, k, now))
             /\ Good("RotateKeyMapping", "keys", Mem!RotateKeyMapping(t, k, now, Cooling),
                                                 Sql!RotateKeyMapping(sql.keys, k, now, Cooling))
             /\ Good("ResolveActiveKey", "keys", Mem!ResolveActiveKey(t),
                                                 Sql!ResolveActiveKey(sql.keys))
             /\ Good("ExpireCooling", "keys", Mem!ExpireCooling(t, now),
                                              Sql!ExpireCooling(sql.keys, now))
  BY <1>2, BindAgrees, RotateAgrees, ResolveAgrees, ExpireAgrees, ZenonT(30) DEF Good
<1>4. QED
  BY <1>1, <1>3, GoodCall DEF KeyCalls, t

LEMMA FundingNext ==
  ASSUME StoreInv, FundingCalls
  PROVE  StoreInv'
<1> DEFINE t == mem.funding
           row == [state |-> "REQUESTED", batch |-> ""]
<1>1. focus # "tx" /\ "funding" \in Names
  BY DEF FundingCalls, Names
<1>2. ~Diverged => sql.funding = t /\ mem["funding"] = t /\ sql["funding"] = t
  BY Tables
<1>3. row.state = "REQUESTED"
  OBVIOUS
<1> HIDE DEF t, row
<1>4. ASSUME NEW id, id \notin DOMAIN t
      PROVE  Good("CreateFundingRequest", "funding", Mem!CreateFundingRequest(t, id, row),
                                                     Sql!CreateFundingRequest(sql.funding, id, row))
  BY <1>2, <1>3, <1>4, NewFundingAgrees DEF Good
<1>5. ASSUME NEW id, NEW st, NEW c
      PROVE  /\ Good("GetOpenFundingRequest", "funding", Mem!GetOpenFundingRequest(t),
                                                         Sql!GetOpenFundingRequest(sql.funding))
             /\ Good("ListFundingRequests", "funding", Mem!ListFundingRequests(t, st),
                                                       Sql!ListFundingRequests(sql.funding, st))
             /\ Good("UpdateFundingState", "funding",
                     Mem!UpdateFundingState(t, id, st, c),
                     Sql!UpdateFundingState(sql.funding, id, st, c))
  BY <1>2, FundingAgrees DEF Good
<1>6. QED
  BY <1>1, <1>4, <1>5, GoodCall, ZenonT(30) DEF FundingCalls, t, row

(* Calls that are made inside a transaction too.                           *)
LEMMA GoodCallInTx ==
  ASSUME StoreInv, NEW op, NEW f \in Names, NEW m, NEW s,
         Good(op, f, m, s), AllOrNothing(mem[f], m), Call(op, f, m, s)
  PROVE  StoreInv'
<1>1. ~Diverged
  BY DEF Call
<1>2. Agree(op, f, mem[f], sql[f], m, s)
  BY <1>1 DEF Good
<1>3. QED
  BY <1>2, CallStep

LEMMA NextSeqStep ==
  ASSUME StoreInv, NextSeq
  PROVE  StoreInv'
<1> DEFINE t == mem.seq
<1>1. ~Diverged => sql.seq = t /\ mem["seq"] = t /\ sql["seq"] = t
  BY Tables
<1>2. "seq" \in Names /\ mem["seq"] = t
  BY DEF Names
<1> HIDE DEF t
<1>3. /\ Good("NextAuditSeq", "seq", Mem!NextAuditSeq(t), Sql!NextAuditSeq(sql.seq))
      /\ AllOrNothing(mem["seq"], Mem!NextAuditSeq(t))
  BY <1>1, <1>2, SequenceAgrees, InTxAllOrNothing DEF Good
<1>4. Call("NextAuditSeq", "seq", Mem!NextAuditSeq(t), Sql!NextAuditSeq(sql.seq))
  BY DEF NextSeq, t
<1>5. QED
  BY <1>2, <1>3, <1>4, GoodCallInTx

LEMMA AppendStep ==
  ASSUME StoreInv, NEW id, NEW e, AppendEvent(id, e)
  PROVE  StoreInv'
<1> DEFINE t == mem.audit
           row == [event |-> e, seq |-> id, delivered |-> FALSE, attempts |-> 0]
           m == Mem!AppendAuditEvent(t, id, row)
           s == Sql!AppendAuditEvent(sql.audit, id, row)
<1>1. ~Diverged => sql.audit = t /\ mem["audit"] = t /\ sql["audit"] = t
  BY Tables
<1>2. "audit" \in Names /\ mem["audit"] = t
  BY DEF Names
<1>3. id \notin DOMAIN t /\ Call("AppendAuditEvent", "audit", m, s)
  BY DEF AppendEvent
<1> HIDE DEF t, row
<1>4. Good("AppendAuditEvent", "audit", m, s) /\ AllOrNothing(mem["audit"], m)
  BY <1>1, <1>2, <1>3, NewEventAgrees DEF Good
<1>5. QED
  BY <1>2, <1>3, <1>4, GoodCallInTx

LEMMA AuditNext ==
  ASSUME StoreInv, AuditCalls
  PROVE  StoreInv'
<1> DEFINE t == mem.audit
<1>1. focus # "tx" /\ "audit" \in Names
  BY DEF AuditCalls, Names
<1>2. ~Diverged => sql.audit = t /\ mem["audit"] = t /\ sql["audit"] = t
  BY Tables
<1> HIDE DEF t
<1>3. ASSUME NEW id
      PROVE  Good("MarkAuditDelivered", "audit", Mem!MarkAuditDelivered(t, id),
                                                 Sql!MarkAuditDelivered(sql.audit, id))
  BY <1>2, AuditAgrees DEF Good
<1>4. ASSUME NEW limit \in Int
      PROVE  Good(IF limit > 0 THEN "ListUndeliveredAuditEvents" ELSE "ListWithoutLimit", "audit",
                  Mem!ListUndeliveredAuditEvents(t, limit),
                  Sql!ListUndeliveredAuditEvents(sql.audit, limit))
  <2>1. CASE limit > 0
    BY <1>2, <2>1, OutboxAgrees DEF Good
  <2>2. CASE ~(limit > 0)
    BY <1>2, <2>2, WithoutLimitAgrees DEF Good
  <2>3. QED
    BY <2>1, <2>2
<1>5. QED
  BY <1>1, <1>3, <1>4, GoodCall, NextSeqStep, AppendStep DEF AuditCalls, t

LEMMA InTxNext ==
  ASSUME StoreInv, TxCalls
  PROVE  StoreInv'
<1> DEFINE t == mem.balances
<1>1. "balances" \in Names /\ mem["balances"] = t
  BY DEF Names
<1> HIDE DEF t
<1>2. ASSUME NEW id, ReadBalance(id) PROVE StoreInv'
  <2>1. Good("GetBalance", "balances", Mem!GetBalance(t, id), Sql!GetBalance(sql.balances, id))
    BY BalancesGood DEF t
  <2>2. AllOrNothing(mem["balances"], Mem!GetBalance(t, id))
    BY <1>1, InTxAllOrNothing
  <2>3. Call("GetBalance", "balances", Mem!GetBalance(t, id), Sql!GetBalance(sql.balances, id))
    BY <1>2 DEF ReadBalance, t
  <2>4. QED
    BY <1>1, <2>1, <2>2, <2>3, GoodCallInTx
<1>3. ASSUME NEW id, NEW text \in Texts, Upsert(id, text) PROVE StoreInv'
  <2> DEFINE row == [amount |-> text]
             m == Mem!UpsertBalance(t, id, row)
             s == Sql!UpsertBalance(sql.balances, id, row)
  <2>1. Call("UpsertBalance", "balances", m, s)
    BY <1>3 DEF Upsert, t
  <2>2. Good("UpsertBalance", "balances", m, s)
    BY UpsertGood DEF t
  <2> HIDE DEF row
  <2>3. AllOrNothing(mem["balances"], m)
    BY <1>1, InTxAllOrNothing
  <2>4. QED
    BY <1>1, <2>1, <2>2, <2>3, GoodCallInTx
<1>4. QED
  BY <1>2, <1>3, NextSeqStep, AppendStep DEF TxCalls

-----------------------------------------------------------------------------
LEMMA QuietNext ==
  ASSUME StoreInv, now' \in Nat, UNCHANGED <<focus, mem, sql, last>>,
         tx' = tx \/ Begin
  PROVE  StoreInv'
<1>1. Diverged' = Diverged
  BY DEF Diverged
<1>2. CASE tx' = tx
  <2>1. KnownDifferences' = KnownDifferences
    BY <1>2 DEF KnownDifferences, Failed
  <2>2. QED
    BY <1>1, <1>2, <2>1 DEF StoreInv
<1>3. CASE Begin
  <2> DEFINE x == [mem |-> mem, sql |-> sql, failed |-> FALSE]
  <2>1. tx = {} /\ tx' = {x} /\ ~Diverged /\ focus = "tx"
    BY <1>3 DEF Begin
  <2>2. ~Failed
    BY <2>1 DEF Failed
  <2>3. x.mem = mem /\ x.sql = sql /\ x.failed = FALSE
    OBVIOUS
  <2>4. KnownDifferences'
    BY <2>2, ZenonT(30) DEF StoreInv, KnownDifferences
  <2>5. x = [mem |-> x.mem, sql |-> x.sql, failed |-> x.failed] /\ x.failed \in BOOLEAN
    OBVIOUS
  <2> HIDE DEF x
  <2>6. QED
    BY <1>1, <2>1, <2>3, <2>4, <2>5 DEF StoreInv
<1>4. QED
  BY <1>2, <1>3

LEMMA EndNext ==
  ASSUME StoreInv, Commit \/ Rollback
  PROVE  StoreInv'
<1>1. CASE Commit
  <2>1. PICK x \in tx :
          /\ ~Diverged /\ tx' = {}
          /\ sql' = IF x.failed THEN x.sql ELSE sql
          /\ last' = [op |-> "InTx", mem |-> Ok(0).r,
                      sql |-> IF x.failed THEN Fail(0, "error").r ELSE Ok(0).r]
          /\ UNCHANGED <<focus, mem, now>>
    BY <1>1 DEF Commit
  <2>2. x.failed \in BOOLEAN
    BY DEF StoreInv
  <2>3. CASE x.failed
    <3>1. last'.op = "InTx" /\ last'.mem.s = "ok" /\ last'.sql.s = "error"
      BY <2>1, <2>3 DEF Ok, Fail
    <3>2. Diverged' /\ KnownDifferences'
      BY <3>1 DEF Diverged, KnownDifferences
    <3>3. QED
      BY <2>1, <3>2 DEF StoreInv
  <2>4. CASE ~x.failed
    <3>1. sql' = sql /\ last'.mem = last'.sql
      BY <2>1, <2>4
    <3>2. KnownDifferences'
      BY <3>1 DEF KnownDifferences
    <3>3. QED
      BY <2>1, <3>1, <3>2 DEF StoreInv
  <2>5. QED
    BY <2>3, <2>4
<1>2. CASE Rollback
  <2>1. PICK x \in tx :
          /\ ~Diverged /\ tx' = {} /\ mem' = x.mem /\ sql' = x.sql
          /\ last' = [op |-> "InTx", mem |-> Fail(0, "error").r, sql |-> Fail(0, "error").r]
          /\ UNCHANGED <<focus, now>>
    BY <1>2 DEF Rollback
  <2>2. last'.mem = last'.sql
    BY <2>1
  <2>3. KnownDifferences'
    BY <2>2 DEF KnownDifferences
  <2>4. QED
    BY <2>1, <2>3 DEF StoreInv
<1>3. QED
  BY <1>1, <1>2

LEMMA StoreNext == StoreInv /\ [Next]_vars => StoreInv'
<1> SUFFICES ASSUME StoreInv, [Next]_vars PROVE StoreInv'
  OBVIOUS
<1>1. CASE UNCHANGED vars
  BY <1>1, QuietNext DEF vars, StoreInv
<1>2. CASE Tick
  <2>1. now' \in Nat
    BY <1>2 DEF Tick, StoreInv
  <2>2. QED
    BY <1>2, <2>1, QuietNext DEF Tick
<1>3. CASE Begin
  BY <1>3, QuietNext DEF Begin, StoreInv
<1>4. QED
  BY <1>1, <1>2, <1>3, WalletsNext, AddressesNext, BalancesNext, OutpointsNext, NoncesNext,
     WithdrawalsNext, KeysNext, FundingNext, AuditNext, InTxNext, EndNext DEF Next

-----------------------------------------------------------------------------
LEMMA InvShowsRows == StoreInv => SameRows
<1> SUFFICES ASSUME StoreInv, ~Diverged
             PROVE  View(mem, mem.withdrawals.rows) = View(sql, sql.withdrawals)
  BY DEF SameRows
<1> DEFINE r == mem.withdrawals.rows
           b == sql.withdrawals
           i == mem.nonces
           j == sql.nonces
           c == mem.balances
           d == sql.balances
<1>1. /\ mem = [f \in Names |-> mem[f]] /\ sql = [f \in Names |-> sql[f]]
      /\ \A f \in Names : SameTable(f, mem[f], sql[f])
  BY DEF StoreInv, Own, Same
<1>2. \A f \in Names \ {"nonces", "withdrawals", "balances"} : mem[f] = sql[f]
  BY <1>1 DEF SameTable
<1>3. /\ SameWithdrawals(mem.withdrawals, b) /\ WithdrawalsOwn(mem.withdrawals)
      /\ SameNonces(i, j) /\ SameBalances(c, d) /\ BalancesOwn(c)
  BY Tables
<1>4. DOMAIN b = DOMAIN r /\ \A k \in DOMAIN r : r[k] \in WithdrawalRow /\ b[k] = Amounts(r[k])
  BY <1>3 DEF SameWithdrawals, WithdrawalsOwn
<1> HIDE DEF r, b
<1>5. ASSUME NEW k \in DOMAIN r PROVE Amounts(r[k]) = Amounts(b[k])
  <2> DEFINE x == r[k]
             y == b[k]
             w == [y EXCEPT !.amount = Canonical(@)]
  <2>1. x \in WithdrawalRow /\ y = Amounts(x)
    BY <1>4
  <2> HIDE DEF x, y
  <2>2. SqlRow(x, y) /\ x.amount \in Texts
    BY <2>1, AmountsIs DEF SqlRow, WithdrawalRow
  <2>3. Canonical(y.amount) = y.amount
    BY <2>2, CanonicalAssumption DEF SqlRow
  <2>4. w = y
    BY <2>2, <2>3 DEF SqlRow, WithdrawalFields
  <2>5. QED
    BY <2>1, <2>4 DEF Amounts, x, y
<1>6. [k \in DOMAIN r |-> Amounts(r[k])] = [k \in DOMAIN b |-> Amounts(b[k])]
  BY <1>4, <1>5
<1>7. ASSUME NEW k \in DOMAIN i PROVE NoVersion(i[k]) = NoVersion(j[k]) /\ DOMAIN i = DOMAIN j
  <2> DEFINE x == i[k]
             y == j[k]
  <2>1. SameNonce(x, y) /\ DOMAIN i = DOMAIN j
    BY <1>3 DEF SameNonces, SameNonce
  <2> HIDE DEF x, y
  <2>2. NoVersion(x) = NoVersion(y)
    BY <2>1, VersionMoved, ZenonT(30) DEF SameNonce, NoVersion
  <2>3. QED
    BY <2>1, <2>2 DEF x, y
<1>8. [k \in DOMAIN i |-> NoVersion(i[k])] = [k \in DOMAIN j |-> NoVersion(j[k])]
  BY <1>3, <1>7 DEF SameNonces
<1>9. DOMAIN d = DOMAIN c /\ \A k \in DOMAIN c : c[k] \in BalanceRow /\ d[k] = Amounts(c[k])
  BY <1>3 DEF SameBalances, BalancesOwn
<1> HIDE DEF c, d
<1>10. ASSUME NEW k \in DOMAIN c PROVE Amounts(c[k]) = Amounts(d[k])
  <2>1. PICK text \in Texts : c[k] = [amount |-> text]
    BY <1>9 DEF BalanceRow
  <2>2. d[k] = [amount |-> Canonical(text)] /\ Amounts(c[k]) = d[k]
    BY <1>9, <2>1 DEF Amounts
  <2>3. Amounts(d[k]) = [amount |-> Canonical(Canonical(text))]
    BY <2>2 DEF Amounts
  <2>4. QED
    BY <2>2, <2>3, CanonicalAssumption
<1>11. [k \in DOMAIN c |-> Amounts(c[k])] = [k \in DOMAIN d |-> Amounts(d[k])]
  BY <1>9, <1>10
<1> DEFINE u == [k \in DOMAIN r |-> Amounts(r[k])]
           v == [k \in DOMAIN i |-> NoVersion(i[k])]
           w == [k \in DOMAIN c |-> Amounts(c[k])]
<1>12. /\ View(mem, r) = [mem EXCEPT !.withdrawals = u, !.balances = w, !.nonces = v]
       /\ View(sql, b) = [sql EXCEPT !.withdrawals = u, !.balances = w, !.nonces = v]
  BY <1>6, <1>8, <1>11, ZenonT(30) DEF View, c, d
<1> HIDE DEF u, v, w
<1>13. [mem EXCEPT !.withdrawals = u, !.balances = w, !.nonces = v]
         = [sql EXCEPT !.withdrawals = u, !.balances = w, !.nonces = v]
  BY <1>1, <1>2, ZenonT(30) DEF Names
<1>14. QED
  BY <1>12, <1>13 DEF r, b

LEMMA StoreInvariant == Spec => []StoreInv
  BY StoreInit, StoreNext, PTL DEF Spec

(* As long as the in-memory store of the tests and the PostgreSQL store    *)
(* take and refuse the same calls they hold the same rows, up to nonce     *)
(* versions and the spelling of amounts, also after a transaction that was *)
(* rolled back: for any ids, amounts and bounds.                           *)
THEOREM RowsAgree == Spec => []SameRows
  BY StoreInvariant, InvShowsRows, PTL

(* The stores answer a call differently only in the listed ways: what      *)
(* PostgreSQL constrains and the maps do not, rows that only the in-memory *)
(* store misses, duplicates, amounts that PostgreSQL spells with its       *)
(* decimals or refuses, lists without a positive limit, and the rest of a  *)
(* failed transaction.                                                     *)
THEOREM DifferencesKnown == Spec => []KnownDifferences
<1>1. StoreInv => KnownDifferences
  BY DEF StoreInv
<1>2. QED
  BY <1>1, StoreInvariant, PTL

(* A payment that CreateWithdrawal of the in-memory store refuses as one   *)
(* in flight has a row in flight.                                          *)
THEOREM InflightBacked == Spec => []InflightIsInFlight
<1>1. StoreInv => InflightIsInFlight
  <2> SUFFICES ASSUME StoreInv PROVE InflightIsInFlight
    OBVIOUS
  <2>1. OwnTable("withdrawals", mem["withdrawals"])
    BY DEF StoreInv, Own, Names
  <2>2. Backed(mem.withdrawals)
    BY <2>1 DEF OwnTable, WithdrawalsOwn
  <2>3. QED
    BY <2>2 DEF Backed, InflightIsInFlight
<1>2. QED
  BY <1>1, StoreInvariant, PTL
=============================================================================
