----------------------- MODULE WithdrawalResourceProofs ---------------------
(***************************************************************************)
(* Who holds the nonces and the outpoints of the wallet, when operations   *)
(* on one withdrawal do not overlap and nothing fails but what the code    *)
(* has a path for: the operation that works on a withdrawal, its SIGNED    *)
(* row while none does, or its transaction on the network.                 *)
(***************************************************************************)
EXTENDS WithdrawalProofs

Calm(e) == e.serial /\ e.faults \subseteq {"build", "reorg"}

(* Fail is not called on a withdrawal that was sent; on EVM, it is not     *)
(* called on one whose nonce was given back before.                        *)
NotAfterSend(e) == e.failFrom \subseteq {"PENDING", "WHITELISTED", "SIGNED"}
FailsOnce(e) == e.chain = "EVM" => e.failFrom \subseteq {"PENDING", "SIGNED"}

(* The operation on request i, Idle if there is none; hs is the table of   *)
(* workers.                                                                *)
Agent(hs, i) ==
  IF \E w \in Workers : hs[w].id = i THEN hs[CHOOSE w \in Workers : hs[w].id = i] ELSE Idle

NetOf(txs, i) == {t \in txs : t.id = i}

(* What operation r, or row q while no operation runs, holds.              *)
KeptOps(r, q) ==
  IF r.id = None THEN {o \in q.ops : q.state = "SIGNED"} ELSE {o \in r.ops : r.pc # "lock"}
KeptNonces(r, q) ==
  (IF r.id = None THEN {n \in {q.nonce} : q.state = "SIGNED"} ELSE {r.nonce}) \ {None}

(* ... and what it holds together with the transactions txs.               *)
OwnedOps(r, q, txs) == KeptOps(r, q) \cup UNION {t.ins : t \in txs}
OwnedNonces(r, q, txs) == KeptNonces(r, q) \cup ({t.nonce : t \in txs} \ {None})

(* The transaction of operation r is out, and the row does not say so yet. *)
Sending(r) == r.pc = "settle" \/ (r.pc = "save" /\ r.to = "BROADCAST")

(* Operation r, its row q and its transactions txs on the network.         *)
Sound(e, r, q, txs) ==
  /\ txs # {} => \/ Sending(r) \/ q.state \in {"BROADCAST", "CONFIRMED"}
                 \/ q.state = "FAILED" /\ ~NotAfterSend(e)
  /\ \A t, u \in txs : t = u
  /\ r.pc = "restore" => txs = {} /\ q.state # "SIGNED"
  /\ q.state \in {"ABSENT", "PENDING"} => q.nonce = None
  /\ FailsOnce(e) /\ r.pc = "undo" /\ r.nonce # None => q.state \in {"WHITELISTED", "SIGNED"}
  /\ r.pc \in {"insert", "check", "reserve"} \/ (r.pc = "save" /\ r.to # "SIGNED")
       => r.nonce = None /\ r.ops = {}

(* withdrawal_inflight_dedup, as a fact about the table.                   *)
Deduped(table) ==
  \A i, j \in Ids : i # j /\ Payment[i] = Payment[j] /\ table[i].state \in InFlight
                      => table[j].state \notin InFlight

Resting(hs) == \A w \in Workers : hs[w].pc \in {"idle", "setWallet"} => hs[w].id = None

OpsOf(hs, table, txs, i) == OwnedOps(Agent(hs, i), table[i], NetOf(txs, i))
NoncesOf(hs, table, txs, i) == OwnedNonces(Agent(hs, i), table[i], NetOf(txs, i))

AllSound(e, hs, table, txs) ==
  \A i \in Ids : Sound(e, Agent(hs, i), table[i], NetOf(txs, i))

(* No outpoint has two owners, and one with an owner is not FREE.          *)
OpsHeld(hs, table, txs, coins) ==
  /\ \A i, j \in Ids : i # j => OpsOf(hs, table, txs, i) \cap OpsOf(hs, table, txs, j) = {}
  /\ \A i \in Ids : \A o \in OpsOf(hs, table, txs, i) : coins[o] # "FREE"

(* No nonce has two owners, and one with an owner was handed out.          *)
NoncesHeld(hs, table, txs, pending) ==
  /\ \A i, j \in Ids :
       i # j => NoncesOf(hs, table, txs, i) \cap NoncesOf(hs, table, txs, j) = {}
  /\ \A i \in Ids : \A n \in NoncesOf(hs, table, txs, i) : n < pending

(* A LOCKED outpoint has an operation or a SIGNED row that holds it.       *)
LocksKept(hs, table, coins) ==
  \A o \in Outpoints : coins[o] = "LOCKED" => \E i \in Ids : o \in KeptOps(Agent(hs, i), table[i])

Held(e, hs, table, txs, coins, pending) ==
  /\ AllSound(e, hs, table, txs)
  /\ OpsHeld(hs, table, txs, coins)
  /\ FailsOnce(e) => NoncesHeld(hs, table, txs, pending)
  /\ "SIGNED" \notin e.failFrom => LocksKept(hs, table, coins)

Resources ==
  /\ Deduped(row)
  /\ Resting(h)
  /\ Calm(setting) => Held(setting, h, row, net, utxos, nonce.pending)

USE RequestAssumption

-----------------------------------------------------------------------------
(* The operation on a request is the only one.                             *)
LEMMA AgentIs ==
  ASSUME NEW hs, NEW w \in Workers, NEW i, hs[w].id = i,
         \A v \in Workers : v # w => hs[v].id # i
  PROVE  Agent(hs, i) = hs[w]
<1>1. (CHOOSE v \in Workers : hs[v].id = i) = w
  OBVIOUS
<1>2. QED
  BY <1>1 DEF Agent

LEMMA AgentIdle ==
  ASSUME NEW hs, NEW i, \A v \in Workers : hs[v].id # i
  PROVE  Agent(hs, i) = Idle
  BY DEF Agent

(* Other requests keep their operations.                                   *)
LEMMA AgentKept ==
  ASSUME NEW hs, NEW ks, NEW w \in Workers, NEW i, hs[w].id # i, ks[w].id # i,
         \A v \in Workers : v # w => ks[v] = hs[v],
         \A u, v \in Workers : u # v /\ hs[u].id = i => hs[v].id # i
  PROVE  Agent(ks, i) = Agent(hs, i)
<1>1. CASE \A v \in Workers : hs[v].id # i
  <2>1. \A v \in Workers : ks[v].id # i
    BY <1>1
  <2>2. QED
    BY <1>1, <2>1, AgentIdle
<1>2. ASSUME NEW v \in Workers, hs[v].id = i PROVE Agent(ks, i) = Agent(hs, i)
  <2>1. v # w /\ ks[v] = hs[v] /\ \A u \in Workers : u # v => hs[u].id # i
    BY <1>2
  <2>2. \A u \in Workers : u # v => ks[u].id # i
    BY <2>1
  <2>3. Agent(hs, i) = hs[v]
    BY <1>2, <2>1, AgentIs
  <2>4. Agent(ks, i) = ks[v]
    BY <1>2, <2>1, <2>2, AgentIs
  <2>5. QED
    BY <2>1, <2>3, <2>4
<1>3. QED
  BY <1>1, <1>2

LEMMA InitResources == Init => Resources
<1> SUFFICES ASSUME Init PROVE Resources
  OBVIOUS
<1>1. \A w \in Workers : h[w] = Idle
  BY DEF Init
<1>2. \A i \in Ids : row[i] = NoRow /\ NetOf(net, i) = {}
  BY DEF Init, NetOf
<1>3. \A i \in Ids : Agent(h, i) = Idle
  BY <1>1, AgentIdle DEF Idle
<1>4. Deduped(row) /\ Resting(h)
  BY <1>1, <1>2 DEF Deduped, Resting, NoRow, Idle, InFlight
<1>5. KeptOps(Idle, NoRow) = {} /\ OwnedOps(Idle, NoRow, {}) = {}
  BY DEF KeptOps, OwnedOps, Idle, NoRow
<1>6. OwnedNonces(Idle, NoRow, {}) = {}
  BY DEF KeptNonces, OwnedNonces, Idle, NoRow
<1>7. AllSound(setting, h, row, net)
  BY <1>2, <1>3 DEF AllSound, Sound, Idle, NoRow, Sending
<1>8. OpsHeld(h, row, net, utxos)
  BY <1>2, <1>3, <1>5 DEF OpsHeld, OpsOf
<1>9. NoncesHeld(h, row, net, nonce.pending)
  BY <1>2, <1>3, <1>6 DEF NoncesHeld, NoncesOf
<1>10. LocksKept(h, row, utxos)
  BY DEF Init, LocksKept
<1>11. QED
  BY <1>4, <1>7, <1>8, <1>9, <1>10 DEF Resources, Held

LEMMA OwnedTyped ==
  ASSUME NEW r \in Handler, NEW q \in Row, NEW txs, txs \subseteq Tx
  PROVE  OwnedOps(r, q, txs) \subseteq Outpoints /\ OwnedNonces(r, q, txs) \subseteq Nat
<1>1. r.ops \subseteq Outpoints /\ q.ops \subseteq Outpoints
  BY DEF Handler, Row
<1>2. \A t \in txs : t.ins \subseteq Outpoints /\ t.nonce \in Nat \cup {None}
  BY DEF Tx
<1>3. r.nonce \in Nat \cup {None} /\ q.nonce \in Nat \cup {None}
  BY DEF Handler, Row
<1>4. OwnedOps(r, q, txs) \subseteq Outpoints
  BY <1>1, <1>2 DEF OwnedOps, KeptOps
<1>5. OwnedNonces(r, q, txs) \subseteq Nat
  BY <1>2, <1>3 DEF OwnedNonces, KeptNonces
<1>6. QED
  BY <1>4, <1>5

LEMMA AgentTyped ==
  ASSUME IInv, NEW i \in Ids
  PROVE  Agent(h, i) \in Handler /\ row[i] \in Row /\ NetOf(net, i) \subseteq Tx
<1>1. h \in [Workers -> Handler] /\ row \in [Ids -> Row] /\ net \subseteq Tx
  BY DEF IInv, TypeOK
<1>2. QED
  BY <1>1, IdleCleared DEF Agent, NetOf

(* Worker w takes a step on request i and goes on as r; before the step,   *)
(* the operation on i was a.                                               *)
StepOn(w, i, r, a) ==
  /\ Become(w, r) /\ setting' = setting
  /\ \/ h[w].id = i /\ a = h[w]
     \/ h[w].id = None /\ a = Idle /\ \A v \in Workers : h[v].id # i
  /\ r.id = i \/ r = Idle
  /\ \A j \in Ids : j # i => row'[j] = row[j] /\ NetOf(net', j) = NetOf(net, j)

(* What it makes of the resources of i is all there is to look at.         *)
LEMMA LocalStep ==
  ASSUME IInv, IInv', Order, Resources, Calm(setting),
         NEW w \in Workers, NEW i \in Ids, NEW r, NEW a, StepOn(w, i, r, a),
         Sound(setting, r, row'[i], NetOf(net', i)),
         \A o \in OwnedOps(r, row'[i], NetOf(net', i)) :
           /\ o \in OwnedOps(a, row[i], NetOf(net, i)) \/ utxos[o] = "FREE"
           /\ utxos'[o] # "FREE",
         \A o \in Outpoints : utxos'[o] = "FREE" =>
           utxos[o] = "FREE" \/ o \in OwnedOps(a, row[i], NetOf(net, i)),
         "SIGNED" \notin setting.failFrom =>
           \A o \in Outpoints : utxos'[o] = "LOCKED" =>
             \/ o \in KeptOps(r, row'[i])
             \/ utxos[o] = "LOCKED" /\ o \notin KeptOps(a, row[i]),
         FailsOnce(setting) =>
           /\ \A n \in OwnedNonces(r, row'[i], NetOf(net', i)) :
                /\ n \in OwnedNonces(a, row[i], NetOf(net, i)) \/ n = nonce.pending
                /\ n < nonce'.pending
           /\ \/ nonce'.pending >= nonce.pending
              \/ /\ nonce.pending = nonce'.pending + 1
                 /\ nonce'.pending \in OwnedNonces(a, row[i], NetOf(net, i))
  PROVE  Held(setting, h', row', net', utxos', nonce'.pending)
<1>0. /\ \/ h[w].id = i /\ a = h[w]
         \/ h[w].id = None /\ a = Idle /\ \A v \in Workers : h[v].id # i
      /\ r.id = i \/ r = Idle
      /\ \A j \in Ids : j # i => row'[j] = row[j] /\ NetOf(net', j) = NetOf(net, j)
  BY DEF StepOn
<1>1. \A v \in Workers : h'[v] = IF v = w THEN r ELSE h[v]
  BY DEF StepOn, Become, IInv, TypeOK
<1>2. \A u, v \in Workers : u # v /\ h[u].id = h[v].id => h[u].id = None
  BY DEF Order, InOrder, Calm
<1>3. Agent(h, i) = a
  <2>1. CASE h[w].id = i /\ a = h[w]
    BY <1>2, <2>1, AgentIs
  <2>2. CASE a = Idle /\ \A v \in Workers : h[v].id # i
    BY <2>2, AgentIdle
  <2>3. QED
    BY <1>0, <2>1, <2>2
<1>4. \A v \in Workers : v # w => h'[v].id # i
  BY <1>0, <1>1, <1>2
<1>5. Agent(h', i) = r
  <2>1. CASE r.id = i
    BY <1>1, <1>4, <2>1, AgentIs
  <2>2. CASE r.id # i
    BY <1>0, <1>1, <1>4, <2>2, AgentIdle
  <2>3. QED
    BY <2>1, <2>2
<1>6. ASSUME NEW j \in Ids, j # i PROVE Agent(h', j) = Agent(h, j)
  <2>1. h[w].id # j /\ h'[w].id # j
    BY <1>0, <1>1, <1>6 DEF Idle
  <2>2. \A v \in Workers : v # w => h'[v] = h[v]
    BY <1>1
  <2>3. \A u, v \in Workers : u # v /\ h[u].id = j => h[v].id # j
    BY <1>2
  <2>4. QED
    BY <2>1, <2>2, <2>3, AgentKept
<1>7. Held(setting, h, row, net, utxos, nonce.pending)
  BY DEF Resources
<1>8. AllSound(setting, h', row', net')
  BY <1>0, <1>5, <1>6, <1>7 DEF Held, AllSound
<1>9. OpsHeld(h', row', net', utxos')
  <2> DEFINE was(j) == OpsOf(h, row, net, j)
             is(j) == OpsOf(h', row', net', j)
  <2>1. \A j \in Ids : j # i => is(j) = was(j)
    BY <1>0, <1>6 DEF OpsOf
  <2>2. /\ was(i) = OwnedOps(a, row[i], NetOf(net, i))
        /\ is(i) = OwnedOps(r, row'[i], NetOf(net', i))
    BY <1>3, <1>5 DEF OpsOf
  <2>3. \A j \in Ids : was(j) \subseteq Outpoints
    BY AgentTyped, OwnedTyped DEF OpsOf
  <2>4. /\ \A j, k \in Ids : j # k => was(j) \cap was(k) = {}
        /\ \A j \in Ids : \A o \in was(j) : utxos[o] # "FREE"
    BY <1>7 DEF Held, OpsHeld
  <2> HIDE DEF was, is
  <2>5. \A j \in Ids : j # i => is(i) \cap is(j) = {}
    BY <2>1, <2>2, <2>4
  <2>6. \A j, k \in Ids : j # k => is(j) \cap is(k) = {}
    BY <2>1, <2>4, <2>5
  <2>7. \A j \in Ids : \A o \in is(j) : utxos'[o] # "FREE"
    BY <2>1, <2>2, <2>3, <2>4
  <2>8. QED
    BY <2>6, <2>7 DEF is, OpsHeld
<1>10. ASSUME FailsOnce(setting) PROVE NoncesHeld(h', row', net', nonce'.pending)
  <2> DEFINE was(j) == NoncesOf(h, row, net, j)
             is(j) == NoncesOf(h', row', net', j)
  <2>1. \A j \in Ids : j # i => is(j) = was(j)
    BY <1>0, <1>6 DEF NoncesOf
  <2>2. /\ was(i) = OwnedNonces(a, row[i], NetOf(net, i))
        /\ is(i) = OwnedNonces(r, row'[i], NetOf(net', i))
    BY <1>3, <1>5 DEF NoncesOf
  <2>3. \A j \in Ids : was(j) \subseteq Nat
    BY AgentTyped, OwnedTyped DEF NoncesOf
  <2>4. /\ \A j, k \in Ids : j # k => was(j) \cap was(k) = {}
        /\ \A j \in Ids : \A n \in was(j) : n < nonce.pending
    BY <1>7, <1>10 DEF Held, NoncesHeld
  <2>5. nonce.pending \in Nat /\ nonce'.pending \in Nat
    BY DEF IInv, TypeOK, NonceRow
  <2> HIDE DEF was, is
  <2>6. \A j \in Ids : j # i => is(i) \cap is(j) = {}
    BY <1>10, <2>1, <2>2, <2>3, <2>4, <2>5
  <2>7. \A j, k \in Ids : j # k => is(j) \cap is(k) = {}
    BY <2>1, <2>4, <2>6
  <2>8. ASSUME NEW j \in Ids, NEW n \in is(j) PROVE n < nonce'.pending
    <3>1. CASE j = i
      BY <1>10, <2>2, <2>8, <3>1
    <3>2. CASE j # i
      <4>1. n \in Nat /\ n < nonce.pending /\ n \notin was(i)
        BY <2>1, <2>3, <2>4, <2>8, <3>2
      <4>2. QED
        BY <1>10, <2>2, <2>5, <4>1
    <3>3. QED
      BY <3>1, <3>2
  <2>9. QED
    BY <2>7, <2>8 DEF is, NoncesHeld
<1>11. ASSUME "SIGNED" \notin setting.failFrom PROVE LocksKept(h', row', utxos')
  <2> SUFFICES ASSUME NEW o \in Outpoints, utxos'[o] = "LOCKED"
               PROVE  \E j \in Ids : o \in KeptOps(Agent(h', j), row'[j])
    BY DEF LocksKept
  <2>1. CASE o \in KeptOps(r, row'[i])
    BY <1>5, <2>1
  <2>2. CASE utxos[o] = "LOCKED" /\ o \notin KeptOps(a, row[i])
    <3>1. PICK j \in Ids : o \in KeptOps(Agent(h, j), row[j])
      BY <1>7, <1>11, <2>2 DEF Held, LocksKept
    <3>2. j # i
      BY <1>3, <2>2, <3>1
    <3>3. QED
      BY <1>0, <1>6, <3>1, <3>2
  <2>3. QED
    BY <1>11, <2>1, <2>2
<1>12. QED
  BY <1>8, <1>9, <1>10, <1>11 DEF Held

(* A step that leaves the tables nonces and utxos and the network alone.   *)
LEMMA QuietStep ==
  ASSUME IInv, IInv', Order, Resources, Calm(setting),
         NEW w \in Workers, NEW i \in Ids, NEW r, NEW a, StepOn(w, i, r, a),
         net' = net, utxos' = utxos, nonce'.pending = nonce.pending,
         Sound(setting, r, row'[i], NetOf(net, i)),
         KeptOps(r, row'[i]) \subseteq KeptOps(a, row[i]),
         "SIGNED" \notin setting.failFrom => KeptOps(a, row[i]) \subseteq KeptOps(r, row'[i]),
         FailsOnce(setting) => KeptNonces(r, row'[i]) \subseteq KeptNonces(a, row[i])
  PROVE  Held(setting, h', row', net', utxos', nonce'.pending)
<1> DEFINE txs == NetOf(net, i)
<1>1. NetOf(net', i) = txs
  OBVIOUS
<1>2. OwnedOps(r, row'[i], txs) \subseteq OwnedOps(a, row[i], txs)
  BY DEF OwnedOps
<1>3. FailsOnce(setting) => OwnedNonces(r, row'[i], txs) \subseteq OwnedNonces(a, row[i], txs)
  BY DEF OwnedNonces
<1>4. Agent(h, i) = a
  <2>1. \A u, v \in Workers : u # v /\ h[u].id = h[v].id => h[u].id = None
    BY DEF Order, InOrder, Calm
  <2>2. CASE h[w].id = i /\ a = h[w]
    BY <2>1, <2>2, AgentIs
  <2>3. CASE a = Idle /\ \A v \in Workers : h[v].id # i
    BY <2>3, AgentIdle
  <2>4. QED
    BY <2>2, <2>3 DEF StepOn
<1>5. \A o \in OwnedOps(a, row[i], txs) : utxos[o] # "FREE"
  BY <1>4 DEF Resources, Held, OpsHeld, OpsOf
<1>6. FailsOnce(setting) => \A n \in OwnedNonces(a, row[i], txs) : n < nonce.pending
  BY <1>4 DEF Resources, Held, NoncesHeld, NoncesOf
<1>7. nonce.pending \in Nat
  BY DEF IInv, TypeOK, NonceRow
<1> HIDE DEF txs
<1>8. /\ \A o \in OwnedOps(r, row'[i], NetOf(net', i)) :
           /\ o \in OwnedOps(a, row[i], txs) \/ utxos[o] = "FREE"
           /\ utxos'[o] # "FREE"
      /\ \A o \in Outpoints : utxos'[o] = "FREE" =>
           utxos[o] = "FREE" \/ o \in OwnedOps(a, row[i], txs)
  BY <1>1, <1>2, <1>5
<1>9. FailsOnce(setting) =>
        /\ \A n \in OwnedNonces(r, row'[i], NetOf(net', i)) :
             /\ n \in OwnedNonces(a, row[i], txs) \/ n = nonce.pending
             /\ n < nonce'.pending
        /\ nonce'.pending >= nonce.pending
  BY <1>1, <1>3, <1>6, <1>7
<1>10. "SIGNED" \notin setting.failFrom =>
         \A o \in Outpoints : utxos'[o] = "LOCKED" =>
           \/ o \in KeptOps(r, row'[i])
           \/ utxos[o] = "LOCKED" /\ o \notin KeptOps(a, row[i])
  OBVIOUS
<1>11. QED
  BY <1>1, <1>8, <1>9, <1>10, LocalStep DEF txs

(* What an operation at work on its request may rely on.                   *)
LEMMA AtWork ==
  ASSUME IInv, Order, Resources, Calm(setting), NEW w \in Workers,
         h[w].pc \notin {"idle", "setWallet"}
  PROVE  /\ h[w] \in Handler /\ h[w].id \in Ids /\ h[w].id # None /\ row[h[w].id] \in Row
         /\ row \in [Ids -> Row] /\ utxos \in [Outpoints -> UTXOLockState]
         /\ Fits(setting, h[w], row[h[w].id].state) /\ Agrees(h[w], row[h[w].id])
         /\ OfChain(setting, h[w].nonce, h[w].ops)
         /\ Sound(setting, h[w], row[h[w].id], NetOf(net, h[w].id))
         /\ \A o \in OwnedOps(h[w], row[h[w].id], NetOf(net, h[w].id)) : utxos[o] # "FREE"
         /\ FailsOnce(setting) =>
              \A n \in OwnedNonces(h[w], row[h[w].id], NetOf(net, h[w].id)) : n < nonce.pending
         /\ ~StoreFails /\ "crash" \notin Faults /\ "timeout" \notin Faults
<1>1. /\ ~StoreFails /\ "crash" \notin Faults /\ "timeout" \notin Faults
      /\ setting.serial /\ Recorded(setting)
  BY DEF Calm, StoreFails, Faults, Recorded
<1>2. /\ h[w] \in Handler /\ h[w].id \in Ids /\ h[w].id # None /\ row[h[w].id] \in Row
      /\ row \in [Ids -> Row]
      /\ Fits(setting, h[w], row[h[w].id].state) /\ Agrees(h[w], row[h[w].id])
      /\ OfChain(setting, h[w].nonce, h[w].ops)
  BY <1>1, Known DEF Ordered, Shaped
<1>3. Agent(h, h[w].id) = h[w]
  <2>1. \A v \in Workers : v # w => h[v].id # h[w].id
    BY <1>1, <1>2 DEF Order, InOrder
  <2>2. QED
    BY <2>1, AgentIs
<1>4. utxos \in [Outpoints -> UTXOLockState]
  BY DEF IInv, TypeOK
<1>5. QED
  BY <1>1, <1>2, <1>3, <1>4
     DEF Resources, Held, AllSound, OpsHeld, OpsOf, NoncesHeld, NoncesOf

(* ... and one that is taken up.                                           *)
LEMMA AtStart ==
  ASSUME IInv, Order, Resources, Calm(setting), NEW w \in Workers, NEW i \in Ids,
         At(w, "idle"), \A v \in Workers : h[v].id # i
  PROVE  /\ h[w].id = None /\ row[i] \in Row /\ Sound(setting, Idle, row[i], NetOf(net, i))
         /\ OfChain(setting, row[i].nonce, row[i].ops)
<1>1. h[w].id = None
  BY DEF At, Resources, Resting
<1>2. Agent(h, i) = Idle
  BY AgentIdle
<1>3. row[i] \in Row /\ OfChain(setting, row[i].nonce, row[i].ops)
  BY DEF IInv, TypeOK, Order, RowsShaped
<1>4. QED
  BY <1>1, <1>2, <1>3 DEF Resources, Held, AllSound

(* The shapes of a step on the request at hand, and on a new one.          *)
LEMMA OwnStep ==
  ASSUME IInv, NEW w \in Workers, NEW r, Become(w, r), setting' = setting, net' = net,
         r.id = h[w].id \/ r = Idle,
         \A j \in Ids : j # h[w].id => row'[j] = row[j]
  PROVE  StepOn(w, h[w].id, r, h[w])
  BY DEF StepOn

LEMMA FirstStep ==
  ASSUME NEW w \in Workers, NEW i \in Ids, NEW r, Become(w, r),
         setting' = setting, net' = net, row' = row, h[w].id = None,
         r.id = i \/ r = Idle, \A v \in Workers : h[v].id # i
  PROVE  StepOn(w, i, r, Idle)
  BY DEF StepOn

(* A write of one row leaves the others alone.                             *)
LEMMA OneRow ==
  ASSUME NEW table \in [Ids -> Row], NEW i \in Ids, NEW s \in States,
         NEW t, t = [table EXCEPT ![i].state = s]
  PROVE  /\ \A j \in Ids : j # i => t[j] = table[j]
         /\ t[i].state = s /\ t[i].nonce = table[i].nonce /\ t[i].ops = table[i].ops
  BY DEF Row

-----------------------------------------------------------------------------
(* Create.                                                                 *)
LEMMA CreateHeld ==
  ASSUME IInv, IInv', Order, Resources, Calm(setting), NEW w \in Workers,
         \/ \E i \in Ids : Create(w, i)
         \/ InsertRow(w) \/ Approve(w) \/ Reject(w)
  PROVE  Held(setting, h', row', net', utxos', nonce'.pending)
<1>1. ASSUME NEW i \in Ids, Create(w, i)
      PROVE  Held(setting, h', row', net', utxos', nonce'.pending)
  <2> DEFINE r == [Idle EXCEPT !.pc = "insert", !.id = i]
  <2>1. /\ Become(w, r) /\ UNCHANGED <<setting, row, nonce, utxos, net>>
        /\ At(w, "idle") /\ (\A v \in Workers : h[v].id # i) /\ row[i].state = "ABSENT"
    BY <1>1 DEF Create, Free
  <2>2. /\ r.pc = "insert" /\ r.id = i /\ r.nonce = None /\ r.ops = {}
        /\ Idle.id = None /\ i # None
    BY DEF Idle
  <2> HIDE DEF r
  <2>3. h[w].id = None /\ Sound(setting, Idle, row[i], NetOf(net, i))
    BY <2>1, AtStart
  <2>4. StepOn(w, i, r, Idle)
    BY <2>1, <2>2, <2>3, FirstStep
  <2>5. Sound(setting, r, row[i], NetOf(net, i))
    BY <2>1, <2>2, <2>3 DEF Sound, Sending, Idle
  <2>6. KeptOps(r, row[i]) = {} /\ KeptNonces(r, row[i]) = {} /\ KeptOps(Idle, row[i]) = {}
    BY <2>1, <2>2 DEF KeptOps, KeptNonces
  <2>7. QED
    BY <2>1, <2>4, <2>5, <2>6, QuietStep
<1>2. CASE InsertRow(w)
  <2> DEFINE i == h[w].id
  <2>0. /\ h[w].pc = "insert" /\ h[w].pc \notin {"idle", "setWallet"}
        /\ UNCHANGED <<setting, nonce, utxos, net>>
    BY <1>2 DEF InsertRow, At
  <2>1. /\ h[w] \in Handler /\ i \in Ids /\ i # None /\ row \in [Ids -> Row]
        /\ row[i].state = "ABSENT" /\ h[w].nonce = None /\ h[w].ops = {}
        /\ row[i].nonce = None /\ NetOf(net, i) = {}
    BY <2>0, AtWork DEF Fits, Sound, Sending
  <2>2. KeptOps(h[w], row[i]) = {}
    BY <2>1 DEF KeptOps
  <2>3. CASE row' = [row EXCEPT ![i].state = "PENDING"] /\ Goto(w, "check")
    <3> DEFINE r == [h[w] EXCEPT !.pc = "check"]
    <3>1. r.pc = "check" /\ r.id = i /\ r.nonce = None /\ r.ops = {} /\ Become(w, r)
      BY <2>1, <2>3 DEF Handler, Goto
    <3>2. /\ row'[i].state = "PENDING" /\ row'[i].nonce = None
          /\ \A j \in Ids : j # i => row'[j] = row[j]
      BY <2>1, <2>3, OneRow DEF States, InFlight
    <3> HIDE DEF r
    <3>3. StepOn(w, i, r, h[w])
      BY <2>0, <3>1, <3>2, OwnStep
    <3>4. Sound(setting, r, row'[i], NetOf(net, i))
      BY <2>1, <3>1, <3>2 DEF Sound
    <3>5. KeptOps(r, row'[i]) = {} /\ KeptNonces(r, row'[i]) = {}
      BY <2>1, <3>1 DEF KeptOps, KeptNonces
    <3>6. QED
      BY <2>0, <2>1, <2>2, <3>3, <3>4, <3>5, QuietStep
  <2>4. CASE UNCHANGED row /\ Return(w)
    <3>1. StepOn(w, i, Idle, h[w])
      BY <2>0, <2>4, OwnStep DEF Return
    <3>2. Sound(setting, Idle, row[i], NetOf(net, i))
      BY <2>1 DEF Sound, Idle
    <3>3. KeptOps(Idle, row[i]) = {} /\ KeptNonces(Idle, row[i]) = {}
      BY <2>1 DEF KeptOps, KeptNonces, Idle
    <3>4. QED
      BY <2>0, <2>1, <2>2, <2>4, <3>1, <3>2, <3>3, QuietStep
  <2>5. QED
    BY <1>2, <2>3, <2>4 DEF InsertRow
<1>3. CASE Approve(w) \/ Reject(w)
  <2> DEFINE i == h[w].id
  <2>0. /\ h[w].pc = "check" /\ h[w].pc \notin {"idle", "setWallet"}
        /\ UNCHANGED <<setting, row, nonce, utxos, net>>
    BY <1>3 DEF Approve, Reject, At
  <2>1. /\ h[w] \in Handler /\ i \in Ids /\ i # None
        /\ h[w].nonce = None /\ h[w].ops = {} /\ Sound(setting, h[w], row[i], NetOf(net, i))
    BY <2>0, AtWork DEF Sound
  <2>2. PICK s \in {"WHITELISTED", "FAILED"} :
          Become(w, [h[w] EXCEPT !.pc = "save", !.to = s])
    BY <1>3 DEF Approve, Reject
  <2> DEFINE r == [h[w] EXCEPT !.pc = "save", !.to = s]
  <2>3. /\ r.pc = "save" /\ r.to = s /\ r.id = i /\ r.nonce = None /\ r.ops = {}
        /\ Become(w, r)
    BY <2>1, <2>2 DEF Handler
  <2> HIDE DEF r
  <2>4. StepOn(w, i, r, h[w])
    BY <2>0, <2>3, OwnStep
  <2>5. Sound(setting, r, row[i], NetOf(net, i))
    BY <2>0, <2>1, <2>3 DEF Sound, Sending
  <2>6. KeptOps(r, row[i]) = {} /\ KeptNonces(r, row[i]) = {} /\ KeptOps(h[w], row[i]) = {}
    BY <2>1, <2>3 DEF KeptOps, KeptNonces
  <2>7. QED
    BY <2>0, <2>1, <2>4, <2>5, <2>6, QuietStep
<1>4. QED
  BY <1>1, <1>2, <1>3

-----------------------------------------------------------------------------
(* ConstructAndSign up to the reservation.                                 *)
LEMMA StartHeld ==
  ASSUME IInv, IInv', Order, Resources, Calm(setting), NEW w \in Workers, NEW i \in Ids,
         ConstructAndSign(w, i) \/ Confirm(w, i)
  PROVE  Held(setting, h', row', net', utxos', nonce'.pending)
<1>1. /\ At(w, "idle") /\ (\A v \in Workers : h[v].id # i)
      /\ UNCHANGED <<setting, row, nonce, utxos, net>>
      /\ row[i].state \in {"WHITELISTED", "BROADCAST"}
  BY DEF ConstructAndSign, Confirm, Starts, Free, Serial, Calm
<1>2. PICK r : /\ Become(w, r) /\ r.id = i /\ r.nonce = None /\ r.ops = {}
               /\ r.pc \in {"build", "reserve", "save"} /\ (r.pc = "save" => r.to = "CONFIRMED")
  <2>1. CASE ConstructAndSign(w, i)
    <3> DEFINE r == [Idle EXCEPT !.pc = IF Chain = "SOL" THEN "build" ELSE "reserve",
                                 !.id = i]
    <3>1. r.id = i /\ r.nonce = None /\ r.ops = {} /\ r.pc \in {"build", "reserve"}
      BY DEF Idle
    <3>2. Become(w, r)
      BY <2>1 DEF ConstructAndSign
    <3> HIDE DEF r
    <3>3. QED
      BY <3>1, <3>2
  <2>2. CASE Confirm(w, i)
    <3> DEFINE r == [Idle EXCEPT !.pc = "save", !.id = i, !.to = "CONFIRMED"]
    <3>1. r.id = i /\ r.nonce = None /\ r.ops = {} /\ r.pc = "save" /\ r.to = "CONFIRMED"
      BY DEF Idle
    <3>2. Become(w, r)
      BY <2>2 DEF Confirm
    <3> HIDE DEF r
    <3>3. QED
      BY <3>1, <3>2
  <2>3. QED
    BY <2>1, <2>2
<1>3. h[w].id = None /\ Sound(setting, Idle, row[i], NetOf(net, i)) /\ i # None
  BY <1>1, AtStart
<1>4. StepOn(w, i, r, Idle)
  BY <1>1, <1>2, <1>3, FirstStep
<1>5. Sound(setting, r, row[i], NetOf(net, i))
  BY <1>1, <1>2, <1>3 DEF Sound, Sending, Idle
<1>6. KeptOps(r, row[i]) = {} /\ KeptNonces(r, row[i]) = {} /\ KeptOps(Idle, row[i]) = {}
  BY <1>1, <1>2, <1>3 DEF KeptOps, KeptNonces, Idle
<1>7. QED
  BY <1>1, <1>4, <1>5, <1>6, QuietStep

LEMMA ReserveHeld ==
  ASSUME IInv, IInv', Order, Resources, Calm(setting), NEW w \in Workers,
         ReserveNonce(w) \/ SelectList(w) \/ ReserveFails(w) \/ SelectLock(w)
  PROVE  Held(setting, h', row', net', utxos', nonce'.pending)
<1> DEFINE i == h[w].id
           txs == NetOf(net, i)
<1>0. /\ h[w].pc \in {"reserve", "lock"} /\ h[w].pc \notin {"idle", "setWallet"}
      /\ UNCHANGED <<setting, row, net>>
  BY DEF ReserveNonce, SelectList, ReserveFails, SelectLock, At
<1>1. /\ h[w] \in Handler /\ i \in Ids /\ i # None /\ row[i] \in Row
      /\ row[i].state = "WHITELISTED" /\ Sound(setting, h[w], row[i], txs)
      /\ h[w].pc = "reserve" => h[w].nonce = None /\ h[w].ops = {}
      /\ utxos \in [Outpoints -> UTXOLockState] /\ ~StoreFails
      /\ OfChain(setting, h[w].nonce, h[w].ops)
      /\ \A o \in OwnedOps(h[w], row[i], txs) : utxos[o] # "FREE"
      /\ FailsOnce(setting) => \A n \in OwnedNonces(h[w], row[i], txs) : n < nonce.pending
  BY <1>0, AtWork DEF Fits, Constructing, Sound
<1>2. txs = {} /\ KeptOps(h[w], row[i]) = {}
  BY <1>0, <1>1 DEF Sound, Sending, KeptOps
<1>3. OwnedOps(h[w], row[i], txs) = {}
  BY <1>2 DEF OwnedOps
<1>4. CASE Return(w) /\ UNCHANGED <<nonce, utxos>>
  <2>1. StepOn(w, i, Idle, h[w])
    BY <1>0, <1>4, OwnStep DEF Return
  <2>2. Sound(setting, Idle, row[i], txs)
    BY <1>1, <1>2 DEF Sound, Idle
  <2>3. KeptOps(Idle, row[i]) = {} /\ KeptNonces(Idle, row[i]) = {}
    BY <1>1 DEF KeptOps, KeptNonces, Idle
  <2>4. QED
    BY <1>0, <1>1, <1>2, <1>4, <2>1, <2>2, <2>3, QuietStep
<1>5. CASE ReserveNonce(w)
  <2> DEFINE r == [h[w] EXCEPT !.pc = "persist", !.nonce = nonce.pending]
  <2>1. Become(w, r) /\ utxos' = utxos /\ nonce' = IncrementPendingNonce(nonce)
    BY <1>5 DEF ReserveNonce
  <2>2. h[w].pc = "reserve"
    BY <1>5 DEF ReserveNonce, At
  <2>3. r.pc = "persist" /\ r.id = i /\ r.nonce = nonce.pending /\ r.ops = {}
    BY <1>1, <2>2 DEF Handler
  <2>4. nonce.pending \in Nat /\ nonce'.pending = nonce.pending + 1
    BY <2>1 DEF IInv, TypeOK, NonceRow, IncrementPendingNonce
  <2> HIDE DEF r
  <2>5. StepOn(w, i, r, h[w])
    BY <1>0, <2>1, <2>3, OwnStep
  <2>6. Sound(setting, r, row[i], txs)
    BY <1>1, <1>2, <2>3 DEF Sound
  <2>7. OwnedOps(r, row[i], txs) = {} /\ OwnedNonces(r, row[i], txs) \subseteq {nonce.pending}
    BY <1>1, <1>2, <2>3 DEF OwnedOps, KeptOps, OwnedNonces, KeptNonces
  <2>8. /\ \A n \in OwnedNonces(r, row[i], txs) : n = nonce.pending /\ n < nonce'.pending
        /\ nonce'.pending >= nonce.pending
    BY <2>4, <2>7
  <2>9. QED
    BY <1>0, <1>1, <1>2, <2>1, <2>5, <2>6, <2>7, <2>8, LocalStep
<1>6. CASE SelectList(w)
  <2>1. PICK ops : Become(w, [h[w] EXCEPT !.pc = "lock", !.ops = ops])
    BY <1>6 DEF SelectList
  <2> DEFINE r == [h[w] EXCEPT !.pc = "lock", !.ops = ops]
  <2>2. /\ Become(w, r) /\ UNCHANGED <<nonce, utxos>> /\ h[w].pc = "reserve"
        /\ r.pc = "lock" /\ r.id = i /\ r.nonce = h[w].nonce
    BY <1>1, <1>6, <2>1 DEF SelectList, At, Handler
  <2> HIDE DEF r
  <2>3. StepOn(w, i, r, h[w])
    BY <1>0, <2>2, OwnStep
  <2>4. Sound(setting, r, row[i], txs)
    BY <1>1, <1>2, <2>2 DEF Sound
  <2>5. KeptOps(r, row[i]) = {} /\ KeptNonces(r, row[i]) \subseteq KeptNonces(h[w], row[i])
    BY <1>1, <2>2 DEF KeptOps, KeptNonces
  <2>6. QED
    BY <1>0, <1>1, <1>2, <2>2, <2>3, <2>4, <2>5, QuietStep
<1>7. CASE /\ SelectLock(w) /\ LockableUTXOs(utxos, h[w].ops)
           /\ utxos' = LockUTXOs(utxos, h[w].ops) /\ Goto(w, "persist")
  <2> DEFINE r == [h[w] EXCEPT !.pc = "persist"]
  <2>1. /\ Become(w, r) /\ nonce' = nonce /\ h[w].pc = "lock"
        /\ r.pc = "persist" /\ r.id = i /\ r.nonce = h[w].nonce /\ r.ops = h[w].ops
    BY <1>1, <1>7 DEF SelectLock, At, Handler, Goto
  <2>2. /\ \A o \in h[w].ops : utxos[o] = "FREE"
        /\ \A o \in Outpoints : utxos'[o] = IF o \in h[w].ops THEN "LOCKED" ELSE utxos[o]
        /\ h[w].ops \subseteq Outpoints
    BY <1>1, <1>7 DEF LockableUTXOs, LockUTXOs, Handler
  <2> HIDE DEF r
  <2>3. StepOn(w, i, r, h[w])
    BY <1>0, <2>1, OwnStep
  <2>4. Sound(setting, r, row[i], txs)
    BY <1>1, <1>2, <2>1 DEF Sound
  <2>5. KeptOps(r, row[i]) = h[w].ops /\ OwnedOps(r, row[i], txs) = h[w].ops
    BY <1>1, <1>2, <2>1 DEF KeptOps, OwnedOps
  <2>6. OwnedNonces(r, row[i], txs) \subseteq OwnedNonces(h[w], row[i], txs)
    BY <1>1, <2>1 DEF OwnedNonces, KeptNonces
  <2>7. /\ \A o \in OwnedOps(r, row[i], txs) : utxos[o] = "FREE" /\ utxos'[o] # "FREE"
        /\ \A o \in Outpoints : utxos'[o] = "FREE" => utxos[o] = "FREE"
    BY <2>2, <2>5
  <2>8. \A o \in Outpoints : utxos'[o] = "LOCKED" => o \in KeptOps(r, row[i]) \/ utxos[o] = "LOCKED"
    BY <2>2, <2>5
  <2>9. nonce.pending \in Nat
    BY DEF IInv, TypeOK, NonceRow
  <2>10. FailsOnce(setting) =>
           /\ \A n \in OwnedNonces(r, row[i], txs) :
                n \in OwnedNonces(h[w], row[i], txs) /\ n < nonce'.pending
           /\ nonce'.pending >= nonce.pending
    <3>1. nonce'.pending = nonce.pending /\ nonce'.pending >= nonce.pending
      BY <2>1, <2>9
    <3>2. FailsOnce(setting) => \A n \in OwnedNonces(h[w], row[i], txs) : n < nonce.pending
      BY <1>1
    <3> HIDE DEF i, txs
    <3>3. QED
      BY <2>6, <3>1, <3>2
  <2>11. QED
    BY <1>0, <1>1, <1>2, <2>1, <2>3, <2>4, <2>7, <2>8, <2>10, LocalStep
<1>8. CASE ReserveFails(w)
  BY <1>4, <1>8 DEF ReserveFails
<1>9. CASE SelectLock(w)
  BY <1>4, <1>7, <1>9, <1>1 DEF SelectLock
<1>10. QED
  BY <1>5, <1>6, <1>8, <1>9

(* The end of a loop over resources: the operation holds what is left.     *)
LEMMA FinishKeeps ==
  ASSUME NEW e, NEW u \in Handler, u.id # None, u.pc \in {"undo", "settle", "restore"},
         NEW q, Fits(e, u, q.state), NEW txs, Sound(e, u, q, txs)
  PROVE  /\ Finish(u).id = u.id \/ Finish(u) = Idle
         /\ KeptOps(Finish(u), q) = u.ops /\ KeptNonces(Finish(u), q) = {u.nonce} \ {None}
         /\ Sound(e, Finish(u), q, txs)
<1>1. CASE Finish(u) = u
  BY <1>1 DEF KeptOps, KeptNonces
<1>2. CASE Finish(u) = Idle /\ u.to = None /\ u.ops = {} /\ u.nonce = None
  <2>1. q.state # "SIGNED" /\ u.pc \in {"undo", "restore"}
    BY <1>2 DEF Fits, Sound, States, InFlight
  <2>2. /\ Idle.pc = "idle" /\ Idle.id = None /\ Idle.nonce = None /\ Idle.ops = {}
    BY DEF Idle
  <2>3. KeptOps(Idle, q) = {} /\ KeptNonces(Idle, q) = {}
    BY <2>1, <2>2 DEF KeptOps, KeptNonces
  <2>4. Sound(e, Idle, q, txs)
    BY <2>1, <2>2 DEF Sound, Sending
  <2>5. QED
    BY <1>2, <2>3, <2>4
<1>3. CASE Finish(u) = [u EXCEPT !.pc = "save"] /\ u.to # None /\ u.ops = {} /\ u.nonce = None
  <2> DEFINE f == [u EXCEPT !.pc = "save"]
  <2>1. f.pc = "save" /\ f.id = u.id /\ f.to = u.to /\ f.nonce = None /\ f.ops = {}
    BY <1>3 DEF Handler
  <2> HIDE DEF f
  <2>2. KeptOps(f, q) = {} /\ KeptNonces(f, q) = {}
    BY <2>1 DEF KeptOps, KeptNonces
  <2>3. Sending(u) => Sending(f)
    BY <2>1 DEF Sending, Fits
  <2>4. Sound(e, f, q, txs)
    BY <2>1, <2>3 DEF Sound
  <2>5. QED
    BY <1>3, <2>1, <2>2, <2>4 DEF f
<1>4. QED
  BY <1>1, <1>2, <1>3 DEF Finish

(* A rollback that starts holds what the operation held.                   *)
LEMMA RollBackKeeps ==
  ASSUME NEW e, NEW r \in Handler, r.id # None, NEW s \in {None, "FAILED"}, NEW q, NEW txs,
         q.state = "WHITELISTED" \/ (s = "FAILED" /\ q.state = "SIGNED"),
         txs = {}
  PROVE  /\ RollBack(r, s).id = r.id \/ RollBack(r, s) = Idle
         /\ KeptOps(RollBack(r, s), q) = r.ops
         /\ KeptNonces(RollBack(r, s), q) = {r.nonce} \ {None}
         /\ Sound(e, RollBack(r, s), q, txs)
<1> DEFINE u == [r EXCEPT !.pc = "undo", !.to = s]
<1>1. /\ u \in Handler /\ u.pc = "undo" /\ u.to = s /\ u.id = r.id /\ u.ops = r.ops
      /\ u.nonce = r.nonce
  BY DEF Handler, PC, States, InFlight
<1>2. RollBack(r, s) = Finish(u)
  BY DEF RollBack
<1> HIDE DEF u
<1>3. "FAILED" # None
  BY DEF States
<1>4. Fits(e, u, q.state)
  BY <1>1, <1>3 DEF Fits, Leads, Constructing, Lifecycle!MayFail
<1>5. Sound(e, u, q, txs)
  BY <1>1 DEF Sound
<1>6. QED
  BY <1>1, <1>2, <1>4, <1>5, FinishKeeps

-----------------------------------------------------------------------------
(* ConstructAndSign from the reservation to the signed row.                *)
LEMMA BuildHeld ==
  ASSUME IInv, IInv', Order, Resources, Calm(setting), NEW w \in Workers,
         Persist(w) \/ BuildAndSign(w) \/ BuildFails(w) \/ SignFails(w) \/ SaveTx(w)
  PROVE  Held(setting, h', row', net', utxos', nonce'.pending)
<1> DEFINE i == h[w].id
           txs == NetOf(net, i)
<1>0. /\ h[w].pc \in {"persist", "build", "saveTx"} /\ h[w].pc \notin {"idle", "setWallet"}
      /\ UNCHANGED <<setting, nonce, utxos, net>>
  BY DEF Persist, BuildAndSign, BuildFails, SignFails, SaveTx, At
<1>1. /\ h[w] \in Handler /\ i \in Ids /\ i # None /\ row \in [Ids -> Row]
      /\ row[i].state = "WHITELISTED" /\ Sound(setting, h[w], row[i], txs) /\ ~StoreFails
  BY <1>0, AtWork DEF Fits, Constructing
<1>2. txs = {}
  BY <1>0, <1>1 DEF Sound, Sending
<1>3. KeptOps(h[w], row[i]) = h[w].ops /\ KeptNonces(h[w], row[i]) = {h[w].nonce} \ {None}
  BY <1>0, <1>1 DEF KeptOps, KeptNonces
<1>4. /\ \A j \in Ids : j # i => row'[j] = row[j]
      /\ row'[i].state = "WHITELISTED"
  <2>1. row' \in {row, [row EXCEPT ![i].nonce = h[w].nonce], [row EXCEPT ![i].ops = h[w].ops],
                  [row EXCEPT ![i].signed = h[w].tx]}
    BY <1>1 DEF Persist, Persisted, BuildAndSign, BuildFails, SignFails, SaveTx
  <2>2. QED
    BY <1>1, <2>1 DEF Row
<1>5. ASSUME NEW r, Become(w, r), r.id = i, r.nonce = h[w].nonce, r.ops = h[w].ops,
             r.pc \in {"build", "saveTx"} \/ (r.pc = "save" /\ r.to = "SIGNED")
      PROVE  Held(setting, h', row', net', utxos', nonce'.pending)
  <2>1. StepOn(w, i, r, h[w])
    BY <1>0, <1>4, <1>5, OwnStep
  <2>2. Sound(setting, r, row'[i], txs)
    BY <1>2, <1>4, <1>5 DEF Sound
  <2>3. KeptOps(r, row'[i]) = h[w].ops /\ KeptNonces(r, row'[i]) = {h[w].nonce} \ {None}
    BY <1>1, <1>5 DEF KeptOps, KeptNonces
  <2>4. QED
    BY <1>0, <1>1, <1>3, <2>1, <2>2, <2>3, QuietStep
<1>6. ASSUME NEW s \in {None, "FAILED"}, Become(w, RollBack(h[w], s))
      PROVE  Held(setting, h', row', net', utxos', nonce'.pending)
  <2> DEFINE r == RollBack(h[w], s)
  <2>1. /\ r.id = i \/ r = Idle
        /\ KeptOps(r, row'[i]) = h[w].ops /\ KeptNonces(r, row'[i]) = {h[w].nonce} \ {None}
        /\ Sound(setting, r, row'[i], txs)
    <3>1. \A q : q.state = "WHITELISTED" =>
            /\ r.id = h[w].id \/ r = Idle
            /\ KeptOps(r, q) = h[w].ops /\ KeptNonces(r, q) = {h[w].nonce} \ {None}
            /\ Sound(setting, r, q, {})
      BY <1>1, RollBackKeeps
    <3>2. QED
      BY <1>2, <1>4, <3>1
  <2>2. Become(w, r)
    BY <1>6
  <2> HIDE DEF r
  <2>3. StepOn(w, i, r, h[w])
    BY <1>0, <1>4, <2>1, <2>2, OwnStep
  <2>4. QED
    BY <1>0, <1>1, <1>3, <2>1, <2>3, QuietStep
<1>7. CASE Persist(w)
  <2> DEFINE r == [h[w] EXCEPT !.pc = "build"]
  <2>1. Become(w, r)
    BY <1>1, <1>7 DEF Persist, Goto
  <2>2. r.id = i /\ r.nonce = h[w].nonce /\ r.ops = h[w].ops /\ r.pc = "build"
    BY <1>1 DEF Handler
  <2> HIDE DEF r
  <2>3. QED
    BY <1>5, <2>1, <2>2
<1>8. CASE BuildAndSign(w)
  <2> DEFINE x == [id |-> h[w].id, nonce |-> h[w].nonce, ins |-> h[w].ops]
             r == [h[w] EXCEPT !.pc = "saveTx", !.tx = x]
  <2>1. Become(w, r)
    BY <1>8 DEF BuildAndSign
  <2>2. r.id = i /\ r.nonce = h[w].nonce /\ r.ops = h[w].ops /\ r.pc = "saveTx"
    BY <1>1 DEF Handler
  <2> HIDE DEF r
  <2>3. QED
    BY <1>5, <2>1, <2>2
<1>9. CASE BuildFails(w) \/ SignFails(w)
  BY <1>6, <1>9 DEF BuildFails, SignFails
<1>10. CASE SaveTx(w)
  <2> DEFINE r == [h[w] EXCEPT !.pc = "save", !.to = "SIGNED"]
  <2>1. Become(w, r)
    BY <1>1, <1>10 DEF SaveTx
  <2>2. /\ r.id = i /\ r.nonce = h[w].nonce /\ r.ops = h[w].ops /\ r.pc = "save"
        /\ r.to = "SIGNED"
    BY <1>1 DEF Handler
  <2> HIDE DEF r
  <2>3. QED
    BY <1>5, <2>1, <2>2
<1>11. QED
  BY <1>7, <1>8, <1>9, <1>10

-----------------------------------------------------------------------------
(* Broadcast.                                                              *)
LEMMA BroadcastHeld ==
  ASSUME IInv, IInv', Order, Resources, Calm(setting), NEW w \in Workers, NEW i \in Ids,
         Broadcast(w, i)
  PROVE  Held(setting, h', row', net', utxos', nonce'.pending)
<1> DEFINE r == [Idle EXCEPT !.pc = "send", !.id = i, !.nonce = row[i].nonce,
                             !.ops = row[i].ops, !.tx = row[i].signed]
<1>1. /\ At(w, "idle") /\ (\A v \in Workers : h[v].id # i) /\ row[i].state = "SIGNED"
      /\ UNCHANGED <<setting, row, nonce, utxos, net>> /\ Become(w, r)
  BY DEF Broadcast, Starts, Free, Serial, Calm
<1>2. /\ r.pc = "send" /\ r.id = i /\ r.nonce = row[i].nonce /\ r.ops = row[i].ops
      /\ Idle.id = None /\ Idle.pc = "idle"
  BY DEF Idle
<1> HIDE DEF r
<1>3. h[w].id = None /\ Sound(setting, Idle, row[i], NetOf(net, i)) /\ i # None
  BY <1>1, AtStart
<1>4. StepOn(w, i, r, Idle)
  BY <1>1, <1>2, <1>3, FirstStep
<1>5. Sound(setting, r, row[i], NetOf(net, i))
  BY <1>1, <1>2, <1>3 DEF Sound, Sending
<1>6. KeptOps(r, row[i]) = KeptOps(Idle, row[i]) /\ KeptNonces(r, row[i]) = KeptNonces(Idle, row[i])
  BY <1>1, <1>2, <1>3 DEF KeptOps, KeptNonces
<1>7. QED
  BY <1>1, <1>4, <1>5, <1>6, QuietStep

LEMMA SendHeld ==
  ASSUME IInv, IInv', Order, Resources, Calm(setting), NEW w \in Workers,
         SendOk(w) \/ SendFails(w)
  PROVE  Held(setting, h', row', net', utxos', nonce'.pending)
<1> DEFINE i == h[w].id
           txs == NetOf(net, i)
<1>0. /\ h[w].pc = "send" /\ h[w].pc \notin {"idle", "setWallet"}
      /\ UNCHANGED <<setting, row, nonce, utxos>>
  BY DEF SendOk, SendFails, At
<1>1. /\ h[w] \in Handler /\ i \in Ids /\ i # None
      /\ row[i].state = "SIGNED" /\ Sound(setting, h[w], row[i], txs)
      /\ Agrees(h[w], row[i]) /\ "timeout" \notin Faults
      /\ \A o \in OwnedOps(h[w], row[i], txs) : utxos[o] # "FREE"
      /\ FailsOnce(setting) => \A n \in OwnedNonces(h[w], row[i], txs) : n < nonce.pending
  BY <1>0, AtWork DEF Fits
<1>2. txs = {}
  BY <1>0, <1>1 DEF Sound, Sending
<1>3. KeptOps(h[w], row[i]) = h[w].ops /\ KeptNonces(h[w], row[i]) = {h[w].nonce} \ {None}
  BY <1>0, <1>1 DEF KeptOps, KeptNonces
<1>4. CASE SendOk(w)
  <2> DEFINE u == [h[w] EXCEPT !.pc = "settle", !.to = "BROADCAST"]
             r == Finish(u)
             x == h[w].tx
  <2>1. /\ u \in Handler /\ u.pc = "settle" /\ u.to = "BROADCAST" /\ u.id = i
        /\ u.nonce = h[w].nonce /\ u.ops = h[w].ops
    BY <1>1 DEF Handler, PC, States, InFlight
  <2>2. Become(w, r) /\ net' = net \cup {x}
    BY <1>4 DEF SendOk
  <2>3. x # None /\ x.id = i /\ x.nonce = h[w].nonce /\ x.ins = h[w].ops
    <3>1. x.nonce = h[w].nonce /\ x.ins = h[w].ops /\ x # None
      BY <1>0, <1>1 DEF Agrees, Describes
    <3>2. TxOf(setting, x, i)
      BY DEF Order, Shaped
    <3>3. QED
      BY <3>1, <3>2 DEF TxOf
  <2>4. NetOf(net', i) = {x} /\ \A j \in Ids : j # i => NetOf(net', j) = NetOf(net, j)
    BY <1>2, <2>2, <2>3 DEF NetOf
  <2> HIDE DEF u, x
  <2>5. Fits(setting, u, "SIGNED")
    BY <2>1 DEF Fits, Constructing
  <2>6. Sound(setting, u, row[i], {x})
    BY <1>1, <2>1 DEF Sound, Sending
  <2>7. /\ r.id = i \/ r = Idle
        /\ KeptOps(r, row[i]) = h[w].ops /\ KeptNonces(r, row[i]) = {h[w].nonce} \ {None}
        /\ Sound(setting, r, row[i], {x})
    <3>1. u.id # None /\ u.pc \in {"undo", "settle", "restore"} /\ Fits(setting, u, row[i].state)
      BY <1>1, <2>1, <2>5
    <3>2. /\ r.id = u.id \/ r = Idle
          /\ KeptOps(r, row[i]) = u.ops /\ KeptNonces(r, row[i]) = {u.nonce} \ {None}
          /\ Sound(setting, r, row[i], {x})
      BY <2>1, <2>6, <3>1, FinishKeeps
    <3>3. QED
      BY <2>1, <3>2
  <2> HIDE DEF r
  <2>8. StepOn(w, i, r, h[w])
    BY <1>0, <2>2, <2>4, <2>7 DEF StepOn
  <2>9. OwnedOps(r, row[i], {x}) \subseteq OwnedOps(h[w], row[i], txs)
    BY <1>3, <2>3, <2>7 DEF OwnedOps
  <2>10. OwnedNonces(r, row[i], {x}) \subseteq OwnedNonces(h[w], row[i], txs)
    BY <1>3, <2>3, <2>7 DEF OwnedNonces
  <2>11. /\ \A o \in OwnedOps(r, row'[i], NetOf(net', i)) :
              o \in OwnedOps(h[w], row[i], txs) /\ utxos'[o] # "FREE"
         /\ \A o \in Outpoints : utxos'[o] = "FREE" => utxos[o] = "FREE"
    BY <1>0, <1>1, <2>4, <2>9
  <2>12. \A o \in Outpoints : utxos'[o] = "LOCKED" =>
           \/ o \in KeptOps(r, row'[i])
           \/ utxos[o] = "LOCKED" /\ o \notin KeptOps(h[w], row[i])
    BY <1>0, <1>3, <2>7
  <2>13. nonce.pending \in Nat /\ nonce'.pending = nonce.pending
    BY <1>0 DEF IInv, TypeOK, NonceRow
  <2>14. FailsOnce(setting) =>
           /\ \A n \in OwnedNonces(r, row'[i], NetOf(net', i)) :
                n \in OwnedNonces(h[w], row[i], txs) /\ n < nonce'.pending
           /\ nonce'.pending >= nonce.pending
    <3>1. nonce'.pending = nonce.pending /\ nonce'.pending >= nonce.pending
      BY <2>13
    <3>2. FailsOnce(setting) => \A n \in OwnedNonces(h[w], row[i], txs) : n < nonce.pending
      BY <1>1
    <3>3. OwnedNonces(r, row'[i], NetOf(net', i)) \subseteq OwnedNonces(h[w], row[i], txs)
      BY <1>0, <2>4, <2>10
    <3> HIDE DEF i, txs
    <3>4. QED
      BY <3>1, <3>2, <3>3
  <2>15. Sound(setting, r, row'[i], NetOf(net', i))
    BY <1>0, <2>4, <2>7
  <2>16. QED
    BY <1>1, <2>8, <2>11, <2>12, <2>14, <2>15, LocalStep
<1>5. CASE SendFails(w)
  <2> DEFINE r == RollBack(h[w], "FAILED")
  <2>1. /\ r.id = i \/ r = Idle
        /\ KeptOps(r, row[i]) = h[w].ops /\ KeptNonces(r, row[i]) = {h[w].nonce} \ {None}
        /\ Sound(setting, r, row[i], txs)
    BY <1>1, <1>2, RollBackKeeps
  <2>2. Become(w, r) /\ net' = net
    BY <1>1, <1>5 DEF SendFails
  <2> HIDE DEF r
  <2>3. StepOn(w, i, r, h[w])
    BY <1>0, <2>1, <2>2, OwnStep
  <2>4. QED
    BY <1>0, <1>1, <1>3, <2>1, <2>2, <2>3, QuietStep
<1>6. QED
  BY <1>4, <1>5

-----------------------------------------------------------------------------
(* The loops of rollback, CommitNonce and MarkSpent, and RestoreOnReorg:   *)
(* u is the operation once it has dealt with one resource.                 *)
LEMMA LoopKeeps ==
  ASSUME IInv, Order, Resources, Calm(setting), NEW w \in Workers,
         h[w].pc \in {"settle", "undo", "restore"}, NEW u, Become(w, Finish(u)),
         \/ u = [h[w] EXCEPT !.nonce = None]
         \/ \E o : u = [h[w] EXCEPT !.ops = h[w].ops \ {o}],
         UNCHANGED <<setting, row, net>>
  PROVE  LET i == h[w].id
             r == Finish(u)
         IN  /\ i \in Ids /\ StepOn(w, i, r, h[w])
             /\ Sound(setting, r, row[i], NetOf(net, i))
             /\ KeptOps(r, row[i]) = u.ops /\ KeptNonces(r, row[i]) = {u.nonce} \ {None}
             /\ KeptOps(h[w], row[i]) = h[w].ops
             /\ KeptNonces(h[w], row[i]) = {h[w].nonce} \ {None}
<1> DEFINE i == h[w].id
           txs == NetOf(net, i)
<1>0. h[w].pc \notin {"idle", "setWallet"}
  OBVIOUS
<1>1. /\ h[w] \in Handler /\ i \in Ids /\ i # None /\ Fits(setting, h[w], row[i].state)
      /\ Sound(setting, h[w], row[i], txs)
  BY <1>0, AtWork
<1>2. /\ u \in Handler /\ u.pc = h[w].pc /\ u.id = i /\ u.to = h[w].to
      /\ u.ops \subseteq h[w].ops /\ u.nonce \in {None, h[w].nonce}
  BY <1>1 DEF Handler
<1>3. Fits(setting, u, row[i].state)
  BY <1>1, <1>2 DEF Fits
<1>4. Sound(setting, u, row[i], txs)
  BY <1>1, <1>2 DEF Sound, Sending
<1>5. /\ Finish(u).id = i \/ Finish(u) = Idle
      /\ KeptOps(Finish(u), row[i]) = u.ops /\ KeptNonces(Finish(u), row[i]) = {u.nonce} \ {None}
      /\ Sound(setting, Finish(u), row[i], txs)
  <2>1. u \in Handler /\ u.id # None /\ u.pc \in {"undo", "settle", "restore"}
    BY <1>1, <1>2
  <2>2. /\ Finish(u).id = u.id \/ Finish(u) = Idle
        /\ KeptOps(Finish(u), row[i]) = u.ops
        /\ KeptNonces(Finish(u), row[i]) = {u.nonce} \ {None}
        /\ Sound(setting, Finish(u), row[i], txs)
    <3> HIDE DEF i, txs
    <3>1. QED
      BY <1>3, <1>4, <2>1, FinishKeeps
  <2>3. QED
    BY <1>2, <2>2
<1>6. StepOn(w, i, Finish(u), h[w])
  BY <1>5, OwnStep
<1>7. KeptOps(h[w], row[i]) = h[w].ops /\ KeptNonces(h[w], row[i]) = {h[w].nonce} \ {None}
  BY <1>1 DEF KeptOps, KeptNonces
<1>8. QED
  BY <1>1, <1>5, <1>6, <1>7

LEMMA NonceHeld ==
  ASSUME IInv, IInv', Order, Resources, Calm(setting), NEW w \in Workers,
         SettleNonce(w) \/ UndoNonce(w)
  PROVE  Held(setting, h', row', net', utxos', nonce'.pending)
<1> DEFINE i == h[w].id
           txs == NetOf(net, i)
           u == [h[w] EXCEPT !.nonce = None]
           r == Finish(u)
<1>0. /\ h[w].pc \in {"settle", "undo"} /\ h[w].pc \notin {"idle", "setWallet"}
      /\ UNCHANGED <<setting, row, utxos, net>> /\ Become(w, r) /\ h[w].nonce # None
  BY DEF SettleNonce, UndoNonce, At
<1>1. /\ h[w] \in Handler /\ row[i] \in Row /\ Sound(setting, h[w], row[i], txs) /\ ~StoreFails
      /\ \A o \in OwnedOps(h[w], row[i], txs) : utxos[o] # "FREE"
  BY <1>0, AtWork
<1>2. u.ops = h[w].ops /\ u.nonce = None
  BY <1>1 DEF Handler
<1>3. h[w].nonce \in Nat /\ nonce \in NonceRow /\ nonce.pending \in Nat
  BY <1>0, <1>1 DEF Handler, IInv, TypeOK, NonceRow
<1>4. /\ i \in Ids /\ StepOn(w, i, r, h[w]) /\ Sound(setting, r, row[i], txs)
      /\ KeptOps(r, row[i]) = h[w].ops /\ KeptNonces(r, row[i]) = {}
      /\ KeptOps(h[w], row[i]) = h[w].ops /\ KeptNonces(h[w], row[i]) = {h[w].nonce}
  BY <1>0, <1>2, LoopKeeps
<1> HIDE DEF u, r
<1>5. CASE nonce'.pending = nonce.pending
  BY <1>0, <1>4, <1>5, QuietStep
<1>6. CASE UndoNonce(w) /\ nonce'.pending = h[w].nonce /\ nonce.pending = h[w].nonce + 1
  <2>1. FailsOnce(setting) => txs = {}
    BY <1>0, <1>1, <1>6 DEF UndoNonce, At, Sound, Sending
  <2>2. FailsOnce(setting) => OwnedNonces(r, row[i], txs) = {}
    BY <1>4, <2>1 DEF OwnedNonces
  <2>3. h[w].nonce \in OwnedNonces(h[w], row[i], txs)
    BY <1>4 DEF OwnedNonces
  <2>4. OwnedOps(r, row[i], txs) = OwnedOps(h[w], row[i], txs)
    BY <1>4 DEF OwnedOps
  <2> HIDE DEF txs
  <2>5. Sound(setting, r, row'[i], NetOf(net', i))
    BY <1>0, <1>4 DEF txs
  <2>6. /\ \A o \in OwnedOps(r, row'[i], NetOf(net', i)) :
             o \in OwnedOps(h[w], row[i], txs) /\ utxos'[o] # "FREE"
        /\ \A o \in Outpoints : utxos'[o] = "FREE" => utxos[o] = "FREE"
    BY <1>0, <1>1, <2>4 DEF txs
  <2>7. FailsOnce(setting) =>
          /\ \A n \in OwnedNonces(r, row'[i], NetOf(net', i)) : FALSE
          /\ nonce.pending = nonce'.pending + 1
          /\ nonce'.pending \in OwnedNonces(h[w], row[i], txs)
    BY <1>0, <1>6, <2>2, <2>3 DEF txs
  <2>8. \A o \in Outpoints : utxos'[o] = "LOCKED" =>
          \/ o \in KeptOps(r, row'[i])
          \/ utxos[o] = "LOCKED" /\ o \notin KeptOps(h[w], row[i])
    BY <1>0, <1>4
  <2>9. QED
    BY <1>4, <2>5, <2>6, <2>7, <2>8, LocalStep DEF txs
<1>7. CASE SettleNonce(w)
  <2>1. nonce' = AdvanceBroadcastNonce(nonce, h[w].nonce)
    BY <1>1, <1>7 DEF SettleNonce
  <2>2. nonce'.pending = nonce.pending
    BY <1>3, <2>1 DEF AdvanceBroadcastNonce, NonceRow
  <2>3. QED
    BY <1>5, <2>2
<1>8. CASE UndoNonce(w)
  <2>1. nonce' = RollbackPendingNonce(nonce, h[w].nonce)
    BY <1>1, <1>8 DEF UndoNonce
  <2>2. \/ nonce'.pending = nonce.pending
        \/ nonce'.pending = h[w].nonce /\ nonce.pending = h[w].nonce + 1
    BY <1>3, <2>1 DEF RollbackPendingNonce, NonceRow
  <2>3. QED
    BY <1>5, <1>6, <1>8, <2>2
<1>9. QED
  BY <1>7, <1>8

LEMMA RowHeld ==
  ASSUME IInv, IInv', Order, Resources, Calm(setting), NEW w \in Workers,
         NEW o \in Outpoints, SettleRow(w, o) \/ UndoRow(w, o) \/ RestoreRow(w, o)
  PROVE  Held(setting, h', row', net', utxos', nonce'.pending)
<1> DEFINE i == h[w].id
           txs == NetOf(net, i)
           u == [h[w] EXCEPT !.ops = h[w].ops \ {o}]
           r == Finish(u)
<1>0. /\ h[w].pc \in {"settle", "undo", "restore"} /\ h[w].pc \notin {"idle", "setWallet"}
      /\ UNCHANGED <<setting, row, nonce, net>> /\ o \in h[w].ops
  BY DEF SettleRow, UndoRow, RestoreRow, At
<1>1. /\ h[w] \in Handler /\ Sound(setting, h[w], row[i], txs) /\ ~StoreFails
      /\ Fits(setting, h[w], row[i].state)
      /\ \A x \in OwnedOps(h[w], row[i], txs) : utxos[x] # "FREE"
      /\ FailsOnce(setting) => \A n \in OwnedNonces(h[w], row[i], txs) : n < nonce.pending
      /\ utxos \in [Outpoints -> UTXOLockState]
  BY <1>0, AtWork
<1>2. u.ops = h[w].ops \ {o} /\ u.nonce = h[w].nonce
  BY <1>1 DEF Handler
<1>3. /\ Become(w, r)
      /\ \/ h[w].pc = "settle" /\ utxos' = MarkUTXOSpent(utxos, o)
         \/ h[w].pc # "settle" /\ utxos' = RestoreUTXO(utxos, o)
  BY <1>1 DEF SettleRow, UndoRow, RestoreRow, At
<1>4. /\ i \in Ids /\ StepOn(w, i, r, h[w]) /\ Sound(setting, r, row[i], txs)
      /\ KeptOps(r, row[i]) = h[w].ops \ {o}
      /\ KeptNonces(r, row[i]) = KeptNonces(h[w], row[i]) /\ KeptOps(h[w], row[i]) = h[w].ops
  BY <1>0, <1>2, <1>3, LoopKeeps
<1>5. /\ \A x \in Outpoints : x # o => utxos'[x] = utxos[x]
      /\ utxos'[o] # "LOCKED"
      /\ utxos'[o] = "FREE" => h[w].pc # "settle"
  BY <1>1, <1>3 DEF MarkUTXOSpent, RestoreUTXO, SetRow, UTXOLockState
<1>6. h[w].pc # "settle" => txs = {}
  BY <1>0, <1>1 DEF Sound, Sending, Fits
<1> HIDE DEF u, r
<1>7. OwnedOps(r, row[i], txs) \subseteq OwnedOps(h[w], row[i], txs) \cap Outpoints
  <2>1. OwnedOps(h[w], row[i], txs) \subseteq Outpoints
    <3>1. row[i] \in Row /\ txs \subseteq Tx
      BY <1>4 DEF IInv, TypeOK, NetOf
    <3>2. QED
      BY <1>1, <3>1, OwnedTyped
  <2>2. QED
    BY <1>4, <2>1 DEF OwnedOps
<1>8. h[w].pc # "settle" => o \notin OwnedOps(r, row[i], txs)
  BY <1>4, <1>6 DEF OwnedOps
<1>9. o \in OwnedOps(h[w], row[i], txs)
  BY <1>0, <1>4 DEF OwnedOps
<1>10. OwnedNonces(r, row[i], txs) = OwnedNonces(h[w], row[i], txs)
  BY <1>4 DEF OwnedNonces
<1>11. NetOf(net', i) = txs /\ row'[i] = row[i]
  BY <1>0
<1> HIDE DEF txs
<1>12. /\ \A x \in OwnedOps(r, row[i], txs) :
            x \in OwnedOps(h[w], row[i], txs) /\ utxos'[x] # "FREE"
       /\ \A x \in Outpoints : utxos'[x] = "FREE" =>
            utxos[x] = "FREE" \/ x \in OwnedOps(h[w], row[i], txs)
  BY <1>1, <1>5, <1>7, <1>8, <1>9
<1>13. \A x \in Outpoints : utxos'[x] = "LOCKED" =>
         \/ x \in KeptOps(r, row[i])
         \/ utxos[x] = "LOCKED" /\ x \notin KeptOps(h[w], row[i])
  BY <1>4, <1>5
<1>14. nonce.pending \in Nat /\ nonce'.pending = nonce.pending
  BY <1>0 DEF IInv, TypeOK, NonceRow
<1>15. FailsOnce(setting) =>
         /\ \A n \in OwnedNonces(r, row[i], txs) :
              n \in OwnedNonces(h[w], row[i], txs) /\ n < nonce'.pending
         /\ nonce'.pending >= nonce.pending
  <2>1. nonce'.pending = nonce.pending /\ nonce'.pending >= nonce.pending
    BY <1>14
  <2>2. FailsOnce(setting) => \A n \in OwnedNonces(h[w], row[i], txs) : n < nonce.pending
    BY <1>1 DEF txs
  <2> HIDE DEF i
  <2>3. QED
    BY <1>10, <2>1, <2>2
<1>16. QED
  BY <1>4, <1>11, <1>12, <1>13, <1>15, LocalStep DEF txs

-----------------------------------------------------------------------------
(* Fail and OnReorg.                                                       *)
LEMMA FailHeld ==
  ASSUME IInv, IInv', Order, Resources, Calm(setting), NEW w \in Workers, NEW i \in Ids,
         Fail(w, i)
  PROVE  Held(setting, h', row', net', utxos', nonce'.pending)
<1> DEFINE u == [Idle EXCEPT !.pc = "undo", !.id = i, !.nonce = row[i].nonce, !.to = "FAILED"]
           r == Finish(u)
           txs == NetOf(net, i)
<1>1. /\ At(w, "idle") /\ (\A v \in Workers : h[v].id # i)
      /\ UNCHANGED <<setting, row, nonce, utxos, net>>
      /\ row[i].state \in setting.failFrom
  BY DEF Fail, Starts, Free, Serial, Calm, FailFrom
<1>2. /\ h[w].id = None /\ row[i] \in Row /\ Sound(setting, Idle, row[i], txs)
      /\ OfChain(setting, row[i].nonce, row[i].ops)
  BY <1>1, AtStart
<1>3. /\ u.pc = "undo" /\ u.id = i /\ u.nonce = row[i].nonce /\ u.ops = {}
      /\ u.to = "FAILED"
  BY DEF Idle
<1>4. u \in Handler
  BY <1>2 DEF Idle, Handler, PC, States, Row
<1>5. Become(w, r)
  BY DEF Fail, RollBack, Idle
<1> HIDE DEF u
<1>6. i # None /\ Fits(setting, u, row[i].state)
  BY <1>1, <1>3 DEF Fits, Leads, Constructing, States
<1>7. FailsOnce(setting) /\ row[i].nonce # None => row[i].state = "SIGNED"
  BY <1>1, <1>2 DEF FailsOnce, OfChain, Sound
<1>8. Sound(setting, u, row[i], txs)
  BY <1>2, <1>3, <1>7 DEF Sound, Sending, Idle
<1>9. /\ r.id = i \/ r = Idle
      /\ KeptOps(r, row[i]) = {} /\ KeptNonces(r, row[i]) = {row[i].nonce} \ {None}
      /\ Sound(setting, r, row[i], txs)
  <2>1. u.id # None /\ u.pc \in {"undo", "settle", "restore"}
    BY <1>3, <1>6
  <2>2. /\ r.id = u.id \/ r = Idle
        /\ KeptOps(r, row[i]) = u.ops /\ KeptNonces(r, row[i]) = {u.nonce} \ {None}
        /\ Sound(setting, r, row[i], txs)
    <3> HIDE DEF txs
    <3>1. QED
      BY <1>4, <1>6, <1>8, <2>1, FinishKeeps
  <2>3. QED
    BY <1>3, <2>2
<1> HIDE DEF r
<1>10. StepOn(w, i, r, Idle)
  BY <1>1, <1>2, <1>5, <1>9, FirstStep
<1>11. "SIGNED" \notin setting.failFrom => KeptOps(Idle, row[i]) = {}
  BY <1>1 DEF KeptOps, Idle
<1>12. FailsOnce(setting) => KeptNonces(r, row[i]) \subseteq KeptNonces(Idle, row[i])
  BY <1>7, <1>9 DEF KeptNonces, Idle
<1>13. QED
  BY <1>1, <1>9, <1>10, <1>11, <1>12, QuietStep

LEMMA ReorgHeld ==
  ASSUME IInv, IInv', Order, Resources, Calm(setting), NEW w \in Workers, NEW t \in net,
         OnReorg(w, t)
  PROVE  Held(setting, h', row', net', utxos', nonce'.pending)
<1> DEFINE i == t.id
           u == [Idle EXCEPT !.pc = "restore", !.id = i, !.ops = t.ins,
                   !.to = IF row[i].state = "CONFIRMED" THEN "BROADCAST" ELSE None]
           r == Finish(u)
<1>0. t \in Tx /\ i \in Ids /\ t.ins \subseteq Outpoints
  BY DEF IInv, TypeOK, Tx
<1>1. /\ At(w, "idle") /\ (\A v \in Workers : h[v].id # i)
      /\ UNCHANGED <<setting, row, nonce, utxos>> /\ net' = net \ {t}
  BY DEF OnReorg, Starts, Free, Serial, Calm
<1>2. /\ h[w].id = None /\ row[i] \in Row /\ Sound(setting, Idle, row[i], NetOf(net, i))
  BY <1>0, <1>1, AtStart
<1>3. NetOf(net, i) = {t}
  BY <1>2 DEF NetOf, Sound
<1>4. NetOf(net', i) = {} /\ \A j \in Ids : j # i => NetOf(net', j) = NetOf(net, j)
  BY <1>1, <1>3 DEF NetOf
<1>5. row[i].state \in {"BROADCAST", "CONFIRMED", "FAILED"}
  BY <1>2, <1>3 DEF Sound, Sending, Idle
<1>6. /\ u.pc = "restore" /\ u.id = i /\ u.nonce = None /\ u.ops = t.ins
      /\ u.to = IF row[i].state = "CONFIRMED" THEN "BROADCAST" ELSE None
  BY DEF Idle
<1>7. u \in Handler
  BY <1>0 DEF Idle, Handler, PC, States, InFlight
<1>8. Become(w, r)
  BY DEF OnReorg
<1> HIDE DEF u
<1>9. i # None /\ "BROADCAST" # None
  BY <1>0 DEF States, InFlight
<1>10. Fits(setting, u, row[i].state)
  BY <1>6, <1>9 DEF Fits, Leads, Constructing, Lifecycle!Forward
<1>11. Sound(setting, u, row[i], {})
  BY <1>2, <1>5, <1>6 DEF Sound
<1>12. /\ r.id = i \/ r = Idle
       /\ KeptOps(r, row[i]) = t.ins /\ KeptNonces(r, row[i]) = {}
       /\ Sound(setting, r, row[i], {})
  <2>1. u.id # None /\ u.pc \in {"undo", "settle", "restore"}
    BY <1>6, <1>9
  <2>2. /\ r.id = u.id \/ r = Idle
        /\ KeptOps(r, row[i]) = u.ops /\ KeptNonces(r, row[i]) = {u.nonce} \ {None}
        /\ Sound(setting, r, row[i], {})
    <3> HIDE DEF i
    <3>1. QED
      BY <1>7, <1>10, <1>11, <2>1, FinishKeeps
  <2>3. QED
    BY <1>6, <2>2
<1> HIDE DEF r
<1>13. StepOn(w, i, r, Idle)
  BY <1>1, <1>2, <1>4, <1>8, <1>12 DEF StepOn
<1>14. OwnedOps(r, row[i], {}) = t.ins /\ OwnedNonces(r, row[i], {}) = {}
  BY <1>12 DEF OwnedOps, OwnedNonces
<1>15. t.ins \subseteq OwnedOps(Idle, row[i], NetOf(net, i))
  BY <1>3 DEF OwnedOps
<1>16. \A o \in OwnedOps(Idle, row[i], NetOf(net, i)) : utxos[o] # "FREE"
  <2>1. Agent(h, i) = Idle
    BY <1>1, AgentIdle
  <2>2. QED
    BY <1>0, <2>1 DEF Resources, Held, OpsHeld, OpsOf
<1>17. KeptOps(Idle, row[i]) = {}
  BY <1>5 DEF KeptOps, Idle
<1>18. nonce.pending \in Nat /\ nonce'.pending = nonce.pending
  BY <1>1 DEF IInv, TypeOK, NonceRow
<1>19. QED
  <2> HIDE DEF i
  <2>1. row'[i] = row[i] /\ NetOf(net', i) = {} /\ utxos' = utxos
    BY <1>1, <1>4
  <2>2. \A o \in OwnedOps(r, row'[i], NetOf(net', i)) :
          o \in OwnedOps(Idle, row[i], NetOf(net, i)) /\ utxos'[o] # "FREE"
    BY <1>14, <1>15, <1>16, <2>1
  <2>3. FailsOnce(setting) =>
          /\ \A n \in OwnedNonces(r, row'[i], NetOf(net', i)) : FALSE
          /\ nonce'.pending >= nonce.pending
    <3>1. nonce'.pending >= nonce.pending
      BY <1>18
    <3>2. QED
      BY <1>14, <2>1, <3>1
  <2>4. Sound(setting, r, row'[i], NetOf(net', i))
    BY <1>12, <2>1
  <2>5. \A o \in Outpoints : utxos'[o] = "LOCKED" =>
          utxos[o] = "LOCKED" /\ o \notin KeptOps(Idle, row[i])
    BY <1>17, <2>1
  <2>6. i \in Ids /\ StepOn(w, i, r, Idle)
    BY <1>0, <1>13 DEF i
  <2>7. QED
    BY <2>1, <2>2, <2>3, <2>4, <2>5, <2>6, LocalStep

-----------------------------------------------------------------------------
(* The index lets a withdrawal that is in flight stay so.                  *)
LEMMA DedupHolds ==
  ASSUME Resources, NEW i \in Ids, row[i].state \in InFlight, NEW s
  PROVE  Dedup(i, s)
  BY DEF Resources, Deduped, Dedup

(* SaveState, the last step of an operation.                               *)
LEMMA SaveHeld ==
  ASSUME IInv, IInv', Order, Resources, Calm(setting), NEW w \in Workers, SaveState(w)
  PROVE  Held(setting, h', row', net', utxos', nonce'.pending)
<1> DEFINE i == h[w].id
           txs == NetOf(net, i)
           s == h[w].to
<1>0. /\ h[w].pc = "save" /\ h[w].pc \notin {"idle", "setWallet"}
      /\ UNCHANGED <<setting, nonce, utxos, net>> /\ Become(w, Idle)
  BY DEF SaveState, At, Return
<1>1. /\ i \in Ids /\ i # None /\ row \in [Ids -> Row]
      /\ Fits(setting, h[w], row[i].state) /\ Agrees(h[w], row[i])
      /\ Sound(setting, h[w], row[i], txs) /\ ~StoreFails
  BY <1>0, AtWork
<1>2. \/ Dedup(i, s) /\ row' = [row EXCEPT ![i].state = s]
      \/ ~Dedup(i, s) /\ row' = row
  BY <1>1 DEF SaveState
<1>3. s \in States
  <2>1. CASE row' = [row EXCEPT ![i].state = s]
    <3>1. row'[i].state = s
      BY <1>1, <2>1 DEF Row
    <3>2. QED
      BY <1>1, <3>1 DEF IInv, TypeOK, Row
  <2>2. CASE ~Dedup(i, s)
    BY <2>2 DEF Dedup, States
  <2>3. QED
    BY <1>2, <2>1, <2>2
<1>4. Leads(setting, row[i].state, s)
  BY <1>0, <1>1, <1>3 DEF Fits
<1>5. /\ \A j \in Ids : j # i => row'[j] = row[j]
      /\ row'[i].nonce = row[i].nonce /\ row'[i].ops = row[i].ops
      /\ \/ row'[i].state = s
         \/ row'[i].state = row[i].state /\ s \in InFlight /\ row[i].state \notin InFlight
  <2>1. CASE Dedup(i, s) /\ row' = [row EXCEPT ![i].state = s]
    BY <1>1, <1>3, <2>1, OneRow
  <2>2. CASE ~Dedup(i, s) /\ row' = row
    <3>1. s \in InFlight /\ row[i].state \notin InFlight
      BY <1>1, <2>2, DedupHolds DEF Dedup
    <3>2. QED
      BY <2>2, <3>1
  <2>3. QED
    BY <1>2, <2>1, <2>2
<1>6. StepOn(w, i, Idle, h[w])
  BY <1>0, <1>5, OwnStep
<1>7. Sound(setting, Idle, row'[i], txs)
  <2>1. ASSUME txs # {}
        PROVE  \/ row'[i].state \in {"BROADCAST", "CONFIRMED"}
               \/ row'[i].state = "FAILED" /\ ~NotAfterSend(setting)
    <3>1. CASE s = "BROADCAST"
      BY <1>4, <1>5, <3>1 DEF Leads, Lifecycle!Forward, InFlight
    <3>2. CASE row[i].state \in {"BROADCAST", "CONFIRMED", "FAILED"} /\ s # "BROADCAST"
      BY <1>1, <1>4, <1>5, <2>1, <3>2
         DEF Leads, Lifecycle!Forward, Lifecycle!MayFail, NotAfterSend, InFlight, Sound, Sending
    <3>3. QED
      BY <1>0, <1>1, <2>1, <3>1, <3>2 DEF Sound, Sending
  <2>2. row'[i].state \in {"ABSENT", "PENDING"} => row'[i].nonce = None
    BY <1>1, <1>4, <1>5 DEF Leads, Lifecycle!Forward, Sound, InFlight
  <2>3. QED
    BY <1>1, <2>1, <2>2 DEF Sound, Idle
<1>8. /\ KeptOps(h[w], row[i]) = h[w].ops /\ KeptNonces(h[w], row[i]) = {h[w].nonce} \ {None}
  BY <1>0, <1>1 DEF KeptOps, KeptNonces
<1>9. /\ KeptOps(Idle, row'[i]) = h[w].ops
      /\ KeptNonces(Idle, row'[i]) = {h[w].nonce} \ {None}
  <2>1. CASE s = "SIGNED"
    <3>1. row'[i].state = "SIGNED"
      BY <1>4, <1>5, <2>1 DEF Leads, Lifecycle!Forward, InFlight
    <3>2. row[i].ops = h[w].ops /\ row[i].nonce = h[w].nonce
      BY <1>0, <1>1, <2>1 DEF Agrees
    <3>3. QED
      BY <1>5, <3>1, <3>2 DEF KeptOps, KeptNonces, Idle
  <2>2. CASE s # "SIGNED"
    <3>1. h[w].ops = {} /\ h[w].nonce = None
      BY <1>0, <1>1, <2>2 DEF Sound
    <3>2. row'[i].state # "SIGNED"
      BY <1>5, <2>2 DEF InFlight
    <3>3. QED
      BY <3>1, <3>2 DEF KeptOps, KeptNonces, Idle
  <2>3. QED
    BY <2>1, <2>2
<1>10. QED
  BY <1>0, <1>1, <1>6, <1>7, <1>8, <1>9, QuietStep

(* SetState of the wallet service: it has no request.                      *)
LEMMA WalletHeld ==
  ASSUME IInv, IInv', Order, Resources, Calm(setting), NEW w \in Workers,
         (\E s \in setting.walletStates : SetState(w, s)) \/ UpdateWalletState(w)
  PROVE  Held(setting, h', row', net', utxos', nonce'.pending)
<1>1. /\ h[w].pc \in {"idle", "setWallet"} /\ h[w].id = None
      /\ UNCHANGED <<setting, row, nonce, utxos, net>>
  BY DEF SetState, Free, UpdateWalletState, At, Resources, Resting
<1>2. PICK r : Become(w, r) /\ r.id = None
  <2>1. ASSUME NEW s \in setting.walletStates, SetState(w, s)
        PROVE  \E r : Become(w, r) /\ r.id = None
    <3> DEFINE r == [Idle EXCEPT !.pc = "setWallet", !.to = s]
    <3>1. Become(w, r) /\ r.id = None
      BY <2>1 DEF SetState, Idle
    <3> HIDE DEF r
    <3>2. QED
      BY <3>1
  <2>2. CASE UpdateWalletState(w)
    <3>1. Become(w, Idle) /\ Idle.id = None
      BY <2>2 DEF UpdateWalletState, Return, Idle
    <3>2. QED
      BY <3>1
  <2>3. QED
    BY <2>1, <2>2
<1>3. \A v \in Workers : h'[v] = IF v = w THEN r ELSE h[v]
  BY <1>2 DEF Become, IInv, TypeOK
<1>4. \A u, v \in Workers : u # v /\ h[u].id = h[v].id => h[u].id = None
  BY DEF Order, InOrder, Calm
<1>5. ASSUME NEW i \in Ids PROVE Agent(h', i) = Agent(h, i)
  <2>1. h[w].id # i /\ h'[w].id # i
    BY <1>1, <1>2, <1>3
  <2>2. \A v \in Workers : v # w => h'[v] = h[v]
    BY <1>3
  <2>3. \A u, v \in Workers : u # v /\ h[u].id = i => h[v].id # i
    BY <1>4
  <2>4. QED
    BY <2>1, <2>2, <2>3, AgentKept
<1>6. Held(setting, h, row, net, utxos, nonce.pending)
  BY DEF Resources
<1>7. AllSound(setting, h', row, net)
  BY <1>5, <1>6 DEF Held, AllSound
<1>8. OpsHeld(h', row, net, utxos)
  BY <1>5, <1>6 DEF Held, OpsHeld, OpsOf
<1>9. FailsOnce(setting) => NoncesHeld(h', row, net, nonce.pending)
  BY <1>5, <1>6 DEF Held, NoncesHeld, NoncesOf
<1>10. "SIGNED" \notin setting.failFrom => LocksKept(h', row, utxos)
  BY <1>5, <1>6 DEF Held, LocksKept
<1>11. Held(setting, h', row, net, utxos, nonce.pending)
  BY <1>7, <1>8, <1>9, <1>10 DEF Held
<1>12. QED
  BY <1>1, <1>11

-----------------------------------------------------------------------------
(* The index and the workers at rest, under any setting.                   *)
LEMMA DedupedStep ==
  ASSUME IInv, Resources, [Next]_vars
  PROVE  Deduped(row)'
<1>1. Deduped(row) /\ row \in [Ids -> Row]
  BY DEF Resources, IInv, TypeOK
<1>2. CASE \A i \in Ids : row'[i].state = row[i].state
  BY <1>1, <1>2 DEF Deduped
<1>3. ASSUME NEW i, NEW s, Dedup(i, s), row' = [row EXCEPT ![i].state = s]
      PROVE  Deduped(row)'
  <2>1. \A j \in Ids : row'[j].state = IF j = i THEN s ELSE row[j].state
    BY <1>1, <1>3 DEF Row
  <2>2. ASSUME NEW j \in Ids, NEW k \in Ids, j # k, Payment[j] = Payment[k],
               row'[j].state \in InFlight
        PROVE  row'[k].state \notin InFlight
    <3>1. CASE j = i
      BY <1>3, <2>1, <2>2, <3>1 DEF Dedup
    <3>2. CASE k = i
      BY <1>3, <2>1, <2>2, <3>2 DEF Dedup
    <3>3. CASE j # i /\ k # i
      BY <1>1, <2>1, <2>2, <3>3 DEF Deduped
    <3>4. QED
      BY <3>1, <3>2, <3>3
  <2>3. QED
    BY <2>2 DEF Deduped
<1>4. ASSUME NEW w \in Workers, InsertRow(w) \/ SaveState(w) PROVE Deduped(row)'
  BY <1>2, <1>3, <1>4 DEF InsertRow, SaveState
<1>5. ASSUME NEW w \in Workers, Persist(w) \/ SaveTx(w) PROVE Deduped(row)'
  <2>1. \A i \in Ids : row'[i].state = row[i].state
    BY <1>1, <1>5 DEF Persist, Persisted, SaveTx, Row
  <2>2. QED
    BY <1>2, <2>1
<1>6. CASE row' = row
  BY <1>2, <1>6
<1>7. QED
  BY <1>4, <1>5, <1>6, Frame

Rests(r) == r.pc \in {"idle", "setWallet"} => r.id = None

LEMMA FinishRests ==
  ASSUME NEW u \in Handler, u.pc \in {"undo", "settle", "restore"}
  PROVE  Rests(Finish(u))
<1>1. [u EXCEPT !.pc = "save"].pc = "save"
  BY DEF Handler
<1>2. QED
  BY <1>1 DEF Rests, Finish, Idle

LEMMA RollBackRests == \A r \in Handler, s \in {None, "FAILED"} : Rests(RollBack(r, s))
<1> SUFFICES ASSUME NEW r \in Handler, NEW s \in {None, "FAILED"} PROVE Rests(RollBack(r, s))
  OBVIOUS
<1> DEFINE u == [r EXCEPT !.pc = "undo", !.to = s]
<1>1. u \in Handler /\ u.pc = "undo"
  BY DEF Handler, PC, States
<1> HIDE DEF u
<1>2. Rests(Finish(u))
  BY <1>1, FinishRests
<1>3. QED
  BY <1>2 DEF RollBack, u

LEMMA RestingStep ==
  ASSUME IInv, Resources, [Next]_vars
  PROVE  Resting(h)'
<1>0. Resting(h) /\ h \in [Workers -> Handler] /\ row \in [Ids -> Row] /\ net \subseteq Tx
  BY DEF Resources, IInv, TypeOK
<1>1. Rests(Idle)
  BY DEF Rests, Idle
<1>2. ASSUME NEW w \in Workers, NEW r, Become(w, r), Rests(r) PROVE Resting(h)'
  BY <1>0, <1>2 DEF Become, Rests, Resting
<1>3. ASSUME NEW w \in Workers,
             \/ InsertRow(w) \/ Approve(w) \/ Reject(w) \/ ReserveNonce(w) \/ SelectList(w)
             \/ ReserveFails(w) \/ SelectLock(w)
      PROVE  Resting(h)'
  <2>1. h[w] \in Handler
    BY <1>0
  <2>2. \A p \in {"check", "persist"} : Rests([h[w] EXCEPT !.pc = p])
    BY <2>1 DEF Rests, Handler
  <2>3. \A s, n, ops : /\ Rests([h[w] EXCEPT !.pc = "save", !.to = s])
                       /\ Rests([h[w] EXCEPT !.pc = "persist", !.nonce = n])
                       /\ Rests([h[w] EXCEPT !.pc = "lock", !.ops = ops])
    BY <2>1 DEF Rests, Handler
  <2>4. CASE InsertRow(w) \/ SelectLock(w)
    BY <1>1, <1>2, <2>2, <2>4 DEF InsertRow, SelectLock, Goto, Return
  <2>5. CASE Approve(w) \/ Reject(w)
    BY <1>2, <2>3, <2>5 DEF Approve, Reject
  <2>6. CASE ReserveNonce(w) \/ SelectList(w) \/ ReserveFails(w)
    BY <1>1, <1>2, <2>3, <2>6 DEF ReserveNonce, SelectList, ReserveFails, Return
  <2>7. QED
    BY <1>3, <2>4, <2>5, <2>6
<1>4. ASSUME NEW w \in Workers,
             \/ Persist(w) \/ BuildAndSign(w) \/ BuildFails(w) \/ SignFails(w) \/ SaveTx(w)
             \/ SendFails(w)
      PROVE  Resting(h)'
  <2>1. h[w] \in Handler
    BY <1>0
  <2>2. Rests([h[w] EXCEPT !.pc = "build"])
    BY <2>1 DEF Rests, Handler
  <2>3. \A s, t : /\ Rests([h[w] EXCEPT !.pc = "save", !.to = s])
                  /\ Rests([h[w] EXCEPT !.pc = "saveTx", !.tx = t])
    BY <2>1 DEF Rests, Handler
  <2>4. Rests(RollBack(h[w], None)) /\ Rests(RollBack(h[w], "FAILED"))
    BY <2>1, RollBackRests
  <2>5. CASE Persist(w) \/ BuildAndSign(w) \/ SaveTx(w)
    BY <1>2, <2>2, <2>3, <2>4, <2>5 DEF Persist, BuildAndSign, SaveTx, Goto
  <2>6. CASE BuildFails(w) \/ SignFails(w) \/ SendFails(w)
    BY <1>2, <2>4, <2>6 DEF BuildFails, SignFails, SendFails
  <2>7. QED
    BY <1>4, <2>5, <2>6
<1>5. ASSUME NEW w \in Workers,
             \/ SendOk(w) \/ SettleNonce(w) \/ UndoNonce(w) \/ LoopFails(w)
             \/ \E o \in Outpoints : SettleRow(w, o) \/ UndoRow(w, o) \/ RestoreRow(w, o)
      PROVE  Resting(h)'
  <2>1. h[w] \in Handler
    BY <1>0
  <2>2. Rests(Finish([h[w] EXCEPT !.pc = "settle", !.to = "BROADCAST"]))
    <3> DEFINE u == [h[w] EXCEPT !.pc = "settle", !.to = "BROADCAST"]
    <3>1. u \in Handler /\ u.pc = "settle"
      BY <2>1 DEF Handler, PC, States, InFlight
    <3> HIDE DEF u
    <3>2. Rests(Finish(u))
      BY <3>1, FinishRests
    <3>3. QED
      BY <3>2 DEF u
  <2>3. ASSUME h[w].pc \in {"undo", "settle", "restore"}
        PROVE  /\ Rests(Finish([h[w] EXCEPT !.nonce = None]))
               /\ Rests(Finish([h[w] EXCEPT !.ops = {}]))
               /\ \A o : Rests(Finish([h[w] EXCEPT !.ops = h[w].ops \ {o}]))
    <3>1. \A u \in Handler : u.pc = h[w].pc => Rests(Finish(u))
      BY <2>3, FinishRests
    <3>2. [h[w] EXCEPT !.nonce = None] \in Handler /\ [h[w] EXCEPT !.ops = {}] \in Handler
      BY <2>1 DEF Handler
    <3>3. \A o : [h[w] EXCEPT !.ops = h[w].ops \ {o}] \in Handler
      BY <2>1 DEF Handler
    <3>4. /\ [h[w] EXCEPT !.nonce = None].pc = h[w].pc /\ [h[w] EXCEPT !.ops = {}].pc = h[w].pc
          /\ \A o : [h[w] EXCEPT !.ops = h[w].ops \ {o}].pc = h[w].pc
      BY <2>1 DEF Handler
    <3>5. QED
      BY <3>1, <3>2, <3>3, <3>4
  <2>4. CASE SendOk(w)
    BY <1>2, <2>2, <2>4 DEF SendOk
  <2>5. CASE SettleNonce(w) \/ UndoNonce(w) \/ LoopFails(w)
    BY <1>2, <2>3, <2>5 DEF SettleNonce, UndoNonce, LoopFails, At
  <2>6. ASSUME NEW o \in Outpoints, SettleRow(w, o) \/ UndoRow(w, o) \/ RestoreRow(w, o)
        PROVE  Resting(h)'
    BY <1>1, <1>2, <2>3, <2>6 DEF SettleRow, UndoRow, RestoreRow, At, Return
  <2>7. QED
    BY <1>5, <2>4, <2>5, <2>6
<1>6. ASSUME NEW w \in Workers,
             SaveState(w) \/ UpdateWalletState(w) \/ Crash(w)
             \/ \E s \in setting.walletStates : SetState(w, s)
      PROVE  Resting(h)'
  <2>1. \A s : Rests([Idle EXCEPT !.pc = "setWallet", !.to = s])
    BY DEF Rests, Idle
  <2>2. QED
    BY <1>1, <1>2, <1>6, <2>1 DEF SaveState, UpdateWalletState, Crash, SetState, Return
<1>7. ASSUME NEW w \in Workers, NEW i \in Ids,
             \/ Create(w, i) \/ ConstructAndSign(w, i) \/ Broadcast(w, i)
             \/ Confirm(w, i) \/ Fail(w, i)
      PROVE  Resting(h)'
  <2>1. CASE Create(w, i)
    BY <1>2, <2>1 DEF Create, Rests, Idle
  <2>2. CASE ConstructAndSign(w, i)
    BY <1>2, <2>2 DEF ConstructAndSign, Rests, Idle
  <2>3. CASE Broadcast(w, i)
    BY <1>2, <2>3 DEF Broadcast, Rests, Idle
  <2>4. CASE Confirm(w, i)
    BY <1>2, <2>4 DEF Confirm, Rests, Idle
  <2>5. CASE Fail(w, i)
    <3> DEFINE r == [Idle EXCEPT !.id = i, !.nonce = row[i].nonce]
    <3>1. r \in Handler
      BY <1>0 DEF Idle, Handler, PC, Row
    <3>2. Become(w, RollBack(r, "FAILED"))
      BY <2>5 DEF Fail
    <3> HIDE DEF r
    <3>3. QED
      BY <1>2, <3>1, <3>2, RollBackRests
  <2>6. QED
    BY <1>7, <2>1, <2>2, <2>3, <2>4, <2>5
<1>8. ASSUME NEW w \in Workers, NEW t \in net, OnReorg(w, t) PROVE Resting(h)'
  <2> DEFINE u == [Idle EXCEPT !.pc = "restore", !.id = t.id, !.ops = t.ins,
                     !.to = IF row[t.id].state = "CONFIRMED" THEN "BROADCAST" ELSE None]
  <2>1. u \in Handler /\ u.pc = "restore"
    BY <1>0 DEF Idle, Handler, PC, Tx, States, InFlight
  <2>2. Become(w, Finish(u))
    BY <1>8 DEF OnReorg
  <2> HIDE DEF u
  <2>3. QED
    BY <1>2, <2>1, <2>2, FinishRests
<1>9. CASE UNCHANGED vars
  BY <1>0, <1>9 DEF vars, Resting
<1>10. ASSUME NEW w \in Workers, Step(w) PROVE Resting(h)'
  BY <1>3, <1>4, <1>5, <1>6, <1>10 DEF Step
<1>11. QED
  BY <1>6, <1>7, <1>8, <1>9, <1>10 DEF Next

-----------------------------------------------------------------------------
LEMMA NextHeld ==
  ASSUME IInv, IInv', Order, Resources, Calm(setting), [Next]_vars
  PROVE  Held(setting, h', row', net', utxos', nonce'.pending)
<1>1. ASSUME NEW w \in Workers, Step(w)
      PROVE  Held(setting, h', row', net', utxos', nonce'.pending)
  <2>1. ~LoopFails(w)
    BY DEF LoopFails, StoreFails, Faults, Calm
  <2>2. CASE InsertRow(w) \/ Approve(w) \/ Reject(w)
    BY <2>2, CreateHeld
  <2>3. CASE ReserveNonce(w) \/ SelectList(w) \/ ReserveFails(w) \/ SelectLock(w)
    BY <2>3, ReserveHeld
  <2>4. CASE Persist(w) \/ BuildAndSign(w) \/ BuildFails(w) \/ SignFails(w) \/ SaveTx(w)
    BY <2>4, BuildHeld
  <2>5. CASE SendOk(w) \/ SendFails(w)
    BY <2>5, SendHeld
  <2>6. CASE SettleNonce(w) \/ UndoNonce(w)
    BY <2>6, NonceHeld
  <2>7. ASSUME NEW o \in Outpoints, SettleRow(w, o) \/ UndoRow(w, o) \/ RestoreRow(w, o)
        PROVE  Held(setting, h', row', net', utxos', nonce'.pending)
    BY <2>7, RowHeld
  <2>8. CASE SaveState(w)
    BY <2>8, SaveHeld
  <2>9. CASE UpdateWalletState(w)
    BY <2>9, WalletHeld
  <2>10. QED
    BY <1>1, <2>1, <2>2, <2>3, <2>4, <2>5, <2>6, <2>7, <2>8, <2>9 DEF Step
<1>2. ASSUME NEW w \in Workers, NEW i \in Ids,
             \/ Create(w, i) \/ ConstructAndSign(w, i) \/ Broadcast(w, i)
             \/ Confirm(w, i) \/ Fail(w, i)
      PROVE  Held(setting, h', row', net', utxos', nonce'.pending)
  <2>1. CASE Create(w, i)
    BY <2>1, CreateHeld
  <2>2. CASE ConstructAndSign(w, i) \/ Confirm(w, i)
    BY <2>2, StartHeld
  <2>3. CASE Broadcast(w, i)
    BY <2>3, BroadcastHeld
  <2>4. CASE Fail(w, i)
    BY <2>4, FailHeld
  <2>5. QED
    BY <1>2, <2>1, <2>2, <2>3, <2>4
<1>3. ASSUME NEW w \in Workers, NEW t \in net, OnReorg(w, t)
      PROVE  Held(setting, h', row', net', utxos', nonce'.pending)
  BY <1>3, ReorgHeld
<1>4. ASSUME NEW w \in Workers, \E s \in setting.walletStates : SetState(w, s)
      PROVE  Held(setting, h', row', net', utxos', nonce'.pending)
  BY <1>4, WalletHeld
<1>5. ASSUME NEW w \in Workers PROVE ~Crash(w)
  BY DEF Crash, Faults, Calm
<1>6. CASE UNCHANGED vars
  <2>1. UNCHANGED <<h, row, net, utxos, nonce>>
    BY <1>6 DEF vars
  <2>2. QED
    BY <2>1 DEF Resources
<1>7. CASE Next
  <2>1. PICK w \in Workers :
          \/ Step(w) \/ Crash(w)
          \/ \E i \in Ids : \/ Create(w, i) \/ ConstructAndSign(w, i)
                          \/ Broadcast(w, i) \/ Confirm(w, i) \/ Fail(w, i)
          \/ \E t \in net : OnReorg(w, t)
          \/ \E s \in setting.walletStates : SetState(w, s)
    BY <1>7 DEF Next
  <2>2. QED
    BY <1>1, <1>2, <1>3, <1>4, <1>5, <2>1
<1>8. QED
  BY <1>6, <1>7

LEMMA NextResources == IInv /\ Order /\ Resources /\ [Next]_vars => Resources'
<1> SUFFICES ASSUME IInv, Order, Resources, [Next]_vars PROVE Resources'
  OBVIOUS
<1>1. IInv' /\ setting' = setting
  BY NextIInv, Frame
<1>2. Deduped(row)' /\ Resting(h)'
  BY DedupedStep, RestingStep
<1>3. Calm(setting) => Held(setting, h', row', net', utxos', nonce'.pending)
  BY <1>1, NextHeld
<1>4. QED
  BY <1>1, <1>2, <1>3 DEF Resources

LEMMA ResourcesHold == Spec => [](IInv /\ Order /\ Resources)
  BY InitIInv, NextIInv, InitOrder, NextOrder, InitResources, NextResources, PTL DEF Spec

-----------------------------------------------------------------------------
(* What the owner of a resource is.                                        *)
LEMMA AgentCases ==
  ASSUME NEW i
  PROVE  \/ Agent(h, i) = Idle
         \/ \E w \in Workers : h[w].id = i /\ Agent(h, i) = h[w]
  BY DEF Agent

LEMMA OrderlyCalm == Orderly <=> Calm(setting)
  BY DEF Orderly, Calm, Serial, Faults

(* No failure path of ConstructAndSign, Broadcast or OnReorg forgets to    *)
(* unlock an outpoint: one that is LOCKED has an operation that works on   *)
(* it or a SIGNED withdrawal that will spend it, whatever the interleaving *)
(* of the operations, unless Fail (which passes no outpoints to rollback)  *)
(* is called on a SIGNED withdrawal.                                       *)
THEOREM LocksHaveOwners == Spec => []NoOrphanLock
<1>1. IInv /\ Order /\ Resources => NoOrphanLock
  <2> SUFFICES ASSUME IInv, Resources, Orderly, "SIGNED" \notin FailFrom,
                      NEW o \in Outpoints, utxos[o] = "LOCKED"
               PROVE  \/ \E w \in Workers : o \in h[w].ops
                      \/ \E i \in Ids : row[i].state = "SIGNED" /\ o \in row[i].ops
    BY DEF NoOrphanLock
  <2>1. LocksKept(h, row, utxos)
    BY OrderlyCalm DEF Resources, Held, FailFrom
  <2>2. PICK i \in Ids : o \in KeptOps(Agent(h, i), row[i])
    BY <2>1 DEF LocksKept
  <2>3. CASE Agent(h, i) = Idle
    BY <2>2, <2>3 DEF KeptOps, Idle
  <2>4. ASSUME NEW w \in Workers, h[w].id = i, Agent(h, i) = h[w]
        PROVE  o \in h[w].ops
    BY <2>2, <2>4 DEF KeptOps
  <2>5. QED
    BY <2>3, <2>4, AgentCases
<1>2. QED
  BY <1>1, ResourcesHold, PTL

(* Two requests for the same payment are never both out unless one was     *)
(* confirmed, if Fail is not called on a withdrawal that was sent: the     *)
(* partial unique index withdrawal_inflight_dedup admits one of them in    *)
(* flight, and a transaction is on the network only while its row is       *)
(* SIGNED (its operation has yet to record the broadcast), BROADCAST or    *)
(* CONFIRMED, through broadcast failures, confirmations and reorgs.        *)
THEOREM PaidOnce == Spec => [](Regular => OnePayout)
<1>1. IInv /\ Order /\ Resources => (Regular => OnePayout)
  <2> SUFFICES ASSUME IInv, Order, Resources, Regular, Orderly
               PROVE  \A t, u \in net : t.id # u.id /\ Payment[t.id] = Payment[u.id] =>
                        "CONFIRMED" \in {row[t.id].state, row[u.id].state}
    BY DEF OnePayout
  <2>1. Calm(setting) /\ NotAfterSend(setting) /\ setting.serial
    BY OrderlyCalm DEF Regular, NotAfterSend, FailFrom, Serial
  <2>2. ASSUME NEW t \in net
        PROVE  t.id \in Ids /\ row[t.id].state \in {"SIGNED", "BROADCAST", "CONFIRMED"}
    <3>1. t.id \in Ids
      BY <2>2 DEF IInv, TypeOK, Tx
    <3>2. Sound(setting, Agent(h, t.id), row[t.id], NetOf(net, t.id))
      BY <2>1, <3>1 DEF Resources, Held, AllSound
    <3>3. NetOf(net, t.id) # {}
      BY <2>2 DEF NetOf
    <3>4. \/ Sending(Agent(h, t.id)) \/ row[t.id].state \in {"BROADCAST", "CONFIRMED"}
      BY <2>1, <3>2, <3>3 DEF Sound
    <3>5. ASSUME NEW w \in Workers, h[w].id = t.id, Sending(h[w])
          PROVE  row[t.id].state \in {"SIGNED", "CONFIRMED"}
      <4>1. Fits(setting, h[w], row[t.id].state)
        BY <2>1, <3>1, <3>5 DEF Order, InOrder, Ordered
      <4>2. "BROADCAST" # None
        BY DEF States, InFlight
      <4>3. QED
        BY <3>5, <4>1, <4>2 DEF Sending, Fits, Leads, Lifecycle!Forward
    <3>6. ~Sending(Idle)
      BY DEF Sending, Idle
    <3>7. QED
      BY <3>1, <3>4, <3>5, <3>6, AgentCases
  <2>3. QED
    BY <2>2 DEF Resources, Deduped, InFlight
<1>2. QED
  BY <1>1, ResourcesHold, PTL

(* Live transactions of two withdrawals share neither a nonce nor an       *)
(* outpoint, through every rollback, broadcast failure and reorg, if on    *)
(* EVM Fail is called in states PENDING and SIGNED only.  (It rolls back   *)
(* the nonce that BuildFails leaves in a WHITELISTED row a second time.)   *)
THEOREM NothingShared == Spec => [](FailsOnce(setting) => NoSharedResource)
<1>1. IInv /\ Order /\ Resources => (FailsOnce(setting) => NoSharedResource)
  <2> SUFFICES ASSUME IInv, Order, Resources, FailsOnce(setting), Orderly
               PROVE  \A t, u \in Live : t.id # u.id =>
                        /\ t.nonce = None \/ t.nonce # u.nonce
                        /\ t.ins \cap u.ins = {}
    BY DEF NoSharedResource
  <2> DEFINE Owns(t) == /\ t.id \in Ids /\ t.ins \subseteq OpsOf(h, row, net, t.id)
                        /\ t.nonce # None => t.nonce \in NoncesOf(h, row, net, t.id)
  <2>1. Calm(setting) /\ Held(setting, h, row, net, utxos, nonce.pending)
    BY OrderlyCalm DEF Resources
  <2>2. /\ setting.serial /\ Recorded(setting)
    BY <2>1 DEF Calm, Recorded
  <2>3. ASSUME NEW t \in net PROVE Owns(t)
    <3>1. t.id \in Ids /\ t \in NetOf(net, t.id)
      BY <2>3 DEF IInv, TypeOK, Tx, NetOf
    <3>2. QED
      BY <3>1 DEF OpsOf, OwnedOps, NoncesOf, OwnedNonces
  <2>4. ASSUME NEW w \in Workers, At(w, "send") PROVE Owns(h[w].tx)
    <3> DEFINE i == h[w].id
    <3>1. h[w].pc = "send" /\ h[w].pc \notin {"idle", "setWallet"}
      BY <2>4 DEF At
    <3>2. i \in Ids /\ i # None /\ Agrees(h[w], row[i])
      BY <2>1, <3>1, AtWork
    <3>3. \A v \in Workers : v # w => h[v].id # i
      BY <2>2, <3>2 DEF Order, InOrder
    <3>4. Agent(h, i) = h[w]
      BY <3>3, AgentIs
    <3>5. h[w].tx # None /\ h[w].tx.nonce = h[w].nonce /\ h[w].tx.ins = h[w].ops
      BY <3>1, <3>2 DEF Agrees, Describes
    <3>6. h[w].tx.id = i
      BY <3>5 DEF Order, Shaped, TxOf
    <3>7. h[w].ops \subseteq KeptOps(h[w], row[i])
      BY <3>1, <3>2 DEF KeptOps
    <3>8. h[w].nonce # None => h[w].nonce \in KeptNonces(h[w], row[i])
      BY <3>2 DEF KeptNonces
    <3>9. QED
      BY <3>2, <3>4, <3>5, <3>6, <3>7, <3>8 DEF OpsOf, OwnedOps, NoncesOf, OwnedNonces
  <2>5. ASSUME NEW i \in Ids, row[i].state = "SIGNED", AtRest(i) PROVE Owns(row[i].signed)
    <3>1. Agent(h, i) = Idle
      BY <2>5, AgentIdle DEF AtRest
    <3>2. Describes(row[i])
      BY <2>2, <2>5 DEF Order, InOrder
    <3>3. row[i].signed.id = i
      BY <3>2 DEF Describes, Order, RowsShaped, TxOf
    <3>4. KeptOps(Idle, row[i]) = row[i].ops /\ KeptNonces(Idle, row[i]) = {row[i].nonce} \ {None}
      BY <2>5 DEF KeptOps, KeptNonces, Idle
    <3>5. QED
      BY <3>1, <3>2, <3>3, <3>4
         DEF Describes, OpsOf, OwnedOps, NoncesOf, OwnedNonces
  <2> HIDE DEF Owns
  <2>6. \A t \in Live : Owns(t)
    BY <2>3, <2>4, <2>5 DEF Live
  <2>7. ASSUME NEW t \in Live, NEW u \in Live, t.id # u.id
        PROVE  (t.nonce = None \/ t.nonce # u.nonce) /\ t.ins \cap u.ins = {}
    <3>1. Owns(t) /\ Owns(u)
      BY <2>6
    <3>2. /\ OpsOf(h, row, net, t.id) \cap OpsOf(h, row, net, u.id) = {}
          /\ NoncesOf(h, row, net, t.id) \cap NoncesOf(h, row, net, u.id) = {}
      BY <2>1, <2>7, <3>1 DEF Owns, Held, OpsHeld, NoncesHeld
    <3>3. QED
      BY <3>1, <3>2 DEF Owns
  <2>8. QED
    BY <2>7
<1>2. QED
  BY <1>1, ResourcesHold, PTL
=============================================================================
