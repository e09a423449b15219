--------------------------- MODULE TxBuilderProofs ---------------------------
(***************************************************************************)
(* Proofs about TxBuilder, for any number of builds, amounts, nonces,      *)
(* signatures, indices and instants: blockhashes are valid when they are   *)
(* used, addresses belong to the keys that sign for them, whatever the     *)
(* caches hold, and an EVM build sends the transaction it had signed.  The *)
(* last part rests on lemmas about the encoder and the decoder of Rlp.     *)
(***************************************************************************)
EXTENDS TxBuilder, SequenceTheorems, WellFoundedInduction, TLAPS

Fields == {"pc", "amount", "nonce", "inputs", "key", "owner", "hash", "at", "payload", "sig",
           "tx", "ok"}

LEMMA IdleFields == DOMAIN Idle = Fields
  BY DEF Idle, Fields

-----------------------------------------------------------------------------
(* The blockhash in the cache was at most the client's timeout and the     *)
(* node's lag old when it was stored.                                      *)
Recent(hash, at) ==
  hash \in Nat \ {0} /\ at \in Nat /\ hash <= at /\ at - hash <= ClientTimeout + NodeLag

(* A request that was sent at an instant is never older than the timeout.  *)
Pending(at, now) == at \in Nat /\ NodeLag < at /\ at <= now /\ now - at <= ClientTimeout

BlockhashInv ==
  /\ clock \in Nat /\ NodeLag < clock
  /\ DOMAIN job = Builders /\ \A b \in Builders : DOMAIN job[b] = Fields
  /\ \/ hashCache.at = 0
     \/ Recent(hashCache.hash, hashCache.at) /\ hashCache.at <= clock
  /\ \A b \in Builders : job[b].pc = "fetch" => Pending(job[b].at, clock)
  /\ BlockhashFresh

LEMMA BlockhashInit == Init => BlockhashInv
<1> SUFFICES ASSUME Init PROVE BlockhashInv
  OBVIOUS
<1>1. clock \in Nat /\ NodeLag < clock /\ hashCache.at = 0
  BY DEF Init, NodeLag
<1>2. DOMAIN job = Builders /\ \A b \in Builders : job[b] = Idle
  BY DEF Init
<1>3. Idle.pc = "idle"
  BY DEF Idle
<1>4. QED
  BY <1>1, <1>2, <1>3, IdleFields DEF BlockhashInv, BlockhashFresh

(* A step of build b that sends no request and uses no blockhash.          *)
LEMMA PlainStep ==
  ASSUME BlockhashInv, NEW b \in Builders, NEW x, DOMAIN x = Fields,
         job' = [job EXCEPT ![b] = x], UNCHANGED <<scenario, clock, hashCache>>,
         x.pc # "fetch",
         Chain = "solana" /\ scenario.rpc => x.pc # "sign"
  PROVE  BlockhashInv'
<1>1. /\ DOMAIN job' = Builders /\ job'[b] = x
      /\ \A c \in Builders \ {b} : job'[c] = job[c]
  BY DEF BlockhashInv
<1>2. QED
  BY <1>1 DEF BlockhashInv, BlockhashFresh, Chain

LEMMA BlockhashNext == BlockhashInv /\ [Next]_vars => BlockhashInv'
<1> SUFFICES ASSUME BlockhashInv, [Next]_vars PROVE BlockhashInv'
  OBVIOUS
<1>1. DOMAIN job = Builders /\ \A b \in Builders : DOMAIN job[b] = Fields
  BY DEF BlockhashInv
<1>2. CASE UNCHANGED <<scenario, clock, hashCache, job>>
  BY <1>2 DEF BlockhashInv, BlockhashFresh, Chain
<1>3. CASE Tick
  <2>1. clock' = clock + 1 /\ UNCHANGED <<scenario, hashCache, job>>
    BY <1>3 DEF Tick
  <2>2. \A b \in Builders : job[b].pc = "fetch" => Pending(job[b].at, clock')
    BY <1>3, <2>1 DEF Tick, BlockhashInv, Pending, ClientTimeout, NodeLag
  <2>3. clock' \in Nat /\ NodeLag < clock' /\ clock <= clock'
    BY <2>1 DEF BlockhashInv, NodeLag
  <2>4. QED
    BY <2>1, <2>2, <2>3 DEF BlockhashInv, BlockhashFresh, Chain, Recent
<1>4. ASSUME NEW b \in Builders, Refuse(b), UNCHANGED <<scenario, clock, hashCache>>
      PROVE  BlockhashInv'
  <2> DEFINE x == [[job[b] EXCEPT !.pc = "done"] EXCEPT !.ok = FALSE]
  <2>1. job' = [job EXCEPT ![b] = x]
    BY <1>1, <1>4, Zenon DEF Refuse
  <2>2. DOMAIN x = Fields /\ x.pc = "done"
    BY <1>1 DEF Fields
  <2> HIDE DEF x
  <2>3. QED
    BY <1>4, <2>1, <2>2, PlainStep, Zenon
<1>5. ASSUME NEW b \in Builders, NEW hash, SolanaBuilt(b, hash), hash \in Nat \ {0},
             clock - hash < Validity, UNCHANGED <<scenario, clock>>,
             \/ hashCache' = hashCache
             \/ hashCache' = [hash |-> hash, at |-> clock] /\ Recent(hash, clock)
      PROVE  BlockhashInv'
  <2> DEFINE x == [[[[job[b] EXCEPT !.pc = "sign"] EXCEPT !.hash = hash] EXCEPT !.at = clock]
                     EXCEPT !.payload = SolanaMessage(job[b], hash)]
  <2>1. job' = [job EXCEPT ![b] = x]
    BY <1>1, <1>5, Zenon DEF SolanaBuilt
  <2>2. DOMAIN x = Fields /\ x.pc = "sign" /\ x.hash = hash /\ x.at = clock
    BY <1>1 DEF Fields
  <2> HIDE DEF x
  <2>3. /\ DOMAIN job' = Builders /\ job'[b] = x
        /\ \A c \in Builders \ {b} : job'[c] = job[c]
    BY <1>1, <2>1
  <2>4. \A c \in Builders : DOMAIN job'[c] = Fields
    BY <1>1, <2>2, <2>3
  <2>5. \A c \in Builders : job'[c].pc = "fetch" => Pending(job'[c].at, clock')
    BY <1>5, <2>2, <2>3 DEF BlockhashInv
  <2>6. BlockhashFresh'
    BY <1>5, <2>2, <2>3 DEF BlockhashInv, BlockhashFresh, Chain
  <2>7. /\ clock' \in Nat /\ NodeLag < clock'
        /\ \/ hashCache'.at = 0
           \/ Recent(hashCache'.hash, hashCache'.at) /\ hashCache'.at <= clock'
    BY <1>5 DEF BlockhashInv
  <2>8. QED
    BY <2>3, <2>4, <2>5, <2>6, <2>7 DEF BlockhashInv
<1>6. ASSUME NEW b \in Builders, Start(b) PROVE BlockhashInv'
  <2>1. PICK n, k, i : job' = [job EXCEPT ![b].pc = "resolve", ![b].amount = AmountText(n),
                                          ![b].nonce = k, ![b].inputs = i]
    BY <1>6, Zenon DEF Start
  <2> DEFINE x == [[[[job[b] EXCEPT !.pc = "resolve"] EXCEPT !.amount = AmountText(n)]
                      EXCEPT !.nonce = k] EXCEPT !.inputs = i]
  <2>2. job' = [job EXCEPT ![b] = x]
    BY <1>1, <2>1, Zenon
  <2>3. DOMAIN x = Fields /\ x.pc = "resolve"
    BY <1>1 DEF Fields
  <2> HIDE DEF x
  <2>4. UNCHANGED <<scenario, clock, hashCache>>
    BY <1>6 DEF Start
  <2>5. QED
    BY <2>2, <2>3, <2>4, PlainStep, Zenon
<1>7. ASSUME NEW b \in Builders, ResolveBuildOpts(b) PROVE BlockhashInv'
  <2> DEFINE x == [[[job[b] EXCEPT !.pc = "build"] EXCEPT !.key = ResolvedKey]
                     EXCEPT !.owner = active]
  <2>1. job' = [job EXCEPT ![b] = x] /\ UNCHANGED <<scenario, clock, hashCache>>
    BY <1>1, <1>7, Zenon DEF ResolveBuildOpts
  <2>2. DOMAIN x = Fields /\ x.pc = "build"
    BY <1>1 DEF Fields
  <2> HIDE DEF x
  <2>3. QED
    BY <2>1, <2>2, PlainStep, Zenon
<1>8. ASSUME NEW b \in Builders, NEW p, Built(b, p), Chain # "solana",
             UNCHANGED <<scenario, clock, hashCache>>
      PROVE  BlockhashInv'
  <2> DEFINE x == [[job[b] EXCEPT !.pc = "sign"] EXCEPT !.payload = p]
  <2>1. job' = [job EXCEPT ![b] = x]
    BY <1>1, <1>8, Zenon DEF Built
  <2>2. DOMAIN x = Fields /\ x.pc = "sign"
    BY <1>1 DEF Fields
  <2> HIDE DEF x
  <2>3. QED
    BY <1>8, <2>1, <2>2, PlainStep, Zenon
<1>9. ASSUME NEW b \in Builders, BuildEVMUnsignedTx(b) PROVE BlockhashInv'
  <2>1. Chain # "solana"
    BY <1>9 DEF BuildEVMUnsignedTx, IsEVM, EVMChains
  <2>2. QED
    BY <1>4, <1>8, <1>9, <2>1 DEF BuildEVMUnsignedTx
<1>10. ASSUME NEW b \in Builders, BuildBTCUnsignedTx(b) PROVE BlockhashInv'
  BY <1>4, <1>8, <1>10 DEF BuildBTCUnsignedTx
<1>11. ASSUME NEW b \in Builders, BuildSolanaUnsignedTx(b) PROVE BlockhashInv'
  <2>1. UNCHANGED <<scenario, clock, hashCache>>
    BY <1>11 DEF BuildSolanaUnsignedTx
  <2>2. ASSUME ~scenario.rpc, SolanaBuilt(b, PlaceholderHash) PROVE BlockhashInv'
    <3> DEFINE x == [[[[job[b] EXCEPT !.pc = "sign"] EXCEPT !.hash = PlaceholderHash]
                       EXCEPT !.at = clock]
                      EXCEPT !.payload = SolanaMessage(job[b], PlaceholderHash)]
    <3>1. job' = [job EXCEPT ![b] = x]
      BY <1>1, <2>2, Zenon DEF SolanaBuilt
    <3>2. DOMAIN x = Fields /\ x.pc = "sign"
      BY <1>1 DEF Fields
    <3> HIDE DEF x
    <3>3. QED
      BY <2>1, <2>2, <3>1, <3>2, PlainStep, Zenon
  <2>3. ASSUME CachedIsFresh, SolanaBuilt(b, hashCache.hash) PROVE BlockhashInv'
    <3> DEFINE hash == hashCache.hash
    <3>1. hash \in Nat \ {0} /\ clock - hash < Validity
      BY <2>3 DEF CachedIsFresh, BlockhashInv, Recent, CacheTTL, ClientTimeout, NodeLag,
                       Validity
    <3>2. SolanaBuilt(b, hash)
      BY <2>3
    <3> HIDE DEF hash
    <3>3. QED
      BY <1>5, <2>1, <3>1, <3>2
  <2>4. ASSUME job' = [job EXCEPT ![b].pc = "fetch", ![b].at = clock] PROVE BlockhashInv'
    <3> DEFINE x == [[job[b] EXCEPT !.pc = "fetch"] EXCEPT !.at = clock]
    <3>1. job' = [job EXCEPT ![b] = x]
      BY <1>1, <2>4, Zenon
    <3>2. DOMAIN x = Fields /\ x.pc = "fetch" /\ x.at = clock
      BY <1>1 DEF Fields
    <3> HIDE DEF x
    <3>3. /\ DOMAIN job' = Builders /\ job'[b] = x
          /\ \A c \in Builders \ {b} : job'[c] = job[c]
      BY <1>1, <3>1
    <3>4. Pending(clock, clock)
      BY DEF BlockhashInv, Pending, ClientTimeout
    <3>5. QED
      BY <2>1, <3>2, <3>3, <3>4 DEF BlockhashInv, BlockhashFresh, Chain
  <2>5. QED
    BY <1>4, <1>11, <2>1, <2>2, <2>3, <2>4 DEF BuildSolanaUnsignedTx
<1>12. ASSUME NEW b \in Builders, FetchReply(b) PROVE BlockhashInv'
  <2>1. PICK h \in job[b].at - NodeLag .. clock :
          hashCache' = [hash |-> h, at |-> clock] /\ SolanaBuilt(b, h)
    BY <1>12 DEF FetchReply
  <2>2. job[b].pc = "fetch" /\ UNCHANGED <<scenario, clock>>
    BY <1>12 DEF FetchReply
  <2>3. Recent(h, clock) /\ clock - h < Validity
    BY <2>1, <2>2 DEF BlockhashInv, Pending, Recent, ClientTimeout, NodeLag, Validity
  <2>4. h \in Nat \ {0}
    BY <2>3 DEF Recent
  <2>5. QED
    BY <1>5, <2>1, <2>2, <2>3, <2>4
<1>13. ASSUME NEW b \in Builders, FetchFails(b) PROVE BlockhashInv'
  BY <1>4, <1>13 DEF FetchFails
<1>14. ASSUME NEW b \in Builders, Assemble(b) PROVE BlockhashInv'
  <2>1. UNCHANGED <<scenario, clock, hashCache>>
    BY <1>14 DEF Assemble
  <2>2. ASSUME NEW g, NEW t,
               job' = [job EXCEPT ![b].pc = "done", ![b].ok = TRUE, ![b].sig = g, ![b].tx = t]
        PROVE  BlockhashInv'
    <3> DEFINE x == [[[[job[b] EXCEPT !.pc = "done"] EXCEPT !.ok = TRUE] EXCEPT !.sig = g]
                      EXCEPT !.tx = t]
    <3>1. job' = [job EXCEPT ![b] = x]
      BY <1>1, <2>2, Zenon
    <3>2. DOMAIN x = Fields /\ x.pc = "done"
      BY <1>1 DEF Fields
    <3> HIDE DEF x
    <3>3. QED
      BY <2>1, <3>1, <3>2, PlainStep, Zenon
  <2>3. \/ \E g, t : job' = [job EXCEPT ![b].pc = "done", ![b].ok = TRUE,
                                          ![b].sig = g, ![b].tx = t]
        \/ Refuse(b)
    BY <1>14, ZenonT(30) DEF Assemble
  <2>4. QED
    BY <1>4, <2>1, <2>2, <2>3, ZenonT(30)
<1>15. CASE UNCHANGED vars
  BY <1>2, <1>15 DEF vars
<1>16. CASE Derive \/ LoseActive \/ Evict
  BY <1>2, <1>16 DEF Derive, LoseActive, Evict
<1>17. QED
  BY <1>3, <1>6, <1>7, <1>9, <1>10, <1>11, <1>12, <1>13, <1>14, <1>15, <1>16 DEF Next

(* A Solana message is never built with a blockhash that has expired: what *)
(* FetchRecentBlockhash returns is younger than 50 s, for any number of    *)
(* builds that share the cache and finish their requests in any order.     *)
THEOREM BlockhashesFresh == Spec => []BlockhashFresh
<1>1. BlockhashInv => BlockhashFresh
  BY DEF BlockhashInv
<1>2. QED
  BY <1>1, BlockhashInit, BlockhashNext, PTL DEF Spec

-----------------------------------------------------------------------------
(* Two derivations under one cache key have one result.                    *)
LEMMA KeyDetermines ==
  ASSUME NEW chain, NEW i, NEW j, NEW ci, NEW cj, For(chain, i, ci).key = For(chain, j, cj).key
  PROVE  For(chain, i, ci).new = For(chain, j, cj).new
<1>1. CASE IsEVM(chain)
  <2>1. \A k, ck : For(chain, k, ck).key = <<"evm", k>>
                   /\ For(chain, k, ck).new = EvmDeriveUncached(k)
    BY <1>1 DEF For, EvmDeriver, IsEVM, EVMChains
  <2>2. i = j
    BY <2>1
  <2>3. QED
    BY <2>1, <2>2
<1>2. CASE chain = "bitcoin"
  <2>1. \A k, ck : For(chain, k, ck).key = <<"btc", ck, k>>
                   /\ For(chain, k, ck).new = BtcDeriveUncached(k, ck)
    BY <1>2 DEF For, BtcDeriver, IsEVM, EVMChains
  <2>2. i = j /\ ci = cj
    BY <2>1
  <2>3. QED
    BY <2>1, <2>2
<1>3. CASE ~IsEVM(chain) /\ chain # "bitcoin"
  <2>1. For(chain, i, ci) = For(chain, j, cj)
    BY <1>3 DEF For
  <2>2. QED
    BY <2>1
<1>4. QED
  BY <1>1, <1>2, <1>3

(* The cache holds what the derivers would compute.                        *)
CacheSound(cache, chain) ==
  \A e \in cache : \A i, change :
    e.key = For(chain, i, change).key => e.value = For(chain, i, change).new

(* Address record a is what its deriver gives for the wallet's index.      *)
Derived(a, chain) ==
  a.address = <<>> \/ \E i \in Int : LET d == For(chain, i, 0) IN d.ok /\ a = MakeResult(d, d.new)

OwnedBy(key, owner, chain) ==
  key # <<>> => owner.address = IF chain = "bitcoin" THEN <<"bc1", Hash160(key)>>
                                ELSE <<"base58", key>>

Shape == DOMAIN job = Builders /\ \A b \in Builders : DOMAIN job[b] = Fields

KeyInv ==
  /\ Shape
  /\ CacheSound(addrCache, Chain)
  /\ Derived(active, Chain)
  /\ \A b \in Builders : OwnedBy(job[b].key, job[b].owner, Chain)

LEMMA DeriveSound ==
  ASSUME NEW chain, CacheSound(addrCache, chain), NEW i \in Int, NEW r \in DeriveAt(chain, i, 0)
  PROVE  Derived(r.result, chain) /\ CacheSound(r.cache, chain)
<1> DEFINE d == For(chain, i, 0)
<1>1. d.ok
  BY DEF DeriveAt
<1>2. CASE r \in {[result |-> MakeResult(d, value), cache |-> addrCache] :
                   value \in CacheGet(d.key)}
  <2>1. PICK value \in CacheGet(d.key) : r.result = MakeResult(d, value) /\ r.cache = addrCache
    BY <1>2
  <2>2. PICK e \in addrCache : e.key = d.key /\ e.value = value
    BY <2>1 DEF CacheGet
  <2>3. value = d.new
    BY <2>2 DEF CacheSound
  <2>4. QED
    BY <1>1, <2>1, <2>3 DEF Derived
<1>3. CASE r \in {[result |-> MakeResult(d, d.new), cache |-> cache] :
                   cache \in CacheSet(d.key, d.new)}
  <2>1. PICK cache \in CacheSet(d.key, d.new) : r.result = MakeResult(d, d.new) /\ r.cache = cache
    BY <1>3
  <2> DEFINE n == [key |-> d.key, value |-> d.new]
  <2>2. \A e \in cache : e \in addrCache \/ e = n
    BY <2>1 DEF CacheSet
  <2>3. n.key = d.key /\ n.value = d.new
    OBVIOUS
  <2>4. \A j, change : n.key = For(chain, j, change).key => n.value = For(chain, j, change).new
    BY <2>3, KeyDetermines
  <2> HIDE DEF n
  <2>5. CacheSound(cache, chain)
    BY <2>2, <2>4 DEF CacheSound
  <2>6. QED
    BY <1>1, <2>1, <2>5 DEF Derived
<1>4. QED
  BY <1>2, <1>3 DEF DeriveAt

LEMMA KeyInit == Init => KeyInv
<1> SUFFICES ASSUME Init PROVE KeyInv
  OBVIOUS
<1>1. DOMAIN job = Builders /\ \A b \in Builders : job[b] = Idle
  BY DEF Init
<1>2. Idle.key = <<>>
  BY DEF Idle
<1>3. active.address = <<>> /\ addrCache = {}
  BY DEF Init, NoAddress
<1>4. QED
  BY <1>1, <1>2, <1>3, IdleFields DEF KeyInv, Shape, CacheSound, Derived, OwnedBy

(* A build is resolved with the key of the active address.                 *)
LEMMA ResolvedOwned ==
  ASSUME Derived(active, Chain)
  PROVE  OwnedBy(ResolvedKey, active, Chain)
<1>1. CASE active.address = <<>>
  <2>1. ResolvedKey = <<>>
    BY <1>1 DEF ResolvedKey
  <2>2. QED
    BY <2>1 DEF OwnedBy
<1>2. CASE active.address # <<>>
  <2>1. PICK i \in Int : active = MakeResult(For(Chain, i, 0), For(Chain, i, 0).new)
    BY <1>2 DEF Derived
  <2>2. /\ active.path = For(Chain, i, 0).path /\ active.address = For(Chain, i, 0).new
    BY <2>1 DEF MakeResult
  <2>3. CASE Chain = "bitcoin"
    <3>1. active.path = BtcPath(0, i) /\ active.address = BtcDeriveUncached(i, 0)
      BY <2>2, <2>3 DEF For, BtcDeriver, IsEVM, EVMChains
    <3>2. ParseBTCPath(active.path).change = 0 /\ ParseBTCPath(active.path).index = i
      BY <3>1 DEF ParseBTCPath, BtcPath
    <3>3. ResolvedKey = ChildPubKey(i, 0)
      BY <1>2, <2>3, <3>2 DEF ResolvedKey, BTCPubKeyHashFor, PubKeyHashFor
    <3>4. QED
      BY <2>3, <3>1, <3>3 DEF OwnedBy, BtcDeriveUncached
  <2>4. CASE Chain = "solana"
    <3>1. active.address = <<"base58", SolanaKey>>
      BY <2>2, <2>4 DEF For, SolanaDeriver, IsEVM, EVMChains
    <3>2. ResolvedKey = SolanaKey
      BY <1>2, <2>4, <3>1 DEF ResolvedKey
    <3>3. QED
      BY <2>4, <3>1, <3>2 DEF OwnedBy
  <2>5. CASE Chain # "bitcoin" /\ Chain # "solana"
    <3>1. ResolvedKey = <<>>
      BY <1>2, <2>5 DEF ResolvedKey
    <3>2. QED
      BY <3>1 DEF OwnedBy
  <2>6. QED
    BY <2>3, <2>4, <2>5
<1>3. QED
  BY <1>1, <1>2

LEMMA KeyNext == KeyInv /\ [Next]_vars => KeyInv'
<1> SUFFICES ASSUME KeyInv, [Next]_vars PROVE KeyInv'
  OBVIOUS
<1>1. /\ DOMAIN job = Builders /\ \A b \in Builders : DOMAIN job[b] = Fields
      /\ CacheSound(addrCache, Chain) /\ Derived(active, Chain)
      /\ \A b \in Builders : OwnedBy(job[b].key, job[b].owner, Chain)
  BY DEF KeyInv, Shape
<1>2. ASSUME UNCHANGED <<scenario, active, addrCache>>, NEW b \in Builders, NEW x,
             DOMAIN x = Fields, job' = [job EXCEPT ![b] = x],
             OwnedBy(x.key, x.owner, Chain)
      PROVE  KeyInv'
  <2>1. /\ DOMAIN job' = Builders /\ job'[b] = x
        /\ \A c \in Builders \ {b} : job'[c] = job[c]
    BY <1>1, <1>2
  <2>2. Shape' /\ \A c \in Builders : OwnedBy(job'[c].key, job'[c].owner, Chain)
    BY <1>1, <1>2, <2>1 DEF Shape
  <2>3. QED
    BY <1>1, <1>2, <2>2 DEF KeyInv, Chain
<1>3. ASSUME UNCHANGED <<scenario, active, addrCache>>, NEW b \in Builders, NEW x,
             DOMAIN x = Fields, job' = [job EXCEPT ![b] = x],
             x.key = job[b].key, x.owner = job[b].owner
      PROVE  KeyInv'
  BY <1>1, <1>2, <1>3, Zenon
<1>4. ASSUME NEW b \in Builders, Refuse(b), UNCHANGED <<scenario, active, addrCache>>
      PROVE  KeyInv'
  <2> DEFINE x == [[job[b] EXCEPT !.pc = "done"] EXCEPT !.ok = FALSE]
  <2>1. job' = [job EXCEPT ![b] = x]
    BY <1>1, <1>4, Zenon DEF Refuse
  <2>2. DOMAIN x = Fields /\ x.key = job[b].key /\ x.owner = job[b].owner
    BY <1>1 DEF Fields
  <2> HIDE DEF x
  <2>3. QED
    BY <1>3, <1>4, <2>1, <2>2, Zenon
<1>5. ASSUME NEW b \in Builders, NEW p, Built(b, p), UNCHANGED <<scenario, active, addrCache>>
      PROVE  KeyInv'
  <2> DEFINE x == [[job[b] EXCEPT !.pc = "sign"] EXCEPT !.payload = p]
  <2>1. job' = [job EXCEPT ![b] = x]
    BY <1>1, <1>5, Zenon DEF Built
  <2>2. DOMAIN x = Fields /\ x.key = job[b].key /\ x.owner = job[b].owner
    BY <1>1 DEF Fields
  <2> HIDE DEF x
  <2>3. QED
    BY <1>3, <1>5, <2>1, <2>2, Zenon
<1>6. ASSUME NEW b \in Builders, NEW h, SolanaBuilt(b, h), UNCHANGED <<scenario, active, addrCache>>
      PROVE  KeyInv'
  <2> DEFINE x == [[[[job[b] EXCEPT !.pc = "sign"] EXCEPT !.hash = h] EXCEPT !.at = clock]
                     EXCEPT !.payload = SolanaMessage(job[b], h)]
  <2>1. job' = [job EXCEPT ![b] = x]
    BY <1>1, <1>6, Zenon DEF SolanaBuilt
  <2>2. DOMAIN x = Fields /\ x.key = job[b].key /\ x.owner = job[b].owner
    BY <1>1 DEF Fields
  <2> HIDE DEF x
  <2>3. QED
    BY <1>3, <1>6, <2>1, <2>2, Zenon
<1>7. ASSUME NEW b \in Builders, Start(b) PROVE KeyInv'
  <2>1. PICK n, k, i : job' = [job EXCEPT ![b].pc = "resolve", ![b].amount = AmountText(n),
                                          ![b].nonce = k, ![b].inputs = i]
    BY <1>7, Zenon DEF Start
  <2> DEFINE x == [[[[job[b] EXCEPT !.pc = "resolve"] EXCEPT !.amount = AmountText(n)]
                      EXCEPT !.nonce = k] EXCEPT !.inputs = i]
  <2>2. job' = [job EXCEPT ![b] = x]
    BY <1>1, <2>1, Zenon
  <2>3. DOMAIN x = Fields /\ x.key = job[b].key /\ x.owner = job[b].owner
    BY <1>1 DEF Fields
  <2> HIDE DEF x
  <2>4. UNCHANGED <<scenario, active, addrCache>>
    BY <1>7 DEF Start
  <2>5. QED
    BY <1>3, <2>2, <2>3, <2>4, Zenon
<1>8. ASSUME NEW b \in Builders, ResolveBuildOpts(b) PROVE KeyInv'
  <2> DEFINE x == [[[job[b] EXCEPT !.pc = "build"] EXCEPT !.key = ResolvedKey]
                     EXCEPT !.owner = active]
  <2>1. job' = [job EXCEPT ![b] = x] /\ UNCHANGED <<scenario, active, addrCache>>
    BY <1>1, <1>8, Zenon DEF ResolveBuildOpts
  <2>2. DOMAIN x = Fields /\ x.key = ResolvedKey /\ x.owner = active
    BY <1>1 DEF Fields
  <2> HIDE DEF x
  <2>3. OwnedBy(x.key, x.owner, Chain)
    BY <1>1, <2>2, ResolvedOwned
  <2>4. QED
    BY <1>2, <2>1, <2>2, <2>3, Zenon
<1>9. ASSUME NEW b \in Builders, BuildSolanaUnsignedTx(b) PROVE KeyInv'
  <2>1. UNCHANGED <<scenario, active, addrCache>>
    BY <1>9 DEF BuildSolanaUnsignedTx
  <2>2. ASSUME job' = [job EXCEPT ![b].pc = "fetch", ![b].at = clock] PROVE KeyInv'
    <3> DEFINE x == [[job[b] EXCEPT !.pc = "fetch"] EXCEPT !.at = clock]
    <3>1. job' = [job EXCEPT ![b] = x]
      BY <1>1, <2>2, Zenon
    <3>2. DOMAIN x = Fields /\ x.key = job[b].key /\ x.owner = job[b].owner
      BY <1>1 DEF Fields
    <3> HIDE DEF x
    <3>3. QED
      BY <1>3, <2>1, <3>1, <3>2, Zenon
  <2>3. \/ Refuse(b) \/ \E h : SolanaBuilt(b, h)
        \/ job' = [job EXCEPT ![b].pc = "fetch", ![b].at = clock]
    BY <1>9 DEF BuildSolanaUnsignedTx
  <2>4. QED
    BY <1>4, <1>6, <2>1, <2>2, <2>3
<1>10. ASSUME NEW b \in Builders, Assemble(b) PROVE KeyInv'
  <2>1. UNCHANGED <<scenario, active, addrCache>>
    BY <1>10 DEF Assemble
  <2>2. ASSUME NEW g, NEW t,
               job' = [job EXCEPT ![b].pc = "done", ![b].ok = TRUE, ![b].sig = g, ![b].tx = t]
        PROVE  KeyInv'
    <3> DEFINE x == [[[[job[b] EXCEPT !.pc = "done"] EXCEPT !.ok = TRUE] EXCEPT !.sig = g]
                      EXCEPT !.tx = t]
    <3>1. job' = [job EXCEPT ![b] = x]
      BY <1>1, <2>2, Zenon
    <3>2. DOMAIN x = Fields /\ x.key = job[b].key /\ x.owner = job[b].owner
      BY <1>1 DEF Fields
    <3> HIDE DEF x
    <3>3. QED
      BY <1>3, <2>1, <3>1, <3>2, Zenon
  <2>3. \/ \E g, t : job' = [job EXCEPT ![b].pc = "done", ![b].ok = TRUE,
                                          ![b].sig = g, ![b].tx = t]
        \/ Refuse(b)
    BY <1>10, ZenonT(30) DEF Assemble
  <2>4. QED
    BY <1>4, <2>1, <2>2, <2>3, ZenonT(30)
<1>11. CASE Derive
  <2>1. PICK i \in Int :
          \E d \in DeriveAt(Chain, i, 0) : active' = d.result /\ addrCache' = d.cache
    BY <1>11 DEF Derive
  <2>2. Derived(active', Chain) /\ CacheSound(addrCache', Chain)
    BY <1>1, <2>1, DeriveSound
  <2>3. QED
    BY <1>1, <1>11, <2>2 DEF Derive, KeyInv, Shape, Chain
<1>12. CASE LoseActive
  <2>1. active'.address = <<>>
    BY <1>12 DEF LoseActive, NoAddress
  <2>2. QED
    BY <1>1, <1>12, <2>1 DEF LoseActive, KeyInv, Shape, Chain, Derived
<1>13. CASE Evict
  <2>1. addrCache' \subseteq addrCache
    BY <1>13 DEF Evict, EvictAddress
  <2>2. CacheSound(addrCache', Chain)
    BY <1>1, <2>1 DEF CacheSound
  <2>3. QED
    BY <1>1, <1>13, <2>2 DEF Evict, KeyInv, Shape, Chain
<1>14. CASE Tick \/ UNCHANGED vars
  BY <1>1, <1>14 DEF Tick, vars, KeyInv, Shape, Chain
<1>15. ASSUME NEW b \in Builders,
              BuildEVMUnsignedTx(b) \/ BuildBTCUnsignedTx(b) \/ FetchReply(b) \/ FetchFails(b)
       PROVE  KeyInv'
  <2>1. UNCHANGED <<scenario, active, addrCache>>
    BY <1>15 DEF BuildEVMUnsignedTx, BuildBTCUnsignedTx, FetchReply, FetchFails
  <2>2. \/ Refuse(b) \/ \E p : Built(b, p)
        \/ \E h : SolanaBuilt(b, h)
    BY <1>15 DEF BuildEVMUnsignedTx, BuildBTCUnsignedTx, FetchReply, FetchFails
  <2>3. QED
    BY <1>4, <1>5, <1>6, <2>1, <2>2, SMTT(30)
<1>16. QED
  BY <1>7, <1>8, <1>9, <1>10, <1>11, <1>12, <1>13, <1>14, <1>15, SMTT(30) DEF Next

(* decompressSecp256k1 is right for a coordinate of full length.           *)
LEMMA CopiedWhole ==
  ASSUME NEW x \in [1 .. Width -> 0 .. 255], x[1] # 0
  PROVE  CopyLeft(Trim(x)) = x
<1> USE CoordinateAssumption
<1>1. x \in Seq(0 .. 255) /\ Len(x) = Width /\ 1 \in 1 .. Width
  OBVIOUS
<1> DEFINE I == {i \in 1 .. Len(x) : x[i] # 0}
<1>2. 1 \in I /\ \A i \in I : 1 <= i
  BY <1>1
<1>3. Min(I) = 1
  <2>1. \A m \in I : (\A i \in I : m <= i) => m = 1
    BY <1>1, <1>2
  <2> HIDE DEF I
  <2>2. QED
    BY <1>2, <2>1 DEF Min
<1>4. SelectInSeq(x, LAMBDA v : v # 0) = 1
  BY <1>2, <1>3 DEF SelectInSeq
<1>5. Trim(x) = SubSeq(x, 1, Len(x))
  BY <1>4 DEF Trim
<1>6. Trim(x) = x
  BY <1>1, <1>5
<1>7. QED
  BY <1>1, <1>6 DEF CopyLeft

(* Bitcoin and Solana builds sign with the key of the address they were    *)
(* resolved from, and the active EVM address belongs to the key at its     *)
(* index unless a coordinate starts with a zero byte: cached, evicted and  *)
(* rederived addresses agree, for every index that DeriveAt accepts.       *)
THEOREM KeysOwnAddresses == Spec => []KeyOwnsAddress
<1>1. KeyInv => KeyOwnsAddress
  <2> SUFFICES ASSUME KeyInv PROVE KeyOwnsAddress
    OBVIOUS
  <2>1. ASSUME IsEVM(Chain), active.address # <<>>, ~StartsWithZero(active.index)
        PROVE  active.address = OnCurve(active.index)
    <3>1. PICK i \in Int : /\ For(Chain, i, 0).ok
                          /\ active = MakeResult(For(Chain, i, 0), For(Chain, i, 0).new)
      BY <2>1 DEF KeyInv, Derived
    <3>2. For(Chain, i, 0) = EvmDeriver(i, 0)
      BY <2>1 DEF For, IsEVM, EVMChains
    <3>3. active.index = i /\ active.address = EvmDeriveUncached(i) /\ NonHardened(i)
      <4>1. active.index = i /\ active.address = EvmDeriveUncached(i)
        BY <3>1, <3>2 DEF MakeResult, EvmDeriver
      <4>2. EvmDeriver(i, 0).ok
        BY <3>1, <3>2
      <4>3. NonHardened(i)
        BY <4>2, Zenon DEF EvmDeriver
      <4>4. QED
        BY <4>1, <4>3
    <3> DEFINE X == Coordinate("X", i)  Y == Coordinate("Y", i)
    <3>4. i \in 0 .. HardenedFrom - 1
      BY <3>3, CoordinateAssumption DEF NonHardened
    <3>5. X \in [1 .. Width -> 0 .. 255] /\ Y \in [1 .. Width -> 0 .. 255]
      BY <3>4, CoordinateAssumption, Zenon
    <3>6. X[1] # 0 /\ Y[1] # 0
      BY <2>1, <3>3 DEF StartsWithZero
    <3>7. CopyLeft(Trim(X)) = X /\ CopyLeft(Trim(Y)) = Y
      BY <3>5, <3>6, CopiedWhole
    <3>8. QED
      BY <3>3, <3>7 DEF OnCurve, EvmDeriveUncached, DecompressSecp256k1
  <2>2. QED
    BY <2>1, Zenon DEF KeyInv, OwnedBy, KeyOwnsAddress
<1>2. QED
  BY <1>1, KeyInit, KeyNext, PTL DEF Spec

-----------------------------------------------------------------------------
(* A nonempty set of natural numbers has a least element.                  *)
LEMMA Least ==
  ASSUME NEW T \in SUBSET Nat, T # {}
  PROVE  \E n \in T : \A k \in T : n <= k
<1>1. PICK n \in T : \A k \in T : <<k, n>> \notin OpToRel(<, Nat)
  BY NatLessThanWellFounded, WFMin, Zenon
<1>2. \A k \in T : ~(k < n)
  BY <1>1, Zenon DEF OpToRel
<1>3. QED
  BY <1>2

(* Functions that satisfy the recursion where the measure is below n.      *)
Approx(D, R, m, Z, nx, base, G, n, g) ==
  /\ g \in [D -> R]
  /\ \A x \in D : m[x] < n => g[x] = IF x \in Z THEN base ELSE G[x][g[nx[x]]]

(* Two of them agree wherever both satisfy it.                             *)
LEMMA ApproxAgree ==
  ASSUME NEW D, NEW R, NEW m \in [D -> Nat], NEW Z, NEW nx \in [D -> D],
         \A x \in D \ Z : m[nx[x]] < m[x], NEW base, NEW G,
         NEW n \in Nat, NEW g, Approx(D, R, m, Z, nx, base, G, n, g),
         NEW k \in Nat, NEW h, Approx(D, R, m, Z, nx, base, G, k, h),
         NEW x \in D, m[x] < n, m[x] < k
  PROVE  g[x] = h[x]
<1> DEFINE B == {y \in D : m[y] < n /\ m[y] < k /\ g[y] # h[y]}
           T == {m[y] : y \in B}
<1>1. SUFFICES ASSUME B # {} PROVE FALSE
  OBVIOUS
<1>2. T \in SUBSET Nat /\ T # {}
  BY <1>1
<1>3. PICK t \in T : \A u \in T : t <= u
  <2> HIDE DEF T
  <2>1. QED
    BY <1>2, Least
<1>4. PICK y \in B : m[y] = t
  OBVIOUS
<1>5. y \in D /\ m[y] < n /\ m[y] < k /\ g[y] # h[y] /\ m[y] \in Nat
  OBVIOUS
<1>6. y \notin Z
  BY <1>5 DEF Approx
<1>7. nx[y] \in D /\ m[nx[y]] < m[y] /\ m[nx[y]] \in Nat
  BY <1>5, <1>6
<1>8. nx[y] \notin B
  BY <1>3, <1>4, <1>7
<1>9. g[nx[y]] = h[nx[y]]
  BY <1>5, <1>7, <1>8
<1>10. QED
  BY <1>5, <1>6, <1>9 DEF Approx

(* There is one for every n: start from a constant and apply the recursion *)
(* once more.                                                              *)
LEMMA ApproxExists ==
  ASSUME NEW D, NEW R, NEW m \in [D -> Nat], NEW Z, NEW nx \in [D -> D],
         \A x \in D \ Z : m[nx[x]] < m[x], NEW base \in R, NEW G \in [D -> [R -> R]],
         NEW n \in Nat
  PROVE  \E g : Approx(D, R, m, Z, nx, base, G, n, g)
<1> DEFINE P(k) == \E g : Approx(D, R, m, Z, nx, base, G, k, g)
           T == {k \in Nat : ~P(k)}
<1>1. SUFFICES ASSUME T # {} PROVE FALSE
  BY Zenon
<1>2. PICK k \in T : \A j \in T : k <= j
  <2>1. T \in SUBSET Nat
    OBVIOUS
  <2> HIDE DEF T
  <2>2. QED
    BY <1>1, <2>1, Least
<1>3. k # 0
  <2>1. Approx(D, R, m, Z, nx, base, G, 0, [x \in D |-> base])
    BY DEF Approx
  <2>2. QED
    BY <2>1
<1>4. k - 1 \in Nat /\ k - 1 \notin T
  <2>1. T \in SUBSET Nat
    OBVIOUS
  <2> HIDE DEF T
  <2>2. QED
    BY <1>2, <1>3, <2>1
<1>5. PICK g : Approx(D, R, m, Z, nx, base, G, k - 1, g)
  BY <1>4
<1> DEFINE f == [x \in D |-> IF x \in Z THEN base ELSE G[x][g[nx[x]]]]
<1>6. f \in [D -> R]
  BY <1>5 DEF Approx
<1>7. ASSUME NEW x \in D, m[x] < k, x \notin Z PROVE f[x] = G[x][f[nx[x]]]
  <2>1. nx[x] \in D /\ m[nx[x]] < k - 1
    BY <1>7, <1>4
  <2>2. g[nx[x]] = f[nx[x]]
    BY <1>5, <2>1 DEF Approx
  <2>3. QED
    BY <1>7, <2>2, Zenon
<1>8. \A x \in D : x \in Z => f[x] = base
  OBVIOUS
<1> HIDE DEF f
<1>9. Approx(D, R, m, Z, nx, base, G, k, f)
  BY <1>6, <1>7, <1>8 DEF Approx
<1>10. QED
  BY <1>9

(* A recursive definition with one recursive call, at an argument of       *)
(* smaller measure, and the function it defines.                           *)
Descends(D, R, m, Z, nx, base, G) ==
  /\ m \in [D -> Nat] /\ nx \in [D -> D] /\ \A x \in D \ Z : m[nx[x]] < m[x]
  /\ base \in R /\ G \in [D -> [R -> R]]

Defines(f, D, R, Z, nx, base, G) ==
  f \in [D -> R] /\ \A x \in D : f[x] = IF x \in Z THEN base ELSE G[x][f[nx[x]]]

(* Every such recursion defines a function, the diagonal of its            *)
(* approximations. The recursive functions of Rlp are CHOOSEn, so nothing  *)
(* is known of them before this.                                           *)
LEMMA Recursion ==
  ASSUME NEW D, NEW R, NEW m, NEW Z, NEW nx, NEW base, NEW G, Descends(D, R, m, Z, nx, base, G)
  PROVE  \E f : Defines(f, D, R, Z, nx, base, G)
<1> USE DEF Descends
<1> DEFINE A(n, g) == Approx(D, R, m, Z, nx, base, G, n, g)
           g(n) == CHOOSE g : A(n, g)
           f == [x \in D |-> g(m[x] + 1)[x]]
<1>1. \A n \in Nat : A(n, g(n))
  BY ApproxExists, Zenon
<1> HIDE DEF g
<1>2. f \in [D -> R]
  <2>1. ASSUME NEW x \in D PROVE g(m[x] + 1)[x] \in R
    <3>1. m[x] + 1 \in Nat
      OBVIOUS
    <3>2. QED
      BY <1>1, <3>1 DEF Approx
  <2>2. QED
    BY <2>1
<1>3. ASSUME NEW x \in D PROVE f[x] = IF x \in Z THEN base ELSE G[x][f[nx[x]]]
  <2>1. m[x] + 1 \in Nat /\ m[x] < m[x] + 1
    OBVIOUS
  <2>2. A(m[x] + 1, g(m[x] + 1))
    BY <1>1, <2>1
  <2>3. f[x] = IF x \in Z THEN base ELSE G[x][g(m[x] + 1)[nx[x]]]
    BY <2>1, <2>2 DEF Approx
  <2>4. ASSUME x \notin Z PROVE g(m[x] + 1)[nx[x]] = f[nx[x]]
    <3> DEFINE y == nx[x]
    <3>1. y \in D /\ m[y] < m[x] /\ m[y] + 1 \in Nat
      BY <2>4
    <3>2. m[y] < m[x] + 1 /\ m[y] < m[y] + 1
      BY <3>1
    <3>3. A(m[y] + 1, g(m[y] + 1))
      BY <1>1, <3>1
    <3> HIDE DEF y
    <3>4. g(m[x] + 1)[y] = g(m[y] + 1)[y]
      BY <2>1, <2>2, <3>1, <3>2, <3>3, ApproxAgree
    <3>5. QED
      BY <3>1, <3>4 DEF y
  <2> HIDE DEF f
  <2>5. QED
    BY <2>3, <2>4
<1>4. QED
  BY <1>2, <1>3, Zenon DEF Defines

-----------------------------------------------------------------------------
(* Bytes, and the numbers BigUint writes with them.                        *)
Byte == 0 .. 255

IsBytes(f) == f = [k \in Nat |-> IF k = 0 THEN <<>> ELSE Append(f[k \div 256], k % 256)]

LEMMA BigUintIs == ASSUME NEW n PROVE BigUint(n) = (CHOOSE f : IsBytes(f))[n]
  BY DEF BigUint, IsBytes

LEMMA DivMod ==
  ASSUME NEW n \in Nat
  PROVE  /\ n \div 256 \in Nat /\ n % 256 \in Byte
         /\ n = 256 * (n \div 256) + (n % 256)
         /\ n # 0 => n \div 256 < n
  BY DEF Byte

(* There is a function that satisfies the recursion of BigUint ...         *)
LEMMA BytesExist == \E f : IsBytes(f)
<1> DEFINE D == Nat
           R == Seq(Byte)
           Z == {0}
           none == <<>>
           m == [k \in D |-> k]
           nx == [k \in D |-> k \div 256]
           G == [k \in D |-> [s \in R |-> Append(s, k % 256)]]
<1>1. m \in [D -> Nat] /\ nx \in [D -> D] /\ \A k \in D \ Z : m[nx[k]] < m[k]
  BY DivMod
<1>2. ASSUME NEW k \in Nat, NEW s \in R PROVE Append(s, k % 256) \in R
  BY DivMod, AppendProperties
<1>3. G \in [D -> [R -> R]] /\ none \in R
  BY <1>2
<1>4. Descends(D, R, m, Z, nx, none, G)
  BY <1>1, <1>3 DEF Descends
<1>5. PICK f : Defines(f, D, R, Z, nx, none, G)
  BY <1>4, Recursion, Zenon
<1>6. f \in [D -> R] /\ \A k \in D : f[k] = IF k = 0 THEN none ELSE G[k][f[nx[k]]]
  BY <1>5, Zenon DEF Defines
<1>7. ASSUME NEW k \in Nat PROVE G[k][f[nx[k]]] = Append(f[k \div 256], k % 256)
  BY <1>6, DivMod, ZenonT(30)
<1>8. f = [k \in Nat |-> IF k = 0 THEN <<>> ELSE Append(f[k \div 256], k % 256)]
  <2> HIDE DEF R, m, nx, G
  <2>1. QED
    BY <1>6, <1>7, ZenonT(30)
<1>9. QED
  BY <1>8, ZenonT(30) DEF IsBytes

(* ... so BigUint does: the last byte follows those of the quotient.       *)
LEMMA BigUintUnfolds ==
  /\ BigUint(0) = <<>>
  /\ \A n \in Nat \ {0} : BigUint(n) = Append(BigUint(n \div 256), n % 256)
<1> DEFINE f == CHOOSE g : IsBytes(g)
<1>1. IsBytes(f)
  BY BytesExist
<1>2. \A n : BigUint(n) = f[n]
  BY BigUintIs
<1> HIDE DEF f
<1>3. \A n \in Nat : f[n] = IF n = 0 THEN <<>> ELSE Append(f[n \div 256], n % 256)
  BY <1>1, Zenon DEF IsBytes
<1>4. QED
  BY <1>2, <1>3, Zenon

(* Bytes without a leading zero.                                           *)
Minimal(b) == b \in Seq(Byte) /\ (Len(b) > 0 => b[1] # 0)

(* big.Int's Bytes: no leading zero, and none at all for zero.             *)
LEMMA BigUintMinimal ==
  ASSUME NEW n \in Nat
  PROVE  Minimal(BigUint(n)) /\ (n # 0 => Len(BigUint(n)) > 0)
<1> DEFINE P(k) == Minimal(BigUint(k)) /\ (k # 0 => Len(BigUint(k)) > 0)
           T == {k \in Nat : ~P(k)}
<1>1. SUFFICES ASSUME T # {} PROVE FALSE
  OBVIOUS
<1>2. T \in SUBSET Nat
  OBVIOUS
<1>3. PICK k \in T : \A j \in T : k <= j
  <2> HIDE DEF T
  <2>1. QED
    BY <1>1, <1>2, Least
<1>4. k # 0
  <2>0. <<>> \in Seq(Byte) /\ Len(<<>>) = 0
    BY EmptySeq
  <2>1. BigUint(0) \in Seq(Byte) /\ Len(BigUint(0)) = 0
    BY <2>0, BigUintUnfolds, Zenon
  <2>2. P(0)
    BY <2>1 DEF Minimal
  <2>3. QED
    BY <2>2
<1>5. k \div 256 \in Nat /\ k \div 256 < k /\ k % 256 \in Byte
  BY <1>2, <1>4, DivMod
<1>6. k \div 256 \notin T
  <2> HIDE DEF T
  <2>1. QED
    BY <1>2, <1>3, <1>5
<1>7. P(k \div 256)
  BY <1>5, <1>6
<1> DEFINE q == BigUint(k \div 256)
<1>8. BigUint(k) = Append(q, k % 256)
  BY <1>4, BigUintUnfolds, Zenon
<1>9. q \in Seq(Byte)
  BY <1>7 DEF Minimal
<1> HIDE DEF q
<1>10. /\ BigUint(k) \in Seq(Byte) /\ Len(BigUint(k)) = Len(q) + 1 /\ Len(q) \in Nat
       /\ \A i \in 1 .. Len(q) : BigUint(k)[i] = q[i]
       /\ BigUint(k)[Len(q) + 1] = k % 256
  BY <1>5, <1>8, <1>9, AppendProperties, LenProperties
<1>11. CASE Len(q) > 0
  BY <1>7, <1>10, <1>11 DEF Minimal, q
<1>12. CASE Len(q) = 0
  <2>1. k \div 256 = 0
    BY <1>5, <1>7, <1>12 DEF q
  <2>2. k % 256 # 0
    BY <1>2, <1>4, <2>1, DivMod
  <2>3. QED
    BY <1>10, <1>12, <2>2, SMTT(30) DEF Minimal
<1>13. QED
  BY <1>10, <1>11, <1>12

LEMMA BigUintOneByte == ASSUME NEW n \in 1 .. 255 PROVE BigUint(n) = <<n>>
<1>1. n \in Nat \ {0} /\ n \div 256 = 0 /\ n % 256 = n
  OBVIOUS
<1>2. BigUint(n) = Append(<<>>, n)
  BY <1>1, BigUintUnfolds, Zenon
<1>3. Append(<<>>, n) = <<n>>
  OBVIOUS
<1>4. QED
  BY <1>2, <1>3

-----------------------------------------------------------------------------
LEMMA MaxIs ==
  ASSUME NEW n \in Nat, NEW s \in SUBSET (1 .. n), s # {}
  PROVE  Max(s) \in s /\ \A y \in s : Max(s) >= y
<1> DEFINE T == {n - x : x \in s}
<1>0. \A x \in s : x \in 1 .. n /\ n - x \in Nat /\ n - x \in T
  OBVIOUS
<1>1. T \in SUBSET Nat /\ T # {}
  BY <1>0, Zenon
<1>2. PICK t \in T : \A u \in T : t <= u
  <2> HIDE DEF T
  <2>1. QED
    BY <1>1, Least
<1>3. PICK x \in s : t = n - x
  OBVIOUS
<1>4. ASSUME NEW y \in s PROVE x >= y
  <2>1. n - x <= n - y
    BY <1>0, <1>2, <1>3, Zenon
  <2>2. QED
    BY <1>0, <2>1
<1>5. QED
  BY <1>4 DEF Max

LEMMA MaxInterval ==
  ASSUME NEW n \in Nat, n # 0
  PROVE  Max(1 .. n) = n /\ (1 .. n) \ {Max(1 .. n)} = 1 .. (n - 1)
<1>1. 1 .. n # {} /\ n \in 1 .. n
  OBVIOUS
<1>2. Max(1 .. n) \in 1 .. n /\ Max(1 .. n) >= n
  BY <1>1, MaxIs, Zenon
<1>3. QED
  BY <1>2

IsNumber(b, S, g) ==
  g = [s \in SUBSET S |-> IF s = {} THEN 0 ELSE 256 * g[s \ {Max(s)}] + b[Max(s)]]

LEMMA NumberIs ==
  ASSUME NEW b PROVE Number(b) = (CHOOSE g : IsNumber(b, DOMAIN b, g))[DOMAIN b]
  BY DEF Number, FoldLeft, MapThenFoldSet, IsNumber

LEMMA NumberExists ==
  ASSUME NEW n \in Nat, NEW b \in [1 .. n -> Nat]
  PROVE  \E g : IsNumber(b, 1 .. n, g)
<1> DEFINE D == SUBSET (1 .. n)
           Z == {{}}
           m == [s \in D |-> IF s = {} THEN 0 ELSE Max(s)]
           nx == [s \in D |-> s \ {Max(s)}]
           G == [s \in D |-> [k \in Nat |-> IF s = {} THEN 0 ELSE 256 * k + b[Max(s)]]]
<1>1. ASSUME NEW s \in D, s # {}
      PROVE  Max(s) \in 1 .. n /\ Max(s) \in s /\ b[Max(s)] \in Nat /\ \A y \in s : Max(s) >= y
  BY <1>1, MaxIs, Zenon
<1>2. m \in [D -> Nat] /\ nx \in [D -> D]
  <2>1. ASSUME NEW s \in D PROVE (IF s = {} THEN 0 ELSE Max(s)) \in Nat
    <3>1. s # {} => Max(s) \in Nat
      BY <1>1
    <3>2. QED
      BY <3>1
  <2>2. ASSUME NEW s \in D PROVE s \ {Max(s)} \in D
    BY Zenon
  <2> HIDE DEF D
  <2>3. QED
    BY <2>1, <2>2
<1>3. ASSUME NEW s \in D \ Z PROVE m[nx[s]] < m[s]
  <2>1. nx[s] \in D /\ m[s] = Max(s) /\ nx[s] = s \ {Max(s)} /\ Max(s) \in 1 .. n
    BY <1>1, Zenon
  <2>2. CASE nx[s] = {}
    <3>1. m[{}] = 0
      OBVIOUS
    <3> HIDE DEF m, nx
    <3>2. m[nx[s]] = 0
      BY <2>2, <3>1
    <3>3. QED
      BY <2>1, <3>2
  <2>3. CASE nx[s] # {}
    <3>1. Max(nx[s]) \in nx[s] /\ Max(nx[s]) \in 1 .. n
      BY <1>1, <2>1, <2>3, Zenon
    <3>2. Max(nx[s]) # Max(s) /\ Max(s) >= Max(nx[s])
      BY <1>1, <2>1, <3>1, Zenon
    <3>3. m[nx[s]] = Max(nx[s])
      BY <2>1, <2>3, Zenon
    <3>4. QED
      BY <2>1, <3>1, <3>2, <3>3, SMTT(30)
  <2>4. QED
    BY <2>2, <2>3, Zenon
<1>4. G \in [D -> [Nat -> Nat]]
  BY <1>1
<1>5. Descends(D, Nat, m, Z, nx, 0, G)
  <2> HIDE DEF D, m, nx, G, Z
  <2>1. QED
    BY <1>2, <1>3, <1>4 DEF Descends
<1>6. PICK g : Defines(g, D, Nat, Z, nx, 0, G)
  BY <1>5, Recursion, Zenon
<1>7. g \in [D -> Nat] /\ \A s \in D : g[s] = IF s = {} THEN 0 ELSE G[s][g[nx[s]]]
  BY <1>6, Zenon DEF Defines
<1>8. ASSUME NEW s \in D, s # {} PROVE G[s][g[nx[s]]] = 256 * g[s \ {Max(s)}] + b[Max(s)]
  BY <1>2, <1>7, <1>8, ZenonT(30)
<1>9. g = [s \in D |-> IF s = {} THEN 0 ELSE 256 * g[s \ {Max(s)}] + b[Max(s)]]
  <2> HIDE DEF D, nx, G
  <2>1. QED
    BY <1>7, <1>8, Zenon
<1>10. QED
  BY <1>9, Zenon DEF IsNumber

LEMMA NumberOn ==
  ASSUME NEW n \in Nat, NEW b, NEW g, IsNumber(b, 1 .. n, g)
  PROVE  g[1 .. 0] = 0 /\ \A j \in 1 .. n : g[1 .. j] = 256 * g[1 .. (j - 1)] + b[j]
<1>1. {} \in SUBSET (1 .. n) /\ 1 .. 0 = {}
  OBVIOUS
<1>2. ASSUME NEW j \in 1 .. n PROVE g[1 .. j] = 256 * g[1 .. (j - 1)] + b[j]
  <2>1. 1 .. j \in SUBSET (1 .. n) /\ 1 .. j # {} /\ j \in Nat /\ j # 0
    OBVIOUS
  <2>2. Max(1 .. j) = j /\ (1 .. j) \ {Max(1 .. j)} = 1 .. (j - 1)
    BY <2>1, MaxInterval
  <2>3. g[1 .. j] = 256 * g[(1 .. j) \ {Max(1 .. j)}] + b[Max(1 .. j)]
    BY <2>1, Zenon DEF IsNumber
  <2>4. QED
    BY <2>2, <2>3, Zenon
<1>3. g[{}] = 0
  BY <1>1 DEF IsNumber
<1>4. QED
  BY <1>1, <1>2, <1>3

(* Number reads bytes as a big-endian number.                              *)
LEMMA NumberUnfolds ==
  /\ Number(<<>>) = 0
  /\ \A b \in Seq(Byte) : Number(b) \in Nat
  /\ \A b \in Seq(Byte), x \in Byte : Number(Append(b, x)) = 256 * Number(b) + x
<1>1. ASSUME NEW b \in Seq(Byte)
      PROVE  \E g : /\ Number(b) = g[1 .. Len(b)] /\ g[1 .. 0] = 0
                    /\ \A j \in 1 .. Len(b) : g[1 .. j] = 256 * g[1 .. (j - 1)] + b[j]
  <2>1. DOMAIN b = 1 .. Len(b) /\ Len(b) \in Nat /\ b \in [1 .. Len(b) -> Byte]
    BY LenProperties
  <2>2. b \in [1 .. Len(b) -> Nat]
    <3>1. \A x \in Byte : x \in Nat
      BY DEF Byte
    <3>2. QED
      BY <2>1, <3>1
  <2> DEFINE g == CHOOSE h : IsNumber(b, DOMAIN b, h)
  <2>3. IsNumber(b, DOMAIN b, g)
    BY <2>1, <2>2, NumberExists
  <2>4. Number(b) = g[DOMAIN b]
    BY NumberIs
  <2> HIDE DEF g
  <2>5. QED
    BY <2>1, <2>3, <2>4, NumberOn
<1>2. Number(<<>>) = 0
  <2>1. <<>> \in Seq(Byte) /\ Len(<<>>) = 0
    BY EmptySeq
  <2>2. QED
    BY <1>1, <2>1, ZenonT(30)
<1>3. ASSUME NEW b \in Seq(Byte), NEW g, g[1 .. 0] = 0,
             \A j \in 1 .. Len(b) : g[1 .. j] = 256 * g[1 .. (j - 1)] + b[j]
      PROVE  \A j \in 0 .. Len(b) : g[1 .. j] \in Nat
  <2>0. Len(b) \in Nat /\ \A j \in 1 .. Len(b) : b[j] \in Nat
    <3>1. \A x \in Byte : x \in Nat
      BY DEF Byte
    <3>2. QED
      BY <3>1, LenProperties, ElementOfSeq
  <2> DEFINE T == {j \in 0 .. Len(b) : g[1 .. j] \notin Nat}
  <2>1. SUFFICES ASSUME T # {} PROVE FALSE
    OBVIOUS
  <2>2. T \in SUBSET Nat /\ 0 \notin T
    BY <1>3
  <2>3. PICK j \in T : \A k \in T : j <= k
    <3> HIDE DEF T
    <3>1. QED
      BY <2>1, <2>2, Least
  <2>4. j \in 1 .. Len(b) /\ j - 1 \in 0 .. Len(b) /\ ~(j <= j - 1)
    BY <2>0, <2>2
  <2>5. j - 1 \notin T
    BY <2>3, <2>4
  <2>6. QED
    BY <1>3, <2>0, <2>4, <2>5
<1>4. ASSUME NEW b \in Seq(Byte) PROVE Number(b) \in Nat
  <2>1. Len(b) \in 0 .. Len(b)
    BY LenProperties
  <2>2. QED
    BY <1>1, <1>3, <2>1
<1>5. ASSUME NEW b \in Seq(Byte), NEW x \in Byte
      PROVE  Number(Append(b, x)) = 256 * Number(b) + x
  <2> DEFINE c == Append(b, x)
             n == Len(b)
  <2>1. /\ c \in Seq(Byte) /\ Len(c) = n + 1 /\ n \in Nat
        /\ (\A i \in 1 .. n : c[i] = b[i]) /\ c[n + 1] = x
    BY AppendProperties, LenProperties
  <2>2. PICK g : /\ Number(b) = g[1 .. n] /\ g[1 .. 0] = 0
                 /\ \A j \in 1 .. n : g[1 .. j] = 256 * g[1 .. (j - 1)] + b[j]
    BY <1>1
  <2>3. PICK h : /\ Number(c) = h[1 .. Len(c)] /\ h[1 .. 0] = 0
                 /\ \A j \in 1 .. Len(c) : h[1 .. j] = 256 * h[1 .. (j - 1)] + c[j]
    BY <1>1, <2>1, ZenonT(30)
  <2> HIDE DEF c, n
  <2> DEFINE T == {j \in 0 .. n : g[1 .. j] # h[1 .. j]}
  <2>4. T = {}
    <3>1. SUFFICES ASSUME T # {} PROVE FALSE
      OBVIOUS
    <3>2. T \in SUBSET Nat /\ 0 \notin T
      BY <2>1, <2>2, <2>3
    <3>3. PICK j \in T : \A k \in T : j <= k
      <4> HIDE DEF T
      <4>1. QED
        BY <3>1, <3>2, Least
    <3>4. j \in 1 .. n /\ j - 1 \in 0 .. n /\ ~(j <= j - 1) /\ j \in 1 .. Len(c)
      BY <2>1, <3>2
    <3>5. g[1 .. (j - 1)] = h[1 .. (j - 1)]
      BY <3>3, <3>4
    <3>6. QED
      BY <2>1, <2>2, <2>3, <3>4, <3>5
  <2>5. n \in 0 .. n /\ n + 1 \in 1 .. Len(c) /\ (n + 1) - 1 = n
    BY <2>1
  <2>6. g[1 .. n] = h[1 .. n]
    BY <2>4, <2>5
  <2>7. h[1 .. (n + 1)] = 256 * h[1 .. n] + x
    BY <2>1, <2>3, <2>5
  <2>8. QED
    BY <2>1, <2>2, <2>3, <2>6, <2>7 DEF c
<1>6. QED
  BY <1>2, <1>4, <1>5

(* Reading the bytes of a number gives the number back.                    *)
LEMMA NumberOfBigUint == ASSUME NEW n \in Nat PROVE Number(BigUint(n)) = n
<1> DEFINE T == {k \in Nat : Number(BigUint(k)) # k}
<1>1. SUFFICES ASSUME T # {} PROVE FALSE
  OBVIOUS
<1>2. T \in SUBSET Nat
  OBVIOUS
<1>3. PICK k \in T : \A j \in T : k <= j
  <2> HIDE DEF T
  <2>1. QED
    BY <1>1, <1>2, Least
<1>4. k \in Nat /\ Number(BigUint(k)) # k
  OBVIOUS
<1>5. k # 0
  BY <1>4, BigUintUnfolds, NumberUnfolds
<1>6. /\ k \div 256 \in Nat /\ k \div 256 < k /\ k % 256 \in Byte
      /\ k = 256 * (k \div 256) + (k % 256)
  BY <1>4, <1>5, DivMod
<1>7. Number(BigUint(k \div 256)) = k \div 256
  BY <1>3, <1>4, <1>6
<1>8. BigUint(k) = Append(BigUint(k \div 256), k % 256) /\ BigUint(k \div 256) \in Seq(Byte)
  BY <1>4, <1>5, <1>6, BigUintUnfolds, BigUintMinimal, ZenonT(30) DEF Minimal
<1>9. Number(BigUint(k)) = 256 * Number(BigUint(k \div 256)) + (k % 256)
  BY <1>6, <1>8, NumberUnfolds
<1>10. QED
  BY <1>4, <1>6, <1>7, <1>9

-----------------------------------------------------------------------------
LEMMA MinIs ==
  ASSUME NEW T \in SUBSET Nat, T # {}
  PROVE  Min(T) \in T /\ \A y \in T : Min(T) <= y
  BY Least, Zenon DEF Min

(* Where the bytes that Trim keeps begin.                                  *)
NonZero(b) == {i \in 1 .. Len(b) : b[i] # 0}

LEMMA TrimIs ==
  ASSUME NEW b, Len(b) \in Nat
  PROVE  Trim(b) = IF NonZero(b) = {} THEN <<>> ELSE SubSeq(b, Min(NonZero(b)), Len(b))
<1> DEFINE I == NonZero(b)
<1>1. Trim(b) = LET first == IF I # {} THEN Min(I) ELSE 0
                IN  IF first = 0 THEN <<>> ELSE SubSeq(b, first, Len(b))
  BY DEF Trim, SelectInSeq, NonZero
<1>2. I \in SUBSET Nat /\ 0 \notin I
  BY DEF NonZero
<1>3. I # {} => Min(I) # 0
  BY <1>2, MinIs
<1> HIDE DEF I
<1>4. Trim(b) = IF I = {} THEN <<>> ELSE SubSeq(b, Min(I), Len(b))
  BY <1>1, <1>3
<1>5. QED
  BY <1>4 DEF I

(* Dropping leading zeros leaves bytes without one, and no more of them.   *)
LEMMA TrimMinimal ==
  ASSUME NEW b \in Seq(Byte)
  PROVE  Minimal(Trim(b)) /\ Len(Trim(b)) <= Len(b)
<1>1. Len(b) \in Nat /\ \A i \in 1 .. Len(b) : b[i] \in Byte
  BY LenProperties, ElementOfSeq
<1>2. CASE NonZero(b) = {}
  <2>1. Trim(b) = <<>>
    BY <1>1, <1>2, TrimIs
  <2>2. <<>> \in Seq(Byte) /\ Len(<<>>) = 0
    BY EmptySeq
  <2>3. QED
    BY <1>1, <2>1, <2>2 DEF Minimal
<1>3. CASE NonZero(b) # {}
  <2> DEFINE f == Min(NonZero(b))
             s == SubSeq(b, f, Len(b))
  <2>1. Trim(b) = s
    BY <1>1, <1>3, TrimIs
  <2>2. f \in NonZero(b)
    <3>1. NonZero(b) \in SUBSET Nat
      BY DEF NonZero
    <3>2. QED
      BY <1>3, <3>1, MinIs
  <2>3. f \in 1 .. Len(b) /\ b[f] # 0
    BY <2>2 DEF NonZero
  <2> HIDE DEF f
  <2>4. /\ s \in Seq(Byte) /\ Len(s) = Len(b) - f + 1
        /\ \A i \in 1 .. (Len(b) - f + 1) : s[i] = b[f + i - 1]
    <3>1. f \in Int /\ Len(b) \in Int /\ f <= Len(b) /\ \A i \in f .. Len(b) : b[i] \in Byte
      BY <1>1, <2>3
    <3>2. QED
      BY <3>1, SubSeqProperties
  <2> HIDE DEF s
  <2>5. s[1] = b[f] /\ Len(s) <= Len(b)
    <3>1. 1 \in 1 .. (Len(b) - f + 1) /\ f + 1 - 1 = f
      BY <1>1, <2>3
    <3>2. QED
      BY <1>1, <2>3, <2>4, <3>1
  <2>6. QED
    BY <2>1, <2>3, <2>4, <2>5 DEF Minimal
<1>4. QED
  BY <1>2, <1>3

(* ... and bytes without a leading zero stay as they are.                  *)
LEMMA TrimOfMinimal == ASSUME NEW b, Minimal(b) PROVE Trim(b) = b
<1>1. b \in Seq(Byte) /\ Len(b) \in Nat /\ \A i \in 1 .. Len(b) : b[i] \in Byte
  BY LenProperties, ElementOfSeq DEF Minimal
<1>2. CASE Len(b) = 0
  <2>1. NonZero(b) = {}
    BY <1>2 DEF NonZero
  <2>2. b = <<>>
    BY <1>1, <1>2, EmptySeq
  <2>3. QED
    BY <1>1, <2>1, <2>2, TrimIs
<1>3. CASE Len(b) # 0
  <2>1. 1 \in NonZero(b) /\ NonZero(b) \in SUBSET Nat /\ \A i \in NonZero(b) : i >= 1
    BY <1>1, <1>3 DEF NonZero, Minimal
  <2>2. Min(NonZero(b)) = 1
    <3>1. Min(NonZero(b)) \in NonZero(b) /\ Min(NonZero(b)) <= 1
      BY <2>1, MinIs
    <3>2. QED
      BY <2>1, <3>1
  <2>3. SubSeq(b, 1, Len(b)) = b
    BY <1>1, SubSeqFull
  <2>4. QED
    BY <1>1, <2>1, <2>2, <2>3, TrimIs, Zenon
<1>4. QED
  BY <1>2, <1>3

-----------------------------------------------------------------------------
(* The middle and the end of a concatenation s of a, b and c.              *)
Sliced(S, s, a, b, c) ==
  /\ s \in Seq(S) /\ Len(s) = Len(a) + Len(b) + Len(c)
  /\ \A i \in 1 .. Len(a) : s[i] = a[i]
  /\ SubSeq(s, Len(a) + 1, Len(a) + Len(b)) = b
  /\ SubSeq(s, Len(a) + Len(b) + 1, Len(s)) = c

LEMMA Slices ==
  ASSUME NEW S, NEW a \in Seq(S), NEW b \in Seq(S), NEW c \in Seq(S)
  PROVE  Sliced(S, (a \o b) \o c, a, b, c)
<1> DEFINE ab == a \o b
           s == ab \o c
           l == Len(a)
           m == Len(b)
           n == Len(c)
           p == SubSeq(s, l + 1, l + m)
           q == SubSeq(s, l + m + 1, l + m + n)
<1>1. l \in Nat /\ m \in Nat /\ n \in Nat
  BY LenProperties
<1>2. /\ ab \in Seq(S) /\ Len(ab) = l + m
      /\ \A i \in 1 .. (l + m) : ab[i] = IF i <= l THEN a[i] ELSE b[i - l]
  BY ConcatProperties
<1> HIDE DEF ab
<1>3. /\ s \in Seq(S) /\ Len(s) = l + m + n
      /\ \A i \in 1 .. (l + m + n) : s[i] = IF i <= l + m THEN ab[i] ELSE c[i - (l + m)]
  <2>1. /\ s \in Seq(S) /\ Len(s) = Len(ab) + Len(c)
        /\ \A i \in 1 .. (Len(ab) + Len(c)) :
             s[i] = IF i <= Len(ab) THEN ab[i] ELSE c[i - Len(ab)]
    <3>1. ab \in Seq(S) /\ c \in Seq(S)
      BY <1>2
    <3>2. QED
      BY <3>1, ConcatProperties
  <2> HIDE DEF s
  <2>2. Len(ab) = l + m /\ Len(c) = n
    BY <1>2
  <2> HIDE DEF l, m, n
  <2>3. QED
    BY <2>1, <2>2
<1> HIDE DEF s, l, m, n
<1>4. \A i \in 1 .. (l + m + n) : s[i] \in S
  BY <1>3, ElementOfSeq
<1>5. /\ p \in Seq(S) /\ Len(p) = m
      /\ \A i \in 1 .. m : p[i] = s[l + i]
  <2>1. l + 1 \in Int /\ l + m \in Int /\ \A i \in (l + 1) .. (l + m) : s[i] \in S
    BY <1>1, <1>4
  <2>2. /\ p \in Seq(S) /\ Len(p) = IF l + 1 <= l + m THEN (l + m) - (l + 1) + 1 ELSE 0
        /\ \A i \in 1 .. ((l + m) - (l + 1) + 1) : p[i] = s[(l + 1) + i - 1]
    BY <2>1, SubSeqProperties
  <2> HIDE DEF p
  <2>3. (l + m) - (l + 1) + 1 = m /\ \A i \in 1 .. m : (l + 1) + i - 1 = l + i
    BY <1>1
  <2>4. QED
    BY <1>1, <2>2, <2>3
<1>6. /\ q \in Seq(S) /\ Len(q) = n
      /\ \A i \in 1 .. n : q[i] = s[l + m + i]
  <2>1. /\ l + m + 1 \in Int /\ l + m + n \in Int
        /\ \A i \in (l + m + 1) .. (l + m + n) : s[i] \in S
    BY <1>1, <1>4
  <2>2. /\ q \in Seq(S)
        /\ Len(q) = IF l + m + 1 <= l + m + n THEN (l + m + n) - (l + m + 1) + 1 ELSE 0
        /\ \A i \in 1 .. ((l + m + n) - (l + m + 1) + 1) : q[i] = s[(l + m + 1) + i - 1]
    BY <2>1, SubSeqProperties
  <2> HIDE DEF q
  <2>3. /\ (l + m + n) - (l + m + 1) + 1 = n
        /\ \A i \in 1 .. n : (l + m + 1) + i - 1 = l + m + i
    BY <1>1
  <2>4. QED
    BY <1>1, <2>2, <2>3
<1> HIDE DEF p, q
<1>7. p = b
  <2>1. ASSUME NEW i \in 1 .. m PROVE p[i] = b[i]
    <3>1. /\ l + i \in 1 .. (l + m + n) /\ l + i \in 1 .. (l + m) /\ ~(l + i <= l)
          /\ l + i <= l + m /\ (l + i) - l = i
      BY <1>1
    <3>2. QED
      BY <1>2, <1>3, <1>5, <3>1
  <2>2. QED
    BY <1>5, <2>1, SeqEqual DEF m
<1>8. q = c
  <2>1. ASSUME NEW i \in 1 .. n PROVE q[i] = c[i]
    <3>1. l + m + i \in 1 .. (l + m + n) /\ ~(l + m + i <= l + m) /\ (l + m + i) - (l + m) = i
      BY <1>1
    <3>2. QED
      BY <1>3, <1>6, <3>1
  <2>2. QED
    BY <1>6, <2>1, SeqEqual DEF n
<1>9. ASSUME NEW i \in 1 .. l PROVE s[i] = a[i]
  <2>1. i \in 1 .. (l + m + n) /\ i \in 1 .. (l + m) /\ i <= l + m /\ i <= l
    BY <1>1
  <2>2. QED
    BY <1>2, <1>3, <2>1
<1>10. QED
  BY <1>3, <1>7, <1>8, <1>9 DEF Sliced, p, q, s, ab, l, m, n

-----------------------------------------------------------------------------
(* Byte strings of at most 55 bytes.                                       *)
Short == {x \in Seq(Byte) : Len(x) <= 55}

LEMMA OneElement ==
  ASSUME NEW S, NEW x \in S
  PROVE  <<x>> \in Seq(S) /\ Len(<<x>>) = 1 /\ <<x>>[1] = x
  OBVIOUS

(* A prefix of one byte is cut off where the encoder put it.               *)
LEMMA CutPrefixed ==
  ASSUME NEW p \in Byte, NEW x \in Seq(Byte), NEW t \in Seq(Byte)
  PROVE  LET s == (<<p>> \o x) \o t
         IN  /\ <<p>> \o x \in Seq(Byte) /\ Len(<<p>> \o x) = Len(x) + 1
             /\ s \in Seq(Byte) /\ s[1] = p
             /\ Cut(s, 2, Len(x)) = [item |-> x, rest |-> t]
<1> DEFINE a == <<p>>
           s == (a \o x) \o t
           l == Len(x)
<1>1. a \in Seq(Byte) /\ Len(a) = 1 /\ a[1] = p
  BY OneElement
<1>2. l \in Nat /\ Len(t) \in Nat
  BY LenProperties
<1> HIDE DEF a
<1>3. a \o x \in Seq(Byte) /\ Len(a \o x) = 1 + l
  BY <1>1, ConcatProperties, ZenonT(30)
<1>4. /\ s \in Seq(Byte) /\ Len(s) = Len(a) + l + Len(t)
      /\ \A i \in 1 .. Len(a) : s[i] = a[i]
      /\ SubSeq(s, Len(a) + 1, Len(a) + l) = x
      /\ SubSeq(s, Len(a) + l + 1, Len(s)) = t
  <2>1. Sliced(Byte, s, a, x, t)
    BY <1>1, Slices
  <2>2. QED
    BY <2>1 DEF Sliced
<1> HIDE DEF s, l
<1>5. Len(a) + 1 = 2 /\ Len(a) + l = 2 + l - 1 /\ Len(a) + l + 1 = 2 + l /\ 1 \in 1 .. Len(a)
  BY <1>1, <1>2
<1>6. SubSeq(s, 2, 2 + l - 1) = x /\ SubSeq(s, 2 + l, Len(s)) = t
  BY <1>4, <1>5
<1>7. s[1] = p /\ ~(Len(s) < 2 + l - 1)
  BY <1>1, <1>2, <1>4, <1>5
<1>8. Cut(s, 2, l) = [item |-> x, rest |-> t]
  BY <1>6, <1>7, Zenon DEF Cut
<1>9. l + 1 = 1 + l
  BY <1>2
<1>10. QED
  BY <1>3, <1>4, <1>7, <1>8, <1>9 DEF a, s, l

(* rlpEncodeItem is undone by the decoder, whatever follows the item.      *)
LEMMA ItemRoundTrip ==
  ASSUME NEW x \in Short, NEW t \in Seq(Byte)
  PROVE  /\ RlpEncodeItem(x) \in Seq(Byte) /\ Len(RlpEncodeItem(x)) \in 1 .. (Len(x) + 1)
         /\ DecodeItem(RlpEncodeItem(x) \o t) = [item |-> x, rest |-> t]
<1>1. /\ x \in Seq(Byte) /\ Len(x) \in Nat /\ Len(x) <= 55 /\ Len(t) \in Nat
      /\ \A i \in 1 .. Len(x) : x[i] \in Byte
  BY LenProperties, ElementOfSeq DEF Short
<1>2. CASE Len(x) = 1 /\ x[1] < 128
  <2>1. RlpEncodeItem(x) = x
    BY <1>2 DEF RlpEncodeItem
  <2> DEFINE e == <<>>
             s == (e \o x) \o t
  <2>2. e \in Seq(Byte) /\ Len(e) = 0 /\ e \o x = x
    BY <1>1, EmptySeq, ConcatEmptySeq
  <2> HIDE DEF e
  <2>3. /\ s \in Seq(Byte) /\ Len(s) = Len(e) + Len(x) + Len(t)
        /\ SubSeq(s, Len(e) + 1, Len(e) + Len(x)) = x
        /\ SubSeq(s, Len(e) + Len(x) + 1, Len(s)) = t
    <3>1. Sliced(Byte, s, e, x, t)
      BY <1>1, <2>2, Slices, Zenon
    <3>2. QED
      BY <3>1 DEF Sliced
  <2>4. s = x \o t
    BY <2>2
  <2>5. s[1] = x[1]
    <3>1. 1 \in 1 .. Len(x) + Len(t) /\ 1 <= Len(x)
      BY <1>1, <1>2
    <3>2. QED
      BY <1>1, <2>4, <3>1, ConcatProperties
  <2> HIDE DEF s
  <2>6. SubSeq(s, 1, 1 + 1 - 1) = x /\ SubSeq(s, 1 + 1, Len(s)) = t /\ ~(Len(s) < 1 + 1 - 1)
    BY <1>1, <1>2, <2>2, <2>3
  <2>7. Cut(s, 1, 1) = [item |-> x, rest |-> t]
    BY <2>6, Zenon DEF Cut
  <2>8. s[1] < 128 /\ ~(s[1] \in 128 .. 183)
    <3>1. x[1] \in Byte
      <4>1. 1 \in 1 .. Len(x)
        BY <1>2
      <4>2. QED
        BY <1>1, <4>1
    <3>2. \A v \in Byte : v < 128 => ~(v \in 128 .. 183)
      BY DEF Byte
    <3>3. QED
      BY <1>2, <2>5, <3>1, <3>2
  <2>9. DecodeItem(s) = Cut(s, 1, 1)
    BY <2>8 DEF DecodeItem
  <2>10. Len(x) \in 1 .. (Len(x) + 1)
    BY <1>2
  <2>11. QED
    BY <1>1, <2>1, <2>4, <2>7, <2>9, <2>10
<1>3. CASE ~(Len(x) = 1 /\ x[1] < 128)
  <2> DEFINE p == 128 + Len(x)
             s == (<<p>> \o x) \o t
             d == Cut(s, 2, Len(x))
  <2>1. RlpEncodeItem(x) = <<p>> \o x
    BY <1>1, <1>3 DEF RlpEncodeItem, RlpEncodeLenPrefix
  <2>2. p \in Byte /\ p \in 128 .. 183 /\ ~(p < 128) /\ p - 128 = Len(x)
    <3>1. \A n \in Nat : n <= 55 => /\ 128 + n \in 0 .. 255 /\ 128 + n \in 128 .. 183
                                   /\ ~(128 + n < 128) /\ (128 + n) - 128 = n
      OBVIOUS
    <3>2. QED
      BY <1>1, <3>1, Zenon DEF Byte
  <2> HIDE DEF p
  <2>3. /\ <<p>> \o x \in Seq(Byte) /\ Len(<<p>> \o x) = Len(x) + 1
        /\ s[1] = p /\ d = [item |-> x, rest |-> t]
    BY <1>1, <2>2, CutPrefixed
  <2> HIDE DEF s, d
  <2>4. DecodeItem(s) = IF Len(d.item) = 1 /\ d.item[1] < 128 THEN Bad ELSE d
    <3>1. s[1] - 128 = Len(x) /\ ~(s[1] < 128) /\ s[1] \in 128 .. 183
      BY <2>2, <2>3
    <3>2. QED
      BY <3>1 DEF DecodeItem, d
  <2>5. DecodeItem(s) = d
    BY <1>3, <2>3, <2>4
  <2>6. Len(x) + 1 \in 1 .. (Len(x) + 1)
    BY <1>1
  <2>7. QED
    BY <2>1, <2>3, <2>5, <2>6 DEF s
<1>4. QED
  BY <1>2, <1>3

-----------------------------------------------------------------------------
(* The decoder ends: every item it reads takes a byte.                     *)
LEMMA CutShortens ==
  ASSUME NEW b \in Seq(Nat), b # <<>>, NEW from \in {1, 2}, NEW n \in Nat, from + n >= 2
  PROVE  /\ Cut(b, from, n).item \in Seq(Nat) /\ Cut(b, from, n).rest \in Seq(Nat)
         /\ Len(Cut(b, from, n).rest) < Len(b)
<1>1. Len(b) \in Nat /\ Len(b) > 0 /\ \A i \in 1 .. Len(b) : b[i] \in Nat
  BY EmptySeq, LenProperties, ElementOfSeq
<1>2. CASE Len(b) < from + n - 1
  <2>1. Cut(b, from, n) = Bad
    BY <1>2 DEF Cut
  <2>2. Bad.item = <<256>> /\ Bad.rest = <<>>
    BY DEF Bad
  <2>3. <<256>> \in Seq(Nat) /\ <<>> \in Seq(Nat) /\ Len(<<>>) = 0
    BY EmptySeq
  <2>4. QED
    BY <1>1, <2>1, <2>2, <2>3
<1>3. CASE ~(Len(b) < from + n - 1)
  <2> DEFINE i == SubSeq(b, from, from + n - 1)
             r == SubSeq(b, from + n, Len(b))
  <2>1. Cut(b, from, n) = [item |-> i, rest |-> r]
    BY <1>3 DEF Cut
  <2>2. from + n - 1 \in Int /\ from + n \in Int /\ from \in Int /\ Len(b) \in Int
    BY <1>1
  <2>3. i \in Seq(Nat)
    <3>1. \A k \in from .. (from + n - 1) : b[k] \in Nat
      BY <1>1, <1>3
    <3>2. QED
      BY <2>2, <3>1, SubSeqProperties
  <2>4. r \in Seq(Nat) /\ Len(r) = IF from + n <= Len(b) THEN Len(b) - (from + n) + 1 ELSE 0
    <3>1. \A k \in (from + n) .. Len(b) : b[k] \in Nat
      BY <1>1
    <3>2. QED
      BY <2>2, <3>1, SubSeqProperties
  <2> HIDE DEF i, r
  <2>5. Len(r) < Len(b)
    BY <1>1, <2>4
  <2>6. QED
    BY <2>1, <2>3, <2>4, <2>5
<1>4. QED
  BY <1>2, <1>3

(* Whatever an item is, its rest is shorter.                               *)
LEMMA DecodeShortens ==
  ASSUME NEW b \in Seq(Nat), b # <<>>
  PROVE  /\ DecodeItem(b).item \in Seq(Nat) /\ DecodeItem(b).rest \in Seq(Nat)
         /\ Len(DecodeItem(b).rest) < Len(b)
<1>1. Len(b) \in Nat /\ Len(b) > 0
  BY EmptySeq, LenProperties
<1>2. b[1] \in Nat
  BY <1>1, ElementOfSeq
<1> DEFINE v == b[1]
<1> HIDE DEF v
<1>3. v \in Nat
  BY <1>2 DEF v
<1>4. Bad.item \in Seq(Nat) /\ Bad.rest \in Seq(Nat) /\ Len(Bad.rest) < Len(b)
  <2>1. <<256>> \in Seq(Nat) /\ <<>> \in Seq(Nat) /\ Len(<<>>) = 0
    BY EmptySeq
  <2>2. QED
    BY <1>1, <2>1 DEF Bad
<1>5. CASE v < 128
  <2>1. DecodeItem(b) = Cut(b, 1, 1)
    <3>1. ~(v \in 128 .. 183)
      BY <1>3, <1>5
    <3>2. QED
      BY <1>5, <3>1 DEF DecodeItem, v
  <2>2. QED
    BY <2>1, CutShortens
<1>6. CASE v \in 128 .. 183
  <2> DEFINE n == v - 128
             d == Cut(b, 2, n)
  <2>1. DecodeItem(b) = Bad \/ DecodeItem(b) = d
    <3>1. ~(v < 128)
      BY <1>3, <1>6
    <3>2. QED
      BY <1>6, <3>1 DEF DecodeItem, v
  <2>2. n \in Nat /\ 2 + n >= 2
    BY <1>3, <1>6
  <2> HIDE DEF n
  <2>3. d.item \in Seq(Nat) /\ d.rest \in Seq(Nat) /\ Len(d.rest) < Len(b)
    BY <2>2, CutShortens
  <2>4. QED
    BY <1>4, <2>1, <2>3
<1>7. CASE ~(v < 128) /\ v \notin 128 .. 183
  BY <1>4, <1>7 DEF DecodeItem, v
<1>8. QED
  BY <1>5, <1>6, <1>7

-----------------------------------------------------------------------------
(* The recursion of DecodeItems.                                           *)
IsItems(f) ==
  f = [s \in Seq(Nat) |-> IF s = <<>> THEN <<>>
                          ELSE LET d == DecodeItem(s) IN <<d.item>> \o f[d.rest]]

LEMMA DecodeItemsIs == ASSUME NEW b PROVE DecodeItems(b) = (CHOOSE f : IsItems(f))[b]
  BY DEF DecodeItems, IsItems

LEMMA ItemsExist == \E f : IsItems(f)
<1> DEFINE D == Seq(Nat)
           R == Seq(Seq(Nat))
           none == <<>>
           Z == {none}
           m == [s \in D |-> Len(s)]
           nx == [s \in D |-> IF s = none THEN s ELSE DecodeItem(s).rest]
           G == [s \in D |-> [r \in R |-> IF s = none THEN r ELSE <<DecodeItem(s).item>> \o r]]
<1>1. none \in D /\ none \in R
  BY EmptySeq
<1>2. m \in [D -> Nat]
  BY LenProperties
<1>3. nx \in [D -> D] /\ \A s \in D \ Z : m[nx[s]] < m[s]
  BY DecodeShortens
<1>4. ASSUME NEW s \in D, s # none, NEW r \in R PROVE <<DecodeItem(s).item>> \o r \in R
  <2>1. <<DecodeItem(s).item>> \in R
    BY <1>4, DecodeShortens
  <2>2. QED
    BY <2>1, ConcatProperties
<1>5. G \in [D -> [R -> R]]
  BY <1>4
<1>6. Descends(D, R, m, Z, nx, none, G)
  BY <1>1, <1>2, <1>3, <1>5, SMTT(30) DEF Descends
<1>7. PICK f : Defines(f, D, R, Z, nx, none, G)
  BY <1>6, Recursion, Zenon
<1>8. f \in [D -> R] /\ \A s \in D : f[s] = IF s = none THEN none ELSE G[s][f[nx[s]]]
  BY <1>7, Zenon DEF Defines
<1>9. ASSUME NEW s \in D, s # none
      PROVE  G[s][f[nx[s]]] = <<DecodeItem(s).item>> \o f[DecodeItem(s).rest]
  <2>1. nx[s] = DecodeItem(s).rest /\ nx[s] \in D
    BY <1>3, <1>9
  <2>2. f[nx[s]] \in R
    BY <1>8, <2>1
  <2>3. QED
    BY <1>9, <2>1, <2>2
<1>10. f = [s \in D |-> IF s = none THEN none ELSE <<DecodeItem(s).item>> \o f[DecodeItem(s).rest]]
  <2> HIDE DEF D, R, m, nx, G, none
  <2>1. QED
    BY <1>8, <1>9
<1>11. QED
  BY <1>10 DEF IsItems

(* DecodeItems takes one item and decodes the rest.                        *)
LEMMA DecodeItemsUnfolds ==
  /\ DecodeItems(<<>>) = <<>>
  /\ \A s \in Seq(Nat) : s # <<>> =>
       DecodeItems(s) = <<DecodeItem(s).item>> \o DecodeItems(DecodeItem(s).rest)
<1> DEFINE f == CHOOSE g : IsItems(g)
<1>1. IsItems(f)
  BY ItemsExist
<1>2. \A b : DecodeItems(b) = f[b]
  BY DecodeItemsIs
<1> HIDE DEF f
<1>3. <<>> \in Seq(Nat)
  BY EmptySeq
<1>4. \A s \in Seq(Nat) : f[s] = IF s = <<>> THEN <<>>
                                 ELSE <<DecodeItem(s).item>> \o f[DecodeItem(s).rest]
  BY <1>1, Zenon DEF IsItems
<1>5. QED
  BY <1>2, <1>3, <1>4, Zenon

-----------------------------------------------------------------------------
(* The recursion inside FlattenSeq.                                        *)
IsFlat(seqs, f) ==
  f = [i \in 1 .. Len(seqs) |-> IF i = 1 THEN seqs[i] ELSE f[i - 1] \o seqs[i]]

Flat(seqs) == CHOOSE f : IsFlat(seqs, f)

LEMMA FlattenIs ==
  ASSUME NEW seqs, Len(seqs) # 0
  PROVE  FlattenSeq(seqs) = Flat(seqs)[Len(seqs)]
  BY DEF FlattenSeq, Flat, IsFlat

LEMMA FlatExists ==
  ASSUME NEW S, NEW seqs \in Seq(Seq(S)), Len(seqs) # 0
  PROVE  \E f : IsFlat(seqs, f)
<1> DEFINE n == Len(seqs)
           D == 1 .. n
           R == Seq(S)
           Z == {1}
           base == seqs[1]
           m == [i \in D |-> i]
           nx == [i \in D |-> IF i = 1 THEN i ELSE i - 1]
           G == [i \in D |-> [r \in R |-> r \o seqs[i]]]
<1>1. n \in Nat \ {0} /\ \A i \in D : seqs[i] \in R
  BY LenProperties, ElementOfSeq
<1> HIDE DEF n
<1>2. m \in [D -> Nat] /\ nx \in [D -> D] /\ \A i \in D \ Z : m[nx[i]] < m[i]
  BY <1>1
<1>3. base \in R
  <2>1. 1 \in D
    BY <1>1
  <2>2. QED
    BY <1>1, <2>1
<1>4. ASSUME NEW i \in D, NEW r \in R PROVE r \o seqs[i] \in R
  BY <1>1, ConcatProperties
<1>5. G \in [D -> [R -> R]]
  BY <1>4
<1>6. Descends(D, R, m, Z, nx, base, G)
  BY <1>2, <1>3, <1>5 DEF Descends
<1>7. PICK f : Defines(f, D, R, Z, nx, base, G)
  BY <1>6, Recursion, Zenon
<1>8. f \in [D -> R] /\ \A i \in D : f[i] = IF i = 1 THEN base ELSE G[i][f[nx[i]]]
  BY <1>7, Zenon DEF Defines
<1>9. ASSUME NEW i \in D, i # 1 PROVE G[i][f[nx[i]]] = f[i - 1] \o seqs[i]
  <2>1. nx[i] = i - 1 /\ nx[i] \in D
    BY <1>2, <1>9, Zenon
  <2>2. f[nx[i]] \in R
    BY <1>8, <2>1
  <2>3. QED
    BY <1>9, <2>1, <2>2, Zenon
<1>10. f = [i \in D |-> IF i = 1 THEN seqs[i] ELSE f[i - 1] \o seqs[i]]
  <2>1. base = seqs[1]
    OBVIOUS
  <2> HIDE DEF D, R, m, nx, G, base
  <2>2. QED
    BY <1>8, <1>9, <2>1, ZenonT(30)
<1>11. QED
  BY <1>10, Zenon DEF IsFlat, n

(* The concatenation of the first i sequences, one more at a time.         *)
LEMMA FlatUnfolds ==
  ASSUME NEW S, NEW seqs \in Seq(Seq(S)), Len(seqs) # 0
  PROVE  /\ Flat(seqs)[1] = seqs[1]
         /\ \A i \in 1 .. Len(seqs) : i # 1 => Flat(seqs)[i] = Flat(seqs)[i - 1] \o seqs[i]
<1> DEFINE f == Flat(seqs)
<1>1. IsFlat(seqs, f)
  BY FlatExists DEF Flat
<1> HIDE DEF f
<1>2. Len(seqs) \in Nat
  BY LenProperties
<1>3. 1 \in 1 .. Len(seqs)
  BY <1>2
<1>4. \A i \in 1 .. Len(seqs) : f[i] = IF i = 1 THEN seqs[i] ELSE f[i - 1] \o seqs[i]
  BY <1>1, Zenon DEF IsFlat
<1>5. QED
  BY <1>3, <1>4, Zenon DEF f

-----------------------------------------------------------------------------
(* The encodings of a list's elements.                                     *)
Encoded(elems) == [i \in DOMAIN elems |-> RlpEncodeItem(elems[i])]

LEMMA EncodedIs ==
  ASSUME NEW elems \in Seq(Short)
  PROVE  /\ Encoded(elems) \in Seq(Seq(Byte)) /\ Len(Encoded(elems)) = Len(elems)
         /\ \A i \in 1 .. Len(elems) :
              elems[i] \in Short /\ Encoded(elems)[i] = RlpEncodeItem(elems[i])
<1> DEFINE n == Len(elems)
           e == Encoded(elems)
<1>1. n \in Nat /\ DOMAIN elems = 1 .. n /\ \A i \in 1 .. n : elems[i] \in Short
  BY LenProperties, ElementOfSeq
<1> HIDE DEF n
<1>2. e = [i \in 1 .. n |-> RlpEncodeItem(elems[i])]
  BY <1>1 DEF Encoded
<1>3. ASSUME NEW x \in Short PROVE RlpEncodeItem(x) \in Seq(Byte)
  <2>1. <<>> \in Seq(Byte)
    BY EmptySeq
  <2>2. QED
    BY <2>1, ItemRoundTrip, Zenon
<1> HIDE DEF e
<1>4. e \in [1 .. n -> Seq(Byte)]
  BY <1>1, <1>2, <1>3
<1>5. e \in Seq(Seq(Byte)) /\ Len(e) = n
  BY <1>1, <1>4
<1>6. QED
  BY <1>1, <1>2, <1>5 DEF e, n

LEMMA BytesAreNumbers == ASSUME NEW b \in Seq(Byte) PROVE b \in Seq(Nat)
<1>1. Len(b) \in Nat /\ b \in [1 .. Len(b) -> Byte]
  BY LenProperties
<1>2. \A v \in Byte : v \in Nat
  BY DEF Byte
<1>3. b \in [1 .. Len(b) -> Nat]
  BY <1>1, <1>2
<1>4. QED
  BY <1>1, <1>3, SeqDef

LEMMA DecodeCons ==
  ASSUME NEW x \in Short, NEW t \in Seq(Byte)
  PROVE  DecodeItems(RlpEncodeItem(x) \o t) = <<x>> \o DecodeItems(t)
<1> DEFINE e == RlpEncodeItem(x)
           s == e \o t
<1>1. e \in Seq(Byte) /\ Len(e) \in 1 .. (Len(x) + 1) /\ DecodeItem(s) = [item |-> x, rest |-> t]
  BY ItemRoundTrip
<1> HIDE DEF e
<1>2. s \in Seq(Byte) /\ Len(s) = Len(e) + Len(t)
  BY <1>1, ConcatProperties
<1> HIDE DEF s
<1>3. s \in Seq(Nat)
  BY <1>2, BytesAreNumbers
<1>4. s # <<>>
  <2>1. Len(t) \in Nat /\ Len(x) \in Nat
    BY LenProperties DEF Short
  <2>2. Len(s) > 0
    BY <1>1, <1>2, <2>1
  <2>3. QED
    BY <2>2, EmptySeq
<1>5. DecodeItems(s) = <<DecodeItem(s).item>> \o DecodeItems(DecodeItem(s).rest)
  BY <1>3, <1>4, DecodeItemsUnfolds
<1>6. QED
  BY <1>1, <1>5, SMTT(30) DEF s, e

LEMMA PrefixGrows ==
  ASSUME NEW S, NEW q \in Seq(S), NEW k \in 1 .. Len(q)
  PROVE  /\ SubSeq(q, 1, k) \in Seq(S)
         /\ k # 1 => SubSeq(q, 1, k) = SubSeq(q, 1, k - 1) \o <<q[k]>>
         /\ k = 1 => SubSeq(q, 1, k) = <<q[k]>>
<1> DEFINE a == SubSeq(q, 1, k)
           b == SubSeq(q, 1, k - 1)
           c == <<q[k]>>
           d == b \o c
<1>1. Len(q) \in Nat /\ k \in Nat /\ \A i \in 1 .. Len(q) : q[i] \in S
  BY LenProperties, ElementOfSeq
<1>2. /\ a \in Seq(S) /\ Len(a) = k /\ \A i \in 1 .. k : a[i] = q[i]
  <2>1. 1 \in Int /\ k \in Int /\ \A i \in 1 .. k : q[i] \in S
    BY <1>1
  <2>2. /\ a \in Seq(S) /\ Len(a) = IF 1 <= k THEN k - 1 + 1 ELSE 0
        /\ \A i \in 1 .. (k - 1 + 1) : a[i] = q[1 + i - 1]
    BY <2>1, SubSeqProperties
  <2> HIDE DEF a
  <2>3. k - 1 + 1 = k /\ 1 <= k /\ \A i \in 1 .. k : 1 + i - 1 = i
    BY <1>1
  <2>4. QED
    BY <2>2, <2>3
<1>3. /\ b \in Seq(S) /\ Len(b) = k - 1 /\ \A i \in 1 .. (k - 1) : b[i] = q[i]
  <2>1. 1 \in Int /\ k - 1 \in Int /\ \A i \in 1 .. (k - 1) : q[i] \in S
    BY <1>1
  <2>2. /\ b \in Seq(S) /\ Len(b) = IF 1 <= k - 1 THEN (k - 1) - 1 + 1 ELSE 0
        /\ \A i \in 1 .. ((k - 1) - 1 + 1) : b[i] = q[1 + i - 1]
    BY <2>1, SubSeqProperties
  <2> HIDE DEF b
  <2>3. (k - 1) - 1 + 1 = k - 1 /\ \A i \in 1 .. (k - 1) : 1 + i - 1 = i
    BY <1>1
  <2>4. QED
    BY <1>1, <2>2, <2>3
<1>4. c \in Seq(S) /\ Len(c) = 1 /\ c[1] = q[k]
  BY <1>1, OneElement
<1> HIDE DEF a, b, c
<1>5. /\ d \in Seq(S) /\ Len(d) = Len(b) + Len(c)
      /\ \A i \in 1 .. (Len(b) + Len(c)) : d[i] = IF i <= Len(b) THEN b[i] ELSE c[i - Len(b)]
  BY <1>3, <1>4, ConcatProperties, Zenon
<1> HIDE DEF d
<1>6. Len(d) = k
  BY <1>1, <1>3, <1>4, <1>5
<1>7. ASSUME NEW i \in 1 .. k PROVE a[i] = d[i]
  <2>1. d[i] = IF i <= k - 1 THEN b[i] ELSE c[i - (k - 1)]
    BY <1>1, <1>3, <1>4, <1>5
  <2>2. CASE i <= k - 1
    <3>1. i \in 1 .. (k - 1)
      BY <1>1, <2>2
    <3>2. QED
      BY <1>2, <1>3, <2>1, <2>2, <3>1, SMTT(30)
  <2>3. CASE ~(i <= k - 1)
    <3>1. i = k /\ i - (k - 1) = 1
      BY <1>1, <2>3
    <3>2. QED
      BY <1>2, <1>4, <2>1, <2>3, <3>1, SMTT(30)
  <2>4. QED
    BY <2>2, <2>3
<1>8. a = d
  BY <1>2, <1>5, <1>6, <1>7, SeqEqual, SMTT(30)
<1>9. ASSUME k = 1 PROVE d = c
  <2>1. Len(b) = 0
    BY <1>3, <1>9
  <2>2. b = <<>>
    BY <1>3, <2>1, EmptySeq
  <2>3. QED
    BY <1>4, <2>2, ConcatEmptySeq DEF d
<1>10. QED
  BY <1>2, <1>8, <1>9, Zenon DEF a, b, c, d

(* Concatenation is associative.                                           *)
Regroups(a, b, c) == (a \o b) \o c = a \o (b \o c)

LEMMA Regrouped ==
  ASSUME NEW S, NEW a \in Seq(S), NEW b \in Seq(S), NEW c \in Seq(S)
  PROVE  Regroups(a, b, c)
  BY ConcatAssociative DEF Regroups

(* The decoder reads back the first k elements, and goes on with what      *)
(* follows them.                                                           *)
DecodesTo(k, flat, elems) ==
  /\ flat[k] \in Seq(Byte)
  /\ \A t \in Seq(Byte) : DecodeItems(t) \in Seq(Seq(Nat)) =>
       DecodeItems(flat[k] \o t) = SubSeq(elems, 1, k) \o DecodeItems(t)

LEMMA FlatDecodes ==
  ASSUME NEW elems \in Seq(Short), NEW k \in 1 .. Len(elems)
  PROVE  DecodesTo(k, Flat(Encoded(elems)), elems)
<1> DEFINE n == Len(elems)
           e == Encoded(elems)
           F == Flat(e)
           T == {i \in 1 .. n : ~DecodesTo(i, F, elems)}
<1>1. n \in Nat
  BY LenProperties
<1>2. /\ e \in Seq(Seq(Byte)) /\ Len(e) = n
      /\ \A i \in 1 .. n : elems[i] \in Short /\ e[i] = RlpEncodeItem(elems[i])
  BY EncodedIs
<1>3. n # 0
  BY <1>1
<1> HIDE DEF e
<1>4. F[1] = e[1] /\ \A i \in 1 .. n : i # 1 => F[i] = F[i - 1] \o e[i]
  BY <1>2, <1>3, FlatUnfolds, Zenon
<1> HIDE DEF F
<1>5. SUFFICES ASSUME T # {} PROVE FALSE
  BY DEF F, e
<1>6. T \in SUBSET Nat /\ \A i \in T : i \in 1 .. n
  BY <1>1
<1> HIDE DEF T
<1>7. PICK i \in T : \A j \in T : i <= j
  BY <1>5, <1>6, Least
<1>8. i \in 1 .. n /\ ~DecodesTo(i, F, elems)
  BY <1>6 DEF T
<1> DEFINE x == elems[i]
           ei == e[i]
<1>9. x \in Short /\ x \in Seq(Byte) /\ x \in Seq(Nat) /\ ei = RlpEncodeItem(x)
  BY <1>2, <1>8, BytesAreNumbers DEF Short
<1>10. ei \in Seq(Byte)
  BY <1>2, <1>8, ElementOfSeq
<1> HIDE DEF x, ei
<1>11. ASSUME NEW t \in Seq(Byte) PROVE DecodeItems(ei \o t) = <<x>> \o DecodeItems(t)
  BY <1>9, DecodeCons
<1>12. CASE i = 1
  <2>1. F[i] = ei
    BY <1>4, <1>12 DEF ei
  <2>2. SubSeq(elems, 1, i) = <<x>>
    BY <1>8, <1>12, PrefixGrows, Zenon DEF x
  <2>3. DecodesTo(i, F, elems)
    BY <1>10, <1>11, <2>1, <2>2, Zenon DEF DecodesTo
  <2>4. QED
    BY <1>8, <2>3
<1>13. CASE i # 1
  <2> DEFINE j == i - 1
             p == SubSeq(elems, 1, j)
  <2>1. j \in 1 .. n /\ ~(i <= j)
    BY <1>1, <1>8, <1>13
  <2>2. DecodesTo(j, F, elems)
    BY <1>7, <2>1 DEF T
  <2>3. F[i] = F[j] \o ei
    BY <1>4, <1>8, <1>13, Zenon DEF ei
  <2>4. SubSeq(elems, 1, i) = p \o <<x>>
    BY <1>8, <1>13, PrefixGrows DEF x
  <2>5. p \in Seq(Seq(Nat))
    <3>1. p \in Seq(Short)
      BY <2>1, PrefixGrows
    <3> HIDE DEF p
    <3>2. Len(p) \in Nat /\ p \in [1 .. Len(p) -> Short]
      BY <3>1, LenProperties
    <3>3. \A y \in Short : y \in Seq(Nat)
      BY BytesAreNumbers DEF Short
    <3>4. p \in [1 .. Len(p) -> Seq(Nat)]
      BY <3>2, <3>3
    <3>5. QED
      BY <3>2, <3>4, SeqDef
  <2> HIDE DEF j, p
  <2>6. F[j] \in Seq(Byte)
    BY <2>2 DEF DecodesTo
  <2>7. F[i] \in Seq(Byte)
    BY <1>10, <2>3, <2>6, ConcatProperties, SMTT(30)
  <2>8. ASSUME NEW t \in Seq(Byte), DecodeItems(t) \in Seq(Seq(Nat))
        PROVE  DecodeItems(F[i] \o t) = SubSeq(elems, 1, i) \o DecodeItems(t)
    <3> DEFINE u == ei \o t
               d == DecodeItems(t)
               one == <<x>>
    <3>1. u \in Seq(Byte)
      BY <1>10, ConcatProperties
    <3>2. DecodeItems(u) = one \o d
      BY <1>11
    <3>3. one \in Seq(Seq(Nat)) /\ d \in Seq(Seq(Nat))
      BY <1>9, <2>8
    <3>4. F[i] \o t = F[j] \o u
      <4>1. (F[j] \o ei) \o t = F[j] \o (ei \o t)
        <5>1. Regroups(F[j], ei, t)
          BY <1>10, <2>6, Regrouped
        <5>2. QED
          BY <5>1 DEF Regroups
      <4>2. QED
        BY <2>3, <4>1
    <3> HIDE DEF u, d, one
    <3>5. one \o d \in Seq(Seq(Nat))
      BY <3>3, ConcatProperties
    <3>6. DecodeItems(F[j] \o u) = p \o (one \o d)
      BY <2>2, <3>1, <3>2, <3>5, Zenon DEF DecodesTo, p
    <3>7. p \o (one \o d) = (p \o one) \o d
      <4>1. Regroups(p, one, d)
        BY <2>5, <3>3, Regrouped
      <4>2. QED
        BY <4>1 DEF Regroups
    <3>8. QED
      BY <2>4, <3>4, <3>6, <3>7, Zenon DEF one, d
  <2>9. DecodesTo(i, F, elems)
    BY <2>7, <2>8, Zenon DEF DecodesTo
  <2>10. QED
    BY <1>8, <2>9
<1>14. QED
  BY <1>12, <1>13

(* The bytes inside a list.                                                *)
Inner(elems) == FlattenSeq(Encoded(elems))

(* The inside of a list decodes to the list's elements.                    *)
LEMMA InnerDecodes ==
  ASSUME NEW elems \in Seq(Short), elems # <<>>
  PROVE  Inner(elems) \in Seq(Byte) /\ DecodeItems(Inner(elems)) = elems
<1> DEFINE n == Len(elems)
           F == Flat(Encoded(elems))
           none == <<>>
<1>1. n \in Nat /\ n # 0
  BY LenProperties, EmptySeq
<1>2. Inner(elems) = F[n]
  BY <1>1, EncodedIs, FlattenIs DEF Inner
<1>3. n \in 1 .. n
  BY <1>1
<1>4. DecodesTo(n, F, elems)
  BY <1>3, FlatDecodes
<1> HIDE DEF F
<1>5. none \in Seq(Byte) /\ none \in Seq(Seq(Nat)) /\ DecodeItems(none) = none
  BY EmptySeq, DecodeItemsUnfolds
<1>6. F[n] \in Seq(Byte) /\ DecodeItems(F[n] \o none) = SubSeq(elems, 1, n) \o none
  BY <1>4, <1>5, Zenon DEF DecodesTo
<1>7. F[n] \o none = F[n] /\ elems \o none = elems
  BY <1>6, ConcatEmptySeq
<1>8. SubSeq(elems, 1, n) = elems
  BY SubSeqFull
<1>9. QED
  BY <1>2, <1>6, <1>7, <1>8

(* The two parts of a concatenation s of a and b.                          *)
Joined(S, s, a, b) ==
  /\ s \in Seq(S) /\ Len(s) = Len(a) + Len(b)
  /\ \A i \in 1 .. Len(a) : s[i] = a[i]
  /\ \A i \in 1 .. Len(b) : s[Len(a) + i] = b[i]

LEMMA Joins ==
  ASSUME NEW S, NEW a \in Seq(S), NEW b \in Seq(S)
  PROVE  Joined(S, a \o b, a, b)
<1> DEFINE s == a \o b
           l == Len(a)
           m == Len(b)
<1>1. l \in Nat /\ m \in Nat
  BY LenProperties
<1>2. /\ s \in Seq(S) /\ Len(s) = l + m
      /\ \A i \in 1 .. (l + m) : s[i] = IF i <= l THEN a[i] ELSE b[i - l]
  BY ConcatProperties
<1> HIDE DEF s, l, m
<1>3. ASSUME NEW i \in 1 .. l PROVE s[i] = a[i]
  <2>1. i \in 1 .. (l + m) /\ i <= l
    BY <1>1
  <2>2. QED
    BY <1>2, <2>1
<1>4. ASSUME NEW i \in 1 .. m PROVE s[l + i] = b[i]
  <2>1. l + i \in 1 .. (l + m) /\ ~(l + i <= l) /\ (l + i) - l = i
    BY <1>1
  <2>2. QED
    BY <1>2, <2>1
<1>5. QED
  BY <1>2, <1>3, <1>4 DEF Joined, s, l, m

(* evmEncodeList is undone by the decoder, for every list whose elements   *)
(* are short and whose encodings take at most 255 bytes together.          *)
THEOREM ListRoundTrip ==
  ASSUME NEW elems \in Seq(Short), elems # <<>>, Len(Inner(elems)) <= 255
  PROVE  DecodeList(EvmEncodeList(elems)) = elems
<1> DEFINE inner == Inner(elems)
           n == Len(inner)
           b == EvmEncodeList(elems)
<1>1. inner \in Seq(Byte) /\ DecodeItems(inner) = elems
  BY InnerDecodes
<1>2. n \in Nat /\ n <= 255
  BY <1>1, LenProperties
<1>3. b = RlpEncodeLenPrefix(n, 192, 247) \o inner
  BY DEF EvmEncodeList, Inner, Encoded
<1> HIDE DEF inner, n, b
<1>4. CASE n <= 55
  <2> DEFINE p == 192 + n
             a == <<p>>
  <2>1. b = a \o inner
    BY <1>3, <1>4 DEF RlpEncodeLenPrefix
  <2>2. p \in Nat /\ p \in Byte /\ p \in 192 .. 247 /\ p # 248 /\ 1 + p - 192 = 1 + n
    BY <1>2, <1>4 DEF Byte
  <2> HIDE DEF p
  <2>3. a \in Seq(Byte) /\ Len(a) = 1 /\ a[1] = p
    BY <2>2, OneElement
  <2> HIDE DEF a
  <2>4. Joined(Byte, b, a, inner)
    BY <1>1, <2>1, <2>3, Joins
  <2>5. /\ b \in Seq(Byte) /\ Len(b) = 1 + n /\ b[1] = p
        /\ \A i \in 1 .. n : b[1 + i] = inner[i]
    BY <2>3, <2>4 DEF Joined, n
  <2>6. Tail(b) = inner
    <3>1. b # <<>>
      BY <1>2, <2>5, EmptySeq, SMTT(30)
    <3>2. /\ Tail(b) \in Seq(Byte) /\ Len(Tail(b)) = Len(b) - 1
          /\ \A i \in 1 .. Len(Tail(b)) : Tail(b)[i] = b[i + 1]
      BY <2>5, <3>1, HeadTailProperties, SMTT(30)
    <3>3. Len(Tail(b)) = n
      BY <1>2, <2>5, <3>2
    <3>4. ASSUME NEW i \in 1 .. n PROVE Tail(b)[i] = inner[i]
      <4>1. i + 1 = 1 + i
        BY <1>2
      <4>2. QED
        BY <2>5, <3>2, <3>3, <4>1
    <3>5. QED
      BY <1>1, <3>2, <3>3, <3>4, SeqEqual, SMTT(30) DEF n
  <2>7. b[1] \in 192 .. 247 /\ Len(b) = 1 + b[1] - 192 /\ b[1] # 248
    BY <2>2, <2>5
  <2>8. DecodeList(b) = DecodeItems(Tail(b))
    BY <2>7 DEF DecodeList
  <2>9. QED
    BY <1>1, <2>6, <2>8, Zenon DEF b
<1>5. CASE n > 55
  <2> DEFINE a == <<248>>
             c == <<n>>
             ac == a \o c
  <2>1. n \in 1 .. 255 /\ n \in Byte /\ 248 \in Byte
    BY <1>2, <1>5 DEF Byte
  <2>2. a \in Seq(Byte) /\ Len(a) = 1 /\ a[1] = 248 /\ c \in Seq(Byte) /\ Len(c) = 1 /\ c[1] = n
    BY <2>1, OneElement
  <2>3. b = ac \o inner
    <3>1. BigUint(n) = c
      BY <2>1, BigUintOneByte, Zenon
    <3>2. 247 + Len(c) = 248
      BY <2>2
    <3>3. ~(n <= 55)
      BY <1>2, <1>5
    <3>4. RlpEncodeLenPrefix(n, 192, 247) = <<247 + Len(BigUint(n))>> \o BigUint(n)
      BY <3>3 DEF RlpEncodeLenPrefix
    <3> HIDE DEF c
    <3>5. QED
      BY <1>3, <3>1, <3>4, <3>2, SMTT(30)
  <2> HIDE DEF a, c
  <2>4. ac \in Seq(Byte) /\ Len(ac) = 2 /\ ac[1] = 248 /\ ac[2] = n
    <3>1. Joined(Byte, ac, a, c)
      BY <2>2, Joins
    <3> HIDE DEF ac
    <3>2. ac \in Seq(Byte) /\ Len(ac) = 1 + 1 /\ ac[1] = 248 /\ ac[1 + 1] = n
      BY <2>2, <3>1 DEF Joined
    <3>3. QED
      BY <3>2
  <2>5. Sliced(Byte, b, a, c, inner)
    BY <1>1, <2>2, <2>3, Slices
  <2> HIDE DEF ac
  <2>6. Len(b) = 2 + n /\ SubSeq(b, 3, Len(b)) = inner
    <3>1. Len(b) = 1 + 1 + n /\ SubSeq(b, 1 + 1 + 1, Len(b)) = inner
      BY <2>2, <2>5 DEF Sliced, n
    <3>2. QED
      BY <1>2, <3>1
  <2>7. b[1] = 248 /\ b[2] = n
    <3>1. Joined(Byte, b, ac, inner)
      BY <1>1, <2>3, <2>4, Joins
    <3>2. QED
      BY <2>4, <3>1 DEF Joined
  <2>8. b[1] = 248 /\ b[2] > 55 /\ Len(b) = 2 + b[2] /\ ~(b[1] \in 192 .. 247)
    BY <1>5, <2>6, <2>7
  <2>9. DecodeList(b) = DecodeItems(SubSeq(b, 3, Len(b)))
    BY <2>8 DEF DecodeList
  <2>10. QED
    BY <1>1, <2>6, <2>9, Zenon DEF b
<1>6. QED
  BY <1>2, <1>4, <1>5

(* How long the inside of a list of nine elements may be.                  *)
LEMMA NineSum ==
  ASSUME NEW l \in [1 .. 9 -> Nat], NEW m \in [1 .. 9 -> Nat],
         l[1] <= m[1] + 1, \A i \in 2 .. 9 : l[i] <= l[i - 1] + m[i] + 1
  PROVE  l[9] <= m[1] + m[2] + m[3] + m[4] + m[5] + m[6] + m[7] + m[8] + m[9] + 9
<1>1. ASSUME NEW i \in 2 .. 9, NEW j \in 1 .. 8, j = i - 1
      PROVE  l[i] <= l[j] + m[i] + 1
  BY <1>1
<1>2. \A i \in 1 .. 9 : l[i] \in Nat /\ m[i] \in Nat
  OBVIOUS
<1>3. /\ l[2] <= l[1] + m[2] + 1 /\ l[3] <= l[2] + m[3] + 1 /\ l[4] <= l[3] + m[4] + 1
      /\ l[5] <= l[4] + m[5] + 1 /\ l[6] <= l[5] + m[6] + 1 /\ l[7] <= l[6] + m[7] + 1
      /\ l[8] <= l[7] + m[8] + 1 /\ l[9] <= l[8] + m[9] + 1
  BY <1>1
<1>4. QED
  BY <1>2, <1>3

(* The prefixes add at most one byte per element.                          *)
LEMMA NineLong ==
  ASSUME NEW elems \in Seq(Short), Len(elems) = 9
  PROVE  Len(Inner(elems)) <=
           Len(elems[1]) + Len(elems[2]) + Len(elems[3]) + Len(elems[4]) + Len(elems[5])
             + Len(elems[6]) + Len(elems[7]) + Len(elems[8]) + Len(elems[9]) + 9
<1> DEFINE n == Len(elems)
           e == Encoded(elems)
           F == Flat(e)
<1>1. /\ e \in Seq(Seq(Byte)) /\ Len(e) = n
      /\ \A i \in 1 .. n : elems[i] \in Short /\ e[i] = RlpEncodeItem(elems[i])
  BY EncodedIs, Zenon
<1>2. \A i \in 1 .. n : DecodesTo(i, F, elems)
  BY FlatDecodes, Zenon
<1>3. n = 9 /\ n # 0
  OBVIOUS
<1>4. Inner(elems) = F[n]
  <2>1. Len(e) # 0
    BY <1>1, <1>3
  <2>2. FlattenSeq(e) = Flat(e)[Len(e)]
    BY <2>1, FlattenIs, SMTT(30)
  <2>3. QED
    BY <1>1, <2>2 DEF Inner
<1> HIDE DEF n, e
<1>5. F[1] = e[1] /\ \A i \in 1 .. n : i # 1 => F[i] = F[i - 1] \o e[i]
  BY <1>1, <1>3, FlatUnfolds, Zenon
<1> HIDE DEF F
<1>6. \A i \in 1 .. n : F[i] \in Seq(Byte)
  BY <1>2 DEF DecodesTo
<1>7. ASSUME NEW i \in 1 .. n
      PROVE  /\ e[i] \in Seq(Byte) /\ Len(e[i]) \in Nat /\ Len(elems[i]) \in Nat
             /\ Len(e[i]) <= Len(elems[i]) + 1
  <2> DEFINE x == elems[i]
  <2>1. x \in Short /\ e[i] = RlpEncodeItem(x) /\ Len(x) \in Nat
    BY <1>1, LenProperties DEF Short
  <2>2. <<>> \in Seq(Byte)
    BY EmptySeq
  <2> HIDE DEF x
  <2>3. e[i] \in Seq(Byte) /\ Len(e[i]) \in 1 .. (Len(x) + 1)
    BY <2>1, <2>2, ItemRoundTrip, Zenon
  <2>4. QED
    BY <2>1, <2>3 DEF x
<1> DEFINE l == [i \in 1 .. n |-> Len(F[i])]
           m == [i \in 1 .. n |-> Len(elems[i])]
<1>8. ASSUME NEW i \in 1 .. n, i # 1 PROVE Len(F[i]) <= Len(F[i - 1]) + Len(elems[i]) + 1
  <2>1. i - 1 \in 1 .. n
    BY <1>3, <1>8
  <2>2. F[i] = F[i - 1] \o e[i] /\ F[i - 1] \in Seq(Byte) /\ e[i] \in Seq(Byte)
    BY <1>5, <1>6, <1>7, <1>8, <2>1, Zenon
  <2>3. Len(F[i]) = Len(F[i - 1]) + Len(e[i])
    BY <2>2, ConcatProperties
  <2>4. Len(F[i - 1]) \in Nat
    BY <2>2, LenProperties
  <2>5. Len(e[i]) \in Nat /\ Len(elems[i]) \in Nat /\ Len(e[i]) <= Len(elems[i]) + 1
    BY <1>7
  <2>6. \A p, q, r, s \in Nat : p = q + r /\ r <= s + 1 => p <= q + s + 1
    OBVIOUS
  <2>7. Len(F[i]) \in Nat
    BY <1>6, LenProperties
  <2>8. QED
    BY <2>3, <2>4, <2>5, <2>6, <2>7, Zenon
<1>9. l \in [1 .. n -> Nat] /\ m \in [1 .. n -> Nat]
  <2>1. \A i \in 1 .. n : Len(F[i]) \in Nat /\ Len(elems[i]) \in Nat
    BY <1>6, <1>7, LenProperties
  <2>2. QED
    BY <2>1
<1>10. l[1] <= m[1] + 1
  <2>1. 1 \in 1 .. n
    BY <1>3
  <2>2. QED
    BY <1>5, <1>7, <2>1
<1>11. ASSUME NEW i \in 1 .. n, i # 1 PROVE l[i] <= l[i - 1] + m[i] + 1
  <2>1. i - 1 \in 1 .. n
    BY <1>3, <1>11
  <2>2. l[i] = Len(F[i]) /\ l[i - 1] = Len(F[i - 1]) /\ m[i] = Len(elems[i])
    BY <2>1
  <2> HIDE DEF l, m
  <2>3. QED
    BY <1>8, <1>11, <2>2, Zenon
<1>12. \A i \in 1 .. n : l[i] = Len(F[i]) /\ m[i] = Len(elems[i])
  OBVIOUS
<1> HIDE DEF l, m
<1>13. \A i \in 2 .. 9 : l[i] <= l[i - 1] + m[i] + 1
  <2>1. \A i \in 2 .. 9 : i \in 1 .. n /\ i # 1
    BY <1>3
  <2>2. QED
    BY <1>11, <2>1
<1>14. l[9] <= m[1] + m[2] + m[3] + m[4] + m[5] + m[6] + m[7] + m[8] + m[9] + 9
  BY <1>3, <1>9, <1>10, <1>13, NineSum, Zenon
<1>15. /\ m[1] = Len(elems[1]) /\ m[2] = Len(elems[2]) /\ m[3] = Len(elems[3])
       /\ m[4] = Len(elems[4]) /\ m[5] = Len(elems[5]) /\ m[6] = Len(elems[6])
       /\ m[7] = Len(elems[7]) /\ m[8] = Len(elems[8]) /\ m[9] = Len(elems[9])
       /\ l[9] = Len(F[9])
  BY <1>3, <1>12
<1>16. QED
  BY <1>3, <1>4, <1>14, <1>15, SMTT(30)

-----------------------------------------------------------------------------
(* The fields of a legacy transaction, and the three that follow them.     *)
Fits(a, b) ==
  /\ a \in Seq(Short) /\ Len(a) = 6 /\ b \in Seq(Short) /\ Len(b) = 3
  /\ Len(a[1]) <= 8 /\ Len(a[2]) <= 8 /\ Len(a[3]) <= 8 /\ Len(a[4]) <= 20 /\ Len(a[5]) <= 55
  /\ Len(a[6]) = 0 /\ Len(b[1]) <= 1 /\ Len(b[2]) <= 32 /\ Len(b[3]) <= 32

(* A list of such fields fits the one length byte of a list, and decodes.  *)
LEMMA FieldsRoundTrip ==
  ASSUME NEW a, NEW b, Fits(a, b)
  PROVE  DecodeList(EvmEncodeList(a \o b)) = a \o b
<1> DEFINE s == a \o b
<1>1. a \in Seq(Short) /\ Len(a) = 6 /\ b \in Seq(Short) /\ Len(b) = 3
  BY DEF Fits
<1>2. Joined(Short, s, a, b)
  BY <1>1, Joins
<1> HIDE DEF s
<1>3. s \in Seq(Short) /\ Len(s) = 9
  BY <1>1, <1>2 DEF Joined
<1>4. /\ s[1] = a[1] /\ s[2] = a[2] /\ s[3] = a[3] /\ s[4] = a[4] /\ s[5] = a[5] /\ s[6] = a[6]
      /\ s[6 + 1] = b[1] /\ s[6 + 2] = b[2] /\ s[6 + 3] = b[3]
  BY <1>1, <1>2 DEF Joined
<1>5. s[7] = b[1] /\ s[8] = b[2] /\ s[9] = b[3]
  BY <1>4
<1>6. \A i \in 1 .. 9 : Len(s[i]) \in Nat
  <2>1. \A i \in 1 .. Len(s) : s[i] \in Short
    BY <1>3, ElementOfSeq, Zenon
  <2>2. \A x \in Short : Len(x) \in Nat
    BY LenProperties DEF Short
  <2>3. QED
    BY <1>3, <2>1, <2>2
<1>7. Len(Inner(s)) <= Len(s[1]) + Len(s[2]) + Len(s[3]) + Len(s[4]) + Len(s[5])
                         + Len(s[6]) + Len(s[7]) + Len(s[8]) + Len(s[9]) + 9
  BY <1>3, NineLong, Zenon
<1>8. /\ Len(s[1]) <= 8 /\ Len(s[2]) <= 8 /\ Len(s[3]) <= 8 /\ Len(s[4]) <= 20
      /\ Len(s[5]) <= 55 /\ Len(s[6]) = 0 /\ Len(s[7]) <= 1 /\ Len(s[8]) <= 32 /\ Len(s[9]) <= 32
  BY <1>4, <1>5 DEF Fits
<1>9. s # <<>>
  BY <1>3, EmptySeq, SMTT(30)
<1>10. Len(Inner(s)) \in Nat
  BY <1>3, <1>9, InnerDecodes, LenProperties
<1>11. Len(Inner(s)) <= 255
  <2> DEFINE m == Len(Inner(s))
             n1 == Len(s[1])  n2 == Len(s[2])  n3 == Len(s[3])
             n4 == Len(s[4])  n5 == Len(s[5])  n6 == Len(s[6])
             n7 == Len(s[7])  n8 == Len(s[8])  n9 == Len(s[9])
  <2>1. 1 \in 1 .. 9 /\ 2 \in 1 .. 9 /\ 3 \in 1 .. 9 /\ 4 \in 1 .. 9 /\ 5 \in 1 .. 9
        /\ 6 \in 1 .. 9 /\ 7 \in 1 .. 9 /\ 8 \in 1 .. 9 /\ 9 \in 1 .. 9
    OBVIOUS
  <2>2. /\ n1 \in Nat /\ n2 \in Nat /\ n3 \in Nat /\ n4 \in Nat /\ n5 \in Nat
        /\ n6 \in Nat /\ n7 \in Nat /\ n8 \in Nat /\ n9 \in Nat
    BY <1>6, <2>1, Zenon
  <2>3. m <= n1 + n2 + n3 + n4 + n5 + n6 + n7 + n8 + n9 + 9
    BY <1>7, Zenon
  <2>4. /\ n1 <= 8 /\ n2 <= 8 /\ n3 <= 8 /\ n4 <= 20 /\ n5 <= 55 /\ n6 = 0
        /\ n7 <= 1 /\ n8 <= 32 /\ n9 <= 32
    BY <1>8, Zenon
  <2>5. m \in Nat
    BY <1>10, Zenon
  <2> HIDE DEF m, n1, n2, n3, n4, n5, n6, n7, n8, n9
  <2>6. m <= 255
    BY <2>2, <2>3, <2>4, <2>5, SMTT(30)
  <2>7. QED
    BY <2>6, Zenon DEF m
<1>12. QED
  BY <1>3, <1>9, <1>11, ListRoundTrip, Zenon DEF s

-----------------------------------------------------------------------------
LEMMA BigUintGrows ==
  ASSUME NEW n \in Nat, NEW q \in Nat, n # 0, n \div 256 = q
  PROVE  Len(BigUint(n)) = Len(BigUint(q)) + 1
<1>1. BigUint(n) = Append(BigUint(q), n % 256)
  BY BigUintUnfolds, Zenon
<1>2. BigUint(q) \in Seq(Byte) /\ n % 256 \in Byte
  BY BigUintMinimal, DivMod DEF Minimal
<1>3. QED
  BY <1>1, <1>2, AppendProperties

(* The gas constants have four and two bytes, a number below 256 one.      *)
LEMMA BigUintLengths ==
  /\ Len(BigUint(EVMGasPrice)) = 4 /\ Len(BigUint(EVMGasLimit)) = 2
  /\ \A v \in 1 .. 255 : Len(BigUint(v)) = 1
<1> DEFINE r == 82
           q1 == 59
           q2 == 15258
           q3 == 3906250
<1>1. ASSUME NEW v \in 1 .. 255 PROVE Len(BigUint(v)) = 1
  <2>1. BigUint(v) = <<v>>
    BY BigUintOneByte
  <2>2. QED
    BY <2>1
<1>2. /\ r \in 1 .. 255 /\ r \in Nat
      /\ EVMGasLimit \in Nat /\ EVMGasLimit # 0 /\ EVMGasLimit \div 256 = r
  BY DEF EVMGasLimit
<1>3. q1 \in 1 .. 255 /\ q1 \in Nat
  OBVIOUS
<1>4. q2 \in Nat /\ q2 # 0 /\ q2 \div 256 = q1
  OBVIOUS
<1>5. q3 \in Nat /\ q3 # 0 /\ q3 \div 256 = q2
  OBVIOUS
<1>6. EVMGasPrice \in Nat /\ EVMGasPrice # 0 /\ EVMGasPrice \div 256 = q3
  BY DEF EVMGasPrice
<1> HIDE DEF r, q1, q2, q3
<1>7. Len(BigUint(r)) = 1 /\ Len(BigUint(q1)) = 1
  BY <1>1, <1>2, <1>3, Zenon
<1>8. Len(BigUint(EVMGasLimit)) = Len(BigUint(r)) + 1
  BY <1>2, BigUintGrows, Zenon
<1>9. /\ Len(BigUint(q2)) = Len(BigUint(q1)) + 1
      /\ Len(BigUint(q3)) = Len(BigUint(q2)) + 1
      /\ Len(BigUint(EVMGasPrice)) = Len(BigUint(q3)) + 1
  <2>1. Len(BigUint(q2)) = Len(BigUint(q1)) + 1
    BY <1>3, <1>4, BigUintGrows, Zenon
  <2>2. Len(BigUint(q3)) = Len(BigUint(q2)) + 1
    BY <1>4, <1>5, BigUintGrows, Zenon
  <2>3. Len(BigUint(EVMGasPrice)) = Len(BigUint(q3)) + 1
    BY <1>5, <1>6, BigUintGrows, Zenon
  <2>4. QED
    BY <2>1, <2>2, <2>3, Zenon
<1>10. 1 + 1 = 2 /\ 2 + 1 = 3 /\ 3 + 1 = 4
  OBVIOUS
<1>11. Len(BigUint(EVMGasLimit)) = 2
  BY <1>7, <1>8, <1>10, Zenon
<1>12. Len(BigUint(EVMGasPrice)) = 4
  BY <1>7, <1>9, <1>10, Zenon
<1>13. QED
  BY <1>1, <1>11, <1>12, Zenon

LEMMA IsShort ==
  ASSUME NEW x \in Seq(Byte), NEW n \in 0 .. 55, Len(x) <= n
  PROVE  x \in Short
<1>1. Len(x) \in Nat
  BY LenProperties
<1>2. \A m \in Nat : m <= n => m <= 55
  OBVIOUS
<1>3. Len(x) <= 55
  BY <1>1, <1>2, Zenon
<1>4. QED
  BY <1>3, Zenon DEF Short

LEMMA SixElements ==
  ASSUME NEW S, NEW x1 \in S, NEW x2 \in S, NEW x3 \in S, NEW x4 \in S, NEW x5 \in S, NEW x6 \in S,
         NEW a, a = <<x1, x2, x3, x4, x5, x6>>
  PROVE  /\ a \in Seq(S) /\ Len(a) = 6
         /\ a[1] = x1 /\ a[2] = x2 /\ a[3] = x3 /\ a[4] = x4 /\ a[5] = x5 /\ a[6] = x6
  OBVIOUS

LEMMA ThreeElements ==
  ASSUME NEW S, NEW x1 \in S, NEW x2 \in S, NEW x3 \in S, NEW b, b = <<x1, x2, x3>>
  PROVE  b \in Seq(S) /\ Len(b) = 3 /\ b[1] = x1 /\ b[2] = x2 /\ b[3] = x3
  OBVIOUS

(* Nonces and amounts that requests and reservations can have.             *)
Plausible(j) ==
  /\ j.nonce \in Nat /\ Len(BigUint(j.nonce)) <= 8
  /\ j.amount.n \in Int /\ Len(BigUint(Magnitude(j.amount.n))) <= 55

LEMMA MagnitudeNat == ASSUME NEW n \in Int PROVE Magnitude(n) \in Nat
  BY DEF Magnitude

(* The six fields of a build, each short and the numbers minimal.          *)
LegacyShape(j, a) ==
  /\ a \in Seq(Short) /\ Len(a) = 6
  /\ Len(a[1]) <= 8 /\ Len(a[2]) <= 8 /\ Len(a[3]) <= 8 /\ Len(a[4]) <= 20 /\ Len(a[5]) <= 55
  /\ Len(a[6]) = 0
  /\ a[1] = BigUint(j.nonce) /\ a[4] = To /\ a[5] = BigUint(Magnitude(j.amount.n))
  /\ Minimal(a[1]) /\ Minimal(a[2]) /\ Minimal(a[3]) /\ Minimal(a[5])

(* What LegacyFields yields for a plausible build.                         *)
LEMMA LegacyFits ==
  ASSUME NEW j, Plausible(j)
  PROVE  LegacyShape(j, LegacyFields(EvmTx(j)))
<1> DEFINE x1 == BigUint(j.nonce)
           x2 == BigUint(EVMGasPrice)
           x3 == BigUint(EVMGasLimit)
           x5 == BigUint(Magnitude(j.amount.n))
           x6 == <<>>
           a == LegacyFields(EvmTx(j))
<1>1. a = <<x1, x2, x3, To, x5, x6>>
  <2>1. ~(j.nonce < 0)
    BY DEF Plausible
  <2>2. QED
    BY <2>1 DEF LegacyFields, EvmTx
<1>2. EVMGasPrice \in Nat /\ EVMGasLimit \in Nat
  BY DEF EVMGasPrice, EVMGasLimit
<1>3. Minimal(x1) /\ Minimal(x2) /\ Minimal(x3) /\ Minimal(x5)
  BY <1>2, BigUintMinimal, MagnitudeNat, Zenon DEF Plausible
<1>4. Len(x1) <= 8 /\ Len(x2) <= 8 /\ Len(x3) <= 8 /\ Len(x5) <= 55
  <2>1. 4 <= 8 /\ 2 <= 8
    OBVIOUS
  <2>2. QED
    BY <2>1, BigUintLengths, Zenon DEF Plausible
<1>5. x6 \in Seq(Byte) /\ Len(x6) = 0
  BY EmptySeq
<1>6. To \in Seq(Byte) /\ Len(To) = 20
  BY BuildAssumption DEF Byte
<1>7. /\ 8 \in 0 .. 55 /\ 55 \in 0 .. 55 /\ 20 \in 0 .. 55 /\ 0 \in 0 .. 55
      /\ 20 <= 20 /\ 0 <= 0
  OBVIOUS
<1> HIDE DEF x1, x2, x3, x5, x6, a
<1>8. x1 \in Short /\ x2 \in Short /\ x3 \in Short /\ To \in Short /\ x5 \in Short /\ x6 \in Short
  <2>1. x1 \in Short /\ x2 \in Short /\ x3 \in Short
    BY <1>3, <1>4, <1>7, IsShort, ZenonT(30) DEF Minimal
  <2>2. x5 \in Short
    BY <1>3, <1>4, <1>7, IsShort, ZenonT(30) DEF Minimal
  <2>3. To \in Short
    BY <1>6, <1>7, IsShort, Zenon
  <2>4. x6 \in Short
    BY <1>5, <1>7, IsShort, ZenonT(30)
  <2>5. QED
    BY <2>1, <2>2, <2>3, <2>4
<1>9. /\ a \in Seq(Short) /\ Len(a) = 6
      /\ a[1] = x1 /\ a[2] = x2 /\ a[3] = x3 /\ a[4] = To /\ a[5] = x5 /\ a[6] = x6
  BY <1>1, <1>8, SixElements
<1>10. LegacyShape(j, a)
  <2>1. Len(a[1]) <= 8 /\ Len(a[2]) <= 8 /\ Len(a[3]) <= 8
    BY <1>4, <1>9, Zenon
  <2>2. Len(a[4]) <= 20
    BY <1>6, <1>7, <1>9, Zenon
  <2>3. Len(a[5]) <= 55 /\ Len(a[6]) = 0
    BY <1>4, <1>5, <1>9, Zenon
  <2>4. Minimal(a[1]) /\ Minimal(a[2]) /\ Minimal(a[3]) /\ Minimal(a[5])
    BY <1>3, <1>9, Zenon
  <2>5. a[1] = BigUint(j.nonce) /\ a[4] = To /\ a[5] = BigUint(Magnitude(j.amount.n))
    BY <1>9, Zenon DEF x1, x5
  <2>6. QED
    BY <1>9, <2>1, <2>2, <2>3, <2>4, <2>5, ZenonT(30) DEF LegacyShape
<1>11. QED
  BY <1>10 DEF a

(* The three fields that end a signed transaction.                         *)
SignedShape(b) ==
  /\ b \in Seq(Short) /\ Len(b) = 3 /\ Len(b[1]) <= 1 /\ Len(b[2]) <= 32 /\ Len(b[3]) <= 32
  /\ Minimal(b[1]) /\ Minimal(b[2]) /\ Minimal(b[3])

LEMMA SliceOfSig ==
  ASSUME NEW S, NEW sig \in Seq(S), NEW k \in Int, NEW m \in Int, 1 <= k, k <= m, m <= Len(sig)
  PROVE  SubSeq(sig, k, m) \in Seq(S) /\ Len(SubSeq(sig, k, m)) = m - k + 1
<1>1. \A i \in 1 .. Len(sig) : sig[i] \in S
  BY ElementOfSeq
<1>2. Len(sig) \in Nat
  BY LenProperties
<1>3. \A i \in k .. m : i \in 1 .. Len(sig)
  <2> DEFINE l == Len(sig)
  <2>1. l \in Nat /\ m <= l
    BY <1>2
  <2> HIDE DEF l
  <2>2. \A i \in k .. m : i \in 1 .. l
    BY <2>1
  <2>3. QED
    BY <2>2 DEF l
<1>4. \A i \in k .. m : sig[i] \in S
  BY <1>1, <1>3, Zenon
<1> DEFINE n == IF k <= m THEN m - k + 1 ELSE 0
<1>5. n = m - k + 1
  OBVIOUS
<1>6. SubSeq(sig, k, m) \in Seq(S) /\ Len(SubSeq(sig, k, m)) = n
  BY <1>4, SubSeqProperties, Zenon
<1> HIDE DEF n
<1>7. QED
  BY <1>5, <1>6, Zenon

(* What Trim keeps: the bytes from the first one that is not zero.         *)
LEMMA TrimKeeps ==
  ASSUME NEW b \in Seq(Byte), NonZero(b) # {}
  PROVE  LET f == Min(NonZero(b))
         IN  /\ f \in 1 .. Len(b) /\ \A i \in 1 .. Len(b) : i < f => b[i] = 0
             /\ Len(Trim(b)) = Len(b) - f + 1
             /\ \A i \in 1 .. (Len(b) - f + 1) : Trim(b)[i] = b[f + i - 1]
<1> DEFINE f == Min(NonZero(b))
           s == SubSeq(b, f, Len(b))
<1>1. Len(b) \in Nat /\ \A i \in 1 .. Len(b) : b[i] \in Byte
  BY LenProperties, ElementOfSeq
<1>2. f \in NonZero(b) /\ \A i \in NonZero(b) : f <= i
  <2>1. NonZero(b) \in SUBSET Nat
    BY DEF NonZero
  <2>2. QED
    BY <2>1, MinIs, Zenon
<1>3. f \in 1 .. Len(b)
  BY <1>2 DEF NonZero
<1>4. Trim(b) = s
  BY <1>1, TrimIs
<1> HIDE DEF f
<1>5. ASSUME NEW i \in 1 .. Len(b), i < f PROVE b[i] = 0
  <2>1. ~(f <= i)
    BY <1>3, <1>5
  <2>2. i \notin NonZero(b)
    BY <1>2, <2>1, Zenon
  <2>3. QED
    BY <2>2, Zenon DEF NonZero
<1>6. /\ Len(s) = Len(b) - f + 1
      /\ \A i \in 1 .. (Len(b) - f + 1) : s[i] = b[f + i - 1]
  <2>1. f \in Int /\ Len(b) \in Int /\ f <= Len(b) /\ \A i \in f .. Len(b) : b[i] \in Byte
    BY <1>1, <1>3
  <2>2. QED
    BY <2>1, SubSeqProperties
<1> HIDE DEF s
<1>7. QED
  BY <1>3, <1>4, <1>5, <1>6, Zenon DEF f

(* Trimming 32 bytes loses nothing: padded to 32 bytes they are the same.  *)
LEMMA WordOfTrim ==
  ASSUME NEW b \in Seq(Byte), Len(b) = 32
  PROVE  Word(Trim(b)) = b
<1> DEFINE t == Trim(b)
           l == Len(t)
           k(i) == IF i + l > 32 THEN t[i + l - 32] ELSE 0
<1>1. b \in [1 .. 32 -> Byte]
  <2>1. b \in [1 .. Len(b) -> Byte]
    BY LenProperties, Zenon
  <2>2. QED
    BY <2>1, Zenon
<1>2. CASE NonZero(b) = {}
  <2>1. l = 0
    <3>1. Len(b) \in Nat
      BY LenProperties
    <3>2. t = <<>>
      BY <1>2, <3>1, TrimIs
    <3>3. QED
      BY <3>2, EmptySeq
  <2>2. ASSUME NEW i \in 1 .. 32 PROVE b[i] = 0
    BY <1>2, Zenon DEF NonZero
  <2> HIDE DEF l
  <2>3. ASSUME NEW i \in 1 .. 32 PROVE k(i) = 0
    BY <2>1
  <2>4. QED
    BY <1>1, <2>2, <2>3, ZenonT(30) DEF Word, l
<1>3. CASE NonZero(b) # {}
  <2> DEFINE f == Min(NonZero(b))
  <2>1. /\ f \in 1 .. 32 /\ \A i \in 1 .. 32 : i < f => b[i] = 0
        /\ l = 32 - f + 1
        /\ \A i \in 1 .. (32 - f + 1) : t[i] = b[f + i - 1]
    <3>1. /\ f \in 1 .. Len(b) /\ \A i \in 1 .. Len(b) : i < f => b[i] = 0
          /\ l = Len(b) - f + 1
          /\ \A i \in 1 .. (Len(b) - f + 1) : t[i] = b[f + i - 1]
      BY <1>3, TrimKeeps, Zenon
    <3> HIDE DEF f, l, t
    <3>2. QED
      BY <3>1, Zenon
  <2> HIDE DEF f, l, t
  <2>2. ASSUME NEW i \in 1 .. 32 PROVE b[i] = k(i)
    <3>1. CASE i < f
      <4>1. ~(i + l > 32)
        BY <2>1, <3>1
      <4>2. QED
        BY <2>1, <3>1, <4>1, Zenon
    <3>2. CASE ~(i < f)
      <4> DEFINE n == i + l - 32
      <4>1. n \in 1 .. (32 - f + 1) /\ f + n - 1 = i /\ i + l > 32
        BY <2>1, <3>2
      <4> HIDE DEF n
      <4>2. t[n] = b[i]
        BY <2>1, <4>1, Zenon
      <4>3. QED
        BY <4>1, <4>2, Zenon DEF n
    <3>3. QED
      BY <3>1, <3>2, Zenon
  <2>3. Word(t) = [i \in 1 .. 32 |-> k(i)]
    BY Zenon DEF Word, l
  <2> HIDE DEF k
  <2>4. QED
    BY <1>1, <2>2, <2>3 DEF t
<1>4. QED
  BY <1>2, <1>3, Zenon

(* The two halves of a signature after its header.                         *)
LEMMA Halves ==
  ASSUME NEW sig \in Seq(Byte), Len(sig) = 65
  PROVE  SubSeq(sig, 2, 33) \o SubSeq(sig, 34, 65) = Tail(sig)
<1> DEFINE m == 2
           k == 33
           h == 34
           n == 65
<1>1. m \in 1 .. n + 1 /\ k \in m - 1 .. n /\ n \in k .. n /\ k + 1 = h
  OBVIOUS
<1>2. Tail(sig) = SubSeq(sig, m, Len(sig))
  <2>1. 65 # 0
    OBVIOUS
  <2>2. sig # <<>>
    BY <2>1, EmptySeq, Zenon
  <2>3. QED
    BY <2>2, TailIsSubSeq, Zenon
<1>3. Len(sig) = n
  BY Zenon
<1> HIDE DEF m, k, h, n
<1>4. m \in 1 .. Len(sig) + 1 /\ k \in m - 1 .. Len(sig) /\ n \in k .. Len(sig)
  BY <1>1, <1>3, Zenon
<1>5. SubSeq(sig, m, k) \o SubSeq(sig, k + 1, n) = SubSeq(sig, m, n)
  BY <1>4, ConcatAdjacentSubSeq, Zenon
<1>6. SubSeq(sig, m, k) \o SubSeq(sig, h, n) = Tail(sig)
  BY <1>1, <1>2, <1>3, <1>5, Zenon
<1>7. QED
  BY <1>6, Zenon DEF m, k, h, n

(* evmSigFromMPC: r and s are trimmed 32-byte halves, and v is one byte    *)
(* that names the recovery id on chain 1; padded again, r and s are what   *)
(* follows the header of the reply.                                        *)
LEMMA SigFits ==
  ASSUME NEW sig \in Seq(Byte), SigAccepted(sig)
  PROVE  LET g == SigFromMPC(sig)
             b == <<BigUint(g.v), g.r, g.s>>
         IN  /\ SignedShape(b) /\ b[1] = BigUint(g.v) /\ g.v \in Nat
             /\ g.v = 35 + 2 * EVMChainID + RecoveryID(sig)
             /\ Word(b[2]) \o Word(b[3]) = Tail(sig)
<1> DEFINE g == SigFromMPC(sig)
           p == SubSeq(sig, 2, 33)
           q == SubSeq(sig, 34, 65)
           id == sig[1] - 27
           y == BigUint(g.v)
           b == <<y, g.r, g.s>>
<1>1. Len(sig) = 65 /\ sig[1] \in 27 .. 34
  BY DEF SigAccepted
<1>2. p \in Seq(Byte) /\ Len(p) = 32 /\ q \in Seq(Byte) /\ Len(q) = 32
  <2> DEFINE k1 == 2
             m1 == 33
             k2 == 34
             m2 == 65
             n == 32
  <2>1. /\ k1 \in Int /\ m1 \in Int /\ 1 <= k1 /\ k1 <= m1 /\ m1 <= m2 /\ m1 - k1 + 1 = n
        /\ k2 \in Int /\ m2 \in Int /\ 1 <= k2 /\ k2 <= m2 /\ m2 <= m2 /\ m2 - k2 + 1 = n
    OBVIOUS
  <2>2. Len(sig) = m2
    BY <1>1, Zenon
  <2> HIDE DEF k1, m1, k2, m2, n
  <2>3. m1 <= Len(sig) /\ m2 <= Len(sig)
    BY <2>1, <2>2, Zenon
  <2>4. SubSeq(sig, k1, m1) \in Seq(Byte) /\ Len(SubSeq(sig, k1, m1)) = m1 - k1 + 1
    <3>1. k1 \in Int /\ m1 \in Int /\ 1 <= k1 /\ k1 <= m1
      BY <2>1, Zenon
    <3>2. QED
      BY <2>3, <3>1, SliceOfSig, Zenon
  <2>5. SubSeq(sig, k2, m2) \in Seq(Byte) /\ Len(SubSeq(sig, k2, m2)) = m2 - k2 + 1
    <3>1. k2 \in Int /\ m2 \in Int /\ 1 <= k2 /\ k2 <= m2
      BY <2>1, Zenon
    <3>2. QED
      BY <2>3, <3>1, SliceOfSig, Zenon
  <2>6. m1 - k1 + 1 = n /\ m2 - k2 + 1 = n
    BY <2>1, Zenon
  <2>7. /\ SubSeq(sig, k1, m1) \in Seq(Byte) /\ Len(SubSeq(sig, k1, m1)) = n
        /\ SubSeq(sig, k2, m2) \in Seq(Byte) /\ Len(SubSeq(sig, k2, m2)) = n
    BY <2>4, <2>5, <2>6, ZenonT(30)
  <2>8. QED
    BY <2>7, Zenon DEF k1, m1, k2, m2, n
<1>3. g.r = Trim(p) /\ g.s = Trim(q) /\ g.v = 1 * 2 + 35 + IF id >= 4 THEN id - 4 ELSE id
  BY DEF SigFromMPC, EvmSigFromMPC, EVMChainID
<1>4. g.v \in 37 .. 40
  <2>1. id \in 0 .. 7
    BY <1>1
  <2> HIDE DEF id, g
  <2>2. QED
    BY <1>3, <2>1
<1> HIDE DEF p, q, g
<1>5. Minimal(g.r) /\ Minimal(g.s) /\ Len(g.r) <= 32 /\ Len(g.s) <= 32
  BY <1>2, <1>3, TrimMinimal, Zenon
<1>6. Minimal(y) /\ Len(y) = 1
  <2>1. g.v \in Nat /\ g.v \in 1 .. 255
    BY <1>4
  <2>2. QED
    BY <2>1, BigUintMinimal, BigUintLengths, Zenon
<1>7. g.v \in Nat /\ g.v = 35 + 2 * EVMChainID + RecoveryID(sig)
  <2>1. id \in 0 .. 7 /\ RecoveryID(sig) = id % 4
    BY <1>1 DEF RecoveryID
  <2> HIDE DEF id
  <2>2. id % 4 = IF id >= 4 THEN id - 4 ELSE id
    BY <2>1
  <2>3. QED
    BY <1>3, <1>4, <2>1, <2>2 DEF EVMChainID
<1>8. 1 \in 0 .. 55 /\ 32 \in 0 .. 55 /\ 1 <= 1
  OBVIOUS
<1> DEFINE r == g.r
           s == g.s
<1> HIDE DEF y
<1>9. y \in Short /\ r \in Short /\ s \in Short
  BY <1>5, <1>6, <1>8, IsShort, ZenonT(30) DEF Minimal
<1>10. b = <<y, r, s>>
  OBVIOUS
<1>11. /\ Minimal(r) /\ Minimal(s) /\ Len(r) <= 32 /\ Len(s) <= 32
  BY <1>5
<1> HIDE DEF r, s, b
<1>12. b \in Seq(Short) /\ Len(b) = 3 /\ b[1] = y /\ b[2] = r /\ b[3] = s
  BY <1>9, <1>10, ThreeElements
<1>13. SignedShape(b) /\ b[1] = y
  BY <1>6, <1>8, <1>11, <1>12, ZenonT(30) DEF SignedShape
<1>14. Word(b[2]) \o Word(b[3]) = Tail(sig)
  <2>1. b[2] = Trim(p) /\ b[3] = Trim(q)
    BY <1>3, <1>12, Zenon DEF r, s
  <2>2. Word(b[2]) = p /\ Word(b[3]) = q
    BY <1>2, <2>1, WordOfTrim, Zenon
  <2>3. p \o q = Tail(sig)
    BY <1>1, Halves, Zenon DEF p, q
  <2>4. QED
    BY <2>2, <2>3, Zenon
<1>15. QED
  BY <1>7, <1>13, <1>14 DEF b, y, g

LEMMA FirstPart ==
  ASSUME NEW S, NEW a \in Seq(S), NEW b \in Seq(S), Len(a) = 6
  PROVE  SubSeq(a \o b, 1, 6) = a
<1> DEFINE e == <<>>
           s == (e \o a) \o b
<1>1. e \in Seq(S) /\ Len(e) = 0 /\ e \o a = a
  BY EmptySeq, ConcatEmptySeq
<1> HIDE DEF e
<1>2. Sliced(S, s, e, a, b)
  BY <1>1, Slices, ZenonT(30)
<1>3. s = a \o b
  BY <1>1
<1> HIDE DEF s
<1>4. SubSeq(s, 0 + 1, 0 + 6) = a
  BY <1>1, <1>2 DEF Sliced
<1>5. 0 + 1 = 1 /\ 0 + 6 = 6
  OBVIOUS
<1>6. QED
  BY <1>3, <1>4, <1>5, ZenonT(30)

(* What a reader of the two encodings of build j, signed with sig, finds.  *)
ReadsAlike(j, sig) ==
  LET signed == DecodeList(j.payload[2])
      sent == DecodeList(j.tx)
  IN  /\ Len(signed) = 9 /\ Len(sent) = 9
      /\ SubSeq(signed, 1, 6) = SubSeq(sent, 1, 6)
      /\ Number(sent[1]) = j.nonce /\ sent[4] = To
      /\ Number(sent[5]) = Magnitude(j.amount.n)
      /\ Number(signed[7]) = EVMChainID
      /\ Number(sent[7]) = 35 + 2 * EVMChainID + RecoveryID(sig)
      /\ Word(sent[8]) \o Word(sent[9]) = Tail(sig)
      /\ \A i \in {1, 2, 3, 5, 7, 8, 9} : Trim(sent[i]) = sent[i]

(* The signed and the sent encoding of a build, read back, agree.          *)
LEMMA EncodingsReadAlike ==
  ASSUME NEW j, Plausible(j), NEW sig \in Seq(Byte), SigAccepted(sig),
         j.payload = Keccak(EvmEncodeLegacyForSigning(EvmTx(j), EVMChainID)),
         j.tx = AssembleEvm(j, sig)
  PROVE  ReadsAlike(j, sig)
<1> DEFINE a == LegacyFields(EvmTx(j))
           g == SigFromMPC(sig)
           b == <<BigUint(g.v), g.r, g.s>>
           none == <<>>
           one == BigUint(EVMChainID)
           c == <<one, none, none>>
           signed == a \o c
           sent == a \o b
<1>1. LegacyShape(j, a)
  BY LegacyFits
<1>2. /\ SignedShape(b) /\ b[1] = BigUint(g.v) /\ g.v \in Nat
      /\ g.v = 35 + 2 * EVMChainID + RecoveryID(sig)
      /\ Word(b[2]) \o Word(b[3]) = Tail(sig)
  BY SigFits
<1>3. c \in Seq(Short) /\ Len(c) = 3 /\ c[1] = one /\ c[2] = none /\ c[3] = none
  <2>1. none \in Seq(Byte) /\ Len(none) = 0
    BY EmptySeq
  <2>2. one \in Seq(Byte) /\ Len(one) = 1
    <3>1. EVMChainID \in Nat /\ EVMChainID \in 1 .. 255
      BY DEF EVMChainID
    <3>2. QED
      BY <3>1, BigUintMinimal, BigUintLengths, Zenon DEF Minimal
  <2> HIDE DEF none, one
  <2>3. none \in Short /\ one \in Short
    <3>1. 0 \in 0 .. 55 /\ 1 \in 0 .. 55 /\ 0 <= 0 /\ 1 <= 1
      OBVIOUS
    <3>2. QED
      BY <2>1, <2>2, <3>1, IsShort, Zenon
  <2>4. QED
    BY <2>3, ThreeElements
<1>4. Len(one) = 1 /\ Len(none) = 0
  <2>1. EVMChainID \in 1 .. 255
    BY DEF EVMChainID
  <2>2. QED
    BY <2>1, BigUintLengths, ZenonT(30)
<1>5. j.payload[2] = EvmEncodeList(signed)
  BY DEF EvmEncodeLegacyForSigning, Keccak
<1>6. j.tx = EvmEncodeList(sent)
  BY DEF AssembleEvm, EvmEncodeSignedTx
<1> HIDE DEF a, b, c, none, one, g
<1>7. Fits(a, c) /\ Fits(a, b)
  BY <1>1, <1>2, <1>3, <1>4 DEF Fits, LegacyShape, SignedShape
<1>8. DecodeList(j.payload[2]) = signed /\ DecodeList(j.tx) = sent
  BY <1>5, <1>6, <1>7, FieldsRoundTrip, SMTT(30)
<1>9. a \in Seq(Short) /\ Len(a) = 6 /\ b \in Seq(Short) /\ Len(b) = 3
  BY <1>1, <1>2 DEF LegacyShape, SignedShape
<1>10. Joined(Short, signed, a, c) /\ Joined(Short, sent, a, b)
  BY <1>3, <1>9, Joins
<1>11. SubSeq(signed, 1, 6) = a /\ SubSeq(sent, 1, 6) = a
  BY <1>3, <1>9, FirstPart, SMTT(30)
<1> HIDE DEF signed, sent
<1>12. Len(signed) = 9 /\ Len(sent) = 9
  BY <1>3, <1>9, <1>10, SMTT(30) DEF Joined
<1>13. signed[7] = one
  <2>1. signed[6 + 1] = c[1]
    BY <1>3, <1>9, <1>10, SMTT(30) DEF Joined
  <2>2. QED
    BY <1>3, <2>1, SMTT(30)
<1>14. /\ sent[1] = a[1] /\ sent[2] = a[2] /\ sent[3] = a[3] /\ sent[4] = a[4] /\ sent[5] = a[5]
       /\ sent[7] = b[1] /\ sent[8] = b[2] /\ sent[9] = b[3]
  <2>1. \A i \in 1 .. 6 : sent[i] = a[i]
    BY <1>9, <1>10 DEF Joined
  <2>2. \A i \in 1 .. 3 : sent[6 + i] = b[i]
    BY <1>9, <1>10 DEF Joined
  <2>3. sent[6 + 1] = b[1] /\ sent[6 + 2] = b[2] /\ sent[6 + 3] = b[3]
    BY <2>2
  <2>4. QED
    BY <2>1, <2>3, SMTT(30)
<1>15. /\ Number(sent[1]) = j.nonce /\ sent[4] = To
       /\ Number(sent[5]) = Magnitude(j.amount.n)
  <2>1. sent[1] = BigUint(j.nonce) /\ sent[4] = To /\ sent[5] = BigUint(Magnitude(j.amount.n))
    BY <1>1, <1>14 DEF LegacyShape
  <2>2. j.nonce \in Nat /\ Magnitude(j.amount.n) \in Nat
    BY MagnitudeNat, ZenonT(30) DEF Plausible
  <2>3. QED
    BY <2>1, <2>2, NumberOfBigUint, SMTT(30)
<1>16. Number(signed[7]) = EVMChainID
  <2>1. EVMChainID \in Nat
    BY DEF EVMChainID
  <2>2. QED
    BY <1>13, <2>1, NumberOfBigUint DEF one
<1>17. Number(sent[7]) = 35 + 2 * EVMChainID + RecoveryID(sig)
  <2>1. Number(sent[7]) = g.v
    BY <1>2, <1>14, NumberOfBigUint, SMTT(30)
  <2>2. QED
    BY <1>2, <2>1, SMTT(30)
<1>18. /\ Minimal(sent[1]) /\ Minimal(sent[2]) /\ Minimal(sent[3]) /\ Minimal(sent[5])
       /\ Minimal(sent[7]) /\ Minimal(sent[8]) /\ Minimal(sent[9])
  BY <1>1, <1>2, <1>14, SMTT(30) DEF LegacyShape, SignedShape
<1>19. \A i \in {1, 2, 3, 5, 7, 8, 9} : Trim(sent[i]) = sent[i]
  BY <1>18, TrimOfMinimal
<1>20. Word(sent[8]) \o Word(sent[9]) = Tail(sig)
  BY <1>2, <1>14, Zenon
<1>21. QED
  BY <1>8, <1>11, <1>12, <1>15, <1>16, <1>17, <1>19, <1>20, Zenon DEF ReadsAlike

-----------------------------------------------------------------------------
(* A build on an EVM chain: its nonce and amount are the reserved and the  *)
(* requested ones from the start, what it signs is the encoding of those,  *)
(* and what it sends is the encoding of the same with the accepted         *)
(* signature it was given.                                                 *)
EvmJob(j, amounts) ==
  /\ j.pc # "fetch"
  /\ j.pc # "idle" => j.nonce \in Nonces /\ j.amount.n \in amounts
  /\ j.pc = "sign" \/ (j.pc = "done" /\ j.ok) =>
       j.payload = Keccak(EvmEncodeLegacyForSigning(EvmTx(j), EVMChainID))
  /\ j.pc = "done" /\ j.ok =>
       j.sig \in Signatures /\ SigAccepted(j.sig) /\ j.tx = AssembleEvm(j, j.sig)

EvmInv ==
  /\ scenario \in Scenarios
  /\ DOMAIN job = Builders /\ \A b \in Builders : DOMAIN job[b] = Fields
  /\ IsEVM(Chain) => \A b \in Builders : EvmJob(job[b], scenario.amounts)

LEMMA EvmInit == Init => EvmInv
<1> SUFFICES ASSUME Init PROVE EvmInv
  OBVIOUS
<1>1. scenario \in Scenarios /\ DOMAIN job = Builders /\ \A b \in Builders : job[b] = Idle
  BY DEF Init
<1>2. Idle.pc = "idle"
  BY DEF Idle
<1>3. EvmJob(Idle, scenario.amounts)
  BY <1>2, SMTT(30) DEF EvmJob
<1>4. QED
  BY <1>1, <1>3, IdleFields DEF EvmInv

(* The encodings depend on nothing of a build but its nonce and amount.    *)
LEMMA SameTx ==
  ASSUME NEW j, NEW k, j.nonce = k.nonce, j.amount = k.amount
  PROVE  EvmTx(j) = EvmTx(k) /\ \A sig : AssembleEvm(j, sig) = AssembleEvm(k, sig)
  BY DEF EvmTx, AssembleEvm

(* A step that replaces build b alone.                                     *)
LEMMA EvmStep ==
  ASSUME EvmInv, NEW b \in Builders, NEW x, DOMAIN x = Fields, job' = [job EXCEPT ![b] = x],
         scenario' = scenario, IsEVM(Chain) => EvmJob(x, scenario.amounts)
  PROVE  EvmInv'
<1>1. /\ DOMAIN job' = Builders /\ job'[b] = x
      /\ \A c \in Builders \ {b} : job'[c] = job[c]
  BY DEF EvmInv
<1>2. Chain' = Chain
  BY DEF Chain
<1>3. QED
  BY <1>1, <1>2, SMTT(30) DEF EvmInv

(* Every step keeps EvmInv; only the three EVM steps of a build matter.    *)
LEMMA EvmNext == EvmInv /\ [Next]_vars => EvmInv'
<1> SUFFICES ASSUME EvmInv, [Next]_vars PROVE EvmInv'
  OBVIOUS
<1>1. DOMAIN job = Builders /\ \A b \in Builders : DOMAIN job[b] = Fields
  BY DEF EvmInv
<1>2. CASE UNCHANGED <<scenario, job>>
  BY <1>2 DEF EvmInv, Chain
<1>3. IsEVM(Chain) => Chain # "bitcoin" /\ Chain # "solana"
  BY DEF IsEVM, EVMChains
<1>4. ASSUME NEW b \in Builders, IsEVM(Chain) PROVE EvmJob(job[b], scenario.amounts)
  BY <1>4 DEF EvmInv
<1>5. ASSUME NEW b \in Builders, Refuse(b), job[b].pc # "idle", UNCHANGED scenario PROVE EvmInv'
  <2> DEFINE x == [[job[b] EXCEPT !.pc = "done"] EXCEPT !.ok = FALSE]
  <2>1. job' = [job EXCEPT ![b] = x]
    BY <1>1, <1>5, Zenon DEF Refuse
  <2>2. /\ DOMAIN x = Fields /\ x.pc = "done" /\ x.ok = FALSE
        /\ x.nonce = job[b].nonce /\ x.amount = job[b].amount
    BY <1>1 DEF Fields
  <2> HIDE DEF x
  <2>3. IsEVM(Chain) => EvmJob(x, scenario.amounts)
    BY <1>4, <1>5, <2>2 DEF EvmJob
  <2>4. QED
    BY <1>5, <2>1, <2>2, <2>3, EvmStep, Zenon
<1>6. ASSUME NEW b \in Builders, NEW hash, SolanaBuilt(b, hash), ~IsEVM(Chain), UNCHANGED scenario
      PROVE  EvmInv'
  <2> DEFINE x == [[[[job[b] EXCEPT !.pc = "sign"] EXCEPT !.hash = hash] EXCEPT !.at = clock]
                     EXCEPT !.payload = SolanaMessage(job[b], hash)]
  <2>1. job' = [job EXCEPT ![b] = x]
    BY <1>1, <1>6, Zenon DEF SolanaBuilt
  <2>2. DOMAIN x = Fields
    BY <1>1 DEF Fields
  <2> HIDE DEF x
  <2>3. QED
    BY <1>6, <2>1, <2>2, EvmStep, Zenon
<1>7. ASSUME NEW b \in Builders, Start(b) PROVE EvmInv'
  <2>1. PICK n \in scenario.amounts, k \in Nonces, i \in 0 .. MaxInputs :
          job' = [job EXCEPT ![b].pc = "resolve", ![b].amount = AmountText(n),
                             ![b].nonce = k, ![b].inputs = i]
    BY <1>7, Zenon DEF Start
  <2> DEFINE x == [[[[job[b] EXCEPT !.pc = "resolve"] EXCEPT !.amount = AmountText(n)]
                      EXCEPT !.nonce = k] EXCEPT !.inputs = i]
  <2>2. job' = [job EXCEPT ![b] = x]
    BY <1>1, <2>1, Zenon
  <2>3. DOMAIN x = Fields /\ x.pc = "resolve" /\ x.nonce = k /\ x.amount = AmountText(n)
    BY <1>1 DEF Fields
  <2> HIDE DEF x
  <2>4. AmountText(n).n = n
    BY DEF AmountText
  <2>5. EvmJob(x, scenario.amounts)
    BY <2>3, <2>4 DEF EvmJob
  <2>6. UNCHANGED scenario
    BY <1>7 DEF Start
  <2>7. QED
    BY <2>2, <2>3, <2>5, <2>6, EvmStep, Zenon
<1>8. ASSUME NEW b \in Builders, ResolveBuildOpts(b) PROVE EvmInv'
  <2> DEFINE x == [[[job[b] EXCEPT !.pc = "build"] EXCEPT !.key = ResolvedKey]
                     EXCEPT !.owner = active]
  <2>1. job' = [job EXCEPT ![b] = x] /\ UNCHANGED scenario /\ job[b].pc = "resolve"
    BY <1>1, <1>8, ZenonT(30) DEF ResolveBuildOpts
  <2>2. DOMAIN x = Fields /\ x.pc = "build" /\ x.nonce = job[b].nonce /\ x.amount = job[b].amount
    BY <1>1 DEF Fields
  <2> HIDE DEF x
  <2>3. IsEVM(Chain) => EvmJob(x, scenario.amounts)
    BY <1>4, <2>1, <2>2 DEF EvmJob
  <2>4. QED
    BY <2>1, <2>2, <2>3, EvmStep, Zenon
<1>9. ASSUME NEW b \in Builders, NEW p, Built(b, p), job[b].pc = "build", UNCHANGED scenario,
             IsEVM(Chain) => p = Keccak(EvmEncodeLegacyForSigning(EvmTx(job[b]), EVMChainID))
      PROVE  EvmInv'
  <2> DEFINE x == [[job[b] EXCEPT !.pc = "sign"] EXCEPT !.payload = p]
  <2>1. job' = [job EXCEPT ![b] = x]
    BY <1>1, <1>9, ZenonT(30) DEF Built
  <2>2. /\ DOMAIN x = Fields /\ x.pc = "sign" /\ x.payload = p
        /\ x.nonce = job[b].nonce /\ x.amount = job[b].amount
    BY <1>1 DEF Fields
  <2> HIDE DEF x
  <2>3. EvmTx(x) = EvmTx(job[b])
    BY <2>2, SameTx
  <2>4. IsEVM(Chain) => EvmJob(x, scenario.amounts)
    BY <1>4, <1>9, <2>2, <2>3, SMTT(30) DEF EvmJob
  <2>5. QED
    BY <1>9, <2>1, <2>2, <2>4, EvmStep, Zenon
<1>10. ASSUME NEW b \in Builders, BuildEVMUnsignedTx(b) PROVE EvmInv'
  <2>1. job[b].pc = "build" /\ UNCHANGED scenario
    BY <1>10, ZenonT(30) DEF BuildEVMUnsignedTx
  <2>2. \/ Refuse(b)
        \/ Built(b, Keccak(EvmEncodeLegacyForSigning(EvmTx(job[b]), EVMChainID)))
    BY <1>10 DEF BuildEVMUnsignedTx
  <2>3. QED
    BY <1>5, <1>9, <2>1, <2>2, SMTT(30)
<1>11. ASSUME NEW b \in Builders, BuildBTCUnsignedTx(b) PROVE EvmInv'
  <2>1. /\ job[b].pc = "build" /\ UNCHANGED scenario /\ ~IsEVM(Chain)
        /\ Refuse(b) \/ \E p : Built(b, p)
    BY <1>3, <1>11 DEF BuildBTCUnsignedTx
  <2>2. QED
    BY <1>5, <1>9, <2>1, SMTT(30)
<1>12. ASSUME NEW b \in Builders, BuildSolanaUnsignedTx(b) PROVE EvmInv'
  <2>1. job[b].pc = "build" /\ UNCHANGED scenario /\ ~IsEVM(Chain)
    BY <1>3, <1>12 DEF BuildSolanaUnsignedTx
  <2>2. ASSUME job' = [job EXCEPT ![b].pc = "fetch", ![b].at = clock] PROVE EvmInv'
    <3> DEFINE x == [[job[b] EXCEPT !.pc = "fetch"] EXCEPT !.at = clock]
    <3>1. job' = [job EXCEPT ![b] = x]
      BY <1>1, <2>2, Zenon
    <3>2. DOMAIN x = Fields
      BY <1>1 DEF Fields
    <3> HIDE DEF x
    <3>3. QED
      BY <2>1, <3>1, <3>2, EvmStep, Zenon
  <2>3. \/ Refuse(b) \/ SolanaBuilt(b, PlaceholderHash) \/ SolanaBuilt(b, hashCache.hash)
        \/ job' = [job EXCEPT ![b].pc = "fetch", ![b].at = clock]
    BY <1>12 DEF BuildSolanaUnsignedTx
  <2>4. QED
    BY <1>5, <1>6, <2>1, <2>2, <2>3, SMTT(30)
<1>13. ASSUME NEW b \in Builders, FetchReply(b) \/ FetchFails(b) PROVE EvmInv'
  <2>1. job[b].pc = "fetch" /\ UNCHANGED scenario /\ (Refuse(b) \/ \E h : SolanaBuilt(b, h))
    BY <1>13, SMTT(30) DEF FetchReply, FetchFails
  <2>2. ~IsEVM(Chain)
    BY <1>4, <2>1 DEF EvmJob
  <2>3. QED
    BY <1>5, <1>6, <2>1, <2>2, SMTT(30)
<1>14. ASSUME NEW b \in Builders, Assemble(b) PROVE EvmInv'
  <2>1. job[b].pc = "sign" /\ UNCHANGED scenario
    BY <1>14 DEF Assemble
  <2>2. ASSUME NEW g \in Signatures, NEW t,
               job' = [job EXCEPT ![b].pc = "done", ![b].ok = TRUE, ![b].sig = g, ![b].tx = t],
               IsEVM(Chain) => SigAccepted(g) /\ t = AssembleEvm(job[b], g)
        PROVE  EvmInv'
    <3> DEFINE x == [[[[job[b] EXCEPT !.pc = "done"] EXCEPT !.ok = TRUE] EXCEPT !.sig = g]
                      EXCEPT !.tx = t]
    <3>1. job' = [job EXCEPT ![b] = x]
      BY <1>1, <2>2, Zenon
    <3>2. /\ DOMAIN x = Fields /\ x.pc = "done" /\ x.sig = g /\ x.tx = t
          /\ x.payload = job[b].payload
          /\ x.nonce = job[b].nonce /\ x.amount = job[b].amount
      BY <1>1 DEF Fields
    <3> HIDE DEF x
    <3>3. EvmTx(x) = EvmTx(job[b]) /\ \A sig : AssembleEvm(x, sig) = AssembleEvm(job[b], sig)
      BY <3>2, SameTx
    <3>4. IsEVM(Chain) => EvmJob(x, scenario.amounts)
      BY <1>4, <2>1, <2>2, <3>2, <3>3, SMTT(30) DEF EvmJob
    <3>5. QED
      BY <2>1, <3>1, <3>2, <3>4, EvmStep, Zenon
  <2>3. \/ Refuse(b)
        \/ \E g \in Signatures : \E t :
             /\ job' = [job EXCEPT ![b].pc = "done", ![b].ok = TRUE, ![b].sig = g, ![b].tx = t]
             /\ IsEVM(Chain) => SigAccepted(g) /\ t = AssembleEvm(job[b], g)
    BY <1>3, <1>14, Zenon DEF Assemble
  <2>4. CASE Refuse(b)
    BY <1>5, <2>1, <2>4
  <2>5. QED
    BY <2>2, <2>3, <2>4, ZenonT(30)
<1>15. CASE UNCHANGED vars
  BY <1>2, <1>15 DEF vars
<1>16. CASE Derive \/ LoseActive \/ Evict \/ Tick
  BY <1>2, <1>16 DEF Derive, LoseActive, Evict, Tick
<1>17. QED
  BY <1>7, <1>8, <1>10, <1>11, <1>12, <1>13, <1>14, <1>15, <1>16, SMTT(30) DEF Next

(* What an EVM build has signed and what it sends are one transaction:     *)
(* both encodings decode to the reserved nonce, the recipient and the      *)
(* magnitude of the requested amount, in minimal form; the v, r and s that *)
(* are sent are the recovery id for chain 1 and the two scalars of the     *)
(* signer's reply, whatever the nonce, the amount and the accepted         *)
(* signature (buildEVMUnsignedTx and its Assemble).                        *)
THEOREM EvmSendsWhatWasSigned == Spec => []EvmSignsWhatItSends
<1>1. EvmInv => EvmSignsWhatItSends
  <2> SUFFICES ASSUME EvmInv, NEW b \in Builders, Done(b), IsEVM(Chain)
               PROVE  ReadsAlike(job[b], job[b].sig)
    BY ZenonT(30) DEF EvmSignsWhatItSends, ReadsAlike
  <2> DEFINE j == job[b]
  <2>1. EvmJob(j, scenario.amounts) /\ scenario \in Scenarios /\ j.pc = "done" /\ j.ok
    BY SMTT(30) DEF EvmInv, Done
  <2> HIDE DEF j
  <2>2. j.sig \in Signatures /\ SigAccepted(j.sig) /\ j.tx = AssembleEvm(j, j.sig)
    BY <2>1, SMTT(30) DEF EvmJob
  <2>3. j.payload = Keccak(EvmEncodeLegacyForSigning(EvmTx(j), EVMChainID))
    BY <2>1 DEF EvmJob
  <2>4. Plausible(j)
    <3>1. j.nonce \in Nonces /\ j.amount.n \in scenario.amounts
      BY <2>1 DEF EvmJob
    <3>2. QED
      BY <2>1, <3>1, BuildAssumption, SMTT(30) DEF Plausible
  <2>5. j.sig \in Seq(Byte)
    BY <2>2, BuildAssumption DEF Byte
  <2>6. ReadsAlike(j, j.sig)
    BY <2>2, <2>3, <2>4, <2>5, EncodingsReadAlike
  <2>7. QED
    BY <2>6, SMTT(30) DEF j
<1>2. QED
  BY <1>1, EvmInit, EvmNext, PTL DEF Spec
=============================================================================
