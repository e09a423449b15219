----------------------------- MODULE TxBuilder -----------------------------
(***************************************************************************)
(* Building and assembling the transaction of a withdrawal                 *)
(* (txbuilder.go, resolver.go, solana_rpc.go), while addresses are being   *)
(* derived and the Solana blockhash cache is shared by concurrent builds.  *)
(* Each build is one call of ConstructAndSign from resolveBuildOpts to     *)
(* Assemble.  Time is counted in units of 10 s.                            *)
(***************************************************************************)
EXTENDS Deriver, FiniteSets

CONSTANTS
  Builders, Scenarios,
  Nonces, To,            \* reserved nonces, the recipient
  Signatures,            \* replies of the MPC signer
  MaxInputs, MaxTime, MaxIndex

\* A nonce is an int64, parseEVMAddress returns 20 bytes and the signer
\* bytes; no amount has more than 55 bytes (NUMERIC(38,18) has at most 9
\* before the point).  Nothing on the way to a build refuses a sign.
ASSUME BuildAssumption ==
  /\ \A n \in Nonces : n \in Nat /\ Len(BigUint(n)) <= 8
  /\ To \in Seq(0 .. 255) /\ Len(To) = 20
  /\ Signatures \subseteq Seq(0 .. 255)
  /\ \A s \in Scenarios : \A n \in s.amounts : n \in Int /\ Len(BigUint(Magnitude(n))) <= 55

VARIABLES
  scenario,    \* [chain, rows (which store), rpc (is an RPC URL set),
               \*  builders, amounts (those requested)]
  clock,
  hashCache,   \* [hash, at]: cached and cachedAt of the fetcher, 0 when unset
  active,      \* the wallet's active address record, or NoAddress
  job          \* the build of each builder

vars == <<scenario, clock, hashCache, active, addrCache, job>>

CacheTTL == 3          \* solanaBlockhashCacheTTL, 30 s
ClientTimeout == 1     \* http.Client's Timeout, 10 s
NodeLag == 1           \* how far a node may be behind the chain, 10 s
Validity == 5          \* the ~50 s of the comment on the TTL

EVMChainID == 1
EVMGasPrice == 1000000000
EVMGasLimit == 21000

PlaceholderHash == -1
PlaceholderKey == <<"placeholder">>

Idle == [pc |-> "idle", amount |-> [n |-> 0, places |-> 0], nonce |-> 0,
         inputs |-> 0, key |-> <<>>, owner |-> NoAddress, hash |-> 0,
         at |-> 0, payload |-> <<>>, sig |-> <<>>, tx |-> <<>>, ok |-> FALSE]

Init ==
  /\ scenario \in Scenarios
  /\ clock = 1 + NodeLag
  /\ hashCache = [hash |-> 0, at |-> 0]
  /\ active = NoAddress
  /\ addrCache = {}
  /\ job = [b \in Builders |-> Idle]

Chain == scenario.chain
Refuse(b) == job' = [job EXCEPT ![b].pc = "done", ![b].ok = FALSE]
Built(b, payload) == job' = [job EXCEPT ![b].pc = "sign", ![b].payload = payload]

-----------------------------------------------------------------------------
(* The wallet's address, as rotation derives and stores it. *)

Derive ==
  \E index \in {active.index + 1} \intersect 0 .. MaxIndex :
    /\ \E d \in DeriveAt(Chain, index, 0) : active' = d.result /\ addrCache' = d.cache
    /\ UNCHANGED <<scenario, clock, hashCache, job>>

\* A rotation that stopped between deprecating and inserting.
LoseActive ==
  /\ active' = [NoAddress EXCEPT !.index = active.index]
  /\ active # active'
  /\ UNCHANGED <<scenario, clock, hashCache, addrCache, job>>

Evict ==
  /\ EvictAddress
  /\ UNCHANGED <<scenario, clock, hashCache, active, job>>

-----------------------------------------------------------------------------
(* resolveBuildOpts and the three builders. *)

\* The text of the amount: memstore keeps the request's, PostgreSQL prints
\* NUMERIC(38,18) with all its decimals.
AmountText(n) ==
  [n |-> n, places |-> IF scenario.rows = "postgres" THEN 18 ELSE 0]

\* With the reserved nonce or outpoints; an amount that is not positive is
\* covered by no outpoint.
Start(b) ==
  /\ job[b].pc = "idle" /\ b \in scenario.builders
  /\ \E n \in scenario.amounts, k \in Nonces, i \in 0 .. MaxInputs :
       /\ ~IsEVM(Chain) => k = 0
       /\ i > 0 <=> (Chain = "bitcoin" /\ n > 0)
       /\ job' = [job EXCEPT ![b].pc = "resolve", ![b].amount = AmountText(n),
                             ![b].nonce = k, ![b].inputs = i]
  /\ UNCHANGED <<scenario, clock, hashCache, active, addrCache>>

\* BTCPubKeyHash and SolanaFrom; no active address gives the zero keys.
ResolvedKey ==
  IF active.address = <<>> THEN <<>>
  ELSE CASE Chain = "bitcoin" -> BTCPubKeyHashFor(active.path)
         [] Chain = "solana" -> active.address[2]
         [] OTHER -> <<>>

ResolveBuildOpts(b) ==
  /\ job[b].pc = "resolve"
  /\ job' = [job EXCEPT ![b].pc = "build", ![b].key = ResolvedKey, ![b].owner = active]
  /\ UNCHANGED <<scenario, clock, hashCache, active, addrCache>>

\* big.Int's SetString and ParseUint refuse a decimal point, ParseUint also
\* a sign.
IsIntegerText(amount) == amount.places = 0
IsUintText(amount) == amount.places = 0 /\ amount.n >= 0

EvmTx(j) ==
  [nonce |-> IF j.nonce < 0 THEN 0 ELSE j.nonce, gasPrice |-> EVMGasPrice,
   gasLimit |-> EVMGasLimit, to |-> To, value |-> j.amount.n]

BuildEVMUnsignedTx(b) ==
  LET j == job[b]
  IN  /\ j.pc = "build" /\ IsEVM(Chain)
      /\ IF IsIntegerText(j.amount)
         THEN Built(b, Keccak(EvmEncodeLegacyForSigning(EvmTx(j), EVMChainID)))
         ELSE Refuse(b)
      /\ UNCHANGED <<scenario, clock, hashCache, active, addrCache>>

\* One sighash per input, over the whole transaction, the script of the key
\* and an equal share of the amount; the output takes the whole amount.
\* Without an outpoint there is nothing to sign.
BuildBTCUnsignedTx(b) ==
  LET j == job[b]
      script == Hash160(IF j.key = <<>> THEN PlaceholderKey ELSE j.key)
  IN  /\ j.pc = "build" /\ Chain = "bitcoin"
      /\ IF j.inputs = 0 THEN Refuse(b)
         ELSE Built(b, [i \in 1 .. j.inputs |->
                <<"sighash", i, script, j.amount.n, j.amount.n \div j.inputs>>])
      /\ UNCHANGED <<scenario, clock, hashCache, active, addrCache>>

\* External: encoding/binary, eight bytes, the low one first.
LittleEndian(n) ==
  [i \in 1 .. 8 |-> IF i > 4 THEN 0 ELSE (n \div 256 ^ (i - 1)) % 256]

\* Header, account table, blockhash and the one Transfer instruction.
SolanaMessage(j, hash) ==
  LET from == IF j.key = <<>> THEN PlaceholderKey ELSE j.key
  IN  <<1, 0, 1, 3, from, To, "system", hash, 1, 2, 2, 0, 1, 9, 2>>
        \o LittleEndian(j.amount.n)

SolanaBuilt(b, hash) ==
  job' = [job EXCEPT ![b].pc = "sign", ![b].hash = hash, ![b].at = clock,
                     ![b].payload = SolanaMessage(job[b], hash)]

\* Mutant: the lifetime is counted twice.
CachedTwiceAsLong ==
  hashCache.at # 0 /\ clock - hashCache.at < 2 * CacheTTL /\ hashCache.hash # 0

CachedIsFresh ==
  hashCache.at # 0 /\ clock - hashCache.at < CacheTTL /\ hashCache.hash # 0

\* With FetchRecentBlockhash up to its RPC request.
BuildSolanaUnsignedTx(b) ==
  LET j == job[b]
  IN  /\ j.pc = "build" /\ Chain = "solana"
      /\ CASE ~IsUintText(j.amount) -> Refuse(b)
           [] IsUintText(j.amount) /\ ~scenario.rpc ->
                SolanaBuilt(b, PlaceholderHash)
           [] OTHER ->
                IF CachedIsFresh THEN SolanaBuilt(b, hashCache.hash)
                ELSE job' = [job EXCEPT ![b].pc = "fetch", ![b].at = clock]
      /\ UNCHANGED <<scenario, clock, hashCache, active, addrCache>>

\* The node answers with the hash of a slot that it knew when it was asked,
\* assumed to be at most NodeLag older than the request, or of a later one.
FetchReply(b) ==
  /\ job[b].pc = "fetch"
  /\ \E h \in job[b].at - NodeLag .. clock :
       /\ hashCache' = [hash |-> h, at |-> clock]
       /\ SolanaBuilt(b, h)
  /\ UNCHANGED <<scenario, clock, active, addrCache>>

\* An error, a bad reply or the client's timeout.
FetchFails(b) ==
  /\ job[b].pc = "fetch"
  /\ Refuse(b)
  /\ UNCHANGED <<scenario, clock, hashCache, active, addrCache>>

-----------------------------------------------------------------------------
(* Assemble, with what the signer returned. *)

SigFromMPC(sig) == EvmSigFromMPC(sig, EVMChainID)

AssembleEvm(j, sig) == EvmEncodeSignedTx(EvmTx(j), SigFromMPC(sig))

\* 64 bytes of the reply per input, each with the same public key.
AssembleBtc(j, sig) ==
  [i \in 1 .. j.inputs |->
     <<SubSeq(sig, (i - 1) * 64 + 1, i * 64),
       IF j.key = <<>> THEN PlaceholderKey ELSE j.key>>]

AssembleSolana(j, sig) == <<1, sig>> \o j.payload

Assemble(b) ==
  /\ job[b].pc = "sign"
  /\ \E sig \in Signatures :
       LET j == job[b]
           ok == CASE IsEVM(Chain) -> SigAccepted(sig)
                   [] Chain = "bitcoin" -> Len(sig) >= 64 * j.inputs
                   [] OTHER -> Len(sig) = 64
           tx == CASE IsEVM(Chain) -> AssembleEvm(j, sig)
                   [] Chain = "bitcoin" -> AssembleBtc(j, sig)
                   [] OTHER -> AssembleSolana(j, sig)
       IN  IF ok THEN job' = [job EXCEPT ![b].pc = "done", ![b].ok = TRUE,
                                      ![b].sig = sig, ![b].tx = tx]
           ELSE Refuse(b)
  /\ UNCHANGED <<scenario, clock, hashCache, active, addrCache>>

\* Time does not pass the timeout of a pending request.
Tick ==
  /\ Chain = "solana" /\ clock < MaxTime
  /\ \A b \in Builders : job[b].pc = "fetch" => clock - job[b].at < ClientTimeout
  /\ clock' = clock + 1
  /\ UNCHANGED <<scenario, hashCache, active, addrCache, job>>

Next ==
  \/ Derive \/ LoseActive \/ Evict \/ Tick
  \/ \E b \in Builders :
       \/ Start(b) \/ ResolveBuildOpts(b) \/ Assemble(b)
       \/ BuildEVMUnsignedTx(b) \/ BuildBTCUnsignedTx(b)
       \/ BuildSolanaUnsignedTx(b) \/ FetchReply(b) \/ FetchFails(b)

Spec == Init /\ [][Next]_vars

-----------------------------------------------------------------------------
Done(b) == job[b].pc = "done" /\ job[b].ok

(* What the signer hashed and what is sent are the same transaction: both   *)
(* decode, under the RLP rules, to the reserved nonce, the recipient and    *)
(* the requested amount in minimal form; r and s are the scalars of the     *)
(* signer's reply, and v is its recovery id for chain 1, whether or not the *)
(* header says that the key is compressed (buildEVMUnsignedTx, its          *)
(* Assemble).  An amount below zero, which nothing refuses, is signed and   *)
(* sent without its sign.                                                   *)
EvmSignsWhatItSends ==
  \A b \in Builders :
    Done(b) /\ IsEVM(Chain) =>
      LET j == job[b]
          signed == DecodeList(j.payload[2])
          sent == DecodeList(j.tx)
      IN  /\ Len(signed) = 9 /\ Len(sent) = 9
          /\ SubSeq(signed, 1, 6) = SubSeq(sent, 1, 6)
          /\ Number(sent[1]) = j.nonce /\ sent[4] = To
          /\ Number(sent[5]) = Magnitude(j.amount.n)
          /\ Number(signed[7]) = EVMChainID
          /\ Number(sent[7]) = 35 + 2 * EVMChainID + RecoveryID(j.sig)
          /\ Word(sent[8]) \o Word(sent[9]) = Tail(j.sig)
          /\ \A i \in {1, 2, 3, 5, 7, 8, 9} : Trim(sent[i]) = sent[i]

(* A Solana message never carries a blockhash that had already expired when *)
(* it was built: 30 s of caching, 10 s of fetching and a node up to 10 s    *)
(* behind stay inside the validity window, also when a slow fetch           *)
(* overwrites a newer hash (FetchRecentBlockhash).                          *)
BlockhashFresh ==
  \A b \in Builders :
    Chain = "solana" /\ scenario.rpc /\ job[b].pc = "sign" =>
      job[b].hash > 0 /\ job[b].at - job[b].hash < Validity

StartsWithZero(index) ==
  Coordinate("X", index)[1] = 0 \/ Coordinate("Y", index)[1] = 0

OnCurve(index) ==
  EvmAddressOf(<<4>> \o Coordinate("X", index) \o Coordinate("Y", index))

(* Addresses belong to the keys that sign for them, whatever the derivation *)
(* cache held when they were derived: a Bitcoin or Solana build signs with  *)
(* the key of the address it was resolved from (BTCPubKeyHashFor,           *)
(* SolanaFrom), and the active EVM address is the address of the key at its *)
(* index, for every key without a leading zero byte in a coordinate         *)
(* (DeriveAt).                                                              *)
KeyOwnsAddress ==
  /\ \A b \in Builders :
       job[b].key # <<>> =>
         job[b].owner.address = IF Chain = "bitcoin" THEN <<"bc1", Hash160(job[b].key)>>
                                ELSE <<"base58", job[b].key>>
  /\ IsEVM(Chain) /\ active.address # <<>> /\ ~StartsWithZero(active.index) =>
       active.address = OnCurve(active.index)

(* The comment on decompressSecp256k1: it "returns the 65-byte uncompressed *)
(* form (0x04 || X || Y)", so that every derived EVM address belongs to the *)
(* key at its index.                                                        *)
EveryEvmAddressOwned ==
  IsEVM(Chain) /\ active.address # <<>> =>
    active.address = OnCurve(active.index)
=============================================================================
