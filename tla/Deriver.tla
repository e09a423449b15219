------------------------------ MODULE Deriver ------------------------------
(***************************************************************************)
(* Address derivation (internal/deriver) and the cache it memoises in.     *)
(* BIP-32 derivation, hashing and address formats are injective and stay   *)
(* symbolic; which key they are applied to, under which cache key, on      *)
(* which path, and the bytes of a decompressed public key are the code's.  *)
(***************************************************************************)
EXTENDS Rlp

CONSTANTS
  HardenedFrom,   \* 0x80000000 in the code
  Width,          \* 32: bytes of a coordinate
  Coordinate(_,_) \* the X ("X") or Y ("Y") of the child key at an index

ASSUME CoordinateAssumption ==
  /\ HardenedFrom \in Nat /\ Width \in Nat \ {0}
  /\ \A axis \in {"X", "Y"}, index \in 0 .. HardenedFrom - 1 :
       Coordinate(axis, index) \in [1 .. Width -> 0 .. 255]

VARIABLES
  addrCache       \* the cache: a set of records [key, value]

EVMChains == {"ethereum", "polygon", "arbitrum", "base", "optimism"}
IsEVM(chain) == chain \in EVMChains

NonHardened(n) == n >= 0 /\ n < HardenedFrom

NoAddress == [address |-> <<>>, path |-> <<>>, index |-> -1]

-----------------------------------------------------------------------------
(* EVM: Keccak of the decompressed key. *)

\* External: Keccak-256, as an injective function of the bytes.
Keccak(bytes) == <<"keccak", bytes>>

\* big.Int's Bytes drops leading zeros, and copy(out[1:33], b) puts the rest
\* at the left end of a zeroed field.
CopyLeft(b) == [i \in 1 .. Width |-> IF i <= Len(b) THEN b[i] ELSE 0]

DecompressSecp256k1(x, y) ==
  <<4>> \o CopyLeft(Trim(x)) \o CopyLeft(Trim(y))

EvmAddressOf(uncompressed) == <<"0x", Keccak(Tail(uncompressed))>>

EvmDeriveUncached(index) ==
  EvmAddressOf(DecompressSecp256k1(Coordinate("X", index), Coordinate("Y", index)))

-----------------------------------------------------------------------------
(* Bitcoin: the hash of the child key at m/<change>/<index>. *)

\* deriveChildPubKey: hdkeychain is injective in the path below the account.
ChildPubKey(index, change) == <<"child", change, index>>

\* External: btcutil's hash of a public key.
Hash160(pub) == <<"hash160", pub>>

BtcDeriveUncached(index, change) == <<"bc1", Hash160(ChildPubKey(index, change))>>

BtcPath(change, index) == <<"m", 84, 0, 0, change, index>>

ParseBTCPath(path) == [change |-> path[5], index |-> path[6]]

\* The key; its hash goes with it.
PubKeyHashFor(change, index) == ChildPubKey(index, change)

BTCPubKeyHashFor(path) ==
  LET p == ParseBTCPath(path) IN PubKeyHashFor(p.change, p.index)

-----------------------------------------------------------------------------
(* DeriveAt of each deriver: whether it derives, its cache key, its path,   *)
(* its index and the address when it is not cached.                        *)

\* Mutant: the cache key leaves the index out.
EvmKeyWithoutIndex(index, change) ==
  [ok |-> change = 0 /\ NonHardened(index), key |-> <<"evm">>,
   path |-> <<"m", 44, 60, 0, 0, index>>, index |-> index,
   new |-> EvmDeriveUncached(index)]

EvmDeriver(index, change) ==
  [ok |-> change = 0 /\ NonHardened(index), key |-> <<"evm", index>>,
   path |-> <<"m", 44, 60, 0, 0, index>>, index |-> index,
   new |-> EvmDeriveUncached(index)]

BtcDeriver(index, change) ==
  [ok |-> change \in {0, 1} /\ NonHardened(index), key |-> <<"btc", change, index>>,
   path |-> BtcPath(change, index), index |-> index,
   new |-> BtcDeriveUncached(index, change)]

SolanaKey == <<"ed25519">>

SolanaDeriver ==
  [ok |-> TRUE, key |-> <<"sol">>, path |-> <<"m", 44, 501, 0, 0>>, index |-> 0,
   new |-> <<"base58", SolanaKey>>]

NoDeriver == [ok |-> FALSE, key |-> <<>>, path |-> <<>>, index |-> 0, new |-> <<>>]

\* The deriver registered for a chain.
For(chain, index, change) ==
  CASE IsEVM(chain) -> EvmDeriver(index, change)
    [] chain = "bitcoin" -> BtcDeriver(index, change)
    [] chain = "solana" -> SolanaDeriver
    [] OTHER -> NoDeriver

MakeResult(d, value) == [address |-> value, path |-> d.path, index |-> d.index]

\* The cache: an error of Get counts as a miss, an error of Set is ignored.
CacheGet(key) == {e.value : e \in {x \in addrCache : x.key = key}}

CacheSet(key, value) ==
  {addrCache, {e \in addrCache : e.key # key} \union {[key |-> key, value |-> value]}}

\* What DeriveAt may return, with the cache it leaves: none if it refuses.
DeriveAt(chain, index, change) ==
  LET d == For(chain, index, change)
      hits == {[result |-> MakeResult(d, value), cache |-> addrCache]
                 : value \in CacheGet(d.key)}
      misses == {[result |-> MakeResult(d, d.new), cache |-> cache]
                   : cache \in CacheSet(d.key, d.new)}
  IN  IF d.ok THEN hits \union misses ELSE {}

\* An entry reaches its TTL, or Redis evicts it.
EvictAddress ==
  \E e \in addrCache : addrCache' = addrCache \ {e}
=============================================================================
