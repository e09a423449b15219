-------------------------------- MODULE Rlp --------------------------------
(***************************************************************************)
(* The legacy EVM transaction as txbuilder.go encodes it (RLP, EIP-155),   *)
(* over sequences of bytes, and a decoder written from the RLP rules, not  *)
(* from the code, against which the encoder is checked.  Numbers stay      *)
(* below 2^31, the range of TLC's integers.                                *)
(***************************************************************************)
EXTENDS Integers, Sequences, SequencesExt

\* Big-endian bytes without leading zeros; zero is the empty string.
BigUint(n) ==
  LET bytes[k \in Nat] == IF k = 0 THEN <<>> ELSE Append(bytes[k \div 256], k % 256)
  IN  bytes[n]

\* big.Int's SetBytes followed by Bytes: leading zero bytes are dropped.
Trim(b) ==
  LET first == SelectInSeq(b, LAMBDA x : x # 0)
  IN  IF first = 0 THEN <<>> ELSE SubSeq(b, first, Len(b))

RlpEncodeLenPrefix(n, offset, longOffset) ==
  IF n <= 55 THEN <<offset + n>>
  ELSE LET b == BigUint(n) IN <<longOffset + Len(b)>> \o b

\* Mutant: every one-byte string stands for itself.
EncodeByteBare(b) ==
  IF Len(b) = 1 THEN b ELSE RlpEncodeLenPrefix(Len(b), 128, 183) \o b

RlpEncodeItem(b) ==
  IF Len(b) = 1 /\ b[1] < 128 THEN b
  ELSE RlpEncodeLenPrefix(Len(b), 128, 183) \o b

EvmEncodeList(elems) ==
  LET inner == FlattenSeq([i \in DOMAIN elems |-> RlpEncodeItem(elems[i])])
  IN  RlpEncodeLenPrefix(Len(inner), 192, 247) \o inner

\* big.Int's Bytes drops the sign.
Magnitude(n) == IF n < 0 THEN -n ELSE n

\* The six fields both encodings start with.
LegacyFields(tx) ==
  << BigUint(tx.nonce), BigUint(tx.gasPrice), BigUint(tx.gasLimit), tx.to,
     BigUint(Magnitude(tx.value)), <<>> >>

EvmEncodeLegacyForSigning(tx, chainID) ==
  EvmEncodeList(LegacyFields(tx) \o <<BigUint(chainID), <<>>, <<>> >>)

EvmEncodeSignedTx(tx, sig) ==
  EvmEncodeList(LegacyFields(tx) \o <<BigUint(sig.v), sig.r, sig.s>>)

\* A 65-byte compact signature: header, r, s.
SigAccepted(sig) == Len(sig) = 65 /\ sig[1] \in 27 .. 34

EvmSigFromMPC(sig, chainID) ==
  LET id == sig[1] - 27
  IN  [r |-> Trim(SubSeq(sig, 2, 33)), s |-> Trim(SubSeq(sig, 34, 65)),
       v |-> chainID * 2 + 35 + IF id >= 4 THEN id - 4 ELSE id]

-----------------------------------------------------------------------------
(* The reference decoder. *)

\* A header is 27 and the recovery id, and 4 more for a compressed key.
RecoveryID(sig) == (sig[1] - 27) % 4

\* A number of at most 32 bytes as the 32 bytes it stands for.
Word(b) ==
  [i \in 1 .. 32 |-> IF i + Len(b) > 32 THEN b[i + Len(b) - 32] ELSE 0]

Number(b) == FoldLeft(LAMBDA n, byte : 256 * n + byte, 0, b)

\* The string at the head of b as [item, rest]; Bad for anything malformed.
Bad == [item |-> <<256>>, rest |-> <<>>]
Cut(b, from, n) ==
  IF Len(b) < from + n - 1 THEN Bad
  ELSE [item |-> SubSeq(b, from, from + n - 1),
        rest |-> SubSeq(b, from + n, Len(b))]

DecodeItem(b) ==
  CASE b[1] < 128 -> Cut(b, 1, 1)
    [] b[1] \in 128 .. 183 ->
         LET d == Cut(b, 2, b[1] - 128)
         IN  IF Len(d.item) = 1 /\ d.item[1] < 128 THEN Bad ELSE d
    [] OTHER -> Bad

DecodeItems(b) ==
  LET items[s \in Seq(Nat)] ==
        IF s = <<>> THEN <<>> ELSE LET d == DecodeItem(s) IN <<d.item>> \o items[d.rest]
  IN  items[b]

\* The items of the list b encodes; <<>> unless b is exactly one list.
DecodeList(b) ==
  CASE b[1] \in 192 .. 247 /\ Len(b) = 1 + b[1] - 192 -> DecodeItems(Tail(b))
    [] b[1] = 248 /\ b[2] > 55 /\ Len(b) = 2 + b[2] ->
         DecodeItems(SubSeq(b, 3, Len(b)))
    [] OTHER -> <<>>
=============================================================================
