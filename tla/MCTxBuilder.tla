---------------------------- MODULE MCTxBuilder ----------------------------
(* One build on Ethereum and on Bitcoin, which share nothing but the wallet's *)
(* address, and concurrent builds on Solana, which share the blockhash cache; *)
(* rows come from either store, and some requests are for a negative amount.  *)
EXTENDS TxBuilder

CONSTANTS b1, b2

Stores == {"memstore", "postgres"}
MCScenarios ==
  [chain : {"ethereum", "bitcoin"}, rows : Stores, rpc : {TRUE},
   builders : {{b1}}, amounts : {{-128, 0, 1, 127, 128, 255, 256, 70000}}]
    \union [chain : {"solana"}, rows : Stores, rpc : BOOLEAN,
            builders : {{b1, b2}}, amounts : {{-1}, {1}}]

MCTo == [i \in 1 .. 20 |-> 7 * i]

Bytes(n, f(_)) == [i \in 1 .. n |-> f(i)]

\* Compact signatures with every kind of header, a scalar with leading zeros,
\* one that starts below 0x80, one of 64 bytes and one of 128.
MCSignatures ==
  {<<h>> \o Bytes(64, LAMBDA i : i + 100) : h \in {26, 27, 28, 31, 32, 35}}
    \union {<<28>> \o Bytes(64, LAMBDA i : IF i < 4 THEN 0 ELSE i)}
    \union {Bytes(64, LAMBDA i : i), Bytes(128, LAMBDA i : i)}

\* Coordinates of the child keys: index 1 has an X that starts with a zero.
MCCoordinate(axis, index) ==
  [i \in 1 .. 32 |-> IF axis = "X" /\ index = 1 /\ i = 1 THEN 0
                     ELSE (IF axis = "X" THEN 1 ELSE 65) + i + 32 * (index % 2)]
=============================================================================
