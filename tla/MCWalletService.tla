--------------------------- MODULE MCWalletService ---------------------------
(***************************************************************************)
(* Scenarios: races on one wallet with a fault, two wallets of a chain,    *)
(* Solana, retirement, state changes, and keys.                            *)
(***************************************************************************)
EXTENDS WalletService

CONSTANTS w1, w2

Scenario(chain, ws, ops, n) == [chain |-> chain, wallets |-> ws, ops |-> ops, faults |-> n]

MCScenarios ==
  {Scenario("evm", {w1}, {"current", "force"}, 1),
   Scenario("evm", {w1, w2}, {"force"}, 0),
   Scenario("solana", {w1}, {"current", "force"}, 0),
   Scenario("evm", {w1}, {"current", "retire"}, 1),
   Scenario("evm", {w1}, {"pause", "activate", "retire"}, 1),
   Scenario("evm", {}, {"keys"}, 0)}

SolanaScenarios == {Scenario("solana", {w1}, {"current", "force"}, 0)}

MCCanonical(text) == text

MCIsNumeric(text) == TRUE
==============================================================================
