---------------------------- MODULE WalletService ----------------------------
(***************************************************************************)
(* Wallets with their receive addresses and their keys.  The two tables    *)
(* share no statement, so a behaviour exercises one or the other.          *)
(***************************************************************************)
EXTENDS AddressRotation, KeyMapping

vars == <<rotationVars, keyVars>>

Init == RotationInit /\ KeyInit

Next ==
  \/ RotationNext /\ UNCHANGED keyVars
  \/ "keys" \in scenario.ops /\ KeyNext /\ UNCHANGED rotationVars

Spec == Init /\ [][Next]_vars

(* Every wait and call inside the service is bounded in time.              *)
FairSpec == Spec /\ \A c \in Callers : WF_vars(Step(c) /\ UNCHANGED keyVars)
==============================================================================
