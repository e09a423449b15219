----------------------------- MODULE KeyMapping -----------------------------
(***************************************************************************)
(* Package keymapping: the MPC keys of one wallet.  Rotation puts the      *)
(* current key into a cooling period in which it can still sign.  Every    *)
(* operation is one statement or transaction of the store.                 *)
(***************************************************************************)
EXTENDS SqlStore

CONSTANTS Keys,
          KeyCoolingPeriod,
          MaxTime            \* bound of the model on the clock

ASSUME CoolingAssumption == KeyCoolingPeriod \in Nat

VARIABLES
  keys,         \* rows of table key_mappings, by key id
  clock,
  lastCurrent   \* when each key was current last, history

keyVars == <<keys, clock, lastCurrent>>

KeyInit == keys = <<>> /\ clock = 0 /\ lastCurrent = <<>>

Current(t) == {k \in DOMAIN t : t[k].state = "CURRENT"}

(* lastCurrent once the keys ks are current at time now.                   *)
Stamped(ks, now) ==
  [k \in ks \cup DOMAIN lastCurrent |-> IF k \in ks THEN now ELSE lastCurrent[k]]

(* The rows are now t.                                                     *)
Write(t) ==
  /\ keys' = t
  /\ lastCurrent' = Stamped(Current(keys) \cup Current(t), clock)
  /\ UNCHANGED clock

Bind(k) == Write(BindKeyMapping(keys, k, clock).t)

Rotate(k) == Write(RotateKeyMapping(keys, k, clock, KeyCoolingPeriod).t)

Expire == Write(ExpireCooling(keys, clock).t)

Tick == /\ clock < MaxTime /\ clock' = clock + 1
        /\ lastCurrent' = Stamped(Current(keys), clock + 1)
        /\ UNCHANGED keys

KeyNext == Expire \/ Tick \/ \E k \in Keys : Bind(k) \/ Rotate(k)

(* ResolveActive, for the gRPC call ResolveKeyID: all keys that resolve,   *)
(* and the current ones of them, of which the reply names the last.        *)
Resolved == {r[1] : r \in ResolveActiveKey(keys).r.v}

(* ResolveActiveKeyID, for withdrawals: the first in the order of          *)
(* active_from, in any order among equals.                                 *)
SigningKeys == {k \in Resolved : \A j \in Resolved : keys[k].from <= keys[j].from}

-----------------------------------------------------------------------------
(* Once a key is bound, a wallet can always sign, and the reply of         *)
(* ResolveKeyID names exactly one current key: rotation and expiry never   *)
(* leave it with none or two, also when an old key is rotated in again.    *)
OneCurrentKey ==
  keys # <<>> => Cardinality(Current(keys)) = 1 /\ SigningKeys # {}

(* A key still resolves during the whole cooling period that follows the   *)
(* last time it was current, however often keys are rotated in between.    *)
CoolingKept ==
  \A k \in DOMAIN lastCurrent :
    clock <= lastCurrent[k] + KeyCoolingPeriod => k \in Resolved
=============================================================================
