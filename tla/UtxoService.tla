---------------------------- MODULE UtxoService -----------------------------
(***************************************************************************)
(* Package utxo: the outpoints of one Bitcoin wallet, selected and locked  *)
(* by concurrent withdrawal attempts, marked spent, unlocked, restored     *)
(* after a reorg, pruned when final.  Selection reads the free outpoints   *)
(* in one statement and locks its choice in a later transaction; Unlock,   *)
(* MarkSpent and RestoreOnReorg are loops of single-row updates that look  *)
(* at no lock state.                                                       *)
(*                                                                         *)
(* A caller locks a selection, then either has the gateway accept a        *)
(* transaction that spends it and marks it spent, or unlocks it.  It may   *)
(* die between any two calls.                                              *)
(***************************************************************************)
EXTENDS SpendStore, CoinSelection

CONSTANTS Callers,       \* concurrent withdrawal attempts
          Outpoints,
          Value,         \* the value of each outpoint
          Amounts,       \* the amounts a caller may ask for
          Redelivery     \* whether the gateway may deliver an event again

ASSUME ValueAssumption == Value \in [Outpoints -> Nat] /\ Amounts \subseteq Nat
ASSUME RedeliveryAssumption == Redelivery \in BOOLEAN

VARIABLES
  utxos,     \* table utxos: the lock state of each outpoint
  pc,        \* where each caller is
  ops,       \* the outpoints the call a caller is in still works on
  held,      \* outpoints a caller locked and neither sent nor unlocked
  onchain,   \* outpoints spent by a transaction of the current chain
  reorgs,    \* outpoints of reorg events that are to be delivered
  seen       \* outpoints TrackUTXO was called for

vars == <<utxos, pc, ops, held, onchain, reorgs, seen>>

PC == {"idle", "lock", "held", "unlock", "spend"}

TypeOK ==
  /\ utxos \in [Outpoints -> UTXOLockState]
  /\ pc \in [Callers -> PC]
  /\ ops \in [Callers -> SUBSET Outpoints]
  /\ held \in [Callers -> SUBSET Outpoints]
  /\ onchain \subseteq Outpoints
  /\ reorgs \subseteq Outpoints
  /\ seen \subseteq Outpoints

Init ==
  /\ utxos = [o \in Outpoints |-> "ABSENT"]
  /\ pc = [c \in Callers |-> "idle"]
  /\ ops = [c \in Callers |-> {}]
  /\ held = [c \in Callers |-> {}]
  /\ onchain = {} /\ reorgs = {} /\ seen = {}

Goto(c, label) == pc' = [pc EXCEPT ![c] = label]

At(c, label) == pc[c] = label

-----------------------------------------------------------------------------
(* SelectForAmount.                                                        *)

(* ListFreeUTXOs and the greedy choice.  Without enough free outpoints the *)
(* call returns an error and changes nothing.                              *)
SelectList(c, amount) ==
  /\ At(c, "idle")
  /\ \E selected \in Selections(Value, ListFreeUTXOs(utxos), amount) :
       ops' = [ops EXCEPT ![c] = selected]
  /\ Goto(c, "lock")
  /\ UNCHANGED <<utxos, held, onchain, reorgs, seen>>

(* Mutant: the UPDATE locks without AND lock_state='FREE'.                 *)
LockStale(c) ==
  /\ At(c, "lock")
  /\ utxos' = LockUTXOs(utxos, ops[c])
  /\ held' = [held EXCEPT ![c] = ops[c]]
  /\ ops' = [ops EXCEPT ![c] = {}]
  /\ Goto(c, "held")
  /\ UNCHANGED <<onchain, reorgs, seen>>

(* The selection is still free: the transaction commits.                   *)
SelectLock(c) ==
  /\ At(c, "lock")
  /\ LockableUTXOs(utxos, ops[c])
  /\ utxos' = LockUTXOs(utxos, ops[c])
  /\ held' = [held EXCEPT ![c] = ops[c]]
  /\ ops' = [ops EXCEPT ![c] = {}]
  /\ Goto(c, "held")
  /\ UNCHANGED <<onchain, reorgs, seen>>

(* The selection is stale or the database fails, in which case the commit  *)
(* may have taken effect all the same.                                     *)
SelectError(c) ==
  /\ At(c, "lock")
  /\ \/ UNCHANGED utxos
     \/ LockableUTXOs(utxos, ops[c]) /\ utxos' = LockUTXOs(utxos, ops[c])
  /\ ops' = [ops EXCEPT ![c] = {}]
  /\ Goto(c, "idle")
  /\ UNCHANGED <<held, onchain, reorgs, seen>>

-----------------------------------------------------------------------------
(* Unlock.                                                                 *)

UnlockStart(c) ==
  /\ At(c, "held")
  /\ ops' = [ops EXCEPT ![c] = held[c]]
  /\ Goto(c, "unlock")
  /\ UNCHANGED <<utxos, held, onchain, reorgs, seen>>

UnlockRow(c, o) ==
  /\ At(c, "unlock") /\ o \in ops[c]
  /\ utxos' = RestoreUTXO(utxos, o)
  /\ ops' = [ops EXCEPT ![c] = @ \ {o}]
  /\ held' = [held EXCEPT ![c] = @ \ {o}]
  /\ UNCHANGED <<pc, onchain, reorgs, seen>>

-----------------------------------------------------------------------------
(* MarkSpent, after the gateway accepted the caller's transaction.         *)

Send(c) ==
  /\ At(c, "held")
  /\ onchain' = onchain \cup held[c]
  /\ ops' = [ops EXCEPT ![c] = held[c]]
  /\ held' = [held EXCEPT ![c] = {}]
  /\ Goto(c, "spend")
  /\ UNCHANGED <<utxos, reorgs, seen>>

MarkSpentRow(c, o) ==
  /\ At(c, "spend") /\ o \in ops[c]
  /\ utxos' = MarkUTXOSpent(utxos, o)
  /\ ops' = [ops EXCEPT ![c] = @ \ {o}]
  /\ UNCHANGED <<pc, held, onchain, reorgs, seen>>

(* Mutant: a loop that fails unlocks the rows that remain.                 *)
LoopReleases(c) ==
  /\ At(c, "unlock") \/ At(c, "spend")
  /\ utxos' = [o \in Outpoints |-> IF o \in ops[c] THEN "FREE" ELSE utxos[o]]
  /\ ops' = [ops EXCEPT ![c] = {}]
  /\ held' = [held EXCEPT ![c] = {}]
  /\ Goto(c, "idle")
  /\ UNCHANGED <<onchain, reorgs, seen>>

(* The loop of Unlock or MarkSpent ends, after its last row or on a        *)
(* database error that leaves the rows that remain as they are.            *)
LoopEnds(c) ==
  /\ At(c, "unlock") \/ At(c, "spend")
  /\ ops' = [ops EXCEPT ![c] = {}]
  /\ held' = [held EXCEPT ![c] = {}]
  /\ Goto(c, "idle")
  /\ UNCHANGED <<utxos, onchain, reorgs, seen>>

(* The caller dies; the outpoints it locked stay locked.                   *)
Crash(c) ==
  /\ ~At(c, "idle")
  /\ ops' = [ops EXCEPT ![c] = {}]
  /\ held' = [held EXCEPT ![c] = {}]
  /\ Goto(c, "idle")
  /\ UNCHANGED <<utxos, onchain, reorgs, seen>>

-----------------------------------------------------------------------------
(* Events of the chain.                                                    *)

(* A deposit is seen: TrackUTXO, whose INSERT fails on a row that exists.  *)
TrackUTXO(o) ==
  /\ o \in seen => Redelivery
  /\ utxos[o] = "ABSENT"
  /\ utxos' = InsertUTXO(utxos, o)
  /\ seen' = seen \cup {o}
  /\ UNCHANGED <<pc, ops, held, onchain, reorgs>>

(* A reorg takes the transaction that spends o off the chain, unless the   *)
(* row was pruned, which is done for final transactions only.              *)
Reorg(o) ==
  /\ o \in onchain /\ utxos[o] # "ABSENT"
  /\ onchain' = onchain \ {o}
  /\ reorgs' = reorgs \cup {o}
  /\ UNCHANGED <<utxos, pc, ops, held, seen>>

(* RestoreOnReorg, one row of the event.  The event is consumed, unless it *)
(* is delivered again.                                                     *)
RestoreOnReorg(o) ==
  /\ o \in reorgs
  /\ utxos' = RestoreUTXO(utxos, o)
  /\ \/ reorgs' = reorgs \ {o}
     \/ Redelivery /\ UNCHANGED reorgs
  /\ UNCHANGED <<pc, ops, held, onchain, seen>>

(* PruneFinalized, for a spent outpoint.                                   *)
PruneFinalized(o) ==
  /\ o \in onchain /\ utxos[o] = "SPENT"
  /\ utxos' = PruneUTXO(utxos, o)
  /\ UNCHANGED <<pc, ops, held, onchain, reorgs, seen>>

Next ==
  \/ \E c \in Callers :
       \/ \E amount \in Amounts : SelectList(c, amount)
       \/ SelectLock(c) \/ SelectError(c)
       \/ UnlockStart(c) \/ Send(c) \/ LoopEnds(c) \/ Crash(c)
       \/ \E o \in Outpoints : UnlockRow(c, o) \/ MarkSpentRow(c, o)
  \/ \E o \in Outpoints :
       TrackUTXO(o) \/ Reorg(o) \/ RestoreOnReorg(o) \/ PruneFinalized(o)

Spec == Init /\ [][Next]_vars

-----------------------------------------------------------------------------
(* No outpoint is held by two callers, although both may have seen it free *)
(* (SelectForAmount lists and locks in two steps) and although reorg       *)
(* events and loops over rows update lock states without looking at them.  *)
ExclusiveHold ==
  \A c, d \in Callers : c # d => held[c] \cap held[d] = {}

(* An outpoint that a transaction of the chain spends is neither free nor  *)
(* in a caller's hands, whether or not MarkSpent got to it and whether or  *)
(* not PruneFinalized removed its row.                                     *)
NoDoubleSpend ==
  \A o \in onchain : utxos[o] # "FREE" /\ \A c \in Callers : o \notin held[c]

(* What SelectForAmount chooses covers the amount with the fewest inputs   *)
(* the free outpoints allow.                                               *)
FewestInputs ==
  [][\A c \in Callers, amount \in Amounts :
       SelectList(c, amount) =>
         IsFewestInputs(Value, ListFreeUTXOs(utxos), ops'[c], amount)]_vars
=============================================================================
