------------------------- MODULE UtxoServiceProofs --------------------------
(***************************************************************************)
(* The outpoint locks of package utxo are exclusive, and no outpoint of a  *)
(* transaction on the chain is offered again, for any number of callers    *)
(* and outpoints and any amounts, provided the gateway delivers every      *)
(* deposit and every reorg event once (Redelivery = FALSE).                *)
(***************************************************************************)
EXTENDS UtxoService, FiniteSetTheorems, TLAPS

(* What a caller holds was not freed or deleted under it.                  *)
HeldNotFree ==
  \A c \in Callers : \A o \in held[c] : utxos[o] \notin {"FREE", "ABSENT"}

(* Until its reorg event is delivered, an outpoint taken off the chain is  *)
(* not offered and belongs to nobody; RestoreUTXOs frees it unseen.        *)
ReorgNotFree ==
  \A o \in reorgs : /\ utxos[o] # "FREE"
                    /\ o \notin onchain
                    /\ \A c \in Callers : o \notin held[c]

(* Unlock frees outpoints the caller holds.                                *)
UnlockOwn == \A c \in Callers : At(c, "unlock") => ops[c] \subseteq held[c]

(* TrackUTXO was called for every outpoint that plays a part.              *)
OnlySeen ==
  /\ \A o \in Outpoints : utxos[o] # "ABSENT" => o \in seen
  /\ onchain \cup reorgs \subseteq seen

IInv ==
  /\ TypeOK
  /\ ExclusiveHold
  /\ NoDoubleSpend
  /\ HeldNotFree
  /\ ReorgNotFree
  /\ UnlockOwn
  /\ OnlySeen

USE DEF At, Goto

-----------------------------------------------------------------------------
LEMMA InitIInv == Init => IInv
  BY DEF Init, IInv, TypeOK, PC, UTXOLockState, ExclusiveHold, NoDoubleSpend,
         HeldNotFree, ReorgNotFree, UnlockOwn, OnlySeen

(* Steps that leave the table and the events alone and give nobody an      *)
(* outpoint.                                                               *)
LEMMA QuietStep ==
  ASSUME IInv, UNCHANGED <<utxos, onchain, reorgs, seen>>,
         pc' \in [Callers -> PC], ops' \in [Callers -> SUBSET Outpoints],
         held' \in [Callers -> SUBSET Outpoints],
         \A c \in Callers : held'[c] \subseteq held[c],
         \A c \in Callers : pc'[c] = "unlock" => ops'[c] \subseteq held'[c]
  PROVE  IInv'
  BY DEF IInv, TypeOK, ExclusiveHold, NoDoubleSpend, HeldNotFree, ReorgNotFree,
         UnlockOwn, OnlySeen

(* Every row operation leaves a table of lock states, changes no other     *)
(* row, and leaves a row that is absent absent unless it inserts it.       *)
LEMMA RowSteps ==
  ASSUME NEW table \in [Outpoints -> UTXOLockState], NEW o \in Outpoints,
         NEW t2, t2 \in {RestoreUTXO(table, o), MarkUTXOSpent(table, o),
                         PruneUTXO(table, o), InsertUTXO(table, o)}
  PROVE  /\ t2 \in [Outpoints -> UTXOLockState]
         /\ \A p \in Outpoints \ {o} : t2[p] = table[p]
  BY DEF RestoreUTXO, MarkUTXOSpent, PruneUTXO, InsertUTXO, SetRow, UTXOLockState

(* LockUTXOs locks the given outpoints and no other.                       *)
LEMMA LockStep ==
  ASSUME NEW table \in [Outpoints -> UTXOLockState], NEW S \in SUBSET Outpoints
  PROVE  /\ LockUTXOs(table, S) \in [Outpoints -> UTXOLockState]
         /\ \A p \in Outpoints :
              LockUTXOs(table, S)[p] = IF p \in S THEN "LOCKED" ELSE table[p]
  BY DEF LockUTXOs, UTXOLockState

-----------------------------------------------------------------------------
(* Every step of the service preserves the inductive invariant.            *)
LEMMA StepIInv ==
  ASSUME Redelivery = FALSE, IInv, [Next]_vars
  PROVE  IInv'
<1> USE DEF PC
<1>t. TypeOK
  BY DEF IInv
<1>1. ASSUME NEW c \in Callers, NEW amount \in Amounts, SelectList(c, amount)
      PROVE  IInv'
  <2>1. PICK S \in SUBSET Outpoints : ops' = [ops EXCEPT ![c] = S]
    BY <1>1, <1>t DEF SelectList, Selections, ListFreeUTXOs, TypeOK
  <2>2. QED
    BY <1>1, <1>t, <2>1, QuietStep DEF SelectList, TypeOK, IInv, UnlockOwn
<1>2. ASSUME NEW c \in Callers, SelectLock(c) PROVE IInv'
  <2>1. /\ utxos' \in [Outpoints -> UTXOLockState]
        /\ \A p \in Outpoints :
             utxos'[p] = IF p \in ops[c] THEN "LOCKED" ELSE utxos[p]
    BY <1>2, <1>t, LockStep DEF SelectLock, TypeOK
  <2>2. \A p \in ops[c] : utxos[p] = "FREE"
    BY <1>2 DEF SelectLock, LockableUTXOs
  <2>3. /\ held' = [held EXCEPT ![c] = ops[c]]
        /\ ops' = [ops EXCEPT ![c] = {}]
        /\ pc' = [pc EXCEPT ![c] = "held"]
        /\ UNCHANGED <<onchain, reorgs, seen>>
    BY <1>2 DEF SelectLock
  <2>4. TypeOK'
    BY <1>t, <2>1, <2>3 DEF TypeOK
  <2>5. ExclusiveHold'
    BY <1>t, <2>2, <2>3 DEF TypeOK, IInv, ExclusiveHold, HeldNotFree
  <2>6. NoDoubleSpend'
    BY <1>t, <2>1, <2>2, <2>3 DEF TypeOK, IInv, NoDoubleSpend
  <2>7. HeldNotFree'
    BY <1>t, <2>1, <2>3 DEF TypeOK, IInv, HeldNotFree
  <2>8. ReorgNotFree'
    BY <1>t, <2>1, <2>2, <2>3 DEF TypeOK, IInv, ReorgNotFree
  <2>9. UnlockOwn' /\ OnlySeen'
    BY <1>t, <2>1, <2>2, <2>3 DEF TypeOK, IInv, UnlockOwn, OnlySeen
  <2>10. QED
    BY <2>4, <2>5, <2>6, <2>7, <2>8, <2>9 DEF IInv
<1>3. ASSUME NEW c \in Callers, SelectError(c) PROVE IInv'
  <2>1. CASE UNCHANGED utxos
    BY <1>3, <1>t, <2>1, QuietStep DEF SelectError, TypeOK, IInv, UnlockOwn
  <2>2. CASE LockableUTXOs(utxos, ops[c]) /\ utxos' = LockUTXOs(utxos, ops[c])
    <3>1. /\ utxos' \in [Outpoints -> UTXOLockState]
          /\ \A p \in Outpoints :
               utxos'[p] = IF p \in ops[c] THEN "LOCKED" ELSE utxos[p]
      BY <2>2, <1>t, LockStep DEF TypeOK
    <3>2. \A p \in ops[c] : utxos[p] = "FREE"
      BY <2>2 DEF LockableUTXOs
    <3>3. QED
      BY <1>3, <1>t, <3>1, <3>2 DEF SelectError, IInv, TypeOK, ExclusiveHold, NoDoubleSpend, HeldNotFree,
           ReorgNotFree, UnlockOwn, OnlySeen
  <2>3. QED
    BY <1>3, <2>1, <2>2 DEF SelectError
<1>4. ASSUME NEW c \in Callers, UnlockStart(c) PROVE IInv'
  BY <1>4, <1>t, QuietStep DEF UnlockStart, TypeOK, IInv, UnlockOwn
<1>5. ASSUME NEW c \in Callers, Send(c) PROVE IInv'
  BY <1>5, <1>t DEF Send, IInv, TypeOK, ExclusiveHold, NoDoubleSpend, HeldNotFree,
           ReorgNotFree, UnlockOwn, OnlySeen
<1>6. ASSUME NEW c \in Callers, LoopEnds(c) \/ Crash(c) PROVE IInv'
  BY <1>6, <1>t, QuietStep DEF LoopEnds, Crash, TypeOK, IInv, UnlockOwn
<1>7. ASSUME NEW c \in Callers, NEW o \in Outpoints, UnlockRow(c, o)
      PROVE  IInv'
  <2>1. /\ utxos' \in [Outpoints -> UTXOLockState]
        /\ \A p \in Outpoints \ {o} : utxos'[p] = utxos[p]
    BY <1>7, <1>t, RowSteps DEF UnlockRow, TypeOK
  <2>2. o \in held[c] /\ o \notin onchain /\ o \notin reorgs /\ o \in seen
    BY <1>7, <1>t DEF UnlockRow, IInv, UnlockOwn, NoDoubleSpend, ReorgNotFree,
                      HeldNotFree, OnlySeen, TypeOK
  <2>3. /\ ops' = [ops EXCEPT ![c] = @ \ {o}]
        /\ held' = [held EXCEPT ![c] = @ \ {o}]
        /\ UNCHANGED <<pc, onchain, reorgs, seen>>
    BY <1>7 DEF UnlockRow
  <2>4. QED
    BY <1>t, <2>1, <2>2, <2>3 DEF IInv, TypeOK, ExclusiveHold, NoDoubleSpend, HeldNotFree,
           ReorgNotFree, UnlockOwn, OnlySeen
<1>8. ASSUME NEW c \in Callers, NEW o \in Outpoints, MarkSpentRow(c, o)
      PROVE  IInv'
  <2>1. /\ utxos' \in [Outpoints -> UTXOLockState]
        /\ \A p \in Outpoints \ {o} : utxos'[p] = utxos[p]
    BY <1>8, <1>t, RowSteps DEF MarkSpentRow, TypeOK
  <2>2. utxos'[o] = IF utxos[o] = "ABSENT" THEN "ABSENT" ELSE "SPENT"
    BY <1>8, <1>t DEF MarkSpentRow, MarkUTXOSpent, SetRow, TypeOK
  <2>3. /\ ops' = [ops EXCEPT ![c] = @ \ {o}]
        /\ At(c, "spend")
        /\ UNCHANGED <<pc, held, onchain, reorgs, seen>>
    BY <1>8 DEF MarkSpentRow
  <2>4. QED
    BY <1>t, <2>1, <2>2, <2>3 DEF IInv, TypeOK, ExclusiveHold, NoDoubleSpend, HeldNotFree,
           ReorgNotFree, UnlockOwn, OnlySeen
<1>9. ASSUME NEW o \in Outpoints, TrackUTXO(o) PROVE IInv'
  <2>1. /\ utxos' \in [Outpoints -> UTXOLockState]
        /\ \A p \in Outpoints \ {o} : utxos'[p] = utxos[p]
    BY <1>9, <1>t, RowSteps DEF TrackUTXO, TypeOK
  <2>2. o \notin seen /\ utxos[o] = "ABSENT"
    BY <1>9 DEF TrackUTXO
  <2>3. seen' = seen \cup {o} /\ UNCHANGED <<pc, ops, held, onchain, reorgs>>
    BY <1>9 DEF TrackUTXO
  <2>4. QED
    BY <1>t, <2>1, <2>2, <2>3 DEF IInv, TypeOK, ExclusiveHold, NoDoubleSpend, HeldNotFree,
           ReorgNotFree, UnlockOwn, OnlySeen
<1>10. ASSUME NEW o \in Outpoints, Reorg(o) PROVE IInv'
  BY <1>10, <1>t DEF Reorg, IInv, TypeOK, ExclusiveHold, NoDoubleSpend, HeldNotFree,
           ReorgNotFree, UnlockOwn, OnlySeen
<1>11. ASSUME NEW o \in Outpoints, RestoreOnReorg(o) PROVE IInv'
  <2>1. /\ utxos' \in [Outpoints -> UTXOLockState]
        /\ \A p \in Outpoints \ {o} : utxos'[p] = utxos[p]
    BY <1>11, <1>t, RowSteps DEF RestoreOnReorg, TypeOK
  <2>2. o \in reorgs /\ reorgs' = reorgs \ {o}
    BY <1>11 DEF RestoreOnReorg
  <2>3. UNCHANGED <<pc, ops, held, onchain, seen>>
    BY <1>11 DEF RestoreOnReorg
  <2>4. QED
    BY <1>t, <2>1, <2>2, <2>3 DEF IInv, TypeOK, ExclusiveHold, NoDoubleSpend, HeldNotFree,
           ReorgNotFree, UnlockOwn, OnlySeen
<1>12. ASSUME NEW o \in Outpoints, PruneFinalized(o) PROVE IInv'
  <2>1. /\ utxos' \in [Outpoints -> UTXOLockState]
        /\ \A p \in Outpoints \ {o} : utxos'[p] = utxos[p]
    BY <1>12, <1>t, RowSteps DEF PruneFinalized, TypeOK
  <2>2. o \in onchain /\ utxos'[o] = "ABSENT"
    BY <1>12, <1>t DEF PruneFinalized, PruneUTXO, TypeOK
  <2>3. UNCHANGED <<pc, ops, held, onchain, reorgs, seen>>
    BY <1>12 DEF PruneFinalized
  <2>4. QED
    BY <1>t, <2>1, <2>2, <2>3 DEF IInv, TypeOK, ExclusiveHold, NoDoubleSpend, HeldNotFree,
           ReorgNotFree, UnlockOwn, OnlySeen
<1>13. CASE UNCHANGED vars
  BY <1>13 DEF vars, IInv, TypeOK, ExclusiveHold, NoDoubleSpend, HeldNotFree,
           ReorgNotFree, UnlockOwn, OnlySeen
<1>14. QED
  BY <1>1, <1>2, <1>3, <1>4, <1>5, <1>6, <1>7, <1>8, <1>9, <1>10, <1>11,
     <1>12, <1>13 DEF Next

-----------------------------------------------------------------------------
(* The invariant of the UTXO service holds in every reachable state.       *)
THEOREM Invariance == ASSUME Redelivery = FALSE PROVE Spec => []IInv
  BY InitIInv, StepIInv, PTL DEF Spec

(* The lock states, the callers and the events stay well formed.           *)
THEOREM TypeCorrect == ASSUME Redelivery = FALSE PROVE Spec => []TypeOK
<1>1. IInv => TypeOK  BY DEF IInv
<1>2. QED  BY <1>1, Invariance, PTL

(* No two callers of SelectForAmount ever hold the same outpoint.          *)
THEOREM HoldsExclusive == ASSUME Redelivery = FALSE PROVE Spec => []ExclusiveHold
<1>1. IInv => ExclusiveHold  BY DEF IInv
<1>2. QED  BY <1>1, Invariance, PTL

(* An outpoint spent on the chain is never offered or held again.          *)
THEOREM SpentNotOffered == ASSUME Redelivery = FALSE PROVE Spec => []NoDoubleSpend
<1>1. IInv => NoDoubleSpend  BY DEF IInv
<1>2. QED  BY <1>1, Invariance, PTL
-----------------------------------------------------------------------------
(* Sums over finite sets.  MapThenSumSet, and with it Total, adds the      *)
(* elements in the order in which CHOOSE picks them.  A function that may  *)
(* take any element off first exists for every finite set, and Total is    *)
(* that function.                                                          *)
Additive(v, S, g) ==
  /\ g \in [SUBSET S -> Int] /\ g[{}] = 0
  /\ \A s \in SUBSET S : \A x \in s : g[s] = v[x] + g[s \ {x}]

(* A nonempty family of subsets of a finite set has a minimal member.      *)
LEMMA Smallest ==
  ASSUME NEW S, IsFiniteSet(S), NEW T \in SUBSET SUBSET S, T # {}
  PROVE  \E s \in T : \A t \in SUBSET s : t # s => t \notin T
<1>1. IsWellFoundedOn(StrictSubsetOrdering(S), SUBSET S)
  <2>1. IsWellFoundedOn(StrictSubsetOrdering(S), FiniteSubsetsOf(S))
    BY FS_StrictSubsetOrderingWellFounded
  <2>2. FiniteSubsetsOf(S) = SUBSET S
    BY FS_FiniteSubsetsOfFinite
  <2>3. QED
    BY <2>1, <2>2
<1>2. PICK s \in T : \A t \in T : <<t, s>> \notin StrictSubsetOrdering(S)
  BY <1>1, WFMin
<1>3. ASSUME NEW t \in SUBSET s, t # s PROVE t \notin T
  BY <1>2, <1>3 DEF StrictSubsetOrdering
<1>4. QED
  BY <1>3

LEMMA AdditiveExists ==
  ASSUME NEW D, NEW v \in [D -> Int], NEW S \in SUBSET D, IsFiniteSet(S)
  PROVE  \E g : Additive(v, S, g)
<1> DEFINE T == {U \in SUBSET S : ~\E g : Additive(v, U, g)}
<1>1. SUFFICES ASSUME T # {} PROVE FALSE
  OBVIOUS
<1>2. T \in SUBSET SUBSET S
  OBVIOUS
<1>3. PICK U \in T : \A W \in SUBSET U : W # U => W \notin T
  <2> HIDE DEF T
  <2>1. QED
    BY <1>1, <1>2, Smallest
<1>4. U # {}
  <2>1. Additive(v, {}, [s \in SUBSET {} |-> 0])
    BY DEF Additive
  <2>2. QED
    BY <2>1
<1>5. PICK x \in U : TRUE
  BY <1>4
<1> DEFINE W == U \ {x}
<1>6. W \in SUBSET U /\ W # U /\ W \in SUBSET S
  OBVIOUS
<1>7. PICK g : Additive(v, W, g)
  BY <1>3, <1>6
<1> DEFINE k == [s \in SUBSET U |-> IF x \in s THEN v[x] + g[s \ {x}] ELSE g[s]]
<1>8. \A s \in SUBSET W : g[s] \in Int /\ \A y \in s : g[s] = v[y] + g[s \ {y}]
  BY <1>7 DEF Additive
<1>9. \A y \in U : v[y] \in Int
  OBVIOUS
<1>10. k \in [SUBSET U -> Int] /\ k[{}] = 0
  BY <1>7, <1>8, <1>9 DEF Additive
<1>11. ASSUME NEW s \in SUBSET U, NEW y \in s PROVE k[s] = v[y] + k[s \ {y}]
  <2>1. CASE x \notin s
    <3>1. s \in SUBSET W /\ x \notin s \ {y} /\ s \ {y} \in SUBSET U
      BY <2>1
    <3>2. k[s] = g[s] /\ k[s \ {y}] = g[s \ {y}]
      BY <2>1, <3>1
    <3>3. QED
      BY <1>8, <3>1, <3>2
  <2>2. CASE x \in s /\ y = x
    BY <2>2
  <2>3. CASE x \in s /\ y # x
    <3>1. /\ s \ {x} \in SUBSET W /\ y \in s \ {x} /\ x \in s \ {y} /\ s \ {y} \in SUBSET U
          /\ (s \ {x}) \ {y} = (s \ {y}) \ {x} /\ (s \ {x}) \ {y} \in SUBSET W
      BY <2>3
    <3> DEFINE rest == g[(s \ {x}) \ {y}]
    <3>2. k[s] = v[x] + g[s \ {x}] /\ k[s \ {y}] = v[x] + rest
      BY <2>3, <3>1
    <3>3. g[s \ {x}] = v[y] + rest /\ rest \in Int /\ v[x] \in Int /\ v[y] \in Int
      BY <1>8, <1>9, <3>1
    <3> HIDE DEF rest, k
    <3>4. \A a, b, c \in Int : a + (b + c) = b + (a + c)
      OBVIOUS
    <3>5. QED
      BY <3>2, <3>3, <3>4
  <2>4. QED
    BY <2>1, <2>2, <2>3
<1>12. Additive(v, U, k)
  BY <1>10, <1>11 DEF Additive
<1>13. QED
  BY <1>12

(* The recursion inside MapThenSumSet.                                     *)
Pick(s) == CHOOSE x \in s : TRUE
IsSumOn(v, S, g) ==
  g = [s \in SUBSET S |-> IF s = {} THEN 0 ELSE v[Pick(s)] + g[s \ {Pick(s)}]]

LEMMA TotalIsAdditive ==
  ASSUME NEW v, NEW S, IsFiniteSet(S), NEW g, Additive(v, S, g), NEW U \in SUBSET S
  PROVE  Total(v, U) = g[U]
<1> DEFINE f == CHOOSE f : IsSumOn(v, U, f)
           r == [s \in SUBSET U |-> g[s]]
           T == {s \in SUBSET U : f[s] # g[s]}
<1>1. Total(v, U) = f[U]
  BY DEF Total, MapThenSumSet, MapThenFoldSet, IsSumOn, Pick
<1>2. \A s \in SUBSET U : s # {} => Pick(s) \in s
  BY DEF Pick
<1>3. \A s \in SUBSET U : g[s] = IF s = {} THEN 0 ELSE v[Pick(s)] + g[s \ {Pick(s)}]
  BY <1>2 DEF Additive
<1>4. IsSumOn(v, U, r)
  BY <1>2, <1>3 DEF IsSumOn
<1>5. IsSumOn(v, U, f)
  BY <1>4
<1> HIDE DEF f
<1>6. \A s \in SUBSET U : f[s] = IF s = {} THEN 0 ELSE v[Pick(s)] + f[s \ {Pick(s)}]
  BY <1>5 DEF IsSumOn
<1>7. ASSUME T # {} PROVE FALSE
  <2>1. T \in SUBSET SUBSET S
    OBVIOUS
  <2>2. PICK s \in T : \A t \in SUBSET s : t # s => t \notin T
    <3> HIDE DEF T
    <3>1. QED
      BY <1>7, <2>1, Smallest
  <2>3. s \ {Pick(s)} \notin T
    BY <1>2, <1>3, <1>6, <2>2
  <2>4. QED
    BY <1>3, <1>6, <2>3
<1>8. QED
  BY <1>1, <1>7

(* Total is zero for no elements, an integer for integers, and any element *)
(* may be split off.                                                       *)
LEMMA TotalWithout ==
  ASSUME NEW D, NEW v \in [D -> Int], NEW S \in SUBSET D, IsFiniteSet(S)
  PROVE  /\ Total(v, {}) = 0 /\ Total(v, S) \in Int
         /\ \A x \in S : Total(v, S) = v[x] + Total(v, S \ {x})
<1>1. PICK g : Additive(v, S, g)
  BY AdditiveExists
<1>2. \A U \in SUBSET S : Total(v, U) = g[U]
  BY <1>1, TotalIsAdditive
<1>3. QED
  BY <1>1, <1>2 DEF Additive

(* The sum of natural numbers is one.                                      *)
LEMMA TotalNat ==
  ASSUME NEW D, NEW v \in [D -> Nat], NEW S \in SUBSET D, IsFiniteSet(S)
  PROVE  Total(v, S) \in Nat
<1> DEFINE T == {s \in SUBSET S : Total(v, s) \notin Nat}
<1>1. SUFFICES ASSUME T # {} PROVE FALSE
  OBVIOUS
<1>2. T \in SUBSET SUBSET S
  OBVIOUS
<1>3. PICK s \in T : \A t \in SUBSET s : t # s => t \notin T
  <2> HIDE DEF T
  <2>1. QED
    BY <1>1, <1>2, Smallest
<1>4. v \in [D -> Int] /\ s \in SUBSET D /\ IsFiniteSet(s)
  BY FS_Subset
<1>5. s # {}
  <2>1. Total(v, {}) = 0
    BY <1>4, TotalWithout
  <2>2. QED
    BY <2>1
<1>6. PICK x \in s : TRUE
  BY <1>5
<1>7. Total(v, s) = v[x] + Total(v, s \ {x})
  BY <1>4, TotalWithout
<1>8. s \ {x} \notin T
  BY <1>3
<1>9. Total(v, s \ {x}) \in Nat /\ v[x] \in Nat
  BY <1>8
<1>10. QED
  BY <1>7, <1>9

-----------------------------------------------------------------------------
(* No more outpoints than the largest ones are worth no more: outpoints are *)
(* taken away in pairs, each at most as valuable as the other.             *)
LEMMA TopTotal ==
  ASSUME NEW E, NEW v \in [E -> Nat], NEW D \in SUBSET E, IsFiniteSet(D),
         NEW A \in SUBSET D, NEW B \in SUBSET D, LargestFirst(v, D, A),
         Cardinality(B) <= Cardinality(A)
  PROVE  Total(v, B) <= Total(v, A)
<1> DEFINE Above(a, b) == /\ \A x \in a, y \in b \ a : v[x] >= v[y]
                          /\ Cardinality(b) <= Cardinality(a)
           T == {b \in SUBSET D : \E a \in SUBSET D : Above(a, b) /\ Total(v, b) > Total(v, a)}
<1>1. SUFFICES ASSUME T # {} PROVE FALSE
  <2>1. Total(v, A) \in Nat /\ Total(v, B) \in Nat
    BY TotalNat, FS_Subset
  <2>2. Above(A, B)
    BY DEF LargestFirst
  <2>3. QED
    BY <2>1, <2>2
<1>2. T \in SUBSET SUBSET D
  OBVIOUS
<1>3. PICK b \in T : \A t \in SUBSET b : t # b => t \notin T
  <2> HIDE DEF T
  <2>1. QED
    BY <1>1, <1>2, Smallest
<1>4. PICK a \in SUBSET D : Above(a, b) /\ Total(v, b) > Total(v, a)
  OBVIOUS
<1>5. ASSUME NEW s \in SUBSET D
      PROVE  /\ IsFiniteSet(s) /\ Total(v, s) \in Nat /\ Cardinality(s) \in Nat
             /\ \A x \in s : /\ Total(v, s) = v[x] + Total(v, s \ {x})
                             /\ Cardinality(s \ {x}) = Cardinality(s) - 1
  <2>1. IsFiniteSet(s)
    BY FS_Subset
  <2>2. v \in [E -> Int] /\ s \in SUBSET E
    OBVIOUS
  <2>3. Total(v, s) \in Nat
    BY <2>1, <2>2, TotalNat
  <2>4. ASSUME NEW x \in s PROVE Total(v, s) = v[x] + Total(v, s \ {x})
    BY <2>1, <2>2, TotalWithout
  <2>5. QED
    BY <2>1, <2>3, <2>4, FS_CardinalityType, FS_RemoveElement
<1>6. b # {}
  <2>1. Total(v, {}) = 0
    <3>1. v \in [E -> Int] /\ b \in SUBSET E /\ IsFiniteSet(b)
      BY <1>5
    <3>2. QED
      BY <3>1, TotalWithout
  <2>2. Total(v, a) \in Nat /\ Total(v, b) > Total(v, a)
    BY <1>4, <1>5
  <2>3. b = {} => Total(v, b) = 0
    BY <2>1
  <2>4. QED
    BY <2>2, <2>3
<1>7. PICK y \in b : TRUE
  BY <1>6
<1>8. \E x \in a : v[x] >= v[y] /\ (x \in b => x = y)
  <2>1. CASE y \in a
    BY <2>1
  <2>2. CASE y \notin a
    <3>1. PICK x \in a : x \notin b
      <4>1. SUFFICES ASSUME a \subseteq b PROVE FALSE
        OBVIOUS
      <4>2. a \in SUBSET (b \ {y})
        BY <2>2, <4>1
      <4>3. IsFiniteSet(b \ {y}) /\ Cardinality(b \ {y}) = Cardinality(b) - 1
        BY <1>5, <1>7, FS_Subset
      <4>4. Cardinality(a) <= Cardinality(b \ {y})
        BY <4>2, <4>3, FS_Subset
      <4>5. QED
        BY <1>4, <1>5, <4>3, <4>4
    <3>2. QED
      BY <1>4, <2>2, <3>1
  <2>3. QED
    BY <2>1, <2>2
<1>9. PICK x \in a : v[x] >= v[y] /\ (x \in b => x = y)
  BY <1>8
<1>10. Above(a \ {x}, b \ {y})
  <2>1. ASSUME NEW p \in a \ {x}, NEW q \in (b \ {y}) \ (a \ {x}) PROVE v[p] >= v[q]
    BY <1>4, <1>9
  <2>2. Cardinality(b \ {y}) <= Cardinality(a \ {x})
    BY <1>4, <1>5
  <2>3. QED
    BY <2>1, <2>2
<1>11. b \ {y} \notin T /\ b \ {y} \in SUBSET D /\ a \ {x} \in SUBSET D
  BY <1>3, <1>7
<1>12. ~(Total(v, b \ {y}) > Total(v, a \ {x}))
  BY <1>10, <1>11
<1>13. /\ Total(v, b) = v[y] + Total(v, b \ {y}) /\ Total(v, a) = v[x] + Total(v, a \ {x})
       /\ Total(v, b \ {y}) \in Nat /\ Total(v, a \ {x}) \in Nat
       /\ v[x] \in Nat /\ v[y] \in Nat
  BY <1>5, <1>7, <1>9, <1>11
<1>14. QED
  BY <1>4, <1>9, <1>12, <1>13

(* Among outpoints there is one of least value.                            *)
LEMMA SomeSmallest ==
  ASSUME NEW D, NEW v \in [D -> Nat], NEW S \in SUBSET D, S # {}
  PROVE  \E x \in S : \A y \in S : v[x] <= v[y]
<1> DEFINE N == {v[x] : x \in S}
<1>1. N \in SUBSET Nat /\ N # {}
  OBVIOUS
<1>2. PICK n \in N : \A m \in N : <<m, n>> \notin OpToRel(<, Nat)
  <2> HIDE DEF N
  <2>1. QED
    BY <1>1, NatLessThanWellFounded, WFMin
<1>3. \A m \in N : ~(m < n)
  BY <1>1, <1>2 DEF OpToRel
<1>4. PICK x \in S : v[x] = n
  OBVIOUS
<1>5. QED
  BY <1>1, <1>3, <1>4

(* Whatever order sort.Slice leaves equal values in, the greedy loop takes *)
(* as few outpoints as cover the amount: without its last one, a smallest  *)
(* one, it did not cover it, and no set of that size is worth more.        *)
THEOREM GreedyIsFewest ==
  ASSUME NEW E, NEW value \in [E -> Nat], NEW free \in SUBSET E, IsFiniteSet(free),
         NEW amount \in Nat,
         NEW chosen \in Selections(value, free, amount)
  PROVE  IsFewestInputs(value, free, chosen, amount)
<1>1. /\ chosen \in SUBSET free
      /\ LargestFirst(value, free, chosen) /\ Total(value, chosen) >= amount
      /\ StopsWhenCovered(value, chosen, amount)
  BY DEF Selections
<1>2. ASSUME NEW s \in SUBSET free PROVE IsFiniteSet(s) /\ Cardinality(s) \in Nat /\ Total(value, s) \in Nat
  BY FS_Subset, FS_CardinalityType, TotalNat
<1>3. ASSUME NEW other \in SUBSET free, Total(value, other) >= amount,
             ~(Cardinality(chosen) <= Cardinality(other))
      PROVE  FALSE
  <2>1. chosen # {}
    BY <1>2, <1>3, FS_EmptySet
  <2>2. PICK o \in chosen : \A p \in chosen : value[o] <= value[p]
    BY <1>1, <2>1, SomeSmallest
  <2> DEFINE A == chosen \ {o}
  <2>3. Total(value, A) < amount
    BY <1>1, <2>2 DEF StopsWhenCovered
  <2>4. Cardinality(A) = Cardinality(chosen) - 1
    BY <1>1, <1>2, FS_RemoveElement
  <2>5. LargestFirst(value, free, A) /\ A \in SUBSET free
    BY <1>1, <2>2 DEF LargestFirst
  <2>6. Cardinality(other) <= Cardinality(A)
    BY <1>1, <1>2, <1>3, <2>4
  <2> HIDE DEF A
  <2>7. Total(value, other) <= Total(value, A)
    BY <2>5, <2>6, TopTotal
  <2>8. QED
    BY <1>2, <1>3, <2>3, <2>5, <2>7
<1>4. QED
  BY <1>1, <1>3 DEF IsFewestInputs

(* The table and the outpoints callers work on stay well formed, and the   *)
(* table finite, also when events are delivered again.                     *)
Rows == {o \in Outpoints : utxos[o] # "ABSENT"}

TableInv ==
  /\ utxos \in [Outpoints -> UTXOLockState]
  /\ ops \in [Callers -> SUBSET Outpoints] /\ held \in [Callers -> SUBSET Outpoints]
  /\ IsFiniteSet(Rows)

LEMMA InitTable == Init => TableInv
<1>1. ASSUME Init PROVE TableInv
  <2>1. Rows = {}
    BY <1>1 DEF Init, Rows
  <2>2. QED
    BY <1>1, <2>1, FS_EmptySet DEF Init, TableInv, UTXOLockState
<1>2. QED
  BY <1>1

(* A step adds at most one row.                                            *)
LEMMA RowsFinite ==
  ASSUME TableInv, NEW o, \A p \in Outpoints \ {o} : utxos'[p] # "ABSENT" => utxos[p] # "ABSENT"
  PROVE  IsFiniteSet(Rows')
<1>1. IsFiniteSet(Rows \cup {o})
  BY FS_AddElement DEF TableInv
<1>2. Rows' \in SUBSET (Rows \cup {o})
  BY DEF Rows
<1>3. QED
  BY <1>1, <1>2, FS_Subset

LEMMA NextTable == TableInv /\ [Next]_vars => TableInv'
<1> SUFFICES ASSUME TableInv, [Next]_vars PROVE TableInv'
  OBVIOUS
<1>1. ASSUME UNCHANGED utxos, ops' \in [Callers -> SUBSET Outpoints],
             held' \in [Callers -> SUBSET Outpoints]
      PROVE  TableInv'
  BY <1>1 DEF TableInv, Rows
<1>2. ASSUME NEW o \in Outpoints, utxos' \in [Outpoints -> UTXOLockState],
             \A p \in Outpoints \ {o} : utxos'[p] = utxos[p],
             ops' \in [Callers -> SUBSET Outpoints], held' \in [Callers -> SUBSET Outpoints]
      PROVE  TableInv'
  BY <1>2, RowsFinite DEF TableInv
<1>3. ASSUME NEW c \in Callers, LockableUTXOs(utxos, ops[c]), utxos' = LockUTXOs(utxos, ops[c]),
             ops' \in [Callers -> SUBSET Outpoints], held' \in [Callers -> SUBSET Outpoints]
      PROVE  TableInv'
  <2>1. /\ utxos' \in [Outpoints -> UTXOLockState]
        /\ \A p \in Outpoints : utxos'[p] = IF p \in ops[c] THEN "LOCKED" ELSE utxos[p]
    BY <1>3, LockStep DEF TableInv
  <2>2. \A p \in ops[c] : utxos[p] = "FREE"
    BY <1>3 DEF LockableUTXOs
  <2>3. QED
    BY <1>3, <2>1, <2>2, RowsFinite DEF TableInv
<1>4. ASSUME NEW c \in Callers, NEW amount \in Amounts, SelectList(c, amount) PROVE TableInv'
  BY <1>1, <1>4 DEF SelectList, Selections, ListFreeUTXOs, TableInv
<1>5. ASSUME NEW c \in Callers, SelectLock(c) \/ SelectError(c) PROVE TableInv'
  BY <1>1, <1>3, <1>5 DEF SelectLock, SelectError, TableInv
<1>6. ASSUME NEW c \in Callers, UnlockStart(c) \/ Send(c) \/ LoopEnds(c) \/ Crash(c)
      PROVE  TableInv'
  BY <1>1, <1>6 DEF UnlockStart, Send, LoopEnds, Crash, TableInv
<1>7. ASSUME NEW c \in Callers, NEW o \in Outpoints, UnlockRow(c, o) \/ MarkSpentRow(c, o)
      PROVE  TableInv'
  BY <1>2, <1>7, RowSteps DEF UnlockRow, MarkSpentRow, TableInv
<1>8. ASSUME NEW o \in Outpoints, TrackUTXO(o) \/ RestoreOnReorg(o) \/ PruneFinalized(o)
      PROVE  TableInv'
  BY <1>2, <1>8, RowSteps DEF TrackUTXO, RestoreOnReorg, PruneFinalized, TableInv
<1>9. ASSUME NEW o \in Outpoints, Reorg(o) PROVE TableInv'
  BY <1>1, <1>9 DEF Reorg, TableInv
<1>10. CASE UNCHANGED vars
  BY <1>1, <1>10 DEF vars, TableInv
<1>11. QED
  BY <1>4, <1>5, <1>6, <1>7, <1>8, <1>9, <1>10 DEF Next

(* SelectForAmount covers the amount with the fewest inputs that the       *)
(* outpoints free at that moment allow, however calls interleave and       *)
(* events are repeated.                                                    *)
THEOREM SelectsFewest == Spec => FewestInputs
<1>1. ASSUME TableInv, NEW c \in Callers, NEW amount \in Amounts, SelectList(c, amount)
      PROVE  IsFewestInputs(Value, ListFreeUTXOs(utxos), ops'[c], amount)
  <2>1. PICK S \in Selections(Value, ListFreeUTXOs(utxos), amount) : ops'[c] = S
    BY <1>1 DEF SelectList, TableInv
  <2>2. /\ ListFreeUTXOs(utxos) \in SUBSET Outpoints
        /\ ListFreeUTXOs(utxos) \in SUBSET Rows
    BY <1>1 DEF ListFreeUTXOs, TableInv, Rows
  <2>3. IsFiniteSet(ListFreeUTXOs(utxos))
    BY <1>1, <2>2, FS_Subset DEF TableInv
  <2>4. amount \in Nat /\ Value \in [Outpoints -> Nat]
    BY ValueAssumption
  <2>5. QED
    BY <2>1, <2>2, <2>3, <2>4, GreedyIsFewest
<1>2. TableInv /\ [Next]_vars =>
        [\A c \in Callers, amount \in Amounts :
           SelectList(c, amount) =>
             IsFewestInputs(Value, ListFreeUTXOs(utxos), ops'[c], amount)]_vars
  BY <1>1
<1>3. QED
  BY <1>2, InitTable, NextTable, PTL DEF Spec, FewestInputs
=============================================================================
