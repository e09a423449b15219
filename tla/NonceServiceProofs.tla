------------------------- MODULE NonceServiceProofs -------------------------
(***************************************************************************)
(* Proofs that the nonce service keeps its promises for every set of       *)
(* callers, every retry bound and every bound on the counter.  The Redis   *)
(* lock plays no part in any of them.                                      *)
(***************************************************************************)
EXTENDS NonceService, TLAPS

(* Every nonce in somebody's hands, and every nonce sent, is below the     *)
(* counter, so the next increment returns a nonce of nobody's.             *)
BelowPending ==
  /\ \A c \in Callers : held[c] # None => held[c] < nonce.pending
  /\ \A n \in sent : n < nonce.pending

(* Only a nonce that was sent is ever committed.                           *)
BroadcastFromSent == nonce.broadcast = 0 \/ nonce.broadcast - 1 \in sent

(* A caller that is about to commit holds the nonce that it sent.          *)
CommitHolds == \A c \in Callers : At(c, "commit") => held[c] \in sent

(* A caller that is inside ReserveNonce before the increment has none.     *)
ReserveEmpty ==
  \A c \in Callers : pc[c] \in {"acquire", "increment"} => held[c] = None

(* A caller in the retry loop has attempts left.                           *)
AttemptsLeft == \A c \in Callers : At(c, "acquire") => tries[c] < MaxRetries

IInv ==
  /\ TypeOK
  /\ AttemptsLeft
  /\ BelowPending
  /\ BroadcastFromSent
  /\ CommitHolds
  /\ ReserveEmpty
  /\ DistinctReservations
  /\ SentNeverReissued

USE NoneAssumption, BoundsAssumption

-----------------------------------------------------------------------------
(* The three store operations keep the row well-typed, and say what they   *)
(* do to each counter.                                                     *)
LEMMA IncrementRow ==
  ASSUME NEW row \in NonceRow
  PROVE  /\ IncrementPendingNonce(row) \in NonceRow
         /\ IncrementPendingNonce(row).pending = row.pending + 1
         /\ IncrementPendingNonce(row).broadcast = row.broadcast
  BY DEF NonceRow, IncrementPendingNonce

LEMMA AdvanceRow ==
  ASSUME NEW row \in NonceRow, NEW n \in Nat
  PROVE  /\ AdvanceBroadcastNonce(row, n) \in NonceRow
         /\ AdvanceBroadcastNonce(row, n).pending = row.pending
         /\ AdvanceBroadcastNonce(row, n).broadcast \in {row.broadcast, n + 1}
         /\ AdvanceBroadcastNonce(row, n).broadcast >= row.broadcast
  BY DEF NonceRow, AdvanceBroadcastNonce

LEMMA RollbackRow ==
  ASSUME NEW row \in NonceRow, NEW n \in Nat
  PROVE  /\ RollbackPendingNonce(row, n) \in NonceRow
         /\ RollbackPendingNonce(row, n).broadcast = row.broadcast
         /\ \/ RollbackPendingNonce(row, n).pending = row.pending
            \/ /\ row.pending = n + 1
               /\ RollbackPendingNonce(row, n).pending = n
  BY DEF NonceRow, RollbackPendingNonce

-----------------------------------------------------------------------------
LEMMA InitIInv == Init => IInv
  BY DEF Init, IInv, TypeOK, AttemptsLeft, BelowPending, BroadcastFromSent, CommitHolds,
         ReserveEmpty, DistinctReservations, SentNeverReissued, At, PC,
         NoNonceRow, NonceRow

(* Steps that leave the row, the hands and the sent nonces alone can only  *)
(* disturb the type invariant and the facts about pc.                      *)
LEMMA ControlStep ==
  ASSUME IInv, TypeOK', AttemptsLeft', UNCHANGED <<nonce, held, sent>>,
         NEW c \in Callers, NEW l \in PC, pc' = [pc EXCEPT ![c] = l],
         l # "commit", l \in {"acquire", "increment"} => held[c] = None,
         pc[c] # "commit"
  PROVE  IInv'
  BY DEF IInv, TypeOK, AttemptsLeft, BelowPending, BroadcastFromSent, CommitHolds,
         ReserveEmpty, DistinctReservations, SentNeverReissued, At, PC

LEMMA StepIInv == IInv /\ [Next]_vars => IInv'
<1> SUFFICES ASSUME IInv, [Next]_vars PROVE IInv'
  OBVIOUS
<1> USE DEF IInv
<1>1. ASSUME NEW c \in Callers, Reserve(c) PROVE IInv'
  <2>1. TypeOK' /\ AttemptsLeft'
    BY <1>1 DEF Reserve, Goto, TypeOK, AttemptsLeft, At, PC
  <2>2. QED  BY <1>1, <2>1, ControlStep DEF Reserve, Goto, At, PC
<1>2. ASSUME NEW c \in Callers, AcquireOk(c) PROVE IInv'
  <2>1. TypeOK' /\ AttemptsLeft'
    BY <1>2 DEF AcquireOk, Goto, TypeOK, AttemptsLeft, At, PC
  <2>2. held[c] = None  BY <1>2 DEF AcquireOk, At, ReserveEmpty
  <2>3. QED  BY <1>2, <2>1, <2>2, ControlStep DEF AcquireOk, Goto, At, PC
<1>3. ASSUME NEW c \in Callers, AcquireBusy(c) PROVE IInv'
  <2>1. held[c] = None  BY <1>3 DEF AcquireBusy, At, ReserveEmpty
  <2>2. QED
    BY <1>3, <2>1 DEF AcquireBusy, Goto, TypeOK, AttemptsLeft, BelowPending,
       BroadcastFromSent, CommitHolds, ReserveEmpty, DistinctReservations,
       SentNeverReissued, At, PC
<1>4. ASSUME NEW c \in Callers, AcquireError(c) PROVE IInv'
  <2>1. TypeOK' /\ AttemptsLeft'
    BY <1>4 DEF AcquireError, Goto, TypeOK, AttemptsLeft, At, PC
  <2>2. QED  BY <1>4, <2>1, ControlStep DEF AcquireError, Goto, At, PC
<1>5. ASSUME NEW c \in Callers, IncrementOk(c) PROVE IInv'
  <2>1. /\ nonce' \in NonceRow
        /\ nonce'.pending = nonce.pending + 1
        /\ nonce'.broadcast = nonce.broadcast
    BY <1>5, IncrementRow DEF IncrementOk, TypeOK
  <2>2. nonce.pending \in Nat  BY DEF TypeOK, NonceRow
  <2>3. TypeOK' /\ AttemptsLeft'
    BY <1>5, <2>1, <2>2
       DEF IncrementOk, Goto, TypeOK, AttemptsLeft, At, PC
  <2>4. BelowPending'
    BY <1>5, <2>1, <2>2 DEF IncrementOk, BelowPending, TypeOK
  <2>5. BroadcastFromSent'
    BY <1>5, <2>1 DEF IncrementOk, BroadcastFromSent
  <2>6. CommitHolds' /\ ReserveEmpty'
    BY <1>5, <2>2 DEF IncrementOk, Goto, At, CommitHolds, ReserveEmpty, TypeOK
  <2>7. DistinctReservations'
    BY <1>5, <2>2 DEF IncrementOk, DistinctReservations, BelowPending, TypeOK
  <2>8. SentNeverReissued'
    BY <1>5, <2>2
       DEF IncrementOk, Goto, At, SentNeverReissued, BelowPending, TypeOK
  <2>9. QED  BY <2>3, <2>4, <2>5, <2>6, <2>7, <2>8
<1>6. ASSUME NEW c \in Callers, IncrementError(c) PROVE IInv'
  <2>1. /\ nonce' \in NonceRow
        /\ nonce'.pending \in {nonce.pending, nonce.pending + 1}
        /\ nonce'.broadcast = nonce.broadcast
    BY <1>6, IncrementRow DEF IncrementError, TypeOK
  <2>2. nonce.pending \in Nat  BY DEF TypeOK, NonceRow
  <2>3. TypeOK' /\ AttemptsLeft'
    BY <1>6, <2>1 DEF IncrementError, Goto, TypeOK, AttemptsLeft, At, PC
  <2>4. BelowPending'
    BY <1>6, <2>1, <2>2 DEF IncrementError, BelowPending, TypeOK
  <2>5. BroadcastFromSent'
    BY <1>6, <2>1 DEF IncrementError, BroadcastFromSent
  <2>6. QED
    BY <1>6, <2>3, <2>4, <2>5
       DEF IncrementError, Goto, At, CommitHolds, ReserveEmpty,
           DistinctReservations, SentNeverReissued, TypeOK
<1>7. ASSUME NEW c \in Callers, ReleaseGet(c) PROVE IInv'
  <2>1. PICK l \in {"delete", "idle"} : pc' = [pc EXCEPT ![c] = l]
    BY <1>7 DEF ReleaseGet, Goto
  <2>2. TypeOK' /\ AttemptsLeft'
    BY <1>7, <2>1 DEF ReleaseGet, TypeOK, AttemptsLeft, At, PC
  <2>3. QED  BY <1>7, <2>1, <2>2, ControlStep DEF ReleaseGet, At, PC
<1>8. ASSUME NEW c \in Callers, ReleaseDel(c) PROVE IInv'
  <2>1. TypeOK' /\ AttemptsLeft'
    BY <1>8 DEF ReleaseDel, Goto, TypeOK, AttemptsLeft, At, PC
  <2>2. QED  BY <1>8, <2>1, ControlStep DEF ReleaseDel, Goto, At, PC
<1>9. CASE LockExpires
  BY <1>9 DEF LockExpires, TypeOK, AttemptsLeft, BelowPending, BroadcastFromSent,
     CommitHolds, ReserveEmpty, DistinctReservations, SentNeverReissued, At
<1>10. ASSUME NEW c \in Callers, Send(c) PROVE IInv'
  <2>1. held[c] \in Nat /\ held[c] < nonce.pending /\ held[c] # None
    BY <1>10 DEF Send, TypeOK, AttemptsLeft, BelowPending
  <2>2. TypeOK' /\ AttemptsLeft'
    BY <1>10, <2>1 DEF Send, Goto, TypeOK, AttemptsLeft, At, PC
  <2>3. BelowPending' /\ BroadcastFromSent'
    BY <1>10, <2>1 DEF Send, BelowPending, BroadcastFromSent
  <2>4. CommitHolds' /\ ReserveEmpty' /\ DistinctReservations'
    BY <1>10, <2>1
       DEF Send, Goto, At, CommitHolds, ReserveEmpty, DistinctReservations,
           TypeOK
  <2>5. SentNeverReissued'
    <3> SUFFICES ASSUME NEW d \in Callers, held'[d] # None, ~At(d, "commit")'
                 PROVE  held'[d] \notin sent'
      BY DEF SentNeverReissued
    <3>1. d # c /\ held'[d] = held[d] /\ pc[d] = pc'[d]
      BY <1>10 DEF Send, Goto, At, TypeOK
    <3>2. held[d] \notin sent /\ held[d] # held[c]
      BY <3>1, <2>1 DEF SentNeverReissued, DistinctReservations, At
    <3>3. QED  BY <3>1, <3>2, <1>10 DEF Send
  <2>6. QED  BY <2>2, <2>3, <2>4, <2>5
<1>11. ASSUME NEW c \in Callers, CommitNonce(c) PROVE IInv'
  <2>1. held[c] \in Nat /\ held[c] \in sent
    BY <1>11 DEF CommitNonce, CommitHolds, TypeOK
  <2>2. /\ nonce' \in NonceRow
        /\ nonce'.pending = nonce.pending
        /\ nonce'.broadcast \in {nonce.broadcast, held[c] + 1}
    <3>1. nonce \in NonceRow  BY DEF TypeOK
    <3>2. CASE nonce' = nonce  BY <3>1, <3>2
    <3>3. CASE nonce' = AdvanceBroadcastNonce(nonce, held[c])
      BY <2>1, <3>1, <3>3, AdvanceRow
    <3>4. QED  BY <1>11, <3>2, <3>3 DEF CommitNonce
  <2>3. TypeOK' /\ AttemptsLeft'
    BY <1>11, <2>2 DEF CommitNonce, Goto, TypeOK, AttemptsLeft, At, PC
  <2>4. BelowPending'
    BY <1>11, <2>2 DEF CommitNonce, BelowPending, TypeOK
  <2>5. BroadcastFromSent'
    BY <1>11, <2>1, <2>2 DEF CommitNonce, BroadcastFromSent
  <2>6. QED
    BY <1>11, <2>3, <2>4, <2>5
       DEF CommitNonce, Goto, At, CommitHolds, ReserveEmpty,
           DistinctReservations, SentNeverReissued, TypeOK
<1>12. ASSUME NEW c \in Callers, RollbackNonce(c) PROVE IInv'
  <2>1. /\ held[c] \in Nat /\ held[c] # None /\ held[c] \notin sent
        /\ nonce.pending \in Nat
    BY <1>12 DEF RollbackNonce, SentNeverReissued, At, TypeOK, NonceRow
  <2>2. /\ nonce' \in NonceRow
        /\ nonce'.broadcast = nonce.broadcast
        /\ \/ nonce'.pending = nonce.pending
           \/ nonce.pending = held[c] + 1 /\ nonce'.pending = held[c]
    <3>1. nonce \in NonceRow  BY DEF TypeOK
    <3>2. CASE nonce' = nonce  BY <3>1, <3>2
    <3>3. CASE nonce' = RollbackPendingNonce(nonce, held[c])
      BY <2>1, <3>1, <3>3, RollbackRow
    <3>4. QED  BY <1>12, <3>2, <3>3 DEF RollbackNonce
  <2>3. TypeOK' /\ AttemptsLeft'
    BY <1>12, <2>2 DEF RollbackNonce, TypeOK, AttemptsLeft, At, PC
  <2>4. BelowPending'
    <3>1. ASSUME NEW d \in Callers, held'[d] # None
          PROVE  held'[d] < nonce'.pending
      <4>1. d # c /\ held'[d] = held[d]
        BY <1>12, <3>1 DEF RollbackNonce, TypeOK
      <4>2. held[d] \in Nat /\ held[d] < nonce.pending /\ held[d] # held[c]
        BY <2>1, <3>1, <4>1 DEF BelowPending, DistinctReservations, TypeOK
      <4>3. QED  BY <2>1, <2>2, <4>1, <4>2
    <3>2. ASSUME NEW n \in sent' PROVE n < nonce'.pending
      <4>1. n \in Nat /\ n < nonce.pending /\ n # held[c]
        BY <1>12, <2>1 DEF RollbackNonce, BelowPending, TypeOK
      <4>2. QED  BY <2>1, <2>2, <4>1
    <3>3. QED  BY <3>1, <3>2 DEF BelowPending
  <2>5. BroadcastFromSent'
    BY <1>12, <2>2 DEF RollbackNonce, BroadcastFromSent
  <2>6. QED
    BY <1>12, <2>3, <2>4, <2>5
       DEF RollbackNonce, At, CommitHolds, ReserveEmpty,
           DistinctReservations, SentNeverReissued, TypeOK
<1>13. ASSUME NEW c \in Callers, Crash(c) PROVE IInv'
  BY <1>13 DEF Crash, Goto, TypeOK, AttemptsLeft, BelowPending, BroadcastFromSent,
     CommitHolds, ReserveEmpty, DistinctReservations, SentNeverReissued, At, PC
<1>14. CASE UNCHANGED vars
  BY <1>14 DEF vars, TypeOK, AttemptsLeft, BelowPending, BroadcastFromSent, CommitHolds,
     ReserveEmpty, DistinctReservations, SentNeverReissued, At
<1>15. QED
  BY <1>1, <1>2, <1>3, <1>4, <1>5, <1>6, <1>7, <1>8, <1>9, <1>10, <1>11,
     <1>12, <1>13, <1>14 DEF Next, ReserveStep

THEOREM Invariance == Spec => []IInv
  BY InitIInv, StepIInv, PTL DEF Spec

-----------------------------------------------------------------------------
(* The variables keep their types.                                         *)
THEOREM TypeCorrect == Spec => []TypeOK
<1>1. IInv => TypeOK  BY DEF IInv
<1>2. QED  BY <1>1, Invariance, PTL

(* ReserveNonce never gives two callers the same nonce.                    *)
THEOREM ReservationsDistinct == Spec => []DistinctReservations
<1>1. IInv => DistinctReservations  BY DEF IInv
<1>2. QED  BY <1>1, Invariance, PTL

(* ReserveNonce never hands out a nonce that a transaction was sent with.  *)
THEOREM SentNoncesStaySent == Spec => []SentNeverReissued
<1>1. IInv => SentNeverReissued  BY DEF IInv
<1>2. QED  BY <1>1, Invariance, PTL

(* CommitNonce and RollbackNonce keep broadcast_nonce at or below          *)
(* pending_nonce.                                                          *)
THEOREM CountersOrdered == Spec => []BroadcastBehindPending
<1>1. IInv => BroadcastBehindPending
  BY DEF IInv, TypeOK, NonceRow, BroadcastFromSent, BelowPending,
         BroadcastBehindPending
<1>2. QED  BY <1>1, Invariance, PTL

(* No step, CommitNonce included, lowers broadcast_nonce.                  *)
THEOREM BroadcastNeverFalls == Spec => BroadcastMonotone
<1>1. IInv /\ [Next]_vars => [nonce'.broadcast >= nonce.broadcast]_vars
  <2> SUFFICES ASSUME IInv, Next PROVE nonce'.broadcast >= nonce.broadcast
    OBVIOUS
  <2>1. nonce \in NonceRow /\ nonce.broadcast \in Nat
    BY DEF IInv, TypeOK, NonceRow
  <2>2. CASE nonce' = nonce
    BY <2>1, <2>2
  <2>3. CASE nonce' = IncrementPendingNonce(nonce)
    BY <2>1, <2>3, IncrementRow
  <2>4. ASSUME NEW c \in Callers, CommitNonce(c),
               nonce' = AdvanceBroadcastNonce(nonce, held[c])
        PROVE  nonce'.broadcast >= nonce.broadcast
    <3>1. held[c] \in Nat  BY <2>4 DEF CommitNonce, IInv, CommitHolds, TypeOK
    <3>2. QED  BY <2>1, <2>4, <3>1, AdvanceRow
  <2>5. ASSUME NEW c \in Callers, RollbackNonce(c),
               nonce' = RollbackPendingNonce(nonce, held[c])
        PROVE  nonce'.broadcast >= nonce.broadcast
    <3>1. held[c] \in Nat  BY <2>5 DEF RollbackNonce, IInv, TypeOK
    <3>2. nonce'.broadcast = nonce.broadcast
      BY <2>1, <2>5, <3>1, RollbackRow
    <3>3. QED  BY <2>1, <3>2
  <2>6. QED
    BY <2>2, <2>3, <2>4, <2>5
       DEF Next, ReserveStep, Reserve, AcquireOk, AcquireBusy, AcquireError,
           IncrementOk, IncrementError, ReleaseGet, ReleaseDel, LockExpires,
           Send, CommitNonce, RollbackNonce, Crash
<1>2. QED  BY <1>1, Invariance, PTL DEF Spec, BroadcastMonotone

-----------------------------------------------------------------------------
(* The counter, the lock and the retries implement the abstract allocator: *)
(* ReserveNonce hands out a nonce that is in nobody's hands and was never  *)
(* sent; every other step is a Send, a GiveUp or a stutter.                *)
THEOREM Refinement == Spec => ImplementsAllocator
<1>1. Init => Allocator!Init
  BY DEF Init, Allocator!Init
<1>2. IInv /\ [Next]_vars => [Allocator!Next]_Allocator!vars
  <2> SUFFICES ASSUME IInv, [Next]_vars
               PROVE  [Allocator!Next]_Allocator!vars
    OBVIOUS
  <2>1. CASE UNCHANGED <<held, sent>>
    BY <2>1 DEF Allocator!vars
  <2>2. ASSUME NEW c \in Callers, IncrementOk(c)
        PROVE  \E n \in 0 .. MaxNonce : Allocator!Allocate(c, n)
    <3>1. nonce.pending \in 0 .. MaxNonce
      BY <2>2 DEF IncrementOk, IInv, TypeOK, NonceRow
    <3>2. held[c] = None
      BY <2>2 DEF IncrementOk, At, IInv, ReserveEmpty
    <3>3. nonce.pending \notin sent
      BY <3>1 DEF IInv, BelowPending
    <3>4. \A d \in Callers : held[d] # nonce.pending
      BY <3>1 DEF IInv, BelowPending
    <3>5. Allocator!Allocate(c, nonce.pending)
      BY <2>2, <3>2, <3>3, <3>4 DEF IncrementOk, Allocator!Allocate
    <3>6. QED  BY <3>1, <3>5
  <2>3. ASSUME NEW c \in Callers, Send(c) PROVE Allocator!Send(c)
    BY <2>3 DEF Send, Allocator!Send
  <2>4. ASSUME NEW c \in Callers, CommitNonce(c) PROVE Allocator!GiveUp(c)
    BY <2>4 DEF CommitNonce, Allocator!GiveUp, IInv, CommitHolds, TypeOK
  <2>5. ASSUME NEW c \in Callers, RollbackNonce(c) PROVE Allocator!GiveUp(c)
    BY <2>5 DEF RollbackNonce, Allocator!GiveUp
  <2>6. ASSUME NEW c \in Callers, Crash(c)
        PROVE  Allocator!GiveUp(c) \/ UNCHANGED <<held, sent>>
    BY <2>6 DEF Crash, Allocator!GiveUp, IInv, TypeOK
  <2>7. QED
    <3>1. \/ UNCHANGED <<held, sent>>
          \/ \E c \in Callers : \/ IncrementOk(c) \/ Send(c) \/ CommitNonce(c)
                                \/ RollbackNonce(c) \/ Crash(c)
      BY DEF Next, vars, ReserveStep, Reserve, AcquireOk, AcquireBusy,
             AcquireError, IncrementError, ReleaseGet, ReleaseDel, LockExpires
    <3>2. QED
      BY <2>1, <2>2, <2>3, <2>4, <2>5, <2>6, <3>1 DEF Allocator!Next
<1>3. QED
  BY <1>1, <1>2, Invariance, PTL DEF Spec, ImplementsAllocator, Allocator!Spec
=============================================================================
