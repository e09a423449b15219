---------------------------- MODULE NonceService ----------------------------
(***************************************************************************)
(* Package nonce: reservation, commit and rollback of the nonces of one    *)
(* (wallet, chain), over the nonces row and a Redis lock with a TTL        *)
(* (package lock).  Rows and lock names of different (wallet, chain) pairs *)
(* are disjoint, so one pair is the whole system.                          *)
(*                                                                         *)
(* A caller is one withdrawal attempt: it reserves a nonce, then either    *)
(* sends a transaction with it and commits it, or rolls it back, once.     *)
(* (Withdrawal.tla models the callers in withdrawal.go, which do not all   *)
(* keep to that.)  A caller may die between any two calls.                 *)
(***************************************************************************)
EXTENDS SpendStore

CONSTANTS Callers,      \* concurrent withdrawal attempts
          None,         \* no nonce, and a lock key that is not set
          MaxRetries,   \* attempts of ReserveNonce to get the lock (50)
          MaxNonce      \* bound of the model on pending_nonce

ASSUME NoneAssumption == None \notin Nat /\ None \notin Callers
ASSUME BoundsAssumption == MaxRetries \in Nat \ {0} /\ MaxNonce \in Nat

VARIABLES
  nonce,   \* the row of table nonces
  lock,    \* Redis key lock:nonce:lock:<wallet>:<chain>: None or its token
  pc,      \* where each caller is
  tries,   \* lock attempts made in the current ReserveNonce
  held,    \* the nonce a caller was given and has not given up
  sent     \* nonces that a transaction was sent with

vars == <<nonce, lock, pc, tries, held, sent>>

PC == {"idle", "acquire", "increment", "release", "delete", "commit"}

TypeOK ==
  /\ nonce \in NonceRow
  /\ lock \in Callers \cup {None}
  /\ pc \in [Callers -> PC]
  /\ tries \in [Callers -> 0 .. MaxRetries]
  /\ held \in [Callers -> Nat \cup {None}]
  /\ sent \subseteq Nat

Init ==
  /\ nonce = NoNonceRow
  /\ lock = None
  /\ pc = [c \in Callers |-> "idle"]
  /\ tries = [c \in Callers |-> 0]
  /\ held = [c \in Callers |-> None]
  /\ sent = {}

Goto(c, label) == pc' = [pc EXCEPT ![c] = label]

At(c, label) == pc[c] = label

-----------------------------------------------------------------------------
(* ReserveNonce.  A token is a fresh UUID per attempt; a caller makes one  *)
(* attempt at a time, so the caller itself serves as its token.            *)

Reserve(c) ==
  /\ At(c, "idle") /\ held[c] = None
  /\ Goto(c, "acquire")
  /\ tries' = [tries EXCEPT ![c] = 0]
  /\ UNCHANGED <<nonce, lock, held, sent>>

(* SET NX succeeds.                                                        *)
AcquireOk(c) ==
  /\ At(c, "acquire") /\ lock = None
  /\ lock' = c
  /\ Goto(c, "increment")
  /\ UNCHANGED <<nonce, tries, held, sent>>

(* Mutant: the loop starts over when its attempts are used up.             *)
RetryForever(c) ==
  /\ At(c, "acquire") /\ lock # None
  /\ tries' = [tries EXCEPT ![c] = (@ + 1) % MaxRetries]
  /\ UNCHANGED <<nonce, lock, pc, held, sent>>

(* Another token is there: sleep and try again, or report contention.      *)
AcquireBusy(c) ==
  /\ At(c, "acquire") /\ lock # None
  /\ tries' = [tries EXCEPT ![c] = @ + 1]
  /\ Goto(c, IF tries[c] + 1 < MaxRetries THEN "acquire" ELSE "idle")
  /\ UNCHANGED <<nonce, lock, held, sent>>

(* Redis fails; the key may have been set although the reply was lost.     *)
AcquireError(c) ==
  /\ At(c, "acquire")
  /\ lock' \in {lock, IF lock = None THEN c ELSE lock}
  /\ Goto(c, "idle")
  /\ UNCHANGED <<nonce, tries, held, sent>>

(* Mutant: the row is read in one step and written in a later one, so two  *)
(* callers that both passed an expired lock may read the same counter.     *)
IncrementNotAtomic(c) ==
  /\ At(c, "increment") /\ nonce.pending < MaxNonce
  /\ held' = [held EXCEPT ![c] = nonce.pending]
  /\ nonce' \in {nonce, IncrementPendingNonce(nonce)}
  /\ Goto(c, "release")
  /\ UNCHANGED <<lock, tries, sent>>

(* The transaction commits: the caller owns the old value of the counter.  *)
IncrementOk(c) ==
  /\ At(c, "increment") /\ nonce.pending < MaxNonce
  /\ held' = [held EXCEPT ![c] = nonce.pending]
  /\ nonce' = IncrementPendingNonce(nonce)
  /\ Goto(c, "release")
  /\ UNCHANGED <<lock, tries, sent>>

(* The transaction fails (a serialization failure, say), or commits while  *)
(* the reply is lost: the error is reported after the lock is released.    *)
IncrementError(c) ==
  /\ At(c, "increment")
  /\ \/ UNCHANGED nonce
     \/ nonce.pending < MaxNonce /\ nonce' = IncrementPendingNonce(nonce)
  /\ Goto(c, "release")
  /\ UNCHANGED <<lock, tries, held, sent>>

(* Release, first half: GET the key and compare the token.  A missing key, *)
(* another token or a Redis error end the call; the caller of Release      *)
(* ignores the error.                                                      *)
ReleaseGet(c) ==
  /\ At(c, "release")
  /\ \/ lock = c /\ Goto(c, "delete")
     \/ Goto(c, "idle")
  /\ UNCHANGED <<nonce, lock, tries, held, sent>>

(* Release, second half: DEL, whatever the key holds by now.               *)
ReleaseDel(c) ==
  /\ At(c, "delete")
  /\ lock' = None
  /\ Goto(c, "idle")
  /\ UNCHANGED <<nonce, tries, held, sent>>

(* The key outlives its TTL.                                               *)
LockExpires ==
  /\ lock # None
  /\ lock' = None
  /\ UNCHANGED <<nonce, pc, tries, held, sent>>

-----------------------------------------------------------------------------
(* What a caller does with its nonce.                                      *)

(* The gateway accepts the caller's transaction.                           *)
Send(c) ==
  /\ At(c, "idle") /\ held[c] # None
  /\ sent' = sent \cup {held[c]}
  /\ Goto(c, "commit")
  /\ UNCHANGED <<nonce, lock, tries, held>>

(* CommitNonce; the caller ignores its error.                              *)
CommitNonce(c) ==
  /\ At(c, "commit")
  /\ nonce' \in {nonce, AdvanceBroadcastNonce(nonce, held[c])}
  /\ held' = [held EXCEPT ![c] = None]
  /\ Goto(c, "idle")
  /\ UNCHANGED <<lock, tries, sent>>

(* Mutant: the caller does not forget the nonce it rolled back.            *)
RollbackAndKeep(c) ==
  /\ At(c, "idle") /\ held[c] # None
  /\ nonce' = RollbackPendingNonce(nonce, held[c])
  /\ UNCHANGED <<lock, pc, tries, held, sent>>

(* RollbackNonce; the caller ignores its error.                            *)
RollbackNonce(c) ==
  /\ At(c, "idle") /\ held[c] # None
  /\ nonce' \in {nonce, RollbackPendingNonce(nonce, held[c])}
  /\ held' = [held EXCEPT ![c] = None]
  /\ UNCHANGED <<lock, pc, tries, sent>>

(* The caller dies: its nonce is in nobody's hands, and a lock it holds    *)
(* stays until it expires.                                                 *)
Crash(c) ==
  /\ ~At(c, "idle") \/ held[c] # None
  /\ Goto(c, "idle")
  /\ held' = [held EXCEPT ![c] = None]
  /\ UNCHANGED <<nonce, lock, tries, sent>>

(* One step of a running ReserveNonce.                                     *)
ReserveStep(c) ==
  \/ AcquireOk(c) \/ AcquireBusy(c) \/ AcquireError(c)
  \/ IncrementOk(c) \/ IncrementError(c)
  \/ ReleaseGet(c) \/ ReleaseDel(c)

Next ==
  \/ LockExpires
  \/ \E c \in Callers :
       \/ Reserve(c) \/ ReserveStep(c)
       \/ Send(c) \/ CommitNonce(c) \/ RollbackNonce(c) \/ Crash(c)

Spec == Init /\ [][Next]_vars

(* A goroutine inside ReserveNonce is scheduled again, every sleep and     *)
(* every Redis or database call being bounded in time.                     *)
Fairness == \A c \in Callers : WF_vars(ReserveStep(c))

FairSpec == Spec /\ Fairness

-----------------------------------------------------------------------------
(* Two callers never own the same nonce: what ReserveNonce's comment calls *)
(* "the underlying pending_nonce counter guarantees distinct values".  It  *)
(* does not rest on the lock, which may expire or be deleted by a stale    *)
(* Release.                                                                *)
DistinctReservations ==
  \A c, d \in Callers : c # d /\ held[c] # None => held[c] # held[d]

(* A nonce that a transaction went out with is never handed out again, in  *)
(* spite of rollbacks that move pending_nonce down.                        *)
SentNeverReissued ==
  \A c \in Callers : held[c] # None /\ ~At(c, "commit") => held[c] \notin sent

(* broadcast_nonce never gets ahead of pending_nonce, although commits     *)
(* arrive in any order and rollbacks decrement the pending counter.        *)
BroadcastBehindPending == nonce.broadcast <= nonce.pending

(* broadcast_nonce never moves down: commits may arrive in another order   *)
(* than the reservations they belong to.                                   *)
BroadcastMonotone == [][nonce'.broadcast >= nonce.broadcast]_vars

(* Every call of ReserveNonce returns, with a nonce or with an error: the  *)
(* retries are bounded and no step waits for another caller.               *)
ReserveReturns ==
  \A c \in Callers : At(c, "acquire") ~> At(c, "idle")

(* The service implements the allocator it promises to be.                 *)
Allocator == INSTANCE NonceAllocator WITH Nonces <- 0 .. MaxNonce

ImplementsAllocator == Allocator!Spec
=============================================================================
