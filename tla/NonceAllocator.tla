--------------------------- MODULE NonceAllocator ---------------------------
(***************************************************************************)
(* What package nonce promises its callers, without the counter, the lock  *)
(* or the retries: a nonce that is handed out belongs to one caller until  *)
(* it is given up, and a nonce that a transaction was sent with is never   *)
(* handed out again.                                                       *)
(***************************************************************************)
CONSTANTS Callers,   \* sagas that reserve a nonce
          Nonces,    \* the values a nonce may take
          None       \* no nonce

VARIABLES held,      \* held[c]: the nonce that belongs to caller c, or None
          sent       \* nonces that a transaction was sent with

vars == <<held, sent>>

Init ==
  /\ held = [c \in Callers |-> None]
  /\ sent = {}

(* ReserveNonce took effect: any nonce in nobody's hands, never sent.      *)
Allocate(c, n) ==
  /\ held[c] = None
  /\ n \notin sent
  /\ \A d \in Callers : held[d] # n
  /\ held' = [held EXCEPT ![c] = n]
  /\ UNCHANGED sent

(* The caller sent a transaction with its nonce.                           *)
Send(c) ==
  /\ held[c] # None
  /\ sent' = sent \cup {held[c]}
  /\ UNCHANGED held

(* CommitNonce, RollbackNonce, or the end of the caller.                   *)
GiveUp(c) ==
  /\ held[c] # None
  /\ held' = [held EXCEPT ![c] = None]
  /\ UNCHANGED sent

Next ==
  \E c \in Callers :
    \/ \E n \in Nonces : Allocate(c, n)
    \/ Send(c)
    \/ GiveUp(c)

Spec == Init /\ [][Next]_vars
=============================================================================
