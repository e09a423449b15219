---------------------------- MODULE BalanceBook ----------------------------
(***************************************************************************)
(* What the documentation promises of one (wallet, asset) balance.  Every  *)
(* event is booked once: as pending value, or as confirmed value once its  *)
(* threshold is met, "moving value from pending to confirmed".  A reorg    *)
(* "demotes confirmed value back to pending for the reorged block".        *)
(***************************************************************************)
EXTENDS Sums

CONSTANTS Events, Amount, Final,
          Tx,       \* the transaction an event reports on
          Block     \* the block it is in

VARIABLES confirmed, pending,
          booked,   \* events entered so far
          waiting,  \* those whose amount is pending
          settled   \* those whose amount is confirmed

bookVars == <<confirmed, pending, booked, waiting, settled>>

Init == /\ confirmed = 0 /\ pending = 0
        /\ booked = {} /\ waiting = {} /\ settled = {}

Observe(e) ==
  /\ e \notin booked
  /\ booked' = booked \cup {e}
  /\ IF Final[e]
     THEN /\ settled' = settled \cup {e}
          /\ waiting' = {f \in waiting : Tx[f] # Tx[e]}
     ELSE waiting' = waiting \cup {e} /\ UNCHANGED settled

Demote(block) ==
  LET gone == {e \in settled : Block[e] = block}
  IN  /\ settled' = settled \ gone
      /\ waiting' = waiting \cup gone
      /\ UNCHANGED booked

Next ==
  /\ \E e \in Events : Observe(e) \/ Demote(Block[e])
  /\ confirmed' = Total(Amount, settled')
  /\ pending' = Total(Amount, waiting')
=============================================================================
