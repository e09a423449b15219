------------------------ MODULE WithdrawalLifecycle -------------------------
(***************************************************************************)
(* The life of a withdrawal as its clients see it: the states of           *)
(* storage.WithdrawalState and the transitions between them, without       *)
(* nonces, outpoints, handlers or failures of the store.                   *)
(***************************************************************************)
CONSTANT Ids   \* withdrawal requests

VARIABLE state

States == {"ABSENT", "PENDING", "WHITELISTED", "SIGNED", "BROADCAST",
           "CONFIRMED", "FAILED"}

(* What the operations write; the last one is a reorg.                     *)
Forward ==
  {<<"ABSENT", "PENDING">>, <<"PENDING", "WHITELISTED">>,
   <<"WHITELISTED", "SIGNED">>, <<"SIGNED", "BROADCAST">>,
   <<"BROADCAST", "CONFIRMED">>, <<"CONFIRMED", "BROADCAST">>}

(* Policy rejection, signing failure and broadcast failure, and Fail.      *)
MayFail == {"PENDING", "WHITELISTED", "SIGNED"}

Init == state = [i \in Ids |-> "ABSENT"]

Move(i, s) ==
  /\ \/ <<state[i], s>> \in Forward
     \/ state[i] \in MayFail /\ s = "FAILED"
  /\ state' = [state EXCEPT ![i] = s]

Next == \E i \in Ids, s \in States : Move(i, s)

Spec == Init /\ [][Next]_state
=============================================================================
