--------------------------- MODULE CoinSelection ----------------------------
(***************************************************************************)
(* The choice SelectForAmount makes among the free outpoints of a wallet,  *)
(* as the set of results it may return: outpoints are taken largest first  *)
(* until the amount is covered, and sort.Slice is not stable, so outpoints *)
(* of equal value may come in any order.                                   *)
(***************************************************************************)
EXTENDS Sums, FiniteSets

(* No outpoint is passed over in favour of a smaller one.                  *)
LargestFirst(value, free, ops) ==
  \A o \in ops, p \in free \ ops : value[o] >= value[p]

(* The loop breaks as soon as the total covers the amount: without the     *)
(* outpoint taken last, a smallest one, it did not.                        *)
StopsWhenCovered(value, ops, amount) ==
  \A o \in ops : (\A p \in ops : value[o] <= value[p])
                   => Total(value, ops \ {o}) < amount

(* Mutant: the loop compares with > and takes one outpoint too many when   *)
(* the amount is met exactly.                                              *)
SelectionsStrict(value, free, amount) ==
  {ops \in SUBSET free :
     /\ LargestFirst(value, free, ops)
     /\ Total(value, ops) > amount \/ ops = free
     /\ \A o \in ops : (\A p \in ops : value[o] <= value[p])
                         => Total(value, ops \ {o}) <= amount}

(* Empty when the free outpoints do not cover the amount.                  *)
Selections(value, free, amount) ==
  {ops \in SUBSET free :
     /\ LargestFirst(value, free, ops)
     /\ Total(value, ops) >= amount
     /\ StopsWhenCovered(value, ops, amount)}

-----------------------------------------------------------------------------
(* The reference: the amount is covered, and no set of free outpoints      *)
(* covers it with fewer inputs (the comment of the sort in                 *)
(* SelectForAmount: "greedy largest-first for fewer inputs").              *)
IsFewestInputs(value, free, ops, amount) ==
  /\ ops \subseteq free
  /\ Total(value, ops) >= amount
  /\ \A other \in SUBSET free :
       Total(value, other) >= amount => Cardinality(ops) <= Cardinality(other)
=============================================================================
