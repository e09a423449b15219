---------------------------- MODULE StoreResult ----------------------------
(***************************************************************************)
(* What a call of a Store method yields: the tables after it and a reply.  *)
(* A table is a function from the keys of its rows to the rows.  A reply   *)
(* is a status and a set of values; orders of lists and wordings of errors *)
(* are left out.                                                           *)
(***************************************************************************)
EXTENDS Integers, Sequences, FiniteSets, FiniteSetsExt, Functions, TLC

Ok(t) == [t |-> t, r |-> [s |-> "ok", v |-> {}]]

OkWith(t, values) == [t |-> t, r |-> [s |-> "ok", v |-> values]]

(* "missing" is sql.ErrNoRows, "duplicate" one of the ErrDuplicate values  *)
(* of package storage, "error" any other error.                            *)
Fail(t, status) == [t |-> t, r |-> [s |-> status, v |-> {}]]

Put(t, id, row) == [i \in DOMAIN t \cup {id} |-> IF i = id THEN row ELSE t[i]]

Remove(t, ids) == Restrict(t, DOMAIN t \ ids)

(* The row under a key, the rows that satisfy a filter.                    *)
Get(t, id) == IF id \in DOMAIN t THEN OkWith(t, {t[id]}) ELSE Fail(t, "missing")

List(t, Matches(_)) == OkWith(t, {<<id, t[id]>> : id \in {i \in DOMAIN t : Matches(t[i])}})

(* One row that satisfies a filter which at most one satisfies.            *)
GetWhere(t, Matches(_)) ==
  LET hits == {t[i] : i \in {j \in DOMAIN t : Matches(t[j])}}
  IN  IF hits = {} THEN Fail(t, "missing") ELSE OkWith(t, hits)
=============================================================================
