------------------------------ MODULE MCStores ------------------------------
(***************************************************************************)
(* Two ids, two spellings of one amount, and a text that is no number.     *)
(***************************************************************************)
EXTENDS Stores

MCCanonical(text) == IF text \in {"1", "1.0"} THEN "1.000000000000000000" ELSE text

MCIsNumeric(text) == text # ""
=============================================================================
