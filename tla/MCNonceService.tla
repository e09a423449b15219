--------------------------- MODULE MCNonceService ---------------------------
(* The instance of NonceService that is checked.  Its run checks liveness, *)
(* so callers are not declared symmetric.                                  *)
EXTENDS NonceService

CONSTANTS c1, c2, c3
=============================================================================
