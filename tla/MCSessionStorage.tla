-------------------------- MODULE MCSessionStorage --------------------------
(* An instance of SessionStorage: two reports of two datasets each. *)
EXTENDS SessionStorage

CONSTANTS r1, r2, d1, d2
=============================================================================
