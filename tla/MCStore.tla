------------------------------ MODULE MCStore ------------------------------
(* One coin for each of two scripts, which either tenant may watch. *)
EXTENDS Store

CONSTANTS s1, s2, c1, c2

OwnScript == [c \in Coins |-> IF c = c1 THEN s1 ELSE s2]
=============================================================================
