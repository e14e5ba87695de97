--------------------------- MODULE MCMutationSweep ---------------------------
(* Two mutations of one file and one of another. *)
EXTENDS MutationSweep

MCFileOf == <<"first", "first", "second">>
=============================================================================
