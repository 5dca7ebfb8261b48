---------------------------- MODULE MCRegistrar ----------------------------
(* Three repositories; the first of the list cannot be reached. *)
EXTENDS Registrar

ListOrder == <<"ra", "rb", "rc">>
=============================================================================
