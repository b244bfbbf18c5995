------------------------------ MODULE MCNames -------------------------------
(***************************************************************************)
(* Two names, one of them a name the parser takes for a typedef from the   *)
(* start, as it does size_t.                                               *)
(***************************************************************************)
EXTENDS Names

MCBuiltins == <<"size_t">>
=============================================================================
