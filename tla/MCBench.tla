------------------------------- MODULE MCBench -------------------------------
(***************************************************************************)
(* Two workloads in one container and one in a container that is not       *)
(* there, of two queries each, twice; rake is run three times.             *)
(***************************************************************************)
EXTENDS Bench, TLC

CONSTANTS B, R, P, fuseki, missing

MCWorkloads == <<B, R, P>>
MCContainerOf == (B :> fuseki) @@ (R :> fuseki) @@ (P :> missing)
MCQueries == <<"00", "01">>
=============================================================================
