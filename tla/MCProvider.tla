------------------------------ MODULE MCProvider ------------------------------
(***************************************************************************)
(* ProviderClient by itself: two attempts, a limit of two seconds, and a   *)
(* provider that asks for pauses of none, one and ten seconds.             *)
(***************************************************************************)
EXTENDS ProviderClient

===============================================================================
