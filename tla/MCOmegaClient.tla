--------------------------- MODULE MCOmegaClient ---------------------------
(***************************************************************************)
(* A small instance of OmegaClient: enough calls to open the breaker and   *)
(* to have another one waiting meanwhile, each with a retry.               *)
(***************************************************************************)
EXTENDS OmegaClient, TLC

MCSymmetry == Permutations(Calls)
=============================================================================
