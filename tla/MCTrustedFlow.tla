--------------------------- MODULE MCTrustedFlow ---------------------------
(***************************************************************************)
(* Small instances of TrustedFlow: the constants are in the configurations.*)
(***************************************************************************)
EXTENDS TrustedFlow
=============================================================================
