----------------------------- MODULE MCScripts -----------------------------
(***************************************************************************)
(* A small instance of Scripts.  Bytes are bits, so that metadata of       *)
(* fifteen of them fill the four of the length field; one file is empty,   *)
(* one begins like a container whose metadata do not fit, and one is a     *)
(* container itself.                                                       *)
(***************************************************************************)
EXTENDS Scripts

MCMagic == <<1, 0>>
MCFull == [i \in 1 .. 15 |-> i % 2]
MCIsJson == {<<1>>, <<0, 1>>, MCFull}
MCScenarios == <<
    [meta |-> <<1>>, content |-> << >>],
    [meta |-> <<0, 1>>, content |-> <<1, 0, 1, 1, 0, 0, 1>>],
    [meta |-> MCFull, content |-> <<1, 0, 0, 0, 0, 1, 1, 0>>] >>
MCOmegaReasons == {"policy", "omega_policy"}
MCStartsWithOmega == {"omega_policy", "omega_timeout", "omega_unavailable", "omega_rejected_4xx"}

MCServices == <<"connector", "omega", "sgraph_docs">>
MCExpected == <<"allow", "quarantine", "block">>
MCSampleCounts == {-1, 3}
=============================================================================
