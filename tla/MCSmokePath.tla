---------------------------- MODULE MCSmokePath ----------------------------
(***************************************************************************)
(* A small instance of SmokePath with an Omega whose reasons may look like *)
(* those of a fallback.                                                    *)
(***************************************************************************)
EXTENDS SmokePath

MCMagic == <<1, 0>>
MCIsJson == {<<1>>, <<0, 1>>, <<0, 1, 1>>}
MCOneScenario == << [meta |-> <<0, 1>>, content |-> <<1>>] >>
MCOmegaReasons == {"policy", "omega_policy"}
MCStartsWithOmega == {"omega_policy", "omega_timeout", "omega_unavailable", "omega_rejected_4xx"}
=============================================================================
