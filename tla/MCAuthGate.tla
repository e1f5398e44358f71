----------------------------- MODULE MCAuthGate -----------------------------
(***************************************************************************)
(* Small instances of AuthGate.  Two callers share one replay key, one     *)
(* caller pads its tenant_id, and each refusal of the handler has a        *)
(* request that meets it, built from an honest request by one change.      *)
(***************************************************************************)
EXTENDS AuthGate

MCTexts == {"", "acme", " acme", "r1", "r2"}
MCStrip == [t \in MCTexts \cup {"uuid"} |-> IF t = " acme" THEN "acme" ELSE t]

MCApiKeyItems == << [kind |-> "sha256", key |-> "key2"], [kind |-> "plain", key |-> "key1"] >>

Body(tenant, rid) == [kind |-> "ok", tenant |-> tenant, rid |-> rid]

\* What connector_client.py sends at second ts with the given secret.
Client(body, key, secret, ts, nonce) ==
    [path |-> "scan", body |-> body, apiKey |-> key, ts |-> ts, nonce |-> nonce, hdr |-> "complete",
     sig |-> [canonical |-> [path |-> "scan", body |-> body, tenant |-> MCStrip[body.tenant],
                             rid |-> MCStrip[body.rid], ts |-> ts, nonce |-> nonce],
              secret |-> secret]]

Early == Client(Body("acme", "r1"), "key1", "s", 1, "n1")
Late == Client(Body("acme", "r2"), "key1", "s", 2, "n1")          \* same replay key as Early
Padded == Client(Body(" acme", "r1"), "key2", "s", 2, "n2")
Third == Client(Body("acme", "r2"), "key2", "s", 2, "n3")
NoId == Client(Body("acme", ""), "key1", "s", 1, "n3")

MCHonest == {Early, Late, Padded}

\* Refused for its signature: of another body, not ASCII.
MCForged == {
    [Early EXCEPT !.body.rid = "r2"],
    [Early EXCEPT !.hdr = "sig_not_ascii"] }

\* Refused before a signature is looked at; the last one is admitted when none is required.
MCAltered == {
    [Early EXCEPT !.body.kind = "not_json"],
    [Early EXCEPT !.body.kind = "invalid"],
    [Early EXCEPT !.apiKey = "key3"],
    [Early EXCEPT !.apiKey = "none"],
    [Early EXCEPT !.apiKey = "cle_accent"],
    [Early EXCEPT !.path = "debug"],
    [Early EXCEPT !.hdr = "missing"] }

MCReplays == MCHonest \cup MCForged
MCRefusals == {Early, Padded, Third} \cup MCAltered   \* three replay keys for a cache of one
MCWithoutId == {NoId, Early}
=============================================================================
