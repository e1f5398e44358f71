---------------------------- MODULE MCConnector ----------------------------
(***************************************************************************)
(* A small instance of Connector: two honest callers that may repeat       *)
(* themselves, in time or too late, and an Omega that answers with every   *)
(* kind of body the handler tells apart.                                   *)
(***************************************************************************)
EXTENDS Connector

MCTexts == {"", "acme", "r1"}
MCStrip == [t \in MCTexts \cup {"uuid"} |-> t]
MCApiKeyItems == << [kind |-> "plain", key |-> "key1"] >>
MCVerdictText == [v \in {"allow", " ALLOW", "block", "odd"} |-> IF v = " ALLOW" THEN "allow" ELSE v]

MCBody == [kind |-> "ok", tenant |-> "acme", rid |-> "r1"]

Signed(secret, nonce, ts) ==
    [path |-> "scan", body |-> MCBody, apiKey |-> "key1", ts |-> ts, nonce |-> nonce, hdr |-> "complete",
     sig |-> [canonical |-> [path |-> "scan", body |-> MCBody, tenant |-> "acme", rid |-> "r1",
                             ts |-> ts, nonce |-> nonce],
              secret |-> secret]]

MCRequests == {Signed("s", "n1", 0), Signed("s", "n2", 1)}

Answer(readable, verdict, risk) ==
    [readable |-> readable, verdict |-> verdict, risk |-> risk, rid |-> "", tenant |-> "acme"]

MCOkBodies == {Answer(TRUE, " ALLOW", 101), Answer(TRUE, "odd", 0), Answer(FALSE, "allow", 0)}
=============================================================================
