----------------------------- MODULE SmokePath -----------------------------
(***************************************************************************)
(* The end-to-end check of an installation (scripts/e2e_sgraph_real_path   *)
(* and scripts/e2e_sgraph_upstream_connector_path, which share their       *)
(* steps): every scenario is encrypted, sent through an SGraph transfer,   *)
(* read back, decrypted and scanned, and the report is saved only if no    *)
(* scenario failed.  SGraph may fail at any request, and may hand out      *)
(* another transfer's bytes.                                               *)
(***************************************************************************)
EXTENDS SgMeta, FiniteSets

CONSTANTS
    Scenarios,         \* the scenarios, in order: [meta |-> the JSON of the filename, content |-> the file]
    StrictNoFallback,  \* --strict-no-fallback, the default
    OmegaReasons,      \* the reasons Omega may give for a verdict of its own
    StartsWithOmega    \* the reasons r with r.startswith("omega_")

\* The reasons of a fallback, one per kind of failure of Omega (Connector!ReasonOf).
FallbackReasons == {"omega_timeout", "omega_unavailable", "omega_rejected_4xx", "invalid_response"}

SmokeConstants ==
    /\ SgMetaConstants
    /\ Scenarios \in Seq([meta : Seq(Bytes), content : Seq(Bytes)]) /\ Len(Scenarios) > 0
    /\ \A i \in 1 .. Len(Scenarios) : Scenarios[i].meta \in IsJson /\ Packs(Scenarios[i].meta)
    /\ StrictNoFallback \in BOOLEAN
    /\ StartsWithOmega \cap FallbackReasons = FallbackReasons \ {"invalid_response"}

VARIABLES
    idx,        \* the scenario at work
    stage,      \* the request the script makes next, or how it ended
    transfer,   \* {} or {transfer_id}
    fetched,    \* {} or {the encrypted payload downloaded}
    store,      \* SGraph: transfer_id -> [payload, complete], a partial function
    results     \* results, one entry per scenario done

vars == <<idx, stage, transfer, fetched, store, results>>

Requests == {"create", "upload", "complete", "download", "scan"}

\* AES-GCM under a fresh key: only that key opens it, and only unchanged.
Encrypted(i) == [key |-> i, plain |-> Package(Scenarios[i].meta, Scenarios[i].content)]
Noise == [key |-> 0, plain |-> << >>]

\* Mutant: the tag is not verified.
DecryptsUnverified(i, payload) == payload.key # 0

Decrypts(i, payload) == payload.key = i

\* Not 200, no answer, not JSON, or no transfer_id in it: RuntimeError, or urllib's own error.
RequestFails ==
    /\ stage \in Requests
    /\ stage' = "raised"
    /\ UNCHANGED <<idx, transfer, fetched, store, results>>

\* POST /api/transfers/create
Create ==
    /\ stage = "create"
    /\ LET id == Cardinality(DOMAIN store) + 1 IN
         /\ transfer' = {id}
         /\ store' = [t \in DOMAIN store \cup {id} |->
                        IF t = id THEN [payload |-> Noise, complete |-> FALSE] ELSE store[t]]
    /\ stage' = "upload"
    /\ UNCHANGED <<idx, fetched, results>>

\* POST /api/transfers/upload/{transfer_id}
Upload ==
    /\ stage = "upload"
    /\ \E t \in transfer : store' = [store EXCEPT ![t].payload = Encrypted(idx)]
    /\ stage' = "complete"
    /\ UNCHANGED <<idx, transfer, fetched, results>>

\* POST /api/transfers/complete/{transfer_id}
Complete ==
    /\ stage = "complete"
    /\ \E t \in transfer : store' = [store EXCEPT ![t].complete = TRUE]
    /\ stage' = "download"
    /\ UNCHANGED <<idx, transfer, fetched, results>>

\* GET /api/transfers/download/{transfer_id}: these bytes, or others.
Download ==
    /\ stage = "download"
    /\ fetched' \in {{p} : p \in {store[t].payload : t \in {u \in DOMAIN store : store[u].complete}} \cup {Noise}}
    /\ stage' = "decrypt"
    /\ UNCHANGED <<idx, transfer, store, results>>

\* AESGCM.decrypt raises InvalidTag, or what it opens goes to the scan.
Decrypt ==
    /\ stage = "decrypt"
    /\ stage' = IF \A p \in fetched : Decrypts(idx, p) THEN "scan" ELSE "raised"
    /\ UNCHANGED <<idx, transfer, fetched, store, results>>

\* Mutant: only outages of Omega are looked for.
DetectedOutagesOnly(reasons) == reasons \cap {"omega_timeout", "omega_unavailable"}

\* fallback_reasons
Detected(reasons) == reasons \cap (StartsWithOmega \cup {"omega_timeout", "omega_unavailable"})

Answers ==
    [fallback : {TRUE}, reasons : {{r} : r \in FallbackReasons}]
      \cup [fallback : {FALSE}, reasons : SUBSET OmegaReasons]

\* The next scenario, or the report is written after the last one.
Advance ==
    IF idx < Len(Scenarios) THEN idx' = idx + 1 /\ stage' = "create"
    ELSE UNCHANGED idx /\ stage' = "saved"

\* The scan answers 200 and the answer is accepted.
Scan(a) ==
    /\ stage = "scan"
    /\ ~(StrictNoFallback /\ Detected(a.reasons) # {})
    /\ results' = Append(results, [files |-> {Extract(p.plain) : p \in fetched}, answer |-> a])
    /\ Advance
    /\ transfer' = {}
    /\ fetched' = {}
    /\ UNCHANGED store

\* The scan answers 200 with a fallback reason: RuntimeError.
FallbackDetected(a) ==
    /\ stage = "scan"
    /\ StrictNoFallback /\ Detected(a.reasons) # {}
    /\ stage' = "raised"
    /\ UNCHANGED <<idx, transfer, fetched, store, results>>

Init ==
    /\ idx = 1
    /\ stage = "create"
    /\ transfer = {}
    /\ fetched = {}
    /\ store = << >>
    /\ results = << >>

Next ==
    \/ RequestFails \/ Create \/ Upload \/ Complete \/ Download \/ Decrypt
    \/ \E a \in Answers : Scan(a) \/ FallbackDetected(a)

Spec == Init /\ [][Next]_vars

-----------------------------------------------------------------------------
(* Properties                                                               *)

(* A saved report tells of every scenario, in order, and what was scanned   *)
(* is the scenario's own file under its own name, whatever bytes SGraph     *)
(* handed out and whatever the file looks like: an empty one, one that      *)
(* begins like a container, one that follows metadata of any length.        *)
ReportIsOfTheScenarios ==
    stage = "saved" =>
        /\ Len(results) = Len(Scenarios)
        /\ \A i \in 1 .. Len(results) :
              results[i].files = {[meta |-> {Scenarios[i].meta}, content |-> Scenarios[i].content]}

(* A strict run that is saved saw no outage, timeout or rejection of Omega. *)
StrictReportSawNoOutage ==
    StrictNoFallback /\ stage = "saved" =>
        \A i \in 1 .. Len(results) : results[i].answer.fallback => results[i].answer.reasons = {"invalid_response"}

(* A strict run that is saved holds no fallback of any kind.                *)
StrictReportHasNoFallback ==
    StrictNoFallback /\ stage = "saved" => \A i \in 1 .. Len(results) : ~results[i].answer.fallback
=============================================================================
