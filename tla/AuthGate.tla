------------------------------ MODULE AuthGate ------------------------------
(***************************************************************************)
(* The inbound gate of the connector: what happens to an HTTP request      *)
(* between the end of `await request.body()` and the call of Omega         *)
(* (connector/app.py), with AuthValidator (connector/auth.py) and          *)
(* NonceReplayCache (connector/security.py).                               *)
(*                                                                         *)
(* The event loop runs this stretch without an await, so one action is one *)
(* request handled from its first check to its refusal or admission.       *)
(*                                                                         *)
(* SHA-256 and HMAC are perfect: a digest is the value it was taken of,    *)
(* and a signature is the pair of the canonical fields and the secret.     *)
(* The body is part of the canonical fields, so the newline-joined string  *)
(* of the code and the record of this module separate the same requests.   *)
(***************************************************************************)
EXTENDS Integers, Sequences, FiniteSets

CONSTANTS
    Requests,            \* the HTTP requests that can arrive, at any time and any number of times
    Texts,               \* the texts a tenant_id or request_id can be, "" included
    Strip,               \* str.strip() on them, as a function
    GeneratedId,         \* str(uuid4()): never one of the texts a caller wrote
    ApiKeyItems,         \* CONNECTOR_API_KEYS, in order: [kind |-> "plain" | "sha256", key |-> k]
    NonAscii,            \* the API keys with a character outside ASCII
    NoKey,               \* X-API-Key absent or blank
    ConnectorHmacSecret, \* CONNECTOR_HMAC_SECRET
    NoSecret,            \* the empty secret
    HmacSettings,        \* the values of CONNECTOR_REQUIRE_HMAC the process may be started with
    DebugDocumentScan,   \* CONNECTOR_DEBUG_DOCUMENT_SCAN
    MaxClockSkewSec,     \* MAX_CLOCK_SKEW_SEC
    NonceTtlSec,         \* NONCE_TTL_SEC
    MaxEntries,          \* max_entries of the replay cache
    TicksPerSec,         \* resolution of time.time() in this model
    HandlingTicks,       \* bound: time between the two clock readings of one request
    MaxSetBack,          \* bound: the ticks by which the clock is ever set back, in total
    MaxNow               \* bound: the clock stops here

(* A request, reduced to what the gate tells apart.  `hdr` is the shape of  *)
(* the three signature headers.                                             *)
Bodies == [kind : {"not_json", "invalid", "ok"}, tenant : Texts, rid : Texts]
HeaderShapes == {"complete", "missing", "ts_not_int", "sig_not_ascii"}
IsRequest(r) ==
    /\ r.path \in {"scan", "debug"}
    /\ r.body \in Bodies
    /\ r.hdr \in HeaderShapes
    /\ r.ts \in Int

ASSUME GateConstants ==
    /\ \A r \in Requests : IsRequest(r)
    /\ Strip \in [Texts \cup {GeneratedId} -> Texts \cup {GeneratedId}]
    /\ DOMAIN ApiKeyItems \subseteq Nat \ {0}
    /\ HmacSettings \subseteq BOOLEAN
    /\ DebugDocumentScan \in BOOLEAN
    /\ MaxClockSkewSec \in Int        \* int() of the environment takes a negative number too
    /\ NonceTtlSec \in Int
    /\ MaxEntries \in Nat
    /\ TicksPerSec \in Nat \ {0}
    /\ HandlingTicks \in Nat
    /\ MaxSetBack \in Nat
    /\ MaxNow \in Nat

VARIABLES
    now,         \* time.time(), in ticks
    setBack,     \* history: the ticks by which the clock was set back so far
    require_hmac, \* AuthConfig.require_hmac, read when the process started
    entries,     \* NonceReplayCache._entries: replay key -> expiry
    answer,      \* {} or {the answer given by the latest step}
    admittedAt,  \* history: request -> the time of its latest admission
    replayed,    \* history: the requests admitted more than once
    forgotten    \* history: the replay keys dropped before they expired

gateVars == <<now, setBack, require_hmac, entries, answer, admittedAt, replayed, forgotten>>
history == <<setBack, admittedAt, replayed>>

-----------------------------------------------------------------------------
(* Request parsing and the API key                                          *)

Parsed(r) == r.body.kind = "ok"

\* The handler fills in a missing or empty request_id before it authenticates.
RequestId(r) == IF r.body.rid = "" THEN GeneratedId ELSE r.body.rid

(* The first configured item that ends the loop of validate_api_key: one    *)
(* that matches, or a plain one hmac.compare_digest refuses to compare.     *)
Raises(item, k) == item.kind = "plain" /\ (k \in NonAscii \/ item.key \in NonAscii)
Decides(i, k) == Raises(ApiKeyItems[i], k) \/ ApiKeyItems[i].key = k
FirstDeciding(i, k) == Decides(i, k) /\ \A j \in 1 .. (i - 1) : ~Decides(j, k)

KeyAccepted(k) ==
    /\ k # NoKey
    /\ \E i \in DOMAIN ApiKeyItems : FirstDeciding(i, k) /\ ~Raises(ApiKeyItems[i], k)
KeyRaises(k) ==
    /\ k # NoKey
    /\ \E i \in DOMAIN ApiKeyItems : FirstDeciding(i, k) /\ Raises(ApiKeyItems[i], k)

-----------------------------------------------------------------------------
(* Signature and timestamp                                                  *)

NowSec == now \div TicksPerSec        \* int(time.time())

\* Mutant: abs() is dropped, a timestamp from the future is never stale.
InWindowPastOnly(r) == NowSec <= r.ts + MaxClockSkewSec

InWindow(r) == r.ts - MaxClockSkewSec <= NowSec /\ NowSec <= r.ts + MaxClockSkewSec

Canonical(path, body, tenant, rid, ts, nonce) ==
    [path |-> path, body |-> body, tenant |-> Strip[tenant], rid |-> Strip[rid],
     ts |-> ts, nonce |-> nonce]

\* Mutant: the canonical string is built from the fields as they came.
ExpectedUnstripped(r) ==
    [canonical |-> [path |-> r.path, body |-> r.body, tenant |-> r.body.tenant,
                    rid |-> RequestId(r), ts |-> r.ts, nonce |-> r.nonce],
     secret |-> ConnectorHmacSecret]

Expected(r) ==
    [canonical |-> Canonical(r.path, r.body, r.body.tenant, RequestId(r), r.ts, r.nonce),
     secret |-> ConnectorHmacSecret]

(* The error code of the first check that fails, in the order of the code;  *)
(* "none" when the request reaches the replay cache or needs no signature.  *)
HmacRefusal(r) ==
    IF r.hdr \in {"missing", "ts_not_int"} THEN "invalid_signature"
    ELSE IF ~InWindow(r) THEN "stale_timestamp"
    ELSE IF ConnectorHmacSecret = NoSecret THEN "invalid_signature"
    ELSE IF r.hdr = "sig_not_ascii" THEN "internal_error"
    ELSE IF r.sig # Expected(r) THEN "invalid_signature"
    ELSE "none"

\* The checks before validate_hmac: debug switch, body, API key.
KeyRefusal(r) ==
    IF r.path = "debug" /\ ~DebugDocumentScan THEN "forbidden"
    ELSE IF ~Parsed(r) THEN "bad_request"
    ELSE IF KeyRaises(r.apiKey) THEN "internal_error"
    ELSE IF ~KeyAccepted(r.apiKey) THEN "unauthorized"
    ELSE "none"

Refusal(r) ==
    IF KeyRefusal(r) # "none" \/ ~require_hmac THEN KeyRefusal(r) ELSE HmacRefusal(r)

-----------------------------------------------------------------------------
(* The replay cache                                                         *)

ReplayKey(r) == <<r.body.tenant, r.apiKey, r.nonce>>

Keep(e, S) == [k \in S |-> e[k]]

\* Mutant: expired entries are never popped.
UnexpiredNoCleanup(t) == DOMAIN entries

\* What _cleanup leaves of the entries after the expired ones are popped.
Unexpired(t) == {k \in DOMAIN entries : entries[k] > t}

\* Mutant: room for one entry more than max_entries.
OverflowOffByOne(S) ==
    IF Cardinality(S) <= MaxEntries + 1 THEN 0 ELSE Cardinality(S) - MaxEntries - 1

Overflow(S) == IF Cardinality(S) <= MaxEntries THEN 0 ELSE Cardinality(S) - MaxEntries

\* Mutant: the entries that expire last go first.
EvictedLatest(S, E) ==
    /\ E \subseteq S
    /\ Cardinality(E) = Overflow(S)
    /\ \A x \in E, y \in S \ E : entries[x] >= entries[y]

(* sorted_items[:overflow]: the entries that expire first.  Entries with    *)
(* equal expiry are in arrival order in the code; any of them may go here.  *)
Evicted(S, E) ==
    /\ E \subseteq S
    /\ Cardinality(E) = Overflow(S)
    /\ \A x \in E, y \in S \ E : entries[x] <= entries[y]

Expiry(t) == t + NonceTtlSec * TicksPerSec

-----------------------------------------------------------------------------
(* Actions.  validate_hmac reads the clock for the timestamp check and      *)
(* check_and_mark reads it again for the cache: t is the second reading.    *)

SecondReading == {t \in now .. (now + HandlingTicks) : t <= MaxNow}

Reply(r, code) == answer' = {[req |-> r, code |-> code]}

RecordAdmission(r, t) ==
    /\ admittedAt' = [q \in DOMAIN admittedAt \cup {r} |-> IF q = r THEN t ELSE admittedAt[q]]
    /\ replayed' = IF r \in DOMAIN admittedAt THEN replayed \cup {r} ELSE replayed

\* Mutant: the nonce is marked before the signature is verified.
RefuseMarking(r) ==
    /\ Refusal(r) # "none"
    /\ Reply(r, Refusal(r))
    /\ entries' = [k \in DOMAIN entries \cup {ReplayKey(r)} |->
                      IF k \in DOMAIN entries THEN entries[k] ELSE Expiry(now)]
    /\ UNCHANGED <<now, require_hmac, forgotten, history>>

\* Every early exit of the handler before the replay cache is consulted.
Refuse(r) ==
    /\ Refusal(r) # "none"
    /\ Reply(r, Refusal(r))
    /\ UNCHANGED <<now, require_hmac, entries, forgotten, history>>

\* validate_hmac returns at once when signatures are not required.
AdmitUnsigned(r) ==
    /\ Refusal(r) = "none"
    /\ ~require_hmac
    /\ Reply(r, "admitted")
    /\ RecordAdmission(r, now)
    /\ UNCHANGED <<now, setBack, require_hmac, entries, forgotten>>

\* check_and_mark returns False: the key is still there after _cleanup.
RejectReplay(r) ==
    /\ Refusal(r) = "none"
    /\ require_hmac
    /\ \E t \in SecondReading : \E E \in SUBSET Unexpired(t) :
        /\ Evicted(Unexpired(t), E)
        /\ ReplayKey(r) \in Unexpired(t) \ E
        /\ entries' = Keep(entries, Unexpired(t) \ E)
        /\ forgotten' = forgotten \cup E
        /\ Reply(r, "replay_detected")
        /\ now' = t
    /\ UNCHANGED <<require_hmac, history>>

\* Mutant: the replay key is looked up, the bare nonce is marked.
AdmitSignedMarkingNonce(r) ==
    /\ Refusal(r) = "none"
    /\ require_hmac
    /\ \E t \in SecondReading : \E E \in SUBSET Unexpired(t) :
        /\ Evicted(Unexpired(t), E)
        /\ ReplayKey(r) \notin Unexpired(t) \ E
        /\ entries' = [k \in (Unexpired(t) \ E) \cup {<<r.nonce>>} |->
                          IF k = <<r.nonce>> THEN Expiry(t) ELSE entries[k]]
        /\ forgotten' = forgotten \cup E
        /\ Reply(r, "admitted")
        /\ RecordAdmission(r, t)
        /\ now' = t
    /\ UNCHANGED <<setBack, require_hmac>>

\* check_and_mark returns True: the key is marked and the request goes on to Omega.
AdmitSigned(r) ==
    /\ Refusal(r) = "none"
    /\ require_hmac
    /\ \E t \in SecondReading : \E E \in SUBSET Unexpired(t) :
        /\ Evicted(Unexpired(t), E)
        /\ ReplayKey(r) \notin Unexpired(t) \ E
        /\ entries' = [k \in (Unexpired(t) \ E) \cup {ReplayKey(r)} |->
                          IF k = ReplayKey(r) THEN Expiry(t) ELSE entries[k]]
        /\ forgotten' = forgotten \cup E
        /\ Reply(r, "admitted")
        /\ RecordAdmission(r, t)
        /\ now' = t
    /\ UNCHANGED <<setBack, require_hmac>>

\* A restart of the process: lifespan reads the settings and builds a new, empty cache.
Restart ==
    /\ require_hmac' \in HmacSettings
    /\ entries' = Keep(entries, {})
    /\ forgotten' = forgotten \cup Unexpired(now)
    /\ answer' = {}
    /\ UNCHANGED <<now, history>>

Tick ==
    /\ now < MaxNow
    /\ now' = now + 1
    /\ answer' = {}
    /\ UNCHANGED <<require_hmac, entries, forgotten, history>>

(* An adjustment of the host's clock: time.time() is not monotonic.  It     *)
(* never falls between the two readings of one request.                     *)
SetBack ==
    /\ \E d \in 1 .. (MaxSetBack - setBack) :
        /\ d <= now
        /\ now' = now - d
        /\ setBack' = setBack + d
    /\ answer' = {}
    /\ UNCHANGED <<require_hmac, entries, forgotten, admittedAt, replayed>>

Init ==
    /\ now = 0
    /\ setBack = 0
    /\ require_hmac \in HmacSettings
    /\ entries = [k \in {} |-> 0]
    /\ answer = {}
    /\ admittedAt = [r \in {} |-> 0]
    /\ replayed = {}
    /\ forgotten = {}

Handle(r) == Refuse(r) \/ AdmitUnsigned(r) \/ RejectReplay(r) \/ AdmitSigned(r)

Next == (\E r \in Requests : Handle(r)) \/ Restart \/ Tick \/ SetBack

Spec == Init /\ [][Next]_gateVars

-----------------------------------------------------------------------------
(* The caller: SGraphOmegaConnectorClient                                   *)

\* _sign_headers with the secret of the connector: the request_id it signs is "" when absent.
SignHeaders(r) ==
    [canonical |-> Canonical("scan", r.body, r.body.tenant, r.body.rid, r.ts, r.nonce),
     secret |-> ConnectorHmacSecret]

SignedByClient(r) ==
    /\ r.path = "scan"
    /\ Parsed(r)
    /\ KeyAccepted(r.apiKey)
    /\ r.hdr = "complete"
    /\ r.sig = SignHeaders(r)

-----------------------------------------------------------------------------
(* Properties                                                               *)

ErrorCodes == {"forbidden", "bad_request", "internal_error", "unauthorized",
               "invalid_signature", "stale_timestamp", "replay_detected"}

ReplayKeys == {ReplayKey(r) : r \in Requests}

(* The clock stays within its bound, the cache maps replay keys to times,   *)
(* and every answer is an error code of connector/errors.py's envelope or   *)
(* "admitted".                                                              *)
TypeOK ==
    /\ now \in 0 .. MaxNow
    /\ setBack \in 0 .. MaxSetBack
    /\ require_hmac \in HmacSettings
    /\ DOMAIN entries \subseteq ReplayKeys
    /\ entries \in [DOMAIN entries -> Int]
    /\ \A a \in answer : a.req \in Requests /\ a.code \in ErrorCodes \cup {"admitted"}
    /\ DOMAIN admittedAt \subseteq Requests
    /\ admittedAt \in [DOMAIN admittedAt -> Nat]
    /\ replayed \subseteq DOMAIN admittedAt
    /\ forgotten \subseteq ReplayKeys

(* The configuration under which the cache outlives the timestamp window:   *)
(* the window is 2 * skew + 1 seconds long, because int() truncates the     *)
(* clock; the entry must survive the second reading, and a clock that is    *)
(* set back must not reopen the window of a key that has expired.           *)
RetentionCoversWindow ==
    \A slack \in {HandlingTicks, MaxSetBack} :
        NonceTtlSec * TicksPerSec >= (2 * MaxClockSkewSec + 1) * TicksPerSec + slack

(* No request is admitted twice unless its replay key was dropped before it *)
(* expired (by the overflow eviction or a restart): whoever repeats it gets *)
(* 409 replay_detected while the key lives and 401 stale_timestamp after,   *)
(* even when the clock is set back in between.                              *)
ReplayOnlyIfForgotten == \A r \in replayed : ReplayKey(r) \in forgotten

(* A 409 is never a false alarm: some request with this replay key was      *)
(* admitted less than NONCE_TTL_SEC before.                                 *)
NoFalseReplay ==
    \A a \in answer : a.code = "replay_detected" =>
        \E q \in DOMAIN admittedAt :
            /\ ReplayKey(q) = ReplayKey(a.req)
            /\ now < admittedAt[q] + NonceTtlSec * TicksPerSec

(* Only an admitted request can use up a nonce: one refused for its body,   *)
(* key, timestamp or signature leaves no trace in the cache, so nobody      *)
(* without the secret can make another caller's request a replay.           *)
NonceOnlyByAdmitted ==
    DOMAIN entries \subseteq {ReplayKey(r) : r \in DOMAIN admittedAt}

(* _cleanup runs before the insertion, so the cache holds one entry more    *)
(* than max_entries at most, whatever the traffic.                          *)
CacheBounded == Cardinality(DOMAIN entries) <= MaxEntries + 1

(* What one step may do to a key that has not expired.                      *)
GoForRoomOnly ==
    \A a \in answer' : \A k \in DOMAIN entries \ DOMAIN entries' :
        \/ entries[k] <= now'
        \/ /\ Cardinality(DOMAIN entries') >= MaxEntries
           /\ \A j \in DOMAIN entries' \ {ReplayKey(a.req)} : entries[k] <= entries'[j]

(* What traffic can do to the nonces of others: while a request is handled, *)
(* a key that has not expired is dropped only if the cache is still full    *)
(* afterwards, and only if no other key that stays would expire sooner.     *)
LiveKeysGoForRoomOnly == [][GoForRoomOnly]_gateVars

(* Client and server agree on the canonical string: a request signed by     *)
(* connector_client.py with a request_id in its body is only ever admitted, *)
(* late or repeated, whatever the whitespace of its fields.                 *)
SignedRequestUnderstood ==
    \A a \in answer : SignedByClient(a.req) /\ a.req.body.rid # "" =>
        a.code \in {"admitted", "stale_timestamp", "replay_detected"}

(* docs/CONTRACT.md on the canonical string: "`request_id` (empty string if *)
(* absent in body)".  The same promise for a request without request_id.    *)
SignedWithoutIdUnderstood ==
    \A a \in answer : SignedByClient(a.req) /\ a.req.body.rid = "" =>
        a.code \in {"admitted", "stale_timestamp", "replay_detected"}

-----------------------------------------------------------------------------
(* The strengthenings the proofs use                                        *)

\* The first tick at which the timestamp of r is stale.
WindowEnd(r) == TicksPerSec * (r.ts + MaxClockSkewSec + 1)

(* The ticks by which the clock may still be set back.                      *)
Reserve == MaxSetBack - setBack

(* Every admitted request is out of its window, even if the clock is set    *)
(* back again, or has a cache entry that outlives the window by the time    *)
(* one request takes and by that reserve, or is forgotten.                  *)
KeyOutlivesWindow ==
    \A r \in DOMAIN admittedAt :
        \/ ReplayKey(r) \in forgotten
        \/ WindowEnd(r) + Reserve <= now
        \/ /\ ReplayKey(r) \in DOMAIN entries
           /\ WindowEnd(r) + HandlingTicks <= entries[ReplayKey(r)]
           /\ WindowEnd(r) + Reserve <= entries[ReplayKey(r)]

(* Every cache entry stems from an admission, NONCE_TTL_SEC before it       *)
(* expires, and there is none while signatures are not required.            *)
EntryFromAdmission ==
    /\ \A k \in DOMAIN entries : \E r \in DOMAIN admittedAt :
        ReplayKey(r) = k /\ entries[k] <= admittedAt[r] + NonceTtlSec * TicksPerSec
    /\ ~require_hmac => DOMAIN entries = {}
=============================================================================
