------------------------------ MODULE Settings ------------------------------
(***************************************************************************)
(* How the connector gets its configuration (connector/config.py): the     *)
(* process reads the environment once, when it starts (lifespan), and      *)
(* keeps what it read until it ends, whatever the operator edits           *)
(* meanwhile.  A number it cannot read ends the start with ValueError.     *)
(***************************************************************************)
EXTENDS Integers, Sequences, FiniteSets

CONSTANTS
    Absent,       \* os.getenv() of a variable that is not set
    Texts,        \* the texts a variable can be set to
    StripLower,   \* str.strip().lower() on them, as a function
    IntOf,        \* int() on those it accepts, as a function
    Items,        \* text.split(",") with every item stripped, as a function
    Editable,     \* the variables the operator edits
    MaxEdits      \* bound: how often

Switches == {
    "CONNECTOR_REQUIRE_HMAC", "CONNECTOR_DEBUG_DOCUMENT_SCAN", "AUDIT_REDACTION",
    "OMEGA_REQUIRE_HMAC", "OMEGA_TLS_VERIFY"}

\* Every switch is on by default but the one of the debug endpoint.
SwitchDefault == [v \in Switches |-> v # "CONNECTOR_DEBUG_DOCUMENT_SCAN"]

NumberDefault == [
    CONNECTOR_PORT |-> 18080, NONCE_TTL_SEC |-> 600, MAX_CLOCK_SKEW_SEC |-> 300, OMEGA_TIMEOUT_MS |-> 15000,
    OMEGA_RETRY_COUNT |-> 2, OMEGA_CIRCUIT_BREAKER_FAILS |-> 5, OMEGA_CIRCUIT_BREAKER_RESET_SEC |-> 30]

Numbers == DOMAIN NumberDefault
Variables == Switches \cup Numbers \cup {"CONNECTOR_FAIL_MODE", "CONNECTOR_API_KEYS"}

ASSUME SettingsConstants ==
    /\ Absent \notin Texts
    /\ StripLower \in [Texts -> STRING]
    /\ IntOf \in [DOMAIN IntOf -> Int] /\ DOMAIN IntOf \subseteq Texts
    /\ \A t \in DOMAIN IntOf : StripLower[t] # ""
    /\ Items \in [Texts -> Seq(STRING)]
    /\ Editable \subseteq Variables
    /\ MaxEdits \in Nat

VARIABLES
    env,          \* variable -> its text, or Absent
    status,       \* the process: "down", "up", or "failed" to start
    settings,     \* {} or {the Settings of the running process}
    startedWith,  \* history: the environment the latest start saw
    edits         \* history: the edits so far

vars == <<env, status, settings, startedWith, edits>>

-----------------------------------------------------------------------------
(* load_settings                                                            *)

Truthy == {"1", "true", "yes", "on"}
FailModes == {"allow", "quarantine", "block"}

\* Mutant: a variable that is not set is read like a blank one.
AsBoolNoDefault(text, default) == text # Absent /\ StripLower[text] \in Truthy

\* A blank text is not in the set: it means off, not the default.
AsBool(text, default) == IF text = Absent THEN default ELSE StripLower[text] \in Truthy

Given(text) == text # Absent /\ StripLower[text] # ""

\* Mutant: what int() refuses is read as the default.
AsIntLenient(text, default) == IF text \in DOMAIN IntOf THEN {IntOf[text]} ELSE {default}

\* {the number}, or {} where int() raises.
AsInt(text, default) ==
    IF Given(text) THEN {IntOf[t] : t \in DOMAIN IntOf \cap {text}} ELSE {default}

\* Mutant: any text is taken as the fail mode.
FailModeVerbatim(text) == IF text = Absent THEN "quarantine" ELSE StripLower[text]

FailMode(text) ==
    IF text # Absent /\ StripLower[text] \in FailModes THEN StripLower[text] ELSE "quarantine"

\* Mutant: blank items are kept.
ApiKeysUnfiltered(text) == IF text = Absent THEN << >> ELSE Items[text]

Written(items) == {i \in 1 .. Len(items) : items[i] # ""}

\* The items that are not blank, in their order: the k-th is the one with k of them up to it.
NonBlank(items) ==
    [k \in 1 .. Cardinality(Written(items)) |->
        items[CHOOSE i \in Written(items) : Cardinality({j \in Written(items) : j <= i}) = k]]

ApiKeys(text) == IF text = Absent THEN << >> ELSE NonBlank(Items[text])

LoadSettings(e) == [
    switch |-> [v \in Switches |-> AsBool(e[v], SwitchDefault[v])],
    number |-> [v \in Numbers |-> CHOOSE n \in AsInt(e[v], NumberDefault[v]) : TRUE],
    fail_mode |-> FailMode(e["CONNECTOR_FAIL_MODE"]),
    api_keys |-> ApiKeys(e["CONNECTOR_API_KEYS"])]

Raises(e) == \E v \in Numbers : AsInt(e[v], NumberDefault[v]) = {}

-----------------------------------------------------------------------------
(* Actions                                                                  *)

\* The operator edits the environment of the next start.
Edit(v, text) ==
    /\ edits < MaxEdits
    /\ env[v] # text
    /\ env' = [env EXCEPT ![v] = text]
    /\ edits' = edits + 1
    /\ UNCHANGED <<status, settings, startedWith>>

\* lifespan: the settings are read and the runtime is built from them.
Start ==
    /\ status # "up"
    /\ ~Raises(env)
    /\ status' = "up"
    /\ settings' = {LoadSettings(env)}
    /\ startedWith' = env
    /\ UNCHANGED <<env, edits>>

\* ValueError leaves lifespan: the server ends without serving.
StartFails ==
    /\ status # "up"
    /\ Raises(env)
    /\ status' = "failed"
    /\ startedWith' = env
    /\ UNCHANGED <<env, settings, edits>>

Stop ==
    /\ status = "up"
    /\ status' = "down"
    /\ settings' = {}
    /\ UNCHANGED <<env, startedWith, edits>>

Init ==
    /\ env = [v \in Variables |-> Absent]
    /\ status = "down"
    /\ settings = {}
    /\ startedWith = env
    /\ edits = 0

Next ==
    \/ \E v \in Editable, text \in Texts \cup {Absent} : Edit(v, text)
    \/ Start \/ StartFails \/ Stop

Spec == Init /\ [][Next]_vars

-----------------------------------------------------------------------------
(* Properties                                                               *)

(* Whatever the environment, the settings of a running process are what the *)
(* other modules assume of their constants: switches that are on or off,    *)
(* whole numbers, and a fail mode that is a verdict.                        *)
TypeOK ==
    /\ env \in [Variables -> Texts \cup {Absent}]
    /\ status \in {"down", "up", "failed"}
    /\ settings # {} <=> status = "up"
    /\ \A s \in settings :
        /\ s.switch \in [Switches -> BOOLEAN]
        /\ s.number \in [Numbers -> Int]
        /\ s.fail_mode \in FailModes

\* Every default is the strict position of its switch.
Relaxed(s, v) == s.switch[v] # SwitchDefault[v]

(* Nothing is relaxed by omission: in a running process a check is off, the *)
(* debug endpoint on or the fail mode allow only because the environment it *)
(* started with says something for that variable, and only the exact word   *)
(* turns the debug endpoint on or lets everything through.                  *)
RelaxedOnlyIfSet ==
    \A s \in settings :
        /\ \A v \in Switches : Relaxed(s, v) => startedWith[v] # Absent
        /\ s.switch["CONNECTOR_DEBUG_DOCUMENT_SCAN"] =>
              StripLower[startedWith["CONNECTOR_DEBUG_DOCUMENT_SCAN"]] \in Truthy
        /\ s.fail_mode = "allow" =>
              /\ startedWith["CONNECTOR_FAIL_MODE"] # Absent
              /\ StripLower[startedWith["CONNECTOR_FAIL_MODE"]] = "allow"

(* A process that serves uses every number the operator wrote: a number     *)
(* that cannot be read stops the start, it is never replaced by a default,  *)
(* and an edit made while it runs is not mixed in.                          *)
NumbersAreAsWritten ==
    \A s \in settings : \A v \in Numbers :
        IF Given(startedWith[v])
        THEN startedWith[v] \in DOMAIN IntOf /\ s.number[v] = IntOf[startedWith[v]]
        ELSE s.number[v] = NumberDefault[v]

ItemsOf(text) == IF text = Absent THEN << >> ELSE Items[text]

\* Reading the items from left to right and passing over the blank ones gives the keys.
LeftToRight(keys, items) ==
    \E place \in [1 .. Len(keys) -> 1 .. Len(items)] :
        /\ \A j, k \in 1 .. Len(keys) : j < k => place[j] < place[k]
        /\ {place[k] : k \in 1 .. Len(keys)} = {i \in 1 .. Len(items) : items[i] # ""}
        /\ \A k \in 1 .. Len(keys) : keys[k] = items[place[k]]

(* The keys that open the connector are the items of CONNECTOR_API_KEYS,    *)
(* each as often as it is written and in the order it is written in (the    *)
(* loop of validate_api_key ends at the first that decides), whatever the   *)
(* stray commas and spaces, and a list of nothing opens it to nobody.       *)
KeysAreTheItems ==
    \A s \in settings : LeftToRight(s.api_keys, ItemsOf(startedWith["CONNECTOR_API_KEYS"]))
=============================================================================
