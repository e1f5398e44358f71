-------------------------- MODULE SettingsProofs --------------------------
(***************************************************************************)
(* Proofs about Settings, for every set of texts and every function int()  *)
(* and str.lower() may be.  The one fact behind them is Loaded: a process  *)
(* that serves holds what load_settings makes of the environment it was    *)
(* started with, and of no later one.                                      *)
(***************************************************************************)
EXTENDS Settings, FiniteSetTheorems, SequenceTheorems, TLAPS

Loaded ==
    /\ startedWith \in [Variables -> Texts \cup {Absent}]
    /\ \A s \in settings : s = LoadSettings(startedWith) /\ ~Raises(startedWith)

EnvOK ==
    /\ env \in [Variables -> Texts \cup {Absent}]
    /\ status \in {"down", "up", "failed"}
    /\ settings # {} <=> status = "up"

IInv == EnvOK /\ Loaded

-----------------------------------------------------------------------------
(* What the conversions of load_settings return                             *)

(* _as_bool returns a Boolean for every text, set or not.                   *)
LEMMA AsBoolType ==
    ASSUME NEW text \in Texts \cup {Absent}, NEW default \in BOOLEAN
    PROVE  AsBool(text, default) \in BOOLEAN
<1>1. CASE text = Absent
  BY <1>1 DEF AsBool
<1>2. CASE text # Absent
  <2>1. AsBool(text, default) = (StripLower[text] \in Truthy)
    BY <1>2, Zenon DEF AsBool
  <2> QED
    BY <2>1
<1> QED
  BY <1>1, <1>2

(* _as_int returns a whole number where it does not raise.                  *)
LEMMA AsIntType ==
    ASSUME NEW text \in Texts \cup {Absent}, NEW default \in Int
    PROVE  AsInt(text, default) \subseteq Int
<1>1. \A t \in DOMAIN IntOf : IntOf[t] \in Int
  BY SettingsConstants
<1> QED
  BY <1>1 DEF AsInt

(* Where _as_int does not raise it returns the number written, or the       *)
(* default where nothing is.                                                *)
LEMMA AsIntValue ==
    ASSUME NEW text \in Texts \cup {Absent}, NEW default \in Int,
           NEW n \in AsInt(text, default)
    PROVE  IF Given(text) THEN text \in DOMAIN IntOf /\ n = IntOf[text] ELSE n = default
BY DEF AsInt

(* The fail mode is a verdict, and allow only if that word was written.     *)
LEMMA FailModeFacts ==
    ASSUME NEW text \in Texts \cup {Absent}
    PROVE  /\ FailMode(text) \in FailModes
           /\ FailMode(text) = "allow" => text # Absent /\ StripLower[text] = "allow"
BY DEF FailMode, FailModes

(* Each default has the type of its setting, and belongs to a variable.     *)
LEMMA Defaults ==
    /\ \A v \in Switches : SwitchDefault[v] \in BOOLEAN /\ v \in Variables
    /\ \A v \in Numbers : NumberDefault[v] \in Int /\ v \in Variables
    /\ "CONNECTOR_FAIL_MODE" \in Variables /\ "CONNECTOR_API_KEYS" \in Variables
    /\ "CONNECTOR_DEBUG_DOCUMENT_SCAN" \in Switches
    /\ ~SwitchDefault["CONNECTOR_DEBUG_DOCUMENT_SCAN"]
<1>1. Numbers = {"CONNECTOR_PORT", "NONCE_TTL_SEC", "MAX_CLOCK_SKEW_SEC", "OMEGA_TIMEOUT_MS", "OMEGA_RETRY_COUNT",
                 "OMEGA_CIRCUIT_BREAKER_FAILS", "OMEGA_CIRCUIT_BREAKER_RESET_SEC"}
  BY DEF Numbers, NumberDefault
<1>2. \A v \in Switches : SwitchDefault[v] = (v # "CONNECTOR_DEBUG_DOCUMENT_SCAN")
  BY DEF SwitchDefault
<1>3. \A v \in Switches : SwitchDefault[v] \in BOOLEAN
  BY <1>2
<1>4. \A v \in Numbers : NumberDefault[v] \in Int
  BY <1>1 DEF NumberDefault
<1>5. ~SwitchDefault["CONNECTOR_DEBUG_DOCUMENT_SCAN"]
  BY DEF SwitchDefault, Switches
<1> QED
  BY <1>3, <1>4, <1>5 DEF Variables, Switches

(* What a start stores for a number is the value _as_int returns.           *)
LEMMA NumberLoaded ==
    ASSUME NEW e \in [Variables -> Texts \cup {Absent}], ~Raises(e), NEW v \in Numbers
    PROVE  LoadSettings(e).number[v] \in AsInt(e[v], NumberDefault[v])
<1>1. AsInt(e[v], NumberDefault[v]) # {}
  BY DEF Raises
<1>2. LoadSettings(e).number[v] = CHOOSE n \in AsInt(e[v], NumberDefault[v]) : TRUE
  BY DEF LoadSettings
<1> QED
  BY <1>1, <1>2

(* Counting the places up to each of a set of places numbers them: every    *)
(* number up to how many there are is that of one, in the order of places.  *)
LEMMA PlacesNumbered ==
    ASSUME NEW n \in Nat, NEW P \in SUBSET (1 .. n)
    PROVE  /\ Cardinality(P) \in Nat
           /\ \A i \in P : Cardinality({j \in P : j <= i}) \in 1 .. Cardinality(P)
           /\ \A i, h \in P : i < h => Cardinality({j \in P : j <= i}) < Cardinality({j \in P : j <= h})
           /\ \A k \in 1 .. Cardinality(P) : \E i \in P : Cardinality({j \in P : j <= i}) = k
<1> DEFINE upto(i) == {j \in P : j <= i}
           rank == [i \in P |-> Cardinality(upto(i))]
           m == Cardinality(P)
<1>1. IsFiniteSet(P) /\ m \in Nat
  <2>1. IsFiniteSet(1 .. n)
    BY FS_Interval
  <2>2. IsFiniteSet(P)
    BY <2>1, FS_Subset
  <2> QED
    BY <2>2, FS_CardinalityType
<1>2. ASSUME NEW i \in P
      PROVE  IsFiniteSet(upto(i)) /\ Cardinality(upto(i)) \in 1 .. m
  <2>1. upto(i) \in SUBSET P /\ i \in upto(i)
    BY <1>2
  <2> HIDE DEF upto
  <2>2. IsFiniteSet(upto(i)) /\ Cardinality(upto(i)) <= m
    BY <1>1, <2>1, FS_Subset
  <2>3. Cardinality(upto(i)) \in Nat /\ Cardinality(upto(i)) # 0
    BY <2>1, <2>2, FS_CardinalityType, FS_EmptySet
  <2> HIDE DEF m
  <2> QED
    BY <1>1, <2>2, <2>3
<1>3. ASSUME NEW i \in P, NEW h \in P, i < h PROVE Cardinality(upto(i)) < Cardinality(upto(h))
  <2>0. i \in Nat /\ h \in Nat /\ \A j \in P : j \in Nat
    OBVIOUS
  <2>1. upto(i) \subseteq upto(h)
    <3>1. ASSUME NEW j \in upto(i) PROVE j \in upto(h)
      <4>1. j \in P /\ j <= i
        OBVIOUS
      <4>2. j <= h
        BY <1>3, <2>0, <4>1
      <4> QED
        BY <4>1, <4>2
    <3> QED
      BY <3>1
  <2>2. h \in upto(h) /\ h \notin upto(i)
    BY <1>3, <2>0
  <2>3. IsFiniteSet(upto(h)) /\ Cardinality(upto(h)) \in Nat /\ Cardinality(upto(i)) \in Nat
    BY <1>1, <1>2
  <2> HIDE DEF upto
  <2>4. Cardinality(upto(i)) <= Cardinality(upto(h)) /\ Cardinality(upto(i)) # Cardinality(upto(h))
    BY <2>1, <2>2, <2>3, FS_Subset
  <2> QED
    BY <2>3, <2>4
<1>4. ASSUME NEW i \in P, NEW h \in P, Cardinality(upto(i)) = Cardinality(upto(h)) PROVE i = h
  <2>1. i \in Nat /\ h \in Nat
    OBVIOUS
  <2>2. Cardinality(upto(i)) \in Nat /\ Cardinality(upto(h)) \in Nat
    BY <1>1, <1>2
  <2> HIDE DEF upto
  <2>3. ~(i < h) /\ ~(h < i)
    BY <1>3, <1>4, <2>2
  <2> QED
    BY <2>1, <2>3
<1>5. rank \in Injection(P, 1 .. m)
  <2> HIDE DEF upto, m
  <2> QED
    BY <1>2, <1>4 DEF Injection, IsInjective
<1>6. IsFiniteSet(1 .. m) /\ Cardinality(1 .. m) = m
  <2> HIDE DEF m
  <2> QED
    BY <1>1, FS_Interval
<1>7. rank \in Surjection(P, 1 .. m)
  <2> HIDE DEF rank
  <2> QED
    BY <1>5, <1>6, FS_Injection, Zenon DEF m
<1>8. \A k \in 1 .. m : \E i \in P : Cardinality(upto(i)) = k
  <2> HIDE DEF upto, m
  <2> QED
    BY <1>7 DEF Surjection
<1> QED
  BY <1>1, <1>2, <1>3, <1>8

(* The filter of load_settings keeps the items that are not blank, from     *)
(* left to right.                                                           *)
LEMMA NonBlankItems ==
    ASSUME NEW items \in Seq(STRING)
    PROVE  LeftToRight(NonBlank(items), items)
<1> DEFINE W == Written(items)
           up(i) == Cardinality({j \in W : j <= i})
           at(k) == CHOOSE i \in W : up(i) = k
<1>1. Len(items) \in Nat /\ DOMAIN items = 1 .. Len(items) /\ W \in SUBSET (1 .. Len(items))
  BY LenProperties DEF Written
<1>2. W = {i \in 1 .. Len(items) : items[i] # ""}
  BY DEF Written
<1> HIDE DEF W
<1>3. /\ Cardinality(W) \in Nat
      /\ \A i \in W : up(i) \in 1 .. Cardinality(W)
      /\ \A i, h \in W : i < h => up(i) < up(h)
      /\ \A k \in 1 .. Cardinality(W) : \E i \in W : up(i) = k
  BY <1>1, PlacesNumbered, Zenon
<1> HIDE DEF up
<1>4. \A k \in 1 .. Cardinality(W) : at(k) \in W /\ up(at(k)) = k
  BY <1>3, Zenon
<1>5. NonBlank(items) = [k \in 1 .. Cardinality(W) |-> items[at(k)]]
  BY Zenon DEF NonBlank, W, up
<1> HIDE DEF at
<1> DEFINE n == Cardinality(W)
           place == [k \in 1 .. n |-> at(k)]
<1>6. Len(NonBlank(items)) = n
  BY <1>3, <1>5
<1>7. \A i, h \in W : i \in Nat /\ h \in Nat /\ up(i) \in Nat /\ up(h) \in Nat
  BY <1>1, <1>3
<1>8. \A j, k \in 1 .. n : j < k => at(j) < at(k)
  <2> SUFFICES ASSUME NEW j \in 1 .. n, NEW k \in 1 .. n, j < k PROVE at(j) < at(k)
    OBVIOUS
  <2>1. at(j) \in W /\ at(k) \in W /\ up(at(j)) = j /\ up(at(k)) = k
    BY <1>4
  <2>2. ~(at(k) < at(j)) /\ at(k) # at(j)
    BY <1>3, <2>1
  <2> QED
    BY <1>7, <2>1, <2>2
<1>9. {at(k) : k \in 1 .. n} = W
  <2>1. ASSUME NEW i \in W PROVE i \in {at(k) : k \in 1 .. n}
    <3>1. up(i) \in 1 .. n /\ at(up(i)) \in W /\ up(at(up(i))) = up(i)
      BY <1>3, <1>4
    <3>2. ~(at(up(i)) < i) /\ ~(i < at(up(i)))
      BY <1>3, <1>7, <3>1
    <3>3. at(up(i)) = i
      BY <1>7, <3>1, <3>2
    <3> QED
      BY <3>1, <3>3, Zenon
  <2> QED
    BY <1>4, <2>1, Zenon
<1>10. \A k \in 1 .. n : place[k] = at(k)
  OBVIOUS
<1>11. place \in [1 .. n -> 1 .. Len(items)]
  BY <1>1, <1>4
<1>12. \A k \in 1 .. n : NonBlank(items)[k] = items[place[k]]
  BY <1>5, <1>10
<1> HIDE DEF place, n
<1>13. \A j, k \in 1 .. n : j < k => place[j] < place[k]
  BY <1>8, <1>10
<1>14. {place[k] : k \in 1 .. n} = {at(k) : k \in 1 .. n}
  BY <1>10, Zenon
<1>15. {place[k] : k \in 1 .. n} = {i \in 1 .. Len(items) : items[i] # ""}
  BY <1>2, <1>9, <1>14, Zenon
<1> QED
  BY <1>6, <1>11, <1>12, <1>13, <1>15, Zenon DEF LeftToRight

-----------------------------------------------------------------------------
(* The invariant                                                            *)

(* The invariant holds before the first start.                              *)
LEMMA InitInvariant == Init => IInv
BY DEF Init, IInv, EnvOK, Loaded

(* No edit, start, failed start or stop breaks it.                          *)
LEMMA NextInvariant == IInv /\ [Next]_vars => IInv'
<1> SUFFICES ASSUME IInv, [Next]_vars PROVE IInv'
  OBVIOUS
<1> USE DEF IInv, EnvOK, Loaded
<1>1. ASSUME NEW v \in Editable, NEW text \in Texts \cup {Absent}, Edit(v, text) PROVE IInv'
  BY <1>1 DEF Edit
<1>2. CASE Start
  BY <1>2 DEF Start
<1>3. CASE StartFails
  <2>1. settings = {}
    BY <1>3 DEF StartFails
  <2> QED
    BY <1>3, <2>1 DEF StartFails
<1>4. CASE Stop
  BY <1>4 DEF Stop
<1>5. CASE UNCHANGED vars
  BY <1>5 DEF vars
<1> QED
  BY <1>1, <1>2, <1>3, <1>4, <1>5 DEF Next

(* A process that serves holds what it read when it started.                *)
THEOREM Invariance == Spec => []IInv
BY InitInvariant, NextInvariant, PTL DEF Spec

-----------------------------------------------------------------------------
(* Theorems                                                                 *)

(* Every environment load_settings accepts gives settings of the types the  *)
(* other modules assume of their constants.                                 *)
THEOREM TypeCorrect == Spec => []TypeOK
<1>1. IInv => TypeOK
  <2> SUFFICES ASSUME IInv PROVE TypeOK
    OBVIOUS
  <2>1. ASSUME NEW s \in settings
        PROVE  /\ s.switch \in [Switches -> BOOLEAN]
               /\ s.number \in [Numbers -> Int]
               /\ s.fail_mode \in FailModes
    <3>1. s = LoadSettings(startedWith) /\ ~Raises(startedWith)
          /\ startedWith \in [Variables -> Texts \cup {Absent}]
      BY <2>1 DEF IInv, Loaded
    <3>2. s.switch = [v \in Switches |-> AsBool(startedWith[v], SwitchDefault[v])]
      BY <3>1 DEF LoadSettings
    <3>3. s.switch \in [Switches -> BOOLEAN]
      BY <3>1, <3>2, AsBoolType, Defaults
    <3>4. s.number = [v \in Numbers |-> CHOOSE n \in AsInt(startedWith[v], NumberDefault[v]) : TRUE]
      BY <3>1 DEF LoadSettings
    <3>5. \A v \in Numbers : s.number[v] \in Int
      BY <3>1, NumberLoaded, AsIntType, Defaults
    <3>6. s.number \in [Numbers -> Int]
      BY <3>4, <3>5
    <3>7. s.fail_mode = FailMode(startedWith["CONNECTOR_FAIL_MODE"])
      BY <3>1 DEF LoadSettings
    <3> QED
      BY <3>1, <3>3, <3>6, <3>7, FailModeFacts, Defaults
  <2> QED
    BY <2>1 DEF IInv, EnvOK, TypeOK
<1> QED
  BY <1>1, Invariance, PTL

(* No check is off, and nothing is let through, unless the environment of   *)
(* the start says so.                                                       *)
THEOREM NothingRelaxedByOmission == Spec => []RelaxedOnlyIfSet
<1>1. IInv => RelaxedOnlyIfSet
  <2> SUFFICES ASSUME IInv, NEW s \in settings
               PROVE  /\ \A v \in Switches : Relaxed(s, v) => startedWith[v] # Absent
                      /\ s.switch["CONNECTOR_DEBUG_DOCUMENT_SCAN"] =>
                            StripLower[startedWith["CONNECTOR_DEBUG_DOCUMENT_SCAN"]] \in Truthy
                      /\ s.fail_mode = "allow" =>
                            /\ startedWith["CONNECTOR_FAIL_MODE"] # Absent
                            /\ StripLower[startedWith["CONNECTOR_FAIL_MODE"]] = "allow"
    BY DEF RelaxedOnlyIfSet
  <2>1. s = LoadSettings(startedWith) /\ startedWith \in [Variables -> Texts \cup {Absent}]
    BY DEF IInv, Loaded
  <2>2. s.switch = [v \in Switches |-> AsBool(startedWith[v], SwitchDefault[v])]
    BY <2>1 DEF LoadSettings
  <2>3. \A v \in Switches : Relaxed(s, v) => startedWith[v] # Absent
    BY <2>2 DEF Relaxed, AsBool
  <2>4. s.switch["CONNECTOR_DEBUG_DOCUMENT_SCAN"] =>
            StripLower[startedWith["CONNECTOR_DEBUG_DOCUMENT_SCAN"]] \in Truthy
    BY <2>2, Defaults DEF AsBool
  <2>5. s.fail_mode = FailMode(startedWith["CONNECTOR_FAIL_MODE"])
    BY <2>1 DEF LoadSettings
  <2> QED
    BY <2>1, <2>3, <2>4, <2>5, FailModeFacts, Defaults
<1> QED
  BY <1>1, Invariance, PTL

(* A number that was written is used as written, or the process does not    *)
(* start.                                                                   *)
THEOREM NumbersAreUsed == Spec => []NumbersAreAsWritten
<1>1. IInv => NumbersAreAsWritten
  <2> SUFFICES ASSUME IInv, NEW s \in settings, NEW v \in Numbers
               PROVE  IF Given(startedWith[v])
                      THEN startedWith[v] \in DOMAIN IntOf /\ s.number[v] = IntOf[startedWith[v]]
                      ELSE s.number[v] = NumberDefault[v]
    BY DEF NumbersAreAsWritten
  <2>1. s = LoadSettings(startedWith) /\ ~Raises(startedWith)
        /\ startedWith \in [Variables -> Texts \cup {Absent}]
    BY DEF IInv, Loaded
  <2>2. s.number[v] \in AsInt(startedWith[v], NumberDefault[v])
    BY <2>1, NumberLoaded
  <2>3. startedWith[v] \in Texts \cup {Absent} /\ NumberDefault[v] \in Int
    BY <2>1, Defaults
  <2> QED
    BY <2>2, <2>3, AsIntValue
<1> QED
  BY <1>1, Invariance, PTL

(* The keys that open the connector are the items written, in their order   *)
(* and number, for every text and however it is split.                      *)
THEOREM KeysAreThoseWritten == Spec => []KeysAreTheItems
<1>1. IInv => KeysAreTheItems
  <2> SUFFICES ASSUME IInv, NEW s \in settings
               PROVE  LeftToRight(s.api_keys, ItemsOf(startedWith["CONNECTOR_API_KEYS"]))
    BY Zenon DEF KeysAreTheItems
  <2> DEFINE text == startedWith["CONNECTOR_API_KEYS"]
  <2>1. s = LoadSettings(startedWith) /\ text \in Texts \cup {Absent}
    BY Defaults DEF IInv, Loaded
  <2>2. s.api_keys = ApiKeys(text)
    BY <2>1 DEF LoadSettings
  <2> HIDE DEF text
  <2>3. CASE text = Absent
    <3>1. s.api_keys = << >> /\ ItemsOf(text) = << >>
      BY <2>2, <2>3, Zenon DEF ApiKeys, ItemsOf
    <3>2. [k \in {} |-> 0] \in [1 .. 0 -> 1 .. 0] /\ 1 .. 0 = {} /\ Len(<< >>) = 0
      OBVIOUS
    <3>3. LeftToRight(<< >>, << >>)
      BY <3>2 DEF LeftToRight
    <3> QED
      BY <3>1, <3>3, Zenon DEF text
  <2>4. CASE text # Absent
    <3>1. Items[text] \in Seq(STRING)
      BY <2>1, <2>4, SettingsConstants
    <3>2. s.api_keys = NonBlank(Items[text]) /\ ItemsOf(text) = Items[text]
      BY <2>2, <2>4, Zenon DEF ApiKeys, ItemsOf
    <3> QED
      BY <3>1, <3>2, NonBlankItems, Zenon DEF text
  <2> QED
    BY <2>3, <2>4
<1> QED
  BY <1>1, Invariance, PTL
=============================================================================
