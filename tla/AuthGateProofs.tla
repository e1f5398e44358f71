--------------------------- MODULE AuthGateProofs ---------------------------
(***************************************************************************)
(* Theorems about the inbound gate, for every set of requests, every       *)
(* configuration and every resolution of the clock.                        *)
(***************************************************************************)
EXTENDS AuthGate, FiniteSetTheorems, TLAPS

-----------------------------------------------------------------------------
(* The seconds of the clock and its ticks                                   *)

(* What \div computes: the quotient and a remainder below the divisor.      *)
LEMMA DivMod ==
    ASSUME NEW n \in Nat, NEW R \in Nat \ {0}
    PROVE  /\ n \div R \in Int
           /\ n % R \in 0 .. (R - 1)
           /\ n = R * (n \div R) + (n % R)
  BY SMT

(* Multiplying by a positive number preserves the order.                    *)
LEMMA TimesMonotone ==
    ASSUME NEW R \in Nat \ {0}, NEW a \in Int, NEW b \in Int, a <= b
    PROVE  R * a <= R * b /\ R * a \in Int /\ R * b \in Int
  BY SMT

(* A second that has not passed bounds the ticks from above.                *)
LEMMA DivUpper ==
    ASSUME NEW n \in Nat, NEW R \in Nat \ {0}, NEW b \in Int, n \div R <= b
    PROVE  n < R * (b + 1)
<1> DEFINE q == R * (n \div R)
           m == n % R
           c == R * b
<1>1. n = q + m /\ m \in 0 .. (R - 1) /\ q <= c /\ c \in Int /\ q \in Int
  BY DivMod, TimesMonotone
<1>2. R * (b + 1) = c + R
  BY SMT
<1> HIDE DEF q, m, c
<1> QED
  BY <1>1, <1>2

(* A second that has begun bounds the ticks from below.                     *)
LEMMA DivLower ==
    ASSUME NEW n \in Nat, NEW R \in Nat \ {0}, NEW b \in Int, b <= n \div R
    PROVE  R * b <= n
  BY DivMod, TimesMonotone

-----------------------------------------------------------------------------
(* Type correctness                                                         *)

(* Whatever the handler refuses a request with is an error code.            *)
LEMMA RefusalType ==
    ASSUME NEW r PROVE Refusal(r) \in ErrorCodes \cup {"none"}
  BY DEF Refusal, KeyRefusal, HmacRefusal, ErrorCodes

(* The cache after check_and_mark of key k at time t, E being evicted.      *)
LEMMA MarkType ==
    ASSUME GateConstants, TypeOK, NEW r \in Requests, NEW t \in Nat,
           NEW E \in SUBSET Unexpired(t), NEW e,
           e = [k \in (Unexpired(t) \ E) \cup {ReplayKey(r)} |->
                   IF k = ReplayKey(r) THEN Expiry(t) ELSE entries[k]]
    PROVE  DOMAIN e \subseteq ReplayKeys /\ e \in [DOMAIN e -> Int]
<1>1. Expiry(t) \in Int
  BY SMT DEF Expiry, GateConstants
<1> QED
  BY <1>1 DEF TypeOK, Unexpired, ReplayKeys

(* What check_and_mark leaves of the cache stays a table of replay keys.    *)
LEMMA AdmissionType ==
    ASSUME TypeOK, NEW r \in Requests, NEW t \in Nat, RecordAdmission(r, t)
    PROVE  /\ DOMAIN admittedAt' \subseteq Requests
           /\ admittedAt' \in [DOMAIN admittedAt' -> Nat]
           /\ replayed' \subseteq DOMAIN admittedAt'
  BY DEF TypeOK, RecordAdmission

(* The second reading of the clock lies between now and the bound.          *)
LEMMA ReadingType ==
    ASSUME GateConstants, TypeOK, NEW t \in SecondReading
    PROVE  t \in 0 .. MaxNow /\ t \in Nat /\ now <= t /\ t <= now + HandlingTicks
  BY DEF GateConstants, TypeOK, SecondReading

(* Every step of the gate keeps its state well formed.                      *)
LEMMA TypeInductive ==
    ASSUME GateConstants, TypeOK, [Next]_gateVars PROVE TypeOK'
<1>1. ASSUME NEW r \in Requests, Refuse(r) PROVE TypeOK'
  BY <1>1, RefusalType DEF Refuse, Reply, TypeOK, history, ReplayKeys
<1>2. ASSUME NEW r \in Requests, AdmitUnsigned(r) PROVE TypeOK'
  <2>1. now \in Nat
    BY DEF TypeOK, GateConstants
  <2> QED
    BY <1>2, <2>1, AdmissionType DEF AdmitUnsigned, Reply, TypeOK, ReplayKeys
<1>3. ASSUME NEW r \in Requests, RejectReplay(r) PROVE TypeOK'
  <2>1. PICK t \in SecondReading : \E E \in SUBSET Unexpired(t) :
            /\ entries' = Keep(entries, Unexpired(t) \ E)
            /\ forgotten' = forgotten \cup E
            /\ Reply(r, "replay_detected")
            /\ now' = t
    BY <1>3 DEF RejectReplay
  <2>2. PICK E \in SUBSET Unexpired(t) :
            /\ entries' = Keep(entries, Unexpired(t) \ E)
            /\ forgotten' = forgotten \cup E
    BY <2>1
  <2>3. UNCHANGED <<setBack, require_hmac, admittedAt, replayed>>
    BY <1>3 DEF RejectReplay, history
  <2>4. require_hmac' \in HmacSettings
    BY <2>3, Zenon DEF TypeOK
  <2>5. now' \in 0 .. MaxNow /\ setBack' \in 0 .. MaxSetBack
    BY <2>1, <2>3, ReadingType DEF TypeOK
  <2>6. /\ DOMAIN entries' \subseteq ReplayKeys
        /\ entries' \in [DOMAIN entries' -> Int]
        /\ forgotten' \subseteq ReplayKeys
    BY <2>2 DEF TypeOK, Keep, Unexpired
  <2>7. \A a \in answer' : a.req \in Requests /\ a.code \in ErrorCodes \cup {"admitted"}
    BY <2>1 DEF Reply, ErrorCodes
  <2>8. ReplayKeys' = ReplayKeys
    BY DEF ReplayKeys, ReplayKey
  <2> QED
    BY <2>3, <2>4, <2>5, <2>6, <2>7, <2>8, Zenon DEF TypeOK
<1>4. ASSUME NEW r \in Requests, AdmitSigned(r) PROVE TypeOK'
  <2>1. PICK t \in SecondReading : \E E \in SUBSET Unexpired(t) :
            /\ entries' = [k \in (Unexpired(t) \ E) \cup {ReplayKey(r)} |->
                              IF k = ReplayKey(r) THEN Expiry(t) ELSE entries[k]]
            /\ forgotten' = forgotten \cup E
            /\ Reply(r, "admitted")
            /\ RecordAdmission(r, t)
            /\ now' = t
    BY <1>4 DEF AdmitSigned
  <2>2. PICK E \in SUBSET Unexpired(t) :
            /\ entries' = [k \in (Unexpired(t) \ E) \cup {ReplayKey(r)} |->
                              IF k = ReplayKey(r) THEN Expiry(t) ELSE entries[k]]
            /\ forgotten' = forgotten \cup E
    BY <2>1
  <2>3. t \in Nat /\ t \in 0 .. MaxNow
    BY ReadingType
  <2>4. DOMAIN entries' \subseteq ReplayKeys /\ entries' \in [DOMAIN entries' -> Int]
    BY <2>2, <2>3, MarkType
  <2>5. forgotten' \subseteq ReplayKeys
    BY <2>2 DEF TypeOK, Unexpired
  <2>6. UNCHANGED <<setBack, require_hmac>>
    BY <1>4 DEF AdmitSigned
  <2>7. require_hmac' \in HmacSettings
    BY <2>6, Zenon DEF TypeOK
  <2>8. setBack' \in 0 .. MaxSetBack /\ now' \in 0 .. MaxNow
    BY <2>1, <2>3, <2>6 DEF TypeOK
  <2>9. \A a \in answer' : a.req \in Requests /\ a.code \in ErrorCodes \cup {"admitted"}
    BY <2>1 DEF Reply
  <2>10. /\ DOMAIN admittedAt' \subseteq Requests
         /\ admittedAt' \in [DOMAIN admittedAt' -> Nat]
         /\ replayed' \subseteq DOMAIN admittedAt'
    BY <2>1, <2>3, AdmissionType
  <2>11. ReplayKeys' = ReplayKeys
    BY DEF ReplayKeys, ReplayKey
  <2> QED
    BY <2>4, <2>5, <2>7, <2>8, <2>9, <2>10, <2>11, Zenon DEF TypeOK
<1>5. CASE Restart
  BY <1>5 DEF Restart, TypeOK, Keep, Unexpired, history, ReplayKeys
<1>6. CASE Tick
  BY <1>6 DEF Tick, TypeOK, GateConstants, history, ReplayKeys
<1>7. CASE SetBack
  <2>1. PICK d \in 1 .. (MaxSetBack - setBack) : d <= now /\ now' = now - d /\ setBack' = setBack + d
    BY <1>7 DEF SetBack
  <2>2. now' \in 0 .. MaxNow /\ setBack' \in 0 .. MaxSetBack
    BY <2>1 DEF TypeOK, GateConstants
  <2> QED
    BY <1>7, <2>2 DEF SetBack, TypeOK, ReplayKeys
<1>8. CASE UNCHANGED gateVars
  BY <1>8 DEF gateVars, TypeOK, ReplayKeys
<1> QED
  BY <1>1, <1>2, <1>3, <1>4, <1>5, <1>6, <1>7, <1>8 DEF Next, Handle

(* The type invariant of the gate, for every configuration.                 *)
THEOREM TypeCorrect == Spec => []TypeOK
<1>1. Init => TypeOK
  BY GateConstants DEF Init, TypeOK, GateConstants
<1>2. TypeOK /\ [Next]_gateVars => TypeOK'
  BY TypeInductive, GateConstants
<1> QED
  BY <1>1, <1>2, PTL DEF Spec

-----------------------------------------------------------------------------
(* The two outcomes of check_and_mark, with the second reading of the clock *)
(* and the evicted entries named.                                           *)

(* A replay leaves what _cleanup left, and no history.                      *)
LEMMA RejectStep ==
    ASSUME NEW r \in Requests, RejectReplay(r)
    PROVE  \E t \in SecondReading, E \in SUBSET DOMAIN entries :
              /\ E \subseteq Unexpired(t)
              /\ Evicted(Unexpired(t), E)
              /\ ReplayKey(r) \in Unexpired(t) \ E
              /\ entries' = Keep(entries, Unexpired(t) \ E)
              /\ forgotten' = forgotten \cup E
              /\ answer' = {[req |-> r, code |-> "replay_detected"]}
              /\ now' = t
              /\ UNCHANGED <<setBack, require_hmac, admittedAt, replayed>>
  BY DEF RejectReplay, Reply, history, Unexpired

(* An admission adds its key to what is left, and one to its history.       *)
LEMMA AdmitStep ==
    ASSUME NEW r \in Requests, AdmitSigned(r)
    PROVE  \E t \in SecondReading, E \in SUBSET DOMAIN entries :
              /\ E \subseteq Unexpired(t)
              /\ Evicted(Unexpired(t), E)
              /\ ReplayKey(r) \notin Unexpired(t) \ E
              /\ entries' = [k \in (Unexpired(t) \ E) \cup {ReplayKey(r)} |->
                                IF k = ReplayKey(r) THEN Expiry(t) ELSE entries[k]]
              /\ forgotten' = forgotten \cup E
              /\ answer' = {[req |-> r, code |-> "admitted"]}
              /\ RecordAdmission(r, t)
              /\ now' = t
              /\ UNCHANGED <<setBack, require_hmac>>
  BY DEF AdmitSigned, Reply, Unexpired

-----------------------------------------------------------------------------
(* Where the cache entries come from                                        *)

Retention == NonceTtlSec * TicksPerSec

(* The retention, in ticks, is a number.                                    *)
LEMMA RetentionType == Retention \in Int
  BY GateConstants, SMT DEF GateConstants, Retention

(* An admission of r leaves the entries of the other keys accounted for:    *)
(* the admissions they stem from are not the one it records.                *)
LEMMA OthersAccounted ==
    ASSUME EntryFromAdmission, NEW r \in Requests, NEW t \in Nat, RecordAdmission(r, t)
    PROVE  /\ r \in DOMAIN admittedAt' /\ admittedAt'[r] = t
           /\ \A k \in DOMAIN entries \ {ReplayKey(r)} : \E q \in DOMAIN admittedAt' :
                 ReplayKey(q) = k /\ entries[k] <= admittedAt'[q] + Retention
<1>1. /\ DOMAIN admittedAt' = DOMAIN admittedAt \cup {r}
      /\ admittedAt'[r] = t
      /\ \A q \in DOMAIN admittedAt : q # r => admittedAt'[q] = admittedAt[q]
  BY DEF RecordAdmission
<1>2. ASSUME NEW k \in DOMAIN entries \ {ReplayKey(r)}
      PROVE  \E q \in DOMAIN admittedAt' : ReplayKey(q) = k /\ entries[k] <= admittedAt'[q] + Retention
  <2>1. PICK q \in DOMAIN admittedAt : ReplayKey(q) = k /\ entries[k] <= admittedAt[q] + Retention
    BY DEF EntryFromAdmission, Retention
  <2>2. q # r
    BY <2>1
  <2> QED
    BY <1>1, <2>1, <2>2
<1> QED
  BY <1>1, <1>2

(* Every step keeps every entry traceable to its admission.                 *)
LEMMA EntryInductive ==
    ASSUME TypeOK, EntryFromAdmission, [Next]_gateVars PROVE EntryFromAdmission'
<1> USE GateConstants
<1>1. ASSUME NEW r \in Requests, Refuse(r) PROVE EntryFromAdmission'
  BY <1>1 DEF Refuse, history, EntryFromAdmission
<1>2. ASSUME NEW r \in Requests, AdmitUnsigned(r) PROVE EntryFromAdmission'
  <2>1. DOMAIN entries' = {}
    BY <1>2 DEF AdmitUnsigned, EntryFromAdmission
  <2> QED
    BY <2>1 DEF EntryFromAdmission
<1>3. ASSUME NEW r \in Requests, RejectReplay(r) PROVE EntryFromAdmission'
  <2>1. PICK t \in SecondReading, E \in SUBSET DOMAIN entries :
            /\ E \subseteq Unexpired(t)
            /\ entries' = Keep(entries, Unexpired(t) \ E)
            /\ admittedAt' = admittedAt
    BY <1>3, RejectStep
  <2>2. require_hmac'
    BY <1>3, Zenon DEF RejectReplay
  <2>3. \A k \in DOMAIN entries' : k \in DOMAIN entries /\ entries'[k] = entries[k]
    BY <2>1 DEF Keep, Unexpired
  <2> QED
    BY <2>1, <2>2, <2>3, Zenon DEF EntryFromAdmission, ReplayKey
<1>4. ASSUME NEW r \in Requests, AdmitSigned(r) PROVE EntryFromAdmission'
  <2>1. PICK t \in SecondReading, E \in SUBSET DOMAIN entries :
            /\ E \subseteq Unexpired(t)
            /\ entries' = [k \in (Unexpired(t) \ E) \cup {ReplayKey(r)} |->
                              IF k = ReplayKey(r) THEN Expiry(t) ELSE entries[k]]
            /\ RecordAdmission(r, t)
    BY <1>4, AdmitStep
  <2>2. t \in Nat
    BY ReadingType
  <2>3. /\ r \in DOMAIN admittedAt' /\ admittedAt'[r] = t
        /\ \A k \in DOMAIN entries \ {ReplayKey(r)} : \E q \in DOMAIN admittedAt' :
              ReplayKey(q) = k /\ entries[k] <= admittedAt'[q] + Retention
    BY <2>1, <2>2, OthersAccounted
  <2>4. Expiry(t) = t + Retention /\ t + Retention <= t + Retention
    BY <2>2, RetentionType DEF Expiry, Retention
  <2>5. ASSUME NEW k \in DOMAIN entries'
        PROVE  \E q \in DOMAIN admittedAt' : ReplayKey(q) = k /\ entries'[k] <= admittedAt'[q] + Retention
    <3>1. CASE k = ReplayKey(r)
      BY <2>1, <2>3, <2>4, <3>1
    <3>2. CASE k # ReplayKey(r)
      <4>1. k \in DOMAIN entries \ {ReplayKey(r)} /\ entries'[k] = entries[k]
        BY <2>1, <3>2 DEF Unexpired
      <4> QED
        BY <2>3, <4>1
    <3> QED
      BY <3>1, <3>2
  <2>6. require_hmac'
    BY <1>4, Zenon DEF AdmitSigned
  <2> QED
    BY <2>5, <2>6, Zenon DEF EntryFromAdmission, Retention, ReplayKey
<1>5. CASE Restart
  BY <1>5 DEF Restart, Keep, history, EntryFromAdmission
<1>6. CASE Tick \/ SetBack
  BY <1>6 DEF Tick, SetBack, history, EntryFromAdmission
<1>7. CASE UNCHANGED gateVars
  BY <1>7 DEF gateVars, EntryFromAdmission
<1> QED
  BY <1>1, <1>2, <1>3, <1>4, <1>5, <1>6, <1>7 DEF Next, Handle

(* Every entry of the cache stems from an admission.                        *)
LEMMA EntriesAccounted == Spec => [](TypeOK /\ EntryFromAdmission)
<1>1. Init => EntryFromAdmission
  BY DEF Init, EntryFromAdmission
<1>2. TypeOK /\ EntryFromAdmission /\ [Next]_gateVars => EntryFromAdmission'
  BY EntryInductive
<1> QED
  BY <1>1, <1>2, TypeCorrect, PTL DEF Spec

(* Only an admitted request leaves its nonce in the cache: no refused       *)
(* request, whatever its headers, can turn another one into a replay.       *)
THEOREM NoncesAreAdmitted == Spec => []NonceOnlyByAdmitted
<1>1. EntryFromAdmission => NonceOnlyByAdmitted
  BY DEF EntryFromAdmission, NonceOnlyByAdmitted
<1> QED
  BY <1>1, EntriesAccounted, PTL

(* Only check_and_mark answers replay_detected.                             *)
LEMMA RefusalNotReplay == ASSUME NEW r PROVE Refusal(r) # "replay_detected"
  BY DEF Refusal, KeyRefusal, HmacRefusal

(* A 409 replay_detected is never a false alarm: a request with the same    *)
(* replay key was admitted less than NONCE_TTL_SEC before.                  *)
THEOREM ReplaysAreReal == Spec => []NoFalseReplay
<1> USE GateConstants
<1>1. Init => NoFalseReplay
  BY DEF Init, NoFalseReplay
<1>2. TypeOK /\ EntryFromAdmission /\ NoFalseReplay /\ [Next]_gateVars => NoFalseReplay'
  <2> SUFFICES ASSUME TypeOK, EntryFromAdmission, NoFalseReplay, [Next]_gateVars
               PROVE  NoFalseReplay'
    OBVIOUS
  <2>1. ASSUME NEW r \in Requests, RejectReplay(r) PROVE NoFalseReplay'
    <3>1. PICK t \in SecondReading, E \in SUBSET DOMAIN entries :
              /\ ReplayKey(r) \in Unexpired(t) \ E
              /\ answer' = {[req |-> r, code |-> "replay_detected"]}
              /\ now' = t /\ admittedAt' = admittedAt
      BY <2>1, RejectStep
    <3>2. ReplayKey(r) \in DOMAIN entries /\ t < entries[ReplayKey(r)]
          /\ entries[ReplayKey(r)] \in Int /\ t \in Nat
      BY <3>1, ReadingType DEF Unexpired, TypeOK
    <3>3. PICK q \in DOMAIN admittedAt :
              ReplayKey(q) = ReplayKey(r) /\ entries[ReplayKey(r)] <= admittedAt[q] + Retention
      BY <3>2 DEF EntryFromAdmission, Retention
    <3>4. t < admittedAt[q] + Retention
      BY <3>2, <3>3, RetentionType DEF TypeOK
    <3> QED
      BY <3>1, <3>3, <3>4 DEF NoFalseReplay, Retention
  <2>2. ASSUME NEW r \in Requests, Refuse(r) \/ AdmitUnsigned(r) \/ AdmitSigned(r)
        PROVE  NoFalseReplay'
    <3>1. CASE Refuse(r)
      BY <3>1, RefusalNotReplay DEF Refuse, Reply, NoFalseReplay
    <3>2. CASE AdmitUnsigned(r) \/ AdmitSigned(r)
      <4>1. answer' = {[req |-> r, code |-> "admitted"]}
        BY <3>2, AdmitStep DEF AdmitUnsigned, Reply
      <4> QED
        BY <4>1 DEF NoFalseReplay
    <3> QED
      BY <2>2, <3>1, <3>2
  <2>3. CASE Restart \/ Tick \/ SetBack
    BY <2>3 DEF Restart, Tick, SetBack, NoFalseReplay
  <2>4. CASE UNCHANGED gateVars
    BY <2>4 DEF gateVars, NoFalseReplay
  <2> QED
    BY <2>1, <2>2, <2>3, <2>4 DEF Next, Handle
<1> QED
  BY <1>1, <1>2, EntriesAccounted, PTL DEF Spec

-----------------------------------------------------------------------------
(* The replay guarantee                                                     *)

(* The window of an accepted timestamp, in ticks.                           *)
LEMMA WindowInTicks ==
    ASSUME TypeOK, NEW r \in Requests, InWindow(r)
    PROVE  /\ WindowEnd(r) \in Int
           /\ now < WindowEnd(r)
           /\ WindowEnd(r) <= now + (2 * MaxClockSkewSec + 1) * TicksPerSec
<1> USE GateConstants
<1> DEFINE lo == r.ts - MaxClockSkewSec
           hi == r.ts + MaxClockSkewSec
<1>1. r.ts \in Int /\ MaxClockSkewSec \in Int /\ TicksPerSec \in Nat \ {0} /\ now \in Nat
  BY DEF GateConstants, IsRequest, TypeOK
<1>2. lo \in Int /\ hi \in Int /\ lo <= now \div TicksPerSec /\ now \div TicksPerSec <= hi
  BY <1>1 DEF InWindow, NowSec
<1>3. now < TicksPerSec * (hi + 1)
  BY <1>1, <1>2, DivUpper
<1>4. TicksPerSec * lo <= now
  BY <1>1, <1>2, DivLower
<1>5. TicksPerSec * (hi + 1) = TicksPerSec * lo + (2 * MaxClockSkewSec + 1) * TicksPerSec
      /\ TicksPerSec * (hi + 1) \in Int
      /\ TicksPerSec * lo \in Int
      /\ (2 * MaxClockSkewSec + 1) * TicksPerSec \in Int
  BY <1>1, SMT
<1> HIDE DEF lo
<1>6. TicksPerSec * (hi + 1) <= now + (2 * MaxClockSkewSec + 1) * TicksPerSec
  BY <1>1, <1>4, <1>5
<1> QED
  BY <1>3, <1>5, <1>6 DEF WindowEnd

(* The end of a window is a point in time.                                  *)
LEMMA WindowEndType == ASSUME NEW r \in Requests PROVE WindowEnd(r) \in Int
  BY GateConstants, SMT DEF WindowEnd, GateConstants, IsRequest

(* A signed request that reaches the cache passed the timestamp check.      *)
LEMMA SignedInWindow ==
    ASSUME NEW r, Refusal(r) = "none", require_hmac PROVE InWindow(r)
  BY DEF Refusal, HmacRefusal, KeyRefusal

(* The number of ticks the clock may still be set back.                     *)
LEMMA ReserveType == ASSUME TypeOK PROVE Reserve \in Nat /\ Reserve <= MaxSetBack
  BY GateConstants DEF TypeOK, GateConstants, Reserve

\* The window of q is over for good at time t, with c ticks left to set the clock back.
Over(q, t, c) == WindowEnd(q) + c <= t

\* The entry expiring at e outlives the window of q, with the same reserve.
Outlives(q, e, c) == WindowEnd(q) + HandlingTicks <= e /\ WindowEnd(q) + c <= e

(* The cache after check_and_mark at t: the key of an admitted request q is *)
(* kept, or evicted, or its window is over.                                 *)
LEMMA CleanupCovers ==
    ASSUME TypeOK, KeyOutlivesWindow, NEW t \in Nat, now <= t,
           NEW E \in SUBSET DOMAIN entries, NEW q \in DOMAIN admittedAt
    PROVE  \/ ReplayKey(q) \in forgotten \cup E
           \/ Over(q, t, Reserve)
           \/ /\ ReplayKey(q) \in Unexpired(t) \ E
              /\ Outlives(q, entries[ReplayKey(q)], Reserve)
<1>1. WindowEnd(q) \in Int /\ HandlingTicks \in Nat /\ now \in Nat /\ Reserve \in Nat
  BY GateConstants, WindowEndType, ReserveType DEF GateConstants, TypeOK
<1>2. CASE WindowEnd(q) + Reserve <= now
  BY <1>1, <1>2 DEF Over
<1>3. CASE /\ ReplayKey(q) \in DOMAIN entries
           /\ Outlives(q, entries[ReplayKey(q)], Reserve)
  <2>1. entries[ReplayKey(q)] \in Int
    BY <1>3 DEF TypeOK
  <2>2. CASE entries[ReplayKey(q)] > t
    BY <1>3, <2>2 DEF Unexpired
  <2>3. CASE entries[ReplayKey(q)] <= t
    BY <1>1, <1>3, <2>1, <2>3 DEF Outlives, Over
  <2> QED
    BY <2>1, <2>2, <2>3
<1> QED
  BY <1>2, <1>3 DEF KeyOutlivesWindow, Outlives

(* The entry made for r at t outlives the window of r.                      *)
LEMMA NewEntryOutlives ==
    ASSUME TypeOK, RetentionCoversWindow, NEW r \in Requests, InWindow(r), NEW t \in Nat, now <= t
    PROVE  Outlives(r, Expiry(t), Reserve)
<1> USE GateConstants
<1> DEFINE w == (2 * MaxClockSkewSec + 1) * TicksPerSec
<1>1. w \in Int /\ Retention \in Int /\ HandlingTicks \in Nat /\ MaxSetBack \in Nat /\ now \in Nat
  BY RetentionType, SMT DEF GateConstants, TypeOK
<1>2. Retention >= w + HandlingTicks /\ Retention >= w + MaxSetBack
  BY DEF RetentionCoversWindow, Retention
<1>3. WindowEnd(r) \in Int /\ WindowEnd(r) <= now + w
  BY WindowInTicks
<1>4. Expiry(t) = t + Retention
  BY DEF Expiry, Retention
<1>5. Reserve \in Nat /\ Reserve <= MaxSetBack
  BY ReserveType
<1> HIDE DEF w
<1>6. WindowEnd(r) + HandlingTicks <= Expiry(t)
  BY <1>1, <1>2, <1>3, <1>4
<1>7. WindowEnd(r) + Reserve <= Expiry(t)
  BY <1>1, <1>2, <1>3, <1>4, <1>5
<1> QED
  BY <1>6, <1>7 DEF Outlives

(* Every step keeps every open window covered, or its key forgotten.        *)
LEMMA CoverInductive ==
    ASSUME HmacSettings = {TRUE}, RetentionCoversWindow, TypeOK, KeyOutlivesWindow,
           ReplayOnlyIfForgotten, [Next]_gateVars
    PROVE  KeyOutlivesWindow' /\ ReplayOnlyIfForgotten'
<1> USE GateConstants
<1>0. now \in Nat /\ HandlingTicks \in Nat /\ Reserve \in Nat
  BY ReserveType DEF GateConstants, TypeOK
<1>1. ASSUME NEW r \in Requests, Refuse(r) PROVE KeyOutlivesWindow' /\ ReplayOnlyIfForgotten'
  BY <1>1 DEF Refuse, history, KeyOutlivesWindow, ReplayOnlyIfForgotten, WindowEnd, Reserve
<1>2. ASSUME NEW r \in Requests, AdmitUnsigned(r) PROVE FALSE
  <2>1. require_hmac \in {TRUE}
    BY Zenon DEF TypeOK
  <2>2. ~require_hmac
    BY <1>2, Zenon DEF AdmitUnsigned
  <2> QED
    BY <2>1, <2>2, Zenon
<1>3. ASSUME NEW r \in Requests, RejectReplay(r) PROVE KeyOutlivesWindow' /\ ReplayOnlyIfForgotten'
  <2>1. PICK t \in SecondReading, E \in SUBSET DOMAIN entries :
            /\ entries' = Keep(entries, Unexpired(t) \ E)
            /\ forgotten' = forgotten \cup E
            /\ now' = t /\ setBack' = setBack /\ admittedAt' = admittedAt /\ replayed' = replayed
    BY <1>3, RejectStep
  <2>2. now <= t /\ t \in Nat
    BY ReadingType
  <2>3. \A q \in DOMAIN admittedAt :
            \/ ReplayKey(q) \in forgotten'
            \/ Over(q, now', Reserve)
            \/ /\ ReplayKey(q) \in DOMAIN entries'
               /\ Outlives(q, entries'[ReplayKey(q)], Reserve)
    BY <2>1, <2>2, CleanupCovers DEF Keep
  <2>4. KeyOutlivesWindow'
    BY <2>1, <2>3 DEF KeyOutlivesWindow, WindowEnd, Reserve, Over, Outlives
  <2> QED
    BY <2>1, <2>4 DEF ReplayOnlyIfForgotten
<1>4. ASSUME NEW r \in Requests, AdmitSigned(r) PROVE KeyOutlivesWindow' /\ ReplayOnlyIfForgotten'
  <2>1. PICK t \in SecondReading, E \in SUBSET DOMAIN entries :
            /\ ReplayKey(r) \notin Unexpired(t) \ E
            /\ entries' = [k \in (Unexpired(t) \ E) \cup {ReplayKey(r)} |->
                              IF k = ReplayKey(r) THEN Expiry(t) ELSE entries[k]]
            /\ forgotten' = forgotten \cup E
            /\ RecordAdmission(r, t)
            /\ now' = t /\ setBack' = setBack
    BY <1>4, AdmitStep
  <2>2. now <= t /\ t \in Nat /\ t <= now + HandlingTicks
    BY ReadingType
  <2>3. InWindow(r) /\ WindowEnd(r) \in Int /\ now < WindowEnd(r)
    BY <1>4, SignedInWindow, WindowInTicks DEF AdmitSigned
  <2>4. Outlives(r, Expiry(t), Reserve)
    BY <2>2, <2>3, NewEntryOutlives
  \* What the step does to any other admitted request.
  <2>5. ASSUME NEW q \in DOMAIN admittedAt, q # r
        PROVE  \/ ReplayKey(q) \in forgotten'
               \/ Over(q, now', Reserve)
               \/ /\ ReplayKey(q) \in DOMAIN entries'
                  /\ Outlives(q, entries'[ReplayKey(q)], Reserve)
    <3>1. \/ ReplayKey(q) \in forgotten \cup E
          \/ Over(q, t, Reserve)
          \/ /\ ReplayKey(q) \in Unexpired(t) \ E
             /\ Outlives(q, entries[ReplayKey(q)], Reserve)
      BY <2>2, CleanupCovers
    <3> QED
      BY <2>1, <3>1
  <2>6. KeyOutlivesWindow'
    <3>1. DOMAIN admittedAt' = DOMAIN admittedAt \cup {r}
      BY <2>1 DEF RecordAdmission
    <3>2. ReplayKey(r) \in DOMAIN entries' /\ Outlives(r, entries'[ReplayKey(r)], Reserve)
      BY <2>1, <2>4
    <3>3. \A q \in DOMAIN admittedAt' :
              \/ ReplayKey(q) \in forgotten'
              \/ Over(q, now', Reserve)
              \/ /\ ReplayKey(q) \in DOMAIN entries'
                 /\ Outlives(q, entries'[ReplayKey(q)], Reserve)
      BY <2>5, <3>1, <3>2
    <3> QED
      BY <2>1, <3>3 DEF KeyOutlivesWindow, WindowEnd, Reserve, Over, Outlives
  \* A second admission of r: its entry was live, so it must have been evicted.
  <2>7. r \in DOMAIN admittedAt => ReplayKey(r) \in forgotten'
    <3> SUFFICES ASSUME r \in DOMAIN admittedAt PROVE ReplayKey(r) \in forgotten'
      OBVIOUS
    <3>1. CASE ReplayKey(r) \in forgotten
      BY <2>1, <3>1
    <3>2. CASE /\ ReplayKey(r) \in DOMAIN entries
               /\ WindowEnd(r) + HandlingTicks <= entries[ReplayKey(r)]
      <4>1. entries[ReplayKey(r)] \in Int
        BY <3>2 DEF TypeOK
      <4>2. entries[ReplayKey(r)] > t
        BY <1>0, <2>2, <2>3, <3>2, <4>1
      <4> QED
        BY <2>1, <3>2, <4>2 DEF Unexpired
    <3>3. ~(WindowEnd(r) + Reserve <= now)
      BY <1>0, <2>3
    <3> QED
      BY <3>1, <3>2, <3>3 DEF KeyOutlivesWindow
  <2>8. ReplayOnlyIfForgotten'
    BY <2>1, <2>7 DEF ReplayOnlyIfForgotten, RecordAdmission
  <2> QED
    BY <2>6, <2>8
<1>5. CASE Restart
  <2>1. /\ entries' = Keep(entries, {})
        /\ forgotten' = forgotten \cup Unexpired(now)
        /\ UNCHANGED <<now, setBack, admittedAt, replayed>>
    BY <1>5 DEF Restart, history
  <2>2. \A q \in DOMAIN admittedAt :
            ReplayKey(q) \in forgotten' \/ Over(q, now, Reserve)
    <3> SUFFICES ASSUME NEW q \in DOMAIN admittedAt
                 PROVE  ReplayKey(q) \in forgotten' \/ Over(q, now, Reserve)
      OBVIOUS
    <3>1. \/ ReplayKey(q) \in forgotten \cup {}
          \/ Over(q, now, Reserve)
          \/ ReplayKey(q) \in Unexpired(now) \ {}
      <4>1. {} \in SUBSET DOMAIN entries /\ now \in Nat /\ now <= now
        BY <1>0
      <4> QED
        BY <4>1, CleanupCovers
    <3> QED
      BY <2>1, <3>1
  <2> QED
    BY <2>1, <2>2 DEF KeyOutlivesWindow, ReplayOnlyIfForgotten, WindowEnd, Reserve, Over
<1>6. CASE Tick
  <2>1. now' = now + 1 /\ UNCHANGED <<setBack, entries, forgotten, admittedAt, replayed>>
    BY <1>6 DEF Tick, history
  <2>2. \A q \in DOMAIN admittedAt : WindowEnd(q) + Reserve <= now => WindowEnd(q) + Reserve <= now'
    BY <1>0, <2>1, WindowEndType DEF TypeOK
  <2> QED
    BY <2>1, <2>2 DEF KeyOutlivesWindow, ReplayOnlyIfForgotten, WindowEnd, Reserve
\* Setting the clock back by d uses up d of the reserve.
<1>7. CASE SetBack
  <2>1. PICK d \in 1 .. (MaxSetBack - setBack) : d <= now /\ now' = now - d /\ setBack' = setBack + d
    BY <1>7 DEF SetBack
  <2>2. Reserve' = Reserve - d /\ d \in Nat
    BY <2>1 DEF Reserve, TypeOK, GateConstants
  <2>3. ASSUME NEW q \in DOMAIN admittedAt
        PROVE  /\ WindowEnd(q) + Reserve <= now => WindowEnd(q) + Reserve' <= now'
               /\ ReplayKey(q) \in DOMAIN entries =>
                     (WindowEnd(q) + Reserve <= entries[ReplayKey(q)]
                        => WindowEnd(q) + Reserve' <= entries[ReplayKey(q)])
    <3>1. WindowEnd(q) \in Int /\ (ReplayKey(q) \in DOMAIN entries => entries[ReplayKey(q)] \in Int)
      BY WindowEndType DEF TypeOK
    <3> QED
      BY <1>0, <2>1, <2>2, <3>1
  <2>4. UNCHANGED <<entries, forgotten, admittedAt, replayed>>
    BY <1>7 DEF SetBack
  <2> QED
    BY <2>3, <2>4 DEF KeyOutlivesWindow, ReplayOnlyIfForgotten, WindowEnd
<1>8. CASE UNCHANGED gateVars
  BY <1>8 DEF gateVars, KeyOutlivesWindow, ReplayOnlyIfForgotten, WindowEnd, Reserve
<1> QED
  BY <1>1, <1>2, <1>3, <1>4, <1>5, <1>6, <1>7, <1>8 DEF Next, Handle

(* The replay guarantee: with signatures required and a retention that      *)
(* covers the timestamp window and every set-back of the clock, no request  *)
(* is admitted twice, unless its key was dropped before it expired, by      *)
(* eviction or by a restart.                                                *)
THEOREM ReplayGuarantee ==
    ASSUME HmacSettings = {TRUE}, RetentionCoversWindow
    PROVE  Spec => []ReplayOnlyIfForgotten
<1>1. Init => KeyOutlivesWindow /\ ReplayOnlyIfForgotten
  BY DEF Init, KeyOutlivesWindow, ReplayOnlyIfForgotten
<1>2. TypeOK /\ KeyOutlivesWindow /\ ReplayOnlyIfForgotten /\ [Next]_gateVars
        => KeyOutlivesWindow' /\ ReplayOnlyIfForgotten'
  BY CoverInductive
<1> QED
  BY <1>1, <1>2, TypeCorrect, PTL DEF Spec

-----------------------------------------------------------------------------
(* The size of the cache                                                    *)

(* Once the expired entries and the overflow are out, max_entries are left. *)
LEMMA EvictionBounds ==
    ASSUME NEW S, IsFiniteSet(S), NEW E, Evicted(S, E)
    PROVE  IsFiniteSet(S \ E) /\ Cardinality(S \ E) <= MaxEntries
<1>1. IsFiniteSet(E) /\ Cardinality(E) \in Nat /\ Cardinality(S) \in Nat /\ MaxEntries \in Nat
  BY GateConstants, FS_Subset, FS_CardinalityType DEF Evicted, GateConstants
<1>2. /\ IsFiniteSet(S \ E)
      /\ Cardinality(S \ E) = Cardinality(S) - Cardinality(S \cap E)
  BY FS_Difference
<1>3. S \cap E = E /\ Cardinality(E) = Overflow(S)
  BY DEF Evicted
<1> QED
  BY <1>1, <1>2, <1>3 DEF Overflow

BoundInv == IsFiniteSet(DOMAIN entries) /\ CacheBounded

(* The cache is finite and bounded at every step.                           *)
LEMMA BoundInvariant == Spec => []BoundInv
<1> USE GateConstants
<1>1. Init => BoundInv
  BY FS_EmptySet DEF Init, BoundInv, CacheBounded, GateConstants
<1>2. BoundInv /\ [Next]_gateVars => BoundInv'
  <2> SUFFICES ASSUME BoundInv, [Next]_gateVars PROVE BoundInv'
    OBVIOUS
  <2>0. \A t : IsFiniteSet(Unexpired(t))
    BY FS_Subset DEF BoundInv, Unexpired
  <2>1. ASSUME NEW r \in Requests, RejectReplay(r) PROVE BoundInv'
    <3>1. PICK t \in SecondReading, E \in SUBSET DOMAIN entries :
              /\ Evicted(Unexpired(t), E)
              /\ entries' = Keep(entries, Unexpired(t) \ E)
      BY <2>1, RejectStep
    <3>2. DOMAIN entries' = Unexpired(t) \ E
      BY <3>1 DEF Keep
    <3>3. IsFiniteSet(DOMAIN entries') /\ Cardinality(DOMAIN entries') <= MaxEntries
      BY <2>0, <3>1, <3>2, EvictionBounds
    <3> QED
      BY <3>3, FS_CardinalityType DEF BoundInv, CacheBounded, GateConstants
  <2>2. ASSUME NEW r \in Requests, AdmitSigned(r) PROVE BoundInv'
    <3>1. PICK t \in SecondReading, E \in SUBSET DOMAIN entries :
              /\ Evicted(Unexpired(t), E)
              /\ DOMAIN entries' = (Unexpired(t) \ E) \cup {ReplayKey(r)}
      BY <2>2, AdmitStep
    <3>2. IsFiniteSet(Unexpired(t) \ E) /\ Cardinality(Unexpired(t) \ E) <= MaxEntries
      BY <2>0, <3>1, EvictionBounds
    <3>3. /\ IsFiniteSet(DOMAIN entries')
          /\ Cardinality(DOMAIN entries') <= Cardinality(Unexpired(t) \ E) + 1
      <4> DEFINE T == Unexpired(t) \ E
      <4>1. IsFiniteSet(T) /\ Cardinality(T) \in Nat
        BY <3>2, FS_CardinalityType
      <4> HIDE DEF T
      <4>2. /\ IsFiniteSet(T \cup {ReplayKey(r)})
            /\ \/ Cardinality(T \cup {ReplayKey(r)}) = Cardinality(T)
               \/ Cardinality(T \cup {ReplayKey(r)}) = Cardinality(T) + 1
        BY <4>1, FS_AddElement
      <4> QED
        BY <3>1, <4>1, <4>2 DEF T
    <3> QED
      BY <3>2, <3>3, FS_CardinalityType DEF BoundInv, CacheBounded, GateConstants
  <2>3. ASSUME NEW r \in Requests, Refuse(r) \/ AdmitUnsigned(r) PROVE BoundInv'
    BY <2>3 DEF Refuse, AdmitUnsigned, BoundInv, CacheBounded
  <2>4. CASE Restart
    BY <2>4, FS_EmptySet DEF Restart, Keep, BoundInv, CacheBounded, GateConstants
  <2>5. CASE Tick \/ SetBack \/ UNCHANGED gateVars
    BY <2>5 DEF Tick, SetBack, gateVars, BoundInv, CacheBounded
  <2> QED
    BY <2>1, <2>2, <2>3, <2>4, <2>5 DEF Next, Handle
<1> QED
  BY <1>1, <1>2, PTL DEF Spec

(* The replay cache never holds more than max_entries + 1 entries.          *)
THEOREM CacheIsBounded == Spec => []CacheBounded
<1>1. BoundInv => CacheBounded
  BY DEF BoundInv
<1> QED
  BY <1>1, BoundInvariant, PTL

-----------------------------------------------------------------------------
(* Who goes when the cache is full                                          *)

(* If anything is evicted, exactly max_entries are left.                    *)
LEMMA EvictedForRoom ==
    ASSUME NEW S, IsFiniteSet(S), NEW E, Evicted(S, E), E # {}
    PROVE  Cardinality(S \ E) = MaxEntries
<1>1. IsFiniteSet(E) /\ Cardinality(E) \in Nat /\ Cardinality(S) \in Nat /\ MaxEntries \in Nat
  BY GateConstants, FS_Subset, FS_CardinalityType DEF Evicted, GateConstants
<1>2. Cardinality(E) # 0
  BY <1>1, FS_EmptySet
<1>3. S \cap E = E /\ Cardinality(E) = Overflow(S)
  BY DEF Evicted
<1>4. Cardinality(S \ E) = Cardinality(S) - Cardinality(S \cap E)
  BY FS_Difference
<1>5. Cardinality(S \ E) = Cardinality(S) - Overflow(S) /\ Overflow(S) # 0
  BY <1>2, <1>3, <1>4, Zenon
<1> QED
  BY <1>1, <1>5 DEF Overflow

(* One run of check_and_mark: the keys that stay are those _cleanup leaves, *)
(* and possibly the key of the request, whatever it is marked with.         *)
LEMMA CleanupForRoomOnly ==
    ASSUME TypeOK, BoundInv, NEW r \in Requests, NEW code, NEW t \in SecondReading,
           NEW E, E \subseteq Unexpired(t), Evicted(Unexpired(t), E),
           answer' = {[req |-> r, code |-> code]}, now' = t,
           \/ DOMAIN entries' = Unexpired(t) \ E
           \/ /\ DOMAIN entries' = (Unexpired(t) \ E) \cup {ReplayKey(r)}
              /\ ReplayKey(r) \notin Unexpired(t) \ E,
           \A j \in DOMAIN entries' \ {ReplayKey(r)} : entries'[j] = entries[j]
    PROVE  GoForRoomOnly
<1> DEFINE S == Unexpired(t)
<1>1. IsFiniteSet(S) /\ MaxEntries \in Nat
  BY GateConstants, FS_Subset DEF BoundInv, Unexpired, GateConstants
<1> SUFFICES ASSUME NEW a \in answer', NEW k \in DOMAIN entries \ DOMAIN entries',
                    ~(entries[k] <= now')
             PROVE  /\ Cardinality(DOMAIN entries') >= MaxEntries
                    /\ \A j \in DOMAIN entries' \ {ReplayKey(a.req)} : entries[k] <= entries'[j]
  BY Zenon DEF GoForRoomOnly
<1>2. a.req = r
  OBVIOUS
<1>3. k \in S
  <2>1. entries[k] \in Int /\ t \in Int
    BY GateConstants DEF TypeOK, SecondReading, GateConstants
  <2> QED
    BY <2>1 DEF Unexpired
<1> HIDE DEF S
<1>4. k \in E
  BY <1>3 DEF S
<1>5. Cardinality(S \ E) = MaxEntries /\ IsFiniteSet(S \ E)
  BY <1>1, <1>4, EvictedForRoom, EvictionBounds DEF S
<1>6. Cardinality(DOMAIN entries') >= MaxEntries
  <2>1. CASE DOMAIN entries' = S \ E
    BY <1>1, <1>5, <2>1
  <2>2. CASE DOMAIN entries' = (S \ E) \cup {ReplayKey(r)} /\ ReplayKey(r) \notin S \ E
    <3>1. Cardinality((S \ E) \cup {ReplayKey(r)}) = Cardinality(S \ E) + 1
      BY <1>5, <2>2, FS_AddElement
    <3> QED
      BY <1>1, <1>5, <2>2, <3>1
  <2> QED
    BY <2>1, <2>2 DEF S
<1>7. ASSUME NEW j \in DOMAIN entries' \ {ReplayKey(a.req)}
      PROVE  entries[k] <= entries'[j]
  <2>1. j \in S \ E /\ entries'[j] = entries[j]
    BY <1>2 DEF S
  <2>2. entries[k] <= entries[j]
    BY <1>4, <2>1 DEF Evicted, S
  <2> QED
    BY <2>1, <2>2
<1> QED
  BY <1>6, <1>7

(* While a request is handled, a key that has not expired is dropped only   *)
(* if the cache is still full afterwards, and only if no other key that     *)
(* stays would expire sooner: a request refused before the cache, and any   *)
(* request while there is room, takes no live nonce away from anyone.       *)
THEOREM LiveKeysKeptWhileRoom == Spec => LiveKeysGoForRoomOnly
<1>1. TypeOK /\ BoundInv /\ [Next]_gateVars => [GoForRoomOnly]_gateVars
  <2> SUFFICES ASSUME TypeOK, BoundInv, Next PROVE GoForRoomOnly
    OBVIOUS
  <2>1. ASSUME NEW r \in Requests, RejectReplay(r) PROVE GoForRoomOnly
    <3>1. PICK t \in SecondReading, E \in SUBSET DOMAIN entries :
              /\ E \subseteq Unexpired(t)
              /\ Evicted(Unexpired(t), E)
              /\ entries' = Keep(entries, Unexpired(t) \ E)
              /\ answer' = {[req |-> r, code |-> "replay_detected"]}
              /\ now' = t
      BY <2>1, RejectStep
    <3>2. /\ DOMAIN entries' = Unexpired(t) \ E
          /\ \A j \in DOMAIN entries' \ {ReplayKey(r)} : entries'[j] = entries[j]
      BY <3>1 DEF Keep
    <3> QED
      BY <3>1, <3>2, CleanupForRoomOnly
  <2>2. ASSUME NEW r \in Requests, AdmitSigned(r) PROVE GoForRoomOnly
    <3>1. PICK t \in SecondReading, E \in SUBSET DOMAIN entries :
              /\ E \subseteq Unexpired(t)
              /\ Evicted(Unexpired(t), E)
              /\ ReplayKey(r) \notin Unexpired(t) \ E
              /\ entries' = [k \in (Unexpired(t) \ E) \cup {ReplayKey(r)} |->
                                IF k = ReplayKey(r) THEN Expiry(t) ELSE entries[k]]
              /\ answer' = {[req |-> r, code |-> "admitted"]}
              /\ now' = t
      BY <2>2, AdmitStep
    <3>2. /\ DOMAIN entries' = (Unexpired(t) \ E) \cup {ReplayKey(r)}
          /\ \A j \in DOMAIN entries' \ {ReplayKey(r)} : entries'[j] = entries[j]
      BY <3>1
    <3> QED
      BY <3>1, <3>2, CleanupForRoomOnly
  <2>3. ASSUME NEW r \in Requests, Refuse(r) \/ AdmitUnsigned(r) PROVE GoForRoomOnly
    BY <2>3 DEF Refuse, AdmitUnsigned, GoForRoomOnly
  <2>4. CASE Restart \/ Tick \/ SetBack
    BY <2>4 DEF Restart, Tick, SetBack, GoForRoomOnly
  <2> QED
    BY <2>1, <2>2, <2>3, <2>4 DEF Next, Handle
<1> QED
  BY <1>1, TypeCorrect, BoundInvariant, PTL DEF Spec, LiveKeysGoForRoomOnly

-----------------------------------------------------------------------------
(* Client and server agree                                                  *)

(* The loop of validate_api_key ends at one item: it cannot both accept and *)
(* raise.                                                                   *)
LEMMA KeyDecidedOnce == ASSUME NEW k, KeyAccepted(k) PROVE ~KeyRaises(k)
<1> SUFFICES ASSUME KeyRaises(k) PROVE FALSE
  OBVIOUS
<1>1. PICK i \in DOMAIN ApiKeyItems : FirstDeciding(i, k) /\ ~Raises(ApiKeyItems[i], k)
  BY DEF KeyAccepted
<1>2. PICK j \in DOMAIN ApiKeyItems : FirstDeciding(j, k) /\ Raises(ApiKeyItems[j], k)
  BY DEF KeyRaises
<1>3. i \in Nat \ {0} /\ j \in Nat \ {0}
  BY GateConstants DEF GateConstants
<1>4. ~(i < j) /\ ~(j < i)
  BY <1>1, <1>2, <1>3 DEF FirstDeciding
<1>5. i = j
  BY <1>3, <1>4
<1> QED
  BY <1>1, <1>2, <1>5

(* What connector_client.py signs, with a request_id, the server expects.   *)
LEMMA SignedIsExpected ==
    ASSUME NEW r, SignedByClient(r), r.body.rid # ""
    PROVE  r.sig = Expected(r)
  BY DEF SignedByClient, SignHeaders, Expected, RequestId

(* Such a request can only be late.                                         *)
LEMMA SignedOnlyLate ==
    ASSUME ConnectorHmacSecret # NoSecret, NEW r, SignedByClient(r), r.body.rid # ""
    PROVE  Refusal(r) \in {"none", "stale_timestamp"}
<1>1. KeyRefusal(r) = "none"
  BY KeyDecidedOnce DEF SignedByClient, KeyRefusal
<1>2. HmacRefusal(r) \in {"none", "stale_timestamp"}
  BY SignedIsExpected DEF SignedByClient, HmacRefusal
<1> QED
  BY <1>1, <1>2 DEF Refusal

(* One answer to check.                                                     *)
LEMMA AnswerUnderstood ==
    ASSUME NEW r, NEW code, Reply(r, code),
           SignedByClient(r) /\ r.body.rid # "" => code \in {"admitted", "stale_timestamp", "replay_detected"}
    PROVE  SignedRequestUnderstood'
<1>1. answer' = {[req |-> r, code |-> code]}
  BY DEF Reply
<1>2. ASSUME NEW a \in answer', SignedByClient(a.req) /\ a.req.body.rid # ""
      PROVE  a.code \in {"admitted", "stale_timestamp", "replay_detected"}
  <2>1. a = [req |-> r, code |-> code]
    BY <1>1
  <2>2. a.req = r /\ a.code = code
    BY <2>1
  <2>3. SignedByClient(r)
    BY <1>2, <2>2, Zenon
  <2>4. r.body.rid # ""
    BY <1>2, <2>2, Zenon
  <2> QED
    BY <2>2, <2>3, <2>4
<1> QED
  BY <1>2, Zenon DEF SignedRequestUnderstood

(* A request signed by the repository's client, with a request_id, is only  *)
(* ever admitted, late or repeated, if the connector has a secret at all.   *)
THEOREM ClientIsUnderstood ==
    ASSUME ConnectorHmacSecret # NoSecret
    PROVE  Spec => []SignedRequestUnderstood
<1>1. Init => SignedRequestUnderstood
  BY DEF Init, SignedRequestUnderstood
<1>2. SignedRequestUnderstood /\ [Next]_gateVars => SignedRequestUnderstood'
  <2> SUFFICES ASSUME SignedRequestUnderstood, [Next]_gateVars PROVE SignedRequestUnderstood'
    OBVIOUS
  <2>1. ASSUME NEW r \in Requests, Refuse(r) PROVE SignedRequestUnderstood'
    <3>1. Reply(r, Refusal(r))
      BY <2>1 DEF Refuse
    <3>2. SignedByClient(r) /\ r.body.rid # "" => Refusal(r) = "stale_timestamp"
      BY <2>1, SignedOnlyLate DEF Refuse
    <3> QED
      BY <3>1, <3>2, AnswerUnderstood
  <2>2. ASSUME NEW r \in Requests, AdmitUnsigned(r) \/ RejectReplay(r) \/ AdmitSigned(r)
        PROVE  SignedRequestUnderstood'
    <3>1. Reply(r, "admitted") \/ Reply(r, "replay_detected")
      BY <2>2 DEF AdmitUnsigned, RejectReplay, AdmitSigned
    <3> QED
      BY <3>1, AnswerUnderstood
  <2>3. CASE Restart \/ Tick \/ SetBack
    BY <2>3 DEF Restart, Tick, SetBack, SignedRequestUnderstood
  <2>4. CASE UNCHANGED gateVars
    BY <2>4 DEF gateVars, SignedRequestUnderstood
  <2> QED
    BY <2>1, <2>2, <2>3, <2>4 DEF Next, Handle
<1> QED
  BY <1>1, <1>2, PTL DEF Spec
=============================================================================
