--------------------------- MODULE SmokePathProofs ---------------------------
(***************************************************************************)
(* Theorems about the end-to-end scripts: what is taken out of a container *)
(* is what was put in, for every file and every metadata the format can    *)
(* hold, and so a saved report is about the scenarios' own files.          *)
(***************************************************************************)
EXTENDS SmokePath, SequenceTheorems, TLAPS

-----------------------------------------------------------------------------
(* The length field                                                         *)

(* Quotient and remainder.                                                  *)
LEMMA DivMod ==
    ASSUME NEW n \in Nat, NEW b \in Nat \ {0}
    PROVE  n \div b \in Nat /\ n % b \in 0 .. b - 1 /\ n = b * (n \div b) + (n % b)
<1>1. n \div b \in Int /\ n % b \in 0 .. b - 1 /\ n = b * (n \div b) + (n % b)
  BY SMT
<1>2. ASSUME NEW q \in Int, q < 0 PROVE b * q <= -b
  BY <1>2, SMT
<1> QED
  BY <1>1, <1>2

(* A product grows with its factor.                                         *)
LEMMA TimesMonotone ==
    ASSUME NEW b \in Nat, NEW p \in Int, NEW q \in Int, p <= q
    PROVE  b * p <= b * q
  BY SMT

(* The quotient of a number below b * q is below q.                         *)
LEMMA DivBelow ==
    ASSUME NEW n \in Nat, NEW b \in Nat \ {0}, NEW q \in Nat, n < b * q
    PROVE  n \div b < q
<1> DEFINE d == n \div b
<1>1. d \in Nat /\ n % b \in 0 .. b - 1 /\ n = b * d + (n % b)
  BY DivMod
<1> HIDE DEF d
<1>2. b * d \in Int /\ b * q \in Int
  BY <1>1
<1>3. ASSUME q <= d PROVE FALSE
  <2>1. b * q <= b * d
    BY <1>1, <1>3, TimesMonotone
  <2> QED
    BY <1>1, <1>2, <2>1, SMT
<1>4. d < q
  BY <1>1, <1>3
<1> QED
  BY <1>4 DEF d

(* What from_bytes reads is what to_bytes wrote, if it fits.                *)
LEMMA LengthRoundTrip ==
    ASSUME SgMetaConstants, NEW n \in Nat, n < Base * (Base * (Base * Base))
    PROVE  ToBytes(n) \in Seq(Bytes) /\ Len(ToBytes(n)) = 4 /\ FromBytes(ToBytes(n)) = n
<1> DEFINE q1 == n \div Base
           q2 == q1 \div Base
           q3 == q2 \div Base
<1>0. Base \in Nat /\ Base \in Nat \ {0} /\ Base * Base \in Nat /\ Base * (Base * Base) \in Nat
  BY SMT DEF SgMetaConstants
<1>1. q1 \in Nat /\ n % Base \in Bytes /\ n = Base * q1 + (n % Base)
  BY <1>0, DivMod DEF Bytes
<1>2. q1 < Base * (Base * Base)
  BY <1>0, DivBelow
<1> HIDE DEF q1
<1>3. q2 \in Nat /\ q1 % Base \in Bytes /\ q1 = Base * q2 + (q1 % Base)
  BY <1>0, <1>1, DivMod DEF Bytes
<1>4. q2 < Base * Base
  BY <1>0, <1>1, <1>2, DivBelow
<1> HIDE DEF q2
<1>5. q3 \in Nat /\ q2 % Base \in Bytes /\ q2 = Base * q3 + (q2 % Base)
  BY <1>0, <1>3, DivMod DEF Bytes
<1>6. q3 < Base
  BY <1>0, <1>3, <1>4, DivBelow
<1> HIDE DEF q3
<1>7. q3 % Base = q3 /\ q3 \in Bytes
  BY <1>0, <1>5, <1>6, SMT DEF Bytes
<1>8. ToBytes(n) = <<q3, q2 % Base, q1 % Base, n % Base>>
  BY <1>7, Zenon DEF ToBytes, q1, q2, q3
<1> HIDE DEF ToBytes
<1>9. ToBytes(n)[1] = q3 /\ ToBytes(n)[2] = q2 % Base /\ ToBytes(n)[3] = q1 % Base /\ ToBytes(n)[4] = n % Base
  BY <1>8
<1>10. ToBytes(n) \in Seq(Bytes) /\ Len(ToBytes(n)) = 4
  BY <1>1, <1>3, <1>5, <1>7, <1>8
<1>11. FromBytes(ToBytes(n)) = n
  BY <1>1, <1>3, <1>5, <1>9, Zenon DEF FromBytes
<1> QED
  BY <1>10, <1>11

-----------------------------------------------------------------------------
(* The container                                                            *)

(* A slice of w that agrees with t at every place is t.                     *)
LEMMA SliceIs ==
    ASSUME NEW S, NEW w \in Seq(S), NEW t \in Seq(S), NEW k \in Nat,
           \A i \in 1 .. Len(t) : w[k + i] = t[i]
    PROVE  SubSeq(w, k + 1, k + Len(t)) = t
<1>1. Len(t) \in Nat /\ \A i \in 1 .. Len(t) : t[i] \in S
  BY LenProperties, ElementOfSeq
<1>2. \A i \in k + 1 .. k + Len(t) : w[i] \in S
  <2> TAKE i \in k + 1 .. k + Len(t)
  <2>1. i - k \in 1 .. Len(t) /\ k + (i - k) = i
    BY <1>1
  <2> QED
    BY <1>1, <2>1
<1> DEFINE sub == SubSeq(w, k + 1, k + Len(t))
<1>3. sub \in Seq(S) /\ Len(sub) = Len(t)
  BY <1>1, <1>2, SubSeqProperties
<1>4. \A i \in 1 .. Len(t) : sub[i] = w[k + i]
  BY <1>1, <1>2, SubSeqProperties
<1> HIDE DEF sub
<1>5. sub = t
  BY <1>3, <1>4, SeqEqual
<1> QED
  BY <1>5 DEF sub

(* What each place of a container holds.                                    *)
LEMMA PackageParts ==
    ASSUME SgMetaConstants, NEW meta \in Seq(Bytes), NEW content \in Seq(Bytes), Packs(meta)
    PROVE  LET w == Package(meta, content)
               field == ToBytes(Len(meta))
           IN  /\ w \in Seq(Bytes)
               /\ Len(w) = Len(Magic) + 4 + Len(meta) + Len(content)
               /\ \A i \in 1 .. Len(Magic) : w[i] = Magic[i]
               /\ \A i \in 1 .. 4 : w[Len(Magic) + i] = field[i]
               /\ \A i \in 1 .. Len(meta) : w[Len(Magic) + 4 + i] = meta[i]
               /\ \A i \in 1 .. Len(content) : w[Len(Magic) + 4 + Len(meta) + i] = content[i]
<1> DEFINE field == ToBytes(Len(meta))
           w1 == Magic \o field
           w2 == w1 \o meta
           w == w2 \o content
<1>0. Magic \in Seq(Bytes) /\ Len(Magic) \in Nat /\ Len(meta) \in Nat /\ Len(content) \in Nat
  BY LenProperties DEF SgMetaConstants
<1>1. field \in Seq(Bytes) /\ Len(field) = 4
  BY <1>0, LengthRoundTrip DEF Packs
<1> HIDE DEF field
<1>2. /\ w1 \in Seq(Bytes) /\ Len(w1) = Len(Magic) + 4
      /\ \A i \in 1 .. Len(Magic) + 4 : w1[i] = IF i <= Len(Magic) THEN Magic[i] ELSE field[i - Len(Magic)]
  <2>1. /\ Magic \o field \in Seq(Bytes)
        /\ Len(Magic \o field) = Len(Magic) + Len(field)
        /\ \A i \in 1 .. Len(Magic) + Len(field) : (Magic \o field)[i] = IF i <= Len(Magic) THEN Magic[i] ELSE field[i - Len(Magic)]
    BY <1>0, <1>1, ConcatProperties, Zenon
  <2> QED
    BY <1>0, <1>1, <2>1
<1> HIDE DEF w1
<1>3. /\ w2 \in Seq(Bytes) /\ Len(w2) = Len(Magic) + 4 + Len(meta)
      /\ \A i \in 1 .. Len(w1) + Len(meta) : w2[i] = IF i <= Len(w1) THEN w1[i] ELSE meta[i - Len(w1)]
  <2>1. /\ w1 \o meta \in Seq(Bytes)
        /\ Len(w1 \o meta) = Len(w1) + Len(meta)
        /\ \A i \in 1 .. Len(w1) + Len(meta) : (w1 \o meta)[i] = IF i <= Len(w1) THEN w1[i] ELSE meta[i - Len(w1)]
    BY <1>0, <1>2, ConcatProperties, Zenon
  <2> QED
    BY <1>0, <1>2, <2>1
<1> HIDE DEF w2
<1>4. /\ w \in Seq(Bytes) /\ Len(w) = Len(Magic) + 4 + Len(meta) + Len(content)
      /\ \A i \in 1 .. Len(w2) + Len(content) : w[i] = IF i <= Len(w2) THEN w2[i] ELSE content[i - Len(w2)]
  <2>1. /\ w2 \o content \in Seq(Bytes)
        /\ Len(w2 \o content) = Len(w2) + Len(content)
        /\ \A i \in 1 .. Len(w2) + Len(content) : (w2 \o content)[i] = IF i <= Len(w2) THEN w2[i] ELSE content[i - Len(w2)]
    <3>1. w2 \in Seq(Bytes)
      BY <1>3
    <3> QED
      BY <3>1, ConcatProperties, Zenon
  <2> QED
    BY <1>0, <1>3, <2>1
<1>5. w = Package(meta, content)
  BY Zenon DEF w, w2, w1, field, Package
<1> HIDE DEF w
<1>6. \A i \in 1 .. Len(Magic) : w[i] = Magic[i]
  BY <1>0, <1>2, <1>3, <1>4
<1>7. \A i \in 1 .. 4 : w[Len(Magic) + i] = field[i]
  <2> TAKE i \in 1 .. 4
  <2>1. w[Len(Magic) + i] = w2[Len(Magic) + i] /\ w2[Len(Magic) + i] = w1[Len(Magic) + i]
    BY <1>0, <1>2, <1>3, <1>4
  <2>2. (Len(Magic) + i) - Len(Magic) = i /\ ~(Len(Magic) + i <= Len(Magic))
    BY <1>0
  <2> QED
    BY <1>0, <1>2, <2>1, <2>2
<1>8. \A i \in 1 .. Len(meta) : w[Len(Magic) + 4 + i] = meta[i]
  <2> TAKE i \in 1 .. Len(meta)
  <2>1. w[Len(Magic) + 4 + i] = w2[Len(Magic) + 4 + i]
    BY <1>0, <1>2, <1>3, <1>4
  <2>2. (Len(Magic) + 4 + i) - Len(w1) = i /\ ~(Len(Magic) + 4 + i <= Len(w1))
    BY <1>0, <1>2
  <2> QED
    BY <1>0, <1>2, <1>3, <2>1, <2>2
<1>9. \A i \in 1 .. Len(content) : w[Len(Magic) + 4 + Len(meta) + i] = content[i]
  <2> TAKE i \in 1 .. Len(content)
  <2>2. (Len(Magic) + 4 + Len(meta) + i) - Len(w2) = i /\ ~(Len(Magic) + 4 + Len(meta) + i <= Len(w2))
    BY <1>0, <1>3
  <2> QED
    BY <1>0, <1>3, <1>4, <2>2
<1> QED
  BY <1>4, <1>5, <1>6, <1>7, <1>8, <1>9, Zenon DEF field

(* sgmeta: what is taken out of a container is what was put in, for every   *)
(* file, and for metadata of every length the four bytes can count.         *)
THEOREM ExtractsWhatWasPacked ==
    ASSUME SgMetaConstants, NEW meta \in Seq(Bytes), NEW content \in Seq(Bytes),
           Packs(meta), meta \in IsJson
    PROVE  Extract(Package(meta, content)) = [meta |-> {meta}, content |-> content]
<1> DEFINE w == Package(meta, content)
           field == ToBytes(Len(meta))
<1>0. Magic \in Seq(Bytes) /\ Len(Magic) \in Nat /\ Len(meta) \in Nat /\ Len(content) \in Nat
  BY LenProperties DEF SgMetaConstants
<1>1. /\ w \in Seq(Bytes)
      /\ Len(w) = Len(Magic) + 4 + Len(meta) + Len(content)
      /\ \A i \in 1 .. Len(Magic) : w[i] = Magic[i]
      /\ \A i \in 1 .. 4 : w[Len(Magic) + i] = field[i]
      /\ \A i \in 1 .. Len(meta) : w[Len(Magic) + 4 + i] = meta[i]
      /\ \A i \in 1 .. Len(content) : w[Len(Magic) + 4 + Len(meta) + i] = content[i]
  BY PackageParts, Zenon
<1>2. field \in Seq(Bytes) /\ Len(field) = 4 /\ FromBytes(field) = Len(meta)
  BY <1>0, LengthRoundTrip DEF Packs
<1> HIDE DEF w, field
<1>3. IsPrefix(Magic, w)
  <2>1. \A i \in 1 .. Len(Magic) : w[0 + i] = Magic[i]
    BY <1>0, <1>1
  <2>2. SubSeq(w, 0 + 1, 0 + Len(Magic)) = Magic
    BY <1>0, <1>1, <2>1, SliceIs
  <2>3. SubSeq(w, 1, Len(Magic)) = Magic
    BY <1>0, <2>2
  <2>4. SubSeq(Magic, 1, Len(Magic)) = Magic
    BY <1>0, SubSeqFull
  <2> QED
    BY <1>0, <1>1, <2>3, <2>4 DEF IsPrefix
<1>4. SubSeq(w, Len(Magic) + 1, Head4) = field
  <2>1. SubSeq(w, Len(Magic) + 1, Len(Magic) + Len(field)) = field
    <3>1. \A i \in 1 .. Len(field) : w[Len(Magic) + i] = field[i]
      BY <1>1, <1>2
    <3>2. w \in Seq(Bytes) /\ field \in Seq(Bytes) /\ Len(Magic) \in Nat
      BY <1>0, <1>1, <1>2
    <3> QED
      BY <3>1, <3>2, SliceIs, Zenon
  <2> QED
    BY <1>2, <2>1 DEF Head4
<1>5. MetaEnd(w) = Len(Magic) + 4 + Len(meta)
  BY <1>0, <1>2, <1>4 DEF MetaEnd, Head4
<1>6. MetaOf(w) = meta
  <2> DEFINE k == Len(Magic) + 4
  <2>1. k \in Nat /\ \A i \in 1 .. Len(meta) : w[k + i] = meta[i]
    BY <1>0, <1>1
  <2> HIDE DEF k
  <2>2. SubSeq(w, k + 1, k + Len(meta)) = meta
    BY <1>1, <2>1, SliceIs
  <2> QED
    BY <1>5, <2>2 DEF MetaOf, Head4, k
<1>7. SubSeq(w, MetaEnd(w) + 1, Len(w)) = content
  <2> DEFINE k == Len(Magic) + 4 + Len(meta)
  <2>1. k \in Nat /\ \A i \in 1 .. Len(content) : w[k + i] = content[i]
    BY <1>0, <1>1
  <2> HIDE DEF k
  <2>2. SubSeq(w, k + 1, k + Len(content)) = content
    BY <1>1, <2>1, SliceIs
  <2> QED
    BY <1>1, <1>5, <2>2 DEF k
<1>8. IsContainer(w)
  BY <1>0, <1>1, <1>3, <1>5, <1>6 DEF IsContainer, Head4
<1> QED
  BY <1>6, <1>7, <1>8 DEF Extract, w

-----------------------------------------------------------------------------
(* The scenario loop                                                        *)

Stages == Requests \cup {"decrypt", "raised", "saved"}
Payloads == {Encrypted(i) : i \in 1 .. Len(Scenarios)} \cup {Noise}
FileOf(i) == [meta |-> {Scenarios[i].meta}, content |-> Scenarios[i].content]
Entries == [files : {{FileOf(i)} : i \in 1 .. Len(Scenarios)}, answer : Answers]

Done == IF stage = "saved" THEN Len(Scenarios) ELSE idx - 1

SmokeTypeOK ==
    /\ stage \in Stages
    /\ idx \in 1 .. Len(Scenarios)
    /\ store \in [DOMAIN store -> [payload : Payloads, complete : BOOLEAN]]
    /\ results \in Seq(Entries)

(* What was downloaded is some payload, and once it is opened it is that of *)
(* the scenario at work: the key and the tag hold it to that.               *)
FetchedInv ==
    /\ stage = "decrypt" => \E p \in Payloads : fetched = {p}
    /\ stage = "scan" => fetched = {Encrypted(idx)}

(* The entries are those of the scenarios before the one at work.           *)
EntriesInv ==
    /\ Len(results) = Done
    /\ \A i \in 1 .. Len(results) :
          /\ results[i].files = {FileOf(i)}
          /\ StrictNoFallback => Detected(results[i].answer.reasons) = {}

SmokeInv == SmokeTypeOK /\ FetchedInv /\ EntriesInv

(* What is scanned is the scenario's own file.                              *)
LEMMA PlainIsTheFile ==
    ASSUME SmokeConstants, NEW i \in 1 .. Len(Scenarios)
    PROVE  {Extract(p.plain) : p \in {Encrypted(i)}} = {FileOf(i)}
<1>1. SgMetaConstants /\ Scenarios[i] \in [meta : Seq(Bytes), content : Seq(Bytes)]
  BY ElementOfSeq DEF SmokeConstants
<1>2. Scenarios[i].meta \in IsJson /\ Packs(Scenarios[i].meta)
  BY DEF SmokeConstants
<1>3. Scenarios[i].meta \in Seq(Bytes) /\ Scenarios[i].content \in Seq(Bytes)
  BY <1>1
<1>4. Extract(Package(Scenarios[i].meta, Scenarios[i].content)) = FileOf(i)
  BY <1>1, <1>2, <1>3, ExtractsWhatWasPacked, Zenon DEF FileOf
<1>5. Encrypted(i).plain = Package(Scenarios[i].meta, Scenarios[i].content)
  BY DEF Encrypted
<1> QED
  BY <1>4, <1>5, Zenon

(* A payload the key of scenario i opens is that scenario's.                *)
LEMMA OpensItsOwn ==
    ASSUME NEW i \in 1 .. Len(Scenarios), NEW p \in Payloads, Decrypts(i, p)
    PROVE  p = Encrypted(i)
  BY DEF Payloads, Decrypts, Encrypted, Noise

(* Before the first transfer.                                               *)
LEMMA InitSmokeInv ==
    ASSUME SmokeConstants, Init
    PROVE  SmokeInv
<1>1. Len(Scenarios) \in Nat /\ Len(Scenarios) > 0
  BY LenProperties DEF SmokeConstants
<1>2. SmokeTypeOK
  BY <1>1 DEF Init, SmokeTypeOK, Stages, Requests
<1>3. FetchedInv /\ EntriesInv
  BY <1>1 DEF Init, FetchedInv, EntriesInv, Done
<1> QED
  BY <1>2, <1>3 DEF SmokeInv

(* Every step of run() keeps the invariant.                                 *)
LEMMA NextSmokeInv ==
    ASSUME SmokeConstants, SmokeInv, [Next]_vars
    PROVE  SmokeInv'
<1> USE DEF SmokeInv
<1>0. Len(Scenarios) \in Nat /\ Len(Scenarios) > 0
  BY LenProperties DEF SmokeConstants
<1>1. CASE RequestFails
  <2>1. SmokeTypeOK'
    BY <1>1 DEF RequestFails, SmokeTypeOK, Stages
  <2>2. FetchedInv'
    BY <1>1 DEF RequestFails, FetchedInv
  <2>3. EntriesInv'
    BY <1>1 DEF RequestFails, EntriesInv, Done, Requests
  <2> QED
    BY <2>1, <2>2, <2>3
<1>2. CASE Create
  <2>1. SmokeTypeOK'
    BY <1>2 DEF Create, SmokeTypeOK, Stages, Requests, Payloads
  <2>2. FetchedInv'
    BY <1>2 DEF Create, FetchedInv
  <2>3. EntriesInv'
    BY <1>2 DEF Create, EntriesInv, Done
  <2> QED
    BY <2>1, <2>2, <2>3
<1>3. CASE Upload
  <2>1. SmokeTypeOK'
    <3>1. Encrypted(idx) \in Payloads
      BY DEF SmokeTypeOK, Payloads
    <3> QED
      BY <1>3, <3>1 DEF Upload, SmokeTypeOK, Stages, Requests
  <2>2. FetchedInv'
    BY <1>3 DEF Upload, FetchedInv
  <2>3. EntriesInv'
    BY <1>3 DEF Upload, EntriesInv, Done
  <2> QED
    BY <2>1, <2>2, <2>3
<1>4. CASE Complete
  <2>1. SmokeTypeOK'
    BY <1>4 DEF Complete, SmokeTypeOK, Stages, Requests
  <2>2. FetchedInv'
    BY <1>4 DEF Complete, FetchedInv
  <2>3. EntriesInv'
    BY <1>4 DEF Complete, EntriesInv, Done
  <2> QED
    BY <2>1, <2>2, <2>3
<1>5. CASE Download
  <2>1. SmokeTypeOK'
    BY <1>5 DEF Download, SmokeTypeOK, Stages
  <2>2. FetchedInv'
    <3>1. \A t \in DOMAIN store : store[t].payload \in Payloads
      BY DEF SmokeTypeOK
    <3>2. Noise \in Payloads
      BY DEF Payloads
    <3> QED
      BY <1>5, <3>1, <3>2 DEF Download, FetchedInv
  <2>3. EntriesInv'
    BY <1>5 DEF Download, EntriesInv, Done
  <2> QED
    BY <2>1, <2>2, <2>3
<1>6. CASE Decrypt
  <2>1. SmokeTypeOK'
    BY <1>6 DEF Decrypt, SmokeTypeOK, Stages, Requests
  <2>2. FetchedInv'
    BY <1>6, OpensItsOwn DEF Decrypt, FetchedInv, SmokeTypeOK
  <2>3. EntriesInv'
    BY <1>6 DEF Decrypt, EntriesInv, Done
  <2> QED
    BY <2>1, <2>2, <2>3
<1>7. ASSUME NEW a \in Answers, Scan(a) PROVE SmokeInv'
  <2> DEFINE entry == [files |-> {FileOf(idx)}, answer |-> a]
  <2>1. {Extract(p.plain) : p \in fetched} = {FileOf(idx)}
    BY <1>7, PlainIsTheFile DEF Scan, FetchedInv, SmokeTypeOK
  <2>2. entry \in Entries /\ results' = Append(results, entry)
    BY <1>7, <2>1 DEF Scan, Entries, SmokeTypeOK
  <2>3. StrictNoFallback => Detected(entry.answer.reasons) = {}
    BY <1>7 DEF Scan
  <2>4. entry.files = {FileOf(idx)}
    OBVIOUS
  <2> HIDE DEF entry
  <2>5. Len(results) = idx - 1 /\ idx \in 1 .. Len(Scenarios)
    BY <1>7 DEF Scan, EntriesInv, Done, SmokeTypeOK
  <2>6. results' \in Seq(Entries) /\ Len(results') = idx
    BY <2>2, <2>5 DEF SmokeTypeOK
  <2>7. results'[idx] = entry /\ \A i \in 1 .. idx - 1 : results'[i] = results[i]
    BY <2>2, <2>5 DEF SmokeTypeOK
  <2>8. SmokeTypeOK'
    BY <1>0, <1>7, <2>6 DEF Scan, Advance, SmokeTypeOK, Stages, Requests
  <2>9. FetchedInv'
    BY <1>7 DEF Scan, Advance, FetchedInv
  <2>10. Done' = idx
    BY <1>0, <1>7, <2>5 DEF Scan, Advance, Done
  <2>11. ASSUME NEW i \in 1 .. idx
         PROVE  /\ results'[i].files = {FileOf(i)}
                /\ StrictNoFallback => Detected(results'[i].answer.reasons) = {}
    <3>1. CASE i = idx
      BY <2>3, <2>4, <2>7, <3>1, Zenon
    <3>2. CASE i # idx
      <4>1. i \in 1 .. idx - 1 /\ i \in 1 .. Len(results)
        BY <2>5, <3>2
      <4> QED
        BY <2>7, <4>1, Zenon DEF EntriesInv
    <3> QED
      BY <3>1, <3>2
  <2>12. EntriesInv'
    BY <2>6, <2>10, <2>11, Zenon DEF EntriesInv, FileOf, Detected
  <2> QED
    BY <2>8, <2>9, <2>12
<1>8. ASSUME NEW a \in Answers, FallbackDetected(a) PROVE SmokeInv'
  <2>1. SmokeTypeOK'
    BY <1>8 DEF FallbackDetected, SmokeTypeOK, Stages
  <2>2. FetchedInv'
    BY <1>8 DEF FallbackDetected, FetchedInv
  <2>3. EntriesInv'
    BY <1>8 DEF FallbackDetected, EntriesInv, Done
  <2> QED
    BY <2>1, <2>2, <2>3
<1>9. CASE UNCHANGED vars
  BY <1>9 DEF vars, SmokeTypeOK, FetchedInv, EntriesInv, Done
<1> QED
  BY <1>1, <1>2, <1>3, <1>4, <1>5, <1>6, <1>7, <1>8, <1>9, Zenon DEF Next

(* The invariant of the end-to-end script.                                  *)
LEMMA SmokeInvariant ==
    ASSUME SmokeConstants
    PROVE  Spec => []SmokeInv
<1>1. Init => SmokeInv
  BY InitSmokeInv
<1>2. SmokeInv /\ [Next]_vars => SmokeInv'
  BY NextSmokeInv
<1> QED
  BY <1>1, <1>2, PTL DEF Spec

-----------------------------------------------------------------------------
(* Theorems                                                                 *)

(* A saved report tells of every scenario, in order, and of its own file,   *)
(* whatever bytes SGraph handed out, for all scenarios.                     *)
THEOREM ReportIsOfTheScenariosHolds ==
    ASSUME SmokeConstants
    PROVE  Spec => []ReportIsOfTheScenarios
<1>1. SmokeInv => ReportIsOfTheScenarios
  BY DEF SmokeInv, EntriesInv, Done, FileOf, ReportIsOfTheScenarios
<1> QED
  BY <1>1, SmokeInvariant, PTL

(* A strict run that is saved saw no outage, timeout or rejection of Omega, *)
(* whatever reasons Omega gives for its own verdicts.                       *)
THEOREM StrictReportSawNoOutageHolds ==
    ASSUME SmokeConstants
    PROVE  Spec => []StrictReportSawNoOutage
<1>1. SmokeInv => StrictReportSawNoOutage
  <2> SUFFICES ASSUME SmokeInv, StrictNoFallback, stage = "saved",
                      NEW i \in 1 .. Len(results), results[i].answer.fallback
               PROVE  results[i].answer.reasons = {"invalid_response"}
    BY DEF StrictReportSawNoOutage
  <2>1. results[i] \in Entries
    BY ElementOfSeq DEF SmokeInv, SmokeTypeOK
  <2>2. PICK r \in FallbackReasons : results[i].answer.reasons = {r}
    BY <2>1 DEF Entries, Answers
  <2>3. r \notin StartsWithOmega
    BY <2>2 DEF SmokeInv, EntriesInv, Detected
  <2>4. r = "invalid_response"
    BY <2>3 DEF SmokeConstants
  <2> QED
    BY <2>2, <2>4
<1> QED
  BY <1>1, SmokeInvariant, PTL
=============================================================================
