---------------------------- MODULE ScriptsProofs ----------------------------
(***************************************************************************)
(* Theorems about the checks of an installation.  What is proved of the    *)
(* end-to-end script and of the qualification report in modules of their   *)
(* own holds of them here, because a step of one script is no step of the  *)
(* others; what exit code 0 of the local checks is worth is proved here.   *)
(***************************************************************************)
EXTENDS Scripts, SequenceTheorems, TLAPS

UpstreamFacts == INSTANCE SmokePathProofs
QualifyFacts == INSTANCE QualificationProofs

-----------------------------------------------------------------------------
(* One script at a time                                                     *)

(* Whichever script is started does what its own specification says, and    *)
(* the others do nothing.                                                   *)
THEOREM ImplementsParts == Spec => Upstream!Spec /\ Local!Spec /\ Qualify!Spec
<1>1. Init => Upstream!Init /\ Local!Init /\ Qualify!Init
  BY DEF Init
<1> USE DEF vars, upstreamVars, localVars, qualVars, Upstream!vars, Local!localVars,
            Qualify!qualVars, Qualify!counters, Next, RunUpstream, RunLocal, RunQualification
<1>2. [Next]_vars => [Upstream!Next]_(Upstream!vars)
  OBVIOUS
<1>3. [Next]_vars => [Local!Next]_(Local!localVars)
  OBVIOUS
<1>4. [Next]_vars => [Qualify!Next]_(Qualify!qualVars)
  OBVIOUS
<1> QED
  BY <1>1, <1>2, <1>3, <1>4, PTL DEF Spec, Upstream!Spec, Local!Spec, Qualify!Spec

-----------------------------------------------------------------------------
(* The end-to-end script                                                    *)

(* What the end-to-end script assumes of its constants.                     *)
LEMMA UpstreamAssumptions == UpstreamFacts!SmokeConstants
  BY ScriptConstants, Zenon
  DEF Upstream!SmokeConstants, UpstreamFacts!SmokeConstants, Upstream!SgMetaConstants,
      UpstreamFacts!SgMetaConstants, Upstream!Bytes, UpstreamFacts!Bytes, Upstream!Packs,
      UpstreamFacts!Packs, Upstream!FallbackReasons, UpstreamFacts!FallbackReasons

(* One specification of the end-to-end script.                              *)
LEMMA SameUpstream ==
    /\ Upstream!Init => UpstreamFacts!Init
    /\ [Upstream!Next]_(Upstream!vars) => [UpstreamFacts!Next]_(UpstreamFacts!vars)
  BY Zenon
  DEF Upstream!vars, UpstreamFacts!vars, Upstream!Init, UpstreamFacts!Init, Upstream!Next, UpstreamFacts!Next,
      Upstream!RequestFails, UpstreamFacts!RequestFails, Upstream!Requests, UpstreamFacts!Requests,
      Upstream!Create, UpstreamFacts!Create, Upstream!Upload, UpstreamFacts!Upload, Upstream!Complete,
      UpstreamFacts!Complete, Upstream!Download, UpstreamFacts!Download, Upstream!Decrypt,
      UpstreamFacts!Decrypt, Upstream!Decrypts, UpstreamFacts!Decrypts, Upstream!Scan, UpstreamFacts!Scan,
      Upstream!FallbackDetected, UpstreamFacts!FallbackDetected, Upstream!Advance, UpstreamFacts!Advance,
      Upstream!Detected, UpstreamFacts!Detected, Upstream!Answers, UpstreamFacts!Answers,
      Upstream!FallbackReasons, UpstreamFacts!FallbackReasons, Upstream!Encrypted, UpstreamFacts!Encrypted,
      Upstream!Noise, UpstreamFacts!Noise, Upstream!Package, UpstreamFacts!Package, Upstream!ToBytes,
      UpstreamFacts!ToBytes, Upstream!Extract, UpstreamFacts!Extract, Upstream!IsContainer,
      UpstreamFacts!IsContainer, Upstream!MetaOf, UpstreamFacts!MetaOf, Upstream!MetaEnd,
      UpstreamFacts!MetaEnd, Upstream!Head4, UpstreamFacts!Head4, Upstream!FromBytes, UpstreamFacts!FromBytes,
      Upstream!IsPrefix, UpstreamFacts!IsPrefix, Upstream!Cardinality, UpstreamFacts!Cardinality,
      Upstream!IsFiniteSet, UpstreamFacts!IsFiniteSet

(* The operator sees the end-to-end script as specified.                    *)
LEMMA UpstreamSpec == Spec => UpstreamFacts!Spec
  BY ImplementsParts, SameUpstream, PTL DEF Upstream!Spec, UpstreamFacts!Spec

(* smoke-upstream, as it is started from the Makefile: a saved report tells *)
(* of every scenario and of its own file, for all scenarios.                *)
THEOREM SavedReportIsOfTheScenarios == Spec => []ReportIsOfTheScenarios
<1>1. UpstreamFacts!Spec => []UpstreamFacts!ReportIsOfTheScenarios
  BY UpstreamAssumptions, UpstreamFacts!ReportIsOfTheScenariosHolds
<1>2. UpstreamFacts!ReportIsOfTheScenarios => ReportIsOfTheScenarios
  BY Zenon DEF ReportIsOfTheScenarios, Upstream!ReportIsOfTheScenarios, UpstreamFacts!ReportIsOfTheScenarios
<1> QED
  BY <1>1, <1>2, UpstreamSpec, PTL

(* A strict smoke-upstream that is saved saw no outage, timeout or          *)
(* rejection of Omega, whatever reasons Omega gives for its own verdicts.   *)
THEOREM SavedStrictReportSawNoOutage == Spec => []StrictReportSawNoOutage
<1>1. UpstreamFacts!Spec => []UpstreamFacts!StrictReportSawNoOutage
  BY UpstreamAssumptions, UpstreamFacts!StrictReportSawNoOutageHolds
<1>2. UpstreamFacts!StrictReportSawNoOutage => StrictReportSawNoOutage
  BY Zenon DEF StrictReportSawNoOutage, Upstream!StrictReportSawNoOutage, UpstreamFacts!StrictReportSawNoOutage
<1> QED
  BY <1>1, <1>2, UpstreamSpec, PTL

-----------------------------------------------------------------------------
(* The qualification report                                                 *)

(* What the qualification report assumes of its constants.                  *)
LEMMA QualifyAssumptions == QualifyFacts!QualificationConstants
  BY ScriptConstants, Zenon DEF Qualify!QualificationConstants, QualifyFacts!QualificationConstants

(* One specification of the qualification report.                           *)
LEMMA SameQualify ==
    /\ Qualify!Init => QualifyFacts!Init
    /\ [Qualify!Next]_(Qualify!qualVars) => [QualifyFacts!Next]_(QualifyFacts!qualVars)
  BY Zenon
  DEF Qualify!qualVars, QualifyFacts!qualVars, Qualify!counters, QualifyFacts!counters, Qualify!Init,
      QualifyFacts!Init, Qualify!Next, QualifyFacts!Next, Qualify!Sample, QualifyFacts!Sample,
      Qualify!SampleRaises, QualifyFacts!SampleRaises, Qualify!Write, QualifyFacts!Write,
      Qualify!AtLeastOne, QualifyFacts!AtLeastOne, Qualify!Plus, QualifyFacts!Plus,
      Qualify!ExpectedFallback, QualifyFacts!ExpectedFallback, Qualify!MatrixVerdict,
      QualifyFacts!MatrixVerdict, Qualify!Verdicts, QualifyFacts!Verdicts, Qualify!SampleScenarios,
      QualifyFacts!SampleScenarios, Qualify!QualAnswers, QualifyFacts!QualAnswers, Qualify!Blockers,
      QualifyFacts!Blockers, Qualify!Percentile, QualifyFacts!Percentile, Qualify!Sorted,
      QualifyFacts!Sorted, Qualify!Below, QualifyFacts!Below, Qualify!UpTo, QualifyFacts!UpTo,
      Qualify!Cardinality, QualifyFacts!Cardinality, Qualify!IsFiniteSet, QualifyFacts!IsFiniteSet

(* The operator sees the qualification report as specified.                 *)
LEMMA QualifySpec == Spec => QualifyFacts!Spec
  BY ImplementsParts, SameQualify, PTL DEF Qualify!Spec, QualifyFacts!Spec

(* qualification-report: the report accounts for every request, for every   *)
(* number of samples and all answers.                                       *)
THEOREM QualificationCountsTheSamples == Spec => []ReportCountsTheSamples
<1>1. QualifyFacts!Spec => []QualifyFacts!ReportCountsTheSamples
  BY QualifyAssumptions, QualifyFacts!ReportCountsTheSamplesHolds
<1>2. QualifyFacts!ReportCountsTheSamples => ReportCountsTheSamples
  BY Zenon DEF ReportCountsTheSamples, Qualify!ReportCountsTheSamples, QualifyFacts!ReportCountsTheSamples,
      Qualify!Count, QualifyFacts!Count, Qualify!Cardinality, QualifyFacts!Cardinality,
      Qualify!IsFiniteSet, QualifyFacts!IsFiniteSet, Qualify!SampleScenarios, QualifyFacts!SampleScenarios
<1> QED
  BY <1>1, <1>2, QualifySpec, PTL

(* qualification-report: GO bounds the requests that were left without a    *)
(* verdict of Omega and those that were slow, for all limits.               *)
THEOREM QualificationGoIsEarned == Spec => []GoIsEarned
<1>1. QualifyFacts!Spec => []QualifyFacts!GoIsEarned
  BY QualifyAssumptions, QualifyFacts!GoIsEarnedHolds
<1>2. QualifyFacts!GoIsEarned => GoIsEarned
  BY Zenon DEF GoIsEarned, Qualify!GoIsEarned, QualifyFacts!GoIsEarned, Qualify!AtLeastOne, QualifyFacts!AtLeastOne,
      Qualify!Count, QualifyFacts!Count, Qualify!Cardinality, QualifyFacts!Cardinality,
      Qualify!IsFiniteSet, QualifyFacts!IsFiniteSet
<1> QED
  BY <1>1, <1>2, QualifySpec, PTL

(* qualification-report: the percentiles are in order and within the        *)
(* latencies that were measured, for all latencies.                         *)
THEOREM QualificationPercentilesInOrder == Spec => []PercentilesInOrder
<1>1. QualifyFacts!Spec => []QualifyFacts!PercentilesInOrder
  BY QualifyAssumptions, QualifyFacts!PercentilesInOrderHolds
<1>2. QualifyFacts!PercentilesInOrder => PercentilesInOrder
  BY Zenon DEF PercentilesInOrder, Qualify!PercentilesInOrder, QualifyFacts!PercentilesInOrder
<1> QED
  BY <1>1, <1>2, QualifySpec, PTL

-----------------------------------------------------------------------------
(* The local checks                                                         *)

(* The loop asks one after the other and stops after the last.              *)
LoopInv ==
    /\ tool \in {"health", "smoke"}
    /\ asked \in Nat
    /\ asked <= Local!ToAsk
    /\ exit = "running" => asked < Local!ToAsk
    /\ exit = "ok" => asked = Local!ToAsk /\ failures = {}

(* Without a failure noted, every service asked so far has answered.        *)
HealthInv ==
    tool = "health" /\ failures = {} => \A i \in 1 .. asked : Services[i] \in answeredBy

(* One verdict per scenario, and without a failure noted the expected ones. *)
SmokeInv ==
    tool = "smoke" =>
        /\ verdicts \in Seq(VerdictTexts) /\ Len(verdicts) = asked
        /\ strict /\ failures = {} => \A i \in 1 .. asked : verdicts[i] = Expected[i]

LocalInv == LoopInv /\ HealthInv /\ SmokeInv

(* There is something to ask.                                               *)
LEMMA Lengths == Len(Services) \in Nat \ {0} /\ Len(Expected) \in Nat \ {0}
  BY ScriptConstants, LenProperties DEF Local!LocalConstants

(* Before the first request.                                                *)
LEMMA InitLocalInv == Local!Init => LocalInv
  BY Lengths DEF Local!Init, LocalInv, LoopInv, HealthInv, SmokeInv, Local!ToAsk

(* One more request, and the end of main() after the last.                  *)
LEMMA AskKeepsLoop ==
    ASSUME LoopInv, exit = "running", NEW fails, Local!Ask(fails)
    PROVE  LoopInv'
<1>1. Local!ToAsk' = Local!ToAsk /\ Local!ToAsk \in Nat
  BY Lengths DEF Local!ToAsk, Local!Ask
<1>2. /\ tool' = tool /\ asked' = asked + 1 /\ failures' = fails
      /\ exit' = IF asked + 1 < Local!ToAsk THEN "running" ELSE IF fails = {} THEN "ok" ELSE "failed"
  BY DEF Local!Ask, Local!ExitAfter
<1> QED
  BY <1>1, <1>2 DEF LoopInv

(* Every step of the two loops keeps the invariant.                         *)
LEMMA NextLocalInv == ASSUME LocalInv, [Local!Next]_(Local!localVars) PROVE LocalInv'
<1> USE DEF LocalInv
<1>0. asked \in Nat
  BY DEF LoopInv
<1>1. CASE Local!HealthOk
  <2>1. LoopInv'
    BY <1>1, AskKeepsLoop DEF Local!HealthOk
  <2>2. HealthInv'
    BY <1>0, <1>1 DEF Local!HealthOk, Local!Ask, HealthInv
  <2>3. SmokeInv'
    BY <1>1 DEF Local!HealthOk, Local!Ask, SmokeInv
  <2> QED
    BY <2>1, <2>2, <2>3
<1>2. CASE Local!HealthFails
  <2>1. LoopInv'
    BY <1>2, AskKeepsLoop DEF Local!HealthFails
  <2>2. HealthInv'
    BY <1>2 DEF Local!HealthFails, Local!Ask, HealthInv
  <2>3. SmokeInv'
    BY <1>2 DEF Local!HealthFails, Local!Ask, SmokeInv
  <2> QED
    BY <2>1, <2>2, <2>3
<1>3. CASE Local!SmokeRaises
  <2>1. LoopInv'
    BY <1>3 DEF Local!SmokeRaises, LoopInv, Local!ToAsk
  <2>2. HealthInv' /\ SmokeInv'
    BY <1>3 DEF Local!SmokeRaises, HealthInv, SmokeInv
  <2> QED
    BY <2>1, <2>2
<1>4. ASSUME NEW v \in VerdictTexts, Local!SmokeAnswers(v) PROVE LocalInv'
  <2>1. LoopInv'
    BY <1>4, AskKeepsLoop DEF Local!SmokeAnswers
  <2>2. HealthInv'
    BY <1>4 DEF Local!SmokeAnswers, Local!Ask, HealthInv
  <2>3. SmokeInv'
    <3>1. /\ verdicts \in Seq(VerdictTexts) /\ Len(verdicts) = asked
          /\ verdicts' = Append(verdicts, v) /\ asked' = asked + 1 /\ strict' = strict
      BY <1>4 DEF Local!SmokeAnswers, Local!Ask, SmokeInv
    <3>2. /\ verdicts' \in Seq(VerdictTexts) /\ Len(verdicts') = asked'
          /\ verdicts'[asked + 1] = v /\ \A i \in 1 .. asked : verdicts'[i] = verdicts[i]
      BY <3>1
    <3>3. strict /\ failures' = {} => v = Expected[asked + 1] /\ failures = {}
      BY <1>4 DEF Local!SmokeAnswers, Local!Ask
    <3>4. ASSUME strict, failures' = {}, NEW i \in 1 .. asked + 1 PROVE verdicts'[i] = Expected[i]
      <4>1. CASE i = asked + 1
        BY <3>2, <3>3, <3>4, <4>1
      <4>2. CASE i # asked + 1
        <5>1. i \in 1 .. asked
          BY <1>0, <4>2
        <5> QED
          BY <1>4, <3>2, <3>3, <3>4, <5>1 DEF SmokeInv, Local!SmokeAnswers
      <4> QED
        BY <4>1, <4>2
    <3> QED
      BY <3>1, <3>2, <3>4, Zenon DEF SmokeInv
  <2> QED
    BY <2>1, <2>2, <2>3
<1>5. ASSUME NEW i \in 1 .. Len(Services), Local!Toggle(Services[i]) PROVE LocalInv'
  <2>1. LoopInv'
    BY <1>5 DEF Local!Toggle, LoopInv, Local!ToAsk
  <2>2. HealthInv' /\ SmokeInv'
    BY <1>5 DEF Local!Toggle, HealthInv, SmokeInv
  <2> QED
    BY <2>1, <2>2
<1>6. CASE UNCHANGED Local!localVars
  BY <1>6 DEF Local!localVars, LoopInv, HealthInv, SmokeInv, Local!ToAsk
<1> QED
  BY <1>1, <1>2, <1>3, <1>4, <1>5, <1>6, Zenon DEF Local!Next

(* Exit code 0 of health: every service answered at some moment.  Exit code *)
(* 0 of smoke: the connector answered every scenario, with the expected     *)
(* verdicts if it was strict.  For all services and scenarios.              *)
THEOREM ExitOkOfLocalChecks == Spec => []ExitOkIsEarned
<1>1. LocalInv => ExitOkIsEarned
  <2> SUFFICES ASSUME LocalInv, exit = "ok"
               PROVE  IF tool = "health" THEN \A i \in 1 .. Len(Services) : Services[i] \in answeredBy
                      ELSE Len(verdicts) = Len(Expected) /\ (strict => verdicts = Expected)
    BY DEF ExitOkIsEarned, Local!ExitOkIsEarned
  <2>1. asked = Local!ToAsk /\ failures = {} /\ tool \in {"health", "smoke"}
    BY DEF LocalInv, LoopInv
  <2>2. CASE tool = "health"
    BY <2>1, <2>2 DEF LocalInv, HealthInv, Local!ToAsk
  <2>3. CASE tool = "smoke"
    <3>1. verdicts \in Seq(VerdictTexts) /\ Len(verdicts) = Len(Expected)
      BY <2>1, <2>3 DEF LocalInv, SmokeInv, Local!ToAsk
    <3>2. strict => \A i \in 1 .. Len(verdicts) : verdicts[i] = Expected[i]
      BY <2>1, <2>3 DEF LocalInv, SmokeInv
    <3>3. Expected \in Seq(VerdictTexts)
      BY ScriptConstants DEF Local!LocalConstants
    <3>4. strict => verdicts = Expected
      BY <3>1, <3>2, <3>3, SeqEqual
    <3> QED
      BY <2>3, <3>1, <3>4
  <2> QED
    BY <2>1, <2>2, <2>3
<1>2. Local!Spec => []LocalInv
  BY InitLocalInv, NextLocalInv, PTL DEF Local!Spec
<1> QED
  BY <1>1, <1>2, ImplementsParts, PTL
=============================================================================
