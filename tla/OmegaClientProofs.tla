------------------------- MODULE OmegaClientProofs -------------------------
(***************************************************************************)
(* Theorems about the breaker and the retry loop, for every number of      *)
(* concurrent calls and every setting of the constructor.                  *)
(***************************************************************************)
EXTENDS OmegaClient, FiniteSetTheorems, TLAPS

(* The clamps of the constructor.                                           *)
LEMMA ClampTypes ==
    RetryCount \in Nat /\ BreakerFails \in Nat \ {0} /\ BreakerReset \in Nat \ {0}
  BY OmegaConstants DEF OmegaConstants, RetryCount, BreakerFails, BreakerReset, AtLeast

(* What the constructors of this module build.                              *)
LEMMA OutcomeTypes ==
    /\ \A e \in AttemptErrors : Raised(e) \in Outcomes
    /\ Raised("circuit_open") \in Outcomes /\ Nothing \in Outcomes
    /\ Raised("rejected") \in Answers
    /\ \A b \in OkBodies : Returned(b) \in Answers
    /\ Answers \subseteq Outcomes
  BY DEF Outcomes, Answers

-----------------------------------------------------------------------------
(* Type correctness                                                         *)

(* The end of a coroutine keeps the table of calls well formed.             *)
LEMMA FinishType ==
    ASSUME TypeOK, NEW c \in Calls, NEW o \in Outcomes, Finish(c, o)
    PROVE  /\ calls' \in [Calls -> CallStates]
           /\ \A d \in Calls : calls'[d].pc = "waiting" => calls'[d].attempt \in Attempts
  BY DEF TypeOK, Finish, Ended, CallStates, Waiting

(* Closing a connection only removes answers.                               *)
LEMMA CloseType ==
    ASSUME TypeOK, NEW c \in Calls, CloseConnection(c)
    PROVE  replies' \subseteq [attempt : Calls \X Attempts, answer : Answers]
  BY DEF TypeOK, CloseConnection

(* A delivered answer is one of the answers.                                *)
LEMMA DeliverType ==
    ASSUME TypeOK, NEW a \in wire, NEW o \in Answers, Deliver(a, o)
    PROVE  replies' \subseteq [attempt : Calls \X Attempts, answer : Answers]
  BY DEF TypeOK, Deliver

(* Counting a failure keeps the breaker well formed.                        *)
LEMMA RecordFailureType ==
    ASSUME TypeOK, NEW c \in Calls, RecordFailure(c)
    PROVE  failure_count' \in Nat /\ opened_until_ts' \in Nat /\ failed' \subseteq Calls
           /\ lastFailedAt' \in Nat
  BY ClampTypes, OmegaConstants DEF TypeOK, RecordFailure, OmegaConstants

(* Every step of the client keeps its state well formed.                    *)
LEMMA TypeInductive ==
    ASSUME TypeOK, [Next]_omegaVars PROVE TypeOK'
<1> USE OmegaConstants, ClampTypes DEF Waiting, clock
<1>1. ASSUME NEW c \in Calls, StartRefused(c) \/ StartRaises(c) PROVE TypeOK'
  <2>1. PICK o \in {Raised("circuit_open"), Raised("client_error")} : Finish(c, o)
    BY <1>1 DEF StartRefused, StartRaises
  <2>2. UNCHANGED <<clock, breaker, network>>
    BY <1>1 DEF StartRefused, StartRaises
  <2>3. o \in Outcomes
    BY OutcomeTypes DEF AttemptErrors
  <2> QED
    BY <2>1, <2>2, <2>3, FinishType DEF TypeOK, breaker, network
<1>2. ASSUME NEW c \in Calls, StartCall(c) PROVE TypeOK'
  <2>1. 1 \in Attempts /\ now \in Nat
    BY DEF Attempts, TypeOK, OmegaConstants
  <2>2. calls' \in [Calls -> CallStates] /\ \A d \in Calls : calls'[d].pc = "waiting" => calls'[d].attempt \in Attempts
    BY <1>2, <2>1, OutcomeTypes DEF StartCall, TypeOK, CallStates
  <2> QED
    BY <1>2, <2>1, <2>2 DEF StartCall, TypeOK, breaker
<1>3. ASSUME NEW c \in Calls, ReceiveOk(c) PROVE TypeOK'
  <2>1. PICK b \in OkBodies : Finish(c, Returned(b))
    BY <1>3 DEF ReceiveOk
  <2>2. CloseConnection(c) /\ RecordSuccess /\ UNCHANGED <<clock, wire, seen, scans>>
    BY <1>3 DEF ReceiveOk
  <2>3. Returned(b) \in Outcomes
    BY OutcomeTypes
  <2> QED
    BY <2>1, <2>2, <2>3, FinishType, CloseType DEF TypeOK, RecordSuccess
<1>4. ASSUME NEW c \in Calls, ReceiveRejected(c) PROVE TypeOK'
  <2>1. /\ Finish(c, Raised("rejected")) /\ CloseConnection(c)
        /\ UNCHANGED <<clock, breaker, wire, seen, scans>>
    BY <1>4 DEF ReceiveRejected
  <2> QED
    BY <2>1, FinishType, CloseType, OutcomeTypes DEF TypeOK, breaker
<1>5. ASSUME NEW c \in Calls, NEW e \in AttemptErrors, RetryAttempt(c, e) PROVE TypeOK'
  <2>1. calls[c].attempt + 1 \in Attempts
    BY <1>5 DEF RetryAttempt, LastAttempt, TypeOK, Attempts
  <2>2. calls' \in [Calls -> CallStates] /\ \A d \in Calls : calls'[d].pc = "waiting" => calls'[d].attempt \in Attempts
    BY <1>5, <2>1 DEF RetryAttempt, TypeOK, CallStates
  <2>3. wire' \subseteq Calls \X Attempts
    BY <1>5, <2>1 DEF RetryAttempt, TypeOK
  <2> QED
    BY <1>5, <2>2, <2>3, CloseType DEF RetryAttempt, TypeOK, breaker
<1>6. ASSUME NEW c \in Calls, NEW e \in AttemptErrors, ExhaustAttempts(c, e) PROVE TypeOK'
  <2>1. /\ Finish(c, Raised(e)) /\ CloseConnection(c) /\ RecordFailure(c)
        /\ UNCHANGED <<clock, wire, seen, scans>>
    BY <1>6 DEF ExhaustAttempts
  <2> QED
    BY <2>1, FinishType, CloseType, OutcomeTypes, RecordFailureType DEF TypeOK
<1>7. ASSUME NEW a \in wire, OmegaScans(a) PROVE TypeOK'
  <2>1. replies' \subseteq [attempt : Calls \X Attempts, answer : Answers]
    BY <1>7, OutcomeTypes, DeliverType DEF OmegaScans, TypeOK
  <2>2. scans' \in [Calls -> Nat]
    BY <1>7 DEF OmegaScans, TypeOK
  <2> QED
    BY <1>7, <2>1, <2>2 DEF OmegaScans, TypeOK, breaker
<1>8. ASSUME NEW a \in wire, OmegaRejects(a) PROVE TypeOK'
  BY <1>8, OutcomeTypes, DeliverType DEF OmegaRejects, TypeOK, breaker
<1>9. CASE Restart
  <2>1. calls' \in [Calls -> CallStates] /\ \A d \in Calls : calls'[d].pc # "waiting"
    BY <1>9, OutcomeTypes DEF Restart, Ended, TypeOK, CallStates
  <2> QED
    BY <1>9, <2>1 DEF Restart, TypeOK
<1>10. CASE Tick
  BY <1>10 DEF Tick, TypeOK, breaker, network, OmegaConstants
<1>11. CASE SetBack
  <2>1. PICK d \in 1 .. (MaxSetBack - setBack) : d <= now /\ now' = now - d /\ setBack' = setBack + d
    BY <1>11 DEF SetBack
  <2>2. now' \in 0 .. MaxNow /\ setBack' \in 0 .. MaxSetBack
    BY <2>1 DEF TypeOK, OmegaConstants
  <2> QED
    BY <1>11, <2>2 DEF SetBack, TypeOK, breaker, network
<1>12. CASE UNCHANGED omegaVars
  BY <1>12 DEF omegaVars, TypeOK, breaker, network
<1> QED
  BY <1>1, <1>2, <1>3, <1>4, <1>5, <1>6, <1>7, <1>8, <1>9, <1>10, <1>11, <1>12
  DEF Next, Call, Start, Receive, FailAttempt, External

(* The type invariant of the client, for every configuration.               *)
THEOREM TypeCorrect == Spec => []TypeOK
<1>1. Init => TypeOK
  BY OmegaConstants, OutcomeTypes
  DEF Init, TypeOK, OmegaConstants, Idle, CallStates, Waiting
<1>2. TypeOK /\ [Next]_omegaVars => TypeOK'
  BY TypeInductive
<1> QED
  BY <1>1, <1>2, PTL DEF Spec

-----------------------------------------------------------------------------
(* The breaker as a function of the calls                                   *)

(* A call that is over is not touched again.                               *)
LEMMA DoneUntouched ==
    ASSUME TypeOK, [Next]_omegaVars, NEW d \in Calls, calls[d].pc = "done"
    PROVE  calls'[d].pc = "done"
<1> USE DEF Waiting
<1>0. calls \in [Calls -> CallStates]
  BY DEF TypeOK
<1>1. ASSUME NEW c \in Calls, Start(c)
      PROVE  calls'[d] = calls[d]
  BY <1>0, <1>1 DEF Start, StartRefused, StartRaises, StartCall, Finish, Ended
<1>2. ASSUME NEW c \in Calls, ReceiveOk(c) \/ ReceiveRejected(c)
      PROVE  calls'[d] = calls[d]
  BY <1>0, <1>2 DEF ReceiveOk, ReceiveRejected, Finish, Ended
<1>3. ASSUME NEW c \in Calls, NEW e, RetryAttempt(c, e) \/ ExhaustAttempts(c, e)
      PROVE  calls'[d] = calls[d]
  BY <1>0, <1>3 DEF RetryAttempt, ExhaustAttempts, Finish, Ended
<1>4. ASSUME NEW a \in wire, OmegaScans(a) \/ OmegaRejects(a)
      PROVE  calls'[d] = calls[d]
  BY <1>4 DEF OmegaScans, OmegaRejects
<1>5. CASE Restart
  BY <1>0, <1>5 DEF Restart, Ended
<1>6. CASE Tick \/ SetBack \/ UNCHANGED omegaVars
  BY <1>0, <1>6 DEF Tick, SetBack, omegaVars
<1> QED
  BY <1>0, <1>1, <1>2, <1>3, <1>4, <1>5, <1>6
  DEF Next, Call, Start, Receive, FailAttempt, External

(* Every step counts only calls that are over as failed.                    *)
LEMMA FailedInductive ==
    ASSUME TypeOK, FailedAreDone, [Next]_omegaVars PROVE FailedAreDone'
<1>1. \A d \in failed : calls'[d].pc = "done"
  BY DoneUntouched DEF FailedAreDone, TypeOK
<1>2. ASSUME NEW c \in Calls, NEW e \in AttemptErrors, ExhaustAttempts(c, e)
      PROVE  FailedAreDone'
  <2>1. failed' = failed \cup {c}
    BY <1>2 DEF ExhaustAttempts, RecordFailure
  <2>2. calls'[c].pc = "done"
    BY <1>2 DEF ExhaustAttempts, Finish, Ended, TypeOK, CallStates
  <2> QED
    BY <1>1, <2>1, <2>2 DEF FailedAreDone
<1>3. CASE failed' \subseteq failed
  BY <1>1, <1>3 DEF FailedAreDone
<1>4. ASSUME NEW c \in Calls, NEW e \in AttemptErrors,
             Start(c) \/ Receive(c) \/ RetryAttempt(c, e)
      PROVE  failed' \subseteq failed
  BY <1>4 DEF Start, StartRefused, StartRaises, StartCall, Receive, ReceiveOk, ReceiveRejected, RetryAttempt,
              RecordSuccess, breaker
<1>5. ASSUME External \/ Restart \/ Tick \/ SetBack \/ UNCHANGED omegaVars PROVE failed' \subseteq failed
  BY <1>5 DEF External, OmegaScans, OmegaRejects, Restart, Tick, SetBack, omegaVars, breaker
<1>6. AttemptErrors # {}
  BY DEF AttemptErrors
<1> QED
  BY <1>2, <1>3, <1>4, <1>5, <1>6 DEF Next, Call, Start, FailAttempt

(* A call that counts as failed is over: none counts twice.                 *)
LEMMA FailedHolds == Spec => []FailedAreDone
<1>1. Init => FailedAreDone
  BY DEF Init, FailedAreDone
<1>2. TypeOK /\ FailedAreDone /\ [Next]_omegaVars => FailedAreDone'
  BY FailedInductive
<1> QED
  BY <1>1, <1>2, TypeCorrect, PTL DEF Spec

(* The failed calls are a finite set, and one more counts one more.         *)
LEMMA CountFailed ==
    ASSUME TypeOK
    PROVE  /\ Cardinality(failed) \in Nat
           /\ \A c \in Calls : c \notin failed => Cardinality(failed \cup {c}) = Cardinality(failed) + 1
<1>1. IsFiniteSet(failed)
  BY OmegaConstants, FS_Subset DEF OmegaConstants, TypeOK
<1> QED
  BY <1>1, FS_CardinalityType, FS_AddElement

(* The breaker is open exactly until BREAKER_RESET after the last of        *)
(* BREAKER_FAILS or more failed calls without a success between them.       *)
THEOREM BreakerCorrect == Spec => []BreakerFollowsCalls
<1>1. Init => BreakerFollowsCalls
  BY ClampTypes, FS_EmptySet DEF Init, BreakerFollowsCalls
<1>2. TypeOK /\ FailedAreDone /\ BreakerFollowsCalls /\ [Next]_omegaVars
        => BreakerFollowsCalls'
  <2> SUFFICES ASSUME TypeOK, FailedAreDone, BreakerFollowsCalls, [Next]_omegaVars
               PROVE  BreakerFollowsCalls'
    OBVIOUS
  <2>1. ASSUME NEW c \in Calls, NEW e \in AttemptErrors, ExhaustAttempts(c, e)
        PROVE  BreakerFollowsCalls'
    <3>1. c \notin failed
      BY <2>1 DEF ExhaustAttempts, Waiting, FailedAreDone
    <3>2. Cardinality(failed') = Cardinality(failed) + 1 /\ Cardinality(failed) \in Nat
      BY <2>1, <3>1, CountFailed DEF ExhaustAttempts, RecordFailure
    <3>3. failure_count' = Cardinality(failed')
      BY <2>1, <3>2 DEF ExhaustAttempts, RecordFailure, BreakerFollowsCalls
    <3>4. CASE Cardinality(failed') >= BreakerFails
      BY <2>1, <3>3, <3>4 DEF ExhaustAttempts, RecordFailure, BreakerFollowsCalls
    <3>5. CASE ~(Cardinality(failed') >= BreakerFails)
      <4>1. ~(Cardinality(failed) >= BreakerFails)
        BY <3>2, <3>5, ClampTypes
      <4>2. opened_until_ts' = 0
        BY <2>1, <3>3, <3>5, <4>1 DEF ExhaustAttempts, RecordFailure, BreakerFollowsCalls
      <4> QED
        BY <3>3, <3>5, <4>2 DEF BreakerFollowsCalls
    <3> QED
      BY <3>4, <3>5
  <2>2. ASSUME failed' = {}, failure_count' = 0, opened_until_ts' = 0 PROVE BreakerFollowsCalls'
    BY <2>2, ClampTypes, FS_EmptySet DEF BreakerFollowsCalls
  <2>3. ASSUME UNCHANGED breaker PROVE BreakerFollowsCalls'
    BY <2>3 DEF breaker, BreakerFollowsCalls
  <2>4. ASSUME NEW c \in Calls, NEW e \in AttemptErrors,
               Start(c) \/ ReceiveRejected(c) \/ RetryAttempt(c, e)
        PROVE  UNCHANGED breaker
    BY <2>4 DEF Start, StartRefused, StartRaises, StartCall, ReceiveRejected, RetryAttempt
  <2>5. ASSUME External \/ Tick \/ SetBack \/ UNCHANGED omegaVars PROVE UNCHANGED breaker
    BY <2>5 DEF External, OmegaScans, OmegaRejects, Tick, SetBack, omegaVars
  <2>6. ASSUME NEW c \in Calls, ReceiveOk(c) PROVE BreakerFollowsCalls'
    BY <2>2, <2>6 DEF ReceiveOk, RecordSuccess
  <2>7. CASE Restart
    BY <2>2, <2>7 DEF Restart
  <2>8. AttemptErrors # {}
    BY DEF AttemptErrors
  <2> QED
    BY <2>1, <2>3, <2>4, <2>5, <2>6, <2>7, <2>8 DEF Next, Call, Start, Receive, FailAttempt
<1> QED
  BY <1>1, <1>2, TypeCorrect, FailedHolds, PTL DEF Spec

-----------------------------------------------------------------------------
(* No call begins while the breaker is open                                 *)

(* A call that ends leaves the others where they are.                       *)
LEMMA FinishEffect ==
    ASSUME TypeOK, NEW c \in Calls, NEW o, Finish(c, o)
    PROVE  calls'[c].pc = "done" /\ \A d \in Calls : d # c => calls'[d] = calls[d]
  BY DEF TypeOK, Finish, Ended, CallStates

(* A call that waits after a step that is not its start waited before it,   *)
(* with the same start.                                                     *)
LEMMA StartKept ==
    ASSUME TypeOK, [Next]_omegaVars, NEW d \in Calls, Waiting(d)'
    PROVE  \/ StartCall(d)
           \/ Waiting(d) /\ calls'[d].startedAt = calls[d].startedAt
<1> USE DEF Waiting
<1>0. calls \in [Calls -> CallStates]
  BY DEF TypeOK
<1>1. ASSUME NEW c \in Calls, Start(c)
      PROVE  StartCall(d) \/ calls'[d] = calls[d]
  <2>1. CASE StartRefused(c) \/ StartRaises(c)
    BY <2>1, FinishEffect DEF StartRefused, StartRaises
  <2>2. CASE StartCall(c) /\ c # d
    BY <1>0, <2>2 DEF StartCall
  <2> QED
    BY <1>1, <2>1, <2>2 DEF Start
<1>2. ASSUME NEW c \in Calls, ReceiveOk(c) \/ ReceiveRejected(c) PROVE calls'[d] = calls[d]
  <2>1. \E o : Finish(c, o)
    BY <1>2 DEF ReceiveOk, ReceiveRejected
  <2> QED
    BY <2>1, FinishEffect
<1>3. ASSUME NEW c \in Calls, NEW e, RetryAttempt(c, e) \/ ExhaustAttempts(c, e)
      PROVE  Waiting(d) /\ calls'[d].startedAt = calls[d].startedAt
  <2>1. CASE RetryAttempt(c, e)
    BY <1>0, <2>1 DEF RetryAttempt, CallStates
  <2>2. CASE ExhaustAttempts(c, e)
    BY <1>0, <2>2 DEF ExhaustAttempts, Finish, Ended
  <2> QED
    BY <1>3, <2>1, <2>2
<1>4. ASSUME NEW a \in wire, OmegaScans(a) \/ OmegaRejects(a) PROVE calls'[d] = calls[d]
  BY <1>4 DEF OmegaScans, OmegaRejects
<1>5. CASE Restart
  BY <1>0, <1>5 DEF Restart, Ended, CallStates
<1>6. CASE Tick \/ SetBack \/ UNCHANGED omegaVars
  BY <1>6 DEF Tick, SetBack, omegaVars
<1> QED
  BY <1>1, <1>2, <1>3, <1>4, <1>5, <1>6 DEF Next, Call, Start, Receive, FailAttempt, External

(* The latest time the clock has shown does not decrease.                   *)
LEMMA LatestKept ==
    ASSUME TypeOK, [Next]_omegaVars
    PROVE  /\ now + setBack <= now' + setBack'
           /\ setBack <= setBack'
           /\ now' \in Nat /\ setBack' \in Nat
<1>0. now \in Nat /\ setBack \in Nat /\ MaxSetBack \in Nat
  BY OmegaConstants DEF TypeOK, OmegaConstants
<1> USE <1>0
<1>1. ASSUME UNCHANGED clock
      PROVE  now + setBack <= now' + setBack' /\ setBack <= setBack' /\ now' \in Nat /\ setBack' \in Nat
  BY <1>1 DEF clock
<1>2. ASSUME NEW c \in Calls, Call(c) PROVE UNCHANGED clock
  BY <1>2 DEF Call, Start, StartRefused, StartRaises, StartCall, Receive, ReceiveOk, ReceiveRejected,
              FailAttempt, RetryAttempt, ExhaustAttempts
<1>3. ASSUME External \/ Restart \/ UNCHANGED omegaVars PROVE UNCHANGED clock
  BY <1>3 DEF External, OmegaScans, OmegaRejects, Restart, omegaVars
<1>4. CASE Tick
  BY <1>4 DEF Tick
<1>5. CASE SetBack
  <2>1. PICK d \in 1 .. (MaxSetBack - setBack) : d <= now /\ now' = now - d /\ setBack' = setBack + d
    BY <1>5 DEF SetBack
  <2> QED
    BY <2>1
<1> QED
  BY <1>1, <1>2, <1>3, <1>4, <1>5 DEF Next

(* A step leaves the end of the open period alone, closes the breaker, or   *)
(* moves the end to BREAKER_RESET from now; a failure is dated now.         *)
LEMMA BreakerMoves ==
    ASSUME TypeOK, [Next]_omegaVars
    PROVE  /\ \/ opened_until_ts' = opened_until_ts
              \/ opened_until_ts' = 0
              \/ opened_until_ts' = now + BreakerReset
           /\ lastFailedAt' \in {lastFailedAt, 0, now}
<1> USE DEF breaker
<1>1. ASSUME NEW c \in Calls, Call(c)
      PROVE  /\ \/ opened_until_ts' = opened_until_ts
                \/ opened_until_ts' = 0
                \/ opened_until_ts' = now + BreakerReset
             /\ lastFailedAt' \in {lastFailedAt, 0, now}
  <2>1. CASE Start(c)
    BY <2>1 DEF Start, StartRefused, StartRaises, StartCall
  <2>2. CASE Receive(c)
    BY <2>2 DEF Receive, ReceiveOk, ReceiveRejected, RecordSuccess
  <2>3. CASE FailAttempt(c)
    BY <2>3 DEF FailAttempt, RetryAttempt, ExhaustAttempts, RecordFailure
  <2> QED
    BY <1>1, <2>1, <2>2, <2>3 DEF Call
<1>2. CASE External
  BY <1>2 DEF External, OmegaScans, OmegaRejects
<1>3. CASE Restart \/ Tick \/ SetBack \/ UNCHANGED omegaVars
  BY <1>3 DEF Restart, Tick, SetBack, omegaVars
<1> QED
  BY <1>1, <1>2, <1>3 DEF Next

(* Nothing happens in the future, and no call begins in the open period.    *)
LEMMA StartedHolds == Spec => []StartedBeforeOpening
<1>1. Init => StartedBeforeOpening
  BY DEF Init, StartedBeforeOpening, NoCallSlipsIn, Idle, Waiting
<1>2. TypeOK /\ StartedBeforeOpening /\ [Next]_omegaVars => StartedBeforeOpening'
  <2> SUFFICES ASSUME TypeOK, StartedBeforeOpening, [Next]_omegaVars
               PROVE  StartedBeforeOpening'
    OBVIOUS
  <2>0. /\ now \in Nat /\ setBack \in Nat /\ opened_until_ts \in Nat /\ lastFailedAt \in Nat
        /\ BreakerReset \in Nat \ {0}
    BY OmegaConstants, ClampTypes DEF TypeOK, OmegaConstants
  <2>1. lastFailedAt' <= now' + setBack'
    BY <2>0, BreakerMoves, LatestKept DEF StartedBeforeOpening
  <2>2. ASSUME NEW d \in Calls, Waiting(d)'
        PROVE  /\ calls'[d].startedAt <= now' + setBack'
               /\ \/ calls'[d].startedAt <= opened_until_ts' - BreakerReset + setBack'
                  \/ opened_until_ts' <= calls'[d].startedAt
    <3>1. calls[d].startedAt \in Nat
      BY DEF TypeOK, CallStates
    <3>2. CASE StartCall(d)
      <4>1. calls'[d].startedAt = now /\ UNCHANGED <<now, setBack, opened_until_ts>>
            /\ opened_until_ts <= now
        BY <3>2 DEF StartCall, CanAttempt, clock, breaker, TypeOK
      <4> QED
        BY <2>0, <4>1
    <3>3. CASE Waiting(d) /\ calls'[d].startedAt = calls[d].startedAt
      <4>1. /\ calls[d].startedAt <= now + setBack
            /\ \/ calls[d].startedAt <= opened_until_ts - BreakerReset + setBack
               \/ opened_until_ts <= calls[d].startedAt
        BY <3>3 DEF StartedBeforeOpening, NoCallSlipsIn
      <4> QED
        BY <2>0, <3>1, <3>3, <4>1, LatestKept, BreakerMoves
    <3> QED
      BY <2>2, <3>2, <3>3, StartKept
  <2> QED
    BY <2>1, <2>2 DEF StartedBeforeOpening, NoCallSlipsIn, BreakerReset
<1> QED
  BY <1>1, <1>2, TypeCorrect, PTL DEF Spec

(* No call at work began while the breaker was open.                        *)
THEOREM NoneSlipsIn == Spec => []NoCallSlipsIn
<1>1. StartedBeforeOpening => NoCallSlipsIn
  BY DEF StartedBeforeOpening
<1> QED
  BY <1>1, StartedHolds, PTL

(* No number of failures keeps the breaker open for longer than             *)
(* BREAKER_RESET from any moment, but for the set-back of the clock.        *)
THEOREM OpenIsBounded == Spec => []OpenPeriodBounded
<1>1. TypeOK /\ BreakerFollowsCalls /\ StartedBeforeOpening => OpenPeriodBounded
  BY OmegaConstants, ClampTypes
  DEF TypeOK, OmegaConstants, BreakerFollowsCalls, StartedBeforeOpening, OpenPeriodBounded
<1> QED
  BY <1>1, TypeCorrect, BreakerCorrect, StartedHolds, PTL

(* No setting switches the breaker off.                                     *)
THEOREM BreakerAlwaysWorks == Spec => []BreakerHoldsWhateverIsSet
<1>1. TypeOK /\ BreakerFollowsCalls => BreakerHoldsWhateverIsSet
  <2> SUFFICES ASSUME TypeOK, BreakerFollowsCalls, failed # {},
                      Cardinality(failed) >= OmegaBreakerFails, now <= lastFailedAt
               PROVE  ~CanAttempt
    BY DEF BreakerHoldsWhateverIsSet
  <2>1. Cardinality(failed) \in Nat \ {0}
    BY OmegaConstants, FS_Subset, FS_CardinalityType, FS_EmptySet DEF OmegaConstants, TypeOK
  <2>2. Cardinality(failed) >= BreakerFails
    BY <2>1, OmegaConstants DEF OmegaConstants, BreakerFails, AtLeast
  <2>3. opened_until_ts = lastFailedAt + BreakerReset
    BY <2>2 DEF BreakerFollowsCalls
  <2> QED
    BY <2>3, OmegaConstants, ClampTypes DEF CanAttempt, TypeOK, OmegaConstants
<1> QED
  BY <1>1, TypeCorrect, BreakerCorrect, PTL

-----------------------------------------------------------------------------
(* Scans                                                                    *)

(* Omega alone scans, and remembers the nonce of what it scanned.           *)
LEMMA ScansChange ==
    ASSUME TypeOK, [Next]_omegaVars
    PROVE  \/ UNCHANGED <<scans, seen>>
           \/ \E a \in wire : OmegaScans(a)
<1>1. ASSUME NEW c \in Calls, Call(c) PROVE UNCHANGED <<scans, seen>>
  <2>1. CASE Start(c)
    BY <2>1 DEF Start, StartRefused, StartRaises, StartCall, network
  <2>2. CASE Receive(c)
    BY <2>2 DEF Receive, ReceiveOk, ReceiveRejected
  <2>3. CASE FailAttempt(c)
    BY <2>3 DEF FailAttempt, RetryAttempt, ExhaustAttempts
  <2> QED
    BY <1>1, <2>1, <2>2, <2>3 DEF Call
<1>2. ASSUME NEW a \in wire, OmegaRejects(a) PROVE UNCHANGED <<scans, seen>>
  BY <1>2 DEF OmegaRejects
<1>3. CASE Restart \/ Tick \/ SetBack \/ UNCHANGED omegaVars
  BY <1>3 DEF Restart, Tick, SetBack, omegaVars, network
<1> QED
  BY <1>1, <1>2, <1>3 DEF Next, External

(* An Omega that refuses known nonces scans no document twice, however      *)
(* often its POST is repeated.                                              *)
THEOREM ScannedOnce == Spec => []AtMostOneScan
<1>1. Init => UnseenUnscanned
  BY DEF Init, UnseenUnscanned
<1>2. TypeOK /\ UnseenUnscanned /\ [Next]_omegaVars => UnseenUnscanned'
  <2> SUFFICES ASSUME TypeOK, UnseenUnscanned, [Next]_omegaVars PROVE UnseenUnscanned'
    OBVIOUS
  <2>1. ASSUME UNCHANGED <<scans, seen>> PROVE UnseenUnscanned'
    BY <2>1 DEF UnseenUnscanned
  <2>2. ASSUME NEW a \in wire, OmegaScans(a) PROVE UnseenUnscanned'
    <3>1. a[1] \in Calls /\ scans \in [Calls -> Nat]
      BY DEF TypeOK
    <3>2. /\ scans' = [scans EXCEPT ![a[1]] = @ + 1]
          /\ seen' = seen \cup {a[1]}
          /\ OmegaChecksNonce => a[1] \notin seen
      BY <2>2 DEF OmegaScans, Nonce
    <3> QED
      BY <3>1, <3>2 DEF UnseenUnscanned
  <2> QED
    BY <2>1, <2>2, ScansChange
<1>3. UnseenUnscanned => AtMostOneScan
  BY DEF UnseenUnscanned, AtMostOneScan
<1> QED
  BY <1>1, <1>2, <1>3, TypeCorrect, PTL DEF Spec

(* The kinds of the outcomes.                                               *)
LEMMA OutcomeKinds ==
    /\ Nothing.kind = "none"
    /\ \A k : Raised(k).kind = k
    /\ \A b : Returned(b).kind = "ok"
    /\ \A e \in AttemptErrors : e # "ok" /\ e # "circuit_open"
  BY DEF Nothing, Raised, Returned, AttemptErrors

(* Finish changes only how a call ends.                                     *)
LEMMA FinishFields ==
    ASSUME TypeOK, NEW c \in Calls, NEW o, Finish(c, o)
    PROVE  /\ calls'[c].pc = "done" /\ calls'[c].outcome = o
           /\ calls'[c].attempt = calls[c].attempt
           /\ \A d \in Calls : d # c => calls'[d] = calls[d]
  BY DEF TypeOK, Finish, Ended, CallStates

(* Every step keeps the trail from a scan to its outcome.                   *)
LEMMA TrailInductive ==
    ASSUME TypeOK, ScanTrail, [Next]_omegaVars PROVE ScanTrail'
<1> USE DEF Waiting
<1>0. /\ calls \in [Calls -> CallStates]
      /\ scans \in [Calls -> Nat]
      /\ \A a \in wire : a[1] \in Calls
      /\ \A m \in replies : m.attempt[1] \in Calls
  BY DEF TypeOK
<1>1. ASSUME NEW c \in Calls, StartRefused(c) \/ StartRaises(c) PROVE ScanTrail'
  <2>1. /\ calls[c].pc = "idle"
        /\ \E k \in {"circuit_open", "client_error"} : Finish(c, Raised(k))
        /\ UNCHANGED <<wire, replies, scans>>
    BY <1>1 DEF StartRefused, StartRaises, network
  <2>2. calls[c].attempt = 0 /\ scans[c] = 0
    BY <2>1 DEF ScanTrail
  <2> QED
    BY <1>0, <2>1, <2>2, FinishFields, OutcomeKinds DEF ScanTrail, OutcomeTellsScan
<1>2. ASSUME NEW c \in Calls, StartCall(c) PROVE ScanTrail'
  <2>1. /\ calls[c].pc = "idle"
        /\ calls'[c].attempt = 1 /\ calls'[c].pc = "waiting" /\ calls'[c].outcome = Nothing
        /\ \A d \in Calls : d # c => calls'[d] = calls[d]
        /\ wire' = wire \cup {<<c, 1>>} /\ UNCHANGED <<replies, scans>>
    BY <1>0, <1>2 DEF StartCall
  <2> QED
    BY <1>0, <2>1, OutcomeKinds DEF ScanTrail, OutcomeTellsScan
<1>3. ASSUME NEW c \in Calls, ReceiveOk(c) PROVE ScanTrail'
  <2>1. PICK b \in OkBodies : Answered(c, Returned(b)) /\ Finish(c, Returned(b))
    BY <1>3 DEF ReceiveOk
  <2>2. replies' \subseteq replies /\ UNCHANGED <<wire, scans>>
    BY <1>3 DEF ReceiveOk, CloseConnection
  <2>3. scans[c] >= 1
    BY <2>1, OutcomeKinds DEF Answered, Attempt, ScanTrail
  <2>4. calls[c].attempt # 0
    BY <1>0, <2>3 DEF ScanTrail
  <2> QED
    BY <1>0, <2>1, <2>2, <2>3, <2>4, FinishFields, OutcomeKinds DEF ScanTrail, OutcomeTellsScan
<1>4. ASSUME NEW c \in Calls, NEW k \in AttemptErrors \cup {"rejected"}, Waiting(c),
             Finish(c, Raised(k)), CloseConnection(c), UNCHANGED <<wire, scans>>
      PROVE  ScanTrail'
  <2>1. replies' \subseteq replies
    BY <1>4 DEF CloseConnection
  <2>2. k # "ok" /\ k # "circuit_open"
    BY OutcomeKinds
  <2> QED
    BY <1>0, <1>4, <2>1, <2>2, FinishFields, OutcomeKinds DEF ScanTrail, OutcomeTellsScan
<1>5. ASSUME NEW c \in Calls, NEW e \in AttemptErrors, RetryAttempt(c, e) PROVE ScanTrail'
  <2>1. /\ calls[c].pc = "waiting" /\ calls[c].attempt \in Attempts
        /\ calls'[c].attempt = calls[c].attempt + 1
        /\ calls'[c].pc = calls[c].pc /\ calls'[c].outcome = calls[c].outcome
        /\ \A d \in Calls : d # c => calls'[d] = calls[d]
    BY <1>0, <1>5 DEF RetryAttempt, TypeOK, CallStates
  <2>2. /\ wire' = wire \cup {<<c, calls[c].attempt + 1>>}
        /\ replies' \subseteq replies /\ UNCHANGED scans
    BY <1>5 DEF RetryAttempt, CloseConnection
  <2>3. calls[c].attempt # 0 /\ calls'[c].attempt # 0
    BY <2>1 DEF Attempts
  <2> QED
    BY <1>0, <2>1, <2>2, <2>3 DEF ScanTrail, OutcomeTellsScan
<1>6. ASSUME NEW c \in Calls, NEW e \in AttemptErrors, ExhaustAttempts(c, e) PROVE ScanTrail'
  BY <1>4, <1>6 DEF ExhaustAttempts
<1>7. ASSUME NEW c \in Calls, ReceiveRejected(c) PROVE ScanTrail'
  BY <1>4, <1>7 DEF ReceiveRejected
<1>8. ASSUME NEW a \in wire, OmegaScans(a) PROVE ScanTrail'
  <2>1. /\ a[1] \in Calls /\ calls[a[1]].attempt # 0
        /\ wire' = wire \ {a} /\ calls' = calls
        /\ scans'[a[1]] = scans[a[1]] + 1
        /\ \A d \in Calls : d # a[1] => scans'[d] = scans[d]
    BY <1>0, <1>8 DEF OmegaScans, ScanTrail
  <2>2. \A m \in replies' : m \in replies \/ m.attempt = a
    BY <1>8 DEF OmegaScans, Deliver
  <2>3. \A d \in Calls : scans[d] >= 1 => scans'[d] >= 1
    BY <1>0, <2>1
  <2>4. scans'[a[1]] >= 1
    BY <1>0, <2>1
  <2>5. \A d \in Calls : calls[d].outcome.kind = "circuit_open" => scans'[d] = 0
    BY <2>1 DEF ScanTrail
  <2> QED
    BY <1>0, <2>1, <2>2, <2>3, <2>4, <2>5 DEF ScanTrail, OutcomeTellsScan
<1>9. ASSUME NEW a \in wire, OmegaRejects(a) PROVE ScanTrail'
  <2>1. wire' \subseteq wire /\ UNCHANGED <<calls, scans>>
    BY <1>9 DEF OmegaRejects
  <2>2. \A m \in replies' : m \in replies \/ m.answer.kind = "rejected"
    BY <1>9, OutcomeKinds DEF OmegaRejects, Deliver
  <2> QED
    BY <2>1, <2>2 DEF ScanTrail, OutcomeTellsScan
<1>10. CASE Restart
  <2>1. /\ replies' = {} /\ UNCHANGED <<wire, scans>>
        /\ \A d \in Calls : /\ calls'[d].attempt = calls[d].attempt
                            /\ calls'[d].outcome \in {calls[d].outcome, Nothing}
                            /\ calls'[d].pc = "idle" => calls[d].pc = "idle"
    BY <1>0, <1>10 DEF Restart, Ended, CallStates
  <2> QED
    BY <1>0, <2>1, OutcomeKinds DEF ScanTrail, OutcomeTellsScan
<1>11. CASE Tick \/ SetBack \/ UNCHANGED omegaVars
  BY <1>11 DEF Tick, SetBack, omegaVars, network, ScanTrail, OutcomeTellsScan
<1> QED
  BY <1>1, <1>2, <1>3, <1>5, <1>6, <1>7, <1>8, <1>9, <1>10, <1>11
  DEF Next, Call, Start, Receive, FailAttempt, External

(* The trail holds from the start on.                                       *)
LEMMA TrailHolds == Spec => []ScanTrail
<1>1. Init => ScanTrail
  BY OutcomeKinds DEF Init, ScanTrail, OutcomeTellsScan, Idle
<1>2. TypeOK /\ ScanTrail /\ [Next]_omegaVars => ScanTrail'
  BY TrailInductive
<1> QED
  BY <1>1, <1>2, TypeCorrect, PTL DEF Spec

(* A verdict follows a scan, and a call the breaker refuses is never        *)
(* scanned.                                                                 *)
THEOREM OutcomesAreTrue == Spec => []OutcomeTellsScan
<1>1. ScanTrail => OutcomeTellsScan
  BY DEF ScanTrail
<1> QED
  BY <1>1, TrailHolds, PTL
=============================================================================
