------------------------- MODULE TrustedFlowProofs -------------------------
(***************************************************************************)
(* Proofs about TrustedFlow: what is released was allowed, and a caller    *)
(* whose timeout exceeds the budget of the handler never times out on a    *)
(* connector that lives.                                                   *)
(***************************************************************************)
EXTENDS TrustedFlow, TLAPS

(* The limits are natural numbers.                                          *)
LEMMA LimitTypes == AttemptLimit \in Nat /\ Budget \in Nat
  <1>1. AttemptLimit \in Nat
    BY FlowConstants DEF AttemptLimit
  <1>2. (RetryCount + 1) * AttemptLimit \in Nat
    BY <1>1, FlowConstants
  <1> QED
    BY <1>1, <1>2, FlowConstants DEF Budget

(* The end of a wait keeps the table of scans well formed.                  *)
LEMMA EndType ==
    ASSUME TypeOK, NEW s \in Scans, NEW how \in Places, End(s, how)
    PROVE  flow' \in [Scans -> [pc : Places, waited : Nat]]
  BY DEF TypeOK, End

(* So does a move of the handler that keeps its stopwatch.                  *)
LEMMA HandlerMoveType ==
    ASSUME TypeOK, NEW s \in Scans, NEW pc \in {"arriving", "answered", "refused"},
           handler' = [handler EXCEPT ![s].pc = pc]
    PROVE  handler' \in [Scans -> HandlerStates]
  BY DEF TypeOK, HandlerStates

(* Every step keeps the state well formed.                                  *)
LEMMA TypeInductive == ASSUME TypeOK, [Next]_vars PROVE TypeOK'
  <1> USE FlowConstants
  <1>1. CASE UNCHANGED vars
    BY <1>1 DEF TypeOK, vars
  <1>2. ASSUME NEW s \in Scans, StartScan(s) PROVE TypeOK'
    <2>1. "waiting" \in Places
      BY DEF Places
    <2> QED
      BY <1>2, <2>1, EndType, HandlerMoveType DEF TypeOK, StartScan
  <1>3. ASSUME NEW s \in Scans, CannotConnect(s) \/ ConnectionFails(s) \/ ReceiveError(s) \/ GiveUp(s)
        PROVE  TypeOK'
    <2>1. PICK how \in {"unreachable", "connection_lost", "http_error", "timed_out"} : End(s, how)
      BY <1>3 DEF CannotConnect, ConnectionFails, ReceiveError, GiveUp
    <2>2. how \in Places
      BY DEF Places
    <2>3. UNCHANGED <<handler, audit>>
      BY <1>3 DEF CannotConnect, ConnectionFails, ReceiveError, GiveUp
    <2> QED
      BY <2>1, <2>2, <2>3, EndType DEF TypeOK
  <1>4. ASSUME NEW s \in Scans, Receive(s) PROVE TypeOK'
    <2>1. PICK d \in audit[s] : End(s, Enforce(d.verdict))
      BY <1>4 DEF Receive
    <2>2. Enforce(d.verdict) \in Places
      BY DEF Enforce, Places
    <2>3. UNCHANGED <<handler, audit>>
      BY <1>4 DEF Receive
    <2> QED
      BY <2>1, <2>2, <2>3, EndType DEF TypeOK
  <1>5. ASSUME NEW s \in Scans, Refuse(s) PROVE TypeOK'
    BY <1>5, HandlerMoveType DEF TypeOK, Refuse
  <1>6. ASSUME NEW s \in Scans, Begin(s) PROVE TypeOK'
    <2>1. [pc |-> "working", attempt |-> 1, spent |-> 0] \in HandlerStates
      BY DEF HandlerStates
    <2>2. handler' \in [Scans -> HandlerStates]
      BY <1>6, <2>1 DEF TypeOK, Begin
    <2> QED
      BY <1>6, <2>2 DEF TypeOK, Begin
  <1>7. ASSUME NEW s \in Scans, NextAttempt(s) PROVE TypeOK'
    <2> DEFINE h == [pc |-> "working", attempt |-> handler[s].attempt + 1, spent |-> 0]
    <2>0. handler[s] \in HandlerStates
      BY DEF TypeOK
    <2>1a. handler[s].attempt + 1 \in 0 .. (RetryCount + 1)
      BY <1>7, <2>0 DEF NextAttempt, HandlerStates
    <2>1b. h \in HandlerStates
      BY <2>1a DEF HandlerStates
    <2>1c. handler' = [handler EXCEPT ![s] = h]
      BY <1>7, <2>0 DEF TypeOK, NextAttempt, HandlerStates
    <2>1. handler' \in [Scans -> HandlerStates]
      BY <2>1b, <2>1c DEF TypeOK
    <2> QED
      BY <1>7, <2>1 DEF TypeOK, NextAttempt
  <1>8. ASSUME NEW s \in Scans, NEW d \in Decisions, Decide(s, d) PROVE TypeOK'
    <2>1. audit' \in [Scans -> SUBSET Decisions]
      BY <1>8 DEF TypeOK, Decide
    <2> QED
      BY <1>8, <2>1, HandlerMoveType DEF TypeOK, Decide
  <1>9. CASE ConnectorDies
    BY <1>9 DEF TypeOK, ConnectorDies, HandlerStates
  <1>10. CASE Tick
    BY <1>10 DEF TypeOK, Tick, HandlerStates
  <1> QED
    BY <1>1, <1>2, <1>3, <1>4, <1>5, <1>6, <1>7, <1>8, <1>9, <1>10
    DEF Next, Step, EndWait, Arrive, EndAttempt

(* The type invariant of the flow, for every configuration.                 *)
THEOREM TypeCorrect == Spec => []TypeOK
  <1>1. Init => TypeOK
    BY FlowConstants DEF Init, TypeOK, NotStarted, NoHandler, Places, HandlerStates
  <1> QED
    BY <1>1, TypeInductive, PTL DEF Spec

-----------------------------------------------------------------------------
(* What is released was allowed                                             *)

(* A decision says allow by Omega's word or by the fail mode.               *)
LEMMA AllowedBy ==
    ASSUME NEW d \in Decisions, d.verdict = "allow", FailMode # "allow"
    PROVE  d.source = "omega"
  BY DEF Decisions

(* Every step keeps the decision behind a release.                          *)
LEMMA ReleaseInductive ==
    ASSUME TypeOK, ReleasedAnswered, [Next]_vars
    PROVE  ReleasedAnswered'
  <1>1. CASE UNCHANGED vars
    BY <1>1 DEF ReleasedAnswered, vars
  <1>2. ASSUME NEW s \in Scans, StartScan(s) \/ CannotConnect(s) \/ ConnectionFails(s) \/ ReceiveError(s) \/ GiveUp(s)
        PROVE  ReleasedAnswered'
    BY <1>2 DEF TypeOK, ReleasedAnswered, StartScan, CannotConnect, ConnectionFails, ReceiveError, GiveUp, End
  <1>3. ASSUME NEW s \in Scans, Receive(s) PROVE ReleasedAnswered'
    BY <1>3 DEF TypeOK, ReleasedAnswered, Receive, End, Enforce
  <1>4. ASSUME NEW s \in Scans, Arrive(s) PROVE ReleasedAnswered'
    BY <1>4 DEF TypeOK, ReleasedAnswered, Arrive, Begin, Refuse
  <1>5. ASSUME NEW s \in Scans, NextAttempt(s) PROVE ReleasedAnswered'
    BY <1>5 DEF TypeOK, ReleasedAnswered, NextAttempt
  <1>6. ASSUME NEW s \in Scans, NEW d \in Decisions, Decide(s, d) PROVE ReleasedAnswered'
    BY <1>6 DEF TypeOK, ReleasedAnswered, Decide
  <1>7. CASE ConnectorDies
    BY <1>7 DEF TypeOK, ReleasedAnswered, ConnectorDies, Busy
  <1>8. CASE Tick
    BY <1>8 DEF TypeOK, ReleasedAnswered, Tick, Waiting, Busy
  <1> QED
    BY <1>1, <1>2, <1>3, <1>4, <1>5, <1>6, <1>7, <1>8 DEF Next, Step, EndWait, EndAttempt

(* A released file was allowed by the connector for this very scan, and by  *)
(* Omega unless the fail mode is allow.                                     *)
THEOREM ReleasesAreAllowed == Spec => []ReleasedOnlyIfAllowed
  <1>1. Init => ReleasedAnswered
    BY DEF Init, ReleasedAnswered, NotStarted
  <1>2. TypeOK /\ ReleasedAnswered => ReleasedOnlyIfAllowed
    <2>1. ASSUME TypeOK, NEW s \in Scans, NEW d \in audit[s] PROVE d \in Decisions
      BY <2>1 DEF TypeOK
    <2> QED
      BY <2>1, AllowedBy DEF ReleasedAnswered, ReleasedOnlyIfAllowed
  <1> QED
    BY <1>1, <1>2, ReleaseInductive, TypeCorrect, PTL DEF Spec

-----------------------------------------------------------------------------
(* What has ended                                                           *)

(* The steps of one scan leave the others as they are.                      *)
LEMMA OthersUntouched ==
    ASSUME TypeOK, NEW s \in Scans, Step(s), NEW t \in Scans, t # s
    PROVE  flow'[t] = flow[t] /\ handler'[t] = handler[t]
  BY DEF TypeOK, Step, EndWait, Arrive, EndAttempt, StartScan, CannotConnect, Receive, ReceiveError,
         GiveUp, ConnectionFails, Begin, Refuse, NextAttempt, Decide, End

(* A hook that has ended takes no further step: what the connector decides  *)
(* afterwards changes nothing for it.                                       *)
THEOREM EndsAreFinal == Spec => EndedIsFinal
  <1>1. ASSUME TypeOK, [Next]_vars PROVE [EndsKept]_vars
    <2> SUFFICES ASSUME Next, NEW t \in Scans, Ended(t) PROVE flow'[t] = flow[t]
      BY <1>1 DEF EndsKept
    <2>0. flow[t].pc # "idle" /\ ~Waiting(t)
      BY DEF Ended
    <2>1. ASSUME NEW s \in Scans, Step(s) PROVE flow'[t] = flow[t]
      <3>1. CASE t # s
        BY <1>1, <2>1, <3>1, OthersUntouched
      <3>2. CASE t = s
        <4>1. Arrive(s) \/ EndAttempt(s)
          BY <2>0, <2>1, <3>2 DEF Step, StartScan, CannotConnect, EndWait, Receive, ReceiveError, GiveUp,
                                  ConnectionFails
        <4> QED
          BY <4>1 DEF Arrive, Begin, Refuse, EndAttempt, NextAttempt, Decide
      <3> QED
        BY <3>1, <3>2
    <2>2. CASE ConnectorDies
      BY <2>2 DEF ConnectorDies
    <2>3. CASE Tick
      BY <1>1, <2>0, <2>3 DEF Tick, TypeOK
    <2> QED
      BY <2>1, <2>2, <2>3 DEF Next
  <1> QED
    BY <1>1, TypeCorrect, PTL DEF Spec, EndedIsFinal

-----------------------------------------------------------------------------
(* The budget                                                               *)

(* One more attempt adds one limit to what the earlier ones may have used.  *)
LEMMA OneMoreAttempt ==
    ASSUME NEW n \in Nat PROVE n * AttemptLimit + AttemptLimit = (n + 1) * AttemptLimit
  BY LimitTypes

(* No attempt of the loop ends beyond the budget.                           *)
LEMMA WithinBudget ==
    ASSUME NEW n \in 1 .. (RetryCount + 1)
    PROVE  Overhead + (n - 1) * AttemptLimit + AttemptLimit <= Budget
  <1>1. n \in Nat /\ n - 1 \in Nat /\ RetryCount + 1 - n \in Nat
    BY FlowConstants
  <1>2. (n - 1) * AttemptLimit + AttemptLimit = n * AttemptLimit
    BY <1>1, OneMoreAttempt
  <1>3. (RetryCount + 1) * AttemptLimit = n * AttemptLimit + (RetryCount + 1 - n) * AttemptLimit
    BY <1>1, LimitTypes, FlowConstants
  <1>4. (RetryCount + 1 - n) * AttemptLimit \in Nat /\ n * AttemptLimit \in Nat /\ (n - 1) * AttemptLimit \in Nat
    BY <1>1, LimitTypes
  <1> QED
    BY <1>2, <1>3, <1>4, LimitTypes, FlowConstants DEF Budget

(* A step of a scan keeps its own account.                                  *)
LEMMA AccountKept ==
    ASSUME TypeOK, NEW s \in Scans, Accounted(s), Step(s)
    PROVE  Accounted(s)'
  <1> USE FlowConstants, LimitTypes
  <1>1. CASE StartScan(s)
    BY <1>1 DEF TypeOK, StartScan, End, Accounted, Waiting
  <1>2. CASE CannotConnect(s) \/ ConnectionFails(s) \/ ReceiveError(s) \/ GiveUp(s)
    BY <1>2 DEF TypeOK, CannotConnect, ConnectionFails, ReceiveError, GiveUp, End, Accounted, Waiting
  <1>3. CASE Receive(s)
    BY <1>3 DEF TypeOK, Receive, End, Enforce, Accounted, Waiting
  <1>4. CASE Refuse(s)
    BY <1>4 DEF TypeOK, Refuse, Accounted, Waiting
  <1>5. CASE Begin(s)
    <2>1. Used(s)' = 0
      BY <1>5 DEF TypeOK, Begin, Used
    <2> QED
      BY <1>5, <2>1 DEF TypeOK, Begin, Accounted, Waiting, HandlerStates
  <1>6. CASE NextAttempt(s)
    <2>1. handler[s].attempt \in Nat /\ handler[s].attempt - 1 \in Nat /\ handler'[s].attempt = handler[s].attempt + 1
          /\ handler'[s].spent = 0
      BY <1>6 DEF TypeOK, HandlerStates, NextAttempt, Accounted
    <2>2. Used(s)' = Used(s) + AttemptLimit
      <3> DEFINE n == handler[s].attempt - 1
      <3>1. handler'[s].attempt - 1 = n + 1
        BY <2>1
      <3>2. Used(s)' = (handler'[s].attempt - 1) * AttemptLimit /\ Used(s) = n * AttemptLimit
        BY DEF Used
      <3>3. n \in Nat
        BY <2>1
      <3> HIDE DEF n
      <3> QED
        BY <3>1, <3>2, <3>3, OneMoreAttempt
    <2>3. Used(s) \in Nat
      BY <2>1 DEF Used
    <2> QED
      BY <1>6, <2>1, <2>2, <2>3 DEF TypeOK, NextAttempt, Accounted, Waiting, HandlerStates
  <1>7. ASSUME NEW d \in Decisions, Decide(s, d) PROVE Accounted(s)'
    BY <1>7 DEF TypeOK, Decide, Accounted, Waiting
  <1> QED
    BY <1>1, <1>2, <1>3, <1>4, <1>5, <1>6, <1>7 DEF Step, EndWait, Arrive, EndAttempt

(* Every step keeps every account.                                          *)
LEMMA AccountsInductive ==
    ASSUME TypeOK, WaitAccounted, [Next]_vars PROVE WaitAccounted'
  <1> USE FlowConstants, LimitTypes
  <1> SUFFICES ASSUME NEW t \in Scans PROVE Accounted(t)'
    BY DEF WaitAccounted
  <1>0. Accounted(t)
    BY DEF WaitAccounted
  <1>1. ASSUME NEW s \in Scans, Step(s) PROVE Accounted(t)'
    <2>1. CASE t = s
      BY <1>0, <1>1, <2>1, AccountKept
    <2>2. CASE t # s
      <3>1. flow'[t] = flow[t] /\ handler'[t] = handler[t]
        BY <1>1, <2>2, OthersUntouched
      <3> QED
        BY <1>0, <3>1 DEF Accounted, Waiting, Used
    <2> QED
      BY <2>1, <2>2
  <1>2. CASE ConnectorDies
    BY <1>0, <1>2 DEF TypeOK, ConnectorDies, Busy, Accounted, Waiting, Used
  <1>3. CASE Tick
    <2>1. /\ handler'[t].pc = handler[t].pc /\ handler'[t].attempt = handler[t].attempt
          /\ handler'[t].spent = IF Busy(t) THEN handler[t].spent + 1 ELSE handler[t].spent
          /\ flow'[t].pc = flow[t].pc
          /\ flow'[t].waited = IF Waiting(t) THEN flow[t].waited + 1 ELSE flow[t].waited
      BY <1>3 DEF Tick, TypeOK, HandlerStates
    <2>2. Used(t)' = Used(t) /\ Used(t) \in Int
      BY <2>1 DEF Used, TypeOK, HandlerStates
    <2>3. flow[t].waited \in Nat /\ handler[t].spent \in Nat
      BY DEF TypeOK, HandlerStates
    <2>4. ~Due(t)
      BY <1>3 DEF Tick
    <2> QED
      BY <1>0, <2>1, <2>2, <2>3, <2>4 DEF Due, Accounted, Waiting, Busy
  <1>4. CASE UNCHANGED vars
    BY <1>0, <1>4 DEF vars, Accounted, Waiting, Used
  <1> QED
    BY <1>1, <1>2, <1>3, <1>4 DEF Next

(* Who waits no longer than the budget allows has not run out of patience.  *)
LEMMA TimeoutOnlyOnGone ==
    ASSUME TypeOK, WaitAccounted, CallerTimeout > Budget, NEW s \in Scans, GiveUp(s)
    PROVE  handler[s].pc = "gone"
  <1> USE FlowConstants, LimitTypes
  <1>0. Accounted(s) /\ Waiting(s) /\ ~Replied(s) /\ flow[s].waited >= CallerTimeout
    BY DEF WaitAccounted, GiveUp
  <1>1. flow[s].waited \in Nat /\ handler[s].spent \in Nat /\ handler[s].attempt \in 0 .. (RetryCount + 1)
    BY DEF TypeOK, HandlerStates
  <1>2. Overhead <= Budget
    BY DEF Budget
  <1>3. handler[s].pc # "arriving"
    BY <1>0, <1>1, <1>2 DEF Accounted
  <1>4. ASSUME handler[s].pc = "working" PROVE FALSE
    <2>1. handler[s].attempt \in 1 .. (RetryCount + 1)
      BY <1>0, <1>1, <1>4 DEF Accounted
    <2>2. Overhead + Used(s) + AttemptLimit <= Budget
      BY <2>1, WithinBudget DEF Used
    <2>3. Used(s) \in Int
      BY <2>1 DEF Used
    <2> QED
      BY <1>0, <1>1, <1>4, <2>2, <2>3 DEF Accounted
  <1> QED
    BY <1>0, <1>3, <1>4 DEF TypeOK, HandlerStates, Accounted, Replied

(* No step turns a live connector into one a budgeted caller gave up on.    *)
LEMMA HearingInductive ==
    ASSUME TypeOK, WaitAccounted, BudgetedCallerHears, [Next]_vars
    PROVE  BudgetedCallerHears'
  <1> SUFFICES ASSUME CallerTimeout > Budget, NEW t \in Scans, flow'[t].pc = "timed_out"
               PROVE  handler'[t].pc = "gone"
    BY DEF BudgetedCallerHears, NoTimeoutOnLiveConnector
  <1>0. flow[t].pc = "timed_out" => handler[t].pc = "gone"
    BY DEF BudgetedCallerHears, NoTimeoutOnLiveConnector
  <1>1. ASSUME NEW s \in Scans, Step(s) PROVE handler'[t].pc = "gone"
    <2>1. CASE t # s
      BY <1>0, <1>1, <2>1, OthersUntouched
    <2>2. CASE t = s /\ GiveUp(s)
      BY <2>2, TimeoutOnlyOnGone DEF GiveUp
    <2>3. CASE t = s /\ ~GiveUp(s)
      BY <1>0, <1>1, <2>3 DEF TypeOK, Step, EndWait, Arrive, EndAttempt, StartScan, CannotConnect, Receive,
         Enforce, ReceiveError, ConnectionFails, Begin, Refuse, NextAttempt, Decide, End, Waiting
    <2> QED
      BY <2>1, <2>2, <2>3
  <1>2. CASE ConnectorDies
    BY <1>0, <1>2 DEF TypeOK, ConnectorDies, Busy
  <1>3. CASE Tick
    BY <1>0, <1>3 DEF TypeOK, Tick, Busy
  <1>4. CASE UNCHANGED vars
    BY <1>0, <1>4 DEF vars
  <1> QED
    BY <1>1, <1>2, <1>3, <1>4 DEF Next

(* A caller whose timeout exceeds the budget of the handler never times out *)
(* on a connector that lives, for every setting of the timeouts and retries.*)
THEOREM BudgetSuffices == Spec => []BudgetedCallerHears
  <1>1. Init => WaitAccounted /\ BudgetedCallerHears
    BY DEF Init, WaitAccounted, Accounted, BudgetedCallerHears, NoTimeoutOnLiveConnector, NotStarted, NoHandler, Waiting
  <1> QED
    BY <1>1, AccountsInductive, HearingInductive, TypeCorrect, PTL DEF Spec
=============================================================================
