---------------------------- MODULE Workers_proofs ----------------------------
(***************************************************************************)
(* Proofs about the workers, for any number of processes, executions,      *)
(* claims and attempts: who holds a worker's row (WorkerJobs), and for any *)
(* number of orders and statuses what becomes of the orders that a worker  *)
(* reads at the sales channel: which are read (OrderReconciliation) and    *)
(* what is stored of the pages (ChannelPages).                             *)
(***************************************************************************)
EXTENDS WorkerJobs, OrderReconciliation, ChannelPages, TLAPS

\* An execution in progress holds a generation that was granted to it alone.
Holders ==
  /\ \A e \in Exec :
       Active(e) => /\ exec[e].gen \in 1..gen
                    /\ exec[e].run \in 1..gen
  /\ \A e1, e2 \in Exec :
       (Active(e1) /\ Active(e2) /\ exec[e1].gen = exec[e2].gen) => e1 = e2

\* The execution that owns the row agrees with it about the run and attempt.
OwnersView ==
  \A e \in Exec :
    (Active(e) /\ Owns(e)) => /\ exec[e].run = run
                              /\ exec[e].attempt = attempts

\* Generations not granted yet have no history.
Future ==
  \A g \in Generation :
    g > gen => /\ outcome[g] = "open"
                   /\ failures[g] = 0
                   /\ g \notin closed

\* The run in progress, or waiting for its retry, still has budget.
OpenRun ==
  /\ status \in {"RUNNING", "RETRY_WAITING"} =>
       /\ run \in 1..gen
       /\ run \notin closed
       /\ failures[run] < MaxAttempts
       /\ failures[run] <= attempts
  /\ status = "RUNNING" =>
       /\ gen \in Generation
       /\ token = gen
       /\ outcome[gen] = "open"
       /\ failures[run] < attempts

IInv ==
  /\ TypeOK
  /\ Holders
  /\ OwnersView
  /\ Future
  /\ OpenRun
  /\ RetryBudget
  /\ NextRunTracksSchedule

-----------------------------------------------------------------------------
\* An execution's record keeps its type under each update of one execution.
LEMMA ExecUpdates ==
  ASSUME TypeOK, NEW e \in Exec
  PROVE  /\ \A x \in Execution :
              [exec EXCEPT ![e] = x] \in [Exec -> Execution]
         /\ exec[e] \in Execution
         /\ NoExecution \in Execution
         /\ \A to \in Phase : [exec[e] EXCEPT !.pc = to] \in Execution
         /\ [exec[e] EXCEPT !.lost = TRUE] \in Execution
         /\ \A c \in Cause :
              [exec[e] EXCEPT !.pc = "failing", !.cause = c] \in Execution
         /\ [exec[e] EXCEPT !.pc = "failing", !.lost = TRUE,
                            !.cause = "lost"] \in Execution
<1>1. exec[e] \in Execution
  BY DEF TypeOK
<1>2. NoExecution \in Execution
  BY WorkerJobsAssumption DEF NoExecution, Execution, Phase, Cause
<1>3. \A x \in Execution : [exec EXCEPT ![e] = x] \in [Exec -> Execution]
  BY DEF TypeOK
<1>4. QED
  BY <1>1, <1>2, <1>3 DEF Execution, Phase, Cause

\* The named changes of an execution keep the type of exec.
LEMMA ExecChanges ==
  ASSUME TypeOK, NEW e \in Exec
  PROVE  /\ \A c \in Cause : Fails(e, c) => exec' \in [Exec -> Execution]
         /\ LosesLease(e) => exec' \in [Exec -> Execution]
         /\ Stops(e) => exec' \in [Exec -> Execution]
         /\ \A to \in Phase :
              AssertActive(e, to) => exec' \in [Exec -> Execution]
<1>1. ASSUME NEW c \in Cause, Fails(e, c)
      PROVE  exec' \in [Exec -> Execution]
  <2> DEFINE cause == IF exec[e].lost THEN "lost" ELSE c
  <2>1. cause \in Cause
    BY DEF Cause
  <2>2. exec' = [exec EXCEPT ![e] =
                   [exec[e] EXCEPT !.pc = "failing", !.cause = cause]]
    BY <1>1, ExecUpdates DEF Fails
  <2> HIDE DEF cause
  <2>3. QED
    BY <2>1, <2>2, ExecUpdates
<1>2. LosesLease(e) => exec' \in [Exec -> Execution]
  BY ExecUpdates DEF LosesLease
<1>3. Stops(e) => exec' \in [Exec -> Execution]
  BY ExecUpdates DEF Stops
<1>4. ASSUME NEW to \in Phase, AssertActive(e, to)
      PROVE  exec' \in [Exec -> Execution]
  <2>1. CASE exec' = [exec EXCEPT ![e] = [exec[e] EXCEPT !.pc = to]]
    BY <2>1, ExecUpdates
  <2>2. CASE exec' = [exec EXCEPT ![e] = [exec[e] EXCEPT
                        !.pc = "failing", !.lost = TRUE, !.cause = "lost"]]
    BY <2>2, ExecUpdates
  <2>3. CASE Fails(e, "error")
    BY <1>1, <2>3 DEF Cause
  <2>4. QED
    BY <1>4, <2>1, <2>2, <2>3 DEF AssertActive
<1>5. QED
  BY <1>1, <1>2, <1>3, <1>4

\* Every variable keeps its type: one step per action of Next.
LEMMA TypeStep == TypeOK /\ [Next]_vars => TypeOK'
<1> SUFFICES ASSUME TypeOK, [Next]_vars PROVE TypeOK'
  OBVIOUS
<1> USE WorkerJobsAssumption
    DEF TypeOK, Status, Expiry, NextRun, Outcome, Generation,
        row, schedule, history
<1>1. ASSUME NEW e \in Exec, NEW manual \in BOOLEAN, TakeLease(e, manual)
      PROVE  TypeOK'
  <2>1. ClaimRun \in 0..MaxClaims /\ ClaimAttempts \in Nat \ {0}
    BY <1>1 DEF TakeLease, ClaimRun, ClaimAttempts
  <2>2. exec' \in [Exec -> Execution]
    BY <1>1, <2>1 DEF TakeLease, Execution, Phase, Cause
  <2>3. outcome' \in [Generation -> Outcome \cup {"open", "void"}]
    BY <1>1 DEF TakeLease
  <2>4. QED
    BY <1>1, <2>1, <2>2, <2>3 DEF TakeLease
<1>2. ASSUME NEW e \in Exec, Heartbeat(e) \/ HeartbeatUnreachable(e)
      PROVE  TypeOK'
  <2>1. exec' \in [Exec -> Execution]
    BY <1>2, ExecChanges DEF Heartbeat, HeartbeatUnreachable
  <2>2. QED
    BY <1>2, <2>1 DEF Heartbeat, HeartbeatUnreachable
<1>3. ASSUME NEW e \in Exec, Begin(e) \/ Confirm(e)
      PROVE  TypeOK'
  <2>1. exec' \in [Exec -> Execution]
    BY <1>3, ExecChanges DEF Begin, Confirm, Phase, Cause
  <2>2. QED
    BY <1>3, <2>1 DEF Begin, Confirm, AssertActive
<1>4. ASSUME NEW e \in Exec, WorkReturns(e) \/ WorkThrows(e)
      PROVE  TypeOK'
  <2>1. exec' \in [Exec -> Execution]
    <3>1. CASE WorkReturns(e)
      BY <3>1, ExecUpdates DEF WorkReturns, Phase
    <3>2. CASE WorkThrows(e)
      BY <3>2, ExecChanges DEF WorkThrows, Cause
    <3>3. QED
      BY <1>4, <3>1, <3>2
  <2>2. QED
    BY <1>4, <2>1 DEF WorkReturns, WorkThrows
<1>5. ASSUME NEW e \in Exec, FinalizeSuccess(e) \/ FinalizeSuccessError(e)
      PROVE  TypeOK'
  <2>1. exec' \in [Exec -> Execution]
    <3>1. "error" \in Cause /\ "lost" \in Cause
      BY DEF Cause
    <3>2. CASE Stops(e) \/ Fails(e, "error")
      BY <3>1, <3>2, ExecChanges, Zenon
    <3>3. CASE exec' = [exec EXCEPT ![e] =
                          [exec[e] EXCEPT !.pc = "failing", !.cause = "lost"]]
      BY <3>1, <3>3, ExecUpdates, Zenon
    <3>. QED
      BY <1>5, <3>2, <3>3 DEF FinalizeSuccess, FinalizeSuccessError
  <2>2. outcome' \in [Generation -> Outcome \cup {"open", "void"}]
    BY <1>5 DEF FinalizeSuccess, FinalizeSuccessError
  <2>3. closed' \in SUBSET (0..MaxClaims)
    BY <1>5 DEF FinalizeSuccess, FinalizeSuccessError, Execution
  <2>4. QED
    BY <1>5, <2>1, <2>2, <2>3
    DEF FinalizeSuccess, FinalizeSuccessError, RecordSuccess, ReleaseLease
<1>6. ASSUME NEW e \in Exec, FinalizeFailure(e) \/ FinalizeFailureError(e)
      PROVE  TypeOK'
  <2>1. exec' \in [Exec -> Execution]
    BY <1>6, ExecChanges DEF FinalizeFailure, FinalizeFailureError
  <2>2. CASE FinalizeFailure(e)
    <3>1. exec[e].run \in 0..MaxClaims
      BY DEF Execution
    <3>a. /\ \/ outcome' = [outcome EXCEPT ![exec[e].gen] = "retry"]
             \/ outcome' = [outcome EXCEPT ![exec[e].gen] = "failed"]
             \/ outcome' = outcome
          /\ \/ failures' = [failures EXCEPT
                                ![exec[e].run] = failures[exec[e].run] + 1]
             \/ failures' = failures
          /\ closed' = closed \/ closed' = closed \cup {exec[e].run}
      BY <2>2, Zenon DEF FinalizeFailure
    <3>2. outcome' \in [Generation -> Outcome \cup {"open", "void"}]
      BY <3>a
    <3>3. failures' \in [Generation -> Nat]
      BY <3>a
    <3>4. closed' \in SUBSET (0..MaxClaims)
      BY <3>1, <3>a
    <3>5. attempts' \in Nat /\ (status' = "RUNNING" => attempts' # 0)
      BY <2>2 DEF FinalizeFailure, RecordFailure, Owns
    <3>6. QED
      BY <2>1, <2>2, <3>2, <3>3, <3>4, <3>5
      DEF FinalizeFailure, RecordFailure, ReleaseLease
  <2>3. CASE FinalizeFailureError(e)
    BY <2>1, <2>3 DEF FinalizeFailureError
  <2>4. QED
    BY <1>6, <2>2, <2>3
<1>7. ASSUME NEW p \in Proc, BeginShutdown(p) \/ Restart(p)
      PROVE  TypeOK'
  <2>1. NoExecution \in Execution
    BY WorkerJobsAssumption DEF NoExecution, Execution, Phase, Cause
  <2>2. exec' \in [Exec -> Execution]
    BY <1>7, <2>1 DEF BeginShutdown, Restart
  <2>3. QED
    BY <1>7, <2>2 DEF BeginShutdown, Restart
<1>8. ASSUME NEW on \in BOOLEAN, UpdateSchedule(on)
      PROVE  TypeOK'
  BY <1>8 DEF UpdateSchedule
<1>9. CASE LeaseLapses \/ NextRunComesDue \/ UNCHANGED vars
  BY <1>9 DEF LeaseLapses, NextRunComesDue, vars
<1>10. QED
  BY <1>1, <1>2, <1>3, <1>4, <1>5, <1>6, <1>7, <1>8, <1>9
  DEF Next, Execute, ClaimNow, ClaimDue

\* Every variable holds a value of its type in every reachable state.
THEOREM TypeCorrect == Spec => []TypeOK
<1>1. Init => TypeOK
  BY WorkerJobsAssumption
  DEF Init, TypeOK, Execution, Status, Expiry, NextRun, Cause, Phase,
      Outcome, Generation, NoExecution
<1>2. QED
  BY <1>1, TypeStep, PTL DEF Spec

-----------------------------------------------------------------------------
\* A step that claims nothing and records nothing.
Quiet ==
  /\ UNCHANGED <<status, token, gen, run, attempts, history>>
  /\ \A e \in Exec :
       Active(e)' => /\ Active(e)
                     /\ exec'[e].gen = exec[e].gen
                     /\ exec'[e].run = exec[e].run
                     /\ exec'[e].attempt = exec[e].attempt

\* Changing one execution's phase or error, or ending it, is quiet for exec.
LEMMA ExecQuiet ==
  ASSUME TypeOK, NEW e \in Exec, Active(e),
         \/ exec' = exec
         \/ \E to \in Phase : exec' = [exec EXCEPT ![e] = [@ EXCEPT !.pc = to]]
         \/ \E c \in Cause : Fails(e, c)
         \/ LosesLease(e)
         \/ Stops(e)
         \/ \E to \in Phase : AssertActive(e, to)
         \/ exec' = [exec EXCEPT ![e] =
                       [@ EXCEPT !.pc = "failing", !.cause = "lost"]]
  PROVE  \A x \in Exec :
           Active(x)' => /\ Active(x)
                         /\ exec'[x].gen = exec[x].gen
                         /\ exec'[x].run = exec[x].run
                         /\ exec'[x].attempt = exec[x].attempt
<1> DEFINE Keeps(x) == Active(x)' => /\ Active(x)
                                      /\ exec'[x].gen = exec[x].gen
                                      /\ exec'[x].run = exec[x].run
                                      /\ exec'[x].attempt = exec[x].attempt
<1>1. ASSUME NEW r,
             r.gen = exec[e].gen, r.run = exec[e].run,
             r.attempt = exec[e].attempt,
             exec' = [exec EXCEPT ![e] = r]
      PROVE  \A x \in Exec : Keeps(x)
  BY <1>1 DEF TypeOK, Active
<1>2. exec[e] \in Execution
  BY DEF TypeOK
<1>3. CASE Stops(e)
  BY <1>3 DEF Stops, NoExecution, TypeOK, Active
<1>4. ASSUME NEW to \in Phase,
             exec' = [exec EXCEPT ![e] = [exec[e] EXCEPT !.pc = to]]
      PROVE  \A x \in Exec : Keeps(x)
  BY <1>1, <1>2, <1>4 DEF Execution
<1>5. ASSUME NEW c,
             exec' = [exec EXCEPT ![e] =
                       [exec[e] EXCEPT !.pc = "failing", !.cause = c]]
      PROVE  \A x \in Exec : Keeps(x)
  BY <1>1, <1>2, <1>5 DEF Execution
<1>6. ASSUME NEW c \in Cause, Fails(e, c)
      PROVE  \A x \in Exec : Keeps(x)
  BY <1>5, <1>6 DEF Fails
<1>7. CASE LosesLease(e)
  BY <1>1, <1>2, <1>7 DEF LosesLease, Execution
<1>8. ASSUME NEW to \in Phase, AssertActive(e, to)
      PROVE  \A x \in Exec : Keeps(x)
  <2>1. CASE exec' = [exec EXCEPT ![e] = [exec[e] EXCEPT
                        !.pc = "failing", !.lost = TRUE, !.cause = "lost"]]
    BY <1>1, <1>2, <2>1 DEF Execution
  <2>2. CASE Fails(e, "error")
    BY <1>6, <2>2 DEF Cause
  <2>3. QED
    BY <1>4, <1>8, <2>1, <2>2 DEF AssertActive
<1>9. CASE exec' = exec
  BY <1>9 DEF Active
<1>10. QED
  BY <1>3, <1>4, <1>5, <1>6, <1>7, <1>8, <1>9

\* A quiet step keeps every part of the invariant but the schedule's.
LEMMA QuietStep ==
  ASSUME IInv, Quiet
  PROVE  Holders' /\ OwnersView' /\ Future' /\ OpenRun' /\ RetryBudget'
<1>1. Holders'
  BY DEF IInv, Quiet, Holders
<1>2. OwnersView'
  BY DEF IInv, Quiet, OwnersView, Owns
<1>3. Future' /\ OpenRun' /\ RetryBudget'
  BY DEF IInv, Quiet, Future, OpenRun, RetryBudget, history
<1>4. QED
  BY <1>1, <1>2, <1>3

\* The steps that neither claim nor record are quiet.
LEMMA QuietActions ==
  ASSUME TypeOK, NEW e \in Exec,
         \/ Heartbeat(e)
         \/ HeartbeatUnreachable(e)
         \/ Begin(e)
         \/ WorkReturns(e)
         \/ WorkThrows(e)
         \/ Confirm(e)
         \/ FinalizeSuccess(e) /\ ~Owns(e)
         \/ FinalizeSuccessError(e)
         \/ FinalizeFailure(e) /\ ~Owns(e)
         \/ FinalizeFailureError(e)
  PROVE  Quiet /\ UNCHANGED schedule
<1> USE DEF row, schedule, history, Active, Phase, Cause
<1>1. CASE Heartbeat(e) \/ HeartbeatUnreachable(e)
  BY <1>1, ExecQuiet DEF Heartbeat, HeartbeatUnreachable, Quiet
<1>2. CASE Begin(e)
  BY <1>2, ExecQuiet DEF Begin, AssertActive, Quiet
<1>3. CASE Confirm(e)
  BY <1>3, ExecQuiet DEF Confirm, AssertActive, Quiet
<1>4. CASE WorkReturns(e) \/ WorkThrows(e)
  BY <1>4, ExecQuiet DEF WorkReturns, WorkThrows, Quiet
<1>5. CASE FinalizeSuccess(e) /\ ~Owns(e)
  BY <1>5, ExecQuiet DEF FinalizeSuccess, Quiet
<1>6. CASE FinalizeSuccessError(e) \/ FinalizeFailureError(e)
  BY <1>6, ExecQuiet DEF FinalizeSuccessError, FinalizeFailureError, Quiet
<1>7. CASE FinalizeFailure(e) /\ ~Owns(e)
  BY <1>7, ExecQuiet DEF FinalizeFailure, Quiet
<1>8. QED
  BY <1>1, <1>2, <1>3, <1>4, <1>5, <1>6, <1>7

\* A claim: the new generation has no history and no other holder.
LEMMA TakeStep ==
  ASSUME IInv, NEW e \in Exec, NEW manual \in BOOLEAN, TakeLease(e, manual)
  PROVE  Holders' /\ OwnersView' /\ Future' /\ OpenRun' /\ RetryBudget'
<1> USE WorkerJobsAssumption DEF IInv, TypeOK, Generation
<1>1. /\ gen' = gen + 1 /\ gen + 1 \in Generation
      /\ exec' = [exec EXCEPT ![e] =
                   [pc |-> "claimed", gen |-> gen + 1, run |-> ClaimRun,
                    attempt |-> ClaimAttempts, manual |-> manual,
                    lost |-> FALSE, cause |-> "none"]]
      /\ UNCHANGED <<failures, closed>>
  BY DEF TakeLease
<1>2. ClaimRun \in 1..(gen + 1) /\ ClaimAttempts \in Nat /\ ClaimAttempts >= 1
  BY DEF ClaimRun, ClaimAttempts, OpenRun
<1>3. Holders'
  <2>1. gen \in Nat /\ exec'[e].gen = gen + 1 /\ exec'[e].run = ClaimRun
    BY <1>1
  <2>2. ASSUME NEW x \in Exec, x # e, Active(x)'
        PROVE  exec'[x] = exec[x] /\ Active(x)
    BY <1>1, <2>2 DEF Active
  <2>3. \A x \in Exec : Active(x) => exec[x].gen \in 1..gen /\ exec[x].run \in 1..gen
    BY DEF Holders
  <2>4. ASSUME NEW x \in Exec, Active(x)'
        PROVE  exec'[x].gen \in 1..gen' /\ exec'[x].run \in 1..gen'
    BY <1>1, <1>2, <2>1, <2>2, <2>3, <2>4
  <2>5. ASSUME NEW x \in Exec, NEW y \in Exec, Active(x)', Active(y)',
               exec'[x].gen = exec'[y].gen
        PROVE  x = y
    <3>1. CASE x = e \/ y = e
      BY <2>1, <2>2, <2>3, <2>5, <3>1
    <3>2. CASE x # e /\ y # e
      BY <2>2, <2>5, <3>2 DEF Holders
    <3>. QED
      BY <3>1, <3>2
  <2>. QED
    BY <2>4, <2>5, Zenon DEF Holders
<1>4. OwnersView'
  <2>1. \A x \in Exec : x # e /\ Active(x)' => exec'[x].gen <= gen
    BY <1>1 DEF Holders, Active
  <2>2. \A x \in Exec : (Active(x) /\ Owns(x))' => x = e
    BY <1>1, <2>1 DEF Owns, Holders, Active
  <2>3. exec'[e].run = run' /\ exec'[e].attempt = attempts'
    BY <1>1 DEF TakeLease
  <2>4. QED
    BY <2>2, <2>3 DEF OwnersView
<1>5. Future'
  BY <1>1 DEF TakeLease, Future
<1>6. OpenRun'
  <2>1. ClaimRun \notin closed /\ failures[ClaimRun] < MaxAttempts
        /\ failures[ClaimRun] < ClaimAttempts
    BY <1>1, <1>2 DEF ClaimRun, ClaimAttempts, OpenRun, Future
  <2>2. outcome'[gen + 1] = "open"
    BY <1>1 DEF TakeLease, Future
  <2>3. QED
    BY <1>1, <1>2, <2>1, <2>2 DEF TakeLease, OpenRun
<1>7. RetryBudget'
  BY <1>1 DEF RetryBudget
<1>8. QED
  BY <1>3, <1>4, <1>5, <1>6, <1>7

\* A recorded success closes the run of the row.
LEMMA SuccessStep ==
  ASSUME IInv, NEW e \in Exec, FinalizeSuccess(e), Owns(e)
  PROVE  Holders' /\ OwnersView' /\ Future' /\ OpenRun' /\ RetryBudget'
<1> USE WorkerJobsAssumption DEF IInv, TypeOK, Generation
<1>1. /\ status' = "SUCCESS" /\ attempts' = 0
      /\ outcome' = [outcome EXCEPT ![exec[e].gen] = "success"]
      /\ closed' = closed \cup {exec[e].run}
      /\ UNCHANGED <<gen, run, failures>>
  BY DEF FinalizeSuccess, RecordSuccess, ReleaseLease
<1>2. \A x \in Exec :
        Active(x)' => /\ Active(x)
                      /\ exec'[x].gen = exec[x].gen
                      /\ exec'[x].run = exec[x].run
                      /\ exec'[x].attempt = exec[x].attempt
  BY ExecQuiet DEF FinalizeSuccess, Active, Cause
<1>3. exec[e].gen = gen /\ exec[e].run = run /\ run \in 1..gen
  BY DEF Owns, OwnersView, OpenRun, Active, FinalizeSuccess
<1>4. Holders'
  BY <1>1, <1>2 DEF Holders
<1>5. OwnersView'
  BY <1>1 DEF OwnersView, Owns
<1>6. Future'
  BY <1>1, <1>3 DEF Future
<1>7. OpenRun' /\ RetryBudget'
  BY <1>1 DEF OpenRun, RetryBudget
<1>8. QED
  BY <1>4, <1>5, <1>6, <1>7

\* A recorded failure spends one unit of the run's budget, or gives its
\* attempt back; only a run with budget left stays open.
LEMMA FailureStep ==
  ASSUME IInv, NEW e \in Exec, FinalizeFailure(e), Owns(e)
  PROVE  Holders' /\ OwnersView' /\ Future' /\ OpenRun' /\ RetryBudget'
<1> USE WorkerJobsAssumption DEF IInv, TypeOK, Generation
<1>1. /\ status' = IF WillRetry(e) THEN "RETRY_WAITING" ELSE "FAILED"
      /\ attempts' = IF GivesAttemptBack(e) THEN attempts - 1 ELSE attempts
      /\ outcome' = [outcome EXCEPT ![exec[e].gen] =
                       IF WillRetry(e) THEN "retry" ELSE "failed"]
      /\ closed' = IF WillRetry(e) THEN closed
                                   ELSE closed \cup {exec[e].run}
      /\ failures' = IF GivesAttemptBack(e) THEN failures
                     ELSE [failures EXCEPT ![exec[e].run] = @ + 1]
      /\ UNCHANGED <<gen, run>>
      /\ Stops(e)
  BY DEF FinalizeFailure, RecordFailure, ReleaseLease
<1>2. \A x \in Exec :
        Active(x)' => /\ Active(x)
                      /\ exec'[x].gen = exec[x].gen
                      /\ exec'[x].run = exec[x].run
                      /\ exec'[x].attempt = exec[x].attempt
  BY <1>1, ExecQuiet DEF FinalizeFailure, Active
<1>3. /\ exec[e].gen = gen /\ exec[e].run = run /\ run \in 1..gen
      /\ exec[e].attempt = attempts
      /\ status = "RUNNING"
  BY DEF Owns, OwnersView, OpenRun, Active, FinalizeFailure
<1>4. Holders'
  BY <1>1, <1>2 DEF Holders
<1>5. OwnersView'
  BY <1>1 DEF OwnersView, Owns
<1>6. Future'
  BY <1>1, <1>3 DEF Future
<1>7. run \in Generation /\ failures[run] < MaxAttempts /\ failures[run] < attempts
      /\ run \notin closed
  BY <1>3 DEF OpenRun
<1>8. RetryBudget'
  BY <1>1, <1>3, <1>7 DEF RetryBudget
<1>9. OpenRun'
  <2>1. attempts' >= 0
    BY <1>1, <1>7
  <2>2. CASE WillRetry(e)
    <3>1. failures'[run] < MaxAttempts /\ failures'[run] <= attempts'
      BY <1>1, <1>3, <1>7, <2>2 DEF WillRetry, GivesAttemptBack
    <3>2. QED
      BY <1>1, <1>3, <1>7, <2>1, <2>2, <3>1 DEF OpenRun
  <2>3. CASE ~WillRetry(e)
    BY <1>1, <2>1, <2>3 DEF OpenRun
  <2>4. QED
    BY <2>2, <2>3
<1>10. QED
  BY <1>4, <1>5, <1>6, <1>8, <1>9

\* Every step claims, records a result of the row's owner, or is quiet.
LEMMA StepKinds ==
  ASSUME TypeOK, [Next]_vars
  PROVE  \/ \E e \in Exec, manual \in BOOLEAN : TakeLease(e, manual)
         \/ \E e \in Exec : FinalizeSuccess(e) /\ Owns(e)
         \/ \E e \in Exec : FinalizeFailure(e) /\ Owns(e)
         \/ Quiet
<1>1. ASSUME NEW e \in Exec,
             Execute(e) \/ Heartbeat(e) \/ HeartbeatUnreachable(e),
             ~(FinalizeSuccess(e) /\ Owns(e)), ~(FinalizeFailure(e) /\ Owns(e))
      PROVE  Quiet
  BY <1>1, QuietActions DEF Execute
<1>2. ASSUME NEW p \in Proc, BeginShutdown(p) \/ Restart(p)
      PROVE  Quiet
  BY <1>2
  DEF BeginShutdown, Restart, Quiet, row, history, TypeOK, Active, NoExecution
<1>3. ASSUME NEW on \in BOOLEAN, UpdateSchedule(on)
      PROVE  Quiet
  BY <1>3 DEF UpdateSchedule, Quiet, Active, history
<1>4. CASE LeaseLapses \/ NextRunComesDue \/ UNCHANGED vars
  BY <1>4 DEF LeaseLapses, NextRunComesDue, vars, row, Quiet, Active, history
<1>5. QED
  BY <1>1, <1>2, <1>3, <1>4 DEF Next, ClaimNow, ClaimDue

\* The schedule's part of the inductive step.
LEMMA ScheduleStep ==
  TypeOK /\ NextRunTracksSchedule /\ [Next]_vars => NextRunTracksSchedule'
<1> SUFFICES ASSUME TypeOK, NextRunTracksSchedule, [Next]_vars
             PROVE  NextRunTracksSchedule'
  OBVIOUS
<1> USE DEF NextRunTracksSchedule, schedule, row
<1>1. ASSUME NEW e \in Exec, NEW manual \in BOOLEAN, TakeLease(e, manual)
      PROVE  NextRunTracksSchedule'
  BY <1>1 DEF TakeLease
<1>2. ASSUME NEW e \in Exec, Execute(e) \/ Heartbeat(e) \/ HeartbeatUnreachable(e)
      PROVE  NextRunTracksSchedule'
  <2>1. CASE FinalizeSuccess(e) /\ Owns(e)
    BY <2>1 DEF FinalizeSuccess, RecordSuccess
  <2>2. CASE FinalizeFailure(e) /\ Owns(e)
    BY <2>2 DEF FinalizeFailure, RecordFailure
  <2>3. CASE ~(FinalizeSuccess(e) /\ Owns(e)) /\ ~(FinalizeFailure(e) /\ Owns(e))
    <3>1. UNCHANGED schedule
      BY <1>2, <2>3, QuietActions DEF Execute
    <3>2. QED
      BY <3>1
  <2>4. QED
    BY <2>1, <2>2, <2>3
<1>3. ASSUME NEW p \in Proc, BeginShutdown(p) \/ Restart(p)
      PROVE  NextRunTracksSchedule'
  BY <1>3 DEF BeginShutdown, Restart
<1>4. ASSUME NEW on \in BOOLEAN, UpdateSchedule(on)
      PROVE  NextRunTracksSchedule'
  BY <1>4 DEF UpdateSchedule
<1>5. CASE LeaseLapses \/ NextRunComesDue \/ UNCHANGED vars
  BY <1>5 DEF LeaseLapses, NextRunComesDue, vars
<1>6. QED
  BY <1>1, <1>2, <1>3, <1>4, <1>5 DEF Next, ClaimNow, ClaimDue

\* The inductive step.
LEMMA IInvStep == IInv /\ [Next]_vars => IInv'
<1> SUFFICES ASSUME IInv, [Next]_vars PROVE IInv'
  OBVIOUS
<1>1. Holders' /\ OwnersView' /\ Future' /\ OpenRun' /\ RetryBudget'
  <2>1. TypeOK
    BY DEF IInv
  <2>2. QED
    BY <2>1, StepKinds, TakeStep, SuccessStep, FailureStep, QuietStep
<1>2. TypeOK' /\ NextRunTracksSchedule'
  BY TypeStep, ScheduleStep DEF IInv
<1>3. QED
  BY <1>1, <1>2 DEF IInv

\* The inductive invariant holds from the creation of the row on.
LEMMA Invariance == Spec => []IInv
<1>1. Init => IInv
  <2> SUFFICES ASSUME Init PROVE IInv
    OBVIOUS
  <2> USE WorkerJobsAssumption DEF Init, Generation
  <2>1. TypeOK
    BY DEF TypeOK, Execution, Status, Expiry, NextRun, Cause, Phase, Outcome,
           NoExecution
  <2>2. Holders /\ OwnersView
    BY DEF Holders, OwnersView, Active, NoExecution
  <2>3. Future /\ OpenRun /\ RetryBudget
    BY DEF Future, OpenRun, RetryBudget
  <2>4. NextRunTracksSchedule
    BY DEF NextRunTracksSchedule
  <2>5. QED
    BY <2>1, <2>2, <2>3, <2>4 DEF IInv
<1>2. QED
  BY <1>1, IInvStep, PTL DEF Spec

\* Of any number of executions in any number of processes, at most one can
\* still record a result, and it is the one that claimed last.
THEOREM SingleOwnerAlways == Spec => []SingleOwner
<1>1. IInv => SingleOwner
  BY DEF IInv, TypeOK, Execution, Holders, SingleOwner, Owns
<1>2. QED
  BY <1>1, Invariance, PTL

\* A run recorded as SUCCESS or FAILED is never executed again.
THEOREM ClosedRunNeverRepeatsAlways == Spec => []ClosedRunNeverRepeats
<1>1. IInv => ClosedRunNeverRepeats
  BY DEF IInv, OpenRun, ClosedRunNeverRepeats
<1>2. QED
  BY <1>1, Invariance, PTL

\* No logical run records more failures than max_attempts.
THEOREM RetryBudgetAlways == Spec => []RetryBudget
<1>1. IInv => RetryBudget
  BY DEF IInv
<1>2. QED
  BY <1>1, Invariance, PTL

\* The next run exists exactly while the schedule is on.
THEOREM NextRunTracksScheduleAlways == Spec => []NextRunTracksSchedule
<1>1. IInv => NextRunTracksSchedule
  BY DEF IInv
<1>2. QED
  BY <1>1, Invariance, PTL

-----------------------------------------------------------------------------
\* A step leaves the lease alone, grants it, or finishes its generation.
LEMMA LeaseStep == IInv /\ [Next]_vars => [Lease!Next]_(Lease!vars)
<1> SUFFICES ASSUME IInv, [Next]_vars PROVE [Lease!Next]_(Lease!vars)
  OBVIOUS
<1> USE DEF IInv, TypeOK, Generation, Lease!Generation
<1>1. ASSUME NEW e \in Exec, NEW manual \in BOOLEAN, TakeLease(e, manual)
      PROVE  Lease!Grant
  <2>1. \A g \in Generation : g = (IF status = "RUNNING" THEN gen ELSE 0)
                             <=> (g = gen /\ status = "RUNNING")
    BY DEF OpenRun
  <2>2. outcome' = [g \in Generation |->
                     IF g = (IF status = "RUNNING" THEN gen ELSE 0)
                     THEN "void" ELSE outcome[g]]
    BY <1>1, <2>1 DEF TakeLease
  <2>3. QED
    BY <1>1, <2>2 DEF TakeLease, Lease!Grant
<1>2. ASSUME Quiet
      PROVE  UNCHANGED Lease!vars
  BY <1>2 DEF Quiet, history, Lease!vars
<1>3. ASSUME NEW e \in Exec, FinalizeSuccess(e), Owns(e)
      PROVE  Lease!Finish("success")
  BY <1>3 DEF FinalizeSuccess, RecordSuccess, ReleaseLease, Owns, OpenRun,
              Lease!Finish
<1>4. ASSUME NEW e \in Exec, FinalizeFailure(e), Owns(e)
      PROVE  \E r \in Outcome : Lease!Finish(r)
  <2>1. Lease!Finish(IF WillRetry(e) THEN "retry" ELSE "failed")
    BY <1>4 DEF FinalizeFailure, RecordFailure, ReleaseLease, Owns, OpenRun,
                Lease!Finish
  <2>2. QED
    BY <2>1 DEF Outcome
<1>5. QED
  BY <1>1, <1>2, <1>3, <1>4, StepKinds DEF Lease!Next, Outcome

\* The job implements the fenced lease: its claims are the lease's
\* generations, and it ends each of them in the ways the lease allows.
THEOREM ImplementsLeaseAlways == Spec => ImplementsLease
<1>1. Init => Lease!Init
  BY DEF Init, Lease!Init, Generation, Lease!Generation
<1>2. QED
  BY <1>1, LeaseStep, Invariance, PTL DEF Spec, ImplementsLease, Lease!Spec

\* How a claim ended never changes.
THEOREM EndingIsFinalAlways == Spec => EndingIsFinal
<1>1. ASSUME IInv, [Next]_vars
      PROVE  [\A g \in Generation : outcome[g] # "open" => outcome'[g] = outcome[g]]_vars
  <2> USE DEF IInv, TypeOK, Generation
  <2>1. ASSUME NEW e \in Exec, NEW manual \in BOOLEAN, TakeLease(e, manual),
               NEW g \in Generation, outcome[g] # "open"
        PROVE  outcome'[g] = outcome[g]
    BY <1>1, <2>1 DEF TakeLease, OpenRun
  <2>2. ASSUME NEW e \in Exec, Owns(e), FinalizeSuccess(e) \/ FinalizeFailure(e),
               NEW g \in Generation, outcome[g] # "open"
        PROVE  outcome'[g] = outcome[g]
    BY <1>1, <2>2 DEF FinalizeSuccess, FinalizeFailure, Owns, OpenRun
  <2>3. Quiet => outcome' = outcome
    BY DEF Quiet, history
  <2>4. QED
    BY <1>1, <2>1, <2>2, <2>3, StepKinds
<1>2. QED
  BY <1>1, Invariance, PTL DEF Spec, EndingIsFinal

-----------------------------------------------------------------------------
(* The reads of the sales channel.                                           *)

USE PageAssumption DEF PageAssumption

\* The larger of two numbers.
LEMMA MaxOfTwo ==
  ASSUME NEW a \in Nat, NEW b \in Nat
  PROVE  Max({a, b}) = IF a >= b THEN a ELSE b
<1>. DEFINE m == IF a >= b THEN a ELSE b
            Largest(x) == x \in {a, b} /\ \A y \in {a, b} : x >= y
<1>1. Largest(m)
  OBVIOUS
<1>2. \A x : Largest(x) => x = m
  OBVIOUS
<1>3. Max({a, b}) = CHOOSE x : Largest(x)
  BY DEF Max
<1>. HIDE DEF m, Largest
<1>4. Largest(CHOOSE x : Largest(x))
  BY <1>1
<1>5. Max({a, b}) = m
  BY <1>2, <1>3, <1>4
<1>. QED
  BY <1>5 DEF m

-----------------------------------------------------------------------------
(* The pages.                                                                *)

LogStatus == NonTerminal \cup {"SUCCESS", "FAILED"}
PagePhase == {"idle", "begun", "asking", "answered", "received", "processing",
              "stored"}
Page == [rev : Nat, orders : SUBSET PageOrder, stage : Nat,
         before : [PageOrder -> Nat]]

PageTypes ==
  /\ pageStage \in [PageOrder -> Nat]
  /\ clock \in Nat
  /\ logs \in Seq(LogStatus)
  /\ Len(logs) = clock
  /\ raw \in [PageOrder -> [rev : Nat, stage : Nat]]
  /\ pagePc \in [PageReader -> PagePhase]
  /\ asked \in [PageReader -> Page]
  /\ ousted \subseteq PageReader
  /\ candidate \in [rev : Nat, status : LogStatus \cup {"NONE"}]
  /\ pageMishaps \in Nat
  /\ floor \in [PageOrder -> Nat]

Asks(e) == pagePc[e] \notin {"idle", "begun"}

\* A page has a revision from its reservation to its end; the recovery works
\* on a call that it has seen open.
CallInv ==
  /\ \A e \in PageReader : IF Asks(e) THEN asked[e].rev \in 1..clock
                                      ELSE asked[e] = NoPage
  /\ candidate = NoCandidate \/ (/\ candidate.rev \in 1..clock
                                 /\ candidate.status \in NonTerminal)
  /\ \A o \in PageOrder : raw[o].rev <= clock

\* Later revisions were reserved when the orders were no younger, and a page
\* was answered after its reservation.
AgeInv ==
  /\ \A e \in PageReader : \A o \in PageOrder :
       asked[e].before[o] <= pageStage[o]
  /\ \A e \in PageReader : \A o \in asked[e].orders :
       asked[e].before[o] <= asked[e].stage
  /\ \A e, f \in PageReader :
       (0 < asked[e].rev /\ asked[e].rev < asked[f].rev) =>
         \A o \in PageOrder : asked[e].before[o] <= asked[f].before[o]

\* The floor is where the stored revision puts it among the pages under way.
FloorInv ==
  /\ \A o \in PageOrder : floor[o] <= pageStage[o]
  /\ \A e \in PageReader : \A o \in PageOrder :
       /\ asked[e].rev > raw[o].rev => floor[o] <= asked[e].before[o]
       /\ (0 < asked[e].rev /\ asked[e].rev < raw[o].rev) =>
            asked[e].before[o] <= floor[o]

PageInv ==
  PageTypes /\ CallInv /\ AgeInv /\ FloorInv
  /\ NotOlderThanRead /\ StoredIsRecorded

\* A page of orders is only empty or made of orders.
LEMMA NoPageType == NoPage \in Page /\ NoPage.rev = 0 /\ NoPage.orders = {}
                    /\ \A o \in PageOrder : NoPage.before[o] = 0
BY DEF NoPage, Page

LEMMA PageInitInv == PageInit => PageInv
<1>. SUFFICES ASSUME PageInit PROVE PageInv
  OBVIOUS
<1>. USE DEF PageInit
<1>1. PageTypes
  BY NoPageType DEF PageTypes, PagePhase, NoRow, NoCandidate
<1>2. CallInv /\ AgeInv /\ FloorInv
  BY NoPageType DEF CallInv, AgeInv, FloorInv, Asks, NoRow
<1>3. NotOlderThanRead /\ StoredIsRecorded
  BY DEF NotOlderThanRead, StoredIsRecorded, NoRow
<1>. QED
  BY <1>1, <1>2, <1>3 DEF PageInv

\* A page that is asked for, and one that is answered.
LEMMA PageFields ==
  ASSUME NEW p \in Page
  PROVE  /\ p.rev \in Nat
         /\ p.orders \subseteq PageOrder
         /\ p.stage \in Nat
         /\ \A o \in PageOrder : p.before[o] \in Nat
         /\ \A r \in Nat, b \in [PageOrder -> Nat] :
              [p EXCEPT !.rev = r, !.before = b] \in Page
         /\ \A os \in SUBSET PageOrder, s \in Nat :
              [p EXCEPT !.orders = os, !.stage = s] \in Page
BY DEF Page

\* Opening the log's next row, and changing one.
LEMMA LogAppends ==
  ASSUME NEW S, NEW s \in Seq(S), NEW x \in S
  PROVE  /\ Append(s, x) \in Seq(S)
         /\ Len(Append(s, x)) = Len(s) + 1
         /\ \A i \in 1..Len(s) : Append(s, x)[i] = s[i]
OBVIOUS

LEMMA LogChanges ==
  ASSUME NEW S, NEW s \in Seq(S), NEW x \in S, NEW i \in 1..Len(s)
  PROVE  /\ [s EXCEPT ![i] = x] \in Seq(S)
         /\ Len([s EXCEPT ![i] = x]) = Len(s)
OBVIOUS

LEMMA LogIsRewritten ==
  ASSUME NEW S, NEW n \in Nat, NEW f \in [1..n -> S]
  PROVE  f \in Seq(S) /\ Len(f) = n
OBVIOUS

\* Each action keeps the types.
LEMMA PageTypeStep ==
  ASSUME PageTypes, CallInv, [PageNext]_pageVars
  PROVE  PageTypes'
<1>. USE DEF PageTypes, PagePhase, PageSteps, LeavesPage, recovery
<1>s. {"PENDING", "RECEIVED", "PROCESSING", "SUCCESS", "FAILED"} \subseteq LogStatus
  BY DEF LogStatus, NonTerminal
<1>1. ASSUME NEW e \in PageReader, BeginPage(e) PROVE PageTypes'
  BY <1>1 DEF BeginPage
<1>2. ASSUME NEW e \in PageReader, Reserve(e) PROVE PageTypes'
  <2>. asked[e] \in Page /\ clock + 1 \in Nat /\ pageStage \in [PageOrder -> Nat]
    OBVIOUS
  <2>1. [asked[e] EXCEPT !.rev = clock + 1, !.before = pageStage] \in Page
    BY PageFields, Zenon
  <2>2. asked' \in [PageReader -> Page]
    BY <1>2, <2>1, Zenon DEF Reserve
  <2>3. logs' \in Seq(LogStatus) /\ Len(logs') = clock'
    BY <1>2, <1>s, LogAppends DEF Reserve
  <2>. QED
    BY <1>2, <2>2, <2>3 DEF Reserve
<1>3. ASSUME NEW e \in PageReader, Call(e) PROVE PageTypes'
  <2>. PICK s \in 1..PageLast, page \in SUBSET PageOrder :
         asked' = [asked EXCEPT ![e].orders = page, ![e].stage = s]
    BY <1>3 DEF Call
  <2>. asked[e] \in Page /\ s \in Nat
    OBVIOUS
  <2>1. [asked[e] EXCEPT !.orders = page, !.stage = s] \in Page
    BY PageFields, Zenon
  <2>2. asked' \in [PageReader -> Page]
    BY <2>1, Zenon
  <2>. QED
    BY <1>3, <2>2 DEF Call
<1>4. ASSUME NEW e \in PageReader, Receive(e) PROVE PageTypes'
  <2>1. asked[e].rev \in 1..clock
    BY <1>4 DEF Receive, CallInv, Asks
  <2>2. logs' \in Seq(LogStatus) /\ Len(logs') = clock
    BY <1>4, <1>s, <2>1, LogChanges DEF Receive, Logs
  <2>. QED
    BY <1>4, <2>2 DEF Receive
<1>5. ASSUME NEW e \in PageReader, Process(e) PROVE PageTypes'
  <2>1. asked[e].rev \in 1..clock
    BY <1>5 DEF Process, CallInv, Asks
  <2>2. logs' \in Seq(LogStatus) /\ Len(logs') = clock
    BY <1>5, <1>s, <2>1, LogChanges DEF Process, Logs
  <2>. QED
    BY <1>5, <2>2 DEF Process
<1>6. ASSUME NEW e \in PageReader, Store(e) PROVE PageTypes'
  <2>1. raw' \in [PageOrder -> [rev : Nat, stage : Nat]]
    BY <1>6 DEF Store, Page
  <2>. asked[e] \in Page
    OBVIOUS
  <2>2. ASSUME NEW o \in PageOrder PROVE Max({floor[o], asked[e].before[o]}) \in Nat
    <3>1. floor[o] \in Nat
      OBVIOUS
    <3>2. asked[e].before[o] \in Nat
      BY PageFields, Zenon
    <3>3. Max({floor[o], asked[e].before[o]}) =
            IF floor[o] >= asked[e].before[o] THEN floor[o]
                                              ELSE asked[e].before[o]
      BY <3>1, <3>2, MaxOfTwo, Zenon
    <3>. QED
      BY <3>1, <3>2, <3>3, Zenon
  <2>3. floor' \in [PageOrder -> Nat]
    <3>1. floor' = [o \in PageOrder |->
                     IF o \in asked[e].orders
                       THEN Max({floor[o], asked[e].before[o]})
                       ELSE floor[o]]
      BY <1>6, Zenon DEF Store
    <3>2. \A o \in PageOrder : floor[o] \in Nat
      BY Zenon
    <3>3. \A o \in PageOrder : (IF o \in asked[e].orders
                                  THEN Max({floor[o], asked[e].before[o]})
                                  ELSE floor[o]) \in Nat
      BY <2>2, <3>2, Zenon
    <3>. QED
      BY <3>1, <3>3, Zenon
  <2>4. asked[e].rev \in 1..clock
    BY <1>6 DEF Store, CallInv, Asks
  <2>5. logs' \in Seq(LogStatus) /\ Len(logs') = clock
    BY <1>6, <1>s, <2>4, LogChanges DEF Store, Logs
  <2>. QED
    BY <1>6, <2>1, <2>3, <2>5 DEF Store
<1>7. ASSUME NEW e \in PageReader, EndPage(e) PROVE PageTypes'
  BY <1>7, NoPageType DEF EndPage
<1>8. ASSUME NEW e \in PageReader, FailRead(e) PROVE PageTypes'
  <2>1. logs' \in [1..clock -> LogStatus]
    BY <1>8, <1>s DEF FailRead
  <2>3. logs' \in Seq(LogStatus) /\ Len(logs') = clock
    BY <2>1, LogIsRewritten
  <2>2. pageMishaps' \in Nat
    BY <1>8 DEF FailRead, PageMishap
  <2>. QED
    BY <1>8, <2>2, <2>3, NoPageType DEF FailRead
<1>9. ASSUME NEW e \in PageReader, ReaderDies(e) PROVE PageTypes'
  BY <1>9, NoPageType DEF ReaderDies, PageMishap
<1>10. ASSUME NEW e \in PageReader, IsOusted(e) PROVE PageTypes'
  BY <1>10 DEF IsOusted, PageMishap
<1>11. ASSUME NEW r \in 1..clock, FindInterrupted(r) PROVE PageTypes'
  BY <1>11 DEF FindInterrupted, pageExecution
<1>12. CASE RecoverInterrupted
  <2>1. candidate.rev \in 1..clock
    BY <1>12 DEF RecoverInterrupted, CallInv
  <2>2. logs' \in Seq(LogStatus) /\ Len(logs') = clock
    BY <1>12, <1>s, <2>1, LogChanges DEF RecoverInterrupted
  <2>. QED
    BY <1>12, <2>2 DEF RecoverInterrupted, pageExecution, NoCandidate
<1>13. ASSUME NEW o \in PageOrder, OrderMoves(o) PROVE PageTypes'
  BY <1>13 DEF OrderMoves, pageExecution
<1>14. CASE UNCHANGED pageVars
  BY <1>14 DEF pageVars, pageExecution
<1>. QED
  BY <1>1, <1>2, <1>3, <1>4, <1>5, <1>6, <1>7, <1>8, <1>9, <1>10, <1>11,
     <1>12, <1>13, <1>14 DEF PageNext, PageStep

\* Revisions come from the clock, which only grows.
LEMMA CallInvStep ==
  ASSUME PageTypes, CallInv, [PageNext]_pageVars
  PROVE  CallInv'
<1>. USE DEF PageTypes, PagePhase, CallInv, Asks, PageSteps, LeavesPage, recovery, pageExecution
<1>1. ASSUME NEW e \in PageReader, BeginPage(e) PROVE CallInv'
  <2>1. asked[e] = NoPage
    BY <1>1 DEF BeginPage, Reading
  <2>2. ASSUME NEW f \in PageReader
        PROVE  IF Asks(f)' THEN asked[f].rev \in 1..clock ELSE asked[f] = NoPage
    BY <1>1, <2>1 DEF BeginPage
  <2>. QED
    BY <1>1, <2>2 DEF BeginPage
<1>2. ASSUME NEW e \in PageReader, Reserve(e) PROVE CallInv'
  <2>1. ASSUME NEW f \in PageReader, f # e
        PROVE  IF Asks(f)' THEN asked'[f].rev \in 1..clock' ELSE asked'[f] = NoPage
    BY <1>2, <2>1 DEF Reserve
  <2>2. asked'[e] = [asked[e] EXCEPT !.rev = clock + 1, !.before = pageStage]
    BY <1>2, Zenon DEF Reserve
  <2>3. asked[e] \in Page
    OBVIOUS
  <2>4. asked'[e].rev = clock + 1
    BY <2>2, <2>3, PageFields DEF Page
  <2>5. Asks(e)' /\ clock' = clock + 1
    BY <1>2 DEF Reserve
  <2>. QED
    BY <1>2, <2>1, <2>4, <2>5 DEF Reserve
<1>3. ASSUME NEW e \in PageReader, Call(e) PROVE CallInv'
  BY <1>3 DEF Call
<1>4. ASSUME NEW e \in PageReader, Receive(e) PROVE CallInv'
  BY <1>4 DEF Receive, Logs
<1>5. ASSUME NEW e \in PageReader, Process(e) PROVE CallInv'
  BY <1>5 DEF Process, Logs
<1>6. ASSUME NEW e \in PageReader, Store(e) PROVE CallInv'
  BY <1>6 DEF Store, Newer
<1>7. ASSUME NEW e \in PageReader, EndPage(e) PROVE CallInv'
  BY <1>7 DEF EndPage
<1>8. ASSUME NEW e \in PageReader, FailRead(e) PROVE CallInv'
  BY <1>8 DEF FailRead
<1>9. ASSUME NEW e \in PageReader, ReaderDies(e) PROVE CallInv'
  BY <1>9 DEF ReaderDies
<1>10. ASSUME NEW e \in PageReader, IsOusted(e) PROVE CallInv'
  BY <1>10 DEF IsOusted
<1>11. ASSUME NEW r \in 1..clock, FindInterrupted(r) PROVE CallInv'
  BY <1>11 DEF FindInterrupted
<1>12. CASE RecoverInterrupted
  BY <1>12 DEF RecoverInterrupted, NoCandidate
<1>13. ASSUME NEW o \in PageOrder, OrderMoves(o) PROVE CallInv'
  BY <1>13 DEF OrderMoves
<1>14. CASE UNCHANGED pageVars
  BY <1>14 DEF pageVars
<1>. QED
  BY <1>1, <1>2, <1>3, <1>4, <1>5, <1>6, <1>7,
     <1>8, <1>9, <1>10, <1>11, <1>12, <1>13, <1>14
     DEF PageNext, PageStep

\* A page that is dropped leaves the others as they are.
LEMMA AgeOfOthers ==
  ASSUME PageTypes, AgeInv, NEW e \in PageReader, UNCHANGED pageStage,
         asked' = [asked EXCEPT ![e] = NoPage]
  PROVE  AgeInv'
<1>1. asked'[e] = NoPage /\ \A f \in PageReader : f # e => asked'[f] = asked[f]
  BY DEF PageTypes
<1>2. \A f \in PageReader : \A o \in PageOrder : asked'[f].before[o] <= pageStage'[o]
  BY <1>1, NoPageType DEF AgeInv, PageTypes
<1>3. \A f \in PageReader : \A o \in asked'[f].orders :
        asked'[f].before[o] <= asked'[f].stage
  BY <1>1, NoPageType DEF AgeInv
<1>4. ASSUME NEW f \in PageReader, NEW g \in PageReader,
             0 < asked'[f].rev, asked'[f].rev < asked'[g].rev
      PROVE  \A o \in PageOrder : asked'[f].before[o] <= asked'[g].before[o]
  <2>1. f # e /\ g # e
    <3>1. asked[f].rev \in Nat
      BY PageFields DEF PageTypes
    <3>. QED
      BY <1>1, <1>4, <3>1, NoPageType
  <2>. QED
    BY <1>1, <1>4, <2>1 DEF AgeInv
<1>. QED
  BY <1>2, <1>3, <1>4 DEF AgeInv

\* A page is younger than all that were reserved before it.
LEMMA AgeInvStep ==
  ASSUME PageTypes, CallInv, AgeInv, [PageNext]_pageVars
  PROVE  AgeInv'
<1>. USE DEF PageTypes, CallInv, Asks, AgeInv, PageSteps, LeavesPage, recovery, pageExecution
<1>1. ASSUME NEW e \in PageReader, BeginPage(e) PROVE AgeInv'
  BY <1>1 DEF BeginPage
<1>2. ASSUME NEW e \in PageReader, Reserve(e) PROVE AgeInv'
  <2>1. asked[e] = NoPage /\ asked[e] \in Page
    BY <1>2 DEF Reserve
  <2>2. asked' = [asked EXCEPT ![e] = [NoPage EXCEPT !.rev = clock + 1,
                                                     !.before = pageStage]]
    BY <1>2, <2>1, Zenon DEF Reserve
  <2>3. /\ asked'[e].rev = clock + 1
        /\ asked'[e].orders = {}
        /\ asked'[e].before = pageStage
    BY <2>2 DEF NoPage
  <2>4. \A f \in PageReader : f # e => asked'[f] = asked[f]
    BY <2>2
  <2>5. \A f \in PageReader : asked[f].rev \in Nat /\ asked[f].rev <= clock
    BY NoPageType
  <2>6. UNCHANGED pageStage
    BY <1>2 DEF Reserve
  <2>7. \A f \in PageReader : \A o \in PageOrder :
          asked'[f].before[o] <= pageStage'[o]
    <3>1. \A o \in PageOrder : asked'[e].before[o] <= pageStage'[o]
      BY <2>3, <2>6
    <3>2. \A f \in PageReader : f # e =>
            \A o \in PageOrder : asked'[f].before[o] <= pageStage'[o]
      BY <2>4, <2>6
    <3>. QED
      BY <3>1, <3>2
  <2>8. \A f \in PageReader : \A o \in asked'[f].orders :
          asked'[f].before[o] <= asked'[f].stage
    BY <2>3, <2>4
  <2>9. ASSUME NEW f \in PageReader, NEW g \in PageReader,
               0 < asked'[f].rev, asked'[f].rev < asked'[g].rev
        PROVE  \A o \in PageOrder : asked'[f].before[o] <= asked'[g].before[o]
    <3>1. f # e
      BY <2>1, <2>3, <2>4, <2>5, <2>9, NoPageType
    <3>2. CASE g = e
      <4>1. asked'[f].before = asked[f].before /\ asked'[g].before = pageStage
        BY <2>3, <2>4, <3>1, <3>2
      <4>. QED
        BY <4>1
    <3>3. CASE g # e
      BY <2>4, <2>9, <3>1, <3>3
    <3>. QED
      BY <3>2, <3>3
  <2>. QED
    BY <2>7, <2>8, <2>9
<1>3. ASSUME NEW e \in PageReader, Call(e) PROVE AgeInv'
  <2>. PICK s \in 1..PageLast : \E page \in SUBSET {o \in PageOrder : pageStage[o] = s} :
         asked' = [asked EXCEPT ![e].orders = page, ![e].stage = s]
    BY <1>3 DEF Call
  <2>. PICK page \in SUBSET {o \in PageOrder : pageStage[o] = s} :
         asked' = [asked EXCEPT ![e].orders = page, ![e].stage = s]
    OBVIOUS
  <2>1. asked' = [asked EXCEPT ![e] = [asked[e] EXCEPT !.orders = page, !.stage = s]]
    BY Zenon
  <2>2. asked[e] \in Page
    OBVIOUS
  <2>3. /\ asked'[e].rev = asked[e].rev
        /\ asked'[e].orders = page
        /\ asked'[e].stage = s
        /\ asked'[e].before = asked[e].before
    BY <2>1, <2>2 DEF Page
  <2>4. \A f \in PageReader : f # e => asked'[f] = asked[f]
    BY <2>1
  <2>5. \A f \in PageReader : asked'[f].rev = asked[f].rev
                             /\ asked'[f].before = asked[f].before
    BY <2>3, <2>4
  <2>6. \A o \in page : asked[e].before[o] <= s
    OBVIOUS
  <2>7. UNCHANGED pageStage
    BY <1>3 DEF Call
  <2>. QED
    BY <2>3, <2>4, <2>5, <2>6, <2>7
<1>4. ASSUME NEW e \in PageReader, Receive(e) PROVE AgeInv'
  BY <1>4 DEF Receive
<1>5. ASSUME NEW e \in PageReader, Process(e) PROVE AgeInv'
  BY <1>5 DEF Process
<1>6. ASSUME NEW e \in PageReader, Store(e) PROVE AgeInv'
  BY <1>6 DEF Store
<1>7. ASSUME NEW e \in PageReader, EndPage(e) PROVE AgeInv'
  BY <1>7, AgeOfOthers DEF EndPage
<1>8. ASSUME NEW e \in PageReader, FailRead(e) PROVE AgeInv'
  BY <1>8, AgeOfOthers DEF FailRead
<1>9. ASSUME NEW e \in PageReader, ReaderDies(e) PROVE AgeInv'
  BY <1>9, AgeOfOthers DEF ReaderDies
<1>10. ASSUME NEW e \in PageReader, IsOusted(e) PROVE AgeInv'
  BY <1>10 DEF IsOusted
<1>11. ASSUME NEW r \in 1..clock, FindInterrupted(r) PROVE AgeInv'
  BY <1>11 DEF FindInterrupted
<1>12. CASE RecoverInterrupted
  BY <1>12 DEF RecoverInterrupted
<1>13. ASSUME NEW o \in PageOrder, OrderMoves(o) PROVE AgeInv'
  <2>1. \A p \in PageOrder : pageStage'[p] >= pageStage[p]
    BY <1>13 DEF OrderMoves
  <2>2. UNCHANGED asked
    BY <1>13 DEF OrderMoves
  <2>3. \A f \in PageReader : \A p \in PageOrder : asked[f].before[p] \in Nat
    BY PageFields
  <2>4. \A p \in PageOrder : pageStage'[p] \in Nat
    BY <1>13 DEF OrderMoves
  <2>. QED
    BY <2>1, <2>2, <2>3, <2>4
<1>14. CASE UNCHANGED pageVars
  BY <1>14 DEF pageVars
<1>. QED
  BY <1>1, <1>2, <1>3, <1>4, <1>5, <1>6, <1>7,
     <1>8, <1>9, <1>10, <1>11, <1>12, <1>13, <1>14
     DEF PageNext, PageStep

\* A page that is dropped has no revision to compare.
LEMMA FloorOfOthers ==
  ASSUME PageTypes, FloorInv, NEW e \in PageReader,
         UNCHANGED <<pageStage, raw, floor>>,
         asked' = [asked EXCEPT ![e] = NoPage]
  PROVE  FloorInv'
<1>1. asked'[e].rev = 0 /\ \A f \in PageReader : f # e => asked'[f] = asked[f]
  BY NoPageType DEF PageTypes
<1>2. \A o \in PageOrder : raw[o].rev \in Nat
  BY DEF PageTypes
<1>. QED
  BY <1>1, <1>2 DEF FloorInv

\* Storing a page moves an order's floor only with its row: of two pages the
\* later one counts, in whichever order they are stored.
LEMMA StoreFloor ==
  ASSUME PageTypes, CallInv, AgeInv, FloorInv, NotOlderThanRead,
         StoredIsRecorded, NEW e \in PageReader, Store(e)
  PROVE  FloorInv' /\ NotOlderThanRead'
<1>. DEFINE page == asked[e]
<1>1. page \in Page /\ page.rev \in 1..clock /\ logs[page.rev] = "PROCESSING"
  BY DEF Store, Logs, CallInv, Asks, PageTypes
<1>2. \A o \in PageOrder :
        /\ raw[o].rev \in Nat /\ raw[o].stage \in Nat /\ floor[o] \in Nat
        /\ pageStage[o] \in Nat
        /\ page.before[o] \in Nat /\ page.stage \in Nat
  BY <1>1, PageFields DEF PageTypes
<1>3. \A o \in PageOrder : raw[o].rev # page.rev
  BY <1>1 DEF StoredIsRecorded
<1>4. UNCHANGED <<pageStage, asked>>
  BY DEF Store
<1>5. ASSUME NEW o \in PageOrder, o \notin page.orders \/ ~Newer(e, o)
      PROVE  raw'[o] = raw[o] /\ floor'[o] = floor[o]
  <2>1. raw'[o] = raw[o]
    BY <1>5 DEF Store
  <2>2. CASE o \notin page.orders
    BY <2>1, <2>2 DEF Store
  <2>3. CASE o \in page.orders
    <3>1. page.before[o] <= floor[o]
      BY <1>1, <1>2, <1>3, <1>5, <2>3 DEF FloorInv, Newer
    <3>2. floor'[o] = Max({floor[o], page.before[o]})
      BY <2>3 DEF Store
    <3>3. Max({floor[o], page.before[o]}) = floor[o]
      BY <1>2, <3>1, MaxOfTwo
    <3>. QED
      BY <2>1, <3>2, <3>3
  <2>. QED
    BY <2>2, <2>3
<1>6. ASSUME NEW o \in PageOrder, o \in page.orders, Newer(e, o)
      PROVE  /\ raw'[o] = [rev |-> page.rev, stage |-> page.stage]
             /\ floor'[o] = page.before[o]
             /\ page.before[o] <= page.stage
             /\ page.before[o] <= pageStage[o]
  <2>1. raw'[o] = [rev |-> page.rev, stage |-> page.stage]
    BY <1>6 DEF Store
  <2>2. floor[o] <= page.before[o]
    BY <1>6 DEF FloorInv, Newer
  <2>3. floor'[o] = Max({floor[o], page.before[o]})
    BY <1>6 DEF Store
  <2>4. Max({floor[o], page.before[o]}) = page.before[o]
    BY <1>2, <2>2, MaxOfTwo
  <2>. QED
    BY <1>6, <2>1, <2>3, <2>4 DEF AgeInv
<1>7. NotOlderThanRead'
  <2>1. ASSUME NEW o \in PageOrder PROVE raw'[o].stage >= floor'[o]
    <3>1. CASE o \in page.orders /\ Newer(e, o)
      BY <1>2, <1>6, <3>1
    <3>2. CASE o \notin page.orders \/ ~Newer(e, o)
      BY <1>5, <3>2 DEF NotOlderThanRead
    <3>. QED
      BY <3>1, <3>2
  <2>. QED
    BY <2>1 DEF NotOlderThanRead
<1>8. \A o \in PageOrder : floor'[o] <= pageStage'[o]
  <2>1. ASSUME NEW o \in PageOrder PROVE floor'[o] <= pageStage'[o]
    <3>1. CASE o \in page.orders /\ Newer(e, o)
      BY <1>4, <1>6, <3>1
    <3>2. CASE o \notin page.orders \/ ~Newer(e, o)
      BY <1>4, <1>5, <3>2 DEF FloorInv
    <3>. QED
      BY <3>1, <3>2
  <2>. QED
    BY <2>1
<1>9. ASSUME NEW f \in PageReader, NEW o \in PageOrder
      PROVE  /\ asked'[f].rev > raw'[o].rev => floor'[o] <= asked'[f].before[o]
             /\ (0 < asked'[f].rev /\ asked'[f].rev < raw'[o].rev) =>
                  asked'[f].before[o] <= floor'[o]
  <2>1. CASE o \in page.orders /\ Newer(e, o)
    <3>1. raw'[o].rev = page.rev /\ floor'[o] = page.before[o]
      BY <1>6, <2>1
    <3>2. asked'[f] = asked[f] /\ asked[f].rev \in Nat
      BY <1>4, PageFields DEF PageTypes
    <3>. QED
      BY <1>1, <3>1, <3>2 DEF AgeInv
  <2>2. CASE o \notin page.orders \/ ~Newer(e, o)
    BY <1>4, <1>5, <2>2 DEF FloorInv
  <2>. QED
    BY <2>1, <2>2
<1>. QED
  BY <1>7, <1>8, <1>9 DEF FloorInv

\* What a page's end, an error or the recovery does leaves stored pages alone.
LEMMA FloorStep ==
  ASSUME PageInv, [PageNext]_pageVars
  PROVE  FloorInv' /\ NotOlderThanRead'
<1>. USE DEF PageInv
<1>1. ASSUME NEW e \in PageReader, BeginPage(e)
      PROVE  FloorInv' /\ NotOlderThanRead'
  BY <1>1 DEF BeginPage, FloorInv, NotOlderThanRead
<1>2. ASSUME NEW e \in PageReader, Reserve(e)
      PROVE  FloorInv' /\ NotOlderThanRead'
  <2>1. asked[e] \in Page /\ asked \in [PageReader -> Page] /\ clock \in Nat
    BY DEF PageTypes
  <2>2. asked' = [asked EXCEPT ![e] = [asked[e] EXCEPT !.rev = clock + 1,
                                                       !.before = pageStage]]
    BY <1>2, Zenon DEF Reserve
  <2>3. asked'[e].rev = clock + 1 /\ asked'[e].before = pageStage
    BY <2>1, <2>2 DEF Page
  <2>4. \A f \in PageReader : f # e => asked'[f] = asked[f]
    BY <2>1, <2>2
  <2>5. UNCHANGED <<pageStage, raw, floor>>
    BY <1>2 DEF Reserve
  <2>6. \A o \in PageOrder : raw[o].rev \in Nat /\ raw[o].rev <= clock
    BY DEF PageTypes, CallInv
  <2>7. ASSUME NEW f \in PageReader, NEW o \in PageOrder
        PROVE  /\ asked'[f].rev > raw'[o].rev => floor'[o] <= asked'[f].before[o]
               /\ (0 < asked'[f].rev /\ asked'[f].rev < raw'[o].rev) =>
                    asked'[f].before[o] <= floor'[o]
    <3>1. CASE f = e
      BY <2>1, <2>3, <2>5, <2>6, <3>1 DEF FloorInv
    <3>2. CASE f # e
      BY <2>4, <2>5, <3>2 DEF FloorInv
    <3>. QED
      BY <3>1, <3>2
  <2>. QED
    BY <2>5, <2>7 DEF FloorInv, NotOlderThanRead
<1>3. ASSUME NEW e \in PageReader, Call(e)
      PROVE  FloorInv' /\ NotOlderThanRead'
  <2>. PICK s \in 1..PageLast, page \in SUBSET PageOrder :
         asked' = [asked EXCEPT ![e].orders = page, ![e].stage = s]
    BY <1>3 DEF Call
  <2>1. asked' = [asked EXCEPT ![e] = [asked[e] EXCEPT !.orders = page, !.stage = s]]
    BY Zenon
  <2>2. asked[e] \in Page /\ asked \in [PageReader -> Page]
    BY DEF PageTypes
  <2>3. \A f \in PageReader : asked'[f].rev = asked[f].rev
                             /\ asked'[f].before = asked[f].before
    BY <2>1, <2>2 DEF Page
  <2>. QED
    BY <1>3, <2>3 DEF Call, FloorInv, NotOlderThanRead
<1>4. ASSUME NEW e \in PageReader, Receive(e) \/ Process(e) \/ IsOusted(e)
      PROVE  FloorInv' /\ NotOlderThanRead'
  BY <1>4 DEF Receive, Process, IsOusted, FloorInv, NotOlderThanRead
<1>5. ASSUME NEW e \in PageReader, Store(e)
      PROVE  FloorInv' /\ NotOlderThanRead'
  BY <1>5, StoreFloor
<1>6. ASSUME NEW e \in PageReader, EndPage(e) \/ FailRead(e) \/ ReaderDies(e)
      PROVE  FloorInv' /\ NotOlderThanRead'
  <2>1. asked' = [asked EXCEPT ![e] = NoPage] /\ UNCHANGED <<pageStage, raw, floor>>
    BY <1>6 DEF EndPage, FailRead, ReaderDies, LeavesPage
  <2>. QED
    BY <2>1, FloorOfOthers DEF NotOlderThanRead
<1>7. ASSUME NEW r \in 1..clock, FindInterrupted(r)
      PROVE  FloorInv' /\ NotOlderThanRead'
  BY <1>7 DEF FindInterrupted, pageExecution, FloorInv, NotOlderThanRead
<1>8. CASE RecoverInterrupted
  BY <1>8 DEF RecoverInterrupted, pageExecution, FloorInv, NotOlderThanRead
<1>9. ASSUME NEW o \in PageOrder, OrderMoves(o)
      PROVE  FloorInv' /\ NotOlderThanRead'
  <2>1. \A p \in PageOrder : /\ pageStage'[p] >= pageStage[p]
                            /\ pageStage'[p] \in Nat /\ floor[p] \in Nat
    BY <1>9 DEF OrderMoves, PageTypes
  <2>2. UNCHANGED <<asked, raw, floor>>
    BY <1>9 DEF OrderMoves, pageExecution
  <2>3. \A p \in PageOrder : pageStage[p] \in Nat
    BY DEF PageTypes
  <2>. QED
    BY <2>1, <2>2, <2>3 DEF FloorInv, NotOlderThanRead
<1>10. CASE UNCHANGED pageVars
  BY <1>10 DEF pageVars, pageExecution, FloorInv, NotOlderThanRead
<1>. QED
  BY <1>1, <1>2, <1>3, <1>4, <1>5, <1>6, <1>7, <1>8, <1>9, <1>10
     DEF PageNext, PageStep

\* A row of the log that is closed stays as it is.
LEMMA ClosedRowStays ==
  ASSUME PageTypes, CallInv, [PageNext]_pageVars, NEW r \in 1..clock,
         logs[r] = "SUCCESS"
  PROVE  logs'[r] = "SUCCESS"
<1>. USE DEF PageTypes
<1>1. ASSUME NEW e \in PageReader, Reserve(e) PROVE logs'[r] = "SUCCESS"
  BY <1>1, LogAppends DEF Reserve, LogStatus, NonTerminal
<1>2. ASSUME NEW e \in PageReader, Receive(e) PROVE logs'[r] = "SUCCESS"
  BY <1>2 DEF Receive, Logs
<1>3. ASSUME NEW e \in PageReader, Process(e) PROVE logs'[r] = "SUCCESS"
  BY <1>3 DEF Process, Logs
<1>4. ASSUME NEW e \in PageReader, Store(e) PROVE logs'[r] = "SUCCESS"
  BY <1>4 DEF Store, Logs
<1>5. ASSUME NEW e \in PageReader, FailRead(e) PROVE logs'[r] = "SUCCESS"
  BY <1>5 DEF FailRead, NonTerminal
<1>6. CASE RecoverInterrupted
  BY <1>6 DEF RecoverInterrupted, AsListed, CallInv, NonTerminal
<1>7. CASE UNCHANGED logs
  BY <1>7
<1>8. CASE \E e \in PageReader : BeginPage(e) \/ Call(e) \/ EndPage(e)
                                 \/ ReaderDies(e) \/ IsOusted(e)
  BY <1>7, <1>8 DEF BeginPage, Call, EndPage, ReaderDies, IsOusted
<1>9. CASE (\E s \in 1..clock : FindInterrupted(s)) \/ \E o \in PageOrder : OrderMoves(o)
  BY <1>7, <1>9 DEF FindInterrupted, OrderMoves
<1>10. CASE UNCHANGED pageVars
  BY <1>7, <1>10 DEF pageVars
<1>. QED
  BY <1>1, <1>2, <1>3, <1>4, <1>5, <1>6, <1>8, <1>9, <1>10 DEF PageNext, PageStep

\* Only Store writes rows, and it closes the log with them.
LEMMA RecordedStep ==
  ASSUME PageInv, [PageNext]_pageVars
  PROVE  StoredIsRecorded'
<1>. USE DEF PageInv
<1>1. \A o \in PageOrder : raw[o].rev \in Nat /\ raw[o].rev <= clock
  BY DEF PageTypes, CallInv
<1>2. \A o \in PageOrder : raw[o].rev # 0 => logs'[raw[o].rev] = "SUCCESS"
  BY <1>1, ClosedRowStays DEF StoredIsRecorded, PageTypes
<1>3. ASSUME NEW e \in PageReader, Store(e) PROVE StoredIsRecorded'
  <2>1. asked[e].rev \in 1..clock
    BY <1>3 DEF Store, CallInv, Asks
  <2>2. logs'[asked[e].rev] = "SUCCESS"
    BY <1>3, <2>1 DEF Store, Logs, PageTypes
  <2>3. \A o \in PageOrder : raw'[o] = raw[o] \/ raw'[o].rev = asked[e].rev
    BY <1>3 DEF Store
  <2>. QED
    BY <1>2, <2>2, <2>3 DEF StoredIsRecorded
<1>4. CASE UNCHANGED raw
  BY <1>2, <1>4 DEF StoredIsRecorded
<1>5. ~(\E e \in PageReader : Store(e)) => UNCHANGED raw
  BY DEF PageNext, PageStep, BeginPage, Reserve, Call, Receive, Process, EndPage,
         FailRead, ReaderDies, IsOusted, FindInterrupted, RecoverInterrupted,
         OrderMoves, pageVars
<1>. QED
  BY <1>3, <1>4, <1>5

\* The invariant of the pages holds in every behaviour.
THEOREM PagesInductive == PageSpec => []PageInv
<1>1. PageInv /\ [PageNext]_pageVars => PageInv'
  BY PageTypeStep, CallInvStep, AgeInvStep, FloorStep, RecordedStep DEF PageInv
<1>. QED
  BY PageInitInv, <1>1, PTL DEF PageSpec

\* What is stored of an order is never older than the order was when any
\* stored page with it was asked for, however many readers' pages overtake
\* each other (upsertOrderRawSnapshot), for any number of orders.
THEOREM NotOlderThanReadAlways == PageSpec => []NotOlderThanRead
<1>1. PageInv => NotOlderThanRead
  BY DEF PageInv
<1>. QED
  BY PagesInductive, <1>1, PTL

\* No stored page is ever recorded as interrupted
\* (completeCoupangApiCallLog, recoverInterruptedCoupangReadSyncs).
THEOREM StoredIsRecordedAlways == PageSpec => []StoredIsRecorded
<1>1. PageInv => StoredIsRecorded
  BY DEF PageInv
<1>. QED
  BY PagesInductive, <1>1, PTL

-----------------------------------------------------------------------------
(* The windows.                                                              *)

USE WindowAssumption DEF WindowAssumption

Window == [from : Int, to : Int, at : 1..Last, token : Nat]
WindowPhase == {"idle", "planned", "reading", "ending", "marking"}

ChannelTypes ==
  /\ now \in Nat /\ Day <= now /\ now <= MaxTime
  /\ created \in [Order -> Nat]
  /\ stage \in [Order -> Nat]
  /\ \A o \in Order : /\ created[o] <= now + 1 /\ stage[o] <= Last
                      /\ created[o] # 0 <=> stage[o] >= 1
  /\ since \in Nat /\ since <= now

ReaderTypes ==
  /\ stored \subseteq Order
  /\ cursor \in [from : Int, to : Int, legacy : {Day, NoTime}]
  /\ readPc \in [Reader -> WindowPhase]
  /\ read \in [Reader -> Window]
  /\ overtaken \subseteq Reader
  /\ mishaps \in Nat

WindowTypes == ChannelTypes /\ ReaderTypes

\* What is covered is past, and a window begins a day before what was covered
\* and ends at most a day behind it.
WindowsArePast ==
  /\ PreviousCoverage <= now
  /\ \A e \in Reader : Running(e) =>
       /\ read[e].from + Day <= read[e].to
       /\ read[e].to <= read[e].from + Day + Day
       /\ read[e].to <= now

\* Until the time c, only the last day's orders may be missing, and of these
\* only those that have left the first status.
Covered(c) ==
  \A o \in Order : created[o] > since =>
    /\ created[o] + Day <= c => o \in stored
    /\ created[o] <= c => o \in stored \/ stage[o] >= 2

\* The reader has yet to come to the order.
Ahead(e, o) ==
  \/ stage[o] > Statuses[read[e].at]
  \/ stage[o] = Statuses[read[e].at] /\ o > read[e].token

\* A run that has not come to the first status has the orders that were
\* covered before, or has them before it; at the first status it has those
\* that stay there.
ReadSoFar(e) ==
  \A o \in Order : created[o] > since =>
    /\ created[o] <= read[e].from + Day =>
         o \in stored \/ (read[e].at < Last /\ Ahead(e, o))
    /\ (read[e].at = Last /\ created[o] <= read[e].to) =>
         o \in stored \/ stage[o] >= 2 \/ o > read[e].token

ReadAll(e) ==
  \A o \in Order : created[o] > since =>
    /\ created[o] <= read[e].from + Day => o \in stored
    /\ created[o] <= read[e].to => o \in stored \/ stage[o] >= 2

RunInv(e) ==
  /\ Running(e) => Covered(read[e].from + Day)
  /\ readPc[e] = "planned" => read[e].at = 1 /\ read[e].token = 0
  /\ readPc[e] \in {"planned", "reading"} => ReadSoFar(e)
  /\ readPc[e] \in {"ending", "marking"} => ReadAll(e)

CoverageInv ==
  /\ ~FromNothing => Covered(PreviousCoverage)
  /\ \A e \in Reader : RunInv(e)

WindowInv == WindowTypes /\ WindowsArePast /\ CoverageInv

\* The days of a window reach beyond its end.
LEMMA EndOfDay ==
  ASSUME NEW t \in Int
  PROVE  t <= (t \div Day + 1) * Day
<1>1. t = Day * (t \div Day) + (t % Day) /\ t % Day < Day /\ t \div Day \in Int
  BY SMT
<1>2. ASSUME NEW q \in Int PROVE (q + 1) * Day = Day * q + Day
  BY SMT
<1>. QED
  BY <1>1, <1>2, SMT

LEMMA StatusesAre ==
  /\ Len(Statuses) = Last
  /\ \A i \in 1..Last : Statuses[i] = IF i < Last THEN i + 1 ELSE 1
BY DEF Statuses, Accept

LEMMA MinOfTwo ==
  ASSUME NEW a \in Int, NEW b \in Int
  PROVE  Min({a, b}) = IF a <= b THEN a ELSE b
<1>. DEFINE m == IF a <= b THEN a ELSE b
            Least(x) == x \in {a, b} /\ \A y \in {a, b} : x <= y
<1>1. Least(m)
  OBVIOUS
<1>2. \A x : Least(x) => x = m
  OBVIOUS
<1>3. Min({a, b}) = CHOOSE x : Least(x)
  BY DEF Min
<1>. HIDE DEF m, Least
<1>4. Least(CHOOSE x : Least(x))
  BY <1>1
<1>5. Min({a, b}) = m
  BY <1>2, <1>3, <1>4
<1>. QED
  BY <1>5 DEF m

\* Of the orders that the window should have, the channel lists those that
\* have the status and come after the token.
LEMMA FoundAre ==
  ASSUME WindowTypes, WindowsArePast, CoverageInv,
         NEW e \in Reader, readPc[e] = "reading",
         NEW o \in Order, created[o] > since, o \notin stored,
         created[o] <= read[e].to
  PROVE  o \in Found(e) <=> /\ stage[o] = Statuses[read[e].at]
                            /\ o > read[e].token
<1>1. read[e].from \in Int /\ read[e].to \in Int /\ created[o] \in Nat /\ since \in Nat
  BY DEF WindowTypes, ReaderTypes, ChannelTypes, Window
<1>2. created[o] > read[e].from
  <2>1. Covered(read[e].from + Day)
    BY DEF CoverageInv, RunInv, Running
  <2>2. ~(created[o] + Day <= read[e].from + Day)
    BY <2>1 DEF Covered
  <2>. QED
    BY <1>1, <2>2
<1>3. created[o] <= (read[e].to \div Day + 1) * Day
  <2>1. read[e].to <= (read[e].to \div Day + 1) * Day
    BY <1>1, EndOfDay
  <2>2. (read[e].to \div Day + 1) * Day \in Int
    BY <1>1
  <2>. QED
    BY <1>1, <2>1, <2>2
<1>. QED
  BY <1>1, <1>2, <1>3 DEF Found, InWindow

LEMMA WindowInitInv == WindowInit => WindowInv
<1>. SUFFICES ASSUME WindowInit PROVE WindowInv
  OBVIOUS
<1>. USE DEF WindowInit
<1>1. ChannelTypes
  BY DEF ChannelTypes
<1>2. ReaderTypes
  BY DEF ReaderTypes, WindowPhase, NoRead, NoTime, Window
<1>3. WindowsArePast
  BY DEF WindowsArePast, PreviousCoverage, Running, NoTime
<1>4. CoverageInv
  BY DEF CoverageInv, Covered, RunInv, Running
<1>. QED
  BY <1>1, <1>2, <1>3, <1>4 DEF WindowInv, WindowTypes

\* A window's fields on the next status, on the next page and before a run.
LEMMA StatusFields ==
  ASSUME NEW r \in Window, NEW i \in 1..Last, NEW w,
         w = [r EXCEPT !.at = i, !.token = 0]
  PROVE  w \in Window /\ w.from = r.from /\ w.to = r.to /\ w.at = i /\ w.token = 0
BY DEF Window

LEMMA PageFieldsRead ==
  ASSUME NEW r \in Window, NEW k \in Nat, NEW w, w = [r EXCEPT !.token = k]
  PROVE  w \in Window /\ w.from = r.from /\ w.to = r.to /\ w.at = r.at /\ w.token = k
BY DEF Window

LEMMA NoReadFields == NoRead \in Window /\ NoRead.at = 1 /\ NoRead.token = 0
BY DEF NoRead, Window

\* The window of a new run.
Planned == [NoRead EXCEPT !.from = PreviousCoverage - Day, !.to = WindowEnd]

LEMMA WindowEndIs ==
  ASSUME WindowTypes, PreviousCoverage <= now
  PROVE  /\ PreviousCoverage \in Int
         /\ WindowEnd \in Int
         /\ PreviousCoverage <= WindowEnd
         /\ WindowEnd <= PreviousCoverage + Day
         /\ WindowEnd <= now
         /\ Planned \in Window
         /\ Planned.from = PreviousCoverage - Day
         /\ Planned.to = WindowEnd
         /\ Planned.at = 1 /\ Planned.token = 0
<1>1. PreviousCoverage \in Int /\ now \in Int
  BY DEF WindowTypes, ChannelTypes, ReaderTypes, PreviousCoverage, NoTime
<1>2. WindowEnd = IF now <= PreviousCoverage + Day THEN now
                  ELSE PreviousCoverage + Day
  BY <1>1, MinOfTwo DEF WindowEnd
<1>3. PreviousCoverage - Day \in Int /\ WindowEnd \in Int
  BY <1>1, <1>2
<1>4. /\ Planned \in Window
      /\ Planned.from = PreviousCoverage - Day /\ Planned.to = WindowEnd
      /\ Planned.at = 1 /\ Planned.token = 0
  <2>1. Planned = [NoRead EXCEPT !.from = PreviousCoverage - Day, !.to = WindowEnd]
    BY DEF Planned
  <2>. PICK a \in Int, b \in Int : a = PreviousCoverage - Day /\ b = WindowEnd
    BY <1>3
  <2>. PICK r \in Window : r = NoRead
    BY NoReadFields
  <2>2. Planned = [r EXCEPT !.from = a, !.to = b]
    BY <2>1
  <2>3. /\ Planned \in Window /\ Planned.from = a /\ Planned.to = b
        /\ Planned.at = r.at /\ Planned.token = r.token
    BY <2>2 DEF Window
  <2>. QED
    BY <2>3, NoReadFields
<1>. QED
  BY <1>1, <1>2, <1>4

LEMMA WindowTypeStep ==
  ASSUME WindowTypes, WindowsArePast, [WindowNext]_windowVars
  PROVE  WindowTypes'
<1>. USE DEF WindowTypes, ChannelTypes, ReaderTypes, WindowPhase, Steps, Leaves,
             Mishap, channelVars, execution
<1>0. NoRead \in Window
  BY NoReadFields
<1>1. ASSUME NEW e \in Reader, PlanRead(e) PROVE WindowTypes'
  <2>1. Planned \in Window
    BY WindowEndIs DEF WindowsArePast
  <2>2. read' = [read EXCEPT ![e] = Planned]
    BY <1>1, Zenon DEF PlanRead, Planned
  <2>3. read' \in [Reader -> Window]
    BY <2>1, <2>2
  <2>4. UNCHANGED <<now, created, stage, stored, cursor, overtaken, mishaps>>
    BY <1>1 DEF PlanRead
  <2>5. readPc' \in [Reader -> WindowPhase] /\ since' \in {now, since}
    BY <1>1 DEF PlanRead
  <2>. QED
    BY <2>3, <2>4, <2>5
<1>2. ASSUME NEW e \in Reader, OpenCursor(e) PROVE WindowTypes'
  BY <1>2 DEF OpenCursor, Window
<1>3. ASSUME NEW e \in Reader, ReadPage(e) PROVE WindowTypes'
  <2>. PICK k \in Order : /\ read' = [read EXCEPT ![e] = [read[e] EXCEPT !.token = k]]
                          /\ stored' = stored \cup {o \in Found(e) : o <= k}
    BY <1>3 DEF ReadPage
  <2>1. read[e] \in Window /\ k \in Nat /\ read \in [Reader -> Window]
    OBVIOUS
  <2>2. [read[e] EXCEPT !.token = k] \in Window
    BY <2>1, PageFieldsRead
  <2>3. read' \in [Reader -> Window]
    BY <2>1, <2>2, Zenon
  <2>. QED
    BY <1>3, <2>3 DEF ReadPage, Found
<1>4. ASSUME NEW e \in Reader, ReadLastPage(e) PROVE WindowTypes'
  <2>1. read[e] \in Window /\ (read[e].at < Last => read[e].at + 1 \in 1..Last)
    BY DEF Window
  <2>2. read' = read \/ (/\ read[e].at < Last
                         /\ read' = [read EXCEPT
                              ![e] = [read[e] EXCEPT !.at = read[e].at + 1,
                                                     !.token = 0]])
    BY <1>4, StatusesAre, Zenon DEF ReadLastPage
  <2>3. read[e].at < Last =>
          [read[e] EXCEPT !.at = read[e].at + 1, !.token = 0]
            \in Window
    BY <2>1, StatusFields
  <2>4. read' \in [Reader -> Window]
    <3>1. read \in [Reader -> Window]
      OBVIOUS
    <3>2. CASE read' = read
      BY <3>1, <3>2
    <3>3. CASE read' # read
      <4>. DEFINE w == [read[e] EXCEPT !.at = read[e].at + 1, !.token = 0]
      <4>1. w \in Window /\ read' = [read EXCEPT ![e] = w]
        BY <2>2, <2>3, <3>3
      <4>. QED
        BY <3>1, <4>1, Zenon
    <3>. QED
      BY <3>2, <3>3
  <2>5. readPc' \in [Reader -> WindowPhase]
    <3>1. readPc' = readPc \/ readPc' = [readPc EXCEPT ![e] = "ending"]
      BY <1>4, Zenon DEF ReadLastPage
    <3>2. readPc \in [Reader -> WindowPhase] /\ "ending" \in WindowPhase
      OBVIOUS
    <3>. HIDE DEF WindowPhase
    <3>. QED
      BY <3>1, <3>2
  <2>6. stored' \subseteq Order
    BY <1>4 DEF ReadLastPage, Found
  <2>. QED
    BY <1>4, <2>4, <2>5, <2>6 DEF ReadLastPage
<1>5. ASSUME NEW e \in Reader, EndRead(e) PROVE WindowTypes'
  BY <1>5 DEF EndRead
<1>6. ASSUME NEW e \in Reader, MarkSuccess(e) PROVE WindowTypes'
  <2>1. cursor' = [cursor EXCEPT !.from = read[e].from, !.to = read[e].to]
    BY <1>6 DEF MarkSuccess
  <2>2. cursor' \in [from : Int, to : Int, legacy : {Day, NoTime}]
    BY <2>1 DEF Window
  <2>. QED
    BY <1>0, <1>6, <2>2 DEF MarkSuccess
<1>7. ASSUME NEW e \in Reader, EndsEarly(e) PROVE WindowTypes'
  BY <1>0, <1>7 DEF EndsEarly
<1>8. ASSUME NEW e \in Reader, IsOvertaken(e) PROVE WindowTypes'
  BY <1>8 DEF IsOvertaken
<1>9. ASSUME NEW o \in Order, Ordered(o) PROVE WindowTypes'
  BY <1>9 DEF Ordered, Accept
<1>10. ASSUME NEW o \in Order, Moves(o) PROVE WindowTypes'
  BY <1>10 DEF Moves
<1>11. CASE TimePasses
  BY <1>11 DEF TimePasses
<1>12. CASE UNCHANGED windowVars
  BY <1>12 DEF windowVars
<1>. QED
  BY <1>1, <1>2, <1>3, <1>4, <1>5, <1>6, <1>7, <1>8, <1>9, <1>10, <1>11, <1>12
     DEF WindowNext, Reads

LEMMA PastStep ==
  ASSUME WindowTypes, WindowsArePast, [WindowNext]_windowVars
  PROVE  WindowsArePast'
<1>. USE DEF WindowTypes, ChannelTypes, ReaderTypes, WindowsArePast, Steps,
             Leaves, Running, channelVars, execution
<1>1. ASSUME NEW e \in Reader, PlanRead(e) PROVE WindowsArePast'
  <2>1. /\ PreviousCoverage \in Int /\ WindowEnd \in Int
        /\ PreviousCoverage <= WindowEnd
        /\ WindowEnd <= PreviousCoverage + Day
        /\ WindowEnd <= now
    BY WindowEndIs
  <2>2. read' = [read EXCEPT ![e] = Planned]
    BY <1>1, Zenon DEF PlanRead, Planned
  <2>3. read'[e].from = PreviousCoverage - Day /\ read'[e].to = WindowEnd
    BY <2>2, WindowEndIs
  <2>4. \A f \in Reader : f # e => read'[f] = read[f] /\ Running(f)' = Running(f)
    BY <1>1, <2>2 DEF PlanRead
  <2>5. UNCHANGED <<now, PreviousCoverage>>
    BY <1>1 DEF PlanRead, PreviousCoverage
  <2>. HIDE DEF Running
  <2>. QED
    BY <2>1, <2>3, <2>4, <2>5
<1>2. ASSUME NEW e \in Reader, OpenCursor(e) PROVE WindowsArePast'
  BY <1>2 DEF OpenCursor, PreviousCoverage, NoTime, Window
<1>3. ASSUME NEW e \in Reader, ReadPage(e) PROVE WindowsArePast'
  BY <1>3 DEF ReadPage, PreviousCoverage
<1>4. ASSUME NEW e \in Reader, ReadLastPage(e) PROVE WindowsArePast'
  <2>0. read' = read \/ read' = [read EXCEPT
                                  ![e] = [read[e] EXCEPT !.at = read[e].at + 1,
                                                         !.token = 0]]
    BY <1>4, Zenon DEF ReadLastPage
  <2>4. LET w == [read[e] EXCEPT !.at = read[e].at + 1, !.token = 0]
        IN w.from = read[e].from /\ w.to = read[e].to
    BY DEF Window
  <2>1. \A f \in Reader : read'[f].from = read[f].from /\ read'[f].to = read[f].to
    BY <2>0, <2>4
  <2>2. \A f \in Reader : Running(f)' => Running(f)
    BY <1>4 DEF ReadLastPage
  <2>3. UNCHANGED <<now, PreviousCoverage>>
    BY <1>4 DEF ReadLastPage, PreviousCoverage
  <2>. HIDE DEF Running
  <2>5. \A f \in Reader : read[f].from \in Int /\ read[f].to \in Int
    BY DEF Window
  <2>. QED
    BY <2>1, <2>2, <2>3, <2>5
<1>5. ASSUME NEW e \in Reader, EndRead(e) PROVE WindowsArePast'
  BY <1>5 DEF EndRead, PreviousCoverage
<1>6. ASSUME NEW e \in Reader, MarkSuccess(e) PROVE WindowsArePast'
  BY <1>6 DEF MarkSuccess, PreviousCoverage, NoTime
<1>7. ASSUME NEW e \in Reader, EndsEarly(e) PROVE WindowsArePast'
  BY <1>7 DEF EndsEarly, PreviousCoverage
<1>8. ASSUME NEW e \in Reader, IsOvertaken(e) PROVE WindowsArePast'
  BY <1>8 DEF IsOvertaken, PreviousCoverage
<1>9. ASSUME NEW o \in Order, Ordered(o) PROVE WindowsArePast'
  BY <1>9 DEF Ordered, PreviousCoverage
<1>10. ASSUME NEW o \in Order, Moves(o) PROVE WindowsArePast'
  BY <1>10 DEF Moves, PreviousCoverage
<1>11. CASE TimePasses
  <2>1. now' = now + 1 /\ UNCHANGED <<cursor, read, readPc>>
    BY <1>11 DEF TimePasses
  <2>2. PreviousCoverage' = PreviousCoverage \/ PreviousCoverage' = now'
    BY <2>1 DEF PreviousCoverage
  <2>3. PreviousCoverage \in Int
    BY WindowEndIs
  <2>. QED
    BY <2>1, <2>2, <2>3 DEF Window
<1>12. CASE UNCHANGED windowVars
  BY <1>12 DEF windowVars, PreviousCoverage
<1>. QED
  BY <1>1, <1>2, <1>3, <1>4, <1>5, <1>6, <1>7, <1>8, <1>9, <1>10, <1>11, <1>12
     DEF WindowNext, Reads

\* Orders are stored and go on, and new ones are younger than all windows.
Onward ==
  /\ stored \subseteq stored'
  /\ since <= since'
  /\ \A o \in Order : stage[o] <= stage'[o] /\ (created'[o] = created[o] \/ created'[o] > now)

LEMMA CoveredStays ==
  ASSUME WindowTypes, WindowTypes', Onward, NEW c \in Int, c <= now, Covered(c)
  PROVE  Covered(c)'
<1>. ASSUME NEW o \in Order, created'[o] > since', created'[o] <= c
     PROVE  /\ created[o] = created'[o] /\ created[o] > since
            /\ stage[o] <= stage'[o] /\ stage[o] \in Int /\ stage'[o] \in Int
            /\ o \in stored => o \in stored'
  BY DEF Onward, WindowTypes, ChannelTypes
<1>. QED
  BY DEF Covered, WindowTypes, ChannelTypes

WindowStep == /\ WindowTypes /\ WindowTypes' /\ WindowsArePast /\ CoverageInv
              /\ Onward

LEMMA CoverageKept ==
  ASSUME WindowStep, UNCHANGED cursor
  PROVE  (~FromNothing => Covered(PreviousCoverage))'
<1>. SUFFICES ASSUME ~FromNothing PROVE Covered(PreviousCoverage)'
  BY DEF FromNothing
<1>1. PreviousCoverage' = PreviousCoverage
  BY DEF FromNothing, PreviousCoverage, WindowStep, WindowTypes, ReaderTypes
<1>2. PICK c \in Int : c = PreviousCoverage
  BY WindowEndIs DEF WindowStep, WindowsArePast
<1>3. c <= now /\ Covered(c)
  BY <1>2 DEF WindowStep, WindowsArePast, CoverageInv
<1>4. Covered(c)'
  BY <1>3, CoveredStays DEF WindowStep
<1>. QED
  BY <1>1, <1>2, <1>4 DEF Covered

\* A reader that does not move keeps what its run has.
LEMMA RunKept ==
  ASSUME WindowStep, NEW e \in Reader, UNCHANGED <<readPc[e], read[e]>>
  PROVE  RunInv(e)'
<1>1. RunInv(e)
  BY DEF WindowStep, CoverageInv
<1>. DEFINE r == read[e]
<1>2. /\ r.from \in Int /\ r.to \in Int /\ r.at \in 1..Last /\ r.token \in Nat
      /\ \A o \in Order : /\ stage[o] \in Nat /\ stage'[o] \in Nat /\ created[o] \in Nat
                          /\ created'[o] \in Nat
      /\ since \in Nat /\ since' \in Nat /\ now \in Nat
  BY DEF WindowStep, WindowTypes, ChannelTypes, ReaderTypes, Window
<1>3. Running(e) => r.from + Day <= now /\ r.to <= now
  BY <1>2 DEF WindowStep, WindowsArePast
<1>4. ASSUME NEW o \in Order, created'[o] > since', created'[o] <= now
      PROVE  /\ created[o] = created'[o] /\ created[o] > since
             /\ stage[o] <= stage'[o]
             /\ o \in stored => o \in stored'
  <2>1. since <= since' /\ stage[o] <= stage'[o] /\ stored \subseteq stored'
    BY DEF WindowStep, Onward
  <2>2. created'[o] = created[o] \/ created'[o] > now
    BY DEF WindowStep, Onward
  <2>3. created'[o] \in Nat /\ created[o] \in Nat /\ since \in Nat /\ since' \in Nat /\ now \in Nat
    BY <1>2
  <2>. QED
    BY <1>4, <2>1, <2>2, <2>3
<1>5. Running(e)' => Covered(read[e].from + Day)'
  <2>. SUFFICES ASSUME Running(e) PROVE Covered(read[e].from + Day)'
    BY DEF Running
  <2>. PICK c \in Int : c = r.from + Day
    BY <1>2
  <2>1. c <= now /\ Covered(c)
    BY <1>1, <1>3 DEF RunInv
  <2>2. Covered(c)'
    BY <2>1, CoveredStays DEF WindowStep
  <2>3. read'[e].from + Day = c
    OBVIOUS
  <2>. QED
    BY <2>2, <2>3 DEF Covered
<1>6. readPc'[e] \in {"planned", "reading"} => ReadSoFar(e)'
  <2>. SUFFICES ASSUME readPc[e] \in {"planned", "reading"} PROVE ReadSoFar(e)'
    OBVIOUS
  <2>1. ReadSoFar(e) /\ r.from + Day <= now /\ r.to <= now
    BY <1>1, <1>3 DEF RunInv, Running
  <2>2. ASSUME NEW o \in Order, created'[o] > since', created'[o] <= r.from + Day
        PROVE  o \in stored' \/ (r.at < Last /\ Ahead(e, o)')
    <3>0. created'[o] \in Nat /\ r.from \in Int /\ r.to \in Int /\ now \in Nat
      BY <1>2
    <3>1. created'[o] <= now
      BY <2>1, <2>2, <3>0
    <3>2. /\ created[o] = created'[o] /\ created[o] > since
          /\ stage[o] <= stage'[o]
          /\ o \in stored => o \in stored'
      BY <1>4, <2>2, <3>1
    <3>3. o \in stored \/ (r.at < Last /\ Ahead(e, o))
      BY <2>1, <2>2, <3>2 DEF ReadSoFar
    <3>4. Statuses[r.at] \in Int
      BY <1>2, StatusesAre
    <3>. QED
      BY <1>2, <3>2, <3>3, <3>4 DEF Ahead, Statuses
  <2>3. ASSUME NEW o \in Order, created'[o] > since', r.at = Last, created'[o] <= r.to
        PROVE  o \in stored' \/ stage'[o] >= 2 \/ o > r.token
    <3>0. created'[o] \in Nat /\ r.from \in Int /\ r.to \in Int /\ now \in Nat
      BY <1>2
    <3>1. created'[o] <= now
      BY <2>1, <2>3, <3>0
    <3>2. /\ created[o] = created'[o] /\ created[o] > since
          /\ stage[o] <= stage'[o]
          /\ o \in stored => o \in stored'
      BY <1>4, <2>3, <3>1
    <3>3. o \in stored \/ stage[o] >= 2 \/ o > r.token
      BY <2>1, <2>3, <3>2 DEF ReadSoFar
    <3>. QED
      BY <1>2, <3>2, <3>3
  <2>. QED
    BY <2>2, <2>3 DEF ReadSoFar
<1>7. readPc'[e] \in {"ending", "marking"} => ReadAll(e)'
  <2>. SUFFICES ASSUME readPc[e] \in {"ending", "marking"} PROVE ReadAll(e)'
    OBVIOUS
  <2>1. ReadAll(e) /\ r.from + Day <= now /\ r.to <= now
    BY <1>1, <1>3 DEF RunInv, Running
  <2>2. ASSUME NEW o \in Order, created'[o] > since',
               created'[o] <= r.from + Day \/ created'[o] <= r.to
        PROVE  /\ created'[o] <= r.from + Day => o \in stored'
               /\ created'[o] <= r.to => o \in stored' \/ stage'[o] >= 2
    <3>0. created'[o] \in Nat /\ r.from \in Int /\ r.to \in Int /\ now \in Nat
      BY <1>2
    <3>1. created'[o] <= now
      BY <2>1, <2>2, <3>0
    <3>2. /\ created[o] = created'[o] /\ created[o] > since
          /\ stage[o] <= stage'[o]
          /\ o \in stored => o \in stored'
      BY <1>4, <2>2, <3>1
    <3>. QED
      BY <1>2, <2>1, <3>2 DEF ReadAll
  <2>. QED
    BY <2>2 DEF ReadAll
<1>8. readPc'[e] = "planned" => read'[e].at = 1 /\ read'[e].token = 0
  BY <1>1 DEF RunInv
<1>. QED
  BY <1>5, <1>6, <1>7, <1>8 DEF RunInv

Inv == WindowTypes /\ WindowTypes' /\ WindowsArePast /\ CoverageInv

\* The first status to be asked for is the second: a new run has what was
\* covered, or finds it there or later.
LEMMA PlanStep ==
  ASSUME Inv, NEW e \in Reader, PlanRead(e)
  PROVE  CoverageInv'
<1>1. WindowStep
  BY DEF Inv, WindowStep, Onward, PlanRead, WindowTypes, ChannelTypes, channelVars
<1>2. UNCHANGED cursor /\ read' = [read EXCEPT ![e] = Planned]
      /\ readPc' = [readPc EXCEPT ![e] = "planned"]
  BY Zenon DEF PlanRead, Planned, Steps
<1>3. \A f \in Reader : f # e => RunInv(f)'
  BY <1>1, <1>2, RunKept DEF Inv, WindowTypes, ReaderTypes
<1>4. PICK c \in Int : c = PreviousCoverage
  BY WindowEndIs DEF Inv, WindowsArePast
<1>5. /\ read'[e].from + Day = c /\ read'[e].at = 1 /\ read'[e].token = 0
      /\ read'[e].to \in Int
  BY <1>2, <1>4, WindowEndIs DEF Inv, WindowTypes, ReaderTypes, WindowsArePast
<1>6. Covered(c)'
  <2>1. CASE FromNothing
    <3>1. c = now /\ since' = now
      BY <1>4, <2>1 DEF FromNothing, PreviousCoverage, PlanRead
    <3>2. now \in Nat /\ \A o \in Order : created'[o] \in Nat
      BY DEF Inv, WindowTypes, ChannelTypes
    <3>. QED
      BY <3>1, <3>2 DEF Covered
  <2>2. CASE ~FromNothing
    <3>1. c <= now /\ Covered(c)
      BY <1>4, <2>2 DEF Inv, WindowsArePast, CoverageInv
    <3>. QED
      BY <1>1, <3>1, CoveredStays DEF WindowStep
  <2>. QED
    BY <2>1, <2>2
<1>7. ReadSoFar(e)'
  <2>. SUFFICES ASSUME NEW o \in Order, created'[o] > since'
                PROVE  /\ created'[o] <= c => o \in stored' \/ (1 < Last /\ Ahead(e, o)')
                       /\ o > 0
    BY <1>5 DEF ReadSoFar
  <2>1. o > 0 /\ o \in Nat
    OBVIOUS
  <2>2. stage'[o] \in Nat /\ stage'[o] <= Last
    BY DEF Inv, WindowTypes, ChannelTypes
  <2>3. 1 < Last => Statuses[1] = 2
    BY StatusesAre
  <2>. QED
    BY <1>5, <1>6, <2>1, <2>2, <2>3 DEF Covered, Ahead, Statuses
<1>8. RunInv(e)'
  BY <1>2, <1>5, <1>6, <1>7 DEF RunInv, Covered, Inv, WindowTypes, ReaderTypes
<1>. QED
  BY <1>1, <1>2, <1>3, <1>8, CoverageKept DEF CoverageInv

\* A cursor that is opened stands for what the run began with.
LEMMA OpenStep ==
  ASSUME Inv, NEW e \in Reader, OpenCursor(e)
  PROVE  CoverageInv'
<1>1. WindowStep
  BY DEF Inv, WindowStep, Onward, OpenCursor, WindowTypes, ChannelTypes, channelVars
<1>2. UNCHANGED <<read, stored, since, created, stage>>
      /\ readPc' = [readPc EXCEPT ![e] = "reading"]
  BY DEF OpenCursor, Steps, channelVars
<1>3. \A f \in Reader : f # e => RunInv(f)'
  BY <1>1, <1>2, RunKept DEF Inv, WindowTypes, ReaderTypes
<1>4. RunInv(e)
  BY DEF Inv, CoverageInv
<1>5. Covered(read[e].from + Day) /\ ReadSoFar(e) /\ read[e].from \in Int
  BY <1>4 DEF OpenCursor, RunInv, Running, Inv, WindowTypes, ReaderTypes, Window
<1>6. RunInv(e)'
  <2>1. readPc'[e] = "reading"
    BY <1>2 DEF Inv, WindowTypes, ReaderTypes
  <2>2. ReadSoFar(e)' /\ Covered(read[e].from + Day)'
    BY <1>2, <1>5 DEF ReadSoFar, Covered, Ahead, Statuses
  <2>. QED
    BY <2>1, <2>2 DEF RunInv
<1>7. (~FromNothing => Covered(PreviousCoverage))'
  <2>1. CASE cursor.from # NoTime
    BY <1>1, <2>1, CoverageKept DEF OpenCursor
  <2>2. CASE cursor.from = NoTime
    <3>1. cursor'.from = read[e].from /\ cursor'.to = cursor.to
      BY <2>2 DEF OpenCursor, Inv, WindowTypes, ReaderTypes
    <3>2. read[e].from # NoTime
      BY <1>5 DEF Inv, WindowTypes, ChannelTypes, ReaderTypes, Window, WindowsArePast,
                  OpenCursor, Running, NoTime
    <3>3. CASE cursor.to = NoTime
      <4>1. PreviousCoverage' = read[e].from + Day
        BY <1>2, <3>1, <3>2, <3>3 DEF PreviousCoverage, NoTime
      <4>. QED
        BY <1>2, <1>5, <4>1 DEF Covered
    <3>4. CASE cursor.to # NoTime
      <4>1. PreviousCoverage' = PreviousCoverage /\ ~FromNothing
        BY <3>1, <3>4 DEF PreviousCoverage, NoTime, FromNothing
      <4>. QED
        BY <1>2, <4>1 DEF Covered, Inv, CoverageInv
    <3>. QED
      BY <3>3, <3>4
  <2>. QED
    BY <2>1, <2>2
<1>. QED
  BY <1>3, <1>6, <1>7 DEF CoverageInv

\* A page leaves no order behind its token.
LEMMA PageStepCovers ==
  ASSUME Inv, NEW e \in Reader, ReadPage(e)
  PROVE  CoverageInv'
<1>1. WindowStep /\ UNCHANGED <<cursor, created, stage, since, readPc>>
  BY DEF Inv, WindowStep, Onward, ReadPage, WindowTypes, ChannelTypes, channelVars
<1>2. PICK k \in Order : /\ read' = [read EXCEPT ![e] = [read[e] EXCEPT !.token = k]]
                         /\ stored' = stored \cup {o \in Found(e) : o <= k}
  BY DEF ReadPage
<1>3. \A f \in Reader : f # e => RunInv(f)'
  BY <1>1, <1>2, RunKept DEF Inv, WindowTypes, ReaderTypes
<1>4. /\ read[e] \in Window /\ k \in Nat
      /\ read'[e] = [read[e] EXCEPT !.token = k]
  BY <1>2 DEF Inv, WindowTypes, ReaderTypes
<1>5. /\ read'[e].from = read[e].from /\ read'[e].to = read[e].to
      /\ read'[e].at = read[e].at /\ read'[e].token = k
  BY <1>4, PageFieldsRead
<1>6. /\ Covered(read[e].from + Day) /\ ReadSoFar(e)
      /\ read[e].from + Day <= read[e].to
      /\ read[e].from \in Int /\ read[e].to \in Int /\ read[e].token \in Nat
      /\ read[e].at \in 1..Last
  BY <1>4 DEF Inv, CoverageInv, RunInv, ReadPage, Running, WindowsArePast, Window
<1>7. ASSUME NEW o \in Order, created[o] > since
      PROVE  /\ created[o] <= read[e].from + Day =>
                   o \in stored' \/ (read[e].at < Last /\ Ahead(e, o)')
             /\ (read[e].at = Last /\ created[o] <= read[e].to) =>
                   o \in stored' \/ stage[o] >= 2 \/ o > k
  <2>1. /\ created[o] \in Nat /\ stage[o] \in Nat /\ o \in Nat
        /\ stage[o] >= 1 /\ since \in Nat
    BY <1>7 DEF Inv, WindowTypes, ChannelTypes
  <2>2. CASE o \in stored
    BY <1>2, <2>2
  <2>3. CASE o \notin stored /\ created[o] <= read[e].to
    <3>. DEFINE s == Statuses[read[e].at]
    <3>1. o \in Found(e) <=> (stage[o] = s /\ o > read[e].token)
      BY <1>7, <2>3, FoundAre DEF Inv, ReadPage
    <3>2. o \in Found(e) /\ o <= k => o \in stored'
      BY <1>2
    <3>3. Statuses[read[e].at] = IF read[e].at < Last THEN read[e].at + 1 ELSE 1
      BY <1>6, StatusesAre
    <3>4. Ahead(e, o)' <=> (stage[o] > s \/ (stage[o] = s /\ o > k))
      BY <1>1, <1>5 DEF Ahead, Statuses
    <3>5. /\ created[o] <= read[e].from + Day => read[e].at < Last /\ Ahead(e, o)
          /\ read[e].at = Last => stage[o] >= 2 \/ o > read[e].token
      BY <1>6, <1>7, <2>3 DEF ReadSoFar
    <3>6. Ahead(e, o) <=> (stage[o] > s \/ (stage[o] = s /\ o > read[e].token))
      BY DEF Ahead
    <3>7. s \in Int /\ (read[e].at = Last => s = 1)
      BY <1>6, <3>3
    <3>. HIDE DEF s
    <3>. QED
      BY <1>4, <1>6, <2>1, <3>1, <3>2, <3>4, <3>5, <3>6, <3>7
  <2>4. CASE ~(created[o] <= read[e].to)
    BY <1>6, <2>1, <2>4
  <2>. QED
    BY <2>2, <2>3, <2>4
<1>8. ReadSoFar(e)'
  BY <1>1, <1>5, <1>7 DEF ReadSoFar
<1>9. Covered(read[e].from + Day)'
  BY <1>1, <1>2, <1>6, <1>5 DEF Covered
<1>10. RunInv(e)'
  BY <1>1, <1>8, <1>9 DEF RunInv, ReadPage
<1>. QED
  BY <1>1, <1>3, <1>10, CoverageKept DEF CoverageInv

\* After the last page of a status only later ones are behind the reader's
\* back, and after all of them nothing that was there before.
LEMMA LastPageStepCovers ==
  ASSUME Inv, NEW e \in Reader, ReadLastPage(e)
  PROVE  CoverageInv'
<1>1. WindowStep /\ UNCHANGED <<cursor, created, stage, since>>
  BY DEF Inv, WindowStep, Onward, ReadLastPage, WindowTypes, ChannelTypes, channelVars
<1>2. stored' = stored \cup Found(e)
  BY DEF ReadLastPage
<1>3. read[e] \in Window
  BY DEF Inv, WindowTypes, ReaderTypes
<1>4. /\ Covered(read[e].from + Day) /\ ReadSoFar(e)
      /\ read[e].from + Day <= read[e].to
      /\ read[e].from \in Int /\ read[e].to \in Int /\ read[e].token \in Nat
      /\ read[e].at \in 1..Last
  BY <1>3 DEF Inv, CoverageInv, RunInv, ReadLastPage, Running, WindowsArePast, Window
<1>. DEFINE s == Statuses[read[e].at]
<1>5. s = IF read[e].at < Last THEN read[e].at + 1 ELSE 1
  BY <1>4, StatusesAre
<1>. HIDE DEF s
<1>6. ASSUME NEW o \in Order, created[o] > since
      PROVE  /\ created[o] <= read[e].from + Day =>
                   o \in stored' \/ (read[e].at < Last /\ stage[o] > s)
             /\ (read[e].at = Last /\ created[o] <= read[e].to) =>
                   o \in stored' \/ stage[o] >= 2
  <2>1. /\ created[o] \in Nat /\ stage[o] \in Nat /\ o \in Nat
        /\ stage[o] >= 1 /\ since \in Nat
    BY <1>6 DEF Inv, WindowTypes, ChannelTypes
  <2>2. CASE o \in stored
    BY <1>2, <2>2
  <2>3. CASE o \notin stored /\ created[o] <= read[e].to
    <3>1. o \in Found(e) <=> (stage[o] = s /\ o > read[e].token)
      BY <1>6, <2>3, FoundAre DEF Inv, ReadLastPage, s
    <3>2. /\ created[o] <= read[e].from + Day => read[e].at < Last /\ Ahead(e, o)
          /\ read[e].at = Last => stage[o] >= 2 \/ o > read[e].token
      BY <1>4, <1>6, <2>3 DEF ReadSoFar
    <3>3. Ahead(e, o) <=> (stage[o] > s \/ (stage[o] = s /\ o > read[e].token))
      BY DEF Ahead, s
    <3>4. s \in Int /\ (read[e].at = Last => s = 1)
      BY <1>4, <1>5
    <3>. QED
      BY <1>2, <1>4, <2>1, <3>1, <3>2, <3>3, <3>4
  <2>4. CASE ~(created[o] <= read[e].to)
    BY <1>4, <2>1, <2>4
  <2>. QED
    BY <2>2, <2>3, <2>4
<1>7. Covered(read[e].from + Day) => \A o \in Order : created[o] > since =>
        /\ created[o] + Day <= read[e].from + Day => o \in stored'
        /\ created[o] <= read[e].from + Day => o \in stored' \/ stage[o] >= 2
  BY <1>2 DEF Covered
<1>8. CASE read[e].at < Last
  <2>1. read' = [read EXCEPT ![e] = [read[e] EXCEPT !.at = read[e].at + 1, !.token = 0]]
        /\ UNCHANGED readPc
    <3>1. read[e].at < Len(Statuses)
      BY <1>8, StatusesAre
    <3>. QED
      BY <3>1, Zenon DEF ReadLastPage
  <2>2. read'[e] = [read[e] EXCEPT !.at = read[e].at + 1, !.token = 0]
        /\ \A f \in Reader : f # e => read'[f] = read[f]
    BY <2>1 DEF Inv, WindowTypes, ReaderTypes
  <2>3. /\ read'[e].from = read[e].from /\ read'[e].to = read[e].to
        /\ read'[e].at = read[e].at + 1 /\ read'[e].token = 0
    <3>. PICK r \in Window, i \in 1..Last : r = read[e] /\ i = read[e].at + 1
      BY <1>3, <1>4, <1>8
    <3>1. read'[e] = [r EXCEPT !.at = i, !.token = 0]
      BY <2>2
    <3>. QED
      BY <3>1 DEF Window
  <2>4. \A f \in Reader : f # e => RunInv(f)'
    BY <1>1, <2>1, <2>2, RunKept
  <2>5. Statuses[read[e].at + 1] = IF read[e].at + 1 < Last THEN s + 1 ELSE 1
    BY <1>4, <1>5, <1>8, StatusesAre
  <2>6. ASSUME NEW o \in Order, created[o] > since
        PROVE  /\ created[o] <= read[e].from + Day =>
                     o \in stored' \/ (read[e].at + 1 < Last /\ Ahead(e, o)')
               /\ o > 0
    <3>1. Ahead(e, o)' <=> (\/ stage[o] > Statuses[read[e].at + 1]
                            \/ (stage[o] = Statuses[read[e].at + 1] /\ o > 0))
      BY <1>1, <2>3 DEF Ahead, Statuses
    <3>2. o \in Nat /\ o > 0 /\ stage[o] \in Nat /\ stage[o] <= Last
      BY DEF Inv, WindowTypes, ChannelTypes
    <3>3. s = read[e].at + 1
      BY <1>5, <1>8
    <3>. QED
      BY <1>4, <1>6, <1>8, <2>5, <2>6, <3>1, <3>2, <3>3
  <2>7. ReadSoFar(e)'
    BY <1>1, <2>3, <2>6 DEF ReadSoFar
  <2>8. Covered(read[e].from + Day)'
    BY <1>1, <1>4, <1>7, <2>3 DEF Covered
  <2>9. RunInv(e)'
    BY <2>1, <2>7, <2>8 DEF RunInv, ReadLastPage
  <2>. QED
    BY <1>1, <2>4, <2>9, CoverageKept DEF CoverageInv
<1>9. CASE ~(read[e].at < Last)
  <2>1. UNCHANGED read /\ readPc' = [readPc EXCEPT ![e] = "ending"]
    BY <1>9, StatusesAre DEF ReadLastPage, Steps
  <2>2. read[e].at = Last
    BY <1>4, <1>9
  <2>3. \A f \in Reader : f # e => RunInv(f)'
    BY <1>1, <2>1, RunKept DEF Inv, WindowTypes, ReaderTypes
  <2>4. ReadAll(e)' /\ Covered(read[e].from + Day)'
    BY <1>1, <1>4, <1>6, <1>7, <2>1, <2>2 DEF ReadAll, Covered
  <2>5. readPc'[e] = "ending"
    BY <2>1 DEF Inv, WindowTypes, ReaderTypes
  <2>6. RunInv(e)'
    BY <2>4, <2>5 DEF RunInv
  <2>. QED
    BY <1>1, <2>3, <2>6, CoverageKept DEF CoverageInv
<1>. QED
  BY <1>8, <1>9

\* A run that has read all moves the cursor to its end, although its lease may
\* be lost and another run may have moved the cursor further.
LEMMA MarkStep ==
  ASSUME Inv, NEW e \in Reader, MarkSuccess(e)
  PROVE  CoverageInv'
<1>1. WindowStep
  BY DEF Inv, WindowStep, Onward, MarkSuccess, WindowTypes, ChannelTypes, channelVars
<1>2. /\ read' = [read EXCEPT ![e] = NoRead]
      /\ readPc' = [readPc EXCEPT ![e] = "idle"]
      /\ cursor' = [cursor EXCEPT !.from = read[e].from, !.to = read[e].to]
      /\ UNCHANGED <<stored, since, created, stage>>
  BY DEF MarkSuccess, Leaves, Steps, channelVars
<1>3. \A f \in Reader : f # e => RunInv(f)'
  BY <1>1, <1>2, RunKept DEF Inv, WindowTypes, ReaderTypes
<1>4. readPc'[e] = "idle" /\ cursor'.to = read[e].to
  BY <1>2 DEF Inv, WindowTypes, ReaderTypes
<1>5. RunInv(e)'
  BY <1>4 DEF RunInv, Running
<1>6. /\ ReadAll(e) /\ read[e].from + Day <= read[e].to
      /\ read[e].to <= read[e].from + Day + Day
      /\ read[e].from \in Int /\ read[e].to \in Int /\ read[e].to # NoTime
  BY DEF Inv, CoverageInv, RunInv, MarkSuccess, Running, WindowsArePast, Window,
         WindowTypes, ReaderTypes, ChannelTypes, NoTime
<1>7. PreviousCoverage' = read[e].to
  BY <1>4, <1>6 DEF PreviousCoverage, NoTime
<1>8. \A o \in Order : created[o] \in Nat
  BY DEF Inv, WindowTypes, ChannelTypes
<1>9. Covered(PreviousCoverage)'
  BY <1>2, <1>6, <1>7, <1>8 DEF ReadAll, Covered
<1>. QED
  BY <1>3, <1>5, <1>9 DEF CoverageInv

\* Neither errors, lapses of a lease, time nor the channel takes anything back.
LEMMA OtherStep ==
  ASSUME Inv, UNCHANGED cursor, Onward,
         \A e \in Reader : \/ UNCHANGED <<readPc[e], read[e]>>
                           \/ readPc'[e] = "idle"
  PROVE  CoverageInv'
<1>1. WindowStep
  BY DEF Inv, WindowStep
<1>2. ASSUME NEW e \in Reader, UNCHANGED <<readPc[e], read[e]>> PROVE RunInv(e)'
  BY <1>1, <1>2, RunKept
<1>3. ASSUME NEW e \in Reader, readPc'[e] = "idle" PROVE RunInv(e)'
  BY <1>3 DEF RunInv, Running
<1>. QED
  BY <1>1, <1>2, <1>3, CoverageKept DEF CoverageInv

LEMMA CoverageStep ==
  ASSUME WindowTypes, WindowTypes', WindowsArePast, CoverageInv,
         [WindowNext]_windowVars
  PROVE  CoverageInv'
<1>. Inv
  BY DEF Inv
<1>. USE DEF Steps, Leaves, channelVars, execution
<1>0. /\ readPc \in [Reader -> WindowPhase] /\ read \in [Reader -> Window]
      /\ created \in [Order -> Nat] /\ stage \in [Order -> Nat]
      /\ since \in Nat /\ now \in Nat
  BY DEF WindowTypes, ReaderTypes, ChannelTypes
<1>1. ASSUME NEW e \in Reader, PlanRead(e) PROVE CoverageInv'
  BY <1>1, PlanStep
<1>2. ASSUME NEW e \in Reader, OpenCursor(e) PROVE CoverageInv'
  BY <1>2, OpenStep
<1>3. ASSUME NEW e \in Reader, ReadPage(e) PROVE CoverageInv'
  BY <1>3, PageStepCovers
<1>4. ASSUME NEW e \in Reader, ReadLastPage(e) PROVE CoverageInv'
  BY <1>4, LastPageStepCovers
<1>5. ASSUME NEW e \in Reader, EndRead(e) PROVE CoverageInv'
  <2>1. UNCHANGED <<created, stage, stored, cursor, read, since>>
    BY <1>5 DEF EndRead
  <2>2. \A f \in Reader : \/ readPc'[f] = readPc[f]
                          \/ readPc[f] = "ending" /\ readPc'[f] = "marking"
    BY <1>0, <1>5 DEF EndRead
  <2>3. (~FromNothing => Covered(PreviousCoverage))'
    BY <1>0, <1>5, CoverageKept DEF EndRead, WindowStep, Onward
  <2>4. ASSUME NEW f \in Reader PROVE RunInv(f)'
    BY <2>1, <2>2 DEF CoverageInv, RunInv, Running, Covered, ReadSoFar, ReadAll, Ahead, Statuses
  <2>. QED
    BY <2>3, <2>4 DEF CoverageInv
<1>6. ASSUME NEW e \in Reader, MarkSuccess(e) PROVE CoverageInv'
  BY <1>6, MarkStep
<1>7. ASSUME NEW e \in Reader, EndsEarly(e) PROVE CoverageInv'
  BY <1>0, <1>7, OtherStep DEF EndsEarly, Onward
<1>8. ASSUME NEW e \in Reader, IsOvertaken(e) PROVE CoverageInv'
  BY <1>0, <1>8, OtherStep DEF IsOvertaken, Onward
<1>9. ASSUME NEW o \in Order, Ordered(o) PROVE CoverageInv'
  <2>1. Onward
    BY <1>0, <1>9 DEF Ordered, Onward, Accept, WindowTypes, ChannelTypes
  <2>. QED
    BY <1>9, <2>1, OtherStep DEF Ordered
<1>10. ASSUME NEW o \in Order, Moves(o) PROVE CoverageInv'
  BY <1>0, <1>10, OtherStep DEF Moves, Onward
<1>11. CASE TimePasses
  BY <1>0, <1>11, OtherStep DEF TimePasses, Onward
<1>12. CASE UNCHANGED windowVars
  BY <1>0, <1>12, OtherStep DEF windowVars, Onward
<1>. QED
  BY <1>1, <1>2, <1>3, <1>4, <1>5, <1>6, <1>7, <1>8, <1>9, <1>10, <1>11, <1>12
     DEF WindowNext, Reads

\* The invariant of the windows holds in every behaviour.
THEOREM WindowsInductive == WindowSpec => []WindowInv
<1>1. WindowInv /\ [WindowNext]_windowVars => WindowInv'
  BY WindowTypeStep, PastStep, CoverageStep DEF WindowInv
<1>. QED
  BY WindowInitInv, <1>1, PTL DEF WindowSpec

\* An order that is a day older than what the cursor covers is stored
\* (syncCoupangOrderReconciliation), for any number of orders, statuses and
\* overlapping runs, and a day of any length.
THEOREM CoveredIsStoredAlways == WindowSpec => []CoveredIsStored
<1>1. ASSUME WindowInv PROVE CoveredIsStored
  <2>1. SUFFICES ASSUME cursor.to # NoTime PROVE Covered(cursor.to)
    BY DEF CoveredIsStored, Covered
  <2>2. ~FromNothing /\ PreviousCoverage = cursor.to
    BY <2>1 DEF FromNothing, PreviousCoverage
  <2>. QED
    BY <1>1, <2>2 DEF WindowInv, CoverageInv
<1>. QED
  BY WindowsInductive, <1>1, PTL
=============================================================================
