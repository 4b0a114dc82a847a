----------------------------- MODULE WorkerJobs -----------------------------
(***************************************************************************)
(* One row of server_worker_jobs and the executions that compete for it:   *)
(* quickhack_server/workers/worker-jobs.ts.  An execution claims the row   *)
(* under a time-limited lease, keeps the lease alive with heartbeats while *)
(* the worker's own code runs, and records the result in a transaction     *)
(* that first checks that the row still carries its claim.                 *)
(*                                                                         *)
(* Time is abstract: a lease is "live" or "lapsed", a next run is "later"  *)
(* or "due", and a step of the environment moves each forward.  A lease    *)
(* token is a fresh UUID of one claim, so the claim's generation stands    *)
(* for it; a run token is the lease token of the claim that started the    *)
(* logical run.                                                            *)
(***************************************************************************)
EXTENDS Integers, FiniteSets

CONSTANTS
  Proc,         \* server processes that share the database
  Exec,         \* slots for executions of the job
  ProcOf,       \* the process in which each execution runs
  MaxAttempts,  \* server_worker_jobs.max_attempts
  Required,     \* the registered worker's scheduleRequired
  MaxClaims     \* bound on claim_generation

ASSUME WorkerJobsAssumption ==
  /\ ProcOf \in [Exec -> Proc]
  /\ MaxAttempts \in Nat \ {0}
  /\ Required \in BOOLEAN
  /\ MaxClaims \in Nat

VARIABLES
  status,    \* status of the job's row
  token,     \* lease_token, 0 when NULL
  gen,       \* claim_generation
  run,       \* run_token, 0 when NULL
  expiry,    \* locked_until
  attempts,  \* attempt_count
  enabled,   \* schedule_enabled
  nextRun,   \* next_run_at
  exec,      \* what each execution holds in memory
  shutdown,  \* whether each process has begun its shutdown
  outcome,   \* history: how each claim generation ended
  failures,  \* history: ordinary failures recorded for each logical run
  closed     \* history: the logical runs recorded as SUCCESS or FAILED

schedule == <<enabled, nextRun>>
row == <<status, token, gen, run, expiry, attempts, schedule>>
history == <<outcome, failures, closed>>
vars == <<row, exec, shutdown, history>>

Generation == 1..MaxClaims
Outcome == {"success", "retry", "failed"}
Status == {"IDLE", "RUNNING", "SUCCESS", "RETRY_WAITING", "FAILED"}
Expiry == {"none", "live", "lapsed"}
NextRun == {"none", "later", "due"}
Cause == {"none", "error", "shutdown", "lost"}
Phase == {"idle", "claimed", "running", "returned", "confirmed", "failing"}

Execution == [pc : Phase, gen : 0..MaxClaims, run : 0..MaxClaims,
              attempt : Nat, manual : BOOLEAN, lost : BOOLEAN, cause : Cause]

NoExecution == [pc |-> "idle", gen |-> 0, run |-> 0, attempt |-> 0,
                manual |-> FALSE, lost |-> FALSE, cause |-> "none"]

(***************************************************************************)
(* The row as ensureRegisteredWorkerJobs creates it.  Its later calls      *)
(* rewrite the same values, because a scheduled row never loses its next   *)
(* run (NextRunTracksSchedule).                                            *)
(***************************************************************************)
Init ==
  /\ status = "IDLE"
  /\ token = 0
  /\ gen = 0
  /\ run = 0
  /\ expiry = "none"
  /\ attempts = 0
  /\ enabled \in BOOLEAN
  /\ Required => enabled
  /\ nextRun \in IF enabled THEN {"later", "due"} ELSE {"none"}
  /\ exec = [e \in Exec |-> NoExecution]
  /\ shutdown = [p \in Proc |-> FALSE]
  /\ outcome = [g \in Generation |-> "open"]
  /\ failures = [g \in Generation |-> 0]
  /\ closed = {}

Active(e) == exec[e].pc # "idle"

\* assertWorkerRunsAllowed and the abort signal of the process.
RunsAllowed(e) == ~shutdown[ProcOf[e]]

\* Mutant of Owns: the claim is not compared, only the status is.
OwnsByStatusAlone(e) == Active(e) /\ status = "RUNNING"

\* The WHERE clause of heartbeats, progress updates and finalizations.
Owns(e) ==
  /\ status = "RUNNING"
  /\ token = exec[e].gen
  /\ gen = exec[e].gen

\* Mutant of Claimable: a lapsed lease is never taken over.
ClaimableWhenStopped == status # "RUNNING"

\* The WHERE clause of the claims: no run, or a run whose lease has lapsed.
Claimable ==
  \/ status # "RUNNING"
  \/ token = 0
  \/ expiry # "live"

(***************************************************************************)
(* Claims.                                                                 *)
(***************************************************************************)
\* Mutant of ClaimRun: the run token survives every claim.
ClaimRunAlwaysKept == IF run # 0 THEN run ELSE gen + 1

\* The run token survives a retry and the takeover of a lapsed run only.
ClaimRun ==
  IF status \in {"RETRY_WAITING", "RUNNING"} /\ run # 0
  THEN run
  ELSE gen + 1

\* The attempt that a claim begins.
ClaimAttempts ==
  IF status = "FAILED" /\ attempts >= MaxAttempts
  THEN 1
  ELSE attempts + 1

\* The UPDATE of both claims; the previous holder, if any, is superseded.
TakeLease(e, manual) ==
  /\ gen < MaxClaims
  /\ status' = "RUNNING"
  /\ token' = gen + 1
  /\ gen' = gen + 1
  /\ run' = ClaimRun
  /\ expiry' = "live"
  /\ attempts' = ClaimAttempts
  /\ exec' = [exec EXCEPT ![e] =
                [pc |-> "claimed", gen |-> gen + 1, run |-> ClaimRun,
                 attempt |-> ClaimAttempts, manual |-> manual,
                 lost |-> FALSE, cause |-> "none"]]
  /\ outcome' = IF status = "RUNNING" THEN [outcome EXCEPT ![gen] = "void"]
                                      ELSE outcome
  /\ UNCHANGED <<schedule, shutdown, failures, closed>>

\* runWorkerJob, runWorkerJobImmediately and runWorkerJobWithExecutor.  The
\* shutdown is looked at once, before the claim is under way: it may have
\* begun meanwhile for any number of requests, and it stops none of them here.
ClaimNow(e, manual) ==
  /\ ~Active(e)
  /\ Claimable
  /\ TakeLease(e, manual)

\* One turn of the loop of runDueWorkerJobs.  One that the shutdown meets
\* between its check and its claim does what ClaimNow does.
ClaimDue(e) ==
  /\ ~Active(e)
  /\ RunsAllowed(e)
  /\ enabled
  /\ nextRun = "due"
  /\ Claimable
  /\ TakeLease(e, FALSE)

(***************************************************************************)
(* The lease while the worker's code runs.                                 *)
(***************************************************************************)
Fails(e, cause) ==
  exec' = [exec EXCEPT ![e] =
             [@ EXCEPT !.pc = "failing",
                       !.cause = IF exec[e].lost THEN "lost" ELSE cause]]

LosesLease(e) ==
  exec' = [exec EXCEPT ![e] = [@ EXCEPT !.lost = TRUE]]

\* The heartbeat timer, or updateProgress, reaches the database.  A lease
\* that has lapsed but has not been taken is renewed.
Heartbeat(e) ==
  /\ exec[e].pc \in {"claimed", "running"}
  /\ ~exec[e].lost
  /\ \/ /\ Owns(e)
        /\ expiry' = "live"
        /\ UNCHANGED exec
     \/ /\ ~Owns(e)
        /\ LosesLease(e)
        /\ UNCHANGED expiry
  /\ UNCHANGED <<status, token, gen, run, attempts, schedule, shutdown, history>>

\* The heartbeat cannot reach the database through the lease's own expiry.
HeartbeatUnreachable(e) ==
  /\ exec[e].pc \in {"claimed", "running"}
  /\ ~exec[e].lost
  /\ ~(Owns(e) /\ expiry = "live")
  /\ LosesLease(e)
  /\ UNCHANGED <<row, shutdown, history>>

\* lease.assertActive: a renewal that the execution waits for.  It proceeds
\* to phase "to" only when the row still carries its claim; an unreachable
\* database fails the execution with the database's error.
AssertActive(e, to) ==
  \/ /\ ~exec[e].lost
     /\ Owns(e)
     /\ expiry' = "live"
     /\ exec' = [exec EXCEPT ![e] = [@ EXCEPT !.pc = to]]
  \/ /\ exec[e].lost \/ ~Owns(e)
     /\ exec' = [exec EXCEPT ![e] =
                   [@ EXCEPT !.pc = "failing", !.lost = TRUE, !.cause = "lost"]]
     /\ UNCHANGED expiry
  \/ /\ Fails(e, "error")
     /\ UNCHANGED expiry

Begin(e) ==
  /\ exec[e].pc = "claimed"
  /\ \/ /\ RunsAllowed(e)
        /\ AssertActive(e, "running")
     \/ /\ ~RunsAllowed(e)
        /\ Fails(e, "shutdown")
        /\ UNCHANGED expiry
  /\ UNCHANGED <<status, token, gen, run, attempts, schedule, shutdown, history>>

\* The worker's code returns a result: it may ignore its abort signal.
WorkReturns(e) ==
  /\ exec[e].pc = "running"
  /\ exec' = [exec EXCEPT ![e] = [@ EXCEPT !.pc = "returned"]]
  /\ UNCHANGED <<row, shutdown, history>>

\* The worker's code throws, because of its own error or of its signal.
WorkThrows(e) ==
  /\ exec[e].pc = "running"
  /\ \/ Fails(e, "error")
     \/ ~RunsAllowed(e) /\ Fails(e, "shutdown")
  /\ UNCHANGED <<row, shutdown, history>>

Confirm(e) ==
  /\ exec[e].pc = "returned"
  /\ AssertActive(e, "confirmed")
  /\ UNCHANGED <<status, token, gen, run, attempts, schedule, shutdown, history>>

(***************************************************************************)
(* Finalization.                                                           *)
(***************************************************************************)
Stops(e) == exec' = [exec EXCEPT ![e] = NoExecution]

\* What both finalizations do to the claim.
ReleaseLease ==
  /\ token' = 0
  /\ expiry' = "none"
  /\ UNCHANGED <<gen, run>>

\* Mutant of RecordSuccess: the lease is released but the status is kept.
RecordSuccessStillRunning ==
  /\ status' = "RUNNING"
  /\ attempts' = 0
  /\ nextRun' = IF enabled THEN "later" ELSE "none"
  /\ ReleaseLease

\* The row's part of a recorded success.
RecordSuccess ==
  /\ status' = "SUCCESS"
  /\ attempts' = 0
  /\ nextRun' = IF enabled THEN "later" ELSE "none"
  /\ ReleaseLease

\* The transaction worker_job.finalize_success.  When its commit is not
\* acknowledged the execution enters its failure path with the row closed.
FinalizeSuccess(e) ==
  /\ exec[e].pc = "confirmed"
  /\ \/ /\ Owns(e)
        /\ RecordSuccess
        /\ outcome' = [outcome EXCEPT ![exec[e].gen] = "success"]
        /\ closed' = closed \cup {exec[e].run}
        /\ Stops(e) \/ Fails(e, "error")
        /\ UNCHANGED enabled
     \/ /\ ~Owns(e)
        /\ exec' = [exec EXCEPT ![e] =
                      [@ EXCEPT !.pc = "failing", !.cause = "lost"]]
        /\ UNCHANGED <<row, outcome, closed>>
  /\ UNCHANGED <<shutdown, failures>>

\* The transaction rolls back.
FinalizeSuccessError(e) ==
  /\ exec[e].pc = "confirmed"
  /\ Fails(e, "error")
  /\ UNCHANGED <<row, shutdown, history>>

\* Mutant of WillRetry: one attempt too many.
WillRetryOnceMore(e) ==
  \/ exec[e].cause = "shutdown"
  \/ ~exec[e].manual /\ exec[e].attempt <= MaxAttempts

WillRetry(e) ==
  \/ exec[e].cause = "shutdown"
  \/ ~exec[e].manual /\ exec[e].attempt < MaxAttempts

GivesAttemptBack(e) == exec[e].cause = "shutdown" \/ exec[e].manual

\* Mutant of RecordFailure: the retry is scheduled whatever the schedule is now.
RecordFailureRescheduled(e) ==
  /\ status' = IF WillRetry(e) THEN "RETRY_WAITING" ELSE "FAILED"
  /\ attempts' = IF GivesAttemptBack(e) THEN attempts - 1 ELSE attempts
  /\ nextRun' = IF exec[e].cause = "shutdown" THEN "due" ELSE "later"
  /\ ReleaseLease

\* The row's part of a recorded failure: the schedule is the row's current
\* one, not the one the claim saw.
RecordFailure(e) ==
  /\ status' = IF WillRetry(e) THEN "RETRY_WAITING" ELSE "FAILED"
  /\ attempts' = IF GivesAttemptBack(e) THEN attempts - 1 ELSE attempts
  /\ nextRun' = IF ~enabled THEN "none"
                ELSE IF exec[e].cause = "shutdown" THEN "due" ELSE "later"
  /\ ReleaseLease

\* The transaction worker_job.finalize_failure; a lost lease is swallowed.
FinalizeFailure(e) ==
  /\ exec[e].pc = "failing"
  /\ \/ /\ Owns(e)
        /\ RecordFailure(e)
        /\ outcome' = [outcome EXCEPT ![exec[e].gen] =
                         IF WillRetry(e) THEN "retry" ELSE "failed"]
        /\ closed' = IF WillRetry(e) THEN closed
                                     ELSE closed \cup {exec[e].run}
        /\ failures' = IF GivesAttemptBack(e) THEN failures
                       ELSE [failures EXCEPT ![exec[e].run] = @ + 1]
        /\ UNCHANGED enabled
     \/ /\ ~Owns(e)
        /\ UNCHANGED <<row, history>>
  /\ Stops(e)
  /\ UNCHANGED shutdown

\* The transaction fails for another reason: the row stays RUNNING and only
\* the lapse of its lease frees it.
FinalizeFailureError(e) ==
  /\ exec[e].pc = "failing"
  /\ Stops(e)
  /\ UNCHANGED <<row, shutdown, history>>

(***************************************************************************)
(* Operators, processes and time.                                          *)
(***************************************************************************)
UpdateSchedule(on) ==
  /\ Required => on
  /\ enabled' = on
  /\ nextRun' = IF on THEN "due" ELSE "none"
  /\ UNCHANGED <<status, token, gen, run, expiry, attempts, exec, shutdown,
                 history>>

BeginShutdown(p) ==
  /\ ~shutdown[p]
  /\ shutdown' = [shutdown EXCEPT ![p] = TRUE]
  /\ UNCHANGED <<row, exec, history>>

\* The process dies, drained or not, and is started again.
Restart(p) ==
  /\ shutdown[p] \/ \E e \in Exec : ProcOf[e] = p /\ Active(e)
  /\ shutdown' = [shutdown EXCEPT ![p] = FALSE]
  /\ exec' = [e \in Exec |-> IF ProcOf[e] = p THEN NoExecution ELSE exec[e]]
  /\ UNCHANGED <<row, history>>

LeaseLapses ==
  /\ expiry = "live"
  /\ expiry' = "lapsed"
  /\ UNCHANGED <<status, token, gen, run, attempts, schedule, exec, shutdown,
                 history>>

NextRunComesDue ==
  /\ nextRun = "later"
  /\ nextRun' = "due"
  /\ UNCHANGED <<status, token, gen, run, expiry, attempts, enabled, exec,
                 shutdown, history>>

Execute(e) ==
  \/ Begin(e)
  \/ WorkReturns(e)
  \/ WorkThrows(e)
  \/ Confirm(e)
  \/ FinalizeSuccess(e)
  \/ FinalizeSuccessError(e)
  \/ FinalizeFailure(e)
  \/ FinalizeFailureError(e)

Next ==
  \/ \E e \in Exec, manual \in BOOLEAN : ClaimNow(e, manual)
  \/ \E e \in Exec : ClaimDue(e)
  \/ \E e \in Exec : Heartbeat(e)
  \/ \E e \in Exec : HeartbeatUnreachable(e)
  \/ \E e \in Exec : Execute(e)
  \/ \E on \in BOOLEAN : UpdateSchedule(on)
  \/ \E p \in Proc : BeginShutdown(p)
  \/ \E p \in Proc : Restart(p)
  \/ LeaseLapses
  \/ NextRunComesDue

Spec == Init /\ [][Next]_vars

-----------------------------------------------------------------------------
(***************************************************************************)
(* Safety.                                                                 *)
(***************************************************************************)
\* Every variable holds a value of its type; attempt_count never goes below
\* zero, however often an attempt is given back.
TypeOK ==
  /\ status \in Status
  /\ token \in 0..MaxClaims
  /\ gen \in 0..MaxClaims
  /\ run \in 0..MaxClaims
  /\ expiry \in Expiry
  /\ attempts \in Nat
  /\ status = "RUNNING" => attempts # 0
  /\ enabled \in BOOLEAN
  /\ nextRun \in NextRun
  /\ exec \in [Exec -> Execution]
  /\ shutdown \in [Proc -> BOOLEAN]
  /\ outcome \in [Generation -> Outcome \cup {"open", "void"}]
  /\ failures \in [Generation -> Nat]
  /\ closed \in SUBSET (0..MaxClaims)

\* Of two executions alive at the same time, in any processes, at most one
\* can still record a result, and it is the one that claimed last.
SingleOwner ==
  \A e1, e2 \in Exec :
    /\ (Active(e1) /\ Owns(e1) /\ Active(e2) /\ Owns(e2)) => e1 = e2
    /\ (Active(e1) /\ Owns(e1) /\ Active(e2)) => exec[e2].gen <= exec[e1].gen

\* A run that was recorded as SUCCESS or FAILED is never executed again under
\* the same run token, whatever was lost, retried or taken over meanwhile:
\* workers use the token as the operation id of effects outside the database.
ClosedRunNeverRepeats ==
  status \in {"RUNNING", "RETRY_WAITING"} => run \notin closed

\* Across retries, takeovers, planned shutdowns and manual runs, one logical
\* run records at most max_attempts failures of its own.
RetryBudget ==
  \A r \in Generation : failures[r] <= MaxAttempts

\* The next run exists exactly while the schedule is on.  A claim relies on
\* it: a crashed run is only found again through its old next run, and an
\* operator's change during a run survives the run's finalization.
NextRunTracksSchedule ==
  enabled <=> nextRun # "none"

\* How a claim ended never changes: a superseded execution cannot close the
\* row of its successor, and a recorded result is not recorded again.
EndingIsFinal ==
  [][\A g \in Generation : outcome[g] # "open" => outcome'[g] = outcome[g]]_vars

\* The job implements a fenced lease whose generations are its claims.
Lease == INSTANCE FencedLease WITH
           MaxGrants <- MaxClaims,
           Result <- Outcome,
           granted <- gen,
           holder <- IF status = "RUNNING" THEN gen ELSE 0,
           ending <- outcome

ImplementsLease == Lease!Spec

(***************************************************************************)
(* Liveness.  Operators, failures, shutdowns and restarts are not fair.    *)
(***************************************************************************)
\* Time passes, the executions that live come to their end, and the
\* manager's ticks try the due claim again and again.
Fairness ==
  /\ WF_vars(LeaseLapses)
  /\ WF_vars(NextRunComesDue)
  /\ SF_vars(\E e \in Exec : ClaimDue(e))
  /\ \A e \in Exec : WF_vars(Execute(e))

Abandoned(g) ==
  /\ status = "RUNNING"
  /\ gen = g
  /\ \A e \in Exec : ~(Active(e) /\ exec[e].gen = g)

\* A scheduled run whose execution died is claimed again: its lease lapses
\* and its next run comes due without anybody's help.
AbandonedRunIsRetaken ==
  Fairness => \A g \in Generation :
    Abandoned(g) ~> \/ gen # g \/ gen = MaxClaims
                    \/ ~enabled
                    \/ \A p \in Proc : shutdown[p]

=============================================================================
