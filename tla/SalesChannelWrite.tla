-------------------------- MODULE SalesChannelWrite --------------------------
(***************************************************************************)
(* One durable write to the sales channel, from its submission to its      *)
(* local finalization: quickhack_server/sales-channel/write/.              *)
(*                                                                         *)
(* The request's row, its targets and its attempts are shared by every     *)
(* process; an executor is one call of the write service or of the review  *)
(* service, and each of its steps is one transaction, or the external call *)
(* between two of them.  Transactions lock the request's row, or fail when *)
(* its status moved, so each is one action.  A transaction that rolls back *)
(* and an executor that dies or loses its ownership are the same step,     *)
(* GivesUp; one whose commit is not acknowledged is the step followed by   *)
(* GivesUp, unless the code finds the commit and goes on.                  *)
(*                                                                         *)
(* External: the channel's answer, the read that inspects a target and the *)
(* person's decision are any that the code distinguishes.                  *)
(***************************************************************************)
EXTENDS Integers, FiniteSets

CONSTANTS
  Exec,        \* slots for executors
  Target,      \* the request's targets, each a target group of its own
  PerItem,     \* whether a partial answer names each target's own result
  MaxAttempt   \* bound on attempt_no

ASSUME SalesChannelWriteAssumption ==
  /\ Target # {}
  /\ PerItem \in BOOLEAN
  /\ MaxAttempt \in Nat

VARIABLES
  status,     \* request_status, "NONE" before the request exists
  active,     \* active_review_attempt_id, 0 when NULL
  heartbeat,  \* age of active_review_heartbeat_at
  stale,      \* whether updated_at is older than the recovery's limit
  held,       \* whether the worker's run that sends it holds its lease
  ext,        \* external_result_status of each target
  loc,        \* local_finalization_status of each target
  last,       \* the highest attempt_no
  kind,       \* attempt_type of each attempt
  state,      \* attempt_status of each attempt
  sent,       \* request_dispatched of each attempt
  pc,         \* where each executor stands
  own,        \* the attempt each executor works for
  ids,        \* the target ids an executor noted for the finalization
  calls,      \* history: calls made to the channel since the last submission
  cut,        \* history: the answer of such a call broke off half-way
  unseen,     \* history: called targets of which nobody saw the result
  finalized   \* history: how often each target was finalized locally

request == <<status, active, heartbeat, stale, held>>
targets == <<ext, loc>>
attempts == <<last, kind, state, sent>>
executors == <<pc, own, ids>>
history == <<calls, cut, unseen, finalized>>
vars == <<request, targets, attempts, executors, history>>

Attempt == 1..MaxAttempt
Kind == {"WRITE", "VERIFY_READ", "LOCAL_FINALIZE"}
Ended == {"SUCCEEDED", "FAILED", "AMBIGUOUS"}
External == {"PENDING", "SUCCEEDED", "NOT_APPLIED", "UNKNOWN"}
Local == {"PENDING", "SUCCEEDED", "FAILED", "NOT_REQUIRED"}
Result == {"SUCCEEDED", "NOT_APPLIED", "UNKNOWN"}
Phase == {"idle", "created", "begun", "dispatched", "called", "verifying",
          "reading", "rechecking", "finalizing"}

Init ==
  /\ status = "NONE"
  /\ active = 0
  /\ heartbeat = "none"
  /\ stale = FALSE
  /\ held = FALSE
  /\ ext = [t \in Target |-> "PENDING"]
  /\ loc = [t \in Target |-> "PENDING"]
  /\ last = 0
  /\ kind = [n \in Attempt |-> "WRITE"]
  /\ state = [n \in Attempt |-> "NONE"]
  /\ sent = [n \in Attempt |-> FALSE]
  /\ pc = [e \in Exec |-> "idle"]
  /\ own = [e \in Exec |-> 0]
  /\ ids = [e \in Exec |-> {}]
  /\ calls = 0
  /\ cut = FALSE
  /\ unseen = {}
  /\ finalized = [t \in Target |-> 0]

(***************************************************************************)
(* Targets.                                                                *)
(***************************************************************************)
LocalFor(r) == IF r = "NOT_APPLIED" THEN "NOT_REQUIRED" ELSE "PENDING"

\* The targets of T take the results r.
Settle(T, r) ==
  /\ ext' = [t \in Target |-> IF t \in T THEN r[t] ELSE ext[t]]
  /\ loc' = [t \in Target |-> IF t \in T THEN LocalFor(r[t]) ELSE loc[t]]

Unsettled == {t \in Target : ext[t] = "PENDING"}

\* markPendingSalesChannelWriteTargets
MarkPending(result) == Settle(Unsettled, [t \in Target |-> result])

\* successfulPendingTargetIds of external results x and local statuses l
SuccessfulPending(x, l) ==
  {t \in Target : x[t] = "SUCCEEDED" /\ l[t] # "SUCCEEDED"}

\* deriveSalesChannelWriteRequestStatus
Derived(x, l) ==
  IF \E t \in Target : x[t] = "UNKNOWN" THEN "REVIEW_REQUIRED"
  ELSE IF SuccessfulPending(x, l) # {} THEN "LOCAL_PENDING"
  ELSE IF \A t \in Target : x[t] = "NOT_APPLIED" THEN "NOT_APPLIED"
  ELSE IF \A t \in Target : x[t] = "SUCCEEDED" THEN "COMPLETED"
  ELSE IF \A t \in Target : x[t] \in {"SUCCEEDED", "NOT_APPLIED"}
    THEN "PARTIALLY_COMPLETED"
  ELSE "REVIEW_REQUIRED"

(***************************************************************************)
(* Attempts and their ownership.                                           *)
(***************************************************************************)
\* createSalesChannelWriteAttempt
Opens(k, dispatched) ==
  /\ last < MaxAttempt
  /\ last' = last + 1
  /\ kind' = [kind EXCEPT ![last + 1] = k]
  /\ sent' = [sent EXCEPT ![last + 1] = dispatched]
  /\ state' = [state EXCEPT ![last + 1] = "SENDING"]

Closes(n, s) ==
  /\ state' = [state EXCEPT ![n] = s]
  /\ UNCHANGED <<last, kind, sent>>

\* The attempt n ends as s and the next one begins.
Transfers(n, s, k) ==
  /\ last < MaxAttempt
  /\ last' = last + 1
  /\ kind' = [kind EXCEPT ![last + 1] = k]
  /\ sent' = [sent EXCEPT ![last + 1] = FALSE]
  /\ state' = [state EXCEPT ![n] = s, ![last + 1] = "SENDING"]

\* Mutant of OwnsAttempt: the request's status is compared, the attempt's
\* own status is not.
OwnsByStatus(e, s, k, dispatched) ==
  /\ status = s
  /\ active = 0
  /\ kind[own[e]] = k
  /\ sent[own[e]] = dispatched

\* The WHERE clauses of the execution ownership.
OwnsAttempt(e, s, k, dispatched) ==
  /\ status = s
  /\ active = 0
  /\ kind[own[e]] = k
  /\ state[own[e]] = "SENDING"
  /\ sent[own[e]] = dispatched

\* assertSalesChannelWriteReviewOwnership
HoldsReview(e, s) == active = own[e] /\ status = s

NoReview == active' = 0 /\ heartbeat' = "none"

Binds(n) == active' = n /\ heartbeat' = "live"

Touches == stale' = FALSE /\ UNCHANGED held

Moves(e, to, n) ==
  /\ pc' = [pc EXCEPT ![e] = to]
  /\ own' = [own EXCEPT ![e] = n]

Stops(e) == Moves(e, "idle", 0) /\ ids' = [ids EXCEPT ![e] = {}]

(***************************************************************************)
(* Submission.                                                             *)
(***************************************************************************)
\* Mutant of Retryable: a partly completed request can be submitted again.
RetryableWhenPartial == {"REJECTED", "NOT_APPLIED", "PARTIALLY_COMPLETED"}

Retryable == {"REJECTED", "NOT_APPLIED"}

\* createWriteRequest: a first submission, or the retry of a request that
\* reached nothing, with the same targets or with a new snapshot of them.
Submit(e, changed) ==
  /\ pc[e] = "idle"
  /\ \/ status = "NONE"
     \/ /\ status \in Retryable
        /\ active = 0
        /\ changed \/ \A t \in Target : /\ ext[t] = "NOT_APPLIED"
                                        /\ loc[t] = "NOT_REQUIRED"
  /\ status' = "PENDING"
  /\ NoReview
  /\ stale' = FALSE
  /\ held' \in IF status = "NONE" THEN BOOLEAN ELSE {held}
  /\ ext' = [t \in Target |-> "PENDING"]
  /\ loc' = [t \in Target |-> "PENDING"]
  /\ Opens("WRITE", FALSE)
  /\ Moves(e, "created", last + 1)
  /\ calls' = 0
  /\ cut' = FALSE
  /\ unseen' = {}
  /\ UNCHANGED <<ids, finalized>>

\* rejectWriteRequest: the policy, the endpoint's pause or the caller's own
\* check refuses the write before it begins.
Reject(e) ==
  /\ pc[e] = "created"
  /\ OwnsAttempt(e, "PENDING", "WRITE", FALSE)
  /\ MarkPending("NOT_APPLIED")
  /\ status' = "REJECTED"
  /\ Closes(own[e], "FAILED")
  /\ Touches
  /\ Stops(e)
  /\ UNCHANGED <<active, heartbeat, history>>

Begin(e) ==
  /\ pc[e] = "created"
  /\ OwnsAttempt(e, "PENDING", "WRITE", FALSE)
  /\ status' = "SENDING"
  /\ Touches
  /\ Moves(e, "begun", own[e])
  /\ UNCHANGED <<active, heartbeat, targets, attempts, ids, history>>

(***************************************************************************)
(* The external call.                                                      *)
(***************************************************************************)
\* The intent to call is committed before the call is made.
Dispatch(e) ==
  /\ pc[e] = "begun"
  /\ OwnsAttempt(e, "SENDING", "WRITE", FALSE)
  /\ sent' = [sent EXCEPT ![own[e]] = TRUE]
  /\ Touches
  /\ Moves(e, "dispatched", own[e])
  /\ UNCHANGED <<status, active, heartbeat, targets, last, kind, state, ids,
                 history>>

Call(e) ==
  /\ pc[e] = "dispatched"
  /\ calls' = calls + 1
  /\ unseen' = Target
  /\ Moves(e, "called", own[e])
  /\ UNCHANGED <<request, targets, attempts, ids, cut, finalized>>

\* What the request becomes when the results settled show a success: the
\* finalization is handed to a new attempt that is bound as the active one.
HandsOver(e) ==
  /\ status' = "LOCAL_PENDING"
  /\ Binds(last + 1)
  /\ Moves(e, "finalizing", last + 1)
  /\ ids' = [ids EXCEPT ![e] = SuccessfulPending(ext', loc')]

\* The answer confirms the write, for every target or for those it names.
ConfirmResponse(e) ==
  /\ pc[e] = "called"
  /\ OwnsAttempt(e, "SENDING", "WRITE", TRUE)
  /\ \E T \in IF PerItem THEN (SUBSET Target) \ {{}} ELSE {Target} :
       Settle(Target, [t \in Target |-> IF t \in T THEN "SUCCEEDED"
                                                   ELSE "NOT_APPLIED"])
  /\ Unsettled = Target
  /\ Transfers(own[e], "SUCCEEDED", "LOCAL_FINALIZE")
  /\ HandsOver(e)
  /\ Touches
  /\ unseen' = {}
  /\ UNCHANGED <<calls, cut, finalized>>

\* Before the call was made (its context, signature or abort fails), or
\* after an answer that refuses it.
NotApplied(e) ==
  /\ \/ /\ pc[e] = "begun"
        /\ OwnsAttempt(e, "SENDING", "WRITE", FALSE)
        /\ UNCHANGED <<cut, unseen>>
     \/ /\ pc[e] = "dispatched"
        /\ OwnsAttempt(e, "SENDING", "WRITE", TRUE)
        /\ UNCHANGED <<cut, unseen>>
     \/ /\ pc[e] = "called"
        /\ OwnsAttempt(e, "SENDING", "WRITE", TRUE)
        /\ unseen' = {}
        /\ UNCHANGED cut
     \* The answer's body breaks off: writeFailureDisposition looks for a
     \* status code and for words of the message, and finds neither.
     \/ /\ pc[e] = "called"
        /\ OwnsAttempt(e, "SENDING", "WRITE", TRUE)
        /\ cut' = TRUE
        /\ UNCHANGED unseen
  /\ MarkPending("NOT_APPLIED")
  /\ status' = "NOT_APPLIED"
  /\ Closes(own[e], "FAILED")
  /\ Touches
  /\ Stops(e)
  /\ UNCHANGED <<active, heartbeat, calls, finalized>>

\* A timeout, a disconnection, a 5xx or an answer that cannot be trusted.
Ambiguous(e) ==
  /\ pc[e] \in {"dispatched", "called"}
  /\ OwnsAttempt(e, "SENDING", "WRITE", TRUE)
  /\ status' = "VERIFYING"
  /\ Transfers(own[e], "AMBIGUOUS", "VERIFY_READ")
  /\ Touches
  /\ Moves(e, "verifying", last + 1)
  /\ UNCHANGED <<active, heartbeat, targets, ids, history>>

DispatchRead(e) ==
  /\ pc[e] = "verifying"
  /\ OwnsAttempt(e, "VERIFYING", "VERIFY_READ", FALSE)
  /\ sent' = [sent EXCEPT ![own[e]] = TRUE]
  /\ Touches
  /\ Moves(e, "reading", own[e])
  /\ UNCHANGED <<status, active, heartbeat, targets, last, kind, state, ids,
                 history>>

VerificationFails(e) ==
  /\ pc[e] = "reading"
  /\ OwnsAttempt(e, "VERIFYING", "VERIFY_READ", TRUE)
  /\ MarkPending("UNKNOWN")
  /\ status' = "REVIEW_REQUIRED"
  /\ Closes(own[e], "AMBIGUOUS")
  /\ Touches
  /\ Stops(e)
  /\ UNCHANGED <<active, heartbeat, history>>

Resolved(T, r) == {t \in T : r[t] # "UNKNOWN"}

\* The read settles the targets, as far as it can.
SettleVerification(e) ==
  /\ pc[e] = "reading"
  /\ OwnsAttempt(e, "VERIFYING", "VERIFY_READ", TRUE)
  /\ \E r \in [Target -> Result] :
       /\ Settle(Unsettled, r)
       /\ unseen' = unseen \ Resolved(Unsettled, r)
  /\ \/ /\ SuccessfulPending(ext', loc') = {}
        /\ status' = Derived(ext', loc')
        /\ Closes(own[e], IF status' = "REVIEW_REQUIRED" THEN "AMBIGUOUS"
                                                         ELSE "SUCCEEDED")
        /\ Stops(e)
        /\ UNCHANGED <<active, heartbeat>>
     \/ /\ SuccessfulPending(ext', loc') # {}
        /\ Transfers(own[e], "SUCCEEDED", "LOCAL_FINALIZE")
        /\ HandsOver(e)
  /\ Touches
  /\ UNCHANGED <<calls, cut, finalized>>

(***************************************************************************)
(* Local finalization.                                                     *)
(***************************************************************************)
\* The targets whose ids the finalizer uses: a claimed finalization reads
\* them in its own transaction.
Finalizable(e) ==
  IF ids[e] # {} THEN ids[e] ELSE SuccessfulPending(ext, loc)

\* markSalesChannelWriteTargetsLocalStatus
MarkLocal(T, s) ==
  /\ T # {}
  /\ \A t \in T : ext[t] = "SUCCEEDED" /\ loc[t] \in {"PENDING", "FAILED"}
  /\ loc' = [t \in Target |-> IF t \in T THEN s ELSE loc[t]]
  /\ UNCHANGED ext

\* The caller's finalization, the targets and the request in one transaction.
Finalize(e) ==
  /\ pc[e] = "finalizing"
  /\ HoldsReview(e, "LOCAL_PENDING")
  /\ MarkLocal(Finalizable(e), "SUCCEEDED")
  /\ finalized' = [t \in Target |-> IF t \in Finalizable(e)
                                    THEN finalized[t] + 1 ELSE finalized[t]]
  /\ status' = Derived(ext, loc')
  /\ NoReview
  /\ Closes(own[e], "SUCCEEDED")
  /\ Touches
  /\ Stops(e)
  /\ UNCHANGED <<calls, cut, unseen>>

\* The finalization throws and is recorded as failed.
FinalizationFails(e) ==
  /\ pc[e] = "finalizing"
  /\ HoldsReview(e, "LOCAL_PENDING")
  /\ MarkLocal(Finalizable(e), "FAILED")
  /\ NoReview
  /\ Closes(own[e], "FAILED")
  /\ Touches
  /\ Stops(e)
  /\ UNCHANGED <<status, history>>

(***************************************************************************)
(* Review: a person or the order worker claims a request that came to rest.*)
(***************************************************************************)
\* Nobody holds the request, or its holder's lease has expired.
Unclaimed == active = 0 \/ heartbeat = "lapsed"

\* How expireStaleOperation closes the attempt.
ExpiredState(n) ==
  IF state[n] # "SENDING" THEN state[n]
  ELSE IF kind[n] = "LOCAL_FINALIZE" THEN "FAILED" ELSE "AMBIGUOUS"

\* The states after the active attempt, if any, was expired.
AfterExpiry ==
  [n \in Attempt |-> IF n = active THEN ExpiredState(n) ELSE state[n]]

\* claimSalesChannelWriteReviewOperation
Claims(e, k, dispatched, to) ==
  /\ Unclaimed
  /\ last < MaxAttempt
  /\ last' = last + 1
  /\ kind' = [kind EXCEPT ![last + 1] = k]
  /\ sent' = [sent EXCEPT ![last + 1] = dispatched]
  /\ state' = [AfterExpiry EXCEPT ![last + 1] = "SENDING"]
  /\ Binds(last + 1)
  /\ Touches
  /\ Moves(e, to, last + 1)
  /\ UNCHANGED ids

\* retrySalesChannelLocalFinalization, recoverSalesChannelLocalFinalization
ClaimFinalization(e) ==
  /\ pc[e] = "idle"
  /\ status = "LOCAL_PENDING"
  /\ Claims(e, "LOCAL_FINALIZE", FALSE, "finalizing")
  /\ UNCHANGED <<status, targets, history>>

ClaimRecheck(e) ==
  /\ pc[e] = "idle"
  /\ status = "REVIEW_REQUIRED"
  /\ Claims(e, "VERIFY_READ", TRUE, "rechecking")
  /\ UNCHANGED <<status, targets, history>>

\* settleFailedRecheck
RecheckFails(e) ==
  /\ pc[e] = "rechecking"
  /\ HoldsReview(e, "REVIEW_REQUIRED")
  /\ NoReview
  /\ Closes(own[e], "AMBIGUOUS")
  /\ Touches
  /\ Stops(e)
  /\ UNCHANGED <<status, targets, history>>

\* Mutant of Rechecked: the recheck settles every target that was reached.
RecheckedAll == {t \in Target : ext[t] # "NOT_APPLIED"}

\* loadUnknownTargetGroups
Rechecked == {t \in Target : ext[t] = "UNKNOWN"}

SettleRecheck(e) ==
  /\ pc[e] = "rechecking"
  /\ HoldsReview(e, "REVIEW_REQUIRED")
  /\ \E r \in [Target -> Result] :
       /\ Settle(Rechecked, r)
       /\ unseen' = unseen \ Resolved(Rechecked, r)
  /\ \/ /\ SuccessfulPending(ext', loc') = {}
        /\ status' = Derived(ext', loc')
        /\ NoReview
        /\ Closes(own[e], IF status' = "REVIEW_REQUIRED" THEN "AMBIGUOUS"
                                                         ELSE "SUCCEEDED")
        /\ Stops(e)
     \/ /\ SuccessfulPending(ext', loc') # {}
        /\ Transfers(own[e], IF Derived(ext', loc') = "REVIEW_REQUIRED"
                             THEN "AMBIGUOUS" ELSE "SUCCEEDED",
                     "LOCAL_FINALIZE")
        /\ HandsOver(e)
  /\ Touches
  /\ UNCHANGED <<calls, cut, finalized>>

\* settleOwnedManualWriteDecision: the claim, the person's decision about the
\* group of t and what follows from it are one transaction.
Decide(e, t, result) ==
  /\ pc[e] = "idle"
  /\ status = "REVIEW_REQUIRED"
  /\ Unclaimed
  /\ ext[t] = "UNKNOWN"
  /\ Settle({t}, [u \in Target |-> result])
  /\ last < MaxAttempt
  /\ last' = last + 1
  /\ kind' = [kind EXCEPT ![last + 1] = "LOCAL_FINALIZE"]
  /\ sent' = [sent EXCEPT ![last + 1] = FALSE]
  /\ \/ /\ SuccessfulPending(ext', loc') = {}
        /\ status' = Derived(ext', loc')
        /\ NoReview
        /\ state' = [AfterExpiry EXCEPT ![last + 1] = "SUCCEEDED"]
        /\ UNCHANGED <<pc, own, ids>>
     \/ /\ SuccessfulPending(ext', loc') # {}
        /\ state' = [AfterExpiry EXCEPT ![last + 1] = "SENDING"]
        /\ HandsOver(e)
  /\ unseen' = unseen \ {t}
  /\ Touches
  /\ UNCHANGED <<calls, cut, finalized>>

\* recordManualWriteDecision with a note only: an expired claim is released.
Annotate ==
  /\ status = "REVIEW_REQUIRED"
  /\ Unclaimed
  /\ Rechecked # {}
  /\ NoReview
  /\ state' = AfterExpiry
  /\ Touches
  /\ UNCHANGED <<status, targets, last, kind, sent, executors, history>>

(***************************************************************************)
(* Recovery of interrupted writes, time and failures.                      *)
(***************************************************************************)
\* Mutant of Recoverable: a request interrupted before it began is left out.
RecoverableOnceBegun == {"SENDING", "VERIFYING"}

Recoverable == {"PENDING", "SENDING", "VERIFYING"}

OpenAttempts == {n \in Attempt : state[n] = "SENDING"}

\* Mutant of NeverDispatched: the commit that precedes the call is ignored.
NeverDispatchedByStatus(n) == status \in {"PENDING", "SENDING"}

NeverDispatched(n) ==
  \/ status = "PENDING"
  \/ status = "SENDING" /\ kind[n] = "WRITE" /\ ~sent[n]

\* Mutant of RecoveredResult: no recovered target is left in doubt.
RecoveredResultCertain(n) == "NOT_APPLIED"

\* What becomes of the targets that still wait for a result.
RecoveredResult(n) == IF NeverDispatched(n) THEN "NOT_APPLIED" ELSE "UNKNOWN"

\* recoverInterruptedSalesChannelWrites, for the latest open attempt n.
Recover(n) ==
  /\ status \in Recoverable
  /\ stale
  /\ active = 0
  /\ ~held
  /\ n \in OpenAttempts
  /\ \A m \in OpenAttempts : m <= n
  /\ status' = IF NeverDispatched(n) THEN "NOT_APPLIED" ELSE "REVIEW_REQUIRED"
  /\ MarkPending(RecoveredResult(n))
  /\ Closes(n, IF NeverDispatched(n) THEN "FAILED" ELSE "AMBIGUOUS")
  /\ Touches
  /\ UNCHANGED <<active, heartbeat, executors, history>>

\* The executor dies, its transaction fails, or it finds its claim gone.
GivesUp(e) ==
  /\ pc[e] # "idle"
  /\ Stops(e)
  /\ UNCHANGED <<request, targets, attempts, history>>

\* The call and its signature have timeouts far below the recovery's limit:
\* between the dispatch and the end of the call the row does not get stale.
GoesStale ==
  /\ status \in Recoverable
  /\ ~stale
  /\ \A e \in Exec : pc[e] \in {"dispatched", "called"} =>
                       ~OwnsAttempt(e, "SENDING", "WRITE", TRUE)
  /\ stale' = TRUE
  /\ UNCHANGED <<status, active, heartbeat, held, targets, attempts, executors,
                 history>>

LeaseLapses ==
  /\ heartbeat = "live"
  /\ heartbeat' = "lapsed"
  /\ UNCHANGED <<status, active, stale, held, targets, attempts, executors,
                 history>>

WorkerRunEnds ==
  /\ held
  /\ held' = FALSE
  /\ UNCHANGED <<status, active, heartbeat, stale, targets, attempts,
                 executors, history>>

Write(e) ==
  \/ \E changed \in BOOLEAN : Submit(e, changed)
  \/ Reject(e)
  \/ Begin(e)
  \/ Dispatch(e)
  \/ Call(e)
  \/ ConfirmResponse(e)
  \/ NotApplied(e)
  \/ Ambiguous(e)
  \/ DispatchRead(e)
  \/ VerificationFails(e)
  \/ SettleVerification(e)

Review(e) ==
  \/ ClaimFinalization(e)
  \/ Finalize(e)
  \/ FinalizationFails(e)
  \/ ClaimRecheck(e)
  \/ RecheckFails(e)
  \/ SettleRecheck(e)
  \/ \E t \in Target, r \in {"SUCCEEDED", "NOT_APPLIED"} : Decide(e, t, r)

Next ==
  \/ \E e \in Exec : Write(e)
  \/ \E e \in Exec : Review(e)
  \/ \E e \in Exec : GivesUp(e)
  \/ Annotate
  \/ \E n \in Attempt : Recover(n)
  \/ GoesStale
  \/ LeaseLapses
  \/ WorkerRunEnds

Spec == Init /\ [][Next]_vars

-----------------------------------------------------------------------------
\* Every variable holds a value of its type; a target needs no finalization
\* exactly when it was not applied.
TypeOK ==
  /\ status \in {"NONE", "PENDING", "SENDING", "VERIFYING", "LOCAL_PENDING",
                 "COMPLETED", "PARTIALLY_COMPLETED", "NOT_APPLIED",
                 "REJECTED", "REVIEW_REQUIRED"}
  /\ active \in 0..MaxAttempt
  /\ heartbeat \in {"none", "live", "lapsed"}
  /\ stale \in BOOLEAN
  /\ held \in BOOLEAN
  /\ ext \in [Target -> External]
  /\ loc \in [Target -> Local]
  /\ \A t \in Target : ext[t] = "NOT_APPLIED" <=> loc[t] = "NOT_REQUIRED"
  /\ last \in 0..MaxAttempt
  /\ kind \in [Attempt -> Kind]
  /\ state \in [Attempt -> Ended \cup {"NONE", "SENDING"}]
  /\ sent \in [Attempt -> BOOLEAN]
  /\ pc \in [Exec -> Phase]
  /\ own \in [Exec -> 0..MaxAttempt]
  /\ ids \in [Exec -> SUBSET Target]
  /\ calls \in Nat
  /\ cut \in BOOLEAN
  /\ unseen \in SUBSET Target
  /\ finalized \in [Target -> Nat]

\* At most one attempt of the request is open, and it is the one the status
\* speaks of: the write's before the result, the active one afterwards.
OneOpenAttempt ==
  /\ \A m, n \in OpenAttempts : m = n
  /\ status \in Recoverable <=> active = 0 /\ OpenAttempts # {}
  /\ active # 0 => active \in OpenAttempts

\* However its executors crash, retry and overtake each other, a submission
\* reaches the channel at most once.
CalledOnce == calls <= 1

\* A target the write may have reached is taken for not applied only on the
\* channel's answer, on a read or on a person's word.  The one exception is
\* an answer that breaks off (RepeatsOnlyWhatWasSeen).
NotAppliedWasSeen ==
  \A t \in Target : ext[t] = "NOT_APPLIED" /\ t \in unseen => cut

\* "After an ambiguous timeout, disconnection, or 5xx response, inspect the
\* target with GET before repeating the write": a request that can be
\* repeated has no target of which nobody saw the result.
RepeatsOnlyWhatWasSeen == status \in {"REJECTED", "NOT_APPLIED"} => unseen = {}

\* A request never comes to rest where nothing can move it on: a review finds
\* a target to decide, a finalization one to finalize, a retry finds all
\* targets as it needs them, and a completed request has none left.
NothingStranded ==
  /\ status = "REVIEW_REQUIRED" => Rechecked # {}
  /\ status = "LOCAL_PENDING" => SuccessfulPending(ext, loc) # {}
  /\ status \in {"REJECTED", "NOT_APPLIED"} =>
       \A t \in Target : ext[t] = "NOT_APPLIED"
  /\ status \in {"COMPLETED", "PARTIALLY_COMPLETED"} =>
       \A t \in Target : ext[t] # "NOT_APPLIED" => loc[t] = "SUCCEEDED"

\* No target is finalized twice, by whichever of the executors that were
\* superseded, resumed or retried, and over all submissions of the request.
FinalizedOnce == \A t \in Target : finalized[t] <= 1

\* An attempt that ended keeps its result: nobody who lost the request writes
\* into its history.
EndedAttemptIsFinal ==
  [][\A n \in Attempt : state[n] \in Ended => state'[n] = state[n]]_vars

(***************************************************************************)
(* Liveness: time passes, worker runs end and the manager calls the        *)
(* recovery again and again.  Executors and persons owe nothing.           *)
(***************************************************************************)
Fairness ==
  /\ WF_vars(GoesStale)
  /\ WF_vars(WorkerRunEnds)
  /\ WF_vars(\E n \in Attempt : Recover(n))

\* A write whose executor is gone does not stay in a phase of the write.
InterruptedIsRecovered ==
  Fairness =>
    (status \in {"PENDING", "SENDING", "VERIFYING"}
       /\ \A e \in Exec : pc[e] = "idle")
      ~> status \notin {"PENDING", "SENDING", "VERIFYING"}
=============================================================================
