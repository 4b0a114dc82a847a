-------------------------- MODULE InvoiceReplacement --------------------------
(***************************************************************************)
(* Replacing the invoice of a package group that is ready to leave: the    *)
(* group is held, a candidate number is allocated by CarrierIssue, the     *)
(* sales channel is told, the candidate becomes current and is registered  *)
(* with the carrier, its label is printed, and the hold is released        *)
(* (shipment/carrier-integration/coupang-invoice-replacement-service.ts,   *)
(* carrier-invoice-replacement-execution-ownership.ts and                  *)
(* -projection-service.ts, logen/shipment-registration-service.ts).        *)
(*                                                                         *)
(* A replacement work is known by its request key, which is the key of its *)
(* issue batch and the name of its candidate shipment.  A workflow_version *)
(* changes with the execution token's holder only, so the token stands for *)
(* both.  Of the channel write (SalesChannelWrite) only what the work sees *)
(* is kept.  A transaction is one action; a request that dies, or throws   *)
(* before it owns a work, is Dies.                                         *)
(***************************************************************************)
EXTENDS CarrierIssue

ASSUME ReplacementAssumption == None \notin Key /\ None \notin Exec

VARIABLES
  work,        \* work_status, None before the work is created
  stage,       \* current_stage
  old,         \* old_carrier_shipment_id
  token,       \* whose execution_token the work has
  stale,       \* execution_started_at lies 15 minutes back
  candidate,   \* candidate_carrier_shipment_id is set
  updated,     \* channel_updated_at is set
  write,       \* the request that tells the channel of the candidate
  caller,      \* who carries that write out
  register,    \* work_status of each shipment's registration work
  printed,     \* the shipments whose label is confirmed
  told,        \* history: the numbers the channel has been told of
  confirmed    \* history: works whose old invoice a person has handled

works == <<work, stage, old, token, stale, candidate, updated>>
writes == <<write, caller, told>>
registration == <<register, printed>>
replaceVars == <<works, writes, registration, confirmed>>
vars == <<issueVars, replaceVars>>

Work == Key \ {Initial}

\* The stages up to the channel's are passed in this order; whoever is
\* before ALLOCATION waits for the old invoice to be handled.
Open(k) == work[k] \notin {None, "COMPLETED", "CANCELED"}

Init ==
  /\ IssueInit
  /\ work = [k \in Work |-> None]
  /\ stage = [k \in Work |-> None]
  /\ old = [k \in Work |-> None]
  /\ token = [k \in Work |-> None]
  /\ stale = [k \in Work |-> FALSE]
  /\ candidate = [k \in Work |-> FALSE]
  /\ updated = [k \in Work |-> FALSE]
  /\ write = [k \in Work |-> None]
  /\ caller = [k \in Work |-> None]
  /\ register = [k \in Key |-> None]
  /\ printed = {}
  /\ told = {}
  /\ confirmed = {}

-----------------------------------------------------------------------------
(***************************************************************************)
(* The execution token                                                     *)
(***************************************************************************)
\* claimReplacementExecution with allowStaleTakeover FALSE
Free(k) == token[k] = None

Claims(e, k, to) ==
  /\ token' = [token EXCEPT ![k] = e]
  /\ stale' = [stale EXCEPT ![k] = FALSE]
  /\ GoesOn(e, to, k)

Owns(e) == token[plan[e].key] = e

\* releaseReplacementExecution
Releases(k) ==
  /\ token' = [token EXCEPT ![k] = None]
  /\ stale' = [stale EXCEPT ![k] = FALSE]

TokenAges(k) ==
  /\ token[k] # None
  /\ ~stale[k]
  /\ stale' = [stale EXCEPT ![k] = TRUE]
  /\ UNCHANGED <<issueVars, work, stage, old, token, candidate, updated,
                 writes, registration, confirmed>>

-----------------------------------------------------------------------------
(***************************************************************************)
(* What persons ask for                                                    *)
(***************************************************************************)
\* issueCarrierInvoicesForShipmentBatch, and the retry of a failed batch
IssueFirst(e) ==
  /\ reqPc[e] = "idle"
  /\ Prepare(e, Initial) \/ Replay(e, Initial)
  /\ UNCHANGED replaceVars

IssuedFirst(e) ==
  /\ reqPc[e] = "issued"
  /\ plan[e].key = Initial
  /\ Stops(e)
  /\ UNCHANGED <<batches, shipments, current, group, carrier, replaceVars>>

\* The channel has confirmed the first invoice (CoupangInvoiceFinalizer):
\* the group is ready, and the invoice is to be registered.
Ready ==
  /\ group = "FROZEN"
  /\ current # None
  /\ group' = "READY"
  /\ register' = [register EXCEPT ![current] = "PENDING"]
  /\ UNCHANGED <<batches, shipments, current, requests, carrier, works,
                 writes, printed, confirmed>>

\* Mutant of MayHold: an open work is looked for, the group is not.
MayHoldAgain == group \in {"READY", "ON_HOLD"}

MayHold == group = "READY"

\* createReplacementHold: an invoice that is registered has to be handled by
\* a person first, otherwise the request goes on with the work.
Start(e, k) ==
  /\ reqPc[e] = "idle"
  /\ work[k] = None
  /\ MayHold
  /\ group' = "ON_HOLD"
  /\ old' = [old EXCEPT ![k] = current]
  /\ IF invoice[current] = "REGISTERED" \/ register[current] = "REGISTERED"
       THEN /\ work' = [work EXCEPT ![k] = "WAITING_MANUAL"]
            /\ stage' = [stage EXCEPT ![k] = "OLD_INVOICE_HANDLING"]
            /\ UNCHANGED <<token, stale, requests>>
       ELSE /\ work' = [work EXCEPT ![k] = "PROCESSING"]
            /\ stage' = [stage EXCEPT ![k] = "ALLOCATION"]
            /\ Claims(e, k, "continuing")
  /\ UNCHANGED <<batches, shipments, current, carrier, candidate, updated,
                 writes, registration, confirmed>>

\* confirmCarrierInvoiceOldHandling claims the work, and then confirms.
ClaimConfirm(e, k) ==
  /\ reqPc[e] = "idle"
  /\ work[k] = "WAITING_MANUAL"
  /\ Free(k)
  /\ Claims(e, k, "confirming")
  /\ UNCHANGED <<batches, shipments, current, group, carrier, work, stage,
                 old, candidate, updated, writes, registration, confirmed>>

Confirm(e) ==
  LET k == plan[e].key
  IN  /\ reqPc[e] = "confirming"
      /\ Owns(e)
      /\ work' = [work EXCEPT ![k] = "PROCESSING"]
      /\ stage' = [stage EXCEPT ![k] = "ALLOCATION"]
      /\ confirmed' = confirmed \cup {k}
      /\ Moves(e, "continuing")
      /\ UNCHANGED <<batches, shipments, current, group, carrier, old, token,
                     stale, candidate, updated, writes, registration>>

ConfirmFails(e) ==
  /\ reqPc[e] = "confirming"
  /\ Owns(e)
  /\ Releases(plan[e].key)
  /\ Breaks(e)
  /\ UNCHANGED <<batches, shipments, current, group, carrier, work, stage,
                 old, candidate, updated, writes, registration, confirmed>>

\* resumeCarrierInvoiceReplacement claims the work, and then restarts it.
Resume(e, k) ==
  /\ reqPc[e] = "idle"
  /\ work[k] \in {"PROCESSING", "REVIEW_REQUIRED"}
  /\ stage[k] \in {"ALLOCATION", "CHANNEL_UPDATE"}
  /\ token[k] = None \/ stale[k]
  /\ Claims(e, k, "resuming")
  /\ UNCHANGED <<batches, shipments, current, group, carrier, work, stage,
                 old, candidate, updated, writes, registration, confirmed>>

Resumed(e) ==
  /\ reqPc[e] = "resuming"
  /\ Owns(e)
  /\ work' = [work EXCEPT ![plan[e].key] = "PROCESSING"]
  /\ Moves(e, "continuing")
  /\ UNCHANGED <<batches, shipments, current, group, carrier, stage, old,
                 token, stale, candidate, updated, writes, registration,
                 confirmed>>

\* Mutant of MayCancel: only a channel that has confirmed is in the way.
MayCancelWritten(k) == ~updated[k]

MayCancel(k) ==
  /\ ~updated[k]
  /\ stage[k] \in {"OLD_INVOICE_HANDLING", "ALLOCATION"}

\* cancelCarrierInvoiceReplacement claims the work, and then cancels it.
\* Its branch for a work with a candidate is never taken: a candidate comes
\* with the stage CHANNEL_UPDATE.
ClaimCancel(e, k) ==
  /\ reqPc[e] = "idle"
  /\ Open(k)
  /\ MayCancel(k)
  /\ Free(k)
  /\ Claims(e, k, "canceling")
  /\ UNCHANGED <<batches, shipments, current, group, carrier, work, stage,
                 old, candidate, updated, writes, registration, confirmed>>

Cancel(e) ==
  LET k == plan[e].key
  IN  /\ reqPc[e] = "canceling"
      /\ Owns(e)
      /\ group = "ON_HOLD" /\ current = old[k]
      /\ work' = [work EXCEPT ![k] = "CANCELED"]
      /\ Releases(k)
      /\ group' = "READY"
      /\ Stops(e)
      /\ UNCHANGED <<batches, shipments, current, carrier, stage, old,
                     candidate, updated, writes, registration, confirmed>>

-----------------------------------------------------------------------------
(***************************************************************************)
(* continueReplacement                                                     *)
(***************************************************************************)
Continue(e) ==
  LET k == plan[e].key
  IN  /\ reqPc[e] = "continuing"
      /\ Owns(e)
      /\ IF candidate[k]
           THEN Moves(e, "submitting") /\ UNCHANGED stage
           ELSE /\ stage' = [stage EXCEPT ![k] = "ALLOCATION"]
                /\ Moves(e, "allocating")
      /\ UNCHANGED <<batches, shipments, current, group, carrier, work, old,
                     token, stale, candidate, updated, writes, registration,
                     confirmed>>

\* allocateCarrierInvoiceReplacementCandidate
Allocate(e) ==
  /\ reqPc[e] = "allocating"
  /\ Prepare(e, plan[e].key) \/ Replay(e, plan[e].key)
  /\ UNCHANGED replaceVars

\* Mutant of Candidate: a batch to be reviewed will do.
CandidateUnknown(k) == batch[k] # "FAILED"

Candidate(k) == batch[k] = "ALLOCATED"

Allocated(e) ==
  LET k == plan[e].key
  IN  /\ reqPc[e] = "issued"
      /\ k \in Work
      /\ Owns(e)
      /\ Candidate(k)
      /\ candidate' = [candidate EXCEPT ![k] = TRUE]
      /\ stage' = [stage EXCEPT ![k] = "CHANNEL_UPDATE"]
      /\ Moves(e, "submitting")
      /\ UNCHANGED <<batches, shipments, current, group, carrier, work, old,
                     token, stale, updated, writes, registration, confirmed>>

\* The work is given up for a person to look at: the number is not allocated,
\* the write not completed, or an error was thrown while the work was owned.
\* Whoever has lost the work changes nothing.
Review(e) ==
  LET k == plan[e].key
  IN  /\ \/ reqPc[e] \in {"continuing", "allocating", "submitting", "writing",
                       "settling", "canceling"}
         \/ reqPc[e] = "issued" /\ k \in Work
      /\ IF Owns(e)
           THEN /\ work' = [work EXCEPT ![k] = "REVIEW_REQUIRED"]
                /\ Releases(k)
           ELSE UNCHANGED <<work, token, stale>>
      /\ Stops(e)
      /\ UNCHANGED <<batches, shipments, current, group, carrier, stage, old,
                     candidate, updated, writes, registration, confirmed>>

\* submitReplacementToCoupang: the receiver is the one that was asked for.
Submit(e) ==
  LET k == plan[e].key
  IN  /\ reqPc[e] = "submitting"
      /\ Owns(e)
      /\ group = "ON_HOLD" /\ current = old[k]
      /\ stage' = [stage EXCEPT ![k] = "CHANNEL_UPDATE"]
      /\ Moves(e, "writing")
      /\ UNCHANGED <<batches, shipments, current, group, carrier, work, old,
                     token, stale, candidate, updated, writes, registration,
                     confirmed>>

-----------------------------------------------------------------------------
(***************************************************************************)
(* The write to the channel                                                *)
(***************************************************************************)
\* A request that cannot be repeated is left as it is.
Write(e) ==
  LET k == plan[e].key
  IN  /\ reqPc[e] = "writing"
      /\ IF write[k] \in {None, "RETRYABLE"}
           THEN /\ write' = [write EXCEPT ![k] = "SENDING"]
                /\ caller' = [caller EXCEPT ![k] = e]
                /\ Moves(e, "sending")
           ELSE Moves(e, "settling") /\ UNCHANGED <<write, caller>>
      /\ UNCHANGED <<batches, shipments, current, group, carrier, works, told,
                     registration, confirmed>>

\* External: the channel takes the number over or not, and says so or not.
Called(e) ==
  LET k == plan[e].key
  IN  /\ reqPc[e] = "sending"
      /\ \E taken \in BOOLEAN, known \in BOOLEAN :
           /\ told' = IF taken THEN told \cup {k} ELSE told
           /\ IF taken /\ known
                THEN Moves(e, "finalizing") /\ UNCHANGED <<write, caller>>
                ELSE /\ write' = [write EXCEPT ![k] =
                          IF known THEN "RETRYABLE" ELSE "REVIEW"]
                     /\ caller' = [caller EXCEPT ![k] = None]
                     /\ Moves(e, "settling")
      /\ UNCHANGED <<batches, shipments, current, group, carrier, works,
                     registration, confirmed>>

\* finalizePersistedCoupangInvoiceUpdate switches the current invoice, and
\* the write is complete with it.
Switchable(k) ==
  /\ group = "ON_HOLD" /\ current = old[k]
  /\ work[k] \in {"PROCESSING", "REVIEW_REQUIRED"}
  /\ stage[k] = "CHANNEL_UPDATE"

\* Mutant of Replaces: the old invoice keeps its status.
ReplacesNothing(k) == UNCHANGED invoice

Replaces(k) == invoice' = [invoice EXCEPT ![old[k]] = "REPLACED"]

Switches(k) ==
  /\ write' = [write EXCEPT ![k] = "COMPLETED"]
  /\ caller' = [caller EXCEPT ![k] = None]
  /\ work' = [work EXCEPT ![k] = "PROCESSING"]
  /\ stage' = [stage EXCEPT ![k] = "CARRIER_REGISTRATION"]
  /\ updated' = [updated EXCEPT ![k] = TRUE]
  /\ Releases(k)
  /\ Replaces(k)
  /\ current' = k
  /\ register' = [register EXCEPT ![k] = "PENDING"]

Finalize(e) ==
  LET k == plan[e].key
  IN  /\ reqPc[e] = "finalizing"
      /\ caller[k] = e
      /\ IF Owns(e) /\ Switchable(k)
           THEN Switches(k) /\ Stops(e)
           ELSE /\ write' = [write EXCEPT ![k] = "REVIEW"]
                /\ caller' = [caller EXCEPT ![k] = None]
                /\ Moves(e, "settling")
                /\ UNCHANGED <<work, stage, updated, token, stale, invoice,
                               current, register>>
      /\ UNCHANGED <<batches, revision, group, carrier, old, candidate, told,
                     printed, confirmed>>

\* The recovery has taken the write, or the finalization fails.
FinalizeFails(e) ==
  LET k == plan[e].key
  IN  /\ reqPc[e] = "finalizing"
      /\ IF caller[k] = e
           THEN /\ write' = [write EXCEPT ![k] = "REVIEW"]
                /\ caller' = [caller EXCEPT ![k] = None]
                /\ Faulty
           ELSE UNCHANGED <<write, caller, faults>>
      /\ reqPc' = [reqPc EXCEPT ![e] = "settling"]
      /\ UNCHANGED <<plan, answer>>
      /\ UNCHANGED <<batches, shipments, current, group, carrier, works, told,
                     registration, confirmed>>

\* recoverInterruptedSalesChannelWrites; a call ends before that.
RecoverWrite(k) ==
  /\ write[k] = "SENDING"
  /\ \A e \in Exec : caller[k] = e => reqPc[e] # "sending" \/ plan[e].key # k
  /\ write' = [write EXCEPT ![k] = "REVIEW"]
  /\ caller' = [caller EXCEPT ![k] = None]
  /\ UNCHANGED <<issueVars, works, told, registration, confirmed>>

\* transitionReplacement: nobody has the work.
MayReview(k) == token[k] = None

\* A person has the write checked: the channel has the number, and the local
\* finalization is done without a token, or it has not.
ReviewWrite(k) ==
  /\ write[k] = "REVIEW"
  /\ IF k \in told
       THEN MayReview(k) /\ Switchable(k) /\ Switches(k)
       ELSE /\ write' = [write EXCEPT ![k] = "RETRYABLE"]
            /\ UNCHANGED <<caller, work, stage, updated, token, stale,
                           invoice, current, register>>
  /\ UNCHANGED <<batches, revision, group, requests, carrier, old, candidate,
                 told, printed, confirmed>>

-----------------------------------------------------------------------------
(***************************************************************************)
(* Registration with the carrier, label and release                        *)
(***************************************************************************)
\* Mutant of Eligible: the current invoice may always be registered.
EligibleHeld(s) == current = s

\* Mutant of Eligible: whatever the group has come to.
EligibleAnyway(s) == s \in Key

\* registrationGroupIsEligible
Eligible(s) ==
  /\ current = s
  /\ \/ group = "READY"
     \/ group = "ON_HOLD" /\ s \in Work /\ Open(s) /\ candidate[s]

\* processRegistrationWork: the work is prepared and marked as submitted.
RegisterSubmit(s) ==
  /\ register[s] = "PENDING"
  /\ register' = [register EXCEPT ![s] =
       IF Eligible(s) /\ invoice[s] \in {"ALLOCATED", "REGISTERED"}
         THEN "SUBMITTING" ELSE "BLOCKED"]
  /\ UNCHANGED <<issueVars, works, writes, printed, confirmed>>

\* Its answer, at once or by a reconciliation later.  A number that the
\* carrier has registered is not stored if the group has changed meanwhile.
RegisterAnswered(s) ==
  /\ register[s] = "SUBMITTING"
  /\ \/ /\ Eligible(s)
        /\ invoice' = [invoice EXCEPT ![s] = "REGISTERED"]
        /\ register' = [register EXCEPT ![s] = "REGISTERED"]
     \/ /\ register' = [register EXCEPT ![s] = "BLOCKED"]
        /\ UNCHANGED invoice
  /\ UNCHANGED <<batches, revision, current, group, requests, carrier, works,
                 writes, printed, confirmed>>

\* A person has a blocked registration tried again.
RegisterAgain(s) ==
  /\ register[s] = "BLOCKED"
  /\ register' = [register EXCEPT ![s] = "PENDING"]
  /\ UNCHANGED <<issueVars, works, writes, printed, confirmed>>

PrintLabel(s) ==
  /\ register[s] = "REGISTERED"
  /\ s \notin printed
  /\ printed' = printed \cup {s}
  /\ UNCHANGED <<issueVars, works, writes, register, confirmed>>

Projected(k, status, st) ==
  /\ work' = [work EXCEPT ![k] = status]
  /\ stage' = [stage EXCEPT ![k] = st]

\* projectOnce, after a change of registration or label, and when a person
\* resumes a work at these stages.
Project(k) ==
  /\ Open(k)
  /\ updated[k]
  /\ token[k] = None
  /\ CASE register[k] = "REGISTERED" /\ k \in printed ->
            IF group = "ON_HOLD" /\ current = k
              THEN Projected(k, "COMPLETED", "FINALIZE") /\ group' = "READY"
              ELSE /\ Projected(k, "REVIEW_REQUIRED", "FINALIZE")
                   /\ UNCHANGED group
       [] register[k] = "BLOCKED" ->
            /\ stage[k] = "CARRIER_REGISTRATION"
            /\ Projected(k, "REVIEW_REQUIRED", "CARRIER_REGISTRATION")
            /\ UNCHANGED group
       [] register[k] = "REGISTERED" /\ k \notin printed ->
            /\ Projected(k, "WAITING_LABEL", "LABEL_PRINT")
            /\ UNCHANGED group
       [] OTHER -> FALSE
  /\ UNCHANGED <<batches, shipments, current, requests, carrier, old, token,
                 stale, candidate, updated, writes, registration, confirmed>>

-----------------------------------------------------------------------------
\* A request ends without another step: its process dies, or it throws.
Dies(e) ==
  /\ reqPc[e] # "idle"
  /\ Breaks(e)
  /\ UNCHANGED <<batches, shipments, current, group, carrier, replaceVars>>

Asked(e) ==
  \/ IssueFirst(e) \/ IssuedFirst(e)
  \/ \E k \in Work : Start(e, k) \/ ClaimConfirm(e, k) \/ Resume(e, k)
                       \/ ClaimCancel(e, k)
  \/ Confirm(e) \/ ConfirmFails(e) \/ Resumed(e) \/ Cancel(e)

Carried(e) ==
  \/ Continue(e) \/ Allocate(e) \/ Allocated(e) \/ Review(e) \/ Submit(e)
  \/ Write(e) \/ Called(e) \/ Finalize(e) \/ FinalizeFails(e)
  \/ Issue(e) /\ UNCHANGED replaceVars
  \/ Dies(e)

Background ==
  \/ Ready
  \/ \E k \in Work : TokenAges(k) \/ RecoverWrite(k) \/ ReviewWrite(k)
                       \/ Project(k)
  \/ \E s \in Key : RegisterSubmit(s) \/ RegisterAnswered(s)
                      \/ RegisterAgain(s) \/ PrintLabel(s)
  \/ \E k \in Key : (BatchAges(k) \/ Recover(k)) /\ UNCHANGED replaceVars

Next ==
  \/ \E e \in Exec : Asked(e) \/ Carried(e)
  \/ Background

Spec == Init /\ [][Next]_vars

-----------------------------------------------------------------------------
(***************************************************************************)
(* Properties                                                              *)
(***************************************************************************)
\* Every variable holds a value of its type; a token is for an open work,
\* and a work whose number was taken over by the channel write is not
\* before the carrier's registration.
ReplacementTypeOK ==
  /\ batch \in [Key -> {None, "ALLOCATING", "ALLOCATED", "FAILED",
                       "REVIEW_REQUIRED"}]
  /\ invoice \in [Key -> {None, "ALLOCATED", "REGISTERED", "REPLACED"}]
  /\ current \in Key \cup {None}
  /\ group \in {"FROZEN", "READY", "ON_HOLD"}
  /\ \A e \in Exec : plan[e].key \in Key
  /\ \A k \in Work :
       /\ work[k] \in {None, "WAITING_MANUAL", "PROCESSING", "WAITING_LABEL",
                       "REVIEW_REQUIRED", "COMPLETED", "CANCELED"}
       /\ token[k] \in Exec \cup {None}
       /\ token[k] # None => Open(k)
       /\ stale[k] => token[k] # None
       /\ updated[k] => candidate[k] /\ write[k] = "COMPLETED"
       /\ caller[k] # None <=> write[k] = "SENDING"

\* A group is held exactly while one replacement of it is open; until the
\* channel has confirmed the candidate the old invoice is the current one,
\* and from then on the candidate is.
HeldByOneWork ==
  LET open == {k \in Work : Open(k)}
  IN  /\ Cardinality(open) <= 1
      /\ group = "ON_HOLD" <=> open # {}
      /\ \A k \in open : current = IF updated[k] THEN k ELSE old[k]

\* A number that the channel has been told of is not given up: it is the
\* current one, was replaced after it had been, or its work is still open.
ToldIsKept ==
  \A k \in told : Open(k) \/ updated[k]

\* An invoice that our side knows to be registered with the carrier makes
\* room for another one only after a person has handled it.
OldIsHandled ==
  \A k \in Work \ confirmed :
    Open(k) /\ ~updated[k] /\ invoice[old[k]] = "REGISTERED"
      => stage[k] = "OLD_INVOICE_HANDLING"

\* The current invoice changes only to a later revision; the one before is
\* replaced then, and one that was replaced stays so.
CurrentMovesForward ==
  [][/\ current' # current /\ current # None =>
          /\ revision'[current'] > revision[current]
          /\ invoice'[current] = "REPLACED"
     /\ \A s \in Key : invoice[s] = "REPLACED" => invoice'[s] = "REPLACED"
    ]_vars

\* Of the invoices that were stored and not replaced, one is the current
\* one; any other is that of an open work, or of one that was canceled after
\* its number had been allocated.
NumbersAccountedFor ==
  \A s \in Existing \ {current} :
    \/ invoice[s] = "REPLACED"
    \/ s \in Work /\ (Open(s) \/ work[s] = "CANCELED")

\* What the next action RESUME_INTERRUPTED says of a run that is stale: it
\* can be resumed from the current stage.
InterruptedCanBeResumed ==
  \A k \in Work : stale[k] => stage[k] \in {"ALLOCATION", "CHANNEL_UPDATE"}

\* What the replacement does to the group and its invoices is what the
\* issues count on, and every request that issues a number does it as
\* CarrierIssue says: a request that is elsewhere in its work is idle there.
Issuing(e) == reqPc[e] \in {"prepared", "calling", "answered", "issued"}

Issues == INSTANCE CarrierIssue WITH
  reqPc <- [e \in Exec |-> IF Issuing(e) THEN reqPc[e] ELSE "idle"],
  plan <- [e \in Exec |-> IF Issuing(e) THEN plan[e] ELSE NoPlan]

IssuesAsSpecified == Issues!IssueSpec
=============================================================================
