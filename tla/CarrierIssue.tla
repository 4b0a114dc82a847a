----------------------------- MODULE CarrierIssue -----------------------------
(***************************************************************************)
(* Tracking numbers for one package group: a request prepares an issue     *)
(* batch, marks it dispatched, asks the carrier for a number and stores    *)
(* the answer, each in a transaction of its own                            *)
(* (shipment/carrier-integration/carrier-invoice-issue-service.ts), and a  *)
(* worker recovers the batches whose request was interrupted               *)
(* (carrier-invoice-issue-recovery-service.ts).                            *)
(*                                                                         *)
(* A batch is known by its request key, and a key asks for one number, so  *)
(* the shipment that a batch creates has the name of its key.  Issues of   *)
(* several groups in one batch are alike for each of them, but for the     *)
(* batch's status, which is then REVIEW_REQUIRED if they differ.           *)
(***************************************************************************)
EXTENDS Integers, FiniteSets, FiniteSetsExt

CONSTANTS
  Key,         \* request keys: the first issue's, one for each replacement
  Initial,     \* the key of the first issue
  Exec,        \* requests under way
  Answers,     \* what the carrier's answers amount to
  MaxRetries,  \* bound on the issues that are tried again
  MaxFaults    \* bound on deaths and failed commits

ASSUME IssueAssumption ==
  /\ Initial \in Key
  /\ Answers \subseteq {"number", "surplus", "short", "refused", "uncertain",
                       "error"}

None == "NONE"

VARIABLES
  batch,       \* batch_status of each key
  attempt,     \* attempt_count
  dispatched,  \* allocation_request_dispatched
  outdated,    \* started_at lies 15 minutes back
  invoice,     \* invoice_status of the shipment of each key
  revision,    \* its revision_no
  current,     \* current_carrier_shipment_id of the group
  group,       \* group_status
  reqPc,       \* where each request stands
  plan,        \* what it has prepared
  answer,      \* what its call gave it
  faults,      \* deaths and failed commits so far
  allotted,    \* history: the numbers the carrier gave for each key
  misread      \* history: keys for which a number was taken for a failure

batches == <<batch, attempt, dispatched, outdated>>
shipments == <<invoice, revision>>
carrier == <<allotted, misread>>
requests == <<reqPc, plan, answer, faults>>
issueVars ==
  <<batches, shipments, current, group, requests, carrier>>

NoPlan == [key |-> Initial, attempt |-> 0, expected |-> None, revision |-> 0]

IssueInit ==
  /\ batch = [k \in Key |-> None]
  /\ attempt = [k \in Key |-> 0]
  /\ dispatched = [k \in Key |-> FALSE]
  /\ outdated = [k \in Key |-> FALSE]
  /\ invoice = [k \in Key |-> None]
  /\ revision = [k \in Key |-> 0]
  /\ current = None
  /\ group = "FROZEN"
  /\ reqPc = [e \in Exec |-> "idle"]
  /\ plan = [e \in Exec |-> NoPlan]
  /\ answer = [e \in Exec |-> None]
  /\ faults = 0
  /\ allotted = [k \in Key |-> 0]
  /\ misread = {}

Faulty == faults < MaxFaults /\ faults' = faults + 1

\* A request goes on with the work of key k; it forgets what it prepared.
Turns(e, to, k) ==
  /\ reqPc' = [reqPc EXCEPT ![e] = to]
  /\ plan' = [plan EXCEPT ![e] = [NoPlan EXCEPT !.key = k]]
  /\ answer' = [answer EXCEPT ![e] = None]

GoesOn(e, to, k) == Turns(e, to, k) /\ UNCHANGED faults

Stops(e) == GoesOn(e, "idle", Initial)
Breaks(e) == Turns(e, "idle", Initial) /\ Faulty

Moves(e, to) ==
  reqPc' = [reqPc EXCEPT ![e] = to] /\ UNCHANGED <<plan, answer, faults>>

Existing == {k \in Key : invoice[k] # None}

-----------------------------------------------------------------------------
(***************************************************************************)
(* prepareIssue                                                            *)
(***************************************************************************)
\* A batch that has not failed is not allocated again.
Replayed(k) == batch[k] \notin {None, "FAILED"}

\* A replacement's issue leaves the current invoice alone
\* (deferCurrentSwitch), and may be made for a group that is held.
Issuable(k) ==
  IF k = Initial
    THEN group = "FROZEN" /\ current = None
    ELSE /\ group \in {"FROZEN", "ON_HOLD"}
         /\ current # None
         /\ invoice[current] \in {"ALLOCATED", "REGISTERED"}

Retries ==
  LET tried == {k \in Key : attempt[k] > 0}
  IN  MapThenSumSet(LAMBDA k : attempt[k] - 1, tried)

Replay(e, k) ==
  /\ Replayed(k)
  /\ GoesOn(e, "issued", k)
  /\ UNCHANGED <<batches, shipments, current, group, carrier>>

Prepare(e, k) ==
  /\ ~Replayed(k)
  /\ Issuable(k)
  /\ attempt[k] > 0 => Retries < MaxRetries
  /\ batch' = [batch EXCEPT ![k] = "ALLOCATING"]
  /\ attempt' = [attempt EXCEPT ![k] = @ + 1]
  /\ dispatched' = [dispatched EXCEPT ![k] = FALSE]
  /\ outdated' = [outdated EXCEPT ![k] = FALSE]
  /\ reqPc' = [reqPc EXCEPT ![e] = "prepared"]
  /\ plan' = [plan EXCEPT ![e] =
       [key |-> k, attempt |-> attempt[k] + 1, expected |-> current,
        revision |-> Max({revision[s] : s \in Existing} \cup {0}) + 1]]
  /\ UNCHANGED <<shipments, current, group, answer, faults, carrier>>

-----------------------------------------------------------------------------
(***************************************************************************)
(* executeIssue, from the dispatch to the stored answer                    *)
(***************************************************************************)
\* The batch is still the one that the request has prepared.
Attempting(e) ==
  LET k == plan[e].key
  IN  batch[k] = "ALLOCATING" /\ attempt[k] = plan[e].attempt

MarkDispatched(e) ==
  /\ reqPc[e] = "prepared"
  /\ IF Attempting(e)
       THEN /\ dispatched' = [dispatched EXCEPT ![plan[e].key] = TRUE]
            /\ Moves(e, "calling")
       ELSE GoesOn(e, "issued", plan[e].key) /\ UNCHANGED dispatched
  /\ UNCHANGED <<batch, attempt, outdated, shipments, current, group,
                 carrier>>

\* The commit of the dispatch fails, or is not acknowledged.
DispatchFails(e) ==
  /\ reqPc[e] = "prepared"
  /\ Faulty
  /\ \/ UNCHANGED dispatched
     \/ Attempting(e) /\ dispatched' =
          [dispatched EXCEPT ![plan[e].key] = TRUE]
  /\ reqPc' = [reqPc EXCEPT ![e] = "answered"]
  /\ answer' = [answer EXCEPT ![e] = "unsent"]
  /\ UNCHANGED <<batch, attempt, outdated, shipments, current, group, plan,
                 carrier>>

\* External: what the carrier does with a request for a number, and what
\* allocateLogenTrackingNumbers makes of its answer.
Call(e) ==
  LET k == plan[e].key
  IN  /\ reqPc[e] = "calling"
      /\ \E a \in Answers, given \in 0..1 :
           /\ a \in {"number", "surplus"} => given = 1
           /\ a = "refused" => given = 0
           /\ answer' = [answer EXCEPT ![e] = a]
           /\ allotted' = [allotted EXCEPT ![k] = @ + given]
           /\ misread' = IF a = "error" /\ given = 1
                           THEN misread \cup {k} ELSE misread
      /\ reqPc' = [reqPc EXCEPT ![e] = "answered"]
      /\ UNCHANGED <<batches, shipments, current, group, plan, faults>>

\* finalizeAllocation and finalizeCallFailure own the batch.
MayStore(e) ==
  /\ Attempting(e)
  /\ dispatched[plan[e].key] = (answer[e] # "unsent")

\* The group has its shipment, and no other has the revision.
Unchanged(e) == current = plan[e].expected
RevisionFree(e) == \A s \in Existing : revision[s] # plan[e].revision

Persists(e) ==
  /\ answer[e] \in {"number", "surplus"}
  /\ Unchanged(e)
  /\ RevisionFree(e)

\* The shipment is stored; the first issue makes it the current one.
Allocates(e) ==
  LET k == plan[e].key
  IN  /\ invoice' = [invoice EXCEPT ![k] = "ALLOCATED"]
      /\ revision' = [revision EXCEPT ![k] = plan[e].revision]
      /\ current' = IF k = Initial THEN k ELSE current

\* Mutant of Verdict: an answer that is not known counts as a failure.
VerdictPresumed(e) ==
  IF answer[e] = "number" /\ Persists(e) THEN "ALLOCATED" ELSE "FAILED"

Verdict(e) ==
  CASE answer[e] = "number" /\ Persists(e) -> "ALLOCATED"
    [] answer[e] \in {"refused", "error", "unsent"} -> "FAILED"
    [] OTHER -> "REVIEW_REQUIRED"

Store(e) ==
  LET k == plan[e].key
  IN  /\ reqPc[e] = "answered"
      /\ IF MayStore(e)
           THEN /\ batch' = [batch EXCEPT ![k] = Verdict(e)]
                /\ outdated' = [outdated EXCEPT ![k] = FALSE]
                /\ IF Persists(e)
                     THEN Allocates(e)
                     ELSE UNCHANGED <<shipments, current>>
           ELSE UNCHANGED <<batch, outdated, shipments, current>>
      /\ GoesOn(e, "issued", k)
      /\ UNCHANGED <<attempt, dispatched, group, carrier>>

\* The transaction that stores an answer fails: what is left is to store
\* that the outcome is uncertain.
StoreFails(e) ==
  /\ reqPc[e] = "answered"
  /\ Faulty
  /\ answer[e] \in {"number", "surplus", "short", "refused"}
  /\ answer' = [answer EXCEPT ![e] = "uncertain"]
  /\ UNCHANGED <<batches, shipments, current, group, reqPc, plan, carrier>>

-----------------------------------------------------------------------------
BatchAges(k) ==
  /\ batch[k] = "ALLOCATING"
  /\ ~outdated[k]
  /\ outdated' = [outdated EXCEPT ![k] = TRUE]
  /\ UNCHANGED <<batch, attempt, dispatched, shipments, current, group,
                 requests, carrier>>

\* recoveryState
Recovered(k) == IF dispatched[k] THEN "REVIEW_REQUIRED" ELSE "FAILED"

\* recoverInterruptedCarrierInvoiceIssues
Recover(k) ==
  /\ batch[k] = "ALLOCATING"
  /\ outdated[k]
  /\ batch' = [batch EXCEPT ![k] = Recovered(k)]
  /\ outdated' = [outdated EXCEPT ![k] = FALSE]
  /\ UNCHANGED <<attempt, dispatched, shipments, current, group, requests,
                 carrier>>

\* What a request does between prepareIssue and its batch's result.
Issue(e) ==
  \/ MarkDispatched(e)
  \/ DispatchFails(e)
  \/ Call(e)
  \/ Store(e)
  \/ StoreFails(e)

Asks(e, k) ==
  /\ reqPc[e] = "idle"
  /\ Prepare(e, k) \/ Replay(e, k)

Returns(e) ==
  /\ reqPc[e] = "issued"
  /\ Stops(e)
  /\ UNCHANGED <<batches, shipments, current, group, carrier>>

\* The request's process dies.
IssueDies(e) ==
  /\ reqPc[e] # "idle"
  /\ Breaks(e)
  /\ UNCHANGED <<batches, shipments, current, group, carrier>>

-----------------------------------------------------------------------------
(***************************************************************************)
(* What the issues count on in the rest of the system: InvoiceReplacement  *)
(* is shown to do nothing else to group and invoices.                      *)
(***************************************************************************)
\* The channel confirms the first invoice; a group is held, and released.
Regroup ==
  /\ \E g \in {"READY", "ON_HOLD"} \ {group} :
       (g = "ON_HOLD" => group = "READY") /\ group' = g
  /\ current # None
  /\ UNCHANGED <<batches, shipments, current, requests, carrier>>

\* The carrier's registration of the current invoice is stored.
Registered ==
  /\ current # None
  /\ invoice[current] \in {"ALLOCATED", "REGISTERED"}
  /\ invoice' = [invoice EXCEPT ![current] = "REGISTERED"]
  /\ UNCHANGED <<batches, revision, current, group, requests, carrier>>

\* A candidate becomes the current invoice of a group that is held.
Switched(k) ==
  /\ group = "ON_HOLD"
  /\ batch[k] = "ALLOCATED"
  /\ invoice[k] = "ALLOCATED"
  /\ current # None
  /\ revision[k] > revision[current]
  /\ current' = k
  /\ invoice' = [invoice EXCEPT ![current] = "REPLACED"]
  /\ UNCHANGED <<batches, revision, group, requests, carrier>>

\* Something fails that has nothing to do with an issue.
Elsewhere ==
  /\ Faulty
  /\ UNCHANGED <<batches, shipments, current, group, reqPc, plan, answer,
                 carrier>>

Rest == Regroup \/ Registered \/ (\E k \in Key : Switched(k)) \/ Elsewhere

IssueNext ==
  \/ \E e \in Exec :
       Issue(e) \/ Returns(e) \/ IssueDies(e) \/ \E k \in Key : Asks(e, k)
  \/ \E k \in Key : BatchAges(k) \/ Recover(k)
  \/ Rest

IssueSpec == IssueInit /\ [][IssueNext]_issueVars

-----------------------------------------------------------------------------
(***************************************************************************)
(* Properties                                                              *)
(***************************************************************************)
\* A batch that may be tried again has no number at the carrier, and a key
\* never has two, unless a broken answer was taken for a failure; however
\* late requests and the recovery come.
RetryIsSafe ==
  \A k \in Key \ misread :
    /\ allotted[k] <= 1
    /\ batch[k] \in {None, "FAILED"} => allotted[k] = 0

\* A shipment exists if its batch is allocated, and only if that or to be
\* reviewed; a number was given for it, and its revision is its own.
StoredAsGiven ==
  /\ \A k \in Key :
       /\ batch[k] = "ALLOCATED" => invoice[k] # None
       /\ invoice[k] # None =>
            batch[k] \in {"ALLOCATED", "REVIEW_REQUIRED"} /\ allotted[k] > 0
  /\ \A k, s \in Existing : k # s => revision[k] # revision[s]
=============================================================================
