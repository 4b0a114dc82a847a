-------------------------- MODULE DeliveryTracking --------------------------
(***************************************************************************)
(* From the carrier's tracking to the devices: the tracking worker polls   *)
(* the carrier and books its answer as evidence with a projection job      *)
(* (shipment/carrier-integration/logen/tracking-sync-service.ts,           *)
(* integration/projection-service.ts), the job moves shipment, device and  *)
(* package group (shipment/delivery-status-projection-service.ts), and the *)
(* channel's order status moves device and group as well.                  *)
(*                                                                         *)
(* A package group has one device here; every device of a group is treated *)
(* alike, each with its own operation keys.  The n-th event of a shipment  *)
(* stands for its scan date, time and status, of which the evidence key is *)
(* made.  A status that cannot be classified and an item the answer lacks  *)
(* leave shipment and device alone, as an answer without an event does.  A *)
(* transaction holds the locks of its group and job, and is one action.    *)
(***************************************************************************)
EXTENDS Integers, Sequences, FiniteSets

CONSTANTS
  Group,      \* package groups
  Invoice,    \* carrier shipments
  First,      \* the invoice issued for each group
  Spare,      \* the invoices that may replace each group's first
  Tracker,    \* executions of the tracking worker
  MaxEvents,  \* bound on the events of all invoices
  MaxJobs,    \* bound on the evidences
  MaxFaults   \* bound on crashes, failures and takeovers

None == "NONE"

\* The invoices of a group.
InvoicesOf(g) == {First[g]} \cup Spare[g]

\* Every invoice is of one group, and the first of a group is no spare one.
ASSUME TrackingAssumption ==
  /\ IsFiniteSet(Invoice)
  /\ First \in [Group -> Invoice]
  /\ Spare \in [Group -> SUBSET Invoice]
  /\ \A s \in Invoice : \E g \in Group : s \in InvoicesOf(g)
  /\ \A g \in Group : First[g] \notin Spare[g]
  /\ \A g, h \in Group : g # h => InvoicesOf(g) \cap InvoicesOf(h) = {}
  /\ None \notin Tracker
  /\ MaxEvents \in Nat
  /\ MaxFaults \in Nat

VARIABLES
  events,    \* the carrier's statuses of each invoice, in their order
  shipment,  \* carrier_shipments.shipment_status
  group,     \* group_status
  current,   \* current_carrier_shipment_id
  member,    \* whether the device is still a member (removed_at is NULL)
  device,    \* inventory_status; "RETURN" when its return is approved
  booked,    \* from which status the key of an evidence moved the device
  jobs,      \* integration_projection_jobs with their evidence
  ousted,    \* the executions under way that have lost the worker's lease
  trackPc,   \* where each execution stands
  work,      \* its poll's invoices, with the events the carrier has told of;
             \*   or the claimed job, and whether it was drained
  faults,    \* crashes, failures and takeovers so far
  newest,    \* history: the newest event projected of each invoice
  reordered  \* history: the invoices with an event projected after a newer

carrier == <<shipment, booked, newest, reordered>>
packages == <<group, current, member, device>>
execution == <<ousted, trackPc, work>>
trackVars == <<events, carrier, packages, jobs, execution, faults>>

Moving == {"IN_TRANSIT", "EXCEPTION", "DELIVERED"}
NoWork == [job |-> 0, drained |-> FALSE, items |-> [s \in {} |-> 0]]

TrackingInit ==
  /\ events = [s \in Invoice |-> <<>>]
  /\ shipment = [s \in Invoice |-> "ALLOCATED"]
  /\ group = [g \in Group |-> "FROZEN"]
  /\ current = First
  /\ member = [g \in Group |-> TRUE]
  /\ device = [g \in Group |-> "PACKED"]
  /\ booked = [s \in Invoice |-> [n \in 1..MaxEvents |-> None]]
  /\ jobs = <<>>
  /\ ousted = {}
  /\ trackPc = [e \in Tracker |-> "idle"]
  /\ work = [e \in Tracker |-> NoWork]
  /\ faults = 0
  /\ newest = [s \in Invoice |-> 0]
  /\ reordered = {}

GroupOf(s) == CHOOSE g \in Group : s \in InvoicesOf(g)

Goes(e, to, w) ==
  /\ trackPc' = [trackPc EXCEPT ![e] = to]
  /\ work' = [work EXCEPT ![e] = w]

EndsRun(e) == Goes(e, "idle", NoWork) /\ ousted' = ousted \ {e}

\* A fault is only allowed while there are faults left.
Faulty == faults < MaxFaults /\ faults' = faults + 1

-----------------------------------------------------------------------------
(***************************************************************************)
(* What the projection of one observation does.                            *)
(***************************************************************************)
\* OBSERVED_SHIPMENT_ALLOWED_FROM for the statuses of a moving parcel; no
\* event observes REGISTERED, which changes nothing any more.
AllowedFrom(status) ==
  {"ALLOCATED", "REGISTERED", "IN_TRANSIT", "EXCEPTION"}
    \cup ({"DELIVERED"} \cap {status})

\* applyObservedCarrierShipmentStatus: STALE_IGNORED
Stale(s, status) == shipment[s] \notin AllowedFrom(status)

\* projectedInventoryStatus
TargetStatus(status) ==
  CASE status = "IN_TRANSIT" -> "DELIVERING"
    [] status = "DELIVERED" -> "FINAL"
    [] status = "EXCEPTION" -> "NONE_TRACKING"

\* Mutant of CurrentGroup: the invoice of the evidence is not compared.
AnyGroup(g, s) == member[g]

\* loadCurrentPackageGroup finds the invoice and a member.
CurrentGroup(g, s) == member[g] /\ current[g] = s

\* confirmPackageGroupDeparture for the device of a group.
MayDepart(g) == group[g] = "READY"

\* The statuses a device keeps whatever is observed, or because it has the
\* target already.
Keeps(g, target) == device[g] \in {"FINAL", "RETURN", target}

\* The status from which the observation moves the device, a departure that
\* was not confirmed yet having been confirmed by the projection itself.
Departed(g) == IF device[g] = "PACKED" THEN "DEPARTURE" ELSE device[g]

MayComplete(g) == group[g] \in {"READY", "ON_HOLD"}

\* A key that was used moves nothing, and refuses another movement.
KeyRefuses(s, n, g) ==
  booked[s][n] \notin {None, Departed(g)}

\* The observation of event n of invoice s is refused, with everything else
\* in its transaction.
Refused(s, n) ==
  LET g == GroupOf(s)
      status == events[s][n]
  IN  /\ n > 0
      /\ ~Stale(s, status)
      /\ \/ ~CurrentGroup(g, s)
         \/ device[g] = "PACKED" /\ ~MayDepart(g)
         \/ ~Keeps(g, TargetStatus(status)) /\ KeyRefuses(s, n, g)

\* The observations of an evidence that reach their package group.
Projected(items) ==
  {s \in DOMAIN items : items[s] > 0 /\ ~Stale(s, events[s][items[s]])}

StatusSeen(items, s) == events[s][items[s]]

\* The moves of the devices, each from its status under its evidence key.
Movements(items) ==
  {s \in Projected(items) :
     /\ ~Keeps(GroupOf(s), TargetStatus(StatusSeen(items, s)))
     /\ booked[s][items[s]] = None}

\* projectLogenTrackingEvidence
ProjectEvidence(items) ==
  LET seen == Projected(items)
      moved == Movements(items)
      movedGroups == {GroupOf(s) : s \in moved}
      Seen(g) == CHOOSE s \in seen : GroupOf(s) = g
  IN  /\ shipment' = [s \in Invoice |->
           IF s \in seen THEN StatusSeen(items, s) ELSE shipment[s]]
      /\ device' = [g \in Group |->
           IF g \in movedGroups THEN TargetStatus(StatusSeen(items, Seen(g)))
           ELSE IF g \in {GroupOf(s) : s \in seen} THEN Departed(g)
           ELSE device[g]]
      /\ booked' = [s \in Invoice |->
           IF s \in moved
             THEN [booked[s] EXCEPT ![items[s]] = Departed(GroupOf(s))]
             ELSE booked[s]]
      /\ group' = [g \in Group |->
           IF /\ \E s \in seen : /\ GroupOf(s) = g
                                 /\ StatusSeen(items, s) = "DELIVERED"
              /\ MayComplete(g)
             THEN "COMPLETED" ELSE group[g]]
      /\ newest' = [s \in Invoice |->
           IF s \in seen /\ items[s] > newest[s] THEN items[s]
                                                 ELSE newest[s]]
      /\ reordered' =
           reordered \cup {s \in seen : items[s] < newest[s]}

-----------------------------------------------------------------------------
(***************************************************************************)
(* The tracking worker.                                                    *)
(***************************************************************************)
\* The worker is started, after its last execution or by a takeover.
StartRun(e) ==
  /\ trackPc[e] = "idle"
  /\ ousted' = {x \in Tracker : trackPc[x] # "idle"}
  /\ IF ousted' = ousted THEN UNCHANGED faults ELSE Faulty
  /\ Goes(e, "drain", NoWork)
  /\ UNCHANGED <<events, carrier, packages, jobs>>

LeaseIsActive(e) == e \notin ousted

\* Mutant of Claimable: a failed job is not tried again.
ClaimableOnce(j) ==
  \/ jobs[j].status = "PENDING"
  \/ jobs[j].status = "PROCESSING" /\ ~jobs[j].live

Claimable(j) ==
  \/ jobs[j].status \in {"PENDING", "FAILED"}
  \/ jobs[j].status = "PROCESSING" /\ ~jobs[j].live

ClaimsJob(e, j, drained) ==
  /\ jobs' = [jobs EXCEPT ![j].status = "PROCESSING",
                          ![j].owner = e,
                          ![j].live = TRUE]
  /\ Goes(e, "apply", [NoWork EXCEPT !.job = j, !.drained = drained])

\* claimIntegrationProjectionJob: the oldest job first.
ClaimNext(e) ==
  /\ trackPc[e] = "drain"
  /\ \E j \in DOMAIN jobs :
       /\ Claimable(j)
       /\ \A i \in 1..(j - 1) : ~Claimable(i)
       /\ ClaimsJob(e, j, TRUE)
  /\ UNCHANGED <<events, carrier, packages, ousted, faults>>

Candidate(s) ==
  LET g == GroupOf(s)
  IN  /\ current[g] = s
      /\ group[g] \in {"READY", "ON_HOLD"}
      /\ shipment[s] \notin {"ALLOCATED", "DELIVERED"}

\* Nothing is left to drain: the due candidates are read.
Poll(e) ==
  /\ trackPc[e] = "drain"
  /\ \A j \in DOMAIN jobs : ~Claimable(j)
  /\ LeaseIsActive(e)
  /\ \E due \in SUBSET {s \in Invoice : Candidate(s)} \ {{}} :
       Goes(e, "polling", [NoWork EXCEPT !.items = [s \in due |-> 0]])
  /\ UNCHANGED <<events, carrier, packages, jobs, ousted, faults>>

\* getLogenTrackingBatch: the carrier answers, and the lease is looked at.
Answer(e) ==
  LET told == [s \in DOMAIN work[e].items |-> Len(events[s])]
  IN  /\ trackPc[e] = "polling"
      /\ LeaseIsActive(e)
      /\ Goes(e, "answered", [NoWork EXCEPT !.items = told])
      /\ UNCHANGED <<events, carrier, packages, jobs, ousted, faults>>

\* recordValidatedIntegrationInboxEvidence, whatever has been scanned, or
\* projected, or become of the lease since the carrier answered.
Record(e) ==
  /\ trackPc[e] = "answered"
  /\ Len(jobs) < MaxJobs
  /\ jobs' = Append(jobs, [items |-> work[e].items, owner |-> None,
                          status |-> "PENDING", live |-> FALSE])
  /\ Goes(e, "recorded", [NoWork EXCEPT !.job = Len(jobs) + 1])
  /\ UNCHANGED <<events, carrier, packages, ousted, faults>>

\* The lease is gone, or the call, the validation of its answer or the
\* recording fails, which ends the execution.
PollFails(e) ==
  /\ trackPc[e] \in {"polling", "answered"}
  /\ EndsRun(e)
  /\ UNCHANGED <<events, carrier, packages, jobs, faults>>

\* No candidate is due, or the lease is gone.
NothingDue(e) ==
  /\ trackPc[e] = "drain"
  /\ \A j \in DOMAIN jobs : ~Claimable(j)
  /\ EndsRun(e)
  /\ UNCHANGED <<events, carrier, packages, jobs, faults>>

\* claimIntegrationProjectionJobById: another execution may have it.
ClaimOwn(e) ==
  /\ trackPc[e] = "recorded"
  /\ IF Claimable(work[e].job)
       THEN ClaimsJob(e, work[e].job, FALSE) /\ UNCHANGED ousted
       ELSE EndsRun(e) /\ UNCHANGED jobs
  /\ UNCHANGED <<events, carrier, packages, faults>>

\* lockOwnedProjectionJob
OwnsJob(e) ==
  /\ jobs[work[e].job].status = "PROCESSING"
  /\ jobs[work[e].job].owner = e

Succeeded(job) ==
  [job EXCEPT !.status = "SUCCEEDED", !.owner = None, !.live = FALSE]

Refuses(items) == \E s \in DOMAIN items : Refused(s, items[s])

\* runClaimedIntegrationProjection commits.
Apply(e) ==
  LET j == work[e].job
  IN  /\ trackPc[e] = "apply"
      /\ OwnsJob(e)
      /\ ~Refuses(jobs[j].items)
      /\ ProjectEvidence(jobs[j].items)
      /\ jobs' = [jobs EXCEPT ![j] = Succeeded(@)]
      /\ IF work[e].drained THEN Goes(e, "drain", NoWork) /\ UNCHANGED ousted
                         ELSE EndsRun(e)
      /\ UNCHANGED <<events, current, member, faults>>

Failed(job) ==
  [job EXCEPT !.status = "FAILED", !.owner = None, !.live = FALSE]

\* The transaction rolls back; markProjectionFailure, if the job is still
\* owned, in a transaction of its own; and the error ends the execution.
Fails(e) ==
  /\ jobs' = IF OwnsJob(e) THEN [jobs EXCEPT ![work[e].job] = Failed(@)]
                         ELSE jobs
  /\ EndsRun(e)
  /\ UNCHANGED <<events, carrier, packages>>

\* The evidence is refused, or the job belongs to another by now.
Refuse(e) ==
  /\ trackPc[e] = "apply"
  /\ OwnsJob(e) => Refuses(jobs[work[e].job].items)
  /\ Fails(e)
  /\ UNCHANGED faults

\* The transaction fails for another reason.
Breaks(e) ==
  /\ trackPc[e] = "apply"
  /\ Faulty
  /\ Fails(e)

CrashTracker(e) ==
  /\ trackPc[e] # "idle"
  /\ Faulty
  /\ EndsRun(e)
  /\ UNCHANGED <<events, carrier, packages, jobs>>

ClaimLapses(j) ==
  /\ j \in DOMAIN jobs
  /\ jobs[j].status = "PROCESSING"
  /\ jobs[j].live
  /\ jobs' = [jobs EXCEPT ![j].live = FALSE]
  /\ UNCHANGED <<events, carrier, packages, execution, faults>>

-----------------------------------------------------------------------------
(***************************************************************************)
(* What else moves shipments, groups and devices.                          *)
(***************************************************************************)
\* The number of events so far.
Scans == Cardinality({scan \in Invoice \X (1..MaxEvents) :
                        scan[2] <= Len(events[scan[1]])})

\* External: the carrier scans the parcel.
Scan(s) ==
  /\ shipment[s] # "ALLOCATED"
  /\ Scans < MaxEvents
  /\ \E status \in Moving : events' = [events EXCEPT ![s] = Append(@, status)]
  /\ UNCHANGED <<carrier, packages, jobs, execution, faults>>

\* The channel confirms the invoice: finalizeCoupangInvoiceUpload.
ConfirmInvoice(g) ==
  /\ group[g] = "FROZEN"
  /\ group' = [group EXCEPT ![g] = "READY"]
  /\ device' = [device EXCEPT ![g] = Departed(g)]
  /\ UNCHANGED <<events, carrier, current, member, jobs, execution, faults>>

\* The carrier has registered the group's invoice; while a group is held,
\* only that of its replacement is.
RegisterInvoice(g) ==
  LET s == current[g]
  IN  /\ \/ group[g] = "READY"
         \/ group[g] = "ON_HOLD" /\ s \in Spare[g]
      /\ shipment[s] = "ALLOCATED"
      /\ shipment' = [shipment EXCEPT ![s] = "REGISTERED"]
      /\ UNCHANGED <<events, booked, newest, reordered, packages, jobs,
                     execution, faults>>

\* The replacement of the invoice begins.
Hold(g) ==
  /\ group[g] = "READY"
  /\ Spare[g] # {}
  /\ current[g] = First[g]
  /\ shipment[current[g]] \in {"ALLOCATED", "REGISTERED"}
  /\ device[g] = "DEPARTURE"
  /\ group' = [group EXCEPT ![g] = "ON_HOLD"]
  /\ UNCHANGED <<events, carrier, current, member, device, jobs, execution,
                 faults>>

\* The channel confirms the replacement: the group's invoice is exchanged.
Switch(g) ==
  /\ group[g] = "ON_HOLD"
  /\ current[g] = First[g]
  /\ \E s \in Spare[g] : current' = [current EXCEPT ![g] = s]
  /\ UNCHANGED <<events, carrier, group, member, device, jobs, execution,
                 faults>>

\* The replacement is cancelled before, or completed after, the exchange.
Release(g) ==
  /\ group[g] = "ON_HOLD"
  /\ current[g] = First[g] \/ shipment[current[g]] # "ALLOCATED"
  /\ group' = [group EXCEPT ![g] = "READY"]
  /\ UNCHANGED <<events, carrier, current, member, device, jobs, execution,
                 faults>>

\* A return before the shipment removes the member and so the group.
ReturnBefore(g) ==
  /\ group[g] \in {"READY", "ON_HOLD"}
  /\ device[g] = "DEPARTURE"
  /\ device' = [device EXCEPT ![g] = "RETURN"]
  /\ member' = [member EXCEPT ![g] = FALSE]
  /\ group' = [group EXCEPT ![g] = "INVALIDATED"]
  /\ UNCHANGED <<events, carrier, current, jobs, execution, faults>>

\* A return after it leaves the group alone.
ReturnAfter(g) ==
  /\ device[g] # "RETURN"
  /\ device' = [device EXCEPT ![g] = "RETURN"]
  /\ UNCHANGED <<events, carrier, group, current, member, jobs, execution,
                 faults>>

\* projectCoupangDeliveryStatuses for one group: its evidence keys are new
\* with every synchronisation, and a refusal changes nothing here.
ChannelStatus(g) ==
  \E status \in {"IN_TRANSIT", "DELIVERED"} :
    /\ member[g]
    /\ device[g] = "PACKED" => MayDepart(g)
    /\ device' = [device EXCEPT ![g] =
         IF \/ Keeps(g, TargetStatus(status))
            \/ status = "IN_TRANSIT" /\ @ = "NONE_TRACKING"
           THEN @ ELSE TargetStatus(status)]
    /\ group' = [group EXCEPT ![g] =
         IF status = "DELIVERED" /\ MayComplete(g)
           THEN "COMPLETED" ELSE @]
    /\ UNCHANGED <<events, carrier, current, member, jobs, execution, faults>>

Work(e) ==
  \/ StartRun(e)
  \/ ClaimNext(e)
  \/ Poll(e)
  \/ Answer(e)
  \/ Record(e)
  \/ PollFails(e)
  \/ NothingDue(e)
  \/ ClaimOwn(e)
  \/ Apply(e)
  \/ Refuse(e)

Package(g) ==
  \/ ConfirmInvoice(g)
  \/ RegisterInvoice(g)
  \/ Hold(g)
  \/ Switch(g)
  \/ Release(g)
  \/ ReturnBefore(g)
  \/ ReturnAfter(g)
  \/ ChannelStatus(g)

TrackingNext ==
  \/ \E e \in Tracker : Work(e)
  \/ \E e \in Tracker : Breaks(e)
  \/ \E e \in Tracker : CrashTracker(e)
  \/ \E j \in 1..MaxJobs : ClaimLapses(j)
  \/ \E s \in Invoice : Scan(s)
  \/ \E g \in Group : Package(g)

TrackingSpec == TrackingInit /\ [][TrackingNext]_trackVars

\* The worker's schedule starts it again and again, an execution that runs
\* goes on, and a claim that is not finished lapses.
TrackingFairness ==
  /\ WF_trackVars(\E e \in Tracker : Work(e))
  /\ \A j \in 1..MaxJobs : WF_trackVars(ClaimLapses(j))

-----------------------------------------------------------------------------
\* Every variable holds a value of its type, and a job has a claim's token
\* exactly while it is processed.
TrackingTypeOK ==
  /\ events \in [Invoice -> Seq(Moving)]
  /\ shipment \in [Invoice -> {"ALLOCATED", "REGISTERED"} \cup Moving]
  /\ group \in [Group -> {"FROZEN", "READY", "ON_HOLD", "COMPLETED",
                         "INVALIDATED"}]
  /\ current \in [Group -> Invoice]
  /\ member \in [Group -> BOOLEAN]
  /\ device \in [Group -> {"PACKED", "DEPARTURE", "DELIVERING",
                          "NONE_TRACKING", "FINAL", "RETURN"}]
  /\ \A j \in DOMAIN jobs :
       /\ jobs[j].status \in {"PENDING", "PROCESSING", "SUCCEEDED", "FAILED"}
       /\ jobs[j].status = "PROCESSING" <=> jobs[j].owner \in Tracker
  /\ ousted \in SUBSET Tracker
  /\ \A e \in Tracker : work[e].job \in 0..Len(jobs)
  /\ faults \in 0..MaxFaults

\* Device and group say what the shipment of the group says, whatever the
\* evidence of an invoice that was replaced and the channel's status bring, and
\* though the operation keys of earlier evidences were used: a delivery takes
\* both with it, and the other statuses the device, as long as no evidence was
\* projected after a newer one.
DeviceFollowsShipment ==
  \A g \in Group :
    /\ shipment[current[g]] = "DELIVERED" =>
         /\ device[g] \in {"FINAL", "RETURN"}
         /\ group[g] \in {"COMPLETED", "INVALIDATED"}
    /\ current[g] \notin reordered /\ device[g] # "RETURN" =>
         /\ shipment[current[g]] = "IN_TRANSIT" =>
              device[g] \in {"DELIVERING", "FINAL"}
         /\ shipment[current[g]] = "EXCEPTION" =>
              device[g] \in {"NONE_TRACKING", "FINAL"}

\* The oldest job that could be claimed is refused.
Halted ==
  \E j \in DOMAIN jobs : jobs[j].status = "FAILED" /\ Refuses(jobs[j].items)

Projects(j) == j \in DOMAIN jobs /\ jobs[j].status = "SUCCEEDED"

\* If the schedule and the claims' clock are fair, every evidence is projected
\* in the end, unless the drain keeps running into one that is refused: its
\* error ends every execution before the jobs behind it and the poll.
ProjectedUnlessHalted ==
  TrackingFairness =>
    \/ []<>Halted
    \/ \A j \in 1..MaxJobs :
         j \in DOMAIN jobs ~> Projects(j)
=============================================================================
