--------------------------- MODULE OrderMatching ---------------------------
(***************************************************************************)
(* Devices allocated to the lines of one shipment of the sales channel:    *)
(* quickhack_server/sales-channel/coupang/order-matching-service.ts, with  *)
(* the acknowledgement of the shipment, and what changes the same rows     *)
(* meanwhile: the order sync, a mapping change, the expiry of old lines,   *)
(* an order rematch, a manual match, a print, an inventory correction.     *)
(*                                                                         *)
(* A matcher is one run of the matching worker; a run whose lease was lost *)
(* goes on beside its successor.  Its steps are its transactions and the   *)
(* reads between them.  An allocation and a manual match are two steps:    *)
(* the one holds the row of its line between them, the other runs on a     *)
(* snapshot that is older than its locks.  Other transactions lock or      *)
(* rewrite the rows that they depend on, and each is one action.           *)
(*                                                                         *)
(* The write request is seen by its status only (SalesChannelWrite models  *)
(* it), the sales offers by the devices that fit them.  Why a line failed  *)
(* is kept where the code looks at it: "EXCEEDED" is the status FAILED     *)
(* with the reason ACTIVE_ALLOCATION_QUANTITY_EXCEEDED.                    *)
(***************************************************************************)
EXTENDS Integers, FiniteSets

CONSTANTS
  Item,       \* the lines of the shipment, as work items
  Device,     \* devices
  SkuOf,      \* the SKU of each device
  Offer,      \* sales offers
  NoOffer,    \* no sales offer
  NoItem,     \* no line
  NoDevice,   \* no device
  Fits,       \* which devices fit which offers
  Matcher,    \* slots for runs of the matching worker
  MaxQty,     \* bound on the quantity of a line
  MaxChange   \* bound on what others do

ASSUME MatchingAssumption ==
  /\ IsFiniteSet(Device)
  /\ NoDevice \notin Device /\ NoItem \notin Item /\ NoOffer \notin Offer
  /\ MaxQty \in Nat /\ MaxChange \in Nat

VARIABLES
  chan,     \* status of the order at the channel
  raw,      \* external_order_status, as last read
  mapping,  \* the default offer of each line's product
  reset,    \* the lines a run has reset by a rematch and is still to load
  line,     \* the work item of each line
  alloc,    \* the active allocation of each device
  inv,      \* inventory status of each device
  moved,    \* the operation keys of allocations: "ORDER_MATCH:item:device"
  req,      \* request_status of the shipment's write to INSTRUCT
  intent,   \* whether a manual match holds its intent lease
  hand,     \* where the manual match stands
  seen,     \* the allocated devices in its snapshot
  pc,       \* where each matcher stands
  item,     \* the line a matcher works on
  row,      \* the line's offer and quantity, as the matcher loaded them
  cand,     \* the devices left to try, or those whose rows it has read
  left,     \* how many devices it still looks for
  pick,     \* the device of its open allocation
  note,     \* the failure it would report
  changes   \* how often others have changed something

order == <<chan, raw, mapping, reset>>
stock == <<inv, moved>>
manual == <<intent, hand, seen>>
matchers == <<pc, item, row, cand, left, pick, note>>
vars == <<order, line, alloc, stock, req, manual, matchers, changes>>

WorkStatus == {"UNMATCHED", "PARTIAL", "MATCHED", "FAILED", "EXCEEDED",
               "SKIPPED", "EXPIRED"}
Line == [canceled : BOOLEAN, qty : 0..MaxQty, offer : Offer \cup {NoOffer},
         st : WorkStatus]
NoAlloc == [item |-> NoItem, offer |-> NoOffer, st |-> "NONE"]
NoRow == [offer |-> NoOffer, qty |-> 0]

Active == {d \in Device : alloc[d].st # "NONE"}
Of(i) == {d \in Active : alloc[d].item = i}
Count(i) == Cardinality(Of(i))

\* derivePreMatchWorkState
PreMatch(canceled, qty, offer) ==
  IF canceled \/ qty = 0 \/ offer = NoOffer THEN "SKIPPED" ELSE "UNMATCHED"

\* itemCanBeMatched
Matchable(l) == PreMatch(l.canceled, l.qty, l.offer) = "UNMATCHED"

Init ==
  /\ chan \in {"ACCEPT", "INSTRUCT"}
  /\ raw = chan
  /\ mapping \in [Item -> Offer \cup {NoOffer}]
  /\ reset = [m \in Matcher |-> {}]
  /\ line \in [Item -> Line]
  /\ \A i \in Item : /\ ~line[i].canceled
                     /\ line[i].qty > 0
                     /\ line[i].offer = mapping[i]
                     /\ line[i].st = PreMatch(FALSE, line[i].qty, mapping[i])
  /\ alloc = [d \in Device |-> NoAlloc]
  /\ inv = [d \in Device |-> "SELLABLE"]
  /\ moved = {}
  /\ req = "NONE"
  /\ intent = FALSE
  /\ hand = "idle"
  /\ seen = {}
  /\ pc = [m \in Matcher |-> "idle"]
  /\ item = [m \in Matcher |-> NoItem]
  /\ row = [m \in Matcher |-> NoRow]
  /\ cand = [m \in Matcher |-> {}]
  /\ left = [m \in Matcher |-> 0]
  /\ pick = [m \in Matcher |-> NoDevice]
  /\ note = [m \in Matcher |-> "NONE"]
  /\ changes = 0

Goes(m, to) == pc' = [pc EXCEPT ![m] = to]

\* A matcher is done with a line, or with its run, and forgets it.
Leaves(m, to) ==
  /\ Goes(m, to)
  /\ item' = [item EXCEPT ![m] = NoItem]
  /\ row' = [row EXCEPT ![m] = NoRow]
  /\ cand' = [cand EXCEPT ![m] = {}]
  /\ left' = [left EXCEPT ![m] = 0]
  /\ pick' = [pick EXCEPT ![m] = NoDevice]
  /\ note' = [note EXCEPT ![m] = "NONE"]

Ends(m) == Leaves(m, "idle")

\* A run that has reset lines does nothing else before it has loaded them.
Idle(m) == pc[m] = "idle" /\ reset[m] = {}

\* A run that fails does not come to the lines it has left.
Forgets(m) == reset' = [reset EXCEPT ![m] = {}]

\* What is local to a matcher, except where it stands.
Locals == <<item, row, cand, left, pick, note>>

\* Nobody holds the row of line i (lockOrderMatchingWorkItem), or any row.
RowFree(i) == \A m \in Matcher : ~(pc[m] = "claimed" /\ item[m] = i)
RowsFree == \A i \in Item : RowFree(i)

Changes == changes < MaxChange /\ changes' = changes + 1

-----------------------------------------------------------------------------
(***************************************************************************)
(* The quantity reconciliation at the start of a run                       *)
(* (reconcileChangedAllocationQuantities).                                 *)
(***************************************************************************)
\* The rows to be rewritten are read outside the transaction that does it.
ReconcileRead(m, i) ==
  /\ Idle(m)
  /\ line[i].st # "EXPIRED"
  /\ \/ Count(i) > line[i].qty /\ line[i].st # "EXCEEDED"
     \/ Count(i) < line[i].qty /\ line[i].st = "MATCHED"
  /\ Goes(m, "reconciling")
  /\ item' = [item EXCEPT ![m] = i]
  /\ note' = [note EXCEPT ![m] =
       IF Count(i) > line[i].qty THEN "EXCEEDED"
       ELSE IF Count(i) > 0 THEN "PARTIAL" ELSE "UNMATCHED"]
  /\ UNCHANGED <<row, cand, left, pick, order, line, alloc, stock, req,
                 manual, changes>>

ReconcileWrite(m) ==
  LET i == item[m]
  IN  /\ pc[m] = "reconciling"
      /\ RowFree(i)
      /\ line' = [line EXCEPT ![i].st = IF @ = "EXPIRED" THEN @ ELSE note[m]]
      /\ Ends(m)
      /\ UNCHANGED <<order, alloc, stock, req, manual, changes>>

-----------------------------------------------------------------------------
(***************************************************************************)
(* matchSingleOrderItem                                                    *)
(***************************************************************************)
\* loadMatchableOrderItems of an automatic run
Loadable(i) ==
  /\ Matchable(line[i])
  /\ raw \in {"ACCEPT", "INSTRUCT"}
  /\ line[i].st \in {"UNMATCHED", "PARTIAL"}

\* loadMatchableOrderItems of the run that has reset its lines
LoadableAgain(m, i) ==
  /\ i \in reset[m]
  /\ Matchable(line[i])
  /\ line[i].st \notin {"MATCHED", "EXPIRED"}

Load(m, i) ==
  /\ pc[m] = "idle"
  /\ \/ reset[m] = {} /\ Loadable(i)
     \/ LoadableAgain(m, i)
  /\ reset' = [reset EXCEPT ![m] = @ \ {i}]
  /\ Goes(m, "loaded")
  /\ item' = [item EXCEPT ![m] = i]
  /\ row' = [row EXCEPT ![m] = [offer |-> line[i].offer, qty |-> line[i].qty]]
  /\ UNCHANGED <<cand, left, pick, note, chan, raw, mapping, line, alloc, stock,
                 req, manual, changes>>

\* findInventoryCandidatesForSalesOffer
Candidates(o) ==
  {d \in Device : inv[d] = "SELLABLE" /\ d \notin Active /\ <<d, o>> \in Fits}

\* The count, the intent and the candidates are read; an offer that is not
\* matched automatically gets none.
Start(m) ==
  LET o == row[m].offer
      n == row[m].qty - Count(item[m])
  IN  /\ pc[m] = "loaded"
      /\ \/ /\ intent
            /\ Ends(m)
         \/ /\ ~intent
            /\ n < 0
            /\ note' = [note EXCEPT ![m] = "EXCEEDED"]
            /\ Goes(m, "finalizing")
            /\ UNCHANGED <<item, row, cand, left, pick>>
         \/ /\ ~intent
            /\ n >= 0
            /\ \E C \in {{}, Candidates(o)} :
                 /\ cand' = [cand EXCEPT ![m] = IF n = 0 THEN {} ELSE C]
                 /\ note' = [note EXCEPT ![m] =
                               IF n > 0 /\ C = {} THEN "OTHER" ELSE @]
            /\ left' = [left EXCEPT ![m] = n]
            /\ Goes(m, "trying")
            /\ UNCHANGED <<item, row, pick>>
      /\ UNCHANGED <<order, line, alloc, stock, req, manual, changes>>

\* Mutant of MayAllocate: the quantity that was loaded is trusted.
MayAllocateStale(m) ==
  /\ line[item[m]].offer = row[m].offer
  /\ ~intent
  /\ Count(item[m]) < row[m].qty

\* What the transaction finds under the row locks of the line and the order.
MayAllocate(m) ==
  LET l == line[item[m]]
  IN  /\ l.offer = row[m].offer
      /\ ~intent
      /\ Matchable(l)
      /\ l.st \notin {"EXPIRED", "MATCHED"}
      /\ raw \in {"ACCEPT", "INSTRUCT"}
      /\ Count(item[m]) < l.qty

Claim(m, d) ==
  /\ pc[m] = "trying"
  /\ left[m] > 0
  /\ d \in cand[m]
  /\ RowFree(item[m])
  /\ \/ /\ MayAllocate(m)
        /\ Goes(m, "claimed")
        /\ pick' = [pick EXCEPT ![m] = d]
        /\ UNCHANGED <<item, row, cand, left, note>>
     \/ /\ ~MayAllocate(m)
        /\ Goes(m, "finalizing")
        /\ note' = [note EXCEPT ![m] =
                      IF intent /\ line[item[m]].offer = row[m].offer
                      THEN "OTHER" ELSE @]
        /\ UNCHANGED <<item, row, cand, left, pick>>
  /\ UNCHANGED <<order, line, alloc, stock, req, manual, changes>>

Allocates(d, i) ==
  alloc' = [alloc EXCEPT ![d] = [item |-> i, offer |-> line[i].offer,
                                 st |-> "ALLOCATED"]]

\* The device is reserved and the allocation created; a device that another
\* order got first is skipped.  An operation key that was booked before moves
\* no device, and its expected status is not compared.
Commit(m) ==
  LET d == pick[m]
      i == item[m]
      booked == <<i, d>> \in moved
  IN  /\ pc[m] = "claimed"
      /\ \/ /\ d \notin Active
            /\ booked \/ inv[d] = "SELLABLE"
            /\ Allocates(d, i)
            /\ inv' = [inv EXCEPT ![d] = IF booked THEN @ ELSE "RESERVED"]
            /\ moved' = moved \cup {<<i, d>>}
            /\ left' = [left EXCEPT ![m] = @ - 1]
         \/ /\ d \in Active \/ (~booked /\ inv[d] # "SELLABLE")
            /\ UNCHANGED <<alloc, stock, left>>
      /\ cand' = [cand EXCEPT ![m] = @ \ {d}]
      /\ pick' = [pick EXCEPT ![m] = NoDevice]
      /\ Goes(m, "trying")
      /\ UNCHANGED <<item, row, note, order, line, req, manual, changes>>

\* reserveInventoryForAllocations of the devices D, and whether it succeeds:
\* the transaction fails when one of them is neither sellable nor reserved.
CanReserve(D) == \A d \in D : inv[d] \in {"SELLABLE", "RESERVED"}
Reserves(D) == inv' = [d \in Device |-> IF d \in D THEN "RESERVED" ELSE inv[d]]

\* matchStatusForCounts, with the reason for a failure
StatusFor(l, n, noted) ==
  IF ~Matchable(l) THEN "SKIPPED"
  ELSE IF n = l.qty THEN "MATCHED"
  ELSE IF n > l.qty THEN IF noted = "OTHER" THEN "FAILED" ELSE "EXCEEDED"
  ELSE IF n > 0 THEN "PARTIAL"
  ELSE IF noted = "EXCEEDED" THEN "EXCEEDED" ELSE "FAILED"

\* finalizeOrderItemInventoryMatch leaves a line alone whose mapping changed,
\* that expired, or that has devices although it can no longer be matched.
Deferred(m) ==
  LET l == line[item[m]]
  IN  \/ l.offer # row[m].offer
      \/ l.st = "EXPIRED"
      \/ Count(item[m]) > 0 /\ ~Matchable(l)

Finalize(m) ==
  LET i == item[m]
  IN  /\ \/ pc[m] = "finalizing"
         \/ pc[m] = "trying" /\ (left[m] = 0 \/ cand[m] = {})
      /\ RowFree(i)
      /\ \/ /\ Deferred(m)
            /\ Leaves(m, "post")
            /\ UNCHANGED <<line, inv, reset>>
         \/ /\ ~Deferred(m)
            /\ CanReserve(Of(i))
            /\ line' = [line EXCEPT
                          ![i].st = StatusFor(line[i], Count(i), note[m])]
            /\ Reserves(Of(i))
            /\ Leaves(m, "post")
            /\ UNCHANGED reset
         \/ /\ ~Deferred(m)
            /\ ~CanReserve(Of(i))
            /\ Ends(m)
            /\ Forgets(m)
            /\ UNCHANGED <<line, inv>>
      /\ UNCHANGED <<chan, raw, mapping, alloc, moved, req, manual, changes>>

-----------------------------------------------------------------------------
(***************************************************************************)
(* acknowledgeMatchedAcceptShipments                                       *)
(***************************************************************************)
\* shipmentStatusFromItemStates: "MATCHED"
ShipmentMatched ==
  /\ \E i \in Item : line[i].qty > 0
  /\ \A i \in Item : line[i].qty > 0 =>
       ~line[i].canceled /\ line[i].offer # NoOffer /\ Count(i) = line[i].qty

\* No target of an earlier request is PENDING, SUCCEEDED or UNKNOWN.
Reissuable == req \in {"NONE", "NOT_APPLIED"}

\* loadAcknowledgementRecoveryShipments
Unacknowledged ==
  /\ \A i \in Item : line[i].qty > 0 => line[i].st = "MATCHED"
  /\ \/ raw = "ACCEPT" /\ Reissuable
     \/ raw # "ACCEPT" /\ \E d \in Active : alloc[d].st = "ALLOCATED"

\* The shipment is read after a line of it was matched, after a manual match
\* (runCoupangMatchingPostCycleForShipment), or by the recovery of a run.
Look(m) ==
  /\ \/ pc[m] = "post" /\ UNCHANGED hand
     \/ Idle(m) /\ Unacknowledged /\ ShipmentMatched /\ UNCHANGED hand
     \/ Idle(m) /\ hand = "matched" /\ hand' = "idle"
  /\ \/ ShipmentMatched /\ raw = "ACCEPT" /\ Leaves(m, "asking")
     \/ ShipmentMatched /\ raw # "ACCEPT" /\ Leaves(m, "acking")
     \/ ~ShipmentMatched /\ Ends(m)
  /\ UNCHANGED <<order, line, alloc, stock, req, intent, seen, changes>>

\* markVerifiedShipmentsApiAckedAndReserveInventory, of an order that the
\* channel shows as acknowledged: the allocations are read, ...
ReadAllocations(m) ==
  /\ pc[m] = "acking"
  /\ cand' = [cand EXCEPT ![m] = Active]
  /\ Goes(m, "reserving")
  /\ UNCHANGED <<item, row, left, pick, note, order, line, alloc, stock, req,
                 manual, changes>>

\* ALLOCATED -> API_ACKED
Acknowledged ==
  [d \in Device |-> IF alloc[d].st = "ALLOCATED"
                   THEN [alloc[d] EXCEPT !.st = "API_ACKED"] ELSE alloc[d]]

\* ... and the devices of those that were read are reserved.
MarkAcked(m) ==
  /\ pc[m] = "reserving"
  /\ \/ /\ CanReserve(cand[m])
        /\ alloc' = Acknowledged
        /\ Reserves(cand[m])
     \/ /\ ~CanReserve(cand[m])
        /\ UNCHANGED <<alloc, inv>>
  /\ Ends(m)
  /\ UNCHANGED <<order, line, moved, req, manual, changes>>

Request(m) ==
  /\ pc[m] = "asking"
  /\ \/ Reissuable /\ req' = "PENDING" /\ Goes(m, "sending")
     \/ ~Reissuable /\ UNCHANGED req /\ Goes(m, "idle")
  /\ UNCHANGED <<Locals, order, line, alloc, stock, manual, changes>>

\* The attempt to write opens.
Send(m) ==
  /\ pc[m] = "sending"
  /\ req' = "SENDING"
  /\ Goes(m, "calling")
  /\ UNCHANGED <<Locals, order, line, alloc, stock, manual, changes>>

\* The call, whose result is known, or is not.
Call(m) ==
  /\ pc[m] = "calling"
  /\ \/ /\ chan' = IF chan = "ACCEPT" THEN "INSTRUCT" ELSE chan
        /\ \/ req' = "LOCAL_PENDING" /\ Goes(m, "localizing")
           \/ req' = "REVIEW_REQUIRED" /\ Goes(m, "idle")
     \/ /\ chan = "ACCEPT"
        /\ req' \in {"NOT_APPLIED", "REVIEW_REQUIRED"}
        /\ Goes(m, "idle")
        /\ UNCHANGED chan
  /\ UNCHANGED <<Locals, raw, mapping, reset, line, alloc, stock, manual,
                 changes>>

\* What finalizePersistedCoupangOrderInstruct requires of the shipment.
Finalizable ==
  /\ \A i \in Item : Count(i) = line[i].qty
  /\ CanReserve({d \in Active : alloc[d].st # "PRINTED"})

\* The local finalization of the write, at once or by the recovery of a run;
\* when it fails the request stays LOCAL_PENDING.
Localize(m) ==
  /\ \/ pc[m] = "localizing"
     \/ Idle(m) /\ \A n \in Matcher : pc[n] # "localizing"
  /\ req = "LOCAL_PENDING"
  /\ RowsFree
  /\ \/ /\ Finalizable
        /\ raw' = IF raw = "ACCEPT" THEN "INSTRUCT" ELSE raw
        /\ alloc' = Acknowledged
        /\ Reserves({d \in Active : alloc[d].st # "PRINTED"})
        /\ req' = "COMPLETED"
     \/ /\ ~Finalizable
        /\ UNCHANGED <<raw, alloc, inv, req>>
  /\ Goes(m, "idle")
  /\ UNCHANGED <<Locals, chan, mapping, reset, line, moved, manual, changes>>

\* Mutant of Reviewed: a result that is not known is taken for a success.
ReviewedBlind == "LOCAL_PENDING"

\* What the channel shows decides.
Reviewed == IF chan = "ACCEPT" THEN "NOT_APPLIED" ELSE "LOCAL_PENDING"

\* The recovery and the review of a request that nobody sends any more.
Review ==
  /\ req \in {"PENDING", "SENDING", "REVIEW_REQUIRED"}
  /\ \A m \in Matcher : pc[m] \notin {"sending", "calling"}
  /\ req' = Reviewed
  /\ UNCHANGED <<order, line, alloc, stock, manual, matchers, changes>>

\* The process dies, or a transaction fails and the run with it; or none of
\* the lines that the run has reset is to be matched any more.
Crash(m) ==
  /\ ~Idle(m)
  /\ Ends(m)
  /\ Forgets(m)
  /\ UNCHANGED <<chan, raw, mapping, line, alloc, stock, req, manual, changes>>

-----------------------------------------------------------------------------
(***************************************************************************)
(* The order sync, the mapping, the expiry.                                *)
(***************************************************************************)
ChannelMoves ==
  /\ \/ chan = "ACCEPT" /\ chan' = "INSTRUCT"
     \/ chan = "INSTRUCT" /\ chan' = "DEPARTURE"
  /\ Changes
  /\ UNCHANGED <<raw, mapping, reset, line, alloc, stock, req, manual, matchers>>

\* Mutant of Protected: the status alone protects a line.
ProtectedByStatus(i) == line[i].st \in {"PARTIAL", "MATCHED", "EXPIRED"}

\* protectedOutcome
Protected(i) ==
  Count(i) > 0 \/ line[i].st \in {"PARTIAL", "MATCHED", "EXPIRED"}

\* synchronizeWorkItemMappingSnapshot, for a line that reads l at the channel
Synchronized(i, l) ==
  LET offer == IF Protected(i) THEN l.offer ELSE mapping[i]
      st == PreMatch(l.canceled, l.qty, offer)
  IN  IF Count(i) > 0 \/ l.st \in {"PARTIAL", "MATCHED", "EXPIRED"} THEN l
      ELSE IF offer # l.offer \/ st = "SKIPPED" \/ l.st = "SKIPPED"
        THEN [l EXCEPT !.offer = offer, !.st = st]
      ELSE l

\* upsertOrder: a page of the order sync is applied.
Sync(i, canceled, qty) ==
  LET read(j) == IF j = i
                 THEN [line[j] EXCEPT !.canceled = canceled, !.qty = qty]
                 ELSE line[j]
  IN  /\ RowsFree
      /\ raw' = chan
      /\ line' = [j \in Item |-> Synchronized(j, read(j))]
      /\ <<raw', line'>> # <<raw, line>>
      /\ Changes
      /\ UNCHANGED <<chan, mapping, reset, alloc, stock, req, manual, matchers>>

\* A new default offer, and applyChangedMappingSnapshotToWorkItem.
MapOffer(i, o) ==
  LET l == line[i]
  IN  /\ o # mapping[i]
      /\ RowFree(i)
      /\ mapping' = [mapping EXCEPT ![i] = o]
      /\ line' = IF Protected(i) \/ l.offer = o THEN line
                 ELSE [line EXCEPT ![i].offer = o,
                                   ![i].st = PreMatch(l.canceled, l.qty, o)]
      /\ Changes
      /\ UNCHANGED <<chan, raw, reset, alloc, stock, req, manual, matchers>>

\* expireOrderMatchingWorkItemIfEligible
Expirable(i) ==
  /\ line[i].st \in {"UNMATCHED", "FAILED", "EXCEEDED", "SKIPPED"}
  /\ Count(i) = 0

Expire(i) ==
  /\ RowFree(i)
  /\ Expirable(i)
  /\ line' = [line EXCEPT ![i].st = "EXPIRED"]
  /\ Changes
  /\ UNCHANGED <<order, alloc, stock, req, manual, matchers>>

-----------------------------------------------------------------------------
(***************************************************************************)
(* The order rematch (order-rematch-service.ts).                           *)
(***************************************************************************)
\* The allocations of the devices D are canceled.
Cancels(D) ==
  alloc' = [d \in Device |-> IF d \in D THEN NoAlloc ELSE alloc[d]]

\* Mutant of Released: the devices stay reserved.
ReleasedNone(D) == inv

\* The devices D are sellable again.
Released(D) == [d \in Device |-> IF d \in D THEN "SELLABLE" ELSE inv[d]]

InFlight == {"PENDING", "SENDING", "REVIEW_REQUIRED", "LOCAL_PENDING"}

\* evaluateShipment, R the lines that are still to be delivered.
Rematchable(R) ==
  /\ R # {}
  /\ \A i \in R : line[i].st = "MATCHED" /\ Count(i) = line[i].qty
  /\ \A i \in R : mapping[i] # NoOffer
  /\ \A i \in Item \ R : Count(i) = 0
  /\ \A d \in Active : /\ alloc[d].st # "PRINTED"
                       /\ alloc[d].offer = line[alloc[d].item].offer
                       /\ inv[d] = "RESERVED"
  /\ raw \in {"ACCEPT", "INSTRUCT"}
  /\ req \notin InFlight

\* resetEligibleOrders, at the beginning of a run
Rematch(m) ==
  LET R == {i \in Item : ~line[i].canceled /\ line[i].qty > 0}
  IN  /\ Idle(m)
      /\ RowsFree
      /\ ~intent
      /\ Rematchable(R)
      /\ line' = [i \in Item |->
                    IF i \in R THEN [line[i] EXCEPT !.offer = mapping[i],
                                                    !.st = "UNMATCHED"]
                    ELSE line[i]]
      /\ Cancels(Active)
      /\ inv' = Released(Active)
      /\ reset' = [reset EXCEPT ![m] = R]
      /\ Changes
      /\ UNCHANGED <<chan, raw, mapping, moved, req, manual, matchers>>

-----------------------------------------------------------------------------
(***************************************************************************)
(* The manual match (manual-order-match-service.ts), under its intent lease*)
(* and at the isolation level serializable.                                *)
(***************************************************************************)
Acquire ==
  /\ hand = "idle"
  /\ hand' = "held"
  /\ intent' = TRUE
  /\ Changes
  /\ UNCHANGED <<order, line, alloc, stock, req, seen, matchers>>

\* The transaction takes its snapshot, for the first time or again after it
\* could not be serialized.
Snapshot ==
  /\ hand \in {"held", "begun"}
  /\ hand' = "begun"
  /\ seen' = Active
  /\ <<hand', seen'>> # <<hand, seen>>
  /\ UNCHANGED <<order, line, alloc, stock, req, intent, changes, matchers>>

\* It can lock what it read: nothing of that was rewritten meanwhile, and no
\* balance of the SKUs of the devices D.
Serializable(D) ==
  /\ seen \subseteq Active
  /\ \A n \in Active \ seen, d \in D : SkuOf[n] # SkuOf[d]

\* The allocations of line i in the snapshot
Seen(i) == {d \in seen : alloc[d].item = i}

\* The devices in the snapshot after p was given back and d was taken
After(i, p, d) == (Seen(i) \ {p}) \cup ({d} \cap Device)

\* nextWorkStatus
NextStatus(required, n) ==
  IF n = 0 THEN "UNMATCHED" ELSE IF n < required THEN "PARTIAL" ELSE "MATCHED"

\* The candidate of a manual match, if it needs one
Free(d) == d # NoDevice => inv[d] = "SELLABLE" /\ d \notin Active

\* The allocation that is given back, if there is one, and the others of the
\* shipment (downstreamReasons)
Reversible(i, p) ==
  /\ p # NoDevice => p \in Seen(i) /\ inv[p] = "RESERVED"
  /\ \A d \in seen : alloc[d].st # "PRINTED"

\* previewManualOrderMatch for line i: p is given back and d is taken.  The
\* write requests it looks for are PENDING; the other statuses that it names
\* are none of a write request.
Eligible(i, p, d) ==
  /\ raw \in {"ACCEPT", "INSTRUCT"}
  /\ req # "PENDING"
  /\ d # NoDevice => ~line[i].canceled
  /\ p = NoDevice => Cardinality(Seen(i)) < line[i].qty
  /\ Free(d)
  /\ Reversible(i, p)

\* Assign (p is none), Release (d is none) or Replace
Execute(i, p, d) ==
  LET st == NextStatus(line[i].qty, Cardinality(After(i, p, d)))
  IN  /\ hand = "begun"
      /\ intent
      /\ p # d
      /\ RowsFree
      /\ Serializable({p, d} \cap Device)
      /\ Eligible(i, p, d)
      /\ alloc' = [e \in Device |->
                     IF e = d THEN [item |-> i, offer |-> line[i].offer,
                                    st |-> "ALLOCATED"]
                     ELSE IF e = p THEN NoAlloc ELSE alloc[e]]
      /\ inv' = [e \in Device |->
                   IF e = d THEN "RESERVED" ELSE Released({p})[e]]
      /\ line' = [line EXCEPT ![i].st = st]
      /\ hand' = IF st = "MATCHED" /\ d # NoDevice THEN "matched" ELSE "idle"
      /\ intent' = FALSE
      /\ seen' = {}
      /\ UNCHANGED <<order, moved, req, matchers, changes>>

\* It fails, or its lease runs out.
GiveUp ==
  /\ hand \in {"held", "begun"}
  /\ hand' = "idle"
  /\ intent' = FALSE
  /\ seen' = {}
  /\ UNCHANGED <<order, line, alloc, stock, req, matchers, changes>>

-----------------------------------------------------------------------------
(***************************************************************************)
(* Shipping and corrections.                                               *)
(***************************************************************************)
\* confirmShipmentListPrintBatch
ConfirmPrint ==
  /\ RowsFree
  /\ Active # {}
  /\ \A d \in Active : alloc[d].st = "API_ACKED" /\ inv[d] = "RESERVED"
  /\ \A i \in Item : Count(i) = line[i].qty
  /\ alloc' = [d \in Device |-> IF d \in Active
                              THEN [alloc[d] EXCEPT !.st = "PRINTED"]
                              ELSE alloc[d]]
  /\ inv' = [d \in Device |-> IF d \in Active THEN "PACKING" ELSE inv[d]]
  /\ Changes
  /\ UNCHANGED <<order, line, moved, req, manual, matchers>>

\* applyInventoryPatches, by hand: allocations are not looked at.
Correct(d) ==
  /\ inv[d] \in {"SELLABLE", "HOLD"}
  /\ inv' = [inv EXCEPT ![d] = IF @ = "HOLD" THEN "SELLABLE" ELSE "HOLD"]
  /\ Changes
  /\ UNCHANGED <<order, line, alloc, moved, req, manual, matchers>>

-----------------------------------------------------------------------------
Run(m) ==
  \/ \E i \in Item : ReconcileRead(m, i) \/ Load(m, i)
  \/ ReconcileWrite(m)
  \/ Start(m)
  \/ \E d \in Device : Claim(m, d)
  \/ Commit(m)
  \/ Finalize(m)
  \/ Look(m)
  \/ ReadAllocations(m)
  \/ MarkAcked(m)
  \/ Request(m)
  \/ Send(m)
  \/ Call(m)
  \/ Localize(m)

ByHand ==
  \/ Acquire
  \/ Snapshot
  \/ \E i \in Item, p, d \in Device \cup {NoDevice} : Execute(i, p, d)
  \/ GiveUp

Others ==
  \/ ChannelMoves
  \/ \E i \in Item, c \in BOOLEAN, q \in 0..MaxQty : Sync(i, c, q)
  \/ \E i \in Item, o \in Offer \cup {NoOffer} : MapOffer(i, o)
  \/ \E i \in Item : Expire(i)
  \/ \E m \in Matcher : Rematch(m)
  \/ ConfirmPrint
  \/ \E d \in Device : Correct(d)
  \/ Review

Next ==
  \/ \E m \in Matcher : Run(m) \/ Crash(m)
  \/ ByHand
  \/ Others

Spec == Init /\ [][Next]_vars

-----------------------------------------------------------------------------
\* Every variable holds a value of its type.
TypeOK ==
  /\ chan \in {"ACCEPT", "INSTRUCT", "DEPARTURE"}
  /\ raw \in {"ACCEPT", "INSTRUCT", "DEPARTURE"}
  /\ mapping \in [Item -> Offer \cup {NoOffer}]
  /\ reset \in [Matcher -> SUBSET Item]
  /\ line \in [Item -> Line]
  /\ alloc \in [Device ->
       {NoAlloc} \cup [item : Item, offer : Offer \cup {NoOffer},
                       st : {"ALLOCATED", "API_ACKED", "PRINTED"}]]
  /\ inv \in [Device -> {"SELLABLE", "RESERVED", "PACKING", "HOLD"}]
  /\ moved \in SUBSET (Item \X Device)
  /\ req \in InFlight \cup {"NONE", "NOT_APPLIED", "COMPLETED"}
  /\ intent \in BOOLEAN
  /\ hand \in {"idle", "held", "begun", "matched"}
  /\ seen \in SUBSET Device
  /\ pc \in [Matcher -> {"idle", "reconciling", "loaded", "trying", "claimed",
                         "finalizing", "post", "acking", "reserving",
                         "asking", "sending", "calling", "localizing"}]
  /\ item \in [Matcher -> Item \cup {NoItem}]
  /\ row \in [Matcher -> [offer : Offer \cup {NoOffer}, qty : 0..MaxQty]]
  /\ cand \in [Matcher -> SUBSET Device]
  /\ left \in [Matcher -> 0..MaxQty]
  /\ pick \in [Matcher -> Device \cup {NoDevice}]
  /\ note \in [Matcher -> {"NONE", "OTHER", "EXCEEDED", "PARTIAL",
                           "UNMATCHED"}]
  /\ changes \in 0..MaxChange

\* A device that is reserved or being packed has an order.
HasOrder(d) == inv[d] \in {"RESERVED", "PACKING"} => d \in Active

\* The audit's "DELIVERY_STATUS_WITHOUT_ACTIVE_ALLOCATION" never happens.
NoReservationLeaked == \A d \in Device : HasOrder(d)

\* Whatever is canceled, replaced, rematched or retried, no step leaves a
\* device reserved without an order, except the acknowledgement that reserves
\* what it read before it waited for the rows.
LeakedByAcknowledgement ==
  [][\A d \in Device : HasOrder(d) /\ ~HasOrder(d)' =>
       \E m \in Matcher : pc[m] = "reserving" /\ pc'[m] = "idle"]_vars

\* What is allocated to a line is allocated for the offer that the line has,
\* though the product's mapping, the sync and a rematch change it under way.
AllocatedUnderOffer ==
  \A d \in Active : alloc[d].offer = line[alloc[d].item].offer

\* An allocation is acknowledged only when the order is, at the channel as
\* well as here, whatever became of the call and of the process that made it.
AckedWasInstructed ==
  \A d \in Active :
    alloc[d].st # "ALLOCATED" => chan # "ACCEPT" /\ raw # "ACCEPT"

\* "A sales-channel write is in progress": no manual match changes the
\* allocations of a shipment whose write is being sent or has no known result.
NoMatchByHandDuringWrite ==
  [][hand = "begun" /\ req \in {"PENDING", "SENDING", "REVIEW_REQUIRED"}
       => (hand' \in {"idle", "matched"} => alloc' = alloc)]_vars

\* Only a manual match takes a line beyond its quantity: the automatic one
\* never does, though the quantity shrinks, others allocate to the same line
\* and its own counts are old when it allocates.
AutomaticWithinQuantity ==
  [][\A i \in Item : Count(i)' > Count(i) /\ Count(i)' > line'[i].qty =>
       hand = "begun" /\ hand' # "begun"]_vars
=============================================================================
