------------------------- MODULE OrderMatching_proofs -------------------------
(***************************************************************************)
(* Proofs about OrderMatching for any lines, devices, offers and matchers, *)
(* and any quantities.                                                     *)
(*                                                                         *)
(* The invariant holds three things together.  What an order has become    *)
(* here it is at the channel (InstructInv), so that only what the channel  *)
(* shows is acknowledged.  A matcher that has claimed a line is the only   *)
(* one, and the line still lacks a device (ClaimInv): whatever takes a     *)
(* device for a line, or changes its quantity, waits for its row.  And the *)
(* offer of a line does not change while it has devices, or they are given *)
(* back with it (AllocatedUnderOffer).                                     *)
(***************************************************************************)
EXTENDS OrderMatching, FiniteSetTheorems, TLAPS

USE MatchingAssumption DEF MatchingAssumption

Allocation == [item : Item, offer : Offer \cup {NoOffer},
               st : {"ALLOCATED", "API_ACKED", "PRINTED"}]
Row == [offer : Offer \cup {NoOffer}, qty : 0..MaxQty]

OrderTypes ==
  /\ chan \in {"ACCEPT", "INSTRUCT", "DEPARTURE"}
  /\ raw \in {"ACCEPT", "INSTRUCT", "DEPARTURE"}
  /\ mapping \in [Item -> Offer \cup {NoOffer}]
  /\ reset \in [Matcher -> SUBSET Item]
  /\ req \in InFlight \cup {"NONE", "NOT_APPLIED", "COMPLETED"}
  /\ intent \in BOOLEAN
  /\ hand \in {"idle", "held", "begun", "matched"}
  /\ seen \in SUBSET Device
  /\ changes \in 0..MaxChange

LineTypes == line \in [Item -> Line]

StockTypes ==
  /\ alloc \in [Device -> {NoAlloc} \cup Allocation]
  /\ inv \in [Device -> {"SELLABLE", "RESERVED", "PACKING", "HOLD"}]
  /\ moved \in SUBSET (Item \X Device)

Places == {"idle", "reconciling", "loaded", "trying", "claimed", "finalizing",
           "post", "acking", "reserving", "asking", "sending", "calling",
           "localizing"}

MatcherTypes ==
  /\ pc \in [Matcher -> Places]
  /\ item \in [Matcher -> Item \cup {NoItem}]
  /\ row \in [Matcher -> Row]
  /\ cand \in [Matcher -> SUBSET Device]
  /\ left \in [Matcher -> 0..MaxQty]
  /\ pick \in [Matcher -> Device \cup {NoDevice}]
  /\ note \in [Matcher -> {"NONE", "OTHER", "EXCEEDED", "PARTIAL",
                           "UNMATCHED"}]

\* What a matcher has where it works on a line.
OnALine == {"reconciling", "loaded", "trying", "claimed", "finalizing"}

WorkInv ==
  \A m \in Matcher :
    /\ pc[m] \in OnALine => item[m] \in Item
    /\ pc[m] = "claimed" => pick[m] \in Device /\ left[m] > 0
    /\ pc[m] = "reconciling" =>
         note[m] \in {"EXCEEDED", "PARTIAL", "UNMATCHED"}

\* What is no longer ACCEPT here is not at the channel, and whoever goes to
\* acknowledge allocations, or to finalize the write, has seen that.
InstructInv ==
  /\ raw # "ACCEPT" => chan # "ACCEPT"
  /\ req = "LOCAL_PENDING" => chan # "ACCEPT"
  /\ \A m \in Matcher : pc[m] \in {"acking", "reserving"} => raw # "ACCEPT"

\* A line is claimed by one matcher at a time, and while it lacks a device.
ClaimInv ==
  \A m \in Matcher, i \in Item : pc[m] = "claimed" /\ item[m] = i =>
    /\ Count(i) < line[i].qty
    /\ \A n \in Matcher : pc[n] = "claimed" /\ item[n] = i => n = m

IInv ==
  /\ OrderTypes /\ LineTypes /\ StockTypes /\ MatcherTypes
  /\ WorkInv /\ InstructInv /\ ClaimInv
  /\ AllocatedUnderOffer /\ AckedWasInstructed

LEMMA TypeParts ==
  OrderTypes /\ LineTypes /\ StockTypes /\ MatcherTypes => TypeOK
  BY DEF OrderTypes, LineTypes, StockTypes, MatcherTypes, TypeOK, Allocation,
         Row, Places

-----------------------------------------------------------------------------
(* The operators.                                                            *)

\* Sets of devices are counted.
LEMMA DeviceSets ==
  ASSUME NEW S \in SUBSET Device
  PROVE  /\ Cardinality(S) \in Nat
         /\ Cardinality(S) = 0 <=> S = {}
         /\ \A d \in Device \ S :
              Cardinality(S \cup {d}) = Cardinality(S) + 1
<1>1. IsFiniteSet(S)
  BY FS_Subset
<1>. QED
  BY <1>1, FS_CardinalityType, FS_EmptySet, FS_AddElement

LEMMA Counted ==
  ASSUME NEW i
  PROVE  /\ Of(i) \in SUBSET Device
         /\ Count(i) \in Nat
         /\ Count(i) = 0 <=> Of(i) = {}
<1>1. Of(i) \in SUBSET Device
  BY DEF Of, Active
<1>. QED
  BY <1>1, DeviceSets DEF Count

\* The records of lines and allocations under their updates.
LEMMA LineUpdates ==
  ASSUME NEW l \in Line, NEW s \in WorkStatus
  PROVE  /\ l.canceled \in BOOLEAN /\ l.qty \in 0..MaxQty
         /\ l.offer \in Offer \cup {NoOffer} /\ l.st \in WorkStatus
         /\ LET r == [l EXCEPT !.st = s]
            IN  /\ r \in Line /\ r.st = s
                /\ r.qty = l.qty /\ r.offer = l.offer
         /\ \A o \in Offer \cup {NoOffer} :
              LET r == [l EXCEPT !.offer = o, !.st = s]
              IN  r \in Line /\ r.st = s /\ r.qty = l.qty /\ r.offer = o
         /\ \A c \in BOOLEAN, q \in 0..MaxQty :
              LET r == [l EXCEPT !.canceled = c, !.qty = q]
              IN  r \in Line /\ r.offer = l.offer /\ r.st = l.st
  BY DEF Line

LEMMA AllocationUpdates ==
  /\ NoAlloc.st = "NONE"
  /\ \A a \in {NoAlloc} \cup Allocation :
       /\ a.st # "NONE" => a \in Allocation
       /\ a \in Allocation => /\ a.st \in {"ALLOCATED", "API_ACKED", "PRINTED"}
                              /\ a.item \in Item
                              /\ a.offer \in Offer \cup {NoOffer}
       /\ \A s \in {"API_ACKED", "PRINTED"} : a.st # "NONE" =>
            LET r == [a EXCEPT !.st = s]
            IN  r \in Allocation /\ r.st = s /\ r.item = a.item
                /\ r.offer = a.offer
  BY DEF Allocation, NoAlloc

LEMMA ActiveAllocations ==
  ASSUME StockTypes, NEW d \in Active
  PROVE  /\ d \in Device /\ alloc[d] \in Allocation
         /\ alloc[d].item \in Item /\ alloc[d].offer \in Offer \cup {NoOffer}
         /\ alloc[d].st \in {"ALLOCATED", "API_ACKED", "PRINTED"}
<1>1. d \in Device /\ alloc[d].st # "NONE"
  BY DEF Active
<1>2. PICK a \in {NoAlloc} \cup Allocation : a = alloc[d]
  BY <1>1 DEF StockTypes
<1>. QED
  BY <1>1, <1>2, AllocationUpdates

LEMMA PreMatchStatus ==
  ASSUME NEW c, NEW q, NEW o
  PROVE  PreMatch(c, q, o) \in WorkStatus
  BY DEF PreMatch, WorkStatus

LEMMA StatusForStatus ==
  ASSUME NEW l, NEW n, NEW noted
  PROVE  StatusFor(l, n, noted) \in WorkStatus
  BY DEF StatusFor, WorkStatus

LEMMA NextStatusStatus ==
  ASSUME NEW q, NEW n
  PROVE  NextStatus(q, n) \in WorkStatus
  BY DEF NextStatus, WorkStatus

\* The allocations go on belonging to the same lines, for the same offers.
KeepsOwners ==
  \A d \in Device : /\ alloc'[d].st = "NONE" <=> alloc[d].st = "NONE"
                    /\ alloc'[d].item = alloc[d].item
                    /\ alloc'[d].offer = alloc[d].offer

LEMMA OwnersKept ==
  ASSUME KeepsOwners
  PROVE  Active' = Active /\ \A i : Of(i)' = Of(i) /\ Count(i)' = Count(i)
<1>1. Active' = Active
  BY DEF KeepsOwners, Active
<1>2. \A i : Of(i)' = Of(i)
  BY <1>1 DEF KeepsOwners, Of, Active
<1>. QED
  BY <1>1, <1>2 DEF Count

LEMMA NoChangeKeepsOwners == UNCHANGED alloc => KeepsOwners
  BY DEF KeepsOwners

LEMMA AcknowledgedKeeps ==
  ASSUME StockTypes
  PROVE  /\ Acknowledged \in [Device -> {NoAlloc} \cup Allocation]
         /\ alloc' = Acknowledged => KeepsOwners
<1>1. ASSUME NEW d \in Device
      PROVE  /\ Acknowledged[d] \in {NoAlloc} \cup Allocation
             /\ Acknowledged[d].st = "NONE" <=> alloc[d].st = "NONE"
             /\ Acknowledged[d].item = alloc[d].item
             /\ Acknowledged[d].offer = alloc[d].offer
  <2>1. alloc[d] \in {NoAlloc} \cup Allocation
    BY DEF StockTypes
  <2>. QED
    BY <2>1, AllocationUpdates DEF Acknowledged
<1>. QED
  BY <1>1 DEF Acknowledged, KeepsOwners

-----------------------------------------------------------------------------
(* What a step keeps.                                                        *)

Here == OrderTypes /\ LineTypes /\ StockTypes
Working == MatcherTypes /\ WorkInv

\* What a line needs, and what it has, stays the same.
KeepsQuantities ==
  \A i \in Item : Count(i)' = Count(i) /\ line'[i].qty = line[i].qty

\* Nobody comes to claim a line.
ClaimsNothing ==
  \A m \in Matcher : pc'[m] = "claimed" =>
    pc[m] = "claimed" /\ item'[m] = item[m]

LEMMA ClaimsKept ==
  ClaimInv /\ KeepsQuantities /\ ClaimsNothing => ClaimInv'
<1>. SUFFICES ASSUME ClaimInv, KeepsQuantities, ClaimsNothing,
                     NEW m \in Matcher, NEW i \in Item,
                     pc'[m] = "claimed", item'[m] = i
              PROVE  /\ Count(i)' < line'[i].qty
                     /\ \A n \in Matcher :
                          pc'[n] = "claimed" /\ item'[n] = i => n = m
  BY DEF ClaimInv
<1>1. pc[m] = "claimed" /\ item[m] = i
  BY DEF ClaimsNothing
<1>2. Count(i)' = Count(i) /\ line'[i].qty = line[i].qty
  BY DEF KeepsQuantities
<1>. QED
  BY <1>1, <1>2 DEF ClaimInv, ClaimsNothing

\* While no row is held.
LEMMA NoClaims ==
  ASSUME Working, RowsFree, ClaimsNothing
  PROVE  ClaimInv'
<1>1. \A m \in Matcher : pc[m] # "claimed"
  BY DEF Working, WorkInv, OnALine, RowsFree, RowFree
<1>. QED
  BY <1>1 DEF ClaimsNothing, ClaimInv

LEMMA OffersKept ==
  ASSUME Here, AllocatedUnderOffer, KeepsOwners,
         \A d \in Active : line'[alloc[d].item].offer = line[alloc[d].item].offer
  PROVE  AllocatedUnderOffer'
<1>1. \A d \in Active' : d \in Device /\ d \in Active
                         /\ alloc'[d].item = alloc[d].item
                         /\ alloc'[d].offer = alloc[d].offer
  BY OwnersKept DEF KeepsOwners, Active
<1>. QED
  BY <1>1 DEF AllocatedUnderOffer

\* Who works on no line may be anywhere.
LEMMA LeavesKeeps ==
  ASSUME Working, NEW m \in Matcher, NEW to \in Places \ OnALine, Leaves(m, to)
  PROVE  Working' /\ ClaimsNothing /\ pc' = [pc EXCEPT ![m] = to]
<1>1. NoRow \in Row
  BY DEF NoRow, Row
<1>2. MatcherTypes'
  BY <1>1 DEF Working, Leaves, Goes, MatcherTypes
<1>3. WorkInv'
  BY DEF Working, Leaves, Goes, MatcherTypes, WorkInv, OnALine
<1>4. ClaimsNothing
  BY DEF Working, Leaves, Goes, MatcherTypes, ClaimsNothing, OnALine
<1>. QED
  BY <1>2, <1>3, <1>4 DEF Working, Leaves, Goes

LEMMA GoesKeeps ==
  ASSUME Working, NEW m \in Matcher, NEW to \in Places \ OnALine, Goes(m, to),
         UNCHANGED Locals
  PROVE  Working' /\ ClaimsNothing
<1>1. MatcherTypes'
  BY DEF Working, Goes, Locals, MatcherTypes
<1>2. WorkInv'
  BY DEF Working, Goes, Locals, MatcherTypes, WorkInv, OnALine
<1>3. ClaimsNothing
  BY DEF Working, Goes, Locals, MatcherTypes, ClaimsNothing, OnALine
<1>. QED
  BY <1>1, <1>2, <1>3 DEF Working

LEMMA RestKeeps ==
  ASSUME Working, UNCHANGED matchers
  PROVE  Working' /\ ClaimsNothing /\ pc' = pc
  BY DEF Working, matchers, MatcherTypes, WorkInv, ClaimsNothing

-----------------------------------------------------------------------------
(* The steps that leave lines and devices alone.                             *)

LEMMA InitIInv == Init => IInv
<1>. SUFFICES ASSUME Init PROVE IInv
  OBVIOUS
<1>1. Active = {}
  BY DEF Init, Active, NoAlloc
<1>2. OrderTypes /\ LineTypes
  <2>1. LineTypes
    BY DEF Init, LineTypes
  <2>2. OrderTypes
    <3>1. changes \in 0..MaxChange
      BY DEF Init
    <3>2. intent \in BOOLEAN /\ req \in InFlight \cup {"NONE"}
      BY DEF Init
    <3>. QED
      BY <3>1, <3>2 DEF Init, OrderTypes
  <2>. QED
    BY <2>1, <2>2
<1>3. StockTypes
  BY DEF Init, StockTypes
<1>4. NoRow \in Row
  BY DEF NoRow, Row
<1>5. MatcherTypes
  BY <1>4 DEF Init, MatcherTypes, Places
<1>6. WorkInv /\ InstructInv /\ ClaimInv
  BY DEF Init, WorkInv, InstructInv, ClaimInv, OnALine
<1>7. AllocatedUnderOffer /\ AckedWasInstructed
  BY <1>1 DEF AllocatedUnderOffer, AckedWasInstructed
<1>. QED
  BY <1>2, <1>3, <1>5, <1>6, <1>7 DEF IInv

LEMMA LinesAlone ==
  ASSUME IInv, UNCHANGED <<line, alloc, stock>>, Working', ClaimsNothing,
         OrderTypes', InstructInv',
         raw' = "ACCEPT" => raw = "ACCEPT", chan' = "ACCEPT" => chan = "ACCEPT"
  PROVE  IInv'
<1>1. KeepsOwners
  BY DEF KeepsOwners
<1>2. Active' = Active /\ \A i : Count(i)' = Count(i)
  BY <1>1, OwnersKept
<1>3. ClaimInv'
  BY <1>2, ClaimsKept DEF IInv, KeepsQuantities
<1>4. AllocatedUnderOffer' /\ AckedWasInstructed'
  BY <1>2 DEF IInv, AllocatedUnderOffer, AckedWasInstructed
<1>. QED
  BY <1>3, <1>4 DEF IInv, Working, LineTypes, StockTypes, stock

\* A matcher reads, or is done, and what it looks for is no secret.
LEMMA ReadStep ==
  ASSUME IInv, NEW m \in Matcher, NEW i \in Item,
         ReconcileRead(m, i) \/ Load(m, i)
  PROVE  IInv'
<1>1. MatcherTypes'
  <2>1. [offer |-> line[i].offer, qty |-> line[i].qty] \in Row
    BY DEF IInv, LineTypes, Line, Row
  <2>2. CASE ReconcileRead(m, i)
    BY <2>2 DEF IInv, MatcherTypes, ReconcileRead, Goes, Places
  <2>3. CASE Load(m, i)
    BY <2>1, <2>3 DEF IInv, MatcherTypes, Load, Goes, Places
  <2>. QED
    BY <2>2, <2>3
<1>2. WorkInv' /\ ClaimsNothing
  BY DEF IInv, MatcherTypes, WorkInv, ReconcileRead, Load, Goes, OnALine,
         ClaimsNothing
<1>3. OrderTypes' /\ InstructInv'
  BY DEF IInv, OrderTypes, MatcherTypes, InstructInv, ReconcileRead, Load,
         Goes, order, manual
<1>4. UNCHANGED <<line, alloc, stock>>
  BY DEF ReconcileRead, Load
<1>5. UNCHANGED <<chan, raw>>
  BY DEF ReconcileRead, Load, order
<1>. QED
  BY <1>1, <1>2, <1>3, <1>4, <1>5, LinesAlone DEF Working

LEMMA StartStep ==
  ASSUME IInv, NEW m \in Matcher, Start(m)
  PROVE  IInv'
<1>. DEFINE o == row[m].offer
            n == row[m].qty - Count(item[m])
<1>1. Working' /\ ClaimsNothing
  <2>1. CASE Ends(m)
    BY <2>1, LeavesKeeps DEF IInv, Working, Ends, Places, OnALine
  <2>2. CASE n < 0 /\ ~Ends(m)
    <3>1. /\ pc' = [pc EXCEPT ![m] = "finalizing"]
          /\ note' = [note EXCEPT ![m] = "EXCEEDED"]
          /\ UNCHANGED <<item, row, cand, left, pick>>
      BY <2>2, Counted DEF Start, Goes, IInv, MatcherTypes, Row
    <3>. QED
      BY <3>1 DEF IInv, Working, MatcherTypes, WorkInv, ClaimsNothing, OnALine,
                  Places, Start
  <2>3. CASE n >= 0 /\ ~Ends(m)
    <3>1. n \in 0..MaxQty
      <4>1. row[m] \in Row
        BY DEF IInv, MatcherTypes
      <4>. QED
        BY <2>3, <4>1, Counted DEF Row
    <3>. HIDE DEF n
    <3>2. PICK C \in {{}, Candidates(o)} :
            /\ cand' = [cand EXCEPT ![m] = IF n = 0 THEN {} ELSE C]
            /\ note' = [note EXCEPT ![m] =
                          IF n > 0 /\ C = {} THEN "OTHER" ELSE @]
            /\ left' = [left EXCEPT ![m] = n]
            /\ pc' = [pc EXCEPT ![m] = "trying"]
            /\ UNCHANGED <<item, row, pick>>
      BY <2>3, <3>1 DEF Start, Goes, n
    <3>3. C \in SUBSET Device
      BY DEF Candidates
    <3>. QED
      BY <3>1, <3>2, <3>3 DEF IInv, Working, MatcherTypes, WorkInv,
         ClaimsNothing, OnALine, Places, Start
  <2>. QED
    BY <2>1, <2>2, <2>3, Counted DEF Start, IInv, MatcherTypes, Row
<1>2. OrderTypes'
  BY DEF IInv, OrderTypes, Start, order, manual
<1>3. InstructInv'
  <2>1. pc' \in [Matcher -> Places] /\
        \A k \in Matcher : pc'[k] \in {"acking", "reserving"} => pc'[k] = pc[k]
    BY <1>1 DEF IInv, MatcherTypes, Working, Start, Ends, Leaves, Goes
  <2>. QED
    BY <2>1 DEF IInv, InstructInv, Start, order
<1>. QED
  BY <1>1, <1>2, <1>3, LinesAlone DEF Start, order

\* A line is claimed while its row is free.
LEMMA ClaimStep ==
  ASSUME IInv, NEW m \in Matcher, NEW d \in Device, Claim(m, d)
  PROVE  IInv'
<1>1. pc[m] = "trying" /\ left[m] > 0 /\ item[m] \in Item
  BY DEF Claim, IInv, WorkInv, OnALine
<1>2. PICK i \in Item : i = item[m]
  BY <1>1
<1>3. CASE MayAllocate(m) /\ pc' = [pc EXCEPT ![m] = "claimed"]
                          /\ pick' = [pick EXCEPT ![m] = d]
                          /\ UNCHANGED <<item, row, cand, left, note>>
  <2>1. Working'
    BY <1>1, <1>3 DEF IInv, Working, MatcherTypes, WorkInv, OnALine, Places
  <2>2. Count(i) < line[i].qty
    BY <1>2, <1>3 DEF MayAllocate, Count, Of
  <2>3. \A n \in Matcher : pc[n] = "claimed" => item[n] # i
    BY <1>2 DEF Claim, RowFree
  <2>4. \A j \in Item : Count(j)' = Count(j)
    BY OwnersKept DEF Claim, KeepsOwners
  <2>5. ClaimInv'
    <3>. SUFFICES ASSUME NEW k \in Matcher, NEW j \in Item,
                         pc'[k] = "claimed", item'[k] = j
                  PROVE  /\ Count(j)' < line'[j].qty
                         /\ \A n \in Matcher :
                              pc'[n] = "claimed" /\ item'[n] = j => n = k
      BY DEF ClaimInv
    <3>1. line' = line /\ Count(j)' = Count(j)
      BY <2>4 DEF Claim
    <3>2. CASE k = m
      BY <1>2, <1>3, <2>2, <2>3, <3>1, <3>2 DEF IInv, MatcherTypes
    <3>3. CASE k # m
      BY <1>2, <1>3, <2>3, <3>1, <3>3 DEF IInv, MatcherTypes, ClaimInv
    <3>. QED
      BY <3>2, <3>3
  <2>6. OrderTypes' /\ InstructInv'
    BY <1>3 DEF IInv, OrderTypes, MatcherTypes, InstructInv, Claim, order,
                manual
  <2>7. AllocatedUnderOffer' /\ AckedWasInstructed'
    BY DEF IInv, Claim, order, Active, AllocatedUnderOffer, AckedWasInstructed
  <2>8. LineTypes' /\ StockTypes'
    BY DEF IInv, Claim, stock, LineTypes, StockTypes
  <2>. QED
    BY <2>1, <2>5, <2>6, <2>7, <2>8 DEF IInv, Working
<1>4. CASE /\ pc' = [pc EXCEPT ![m] = "finalizing"]
           /\ note' = [note EXCEPT ![m] =
                IF intent /\ line[item[m]].offer = row[m].offer
                THEN "OTHER" ELSE @]
           /\ UNCHANGED <<item, row, cand, left, pick>>
  <2>1. Working' /\ ClaimsNothing
    BY <1>1, <1>4 DEF IInv, Working, MatcherTypes, WorkInv, OnALine, Places,
                      ClaimsNothing
  <2>2. OrderTypes' /\ InstructInv'
    BY <1>4 DEF IInv, OrderTypes, MatcherTypes, InstructInv, Claim, order,
                manual
  <2>. QED
    BY <2>1, <2>2, LinesAlone DEF Claim, order
<1>. QED
  BY <1>3, <1>4 DEF Claim, Goes

LEMMA LookStep ==
  ASSUME IInv, NEW m \in Matcher, Look(m)
  PROVE  IInv'
<1>1. PICK to \in {"asking", "acking", "idle"} :
        Leaves(m, to) /\ (to = "acking" => raw # "ACCEPT")
  BY DEF Look, Ends
<1>2. Working' /\ ClaimsNothing /\ pc' = [pc EXCEPT ![m] = to]
  BY <1>1, LeavesKeeps DEF IInv, Working, Places, OnALine
<1>3. OrderTypes'
  BY DEF IInv, OrderTypes, Look, order
<1>4. InstructInv'
  BY <1>1, <1>2 DEF IInv, MatcherTypes, InstructInv, Look, order
<1>. QED
  BY <1>2, <1>3, <1>4, LinesAlone DEF Look, order

LEMMA ReadAllocationsStep ==
  ASSUME IInv, NEW m \in Matcher, ReadAllocations(m)
  PROVE  IInv'
<1>1. MatcherTypes'
  BY DEF IInv, MatcherTypes, ReadAllocations, Goes, Active, Places
<1>2. WorkInv' /\ ClaimsNothing
  BY DEF IInv, MatcherTypes, WorkInv, ReadAllocations, Goes, OnALine,
         ClaimsNothing
<1>3. OrderTypes' /\ InstructInv'
  BY DEF IInv, OrderTypes, MatcherTypes, InstructInv, ReadAllocations, Goes,
         order, manual
<1>. QED
  BY <1>1, <1>2, <1>3, LinesAlone DEF Working, ReadAllocations, order

\* The write and its call.
LEMMA WriteStep ==
  ASSUME IInv, NEW m \in Matcher, Request(m) \/ Send(m) \/ Call(m)
  PROVE  IInv'
<1>1. PICK to \in {"sending", "idle", "calling", "localizing"} : Goes(m, to)
  BY DEF Request, Send, Call
<1>2. UNCHANGED Locals
  BY DEF Request, Send, Call
<1>3. Working' /\ ClaimsNothing
  BY <1>1, <1>2, GoesKeeps DEF IInv, Working, Places, OnALine
<1>4. chan' \in {"ACCEPT", "INSTRUCT", "DEPARTURE"}
      /\ (chan' = "ACCEPT" => chan = "ACCEPT") /\ raw' = raw
  BY DEF IInv, OrderTypes, Request, Send, Call, order
<1>5. req' \in InFlight \cup {"NONE", "NOT_APPLIED", "COMPLETED"}
  BY DEF IInv, OrderTypes, Request, Send, Call, InFlight
<1>6. OrderTypes'
  BY <1>4, <1>5 DEF IInv, OrderTypes, Request, Send, Call, order, manual
<1>7. req' = "LOCAL_PENDING" => chan' # "ACCEPT"
  BY DEF IInv, OrderTypes, InstructInv, Request, Send, Call, order
<1>8. InstructInv'
  BY <1>1, <1>4, <1>7 DEF IInv, OrderTypes, MatcherTypes, InstructInv, Goes
<1>. QED
  BY <1>3, <1>4, <1>6, <1>8, LinesAlone DEF Request, Send, Call, order

LEMMA CrashStep ==
  ASSUME IInv, NEW m \in Matcher, Crash(m)
  PROVE  IInv'
<1>1. Working' /\ ClaimsNothing /\ pc' = [pc EXCEPT ![m] = "idle"]
  BY LeavesKeeps DEF Crash, Ends, IInv, Working, Places, OnALine
<1>2. OrderTypes' /\ InstructInv'
  BY <1>1 DEF IInv, OrderTypes, MatcherTypes, InstructInv, Crash, Forgets,
              manual
<1>. QED
  BY <1>1, <1>2, LinesAlone DEF Crash, order

\* The channel, the review of the write and the leases of a manual match.
LEMMA AsideStep ==
  ASSUME IInv, ChannelMoves \/ Review \/ Acquire \/ Snapshot \/ GiveUp
  PROVE  IInv'
<1>1. Working' /\ ClaimsNothing /\ pc' = pc
  BY RestKeeps DEF IInv, Working, ChannelMoves, Review, Acquire, Snapshot,
                   GiveUp
<1>2. OrderTypes'
  <2>1. CASE ChannelMoves \/ Review
    BY <2>1 DEF IInv, OrderTypes, ChannelMoves, Review, Changes, Reviewed,
                InFlight, order, manual
  <2>2. CASE Acquire
    BY <2>2 DEF IInv, OrderTypes, Acquire, Changes, order
  <2>3. CASE Snapshot \/ GiveUp
    BY <2>3 DEF IInv, OrderTypes, Snapshot, GiveUp, Active, order
  <2>. QED
    BY <2>1, <2>2, <2>3
<1>3. InstructInv' /\ raw' = raw /\ (chan' = "ACCEPT" => chan = "ACCEPT")
  BY <1>1 DEF IInv, OrderTypes, InstructInv, ChannelMoves, Review, Acquire,
              Snapshot, GiveUp, Reviewed, order
<1>. QED
  BY <1>1, <1>2, <1>3, LinesAlone
  DEF ChannelMoves, Review, Acquire, Snapshot, GiveUp

-----------------------------------------------------------------------------
(* The steps that change lines and devices, while each line keeps its own.   *)

LEMMA StatusSet ==
  ASSUME LineTypes, NEW i \in Item, NEW s \in WorkStatus,
         line' = [line EXCEPT ![i].st = s]
  PROVE  /\ LineTypes'
         /\ \A j \in Item : line'[j].qty = line[j].qty
                            /\ line'[j].offer = line[j].offer
<1>1. PICK l \in Line : l = line[i]
  BY DEF LineTypes
<1>2. line' = [line EXCEPT ![i] = [l EXCEPT !.st = s]]
  BY <1>1
<1>. DEFINE r == [l EXCEPT !.st = s]
<1>3. r \in Line /\ r.qty = l.qty /\ r.offer = l.offer
  BY LineUpdates
<1>4. line' = [line EXCEPT ![i] = r]
  BY <1>2
<1>. HIDE DEF r
<1>. QED
  BY <1>1, <1>3, <1>4 DEF LineTypes

\* Each line keeps its devices, its quantity and its offer.
LEMMA LinesKeep ==
  ASSUME IInv, KeepsOwners, LineTypes', StockTypes', OrderTypes', Working',
         \A j \in Item : line'[j].qty = line[j].qty
                         /\ line'[j].offer = line[j].offer,
         ClaimsNothing, InstructInv', AckedWasInstructed'
  PROVE  IInv'
<1>1. \A i : Count(i)' = Count(i)
  BY OwnersKept
<1>2. ClaimInv'
  BY <1>1, ClaimsKept DEF IInv, KeepsQuantities
<1>3. \A d \in Active : alloc[d].item \in Item
  BY ActiveAllocations DEF IInv
<1>4. AllocatedUnderOffer'
  BY <1>3, OffersKept DEF IInv, Here
<1>. QED
  BY <1>2, <1>4 DEF IInv, Working

LEMMA SameOrder ==
  ASSUME IInv, UNCHANGED <<chan, raw, req, alloc>>,
         \A m \in Matcher : pc'[m] \in {"acking", "reserving"} => pc'[m] = pc[m]
  PROVE  InstructInv' /\ AckedWasInstructed'
  BY DEF IInv, InstructInv, AckedWasInstructed, Active

LEMMA ReconcileWriteStep ==
  ASSUME IInv, NEW m \in Matcher, ReconcileWrite(m)
  PROVE  IInv'
<1>1. PICK i \in Item : i = item[m]
  BY DEF ReconcileWrite, IInv, WorkInv, OnALine
<1>2. PICK s \in WorkStatus : line' = [line EXCEPT ![i].st = s]
  <2>1. note[m] \in WorkStatus
    BY DEF ReconcileWrite, IInv, WorkInv, WorkStatus
  <2>2. line[i].st \in WorkStatus
    <3>1. line[i] \in Line
      BY DEF IInv, LineTypes
    <3>. QED
      BY <3>1 DEF Line
  <2>3. line' = [line EXCEPT ![i].st = IF line[i].st = "EXPIRED"
                                      THEN line[i].st ELSE note[m]]
    BY <1>1 DEF ReconcileWrite
  <2>. QED
    BY <2>1, <2>2, <2>3
<1>3. Working' /\ ClaimsNothing /\ pc' = [pc EXCEPT ![m] = "idle"]
  BY LeavesKeeps DEF ReconcileWrite, Ends, IInv, Working, Places, OnALine
<1>4. InstructInv' /\ AckedWasInstructed'
  BY <1>3, SameOrder DEF ReconcileWrite, IInv, MatcherTypes, order
<1>5. OrderTypes' /\ StockTypes' /\ KeepsOwners
  BY DEF ReconcileWrite, IInv, OrderTypes, StockTypes, order, stock, manual,
         KeepsOwners
<1>. QED
  BY <1>2, <1>3, <1>4, <1>5, StatusSet, LinesKeep DEF IInv

LEMMA ReservesTypes ==
  ASSUME StockTypes, NEW D \in SUBSET Device, Reserves(D)
  PROVE  inv' \in [Device -> {"SELLABLE", "RESERVED", "PACKING", "HOLD"}]
  BY DEF StockTypes, Reserves

LEMMA FinalizeStep ==
  ASSUME IInv, NEW m \in Matcher, Finalize(m)
  PROVE  IInv'
<1>1. PICK i \in Item : i = item[m]
  BY DEF Finalize, IInv, WorkInv, OnALine
<1>2. PICK to \in {"post", "idle"} : Leaves(m, to)
  BY DEF Finalize, Ends
<1>3. Working' /\ ClaimsNothing /\ pc' = [pc EXCEPT ![m] = to]
  BY <1>2, LeavesKeeps DEF IInv, Working, Places, OnALine
<1>4. InstructInv' /\ AckedWasInstructed'
  BY <1>3, SameOrder DEF Finalize, IInv, MatcherTypes
<1>5. OrderTypes' /\ KeepsOwners
  BY DEF Finalize, Forgets, IInv, OrderTypes, manual, KeepsOwners
<1>6. CASE UNCHANGED <<line, inv>>
  <2>1. LineTypes' /\ StockTypes'
    BY <1>6 DEF Finalize, IInv, LineTypes, StockTypes
  <2>. QED
    BY <1>3, <1>4, <1>5, <1>6, <2>1, LinesKeep
<1>7. CASE /\ line' = [line EXCEPT
                         ![i].st = StatusFor(line[i], Count(i), note[m])]
           /\ Reserves(Of(i))
  <2>1. PICK s \in WorkStatus : s = StatusFor(line[i], Count(i), note[m])
    BY StatusForStatus
  <2>2. line' = [line EXCEPT ![i].st = s]
    BY <1>7, <2>1
  <2>3. Of(i) \in SUBSET Device
    BY Counted
  <2>4. StockTypes'
    BY <1>7, <2>3, ReservesTypes DEF Finalize, IInv, StockTypes
  <2>. QED
    BY <1>3, <1>4, <1>5, <2>2, <2>4, StatusSet, LinesKeep DEF IInv
<1>. QED
  <2>1. \/ UNCHANGED <<line, inv>>
        \/ /\ line' = [line EXCEPT ![item[m]].st =
                         StatusFor(line[item[m]], Count(item[m]), note[m])]
           /\ Reserves(Of(item[m]))
    BY DEF Finalize
  <2>. QED
    BY <1>1, <1>6, <1>7, <2>1

LEMMA MarkAckedStep ==
  ASSUME IInv, NEW m \in Matcher, MarkAcked(m)
  PROVE  IInv'
<1>1. Working' /\ ClaimsNothing /\ pc' = [pc EXCEPT ![m] = "idle"]
  BY LeavesKeeps DEF MarkAcked, Ends, IInv, Working, Places, OnALine
<1>2. raw # "ACCEPT" /\ chan # "ACCEPT"
  BY DEF MarkAcked, IInv, InstructInv
<1>3. LineTypes' /\ OrderTypes'
  BY DEF MarkAcked, IInv, LineTypes, OrderTypes, order, manual
<1>4. InstructInv' /\ AckedWasInstructed'
  BY <1>1, <1>2 DEF MarkAcked, IInv, MatcherTypes, InstructInv,
                    AckedWasInstructed, order
<1>5. alloc' \in {alloc, Acknowledged} /\ KeepsOwners
  BY AcknowledgedKeeps, NoChangeKeepsOwners DEF MarkAcked, IInv
<1>6. StockTypes'
  <2>1. cand[m] \in SUBSET Device
    BY DEF IInv, MatcherTypes
  <2>2. inv' \in [Device -> {"SELLABLE", "RESERVED", "PACKING", "HOLD"}]
    BY <2>1, ReservesTypes DEF MarkAcked, IInv, StockTypes
  <2>. QED
    BY <1>5, <2>2, AcknowledgedKeeps DEF MarkAcked, IInv, StockTypes
<1>. QED
  BY <1>1, <1>3, <1>4, <1>5, <1>6, LinesKeep DEF MarkAcked

LEMMA LocalizeStep ==
  ASSUME IInv, NEW m \in Matcher, Localize(m)
  PROVE  IInv'
<1>1. Working' /\ ClaimsNothing /\ pc' = [pc EXCEPT ![m] = "idle"]
  BY GoesKeeps DEF Localize, Goes, IInv, Working, Places, OnALine
<1>2. chan # "ACCEPT" /\ raw' \in {raw, "INSTRUCT"}
      /\ (raw' = "ACCEPT" => alloc' = alloc)
  BY DEF Localize, IInv, InstructInv
<1>3. LineTypes' /\ OrderTypes'
  BY <1>2 DEF Localize, IInv, LineTypes, OrderTypes, manual
<1>4. alloc' \in {alloc, Acknowledged} /\ KeepsOwners
  BY AcknowledgedKeeps, NoChangeKeepsOwners DEF Localize, IInv
<1>5. InstructInv'
  BY <1>1, <1>2 DEF Localize, IInv, MatcherTypes, InstructInv
<1>6. AckedWasInstructed'
  <2>1. CASE raw' = "ACCEPT"
    BY <1>2, <2>1 DEF Localize, IInv, AckedWasInstructed, Active
  <2>2. CASE raw' # "ACCEPT"
    BY <1>2, <2>2 DEF Localize, AckedWasInstructed
  <2>. QED
    BY <2>1, <2>2
<1>7. StockTypes'
  <2>1. {d \in Active : alloc[d].st # "PRINTED"} \in SUBSET Device
    BY DEF Active
  <2>2. inv' \in [Device -> {"SELLABLE", "RESERVED", "PACKING", "HOLD"}]
    BY <2>1, ReservesTypes DEF Localize, IInv, StockTypes
  <2>. QED
    BY <1>4, <2>2, AcknowledgedKeeps DEF Localize, IInv, StockTypes
<1>. QED
  BY <1>1, <1>3, <1>4, <1>5, <1>6, <1>7, LinesKeep DEF Localize

-----------------------------------------------------------------------------
(* A device is allocated.                                                    *)

LEMMA AllocatesOne ==
  ASSUME StockTypes, LineTypes, NEW d \in Device \ Active, NEW i \in Item,
         Allocates(d, i)
  PROVE  /\ alloc' \in [Device -> {NoAlloc} \cup Allocation]
         /\ \A e \in Device \ {d} : alloc'[e] = alloc[e]
         /\ alloc'[d].item = i /\ alloc'[d].offer = line[i].offer
         /\ alloc'[d].st = "ALLOCATED"
         /\ Active' = Active \cup {d}
         /\ \A j : j # i => Of(j)' = Of(j) /\ Count(j)' = Count(j)
         /\ Count(i)' = Count(i) + 1
<1>. DEFINE a == [item |-> i, offer |-> line[i].offer, st |-> "ALLOCATED"]
<1>1. a \in Allocation
  <2>1. line[i].offer \in Offer \cup {NoOffer}
    <3>1. line[i] \in Line
      BY DEF LineTypes
    <3>. QED
      BY <3>1 DEF Line
  <2>. QED
    BY <2>1 DEF Allocation
<1>2. alloc' = [alloc EXCEPT ![d] = a]
  BY DEF Allocates
<1>3. a.item = i /\ a.offer = line[i].offer /\ a.st = "ALLOCATED"
  OBVIOUS
<1>. HIDE DEF a
<1>4. /\ alloc' \in [Device -> {NoAlloc} \cup Allocation]
      /\ \A e \in Device \ {d} : alloc'[e] = alloc[e]
      /\ alloc'[d] = a
  BY <1>1, <1>2 DEF StockTypes
<1>5. Active' = Active \cup {d}
  BY <1>3, <1>4 DEF Active
<1>6. \A j : j # i => Of(j)' = Of(j)
  BY <1>3, <1>4, <1>5 DEF Of, Active
<1>7. Of(i)' = Of(i) \cup {d}
  BY <1>3, <1>4, <1>5 DEF Of, Active
<1>8. Of(i) \in SUBSET Device /\ d \in Device \ Of(i)
  BY DEF Of, Active
<1>9. Cardinality(Of(i) \cup {d}) = Cardinality(Of(i)) + 1
  BY <1>8, DeviceSets
<1>10. Count(i)' = Count(i) + 1
  BY <1>7, <1>9 DEF Count
<1>. QED
  BY <1>3, <1>4, <1>5, <1>6, <1>10 DEF Count

\* Where a matcher commits, it leaves a line that nobody else has claimed.
LEMMA CommitStep ==
  ASSUME IInv, NEW m \in Matcher, Commit(m)
  PROVE  IInv'
<1>1. PICK i \in Item : i = item[m]
  BY DEF Commit, IInv, WorkInv, OnALine
<1>2. PICK d \in Device : d = pick[m]
  BY DEF Commit, IInv, WorkInv
<1>3. pc[m] = "claimed" /\ left[m] > 0 /\ pc' = [pc EXCEPT ![m] = "trying"]
  BY DEF Commit, Goes, IInv, WorkInv
<1>4. Working'
  <2>1. left[m] - 1 \in 0..MaxQty
    BY <1>3 DEF IInv, MatcherTypes
  <2>2. left' \in [Matcher -> 0..MaxQty]
        /\ cand' \in [Matcher -> SUBSET Device]
    BY <2>1 DEF Commit, IInv, MatcherTypes
  <2>3. pick' \in [Matcher -> Device \cup {NoDevice}]
        /\ (\A k \in Matcher \ {m} : pick'[k] = pick[k] /\ left'[k] = left[k])
    BY DEF Commit, IInv, MatcherTypes
  <2>4. UNCHANGED <<item, row, note>>
    BY DEF Commit
  <2>5. MatcherTypes'
    BY <1>3, <2>2, <2>3, <2>4 DEF IInv, MatcherTypes, Places
  <2>6. WorkInv'
    BY <1>3, <2>3, <2>4 DEF IInv, MatcherTypes, WorkInv, OnALine
  <2>. QED
    BY <2>5, <2>6 DEF Working
<1>5. OrderTypes' /\ LineTypes'
  BY DEF Commit, IInv, OrderTypes, LineTypes, order, manual
<1>6. InstructInv'
  BY <1>3 DEF Commit, IInv, MatcherTypes, InstructInv, order
<1>7. ClaimsNothing
  BY <1>3 DEF Commit, IInv, MatcherTypes, ClaimsNothing
<1>8. CASE UNCHANGED <<alloc, stock>>
  <2>1. KeepsOwners
    BY <1>8, NoChangeKeepsOwners
  <2>2. AckedWasInstructed'
    BY <1>8 DEF Commit, IInv, AckedWasInstructed, Active, order
  <2>3. StockTypes'
    BY <1>8 DEF IInv, StockTypes, stock
  <2>. QED
    BY <1>4, <1>5, <1>6, <1>7, <2>1, <2>2, <2>3, LinesKeep DEF Commit
<1>9. CASE /\ d \notin Active /\ Allocates(d, i)
           /\ inv' = [inv EXCEPT ![d] = IF <<i, d>> \in moved THEN @
                                        ELSE "RESERVED"]
           /\ moved' = moved \cup {<<i, d>>}
  <2>1. /\ alloc' \in [Device -> {NoAlloc} \cup Allocation]
        /\ \A e \in Device \ {d} : alloc'[e] = alloc[e]
        /\ alloc'[d].item = i /\ alloc'[d].offer = line[i].offer
        /\ alloc'[d].st = "ALLOCATED"
        /\ Active' = Active \cup {d}
        /\ \A j : j # i => Count(j)' = Count(j)
    BY <1>9, AllocatesOne DEF IInv
  <2>2. StockTypes'
    <3>1. inv' \in [Device -> {"SELLABLE", "RESERVED", "PACKING", "HOLD"}]
      BY <1>9 DEF IInv, StockTypes
    <3>2. moved' \in SUBSET (Item \X Device)
      BY <1>9 DEF IInv, StockTypes
    <3>. QED
      BY <2>1, <3>1, <3>2 DEF StockTypes
  <2>3. AllocatedUnderOffer' /\ AckedWasInstructed'
    <3>1. line' = line /\ chan' = chan /\ raw' = raw
      BY DEF Commit, order
    <3>2. \A e \in Active' :
            e = d \/ (e \in Active /\ alloc'[e] = alloc[e])
      BY <2>1 DEF Active
    <3>3. AllocatedUnderOffer'
      BY <2>1, <3>1, <3>2 DEF IInv, AllocatedUnderOffer
    <3>4. AckedWasInstructed'
      BY <2>1, <3>1, <3>2 DEF IInv, AckedWasInstructed
    <3>. QED
      BY <3>3, <3>4
  <2>4. ClaimInv'
    <3>. SUFFICES ASSUME NEW k \in Matcher, NEW j \in Item,
                         pc'[k] = "claimed", item'[k] = j
                  PROVE  /\ Count(j)' < line'[j].qty
                         /\ \A n \in Matcher :
                              pc'[n] = "claimed" /\ item'[n] = j => n = k
      BY DEF ClaimInv
    <3>1. k # m /\ pc[k] = "claimed" /\ item[k] = j
      BY <1>3, <1>7 DEF IInv, MatcherTypes, ClaimsNothing
    <3>2. j # i
      BY <1>1, <1>3, <3>1 DEF IInv, ClaimInv
    <3>3. Count(j)' = Count(j) /\ line' = line
      BY <2>1, <3>2 DEF Commit
    <3>. QED
      BY <1>7, <3>1, <3>3 DEF IInv, ClaimInv, ClaimsNothing
  <2>. QED
    BY <1>4, <1>5, <1>6, <2>2, <2>3, <2>4 DEF IInv, Working
<1>. QED
  BY <1>1, <1>2, <1>8, <1>9 DEF Commit

-----------------------------------------------------------------------------
(* What others do.                                                           *)

LEMMA CorrectStep ==
  ASSUME IInv, NEW d \in Device, Correct(d)
  PROVE  IInv'
<1>1. Working' /\ ClaimsNothing /\ pc' = pc
  BY RestKeeps DEF Correct, IInv, Working
<1>2. LineTypes' /\ StockTypes' /\ OrderTypes' /\ KeepsOwners
  <2>1. OrderTypes'
    BY DEF Correct, Changes, IInv, OrderTypes, order, manual
  <2>2. StockTypes'
    BY DEF Correct, IInv, StockTypes
  <2>. QED
    BY <2>1, <2>2 DEF Correct, IInv, LineTypes, KeepsOwners
<1>3. InstructInv' /\ AckedWasInstructed'
  BY <1>1, SameOrder DEF Correct, order
<1>. QED
  BY <1>1, <1>2, <1>3, LinesKeep DEF Correct

LEMMA ExpireStep ==
  ASSUME IInv, NEW i \in Item, Expire(i)
  PROVE  IInv'
<1>1. Working' /\ ClaimsNothing /\ pc' = pc
  BY RestKeeps DEF Expire, IInv, Working
<1>2. StockTypes' /\ OrderTypes' /\ KeepsOwners
  BY DEF Expire, Changes, IInv, OrderTypes, StockTypes, order, manual, stock,
         KeepsOwners
<1>3. InstructInv' /\ AckedWasInstructed'
  BY <1>1, SameOrder DEF Expire, order
<1>4. line' = [line EXCEPT ![i].st = "EXPIRED"] /\ "EXPIRED" \in WorkStatus
  BY DEF Expire, WorkStatus
<1>. QED
  BY <1>1, <1>2, <1>3, <1>4, StatusSet, LinesKeep DEF IInv

LEMMA PrintKeeps ==
  ASSUME StockTypes, ConfirmPrint
  PROVE  alloc' \in [Device -> {NoAlloc} \cup Allocation] /\ KeepsOwners
<1>1. ASSUME NEW d \in Device
      PROVE  /\ alloc'[d] \in {NoAlloc} \cup Allocation
             /\ alloc'[d].st = "NONE" <=> alloc[d].st = "NONE"
             /\ alloc'[d].item = alloc[d].item
             /\ alloc'[d].offer = alloc[d].offer
  <2>1. PICK a \in {NoAlloc} \cup Allocation : a = alloc[d]
    BY DEF StockTypes
  <2>2. CASE a.st = "NONE"
    BY <2>1, <2>2 DEF ConfirmPrint, Active
  <2>3. CASE a.st # "NONE"
    <3>1. alloc'[d] = [a EXCEPT !.st = "PRINTED"]
      BY <2>1, <2>3 DEF ConfirmPrint, Active
    <3>. DEFINE r == [a EXCEPT !.st = "PRINTED"]
    <3>2. r \in Allocation /\ r.st = "PRINTED" /\ r.item = a.item
          /\ r.offer = a.offer
      BY <2>3, AllocationUpdates
    <3>3. alloc'[d] = r
      BY <3>1
    <3>. HIDE DEF r
    <3>. QED
      BY <2>1, <2>3, <3>2, <3>3
  <2>. QED
    BY <2>2, <2>3
<1>. QED
  BY <1>1 DEF ConfirmPrint, KeepsOwners

LEMMA ConfirmPrintStep ==
  ASSUME IInv, ConfirmPrint
  PROVE  IInv'
<1>1. Working' /\ ClaimsNothing /\ pc' = pc
  BY RestKeeps DEF ConfirmPrint, IInv, Working
<1>2. LineTypes' /\ OrderTypes'
  BY DEF ConfirmPrint, Changes, IInv, OrderTypes, LineTypes, order, manual
<1>4. alloc' \in [Device -> {NoAlloc} \cup Allocation] /\ KeepsOwners
  BY PrintKeeps DEF IInv
<1>5. StockTypes'
  BY <1>4 DEF ConfirmPrint, IInv, StockTypes
<1>6. InstructInv'
  BY <1>1 DEF ConfirmPrint, IInv, InstructInv, order
<1>7. AckedWasInstructed'
  <2>1. Active' = Active
    BY <1>4, OwnersKept
  <2>2. \A d \in Active : alloc[d].st # "ALLOCATED"
    BY DEF ConfirmPrint
  <2>. QED
    BY <2>1, <2>2 DEF ConfirmPrint, IInv, AckedWasInstructed, order
<1>. QED
  BY <1>1, <1>2, <1>4, <1>5, <1>6, <1>7, LinesKeep DEF ConfirmPrint

\* A line that has devices is protected from another offer.
LEMMA ProtectedWithDevices ==
  ASSUME StockTypes, NEW d \in Active
  PROVE  Count(alloc[d].item) > 0 /\ Protected(alloc[d].item)
<1>1. PICK i : i = alloc[d].item
  OBVIOUS
<1>2. Of(i) # {}
  BY <1>1 DEF Of
<1>3. Count(i) > 0
  BY <1>2, Counted
<1>. QED
  BY <1>1, <1>3 DEF Protected

LEMMA MapOfferStep ==
  ASSUME IInv, NEW i \in Item, NEW o \in Offer \cup {NoOffer}, MapOffer(i, o)
  PROVE  IInv'
<1>1. Working' /\ ClaimsNothing /\ pc' = pc
  BY RestKeeps DEF MapOffer, IInv, Working
<1>2. StockTypes' /\ OrderTypes' /\ KeepsOwners
  <2>1. OrderTypes'
    BY DEF MapOffer, Changes, IInv, OrderTypes, manual
  <2>. QED
    BY <2>1 DEF MapOffer, IInv, StockTypes, stock, KeepsOwners
<1>3. InstructInv' /\ AckedWasInstructed'
  BY <1>1 DEF MapOffer, IInv, InstructInv, AckedWasInstructed, Active
<1>4. CASE line' = line
  BY <1>1, <1>2, <1>3, <1>4, LinesKeep DEF IInv, LineTypes
<1>5. CASE line' # line
  <2>1. PICK l \in Line : l = line[i]
    BY DEF IInv, LineTypes
  <2>2. PICK s \in WorkStatus : s = PreMatch(l.canceled, l.qty, o)
    BY PreMatchStatus
  <2>3. line' = [line EXCEPT ![i].offer = o,
                             ![i].st = PreMatch(line[i].canceled,
                                                line[i].qty, o)]
        /\ ~Protected(i)
    BY <1>5 DEF MapOffer
  <2>4. PICK r \in Line : /\ r = [l EXCEPT !.offer = o, !.st = s]
                          /\ r.qty = l.qty
    <3>. DEFINE x == [l EXCEPT !.offer = o, !.st = s]
    <3>1. x \in Line /\ x.qty = l.qty
      BY DEF Line
    <3>. HIDE DEF x
    <3>. SUFFICES x \in Line /\ x.qty = l.qty
      BY DEF x
    <3>. QED
      BY <3>1
  <2>5. line' = [line EXCEPT ![i] = [l EXCEPT !.offer = o, !.st = s]]
    BY <2>1, <2>2, <2>3
  <2>6. line' = [line EXCEPT ![i] = r]
    BY <2>4, <2>5
  <2>7. LineTypes' /\ \A j \in Item : line'[j].qty = line[j].qty
    BY <2>1, <2>4, <2>6 DEF IInv, LineTypes
  <2>8. ClaimInv'
    BY <1>1, <1>2, <2>7, ClaimsKept, OwnersKept DEF IInv, KeepsQuantities
  <2>9. \A d \in Active :
          line'[alloc[d].item].offer = line[alloc[d].item].offer
    <3>. SUFFICES ASSUME NEW d \in Active
                  PROVE  line'[alloc[d].item].offer = line[alloc[d].item].offer
      OBVIOUS
    <3>1. PICK j \in Item : j = alloc[d].item
      BY ActiveAllocations DEF IInv
    <3>2. j # i
      BY <2>3, <3>1, ProtectedWithDevices DEF IInv
    <3>. QED
      BY <2>6, <3>1, <3>2 DEF IInv, LineTypes
  <2>10. AllocatedUnderOffer'
    BY <1>2, <2>9, OffersKept DEF IInv, Here
  <2>. QED
    BY <1>1, <1>2, <1>3, <2>7, <2>8, <2>10 DEF IInv, Working
<1>. QED
  BY <1>4, <1>5

LEMMA SynchronizedLine ==
  ASSUME OrderTypes, NEW j \in Item, NEW l \in Line
  PROVE  /\ Synchronized(j, l) \in Line
         /\ Count(j) > 0 => Synchronized(j, l) = l
<1>. DEFINE o == IF Protected(j) THEN l.offer ELSE mapping[j]
            s == PreMatch(l.canceled, l.qty, o)
            r == [l EXCEPT !.offer = o, !.st = s]
<1>1. Synchronized(j, l) \in {l, r} /\ (Count(j) > 0 => Synchronized(j, l) = l)
  BY DEF Synchronized
<1>2. o \in Offer \cup {NoOffer}
  BY DEF OrderTypes, Line
<1>3. s \in WorkStatus
  BY PreMatchStatus
<1>. HIDE DEF o, s
<1>4. r \in Line
  BY <1>2, <1>3 DEF Line
<1>. QED
  BY <1>1, <1>4

\* A page of the order sync.
LEMMA SyncStep ==
  ASSUME IInv, NEW i \in Item, NEW c \in BOOLEAN, NEW q \in 0..MaxQty,
         Sync(i, c, q)
  PROVE  IInv'
<1>1. Working' /\ ClaimsNothing /\ pc' = pc
  BY RestKeeps DEF Sync, IInv, Working
<1>2. StockTypes' /\ OrderTypes' /\ KeepsOwners
  <2>1. /\ raw' = chan /\ changes' = changes + 1 /\ changes < MaxChange
        /\ UNCHANGED <<chan, mapping, reset, req, intent, hand, seen>>
    BY DEF Sync, Changes, manual
  <2>2. OrderTypes'
    BY <2>1 DEF IInv, OrderTypes
  <2>. QED
    BY <2>2 DEF Sync, IInv, StockTypes, stock, KeepsOwners
<1>3. InstructInv' /\ AckedWasInstructed'
  BY <1>1 DEF Sync, IInv, InstructInv, AckedWasInstructed, Active
<1>4. ClaimInv'
  BY <1>1, NoClaims DEF Sync, IInv, Working
<1>5. ASSUME NEW j \in Item
      PROVE  /\ line'[j] \in Line
             /\ Count(j) > 0 => line'[j].offer = line[j].offer
  <2>1. PICK k \in Line : k = line[j]
    BY DEF IInv, LineTypes
  <2>. DEFINE r == [k EXCEPT !.canceled = c, !.qty = q]
  <2>2. r \in Line /\ r.offer = k.offer
    BY DEF Line
  <2>3. line'[j] = Synchronized(j, IF j = i THEN r ELSE k)
    BY <2>1 DEF Sync
  <2>. HIDE DEF r
  <2>4. PICK l \in Line : l.offer = k.offer /\ line'[j] = Synchronized(j, l)
    BY <2>1, <2>2, <2>3
  <2>. QED
    BY <2>1, <2>4, SynchronizedLine DEF IInv
<1>6. LineTypes'
  BY <1>5 DEF Sync, LineTypes
<1>7. \A d \in Active :
        line'[alloc[d].item].offer = line[alloc[d].item].offer
  BY <1>5, ActiveAllocations, ProtectedWithDevices DEF IInv
<1>8. AllocatedUnderOffer'
  BY <1>2, <1>7, OffersKept DEF IInv, Here
<1>. QED
  BY <1>1, <1>2, <1>3, <1>4, <1>6, <1>8 DEF IInv, Working

\* A rematch gives every device back.
LEMMA RematchStep ==
  ASSUME IInv, NEW m \in Matcher, Rematch(m)
  PROVE  IInv'
<1>1. Working' /\ ClaimsNothing /\ pc' = pc
  BY RestKeeps DEF Rematch, IInv, Working
<1>2. OrderTypes' /\ InstructInv'
  <2>1. /\ changes' = changes + 1 /\ changes < MaxChange
        /\ UNCHANGED <<chan, raw, mapping, req, intent, hand, seen>>
        /\ reset' \in [Matcher -> SUBSET Item]
    BY DEF Rematch, Changes, manual, IInv, OrderTypes
  <2>. QED
    BY <1>1, <2>1 DEF IInv, OrderTypes, InstructInv
<1>3. ClaimInv'
  BY <1>1, NoClaims DEF Rematch, IInv, Working
<1>4. ASSUME NEW d \in Device PROVE alloc'[d] = NoAlloc
  <2>1. alloc[d] \in {NoAlloc} \cup Allocation
    BY DEF IInv, StockTypes
  <2>2. d \notin Active => alloc[d] = NoAlloc
    BY <2>1, AllocationUpdates DEF Active
  <2>. QED
    BY <2>2 DEF Rematch, Cancels
<1>5. StockTypes'
  BY <1>4 DEF Rematch, Cancels, Released, IInv, StockTypes, Active
<1>6. Active' = {}
  BY <1>4, AllocationUpdates DEF Active
<1>7. AllocatedUnderOffer' /\ AckedWasInstructed'
  BY <1>6 DEF AllocatedUnderOffer, AckedWasInstructed
<1>8. LineTypes'
  <2>1. ASSUME NEW i \in Item PROVE line'[i] \in Line
    <3>1. PICK l \in Line : l = line[i]
      BY DEF IInv, LineTypes
    <3>2. mapping[i] \in Offer \cup {NoOffer} /\ "UNMATCHED" \in WorkStatus
      BY DEF IInv, OrderTypes, WorkStatus
    <3>3. [l EXCEPT !.offer = mapping[i], !.st = "UNMATCHED"] \in Line
      BY <3>2 DEF Line
    <3>4. line'[i] \in {l, [l EXCEPT !.offer = mapping[i], !.st = "UNMATCHED"]}
      BY <3>1 DEF Rematch
    <3>. QED
      BY <3>3, <3>4
  <2>. QED
    BY <2>1 DEF Rematch, LineTypes
<1>. QED
  BY <1>1, <1>2, <1>3, <1>5, <1>7, <1>8 DEF IInv, Working

\* A match by hand.
LEMMA ExecuteStep ==
  ASSUME IInv, NEW i \in Item, NEW p \in Device \cup {NoDevice},
         NEW d \in Device \cup {NoDevice}, Execute(i, p, d)
  PROVE  IInv'
<1>1. Working' /\ ClaimsNothing /\ pc' = pc
  BY RestKeeps DEF Execute, IInv, Working
<1>2. OrderTypes' /\ InstructInv'
  BY <1>1 DEF Execute, IInv, OrderTypes, InstructInv, order
<1>3. ClaimInv'
  BY <1>1, NoClaims DEF Execute, IInv, Working
<1>4. PICK s \in WorkStatus : line' = [line EXCEPT ![i].st = s]
  BY NextStatusStatus DEF Execute
<1>5. LineTypes' /\ \A j \in Item : line'[j].offer = line[j].offer
  BY <1>4, StatusSet DEF IInv
<1>. DEFINE a == [item |-> i, offer |-> line[i].offer, st |-> "ALLOCATED"]
<1>6. a \in Allocation /\ a.item = i /\ a.offer = line[i].offer
      /\ a.st = "ALLOCATED"
  <2>1. PICK l \in Line : l = line[i]
    BY DEF IInv, LineTypes
  <2>2. l.offer \in Offer \cup {NoOffer}
    BY DEF Line
  <2>. QED
    BY <2>1, <2>2 DEF Allocation
<1>7. alloc' = [e \in Device |-> IF e = d THEN a
                                ELSE IF e = p THEN NoAlloc ELSE alloc[e]]
  BY DEF Execute
<1>. HIDE DEF a
<1>8. StockTypes'
  <2>1. alloc' \in [Device -> {NoAlloc} \cup Allocation]
    BY <1>6, <1>7 DEF IInv, StockTypes
  <2>2. inv' \in [Device -> {"SELLABLE", "RESERVED", "PACKING", "HOLD"}]
    BY DEF Execute, Released, IInv, StockTypes
  <2>. QED
    BY <2>1, <2>2 DEF Execute, IInv, StockTypes
<1>9. \A e \in Active' : \/ alloc'[e] = a
                         \/ e \in Active /\ alloc'[e] = alloc[e]
  BY <1>7, AllocationUpdates DEF Active
<1>10. AllocatedUnderOffer'
  <2>. SUFFICES ASSUME NEW e \in Active'
                PROVE  alloc'[e].offer = line'[alloc'[e].item].offer
    BY DEF AllocatedUnderOffer
  <2>1. CASE alloc'[e] = a
    BY <1>5, <1>6, <2>1
  <2>2. CASE e \in Active /\ alloc'[e] = alloc[e]
    BY <1>5, <2>2, ActiveAllocations DEF IInv, AllocatedUnderOffer
  <2>. QED
    BY <1>9, <2>1, <2>2
<1>11. AckedWasInstructed'
  BY <1>6, <1>9 DEF Execute, IInv, AckedWasInstructed, order
<1>. QED
  BY <1>1, <1>2, <1>3, <1>5, <1>8, <1>10, <1>11 DEF IInv, Working

-----------------------------------------------------------------------------
THEOREM MatchingInductive == Spec => []IInv
<1>1. IInv /\ [Next]_vars => IInv'
  <2>. SUFFICES ASSUME IInv, [Next]_vars PROVE IInv'
    OBVIOUS
  <2>1. ASSUME NEW m \in Matcher, Run(m) \/ Crash(m) PROVE IInv'
    BY <2>1, ReadStep, ReconcileWriteStep, StartStep, ClaimStep, CommitStep,
       FinalizeStep, LookStep, ReadAllocationsStep, MarkAckedStep, WriteStep,
       LocalizeStep, CrashStep DEF Run
  <2>2. CASE ByHand
    BY <2>2, AsideStep, ExecuteStep DEF ByHand
  <2>3. CASE Others
    BY <2>3, AsideStep, SyncStep, MapOfferStep, ExpireStep, RematchStep,
       ConfirmPrintStep, CorrectStep DEF Others
  <2>4. CASE UNCHANGED vars
    <3>1. Working' /\ ClaimsNothing
      BY <2>4, RestKeeps DEF vars, IInv, Working
    <3>2. OrderTypes' /\ InstructInv'
      BY <2>4 DEF vars, order, manual, matchers, IInv, OrderTypes, InstructInv
    <3>. QED
      BY <2>4, <3>1, <3>2, LinesAlone DEF vars, order
  <2>. QED
    BY <2>1, <2>2, <2>3, <2>4 DEF Next
<1>. QED
  BY <1>1, InitIInv, PTL DEF Spec

\* Every variable keeps its type.
THEOREM MatchingTypeCorrect == Spec => []TypeOK
<1>1. IInv => TypeOK
  BY TypeParts DEF IInv
<1>. QED
  BY <1>1, MatchingInductive, PTL

\* No mapping, sync or rematch, and no old copy of a line, takes a device for
\* an offer that its line does not have.
THEOREM AllocatedUnderOfferAlways == Spec => []AllocatedUnderOffer
  BY MatchingInductive, PTL DEF IInv

\* No allocation is acknowledged before the order is.
THEOREM AckedWasInstructedAlways == Spec => []AckedWasInstructed
  BY MatchingInductive, PTL DEF IInv

-----------------------------------------------------------------------------
(* What no step does to devices.                                             *)

\* Which steps change devices and their allocations at all.
LEMMA StockSteps ==
  ASSUME [Next]_vars
  PROVE  \/ UNCHANGED <<alloc, inv>>
         \/ \E m \in Matcher :
              Commit(m) \/ Finalize(m) \/ MarkAcked(m) \/ Localize(m)
         \/ \E i \in Item, p, d \in Device \cup {NoDevice} : Execute(i, p, d)
         \/ \E m \in Matcher : Rematch(m)
         \/ ConfirmPrint
         \/ \E d \in Device : Correct(d)
<1>1. ASSUME NEW m \in Matcher, Run(m) \/ Crash(m)
      PROVE  \/ UNCHANGED <<alloc, inv>>
             \/ Commit(m) \/ Finalize(m) \/ MarkAcked(m) \/ Localize(m)
  BY <1>1 DEF Run, ReconcileRead, ReconcileWrite, Load, Start, Claim, Look,
              ReadAllocations, Request, Send, Call, Crash, stock
<1>2. CASE ByHand
  BY <1>2 DEF ByHand, Acquire, Snapshot, GiveUp, stock
<1>3. CASE Others
  BY <1>3 DEF Others, ChannelMoves, Sync, MapOffer, Expire, Review, stock
<1>4. CASE UNCHANGED vars
  BY <1>4 DEF vars, stock
<1>. QED
  BY <1>1, <1>2, <1>3, <1>4 DEF Next

\* No device loses its order and stays reserved.
KeepsOrders == \A d \in Device : HasOrder(d) => HasOrder(d)'

LEMMA ReservingKeepsOrders ==
  ASSUME StockTypes, KeepsOwners, NEW D \in SUBSET Active, Reserves(D)
  PROVE  KeepsOrders
<1>1. Active' = Active
  BY OwnersKept
<1>. QED
  BY <1>1 DEF KeepsOrders, HasOrder, Reserves, Active

LEMMA OrdersKept ==
  ASSUME IInv, [Next]_vars, \A m \in Matcher : ~MarkAcked(m)
  PROVE  KeepsOrders
<1>1. CASE UNCHANGED <<alloc, inv>>
  BY <1>1 DEF KeepsOrders, HasOrder, Active
<1>2. ASSUME NEW m \in Matcher, Commit(m)
      PROVE  KeepsOrders
  <2>1. PICK d \in Device, i \in Item : d = pick[m] /\ i = item[m]
    BY <1>2 DEF Commit, IInv, WorkInv, OnALine
  <2>2. CASE UNCHANGED <<alloc, stock>>
    BY <2>2 DEF stock, KeepsOrders, HasOrder, Active
  <2>3. CASE /\ d \notin Active /\ Allocates(d, i)
             /\ \A e \in Device \ {d} : inv'[e] = inv[e]
    <3>1. Active' = Active \cup {d}
      BY <2>3, AllocatesOne DEF IInv
    <3>. QED
      BY <2>3, <3>1 DEF KeepsOrders, HasOrder
  <2>. QED
    BY <1>2, <2>1, <2>2, <2>3 DEF Commit, IInv, StockTypes
<1>3. ASSUME NEW m \in Matcher, Finalize(m)
      PROVE  KeepsOrders
  <2>1. inv' = inv \/ Reserves(Of(item[m]))
    BY <1>3 DEF Finalize
  <2>2. Of(item[m]) \in SUBSET Active
    BY DEF Of
  <2>3. KeepsOwners /\ alloc' = alloc
    BY <1>3, NoChangeKeepsOwners DEF Finalize
  <2>. QED
    BY <2>1, <2>2, <2>3, <1>1, ReservingKeepsOrders DEF IInv
<1>4. ASSUME NEW m \in Matcher, Localize(m)
      PROVE  KeepsOrders
  <2>1. \/ UNCHANGED <<alloc, inv>>
        \/ /\ alloc' = Acknowledged
           /\ Reserves({d \in Active : alloc[d].st # "PRINTED"})
    BY <1>4 DEF Localize
  <2>. QED
    BY <2>1, <1>1, AcknowledgedKeeps, ReservingKeepsOrders DEF IInv
<1>5. ASSUME NEW i \in Item, NEW p \in Device \cup {NoDevice},
             NEW d \in Device \cup {NoDevice}, Execute(i, p, d)
      PROVE  KeepsOrders
  <2>. SUFFICES ASSUME NEW e \in Device, HasOrder(e)
                PROVE  HasOrder(e)'
    BY DEF KeepsOrders
  <2>1. CASE e = d
    BY <1>5, <2>1 DEF Execute, HasOrder, Active
  <2>2. CASE e # d /\ e = p
    BY <1>5, <2>2 DEF Execute, Released, HasOrder
  <2>3. CASE e # d /\ e # p
    BY <1>5, <2>3 DEF Execute, Released, HasOrder, Active
  <2>. QED
    BY <2>1, <2>2, <2>3
<1>6. ASSUME NEW m \in Matcher, Rematch(m)
      PROVE  KeepsOrders
  BY <1>6 DEF Rematch, Released, KeepsOrders, HasOrder
<1>7. CASE ConfirmPrint
  <2>1. Active' = Active
    BY <1>7, PrintKeeps, OwnersKept DEF IInv
  <2>. QED
    BY <1>7, <2>1 DEF ConfirmPrint, KeepsOrders, HasOrder
<1>8. ASSUME NEW d \in Device, Correct(d)
      PROVE  KeepsOrders
  BY <1>8 DEF Correct, KeepsOrders, HasOrder, Active, IInv, StockTypes
<1>. QED
  BY <1>1, <1>2, <1>3, <1>4, <1>5, <1>6, <1>7, <1>8, StockSteps

\* Only the acknowledgement that reserves what it read before leaves a device
\* reserved without an order.
THEOREM LeakedByAcknowledgementAlways == Spec => LeakedByAcknowledgement
<1> DEFINE Leak == \A d \in Device : HasOrder(d) /\ ~HasOrder(d)' =>
                     \E m \in Matcher : pc[m] = "reserving" /\ pc'[m] = "idle"
<1>1. IInv /\ [Next]_vars => [Leak]_vars
  <2>. SUFFICES ASSUME IInv, [Next]_vars PROVE Leak
    OBVIOUS
  <2>1. CASE \A m \in Matcher : ~MarkAcked(m)
    BY <2>1, OrdersKept DEF KeepsOrders
  <2>2. ASSUME NEW m \in Matcher, MarkAcked(m)
        PROVE  Leak
    BY <2>2 DEF MarkAcked, Ends, Leaves, Goes, IInv, MatcherTypes
  <2>. QED
    BY <2>1, <2>2
<1>. QED
  BY <1>1, MatchingInductive, PTL DEF Spec, LeakedByAcknowledgement

\* No automatic match takes a line beyond its quantity.
THEOREM AutomaticWithinQuantityAlways == Spec => AutomaticWithinQuantity
<1> DEFINE Within == \A i \in Item :
                       Count(i)' > Count(i) /\ Count(i)' > line'[i].qty =>
                         hand = "begun" /\ hand' # "begun"
<1>1. IInv /\ [Next]_vars => [Within]_vars
  <2>. SUFFICES ASSUME IInv, [Next]_vars PROVE Within
    OBVIOUS
  <2>1. CASE KeepsOwners
    BY <2>1, OwnersKept, Counted
  <2>2. ASSUME NEW m \in Matcher, Commit(m)
        PROVE  Within
    <3>1. PICK d \in Device, i \in Item : d = pick[m] /\ i = item[m]
      BY <2>2 DEF Commit, IInv, WorkInv, OnALine
    <3>2. CASE UNCHANGED alloc
      BY <2>1, <3>2, NoChangeKeepsOwners
    <3>3. CASE d \notin Active /\ Allocates(d, i)
      <4>1. /\ \A j : j # i => Count(j)' = Count(j)
            /\ Count(i)' = Count(i) + 1
        BY <3>3, AllocatesOne DEF IInv
      <4>2. Count(i) < line[i].qty /\ line' = line
        BY <2>2, <3>1 DEF Commit, IInv, ClaimInv
      <4>3. line[i].qty \in Nat
        <5>1. line[i] \in Line
          BY DEF IInv, LineTypes
        <5>. QED
          BY <5>1 DEF Line
      <4>4. \A j \in Item : Count(j) \in Nat
        BY Counted
      <4>. QED
        BY <4>1, <4>2, <4>3, <4>4
    <3>. QED
      BY <2>2, <3>1, <3>2, <3>3 DEF Commit
  <2>3. ASSUME NEW i \in Item, NEW p \in Device \cup {NoDevice},
               NEW d \in Device \cup {NoDevice}, Execute(i, p, d)
        PROVE  Within
    BY <2>3 DEF Execute
  <2>4. ASSUME NEW m \in Matcher, Rematch(m)
        PROVE  Within
    <3>1. Active' = {}
      <4>1. \A d \in Device : d \notin Active'
        BY <2>4, AllocationUpdates DEF Rematch, Cancels, Active
      <4>. QED
        BY <4>1 DEF Active
    <3>2. \A i : Of(i)' = {}
      BY <3>1 DEF Of
    <3>3. \A i : Count(i)' = 0
      BY <3>2, FS_EmptySet DEF Count
    <3>. QED
      BY <3>3, Counted
  <2>5. CASE ConfirmPrint
    BY <2>1, <2>5, PrintKeeps DEF IInv
  <2>6. ASSUME NEW m \in Matcher, Finalize(m) \/ MarkAcked(m) \/ Localize(m)
        PROVE  Within
    BY <2>1, <2>6, NoChangeKeepsOwners, AcknowledgedKeeps
    DEF Finalize, MarkAcked, Localize, IInv
  <2>7. ASSUME NEW d \in Device, Correct(d)
        PROVE  Within
    BY <2>1, <2>7, NoChangeKeepsOwners DEF Correct
  <2>8. CASE UNCHANGED <<alloc, inv>>
    BY <2>1, <2>8, NoChangeKeepsOwners
  <2>. QED
    BY <2>2, <2>3, <2>4, <2>5, <2>6, <2>7, <2>8, StockSteps
<1>. QED
  BY <1>1, MatchingInductive, PTL DEF Spec, AutomaticWithinQuantity
=============================================================================
