-------------------------- MODULE InventoryLedger --------------------------
(***************************************************************************)
(* The quantity ledger of the stock: a balance per SKU and status that     *)
(* follows the devices, inventory/inventory-quantity-ledger-service.ts,    *)
(* for the operations of InventoryRules.                                   *)
(*                                                                         *)
(* A session is one transaction around one operation of the ledger.  What  *)
(* it has written is seen by others when it commits; its locks are held to *)
(* its end.  A device's rev stands for the id and the revision of its      *)
(* inventory row, so a row that is created again has a fresh one.  The     *)
(* advisory locks on pairs of balances (lockInventoryQuantityBalanceKeys)  *)
(* only prevent deadlocks; they are left out, which allows more orders.    *)
(***************************************************************************)
EXTENDS InventoryRules

CONSTANTS
  Tx,          \* transactions under way
  MaxRevision  \* bound: later revisions of a row are only made by transitions

VARIABLES
  stat,      \* inventory_status of each device, "ABSENT" without a row
  rev,       \* the identity and revision of each inventory row
  sku,       \* inventory_sku_id of each device
  balance,   \* inventory_quantity_balances
  booked,    \* the operation keys whose movements are recorded
  ledgerPc,  \* where each session stands
  work,      \* the locals and the locks of each session
  applied    \* history: how often each operation key has moved its device

ledgerVars == <<stat, rev, sku, balance, booked, ledgerPc, work, applied>>

NoWork == [key |-> NoKey, dev |-> NoDevice, locked |-> FALSE, row |-> FALSE,
           rev |-> 0, from |-> "ABSENT", src |-> Nowhere, dst |-> Nowhere]

\* The stock is empty; the devices have been inspected and have a SKU.
LedgerInit ==
  /\ stat = [d \in Device |-> "ABSENT"]
  /\ rev = [d \in Device |-> 0]
  /\ sku \in [Device -> Sku]
  /\ balance = [c \in Cell |-> 0]
  /\ booked = {}
  /\ ledgerPc = [s \in Tx |-> "idle"]
  /\ work = [s \in Tx |-> NoWork]
  /\ applied = [k \in Op |-> 0]

Proceeds(s, to) == ledgerPc' = [ledgerPc EXCEPT ![s] = to]

Unwritten == UNCHANGED <<stat, rev, sku, balance, booked, applied>>

\* The transaction commits or rolls back, and its locks go.
Closes(s) ==
  /\ Proceeds(s, "idle")
  /\ work' = [work EXCEPT ![s] = NoWork]

\* Mutant of DeviceFree: the device's advisory lock is not taken.
DeviceUnlocked(d) == TRUE

\* Nobody holds the device's advisory and row locks (lockDeviceAggregates).
DeviceFree(d) == \A t \in Tx : ~(work[t].dev = d /\ work[t].locked)

\* Nobody holds the lock of the device's inventory row.
RowFree(s, d) ==
  \A t \in Tx \ {s} : ~(work[t].dev = d /\ work[t].row)

\* Nobody holds the row of balance c.
BalanceFree(s, c) ==
  \A t \in Tx \ {s} : ~(ledgerPc[t] = "committing" /\ work[t].src = c)

\* Nobody has an uncommitted reservation of the session's domain operation key.
OpFree(s) ==
  \A t \in Tx \ {s} :
    ~ /\ ledgerPc[t] = "committing"
      /\ work[t].key = work[s].key
      /\ work[s].key # NoKey

(***************************************************************************)
(* transitionInventoryStatusWithLedger                                     *)
(***************************************************************************)
Transition(s, k) ==
  LET d == request[k].dev
      locks == LocksDevice(request[k].policy)
      row == LocksRow(request[k].policy)
  IN  /\ ledgerPc[s] = "idle"
      /\ locks => DeviceFree(d)
      /\ row => RowFree(s, d)
      /\ work' = [work EXCEPT ![s] =
                    [NoWork EXCEPT !.key = k, !.dev = d,
                                   !.locked = locks, !.row = row]]
      /\ Proceeds(s, "reading")
      /\ Unwritten

Read(s) ==
  LET d == work[s].dev
  IN  /\ ledgerPc[s] = "reading"
      /\ \/ /\ stat[d] = "ABSENT"
            /\ Closes(s)
         \/ /\ stat[d] # "ABSENT"
            /\ work' = [work EXCEPT ![s].rev = rev[d], ![s].from = stat[d]]
            /\ Proceeds(s, "looking")
      /\ Unwritten

\* Mutant of Booked: the movements of the operation are not looked up.
BookedNever(s) == FALSE

Booked(s) == work[s].key \in booked

\* An operation that was booked, or that its policy forbids, moves nothing.
ReadRow(s) ==
  LET to == request[work[s].key].to
      may == /\ ~Booked(s)
             /\ work[s].from # to
             /\ Allowed(request[work[s].key].policy, work[s].from, to)
  IN  /\ ledgerPc[s] = "looking"
      /\ \/ may /\ Proceeds(s, "assigning") /\ UNCHANGED work
         \/ ~may /\ Closes(s)
      /\ Unwritten

\* assignCurrentInventorySkuToDevice
Assign(s) ==
  LET k == sku[work[s].dev]
  IN  /\ ledgerPc[s] = "assigning"
      /\ work' = [work EXCEPT ![s].src = <<k, work[s].from>>,
                              ![s].dst = <<k, request[work[s].key].to>>]
      /\ Proceeds(s, "updating")
      /\ Unwritten

\* Mutants of StillThere: the revision, or nothing at all, is compared.
StillInStatus(s) == stat[work[s].dev] = work[s].from
StillThere(s) ==
  /\ stat[work[s].dev] = work[s].from
  /\ rev[work[s].dev] = work[s].rev

\* The update of the inventory row, on its latest committed version.
Update(s) ==
  /\ ledgerPc[s] = "updating"
  /\ RowFree(s, work[s].dev)
  /\ \/ /\ StillThere(s)
        /\ work' = [work EXCEPT ![s].row = TRUE]
        /\ Proceeds(s, "moving")
     \/ /\ ~StillThere(s)
        /\ Closes(s)
  /\ Unwritten

(***************************************************************************)
(* reclassifyInventorySkuWithLedger, record...CreatedWithLedger and        *)
(* record...RemovedWithLedger.                                             *)
(***************************************************************************)
Reclassify(s, d) ==
  /\ ledgerPc[s] = "idle"
  /\ DeviceFree(d)
  /\ work' = [work EXCEPT ![s] = [NoWork EXCEPT !.dev = d, !.locked = TRUE]]
  /\ Proceeds(s, "classifying")
  /\ Unwritten

\* The inventory row is read without a lock of its own.
Classify(s, k) ==
  LET d == work[s].dev
  IN  /\ ledgerPc[s] = "classifying"
      /\ \/ /\ stat[d] = "ABSENT"
            /\ sku' = [sku EXCEPT ![d] = k]
            /\ Closes(s)
         \/ /\ stat[d] \in SkuEditable
            /\ k # sku[d]
            /\ work' = [work EXCEPT ![s].src = <<sku[d], stat[d]>>,
                                    ![s].dst = <<k, stat[d]>>]
            /\ Proceeds(s, "moving")
            /\ UNCHANGED sku
         \/ /\ stat[d] # "ABSENT"
            /\ stat[d] \notin SkuEditable \/ k = sku[d]
            /\ Closes(s)
            /\ UNCHANGED sku
      /\ UNCHANGED <<stat, rev, balance, booked, applied>>

\* A device enters the stock, by hand or with its purchase; what is read under
\* the device's lock only changes under it.
Create(s, d, k, st) ==
  /\ ledgerPc[s] = "idle"
  /\ rev[d] < MaxRevision
  /\ DeviceFree(d)
  /\ stat[d] = "ABSENT"
  /\ work' = [work EXCEPT ![s] = [NoWork EXCEPT !.dev = d, !.locked = TRUE,
                                                !.dst = <<k, st>>]]
  /\ Proceeds(s, "moving")
  /\ Unwritten

Remove(s, d) ==
  /\ ledgerPc[s] = "idle"
  /\ DeviceFree(d)
  /\ RowFree(s, d)
  /\ stat[d] # "ABSENT"
  /\ work' = [work EXCEPT ![s] = [NoWork EXCEPT !.dev = d, !.locked = TRUE,
                                                !.row = TRUE,
                                                !.src = <<sku[d], stat[d]>>]]
  /\ Proceeds(s, "moving")
  /\ Unwritten

(***************************************************************************)
(* applyQuantityDelta, once for the OUT and once for the IN movement       *)
(***************************************************************************)
\* The OUT movement, unless it is there: its balance is locked and suffices.
MoveOut(s) ==
  /\ ledgerPc[s] = "moving"
  /\ OpFree(s)
  /\ ~Booked(s) /\ work[s].src # Nowhere
       => BalanceFree(s, work[s].src) /\ balance[work[s].src] > 0
  /\ Proceeds(s, "committing")
  /\ UNCHANGED work
  /\ Unwritten

Moved(src, dst) ==
  [c \in Cell |-> balance[c] + (IF c = dst THEN 1 ELSE 0)
                             - (IF c = src THEN 1 ELSE 0)]

\* The IN movement and the commit of the transaction.
Commit(s) ==
  LET d == work[s].dev
      src == work[s].src
      dst == work[s].dst
      newStat == IF dst = Nowhere THEN "ABSENT" ELSE dst[2]
  IN  /\ ledgerPc[s] = "committing"
      /\ BalanceFree(s, dst)
      /\ balance' = IF Booked(s) THEN balance ELSE Moved(src, dst)
      /\ stat' = [stat EXCEPT ![d] = newStat]
      /\ rev' = [rev EXCEPT ![d] = IF newStat = stat[d] THEN @ ELSE @ + 1]
      /\ sku' = [sku EXCEPT ![d] = IF dst = Nowhere THEN @ ELSE dst[1]]
      /\ booked' = booked \cup ({work[s].key} \cap Op)
      /\ applied' = [k \in Op |->
                       applied[k] + (IF k = work[s].key THEN 1 ELSE 0)]
      /\ Closes(s)

(***************************************************************************)
(* A location is written, by an audit or a correction; and failures: a     *)
(* refused rule, a deadlock, a balance that does not suffice, a lost       *)
(* connection.                                                             *)
(***************************************************************************)
Relocate(d) ==
  /\ stat[d] # "ABSENT"
  /\ rev[d] < MaxRevision
  /\ \A t \in Tx : ~(work[t].dev = d /\ work[t].row)
  /\ rev' = [rev EXCEPT ![d] = @ + 1]
  /\ UNCHANGED <<stat, sku, balance, booked, ledgerPc, work, applied>>

Aborts(s) ==
  /\ ledgerPc[s] # "idle"
  /\ Closes(s)
  /\ Unwritten

Transact(s) ==
  \/ \E k \in Op : Transition(s, k)
  \/ Read(s)
  \/ ReadRow(s)
  \/ Assign(s)
  \/ Update(s)
  \/ \E d \in Device : Reclassify(s, d)
  \/ \E k \in Sku : Classify(s, k)
  \/ \E d \in Device, k \in Sku, st \in InitialStatus : Create(s, d, k, st)
  \/ \E d \in Device : Remove(s, d)
  \/ MoveOut(s)
  \/ Commit(s)
  \/ Aborts(s)

LedgerNext ==
  \/ \E s \in Tx : Transact(s)
  \/ \E d \in Device : Relocate(d)

LedgerSpec == LedgerInit /\ [][LedgerNext]_ledgerVars

-----------------------------------------------------------------------------
LedgerTypeOK ==
  /\ stat \in [Device -> Status \cup {"ABSENT"}]
  /\ rev \in [Device -> Nat]
  /\ sku \in [Device -> Sku]
  /\ balance \in [Cell -> Nat]
  /\ booked \subseteq Op
  /\ ledgerPc \in [Tx -> {"idle", "reading", "looking", "assigning",
                         "updating", "classifying", "moving", "committing"}]
  /\ work \in [Tx ->
                 [key : Op \cup {NoKey}, dev : Device \cup {NoDevice},
                  locked : BOOLEAN, row : BOOLEAN, rev : Nat,
                  from : Status \cup {"ABSENT"},
                  src : Cell \cup {Nowhere}, dst : Cell \cup {Nowhere}]]
  /\ applied \in [Op -> Nat]

\* The devices that stand in a SKU and status.
Standing(c) == {d \in Device : stat[d] # "ABSENT" /\ <<sku[d], stat[d]>> = c}

\* The balance of every SKU and status is the number of its devices, whatever
\* transitions, reclassifications, creations and removals interleave.
BalancesMatch == \A c \in Cell : balance[c] = Cardinality(Standing(c))

\* An operation that is repeated under its key moves its device once.
MovedOnce == \A k \in Op : applied[k] <= 1

\* A status only changes along the policy of some operation, from the status
\* that the device really has: no transition overtakes another.
StepsAllowed ==
  [][\A d \in Device :
       stat[d] # "ABSENT" /\ stat'[d] \notin {stat[d], "ABSENT"}
         => \E k \in Op :
              /\ request[k].dev = d
              /\ request[k].to = stat'[d]
              /\ Allowed(request[k].policy, stat[d], stat'[d])]_ledgerVars

\* The SKU of a device in stock only changes while its status allows it,
\* although a reclassification reads the status without locking its row.
SkuSettled ==
  [][\A d \in Device :
       sku'[d] # sku[d] => stat[d] \in SkuEditable \cup {"ABSENT"}]_ledgerVars
=============================================================================
