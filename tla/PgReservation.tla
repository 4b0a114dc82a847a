--------------------------- MODULE PgReservation ---------------------------
(***************************************************************************)
(* PG numbers issued to the rows of an inspection upload: inspection/      *)
(* pg-issuance-service.ts, with the save that consumes them (inspection-   *)
(* save-service.ts) and the devices made by hand (inventory-management-    *)
(* service.ts).                                                            *)
(*                                                                         *)
(* A session is one transaction that needs several statements, between     *)
(* which others commit: it holds its advisory locks and row locks to its   *)
(* end.  A transaction that decides everything in one locking statement is *)
(* one action.  The inspection kind and the digest of a request belong to  *)
(* its row, so a request that contradicts its row changes nothing and is   *)
(* left out.                                                               *)
(***************************************************************************)
EXTENDS Integers, FiniteSets

CONSTANTS
  Record,    \* the client's upload rows
  Pg,        \* PG numbers
  Session,   \* transactions under way
  NoRecord,  \* no upload row
  NoPg,      \* no number
  Limit      \* PG_GENERATION_ATTEMPTS

ASSUME PgReservationAssumption ==
  /\ NoRecord \notin Record
  /\ NoPg \notin Pg
  /\ Limit \in Nat

VARIABLES
  status,   \* status of each row's reservation, "NONE" while it has none
  pgNo,     \* pg_no of each reservation
  expired,  \* whether expires_at of each reservation has passed
  devices,  \* the numbers of the committed devices
  pc,       \* where each session stands
  rec,      \* the upload row a session works for
  num,      \* the number a session works on
  late,     \* the session's clock, read at its start, is past expires_at
  tries,    \* the numbers a session has drawn
  keys,     \* the "device-inbound" advisory locks of each session
  rows,     \* the reservations each session has locked FOR UPDATE
  saves     \* history: how often each reservation was saved for

reservations == <<status, pgNo, expired>>
locals == <<rec, num, late, tries>>
locks == <<keys, rows>>
vars == <<reservations, devices, pc, locals, locks, saves>>

Init ==
  /\ status = [r \in Record |-> "NONE"]
  /\ pgNo = [r \in Record |-> NoPg]
  /\ expired = [r \in Record |-> FALSE]
  /\ devices = {}
  /\ pc = [s \in Session |-> "idle"]
  /\ rec = [s \in Session |-> NoRecord]
  /\ num = [s \in Session |-> NoPg]
  /\ late = [s \in Session |-> FALSE]
  /\ tries = [s \in Session |-> 0]
  /\ keys = [s \in Session |-> {}]
  /\ rows = [s \in Session |-> {}]
  /\ saves = [r \in Record |-> 0]

Goes(s, to) == pc' = [pc EXCEPT ![s] = to]

\* The transaction commits or rolls back, and its locks go.
Ends(s) ==
  /\ Goes(s, "idle")
  /\ rec' = [rec EXCEPT ![s] = NoRecord]
  /\ num' = [num EXCEPT ![s] = NoPg]
  /\ late' = [late EXCEPT ![s] = FALSE]
  /\ tries' = [tries EXCEPT ![s] = 0]
  /\ keys' = [keys EXCEPT ![s] = {}]
  /\ rows' = [rows EXCEPT ![s] = {}]

Starts(s, to, r, p) ==
  /\ pc[s] = "idle"
  /\ Goes(s, to)
  /\ rec' = [rec EXCEPT ![s] = r]
  /\ num' = [num EXCEPT ![s] = p]
  /\ late' = [late EXCEPT ![s] = (r # NoRecord /\ expired[r])]
  /\ UNCHANGED <<tries, locks, reservations, devices, saves>>

\* Nobody else holds the advisory lock of number p.
KeyFree(s, p) == \A t \in Session : p \in keys[t] => t = s

Unlocked(r) == \A t \in Session : r \notin rows[t]

\* Mutant of Locks: the number is not locked.
LocksNothing(s, p) == KeyFree(s, p) /\ UNCHANGED keys

\* lockAggregateKey
Locks(s, p) ==
  /\ KeyFree(s, p)
  /\ keys' = [keys EXCEPT ![s] = @ \cup {p}]

\* ck_inspection_pg_reservations_lifecycle: an update that only sets status
\* and abandoned_at fails on a row that carries a consumption.
LifecycleAllows(r) == status[r] # "CONSUMED"

Abandons(r) == status' = [status EXCEPT ![r] = "ABANDONED"]

(***************************************************************************)
(* reserveInspectionPg                                                     *)
(***************************************************************************)
Reserve(s, r) == Starts(s, "looking", r, NoPg)

\* The row is read without a lock.
Look(s) ==
  /\ pc[s] = "looking"
  /\ \/ /\ status[rec[s]] = "NONE"
        /\ Goes(s, "drawing")
        /\ UNCHANGED <<locals, locks>>
     \/ /\ status[rec[s]] = "RESERVED"
        /\ late[s]
        /\ Goes(s, "expiring")
        /\ UNCHANGED <<locals, locks>>
     \/ /\ status[rec[s]] # "NONE"
        /\ ~(status[rec[s]] = "RESERVED" /\ late[s])
        /\ Ends(s)
  /\ UNCHANGED <<reservations, devices, saves>>

\* The reservation that was seen expired is abandoned, whatever it is now.
ExpireFound(s) ==
  /\ pc[s] = "expiring"
  /\ Unlocked(rec[s])
  /\ \/ LifecycleAllows(rec[s]) /\ Abandons(rec[s])
     \/ ~LifecycleAllows(rec[s]) /\ UNCHANGED status
  /\ Ends(s)
  /\ UNCHANGED <<pgNo, expired, devices, saves>>

Draw(s, p) ==
  /\ pc[s] = "drawing"
  /\ tries[s] < Limit
  /\ Locks(s, p)
  /\ num' = [num EXCEPT ![s] = p]
  /\ tries' = [tries EXCEPT ![s] = @ + 1]
  /\ Goes(s, "inserting")
  /\ UNCHANGED <<rec, late, rows, reservations, devices, saves>>

\* uq_inspection_pg_reservations_pg_no
Issued(p) == \E r \in Record : pgNo[r] = p

\* INSERT ... WHERE NOT EXISTS ... ON CONFLICT DO NOTHING, and the lookup of
\* the row of another request for the same record.
Insert(s) ==
  /\ pc[s] = "inserting"
  /\ \/ /\ status[rec[s]] = "NONE"
        /\ num[s] \notin devices
        /\ ~Issued(num[s])
        /\ status' = [status EXCEPT ![rec[s]] = "RESERVED"]
        /\ pgNo' = [pgNo EXCEPT ![rec[s]] = num[s]]
        /\ Ends(s)
     \/ /\ status[rec[s]] # "NONE"
        /\ Ends(s)
        /\ UNCHANGED <<status, pgNo>>
     \/ /\ status[rec[s]] = "NONE"
        /\ num[s] \in devices \/ Issued(num[s])
        /\ Goes(s, "drawing")
        /\ UNCHANGED <<status, pgNo, locals, locks>>
  /\ UNCHANGED <<expired, devices, saves>>

(***************************************************************************)
(* saveInspectionRecord, for an upload row or without one.                 *)
(***************************************************************************)
Save(s, p, r) == Starts(s, "locking", r, p)

LockNumber(s) ==
  /\ pc[s] = "locking"
  /\ Locks(s, num[s])
  /\ Goes(s, "checking")
  /\ UNCHANGED <<locals, rows, reservations, devices, saves>>

HasReservation(s) == rec[s] # NoRecord /\ status[rec[s]] # "NONE"

\* Mutant of MayConsume: the reservation's status is not compared.
MayConsumeAny(s) == ~late[s] /\ pgNo[rec[s]] = num[s]

MayConsume(s) ==
  /\ status[rec[s]] = "RESERVED"
  /\ ~late[s]
  /\ pgNo[rec[s]] = num[s]

\* The upload row has a reservation: it is locked and must allow the save;
\* a consumed one returns the payload of its first save.
CheckReservation(s) ==
  /\ pc[s] = "checking"
  /\ HasReservation(s)
  /\ Unlocked(rec[s])
  /\ \/ /\ MayConsume(s)
        /\ rows' = [rows EXCEPT ![s] = {rec[s]}]
        /\ Goes(s, "consuming")
        /\ UNCHANGED <<locals, keys>>
     \/ /\ ~MayConsume(s)
        /\ Ends(s)
  /\ UNCHANGED <<reservations, devices, saves>>

\* Mutant of ReservedByOther: the reservation of the number is not looked up.
ReservedByNobody(p) == FALSE

\* lockInspectionPgReservationByPg
ReservedByOther(p) == \E r \in Record : pgNo[r] = p /\ status[r] = "RESERVED"

\* There is no reservation: the number must not be reserved for another row,
\* and an upload row whose reservation is missing needs a device.
CheckNumber(s) ==
  /\ pc[s] = "checking"
  /\ ~HasReservation(s)
  /\ \A r \in Record : pgNo[r] = num[s] => Unlocked(r)
  /\ \/ /\ ~ReservedByOther(num[s])
        /\ rec[s] # NoRecord => num[s] \in devices
        /\ rows' = [rows EXCEPT ![s] = {r \in Record : pgNo[r] = num[s]}]
        /\ Goes(s, "saving")
        /\ UNCHANGED <<locals, keys>>
     \/ /\ \/ ReservedByOther(num[s])
           \/ rec[s] # NoRecord /\ num[s] \notin devices
        /\ Ends(s)
  /\ UNCHANGED <<reservations, devices, saves>>

\* The device and its inspections are written, and the commit.
SaveRecord(s) ==
  /\ \/ /\ pc[s] = "consuming"
        /\ status' = [status EXCEPT ![rec[s]] = "CONSUMED"]
        /\ saves' = [saves EXCEPT ![rec[s]] = @ + 1]
     \/ /\ pc[s] = "saving"
        /\ UNCHANGED <<status, saves>>
  /\ devices' = devices \cup {num[s]}
  /\ Ends(s)
  /\ UNCHANGED <<pgNo, expired>>

(***************************************************************************)
(* Transactions of one locking statement, and time.                        *)
(***************************************************************************)
\* createManualInventoryRecord: only the device is looked up.
CreateByHand(p) ==
  /\ \A t \in Session : p \notin keys[t]
  /\ p \notin devices
  /\ devices' = devices \cup {p}
  /\ UNCHANGED <<reservations, pc, locals, locks, saves>>

\* abandonInspectionPg
Abandon(r) ==
  /\ Unlocked(r)
  /\ status[r] = "RESERVED"
  /\ Abandons(r)
  /\ UNCHANGED <<pgNo, expired, devices, pc, locals, locks, saves>>

\* expireInspectionPgReservations, which skips locked rows.
Expire(r) ==
  /\ Unlocked(r)
  /\ status[r] = "RESERVED"
  /\ expired[r]
  /\ Abandons(r)
  /\ UNCHANGED <<pgNo, expired, devices, pc, locals, locks, saves>>

TimePasses(r) ==
  /\ status[r] # "NONE"
  /\ ~expired[r]
  /\ expired' = [expired EXCEPT ![r] = TRUE]
  /\ UNCHANGED <<status, pgNo, devices, pc, locals, locks, saves>>

\* The transaction fails: an exhausted draw, a deadlock, a lost connection.
Fails(s) ==
  /\ pc[s] # "idle"
  /\ Ends(s)
  /\ UNCHANGED <<reservations, devices, saves>>

Step(s) ==
  \/ \E r \in Record : Reserve(s, r)
  \/ Look(s)
  \/ ExpireFound(s)
  \/ \E p \in Pg : Draw(s, p)
  \/ Insert(s)
  \/ \E p \in Pg, r \in Record \cup {NoRecord} : Save(s, p, r)
  \/ LockNumber(s)
  \/ CheckReservation(s)
  \/ CheckNumber(s)
  \/ SaveRecord(s)
  \/ Fails(s)

Other(r) == Abandon(r) \/ Expire(r) \/ TimePasses(r)

Next ==
  \/ \E s \in Session : Step(s)
  \/ \E p \in Pg : CreateByHand(p)
  \/ \E r \in Record : Other(r)

Spec == Init /\ [][Next]_vars

-----------------------------------------------------------------------------
\* Every variable holds a value of its type; a reservation has a number, and
\* no two have the same; an advisory lock has one holder.
TypeOK ==
  /\ status \in [Record -> {"NONE", "RESERVED", "CONSUMED", "ABANDONED"}]
  /\ pgNo \in [Record -> Pg \cup {NoPg}]
  /\ \A r \in Record : status[r] = "NONE" <=> pgNo[r] = NoPg
  /\ \A r, q \in Record : pgNo[r] = pgNo[q] /\ pgNo[r] # NoPg => r = q
  /\ expired \in [Record -> BOOLEAN]
  /\ devices \in SUBSET Pg
  /\ pc \in [Session -> {"idle", "looking", "expiring", "drawing",
                         "inserting", "locking", "checking", "consuming",
                         "saving"}]
  /\ rec \in [Session -> Record \cup {NoRecord}]
  /\ num \in [Session -> Pg \cup {NoPg}]
  /\ late \in [Session -> BOOLEAN]
  /\ tries \in [Session -> 0..Limit]
  /\ keys \in [Session -> SUBSET Pg]
  /\ rows \in [Session -> SUBSET Record]
  /\ saves \in [Record -> Nat]

\* Whoever is about to save an inspection under a number that is reserved
\* saves it for the row it is reserved for; the number cannot be reserved
\* behind the back of a save that has found it free.
KeptForItsRow ==
  \A s \in Session, r \in Record :
    pc[s] \in {"consuming", "saving"} /\ num[s] = pgNo[r]
      /\ status[r] = "RESERVED"
    => pc[s] = "consuming" /\ rec[s] = r

\* What an upload row is saved for is still its own until the commit: no
\* expiry, abandonment or replay takes it away in between, and a save that is
\* sent again does not save again.
SavedOnce ==
  /\ \A r \in Record : saves[r] <= 1
  /\ \A s \in Session : pc[s] = "consuming" => status[rec[s]] = "RESERVED"

\* A consumed reservation stays consumed, although the replay of an expired
\* request writes over a row that it read without a lock.
ConsumedIsFinal ==
  [][\A r \in Record : status[r] = "CONSUMED" => status'[r] = "CONSUMED"]_vars

\* "PG_RESERVED_FOR_INSPECTION_ROW": while a number is reserved for an upload
\* row nobody else makes a device of it.
ReservedIsFree ==
  \A r \in Record : status[r] = "RESERVED" => pgNo[r] \notin devices
=============================================================================
