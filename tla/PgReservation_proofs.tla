------------------------ MODULE PgReservation_proofs ------------------------
(***************************************************************************)
(* Proofs about the issued PG numbers: the properties of PgReservation     *)
(* hold for any upload rows, numbers, transactions and number of draws.    *)
(***************************************************************************)
EXTENDS PgReservation, TLAPS

USE PgReservationAssumption DEF PgReservationAssumption

\* The parts of TypeOK that speak of sessions, and of reservations.
SessionOK ==
  /\ pc \in [Session -> {"idle", "looking", "expiring", "drawing",
                         "inserting", "locking", "checking", "consuming",
                         "saving"}]
  /\ rec \in [Session -> Record \cup {NoRecord}]
  /\ num \in [Session -> Pg \cup {NoPg}]
  /\ late \in [Session -> BOOLEAN]
  /\ tries \in [Session -> 0..Limit]
  /\ keys \in [Session -> SUBSET Pg]
  /\ rows \in [Session -> SUBSET Record]

ReservationOK ==
  /\ status \in [Record -> {"NONE", "RESERVED", "CONSUMED", "ABANDONED"}]
  /\ pgNo \in [Record -> Pg \cup {NoPg}]
  /\ \A r \in Record : status[r] = "NONE" <=> pgNo[r] = NoPg
  /\ \A r, q \in Record : pgNo[r] = pgNo[q] /\ pgNo[r] # NoPg => r = q
  /\ expired \in [Record -> BOOLEAN]
  /\ devices \in SUBSET Pg
  /\ saves \in [Record -> Nat]

\* A session that works on a row or a number has one, and holds the lock of
\* the number once it has passed lockAggregateKey.
WorkInv ==
  \A s \in Session :
    /\ pc[s] \in {"looking", "expiring", "drawing", "inserting", "consuming"}
         => rec[s] \in Record
    /\ pc[s] \in {"inserting", "locking", "checking", "consuming", "saving"}
         => num[s] \in Pg
    /\ pc[s] \in {"inserting", "checking", "consuming", "saving"}
         => num[s] \in keys[s]
    /\ pc[s] \in {"expiring", "consuming"} => status[rec[s]] # "NONE"

\* An advisory lock has one holder.
KeysApart ==
  \A s, t \in Session, p \in Pg : p \in keys[s] /\ p \in keys[t] => s = t

\* A row lock has one holder, and only sessions about to save hold any.
RowsApart ==
  /\ \A s, t \in Session, r \in Record :
       r \in rows[s] /\ r \in rows[t] => s = t
  /\ \A s \in Session : rows[s] # {} => pc[s] \in {"consuming", "saving"}

\* The reservation that a session has locked stays what it was found to be.
ConsumingInv ==
  \A s \in Session : pc[s] = "consuming" =>
    /\ rec[s] \in rows[s]
    /\ status[rec[s]] = "RESERVED"
    /\ pgNo[rec[s]] = num[s]

\* The number that a session has found unreserved is not issued meanwhile.
SavingInv ==
  \A s \in Session, r \in Record :
    pc[s] = "saving" /\ pgNo[r] = num[s] => status[r] # "RESERVED"

\* A reservation that was saved for is consumed.
CountInv ==
  \A r \in Record : /\ saves[r] = 0 \/ saves[r] = 1
                    /\ saves[r] # 0 => status[r] = "CONSUMED"

LockInv == WorkInv /\ KeysApart /\ RowsApart

IInv == TypeOK /\ LockInv /\ ConsumingInv /\ SavingInv /\ CountInv

LEMMA InitIInv == Init => IInv
<1> SUFFICES ASSUME Init PROVE IInv
  OBVIOUS
<1> USE DEF Init
<1>1. TypeOK
  BY DEF TypeOK
<1>2. LockInv
  BY DEF LockInv, WorkInv, KeysApart, RowsApart
<1>3. ConsumingInv /\ SavingInv /\ CountInv
  BY DEF ConsumingInv, SavingInv, CountInv
<1>. QED
  BY <1>1, <1>2, <1>3 DEF IInv


\* The end of a transaction keeps the types of the sessions.
LEMMA EndsSession ==
  ASSUME SessionOK, NEW s \in Session, Ends(s)
  PROVE  SessionOK'
<1> USE DEF SessionOK, Ends
<1>1. pc' \in [Session -> {"idle", "looking", "expiring", "drawing",
                           "inserting", "locking", "checking", "consuming",
                           "saving"}]
  BY DEF Goes
<1>2. rec' \in [Session -> Record \cup {NoRecord}]
  OBVIOUS
<1>3. num' \in [Session -> Pg \cup {NoPg}]
  OBVIOUS
<1>4. late' \in [Session -> BOOLEAN]
  OBVIOUS
<1>5. tries' \in [Session -> 0..Limit]
  OBVIOUS
<1>6. keys' \in [Session -> SUBSET Pg]
  OBVIOUS
<1>7. rows' \in [Session -> SUBSET Record]
  OBVIOUS
<1>. QED
  BY <1>1, <1>2, <1>3, <1>4, <1>5, <1>6, <1>7 DEF SessionOK

\* A transaction's end releases the rows that it has locked.
LEMMA EndsRows ==
  ASSUME SessionOK, RowsApart, NEW s \in Session, Ends(s)
  PROVE  RowsApart'
<1>1. rows' = [rows EXCEPT ![s] = {}] /\ pc' = [pc EXCEPT ![s] = "idle"]
  BY DEF Ends, Goes
<1>. QED
  BY <1>1 DEF SessionOK, RowsApart

\* Each action keeps the types of the sessions.
LEMMA SessionStep ==
  SessionOK /\ ReservationOK /\ WorkInv /\ [Next]_vars => SessionOK'
<1> SUFFICES ASSUME SessionOK, ReservationOK, WorkInv, [Next]_vars
             PROVE  SessionOK'
  OBVIOUS
<1> USE DEF SessionOK, ReservationOK, WorkInv
<1>1. ASSUME NEW s \in Session, NEW r \in Record, Reserve(s, r)
       PROVE SessionOK'
  BY <1>1 DEF Reserve, Starts, Goes, reservations, locals, locks
<1>2. ASSUME NEW s \in Session, Look(s)
       PROVE SessionOK'
  <2>1. CASE Ends(s)
    BY <2>1, EndsSession
  <2>2. CASE ~Ends(s)
    BY <1>2, <2>2 DEF Look, Goes, locals, locks
  <2>. QED
    BY <2>1, <2>2
<1>3. ASSUME NEW s \in Session, ExpireFound(s)
       PROVE SessionOK'
  <2>1. Ends(s)
    BY <1>3 DEF ExpireFound
  <2>. QED
    BY <2>1, EndsSession
<1>4. ASSUME NEW s \in Session, NEW p \in Pg, Draw(s, p)
       PROVE SessionOK'
  BY <1>4 DEF Draw, Locks, KeyFree, Goes, reservations, locals, locks
<1>5. ASSUME NEW s \in Session, Insert(s)
       PROVE SessionOK'
  <2>1. CASE Ends(s)
    BY <2>1, EndsSession
  <2>2. CASE ~Ends(s)
    BY <1>5, <2>2 DEF Insert, Issued, Goes, locals, locks
  <2>. QED
    BY <2>1, <2>2
<1>6. ASSUME NEW s \in Session, NEW p \in Pg, NEW r \in Record \cup {NoRecord}, Save(s, p, r)
       PROVE SessionOK'
  BY <1>6 DEF Save, Starts, Goes, reservations, locals, locks
<1>7. ASSUME NEW s \in Session, LockNumber(s)
       PROVE SessionOK'
  BY <1>7 DEF LockNumber, Locks, KeyFree, Goes, reservations, locals, locks
<1>8. ASSUME NEW s \in Session, CheckReservation(s)
       PROVE SessionOK'
  <2>1. CASE Ends(s)
    BY <2>1, EndsSession
  <2>2. CASE ~Ends(s)
    BY <1>8, <2>2
       DEF CheckReservation, HasReservation, MayConsume, Unlocked, Goes,
           locals, locks
  <2>. QED
    BY <2>1, <2>2
<1>9. ASSUME NEW s \in Session, CheckNumber(s)
       PROVE SessionOK'
  <2>1. CASE Ends(s)
    BY <2>1, EndsSession
  <2>2. CASE ~Ends(s)
    BY <1>9, <2>2
       DEF CheckNumber, HasReservation, ReservedByOther, Unlocked, Goes,
           locals, locks
  <2>. QED
    BY <2>1, <2>2
<1>10. ASSUME NEW s \in Session, SaveRecord(s)
       PROVE SessionOK'
  <2>1. Ends(s)
    BY <1>10 DEF SaveRecord
  <2>. QED
    BY <2>1, EndsSession
<1>11. ASSUME NEW s \in Session, Fails(s)
       PROVE SessionOK'
  <2>1. Ends(s)
    BY <1>11 DEF Fails
  <2>. QED
    BY <2>1, EndsSession
<1>12. ASSUME NEW p \in Pg, CreateByHand(p)
       PROVE SessionOK'
  BY <1>12 DEF CreateByHand, reservations, locals, locks
<1>13. ASSUME NEW r \in Record, Abandon(r)
       PROVE SessionOK'
  BY <1>13 DEF Abandon, Abandons, Unlocked, reservations, locals, locks
<1>14. ASSUME NEW r \in Record, Expire(r)
       PROVE SessionOK'
  BY <1>14 DEF Expire, Abandons, Unlocked, reservations, locals, locks
<1>15. ASSUME NEW r \in Record, TimePasses(r)
       PROVE SessionOK'
  BY <1>15 DEF TimePasses, reservations, locals, locks
<1>16. CASE UNCHANGED vars
  BY <1>16 DEF vars, reservations, locals, locks
<1>. QED
  BY <1>1, <1>2, <1>3, <1>4, <1>5, <1>6, <1>7, <1>8, <1>9, <1>10, <1>11, <1>12,
     <1>13, <1>14, <1>15, <1>16
     DEF Next, Step, Other

\* Each action keeps the types of the rows, and no number is issued twice.
LEMMA ReservationStep ==
  SessionOK /\ ReservationOK /\ WorkInv /\ [Next]_vars => ReservationOK'
<1> SUFFICES ASSUME SessionOK, ReservationOK, WorkInv, [Next]_vars
             PROVE  ReservationOK'
  OBVIOUS
<1> USE DEF SessionOK, ReservationOK, WorkInv
<1>1. ASSUME NEW s \in Session, NEW r \in Record, Reserve(s, r)
       PROVE ReservationOK'
  BY <1>1 DEF Reserve, Starts, Goes, reservations, locals, locks
<1>2. ASSUME NEW s \in Session, Look(s)
       PROVE ReservationOK'
  BY <1>2 DEF Look, Ends, Goes, reservations, locals, locks
<1>3. ASSUME NEW s \in Session, ExpireFound(s)
       PROVE ReservationOK'
  <2>1. (rec[s] \in Record /\ status[rec[s]] # "NONE") \/ UNCHANGED status
    BY <1>3 DEF ExpireFound, Abandons, LifecycleAllows
  <2>2. UNCHANGED status \/ status' = [status EXCEPT ![rec[s]] = "ABANDONED"]
    BY <1>3 DEF ExpireFound, Abandons, LifecycleAllows
  <2>3. UNCHANGED <<pgNo, expired, devices, saves>>
    BY <1>3 DEF ExpireFound, Abandons, LifecycleAllows
  <2>. QED
    BY <2>1, <2>2, <2>3
<1>4. ASSUME NEW s \in Session, NEW p \in Pg, Draw(s, p)
       PROVE ReservationOK'
  BY <1>4 DEF Draw, Locks, KeyFree, Goes, reservations, locals, locks
<1>5. ASSUME NEW s \in Session, Insert(s)
       PROVE ReservationOK'
  <2>1. CASE UNCHANGED <<status, pgNo>>
    BY <1>5, <2>1 DEF Insert
  <2>2. CASE /\ status[rec[s]] = "NONE"
             /\ ~Issued(num[s])
             /\ status' = [status EXCEPT ![rec[s]] = "RESERVED"]
             /\ pgNo' = [pgNo EXCEPT ![rec[s]] = num[s]]
    <3>1. rec[s] \in Record /\ num[s] \in Pg
      BY <1>5 DEF Insert
    <3>2. UNCHANGED <<expired, devices, saves>>
      BY <1>5 DEF Insert
    <3>. QED
      BY <2>2, <3>1, <3>2 DEF Issued
  <2>. QED
    BY <1>5, <2>1, <2>2 DEF Insert
<1>6. ASSUME NEW s \in Session, NEW p \in Pg, NEW r \in Record \cup {NoRecord}, Save(s, p, r)
       PROVE ReservationOK'
  BY <1>6 DEF Save, Starts, Goes, reservations, locals, locks
<1>7. ASSUME NEW s \in Session, LockNumber(s)
       PROVE ReservationOK'
  BY <1>7 DEF LockNumber, Locks, KeyFree, Goes, reservations, locals, locks
<1>8. ASSUME NEW s \in Session, CheckReservation(s)
       PROVE ReservationOK'
  BY <1>8
     DEF CheckReservation, HasReservation, MayConsume, Unlocked, Ends, Goes,
         reservations, locals, locks
<1>9. ASSUME NEW s \in Session, CheckNumber(s)
       PROVE ReservationOK'
  BY <1>9
     DEF CheckNumber, HasReservation, ReservedByOther, Unlocked, Ends, Goes,
         reservations, locals, locks
<1>10. ASSUME NEW s \in Session, SaveRecord(s)
       PROVE ReservationOK'
  <2>1. (rec[s] \in Record /\ status[rec[s]] # "NONE") \/ UNCHANGED status
    BY <1>10 DEF SaveRecord
  <2>2. UNCHANGED status \/ status' = [status EXCEPT ![rec[s]] = "CONSUMED"]
    BY <1>10 DEF SaveRecord
  <2>3. UNCHANGED <<pgNo, expired>>
    BY <1>10 DEF SaveRecord
  <2>4. devices' \in SUBSET Pg /\ saves' \in [Record -> Nat]
    BY <1>10 DEF SaveRecord
  <2>. QED
    BY <2>1, <2>2, <2>3, <2>4
<1>11. ASSUME NEW s \in Session, Fails(s)
       PROVE ReservationOK'
  BY <1>11 DEF Fails, Ends, Goes, reservations, locals, locks
<1>12. ASSUME NEW p \in Pg, CreateByHand(p)
       PROVE ReservationOK'
  BY <1>12 DEF CreateByHand, reservations, locals, locks
<1>13. ASSUME NEW r \in Record, Abandon(r)
       PROVE ReservationOK'
  BY <1>13 DEF Abandon, Abandons, Unlocked, reservations, locals, locks
<1>14. ASSUME NEW r \in Record, Expire(r)
       PROVE ReservationOK'
  BY <1>14 DEF Expire, Abandons, Unlocked, reservations, locals, locks
<1>15. ASSUME NEW r \in Record, TimePasses(r)
       PROVE ReservationOK'
  BY <1>15 DEF TimePasses, reservations, locals, locks
<1>16. CASE UNCHANGED vars
  BY <1>16 DEF vars, reservations, locals, locks
<1>. QED
  BY <1>1, <1>2, <1>3, <1>4, <1>5, <1>6, <1>7, <1>8, <1>9, <1>10, <1>11, <1>12,
     <1>13, <1>14, <1>15, <1>16
     DEF Next, Step, Other


LEMMA TypeParts == TypeOK <=> SessionOK /\ ReservationOK
  BY DEF TypeOK, SessionOK, ReservationOK

LEMMA TypeStep == TypeOK /\ WorkInv /\ [Next]_vars => TypeOK'
<1>1. TypeOK' <=> (SessionOK /\ ReservationOK)'
  BY DEF TypeOK, SessionOK, ReservationOK
<1>. QED
  BY <1>1, TypeParts, SessionStep, ReservationStep

\* A session holds what its next statement needs.
LEMMA WorkStep == TypeOK /\ WorkInv /\ [Next]_vars => WorkInv'
<1> SUFFICES ASSUME TypeOK, WorkInv, [Next]_vars PROVE WorkInv'
  OBVIOUS
<1> USE DEF TypeOK, WorkInv
<1>1. ASSUME NEW s \in Session, NEW r \in Record, Reserve(s, r)
       PROVE WorkInv'
  BY <1>1 DEF Reserve, Starts, Goes, reservations, locals, locks
<1>2. ASSUME NEW s \in Session, Look(s)
       PROVE WorkInv'
  BY <1>2 DEF Look, Ends, Goes, reservations, locals, locks
<1>3. ASSUME NEW s \in Session, ExpireFound(s)
       PROVE WorkInv'
  BY <1>3
     DEF ExpireFound, Abandons, LifecycleAllows, Unlocked, Ends, Goes,
         reservations, locals, locks
<1>4. ASSUME NEW s \in Session, NEW p \in Pg, Draw(s, p)
       PROVE WorkInv'
  BY <1>4 DEF Draw, Locks, KeyFree, Goes, reservations, locals, locks
<1>5. ASSUME NEW s \in Session, Insert(s)
       PROVE WorkInv'
  BY <1>5 DEF Insert, Issued, Ends, Goes, reservations, locals, locks
<1>6. ASSUME NEW s \in Session, NEW p \in Pg, NEW r \in Record \cup {NoRecord}, Save(s, p, r)
       PROVE WorkInv'
  BY <1>6 DEF Save, Starts, Goes, reservations, locals, locks
<1>7. ASSUME NEW s \in Session, LockNumber(s)
       PROVE WorkInv'
  BY <1>7 DEF LockNumber, Locks, KeyFree, Goes, reservations, locals, locks
<1>8. ASSUME NEW s \in Session, CheckReservation(s)
       PROVE WorkInv'
  BY <1>8
     DEF CheckReservation, HasReservation, MayConsume, Unlocked, Ends, Goes,
         reservations, locals, locks
<1>9. ASSUME NEW s \in Session, CheckNumber(s)
       PROVE WorkInv'
  BY <1>9
     DEF CheckNumber, HasReservation, ReservedByOther, Unlocked, Ends, Goes,
         reservations, locals, locks
<1>10. ASSUME NEW s \in Session, SaveRecord(s)
       PROVE WorkInv'
  BY <1>10 DEF SaveRecord, Ends, Goes, reservations, locals, locks
<1>11. ASSUME NEW s \in Session, Fails(s)
       PROVE WorkInv'
  BY <1>11 DEF Fails, Ends, Goes, reservations, locals, locks
<1>12. ASSUME NEW p \in Pg, CreateByHand(p)
       PROVE WorkInv'
  BY <1>12 DEF CreateByHand, reservations, locals, locks
<1>13. ASSUME NEW r \in Record, Abandon(r)
       PROVE WorkInv'
  BY <1>13 DEF Abandon, Abandons, Unlocked, reservations, locals, locks
<1>14. ASSUME NEW r \in Record, Expire(r)
       PROVE WorkInv'
  BY <1>14 DEF Expire, Abandons, Unlocked, reservations, locals, locks
<1>15. ASSUME NEW r \in Record, TimePasses(r)
       PROVE WorkInv'
  BY <1>15 DEF TimePasses, reservations, locals, locks
<1>16. CASE UNCHANGED vars
  BY <1>16 DEF vars, reservations, locals, locks
<1>. QED
  BY <1>1, <1>2, <1>3, <1>4, <1>5, <1>6, <1>7, <1>8, <1>9, <1>10, <1>11, <1>12,
     <1>13, <1>14, <1>15, <1>16
     DEF Next, Step, Other

\* lockAggregateKey waits for the holder of the lock.
LEMMA KeysStep == TypeOK /\ KeysApart /\ [Next]_vars => KeysApart'
<1> SUFFICES ASSUME TypeOK, KeysApart, [Next]_vars PROVE KeysApart'
  OBVIOUS
<1> USE DEF TypeOK, KeysApart
<1>1. ASSUME NEW s \in Session, NEW r \in Record, Reserve(s, r)
       PROVE KeysApart'
  BY <1>1 DEF Reserve, Starts, Goes, reservations, locals, locks
<1>2. ASSUME NEW s \in Session, Look(s)
       PROVE KeysApart'
  BY <1>2 DEF Look, Ends, Goes, reservations, locals, locks
<1>3. ASSUME NEW s \in Session, ExpireFound(s)
       PROVE KeysApart'
  BY <1>3
     DEF ExpireFound, Abandons, LifecycleAllows, Unlocked, Ends, Goes,
         reservations, locals, locks
<1>4. ASSUME NEW s \in Session, NEW p \in Pg, Draw(s, p)
       PROVE KeysApart'
  BY <1>4 DEF Draw, Locks, KeyFree, Goes, reservations, locals, locks
<1>5. ASSUME NEW s \in Session, Insert(s)
       PROVE KeysApart'
  <2>1. UNCHANGED keys \/ keys' = [keys EXCEPT ![s] = {}]
    BY <1>5 DEF Insert, Ends, locks
  <2>. QED
    BY <2>1
<1>6. ASSUME NEW s \in Session, NEW p \in Pg, NEW r \in Record \cup {NoRecord}, Save(s, p, r)
       PROVE KeysApart'
  BY <1>6 DEF Save, Starts, Goes, reservations, locals, locks
<1>7. ASSUME NEW s \in Session, LockNumber(s)
       PROVE KeysApart'
  BY <1>7 DEF LockNumber, Locks, KeyFree, Goes, reservations, locals, locks
<1>8. ASSUME NEW s \in Session, CheckReservation(s)
       PROVE KeysApart'
  BY <1>8
     DEF CheckReservation, HasReservation, MayConsume, Unlocked, Ends, Goes,
         reservations, locals, locks
<1>9. ASSUME NEW s \in Session, CheckNumber(s)
       PROVE KeysApart'
  BY <1>9
     DEF CheckNumber, HasReservation, ReservedByOther, Unlocked, Ends, Goes,
         reservations, locals, locks
<1>10. ASSUME NEW s \in Session, SaveRecord(s)
       PROVE KeysApart'
  BY <1>10 DEF SaveRecord, Ends, Goes, reservations, locals, locks
<1>11. ASSUME NEW s \in Session, Fails(s)
       PROVE KeysApart'
  BY <1>11 DEF Fails, Ends, Goes, reservations, locals, locks
<1>12. ASSUME NEW p \in Pg, CreateByHand(p)
       PROVE KeysApart'
  BY <1>12 DEF CreateByHand, reservations, locals, locks
<1>13. ASSUME NEW r \in Record, Abandon(r)
       PROVE KeysApart'
  BY <1>13 DEF Abandon, Abandons, Unlocked, reservations, locals, locks
<1>14. ASSUME NEW r \in Record, Expire(r)
       PROVE KeysApart'
  BY <1>14 DEF Expire, Abandons, Unlocked, reservations, locals, locks
<1>15. ASSUME NEW r \in Record, TimePasses(r)
       PROVE KeysApart'
  BY <1>15 DEF TimePasses, reservations, locals, locks
<1>16. CASE UNCHANGED vars
  BY <1>16 DEF vars, reservations, locals, locks
<1>. QED
  BY <1>1, <1>2, <1>3, <1>4, <1>5, <1>6, <1>7, <1>8, <1>9, <1>10, <1>11, <1>12,
     <1>13, <1>14, <1>15, <1>16
     DEF Next, Step, Other

\* FOR UPDATE waits for the holder of the row.
LEMMA RowsStep == SessionOK /\ RowsApart /\ [Next]_vars => RowsApart'
<1> SUFFICES ASSUME SessionOK, RowsApart, [Next]_vars PROVE RowsApart'
  OBVIOUS
<1> USE DEF SessionOK, RowsApart
<1>1. ASSUME NEW s \in Session, NEW r \in Record, Reserve(s, r)
       PROVE RowsApart'
  BY <1>1 DEF Reserve, Starts, Goes, reservations, locals, locks
<1>2. ASSUME NEW s \in Session, Look(s)
       PROVE RowsApart'
  <2>1. CASE Ends(s)
    BY <2>1, EndsRows
  <2>2. CASE ~Ends(s)
    BY <1>2, <2>2 DEF Look, Goes, locals, locks
  <2>. QED
    BY <2>1, <2>2
<1>3. ASSUME NEW s \in Session, ExpireFound(s)
       PROVE RowsApart'
  BY <1>3
     DEF ExpireFound, Abandons, LifecycleAllows, Unlocked, Ends, Goes,
         reservations, locals, locks
<1>4. ASSUME NEW s \in Session, NEW p \in Pg, Draw(s, p)
       PROVE RowsApart'
  BY <1>4 DEF Draw, Locks, KeyFree, Goes, reservations, locals, locks
<1>5. ASSUME NEW s \in Session, Insert(s)
       PROVE RowsApart'
  <2>1. CASE Ends(s)
    BY <2>1, EndsRows
  <2>2. CASE ~Ends(s)
    BY <1>5, <2>2 DEF Insert, Issued, Goes, locals, locks
  <2>. QED
    BY <2>1, <2>2
<1>6. ASSUME NEW s \in Session, NEW p \in Pg, NEW r \in Record \cup {NoRecord}, Save(s, p, r)
       PROVE RowsApart'
  BY <1>6 DEF Save, Starts, Goes, reservations, locals, locks
<1>7. ASSUME NEW s \in Session, LockNumber(s)
       PROVE RowsApart'
  BY <1>7 DEF LockNumber, Locks, KeyFree, Goes, reservations, locals, locks
<1>8. ASSUME NEW s \in Session, CheckReservation(s)
       PROVE RowsApart'
  <2>1. CASE Ends(s)
    BY <2>1, EndsRows
  <2>2. CASE ~Ends(s)
    BY <1>8, <2>2
       DEF CheckReservation, HasReservation, MayConsume, Unlocked, Goes,
           locals, locks
  <2>. QED
    BY <2>1, <2>2
<1>9. ASSUME NEW s \in Session, CheckNumber(s)
       PROVE RowsApart'
  <2>1. CASE Ends(s)
    BY <2>1, EndsRows
  <2>2. CASE ~Ends(s)
    BY <1>9, <2>2
       DEF CheckNumber, HasReservation, ReservedByOther, Unlocked, Goes,
           locals, locks
  <2>. QED
    BY <2>1, <2>2
<1>10. ASSUME NEW s \in Session, SaveRecord(s)
       PROVE RowsApart'
  BY <1>10 DEF SaveRecord, Ends, Goes, reservations, locals, locks
<1>11. ASSUME NEW s \in Session, Fails(s)
       PROVE RowsApart'
  BY <1>11 DEF Fails, Ends, Goes, reservations, locals, locks
<1>12. ASSUME NEW p \in Pg, CreateByHand(p)
       PROVE RowsApart'
  BY <1>12 DEF CreateByHand, reservations, locals, locks
<1>13. ASSUME NEW r \in Record, Abandon(r)
       PROVE RowsApart'
  BY <1>13 DEF Abandon, Abandons, Unlocked, reservations, locals, locks
<1>14. ASSUME NEW r \in Record, Expire(r)
       PROVE RowsApart'
  BY <1>14 DEF Expire, Abandons, Unlocked, reservations, locals, locks
<1>15. ASSUME NEW r \in Record, TimePasses(r)
       PROVE RowsApart'
  BY <1>15 DEF TimePasses, reservations, locals, locks
<1>16. CASE UNCHANGED vars
  BY <1>16 DEF vars, reservations, locals, locks
<1>. QED
  BY <1>1, <1>2, <1>3, <1>4, <1>5, <1>6, <1>7, <1>8, <1>9, <1>10, <1>11, <1>12,
     <1>13, <1>14, <1>15, <1>16
     DEF Next, Step, Other

\* Whatever changes a reservation waits for its row lock.
LEMMA ConsumingStep ==
  TypeOK /\ WorkInv /\ RowsApart /\ ConsumingInv /\ [Next]_vars
    => ConsumingInv'
<1> SUFFICES ASSUME TypeOK, WorkInv, RowsApart, ConsumingInv, [Next]_vars
             PROVE  ConsumingInv'
  OBVIOUS
<1> USE DEF TypeOK, WorkInv, RowsApart, ConsumingInv
<1>1. ASSUME NEW s \in Session, NEW r \in Record, Reserve(s, r)
       PROVE ConsumingInv'
  BY <1>1 DEF Reserve, Starts, Goes, reservations, locals, locks
<1>2. ASSUME NEW s \in Session, Look(s)
       PROVE ConsumingInv'
  <2>1. /\ pc'[s] # "consuming"
        /\ \A t \in Session \ {s} :
             /\ pc'[t] = pc[t] /\ rec'[t] = rec[t]
             /\ num'[t] = num[t] /\ rows'[t] = rows[t]
    BY <1>2 DEF Look, Ends, Goes, locals, locks
  <2>2. UNCHANGED <<status, pgNo>>
    BY <1>2 DEF Look, reservations
  <2>. QED
    BY <2>1, <2>2
<1>3. ASSUME NEW s \in Session, ExpireFound(s)
       PROVE ConsumingInv'
  BY <1>3
     DEF ExpireFound, Abandons, LifecycleAllows, Unlocked, Ends, Goes,
         reservations, locals, locks
<1>4. ASSUME NEW s \in Session, NEW p \in Pg, Draw(s, p)
       PROVE ConsumingInv'
  BY <1>4 DEF Draw, Locks, KeyFree, Goes, reservations, locals, locks
<1>5. ASSUME NEW s \in Session, Insert(s)
       PROVE ConsumingInv'
  BY <1>5 DEF Insert, Issued, Ends, Goes, reservations, locals, locks
<1>6. ASSUME NEW s \in Session, NEW p \in Pg, NEW r \in Record \cup {NoRecord}, Save(s, p, r)
       PROVE ConsumingInv'
  BY <1>6 DEF Save, Starts, Goes, reservations, locals, locks
<1>7. ASSUME NEW s \in Session, LockNumber(s)
       PROVE ConsumingInv'
  BY <1>7 DEF LockNumber, Locks, KeyFree, Goes, reservations, locals, locks
<1>8. ASSUME NEW s \in Session, CheckReservation(s)
       PROVE ConsumingInv'
  BY <1>8
     DEF CheckReservation, HasReservation, MayConsume, Unlocked, Ends, Goes,
         reservations, locals, locks
<1>9. ASSUME NEW s \in Session, CheckNumber(s)
       PROVE ConsumingInv'
  BY <1>9
     DEF CheckNumber, HasReservation, ReservedByOther, Unlocked, Ends, Goes,
         reservations, locals, locks
<1>10. ASSUME NEW s \in Session, SaveRecord(s)
       PROVE ConsumingInv'
  BY <1>10 DEF SaveRecord, Ends, Goes, reservations, locals, locks
<1>11. ASSUME NEW s \in Session, Fails(s)
       PROVE ConsumingInv'
  BY <1>11 DEF Fails, Ends, Goes, reservations, locals, locks
<1>12. ASSUME NEW p \in Pg, CreateByHand(p)
       PROVE ConsumingInv'
  BY <1>12 DEF CreateByHand, reservations, locals, locks
<1>13. ASSUME NEW r \in Record, Abandon(r)
       PROVE ConsumingInv'
  BY <1>13 DEF Abandon, Abandons, Unlocked, reservations, locals, locks
<1>14. ASSUME NEW r \in Record, Expire(r)
       PROVE ConsumingInv'
  BY <1>14 DEF Expire, Abandons, Unlocked, reservations, locals, locks
<1>15. ASSUME NEW r \in Record, TimePasses(r)
       PROVE ConsumingInv'
  BY <1>15 DEF TimePasses, reservations, locals, locks
<1>16. CASE UNCHANGED vars
  BY <1>16 DEF vars, reservations, locals, locks
<1>. QED
  BY <1>1, <1>2, <1>3, <1>4, <1>5, <1>6, <1>7, <1>8, <1>9, <1>10, <1>11, <1>12,
     <1>13, <1>14, <1>15, <1>16
     DEF Next, Step, Other

\* A number is issued under its advisory lock, which the save holds.
LEMMA SavingStep ==
  TypeOK /\ WorkInv /\ KeysApart /\ SavingInv /\ [Next]_vars => SavingInv'
<1> SUFFICES ASSUME TypeOK, WorkInv, KeysApart, SavingInv, [Next]_vars
             PROVE  SavingInv'
  OBVIOUS
<1> USE DEF TypeOK, WorkInv, KeysApart, SavingInv
<1>1. ASSUME NEW s \in Session, NEW r \in Record, Reserve(s, r)
       PROVE SavingInv'
  BY <1>1 DEF Reserve, Starts, Goes, reservations, locals, locks
<1>2. ASSUME NEW s \in Session, Look(s)
       PROVE SavingInv'
  BY <1>2 DEF Look, Ends, Goes, reservations, locals, locks
<1>3. ASSUME NEW s \in Session, ExpireFound(s)
       PROVE SavingInv'
  BY <1>3
     DEF ExpireFound, Abandons, LifecycleAllows, Unlocked, Ends, Goes,
         reservations, locals, locks
<1>4. ASSUME NEW s \in Session, NEW p \in Pg, Draw(s, p)
       PROVE SavingInv'
  BY <1>4 DEF Draw, Locks, KeyFree, Goes, reservations, locals, locks
<1>5. ASSUME NEW s \in Session, Insert(s)
       PROVE SavingInv'
  BY <1>5 DEF Insert, Issued, Ends, Goes, reservations, locals, locks
<1>6. ASSUME NEW s \in Session, NEW p \in Pg, NEW r \in Record \cup {NoRecord}, Save(s, p, r)
       PROVE SavingInv'
  BY <1>6 DEF Save, Starts, Goes, reservations, locals, locks
<1>7. ASSUME NEW s \in Session, LockNumber(s)
       PROVE SavingInv'
  BY <1>7 DEF LockNumber, Locks, KeyFree, Goes, reservations, locals, locks
<1>8. ASSUME NEW s \in Session, CheckReservation(s)
       PROVE SavingInv'
  BY <1>8
     DEF CheckReservation, HasReservation, MayConsume, Unlocked, Ends, Goes,
         reservations, locals, locks
<1>9. ASSUME NEW s \in Session, CheckNumber(s)
       PROVE SavingInv'
  BY <1>9
     DEF CheckNumber, HasReservation, ReservedByOther, Unlocked, Ends, Goes,
         reservations, locals, locks
<1>10. ASSUME NEW s \in Session, SaveRecord(s)
       PROVE SavingInv'
  BY <1>10 DEF SaveRecord, Ends, Goes, reservations, locals, locks
<1>11. ASSUME NEW s \in Session, Fails(s)
       PROVE SavingInv'
  BY <1>11 DEF Fails, Ends, Goes, reservations, locals, locks
<1>12. ASSUME NEW p \in Pg, CreateByHand(p)
       PROVE SavingInv'
  BY <1>12 DEF CreateByHand, reservations, locals, locks
<1>13. ASSUME NEW r \in Record, Abandon(r)
       PROVE SavingInv'
  BY <1>13 DEF Abandon, Abandons, Unlocked, reservations, locals, locks
<1>14. ASSUME NEW r \in Record, Expire(r)
       PROVE SavingInv'
  BY <1>14 DEF Expire, Abandons, Unlocked, reservations, locals, locks
<1>15. ASSUME NEW r \in Record, TimePasses(r)
       PROVE SavingInv'
  BY <1>15 DEF TimePasses, reservations, locals, locks
<1>16. CASE UNCHANGED vars
  BY <1>16 DEF vars, reservations, locals, locks
<1>. QED
  BY <1>1, <1>2, <1>3, <1>4, <1>5, <1>6, <1>7, <1>8, <1>9, <1>10, <1>11, <1>12,
     <1>13, <1>14, <1>15, <1>16
     DEF Next, Step, Other

\* A save consumes the reservation, and a consumed one stays consumed.
LEMMA CountStep ==
  TypeOK /\ WorkInv /\ ConsumingInv /\ CountInv /\ [Next]_vars => CountInv'
<1> SUFFICES ASSUME TypeOK, WorkInv, ConsumingInv, CountInv, [Next]_vars
             PROVE  CountInv'
  OBVIOUS
<1> USE DEF TypeOK, WorkInv, ConsumingInv, CountInv
<1>1. ASSUME NEW s \in Session, NEW r \in Record, Reserve(s, r)
       PROVE CountInv'
  BY <1>1 DEF Reserve, Starts, Goes, reservations, locals, locks
<1>2. ASSUME NEW s \in Session, Look(s)
       PROVE CountInv'
  BY <1>2 DEF Look, Ends, Goes, reservations, locals, locks
<1>3. ASSUME NEW s \in Session, ExpireFound(s)
       PROVE CountInv'
  BY <1>3
     DEF ExpireFound, Abandons, LifecycleAllows, Unlocked, Ends, Goes,
         reservations, locals, locks
<1>4. ASSUME NEW s \in Session, NEW p \in Pg, Draw(s, p)
       PROVE CountInv'
  BY <1>4 DEF Draw, Locks, KeyFree, Goes, reservations, locals, locks
<1>5. ASSUME NEW s \in Session, Insert(s)
       PROVE CountInv'
  BY <1>5 DEF Insert, Issued, Ends, Goes, reservations, locals, locks
<1>6. ASSUME NEW s \in Session, NEW p \in Pg, NEW r \in Record \cup {NoRecord}, Save(s, p, r)
       PROVE CountInv'
  BY <1>6 DEF Save, Starts, Goes, reservations, locals, locks
<1>7. ASSUME NEW s \in Session, LockNumber(s)
       PROVE CountInv'
  BY <1>7 DEF LockNumber, Locks, KeyFree, Goes, reservations, locals, locks
<1>8. ASSUME NEW s \in Session, CheckReservation(s)
       PROVE CountInv'
  BY <1>8
     DEF CheckReservation, HasReservation, MayConsume, Unlocked, Ends, Goes,
         reservations, locals, locks
<1>9. ASSUME NEW s \in Session, CheckNumber(s)
       PROVE CountInv'
  BY <1>9
     DEF CheckNumber, HasReservation, ReservedByOther, Unlocked, Ends, Goes,
         reservations, locals, locks
<1>10. ASSUME NEW s \in Session, SaveRecord(s)
       PROVE CountInv'
  BY <1>10 DEF SaveRecord, Ends, Goes, reservations, locals, locks
<1>11. ASSUME NEW s \in Session, Fails(s)
       PROVE CountInv'
  BY <1>11 DEF Fails, Ends, Goes, reservations, locals, locks
<1>12. ASSUME NEW p \in Pg, CreateByHand(p)
       PROVE CountInv'
  BY <1>12 DEF CreateByHand, reservations, locals, locks
<1>13. ASSUME NEW r \in Record, Abandon(r)
       PROVE CountInv'
  BY <1>13 DEF Abandon, Abandons, Unlocked, reservations, locals, locks
<1>14. ASSUME NEW r \in Record, Expire(r)
       PROVE CountInv'
  BY <1>14 DEF Expire, Abandons, Unlocked, reservations, locals, locks
<1>15. ASSUME NEW r \in Record, TimePasses(r)
       PROVE CountInv'
  BY <1>15 DEF TimePasses, reservations, locals, locks
<1>16. CASE UNCHANGED vars
  BY <1>16 DEF vars, reservations, locals, locks
<1>. QED
  BY <1>1, <1>2, <1>3, <1>4, <1>5, <1>6, <1>7, <1>8, <1>9, <1>10, <1>11, <1>12,
     <1>13, <1>14, <1>15, <1>16
     DEF Next, Step, Other

\* No step takes a consumption back.
LEMMA FinalStep ==
  ASSUME TypeOK, WorkInv, [Next]_vars, NEW q \in Record, status[q] = "CONSUMED"
  PROVE  status'[q] = "CONSUMED"
<1> USE DEF TypeOK, WorkInv
<1>1. ASSUME NEW s \in Session, NEW r \in Record, Reserve(s, r)
       PROVE status'[q] = "CONSUMED"
  BY <1>1 DEF Reserve, Starts, Goes, reservations
<1>2. ASSUME NEW s \in Session, Look(s)
       PROVE status'[q] = "CONSUMED"
  BY <1>2 DEF Look, Ends, Goes, reservations
<1>3. ASSUME NEW s \in Session, ExpireFound(s)
       PROVE status'[q] = "CONSUMED"
  BY <1>3
     DEF ExpireFound, Abandons, LifecycleAllows, Unlocked, Ends, Goes,
         reservations
<1>4. ASSUME NEW s \in Session, NEW p \in Pg, Draw(s, p)
       PROVE status'[q] = "CONSUMED"
  BY <1>4 DEF Draw, Locks, KeyFree, Goes, reservations
<1>5. ASSUME NEW s \in Session, Insert(s)
       PROVE status'[q] = "CONSUMED"
  BY <1>5 DEF Insert, Issued, Ends, Goes, reservations
<1>6. ASSUME NEW s \in Session, NEW p \in Pg, NEW r \in Record \cup {NoRecord}, Save(s, p, r)
       PROVE status'[q] = "CONSUMED"
  BY <1>6 DEF Save, Starts, Goes, reservations
<1>7. ASSUME NEW s \in Session, LockNumber(s)
       PROVE status'[q] = "CONSUMED"
  BY <1>7 DEF LockNumber, Locks, KeyFree, Goes, reservations
<1>8. ASSUME NEW s \in Session, CheckReservation(s)
       PROVE status'[q] = "CONSUMED"
  BY <1>8
     DEF CheckReservation, HasReservation, MayConsume, Unlocked, Ends, Goes,
         reservations
<1>9. ASSUME NEW s \in Session, CheckNumber(s)
       PROVE status'[q] = "CONSUMED"
  BY <1>9
     DEF CheckNumber, HasReservation, ReservedByOther, Unlocked, Ends, Goes,
         reservations
<1>10. ASSUME NEW s \in Session, SaveRecord(s)
       PROVE status'[q] = "CONSUMED"
  BY <1>10 DEF SaveRecord, Ends, Goes, reservations
<1>11. ASSUME NEW s \in Session, Fails(s)
       PROVE status'[q] = "CONSUMED"
  BY <1>11 DEF Fails, Ends, Goes, reservations
<1>12. ASSUME NEW p \in Pg, CreateByHand(p)
       PROVE status'[q] = "CONSUMED"
  BY <1>12 DEF CreateByHand, reservations
<1>13. ASSUME NEW r \in Record, Abandon(r)
       PROVE status'[q] = "CONSUMED"
  BY <1>13 DEF Abandon, Abandons, Unlocked, reservations
<1>14. ASSUME NEW r \in Record, Expire(r)
       PROVE status'[q] = "CONSUMED"
  BY <1>14 DEF Expire, Abandons, Unlocked, reservations
<1>15. ASSUME NEW r \in Record, TimePasses(r)
       PROVE status'[q] = "CONSUMED"
  BY <1>15 DEF TimePasses, reservations
<1>16. CASE UNCHANGED vars
  BY <1>16 DEF vars, reservations
<1>. QED
  BY <1>1, <1>2, <1>3, <1>4, <1>5, <1>6, <1>7, <1>8, <1>9, <1>10, <1>11, <1>12,
     <1>13, <1>14, <1>15, <1>16
     DEF Next, Step, Other

\* The inductive invariant of the issued numbers holds in every behaviour.
THEOREM Inductive == Spec => []IInv
<1>1. IInv /\ [Next]_vars => IInv'
  BY TypeStep, TypeParts, WorkStep, KeysStep, RowsStep, ConsumingStep,
     SavingStep, CountStep
     DEF IInv, LockInv
<1>. QED
  BY InitIInv, <1>1, PTL DEF Spec

\* No two upload rows are issued the same number, for any rows and numbers
\* (uq_inspection_pg_reservations_pg_no with ON CONFLICT DO NOTHING).
THEOREM TypeCorrect == Spec => []TypeOK
<1>1. IInv => TypeOK
  BY DEF IInv
<1>. QED
  BY Inductive, <1>1, PTL

\* The advisory lock that reserveInspectionPg and saveInspectionRecord share
\* keeps a reserved number for its upload row.
THEOREM KeptForItsRowAlways == Spec => []KeptForItsRow
<1>1. IInv => KeptForItsRow
  BY DEF IInv, LockInv, WorkInv, ConsumingInv, SavingInv, KeptForItsRow, TypeOK
<1>. QED
  BY Inductive, <1>1, PTL

\* The row lock of findLockedInspectionPgReservation lasts to the commit, so
\* an upload row is saved for once.
THEOREM SavedOnceAlways == Spec => []SavedOnce
<1>1. ASSUME IInv, NEW r \in Record PROVE saves[r] <= 1
  <2>1. saves[r] = 0 \/ saves[r] = 1
    BY <1>1, Zenon DEF IInv, CountInv
  <2>. QED
    BY <2>1, SMT
<1>2. IInv => SavedOnce
  BY <1>1, Zenon DEF IInv, ConsumingInv, SavedOnce
<1>. QED
  BY Inductive, <1>2, PTL

\* The table's CHECK constraint keeps every consumption, although
\* reserveInspectionPg updates a row that it read without a lock.
THEOREM ConsumedIsFinalAlways == Spec => ConsumedIsFinal
<1>1. IInv /\ [Next]_vars
        => [\A r \in Record :
              status[r] = "CONSUMED" => status'[r] = "CONSUMED"]_vars
  BY FinalStep DEF IInv, LockInv
<1>. QED
  BY Inductive, <1>1, PTL DEF Spec, ConsumedIsFinal
=============================================================================
