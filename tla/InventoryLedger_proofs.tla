----------------------- MODULE InventoryLedger_proofs -----------------------
(***************************************************************************)
(* Proofs about the quantity ledger: its balances are the numbers of the   *)
(* devices for any devices, SKUs, transactions and operations.             *)
(***************************************************************************)
EXTENDS InventoryLedger, FiniteSetTheorems, TLAPS

USE LedgerAssumption DEF LedgerAssumption

Point == {"idle", "reading", "looking", "assigning", "updating", "classifying",
          "moving", "committing"}

Work == [key : Op \cup {NoKey}, dev : Device \cup {NoDevice},
         locked : BOOLEAN, row : BOOLEAN, rev : Nat,
         from : Status \cup {"ABSENT"},
         src : Cell \cup {Nowhere}, dst : Cell \cup {Nowhere}]

\* LedgerTypeOK, with balances that might be negative.
Types ==
  /\ stat \in [Device -> Status \cup {"ABSENT"}]
  /\ rev \in [Device -> Nat]
  /\ sku \in [Device -> Sku]
  /\ balance \in [Cell -> Int]
  /\ booked \subseteq Op
  /\ ledgerPc \in [Tx -> Point]
  /\ work \in [Tx -> Work]
  /\ applied \in [Op -> Nat]

\* Where a device stands.
Place(d) == IF stat[d] = "ABSENT" THEN Nowhere ELSE <<sku[d], stat[d]>>

\* What a session knows of its operation and its locks.
WorkInv(s) ==
  /\ ledgerPc[s] = "idle" => work[s] = NoWork
  /\ ledgerPc[s] # "idle" => work[s].dev \in Device
  /\ ledgerPc[s] \in {"reading", "looking", "assigning", "updating"}
       => work[s].key \in Op
  /\ work[s].key \in Op
       => /\ work[s].dev = request[work[s].key].dev
          /\ LocksDevice(request[work[s].key].policy) => work[s].locked
  /\ ledgerPc[s] = "classifying" => work[s].key \notin Op /\ work[s].locked

\* A transition's reading is right as long as the revision is the one it read.
ReadInv(s) ==
  ledgerPc[s] \in {"looking", "assigning", "updating"} =>
    /\ work[s].from # "ABSENT"
    /\ work[s].rev <= rev[work[s].dev]
    /\ work[s].rev = rev[work[s].dev] => stat[work[s].dev] = work[s].from

LookInv(s) ==
  ledgerPc[s] \in {"assigning", "updating"} =>
    /\ work[s].from # request[work[s].key].to
    /\ Allowed(request[work[s].key].policy, work[s].from,
               request[work[s].key].to)
    /\ work[s].rev = rev[work[s].dev] => work[s].key \notin booked

AssignInv(s) ==
  ledgerPc[s] = "updating" =>
    \E k \in Sku :
      /\ work[s].src = <<k, work[s].from>>
      /\ work[s].dst = <<k, request[work[s].key].to>>
      /\ work[s].rev = rev[work[s].dev] => sku[work[s].dev] = k

TransitionMove(s) ==
  /\ work[s].row
  /\ work[s].key \notin booked
  /\ stat[work[s].dev] # "ABSENT"
  /\ Allowed(request[work[s].key].policy, stat[work[s].dev],
             request[work[s].key].to)
  /\ work[s].dst = <<sku[work[s].dev], request[work[s].key].to>>

OtherMove(s) ==
  /\ work[s].locked
  /\ \/ work[s].src = Nowhere
     \/ work[s].dst = Nowhere /\ work[s].row
     \/ /\ stat[work[s].dev] \in SkuEditable
        /\ \E k \in Sku : work[s].dst = <<k, stat[work[s].dev]>>

\* A session that moves a device moves it from where it stands.
MoveInv(s) ==
  ledgerPc[s] \in {"moving", "committing"} =>
    /\ work[s].src = Place(work[s].dev)
    /\ work[s].src # work[s].dst
    /\ work[s].key \in Op => TransitionMove(s)
    /\ work[s].key \notin Op => OtherMove(s)

SessionInv(s) ==
  WorkInv(s) /\ ReadInv(s) /\ LookInv(s) /\ AssignInv(s) /\ MoveInv(s)

Sessions == \A s \in Tx : SessionInv(s)

\* A device's lock and the lock of its inventory row have one holder each.
Apart(v, w) ==
  v.dev = w.dev => ~(v.locked /\ w.locked) /\ ~(v.row /\ w.row)

LocksApart == \A s, t \in Tx : s # t => Apart(work[s], work[t])

CountInv ==
  \A k \in Op : /\ applied[k] = 0 \/ applied[k] = 1
                /\ applied[k] # 0 => k \in booked

IInv == Types /\ Sessions /\ LocksApart /\ BalancesMatch /\ CountInv

-----------------------------------------------------------------------------
\* A transition that starts where a SKU may change locks its device.
LEMMA EditableLocks ==
  ASSUME NEW p \in Policy, NEW from \in SkuEditable, NEW to,
         Allowed(p, from, to)
  PROVE  LocksDevice(p)
BY DEF SkuEditable, Allowed, LocksDevice, InitialStatus, BeforeShipment,
       Tracked

LEMMA StatusFacts ==
  /\ "ABSENT" \notin Status
  /\ SkuEditable \subseteq Status
  /\ InitialStatus \subseteq Status
BY DEF Status, SkuEditable, InitialStatus

\* Two sessions never move the same device.
LEMMA OneMover ==
  ASSUME IInv, NEW s \in Tx, NEW t \in Tx, s # t,
         ledgerPc[s] \in {"moving", "committing"},
         ledgerPc[t] \in {"moving", "committing"},
         work[s].dev = work[t].dev
  PROVE  FALSE
<1>1. MoveInv(s) /\ MoveInv(t) /\ WorkInv(s) /\ WorkInv(t)
  BY DEF IInv, Sessions, SessionInv
<1>2. ~(work[s].locked /\ work[t].locked) /\ ~(work[s].row /\ work[t].row)
  BY DEF IInv, LocksApart, Apart
<1>. DEFINE d == work[s].dev
<1>3. d \in Device /\ work[s].src = Place(d) /\ work[t].src = Place(d)
  BY <1>1 DEF MoveInv, WorkInv
<1>4. ASSUME NEW x \in Tx, NEW y \in Tx,
             work[x].key \in Op, work[y].key \notin Op,
             WorkInv(x), MoveInv(x), MoveInv(y),
             work[x].dev = d, work[y].dev = d,
             ledgerPc[x] \in {"moving", "committing"},
             ledgerPc[y] \in {"moving", "committing"},
             ~(work[x].locked /\ work[y].locked),
             ~(work[x].row /\ work[y].row)
      PROVE  FALSE
  <2>1. TransitionMove(x) /\ OtherMove(y) /\ work[y].src = Place(d)
    BY <1>4 DEF MoveInv
  <2>2. Place(d) # Nowhere
    BY <2>1, <1>3, <1>4 DEF TransitionMove, Place, IInv, Types, Cell
  <2>3. stat[d] \in SkuEditable
    BY <2>1, <2>2, <1>4 DEF TransitionMove, OtherMove
  <2>4. request[work[x].key].policy \in Policy
    BY <1>4
  <2>5. LocksDevice(request[work[x].key].policy)
    BY <2>1, <2>3, <2>4, <1>4, EditableLocks DEF TransitionMove
  <2>. QED
    BY <2>1, <2>5, <1>4 DEF WorkInv, OtherMove
<1>5. CASE work[s].key \in Op /\ work[t].key \in Op
  BY <1>1, <1>2, <1>5 DEF MoveInv, TransitionMove
<1>6. CASE work[s].key \notin Op /\ work[t].key \notin Op
  BY <1>1, <1>2, <1>6 DEF MoveInv, OtherMove
<1>7. CASE work[s].key \in Op /\ work[t].key \notin Op
  BY <1>1, <1>2, <1>4, <1>7
<1>8. CASE work[s].key \notin Op /\ work[t].key \in Op
  BY <1>1, <1>2, <1>4, <1>8
<1>. QED
  BY <1>5, <1>6, <1>7, <1>8

LEMMA InitIInv == LedgerInit => IInv
<1> SUFFICES ASSUME LedgerInit PROVE IInv
  OBVIOUS
<1>1. Types
  BY DEF LedgerInit, Types, NoWork, Cell, Point, Work
<1>2. Sessions
  BY DEF LedgerInit, Sessions, SessionInv, WorkInv, ReadInv, LookInv, AssignInv,
         MoveInv, NoWork
<1>3. LocksApart
  BY DEF LedgerInit, LocksApart, Apart, NoWork
<1>4. BalancesMatch
  <2>. SUFFICES ASSUME NEW c \in Cell
               PROVE  balance[c] = Cardinality(Standing(c))
    BY DEF BalancesMatch
  <2>1. Standing(c) = {}
    BY DEF LedgerInit, Standing
  <2>. QED
    BY <2>1, FS_EmptySet DEF LedgerInit
<1>5. CountInv
  BY DEF LedgerInit, CountInv
<1>. QED
  BY <1>1, <1>2, <1>3, <1>4, <1>5 DEF IInv

-----------------------------------------------------------------------------
\* A session's step leaves the others where they are.
LEMMA Others ==
  ASSUME Types, NEW s \in Tx, Transact(s), NEW t \in Tx, t # s
  PROVE  ledgerPc'[t] = ledgerPc[t] /\ work'[t] = work[t]
<1> USE DEF Types
<1>1. ASSUME NEW k \in Op, Transition(s, k)
      PROVE  ledgerPc'[t] = ledgerPc[t] /\ work'[t] = work[t]
  BY <1>1 DEF Transition, Proceeds
<1>2. ASSUME NEW k \in Sku, Classify(s, k)
      PROVE  ledgerPc'[t] = ledgerPc[t] /\ work'[t] = work[t]
  BY <1>2 DEF Classify, Proceeds, Closes
<1>3. CASE Read(s)
  BY <1>3 DEF Read, Proceeds, Closes
<1>4. CASE ReadRow(s)
  BY <1>4 DEF ReadRow, Proceeds, Closes
<1>5. CASE Assign(s)
  BY <1>5 DEF Assign, Proceeds
<1>6. CASE Update(s)
  BY <1>6 DEF Update, Proceeds, Closes
<1>7. ASSUME NEW d \in Device, Reclassify(s, d)
      PROVE  ledgerPc'[t] = ledgerPc[t] /\ work'[t] = work[t]
  BY <1>7 DEF Reclassify, Proceeds
<1>8. ASSUME NEW d \in Device, NEW k \in Sku, NEW st \in InitialStatus,
             Create(s, d, k, st)
      PROVE  ledgerPc'[t] = ledgerPc[t] /\ work'[t] = work[t]
  BY <1>8 DEF Create, Proceeds
<1>9. ASSUME NEW d \in Device, Remove(s, d)
      PROVE  ledgerPc'[t] = ledgerPc[t] /\ work'[t] = work[t]
  BY <1>9 DEF Remove, Proceeds
<1>10. CASE MoveOut(s)
  BY <1>10 DEF MoveOut, Proceeds
<1>11. CASE Commit(s)
  BY <1>11 DEF Commit, Proceeds, Closes
<1>12. CASE Aborts(s)
  BY <1>12 DEF Aborts, Proceeds, Closes
<1>. QED
  BY <1>1, <1>2, <1>3, <1>4, <1>5, <1>6, <1>7, <1>8, <1>9, <1>10, <1>11,
     <1>12 DEF Transact

\* What a session knows holds on while nothing that it depends on changes.
LEMMA Untouched ==
  ASSUME Types, NEW t \in Tx, SessionInv(t),
         ledgerPc'[t] = ledgerPc[t], work'[t] = work[t],
         UNCHANGED <<stat, rev, sku, booked>>
  PROVE  SessionInv(t)'
<1>1. WorkInv(t)' /\ ReadInv(t)' /\ LookInv(t)'
  BY DEF SessionInv, WorkInv, ReadInv, LookInv
<1>2. AssignInv(t)'
  BY DEF SessionInv, AssignInv
<1>3. MoveInv(t)'
  <2>1. Place(work[t].dev)' = Place(work[t].dev)
    BY DEF Place
  <2>. QED
    BY <2>1 DEF SessionInv, MoveInv, TransitionMove, OtherMove
<1>. QED
  BY <1>1, <1>2, <1>3 DEF SessionInv

\* The end of a transaction.
LEMMA EndsInv ==
  ASSUME Types, NEW s \in Tx, Closes(s)
  PROVE  /\ SessionInv(s)'
         /\ ledgerPc' \in [Tx -> Point]
         /\ work' \in [Tx -> Work]
         /\ ~work'[s].locked /\ ~work'[s].row
<1>1. ledgerPc'[s] = "idle" /\ work'[s] = NoWork
  BY DEF Closes, Proceeds, Types
<1>2. SessionInv(s)'
  BY <1>1 DEF SessionInv, WorkInv, ReadInv, LookInv, AssignInv, MoveInv,
              NoWork
<1>3. NoWork \in Work /\ "idle" \in Point
  BY DEF NoWork, Work, Point
<1>4. ledgerPc' \in [Tx -> Point] /\ work' \in [Tx -> Work]
  BY <1>3 DEF Closes, Proceeds, Types
<1>5. ~work'[s].locked /\ ~work'[s].row
  BY <1>1 DEF NoWork
<1>. QED
  BY <1>2, <1>4, <1>5

\* What a session that goes on knows, and the types it leaves.
LEMMA GoesOn ==
  ASSUME Types, NEW s \in Tx, NEW p \in Point, NEW w \in Work,
         Proceeds(s, p), work' = [work EXCEPT ![s] = w]
  PROVE  /\ ledgerPc' \in [Tx -> Point]
         /\ work' \in [Tx -> Work]
         /\ ledgerPc'[s] = p /\ work'[s] = w
BY DEF Types, Proceeds

\* What the session's next steps write.
Began(k) ==
  [NoWork EXCEPT !.key = k, !.dev = request[k].dev,
                 !.locked = LocksDevice(request[k].policy),
                 !.row = LocksRow(request[k].policy)]

HasRead(s) ==
  [work[s] EXCEPT !.rev = rev[work[s].dev], !.from = stat[work[s].dev]]

Aims(s, src, dst) == [work[s] EXCEPT !.src = src, !.dst = dst]

HoldsRow(s) == [work[s] EXCEPT !.row = TRUE]

LEMMA BeganWork ==
  ASSUME NEW k \in Op
  PROVE  /\ Began(k) \in Work
         /\ Began(k).key = k
         /\ Began(k).dev = request[k].dev
         /\ Began(k).locked = LocksDevice(request[k].policy)
         /\ Began(k).row = LocksRow(request[k].policy)
<1>1. request[k].dev \in Device
  OBVIOUS
<1>2. /\ LocksDevice(request[k].policy) \in BOOLEAN
      /\ LocksRow(request[k].policy) \in BOOLEAN
  BY DEF LocksDevice, LocksRow
<1>. QED
  BY <1>1, <1>2 DEF Began, Work, NoWork

LEMMA HasReadWork ==
  ASSUME Types, NEW s \in Tx, work[s].dev \in Device
  PROVE  /\ HasRead(s) \in Work
         /\ HasRead(s).key = work[s].key
         /\ HasRead(s).dev = work[s].dev
         /\ HasRead(s).locked = work[s].locked
         /\ HasRead(s).row = work[s].row
         /\ HasRead(s).rev = rev[work[s].dev]
         /\ HasRead(s).from = stat[work[s].dev]
<1>1. work[s] \in Work
  BY DEF Types
<1>2. rev[work[s].dev] \in Nat /\ stat[work[s].dev] \in Status \cup {"ABSENT"}
  BY DEF Types
<1>. QED
  BY <1>1, <1>2 DEF HasRead, Work

LEMMA AimsWork ==
  ASSUME Types, NEW s \in Tx,
         NEW src \in Cell \cup {Nowhere}, NEW dst \in Cell \cup {Nowhere}
  PROVE  /\ Aims(s, src, dst) \in Work
         /\ Aims(s, src, dst).key = work[s].key
         /\ Aims(s, src, dst).dev = work[s].dev
         /\ Aims(s, src, dst).locked = work[s].locked
         /\ Aims(s, src, dst).row = work[s].row
         /\ Aims(s, src, dst).rev = work[s].rev
         /\ Aims(s, src, dst).from = work[s].from
         /\ Aims(s, src, dst).src = src
         /\ Aims(s, src, dst).dst = dst
<1>1. work[s] \in Work
  BY DEF Types
<1>. QED
  BY <1>1 DEF Aims, Work

LEMMA HoldsRowWork ==
  ASSUME Types, NEW s \in Tx
  PROVE  /\ HoldsRow(s) \in Work
         /\ HoldsRow(s).key = work[s].key
         /\ HoldsRow(s).dev = work[s].dev
         /\ HoldsRow(s).locked = work[s].locked
         /\ HoldsRow(s).row
         /\ HoldsRow(s).src = work[s].src
         /\ HoldsRow(s).dst = work[s].dst
<1>1. work[s] \in Work
  BY DEF Types
<1>. QED
  BY <1>1 DEF HoldsRow, Work

Holding(d) == [NoWork EXCEPT !.dev = d, !.locked = TRUE]

Creating(d, dst) == [NoWork EXCEPT !.dev = d, !.locked = TRUE, !.dst = dst]

Removing(d, src) ==
  [NoWork EXCEPT !.dev = d, !.locked = TRUE, !.row = TRUE, !.src = src]

LEMMA HoldingWork ==
  ASSUME NEW d \in Device
  PROVE  /\ Holding(d) \in Work
         /\ Holding(d).key = NoKey
         /\ Holding(d).dev = d
         /\ Holding(d).locked
         /\ Holding(d).row = FALSE
         /\ Holding(d).src = Nowhere
         /\ Holding(d).dst = Nowhere
BY DEF Holding, Work, NoWork

LEMMA CreatingWork ==
  ASSUME NEW d \in Device, NEW dst \in Cell
  PROVE  /\ Creating(d, dst) \in Work
         /\ Creating(d, dst).key = NoKey
         /\ Creating(d, dst).dev = d
         /\ Creating(d, dst).locked
         /\ Creating(d, dst).row = FALSE
         /\ Creating(d, dst).src = Nowhere
         /\ Creating(d, dst).dst = dst
BY DEF Creating, Work, NoWork

LEMMA RemovingWork ==
  ASSUME NEW d \in Device, NEW src \in Cell
  PROVE  /\ Removing(d, src) \in Work
         /\ Removing(d, src).key = NoKey
         /\ Removing(d, src).dev = d
         /\ Removing(d, src).locked
         /\ Removing(d, src).row = TRUE
         /\ Removing(d, src).src = src
         /\ Removing(d, src).dst = Nowhere
BY DEF Removing, Work, NoWork

-----------------------------------------------------------------------------
\* What a session's step has to keep of its own.
StepKeeps(s) ==
  /\ ledgerPc' \in [Tx -> Point]
  /\ work' \in [Tx -> Work]
  /\ SessionInv(s)'
  /\ \A t \in Tx \ {s} : Apart(work'[s], work[t])

LEMMA EndsKeeps ==
  ASSUME Types, NEW s \in Tx, Closes(s)
  PROVE  StepKeeps(s)
BY EndsInv DEF StepKeeps, Apart

LEMMA TransitionKeeps ==
  ASSUME Types, NEW s \in Tx, NEW k \in Op, Transition(s, k)
  PROVE  StepKeeps(s)
<1>1. work' = [work EXCEPT ![s] = Began(k)] /\ Proceeds(s, "reading")
  BY DEF Transition, Began
<1>2. "reading" \in Point
  BY DEF Point
<1>3. /\ ledgerPc' \in [Tx -> Point] /\ work' \in [Tx -> Work]
      /\ ledgerPc'[s] = "reading" /\ work'[s] = Began(k)
  <2>1. Began(k) \in Work
    BY BeganWork
  <2>. QED
    BY <1>1, <1>2, <2>1, GoesOn
<1>4. SessionInv(s)'
  <2>1. request[k].dev \in Device
    OBVIOUS
  <2>. QED
    BY <1>3, <2>1, BeganWork
    DEF SessionInv, WorkInv, ReadInv, LookInv, AssignInv, MoveInv
<1>5. ASSUME NEW t \in Tx \ {s} PROVE Apart(Began(k), work[t])
  BY BeganWork DEF Transition, Apart, DeviceFree, RowFree
<1>. QED
  BY <1>3, <1>4, <1>5 DEF StepKeeps

LEMMA ReadKeeps ==
  ASSUME Types, LocksApart, NEW s \in Tx, SessionInv(s), Read(s)
  PROVE  StepKeeps(s)
<1>1. CASE Closes(s)
  BY <1>1, EndsKeeps
<1>2. CASE ~Closes(s)
  <2>1. /\ work' = [work EXCEPT ![s] = HasRead(s)] /\ Proceeds(s, "looking")
        /\ stat[work[s].dev] # "ABSENT"
        /\ ledgerPc[s] = "reading" /\ UNCHANGED <<stat, rev>>
    BY <1>2 DEF Read, HasRead, Unwritten
  <2>2. "looking" \in Point /\ work[s].dev \in Device
    BY <2>1 DEF Point, SessionInv, WorkInv
  <2>3. /\ ledgerPc' \in [Tx -> Point] /\ work' \in [Tx -> Work]
        /\ ledgerPc'[s] = "looking" /\ work'[s] = HasRead(s)
    <3>1. HasRead(s) \in Work
      BY <2>2, HasReadWork
    <3>. QED
      BY <2>1, <2>2, <3>1, GoesOn
  <2>4. WorkInv(s)' /\ ReadInv(s)'
    <3>1. rev[work[s].dev] \in Nat
      BY <2>2 DEF Types
    <3>. QED
      BY <2>1, <2>2, <2>3, <3>1, HasReadWork DEF SessionInv, WorkInv, ReadInv
  <2>5. LookInv(s)' /\ AssignInv(s)' /\ MoveInv(s)'
    BY <2>3 DEF LookInv, AssignInv, MoveInv
  <2>6. ASSUME NEW t \in Tx \ {s} PROVE Apart(HasRead(s), work[t])
    BY <2>2, HasReadWork DEF LocksApart, Apart
  <2>. QED
    BY <2>3, <2>4, <2>5, <2>6 DEF StepKeeps, SessionInv
<1>. QED
  BY <1>1, <1>2

LEMMA LookKeeps ==
  ASSUME Types, LocksApart, NEW s \in Tx, SessionInv(s), ReadRow(s)
  PROVE  StepKeeps(s)
<1>1. CASE Closes(s)
  BY <1>1, EndsKeeps
<1>2. CASE ~Closes(s)
  <2>1. /\ work' = work /\ Proceeds(s, "assigning") /\ ledgerPc[s] = "looking"
        /\ UNCHANGED <<stat, rev, booked>>
        /\ work[s].key \notin booked
        /\ work[s].from # request[work[s].key].to
        /\ Allowed(request[work[s].key].policy, work[s].from,
                   request[work[s].key].to)
    BY <1>2 DEF ReadRow, Booked, Unwritten
  <2>2. "assigning" \in Point
    BY DEF Point
  <2>3. /\ ledgerPc' \in [Tx -> Point] /\ work' \in [Tx -> Work]
        /\ ledgerPc'[s] = "assigning" /\ work'[s] = work[s]
    BY <2>1, <2>2 DEF Types, Proceeds
  <2>4. WorkInv(s)' /\ ReadInv(s)'
    BY <2>1, <2>3 DEF SessionInv, WorkInv, ReadInv
  <2>5. LookInv(s)' /\ AssignInv(s)' /\ MoveInv(s)'
    BY <2>1, <2>3 DEF LookInv, AssignInv, MoveInv
  <2>. QED
    BY <2>3, <2>4, <2>5 DEF StepKeeps, SessionInv, LocksApart
<1>. QED
  BY <1>1, <1>2

LEMMA AssignKeeps ==
  ASSUME Types, LocksApart, NEW s \in Tx, SessionInv(s), Assign(s)
  PROVE  StepKeeps(s)
<1>. DEFINE src == <<sku[work[s].dev], work[s].from>>
            dst == <<sku[work[s].dev], request[work[s].key].to>>
<1>1. /\ work' = [work EXCEPT ![s] = Aims(s, src, dst)]
      /\ Proceeds(s, "updating") /\ ledgerPc[s] = "assigning"
      /\ UNCHANGED <<stat, rev, sku, booked>>
  BY DEF Assign, Aims, Unwritten
<1>2. /\ work[s].dev \in Device /\ work[s].key \in Op
      /\ work[s].from # "ABSENT" /\ sku[work[s].dev] \in Sku
      /\ work[s].from \in Status /\ request[work[s].key].to \in Status
  BY <1>1 DEF SessionInv, WorkInv, ReadInv, Types, Work
<1>3. src \in Cell /\ dst \in Cell /\ "updating" \in Point
  BY <1>2 DEF Cell, Point
<1>. HIDE DEF src, dst
<1>4. /\ ledgerPc' \in [Tx -> Point] /\ work' \in [Tx -> Work]
      /\ ledgerPc'[s] = "updating" /\ work'[s] = Aims(s, src, dst)
  <2>1. Aims(s, src, dst) \in Work
    BY <1>3, AimsWork
  <2>. QED
    BY <1>1, <1>3, <2>1, GoesOn
<1>5. /\ work'[s].key = work[s].key /\ work'[s].dev = work[s].dev
      /\ work'[s].locked = work[s].locked /\ work'[s].row = work[s].row
      /\ work'[s].rev = work[s].rev /\ work'[s].from = work[s].from
      /\ work'[s].src = src /\ work'[s].dst = dst
  BY <1>3, <1>4, AimsWork
<1>6. WorkInv(s)' /\ ReadInv(s)' /\ LookInv(s)'
  BY <1>1, <1>4, <1>5 DEF SessionInv, WorkInv, ReadInv, LookInv
<1>7. AssignInv(s)' /\ MoveInv(s)'
  BY <1>1, <1>2, <1>4, <1>5 DEF AssignInv, MoveInv, src, dst
<1>8. ASSUME NEW t \in Tx \ {s} PROVE Apart(work'[s], work[t])
  BY <1>5 DEF LocksApart, Apart
<1>. QED
  BY <1>4, <1>6, <1>7, <1>8 DEF StepKeeps, SessionInv

LEMMA UpdateKeeps ==
  ASSUME Types, LocksApart, NEW s \in Tx, SessionInv(s), Update(s)
  PROVE  StepKeeps(s)
<1>1. CASE Closes(s)
  BY <1>1, EndsKeeps
<1>2. CASE ~Closes(s)
  <2>. DEFINE d == work[s].dev
              to == request[work[s].key].to
  <2>1. /\ work' = [work EXCEPT ![s] = HoldsRow(s)]
        /\ Proceeds(s, "moving") /\ ledgerPc[s] = "updating"
        /\ UNCHANGED <<stat, rev, sku, booked>>
        /\ stat[d] = work[s].from /\ rev[d] = work[s].rev
        /\ RowFree(s, d)
    BY <1>2 DEF Update, HoldsRow, Unwritten, StillThere
  <2>2. d \in Device /\ work[s].key \in Op /\ "moving" \in Point
    BY <2>1 DEF SessionInv, WorkInv, Point
  <2>3. /\ ledgerPc' \in [Tx -> Point] /\ work' \in [Tx -> Work]
        /\ ledgerPc'[s] = "moving" /\ work'[s] = HoldsRow(s)
    <3>1. HoldsRow(s) \in Work
      BY HoldsRowWork
    <3>. QED
      BY <2>1, <2>2, <3>1, GoesOn
  <2>4. /\ work'[s].key = work[s].key /\ work'[s].dev = d
        /\ work'[s].locked = work[s].locked /\ work'[s].row
        /\ work'[s].src = work[s].src /\ work'[s].dst = work[s].dst
    BY <2>3, HoldsRowWork
  <2>5. /\ stat[d] # "ABSENT" /\ stat[d] # to
        /\ Allowed(request[work[s].key].policy, stat[d], to)
        /\ work[s].key \notin booked
    BY <2>1 DEF SessionInv, ReadInv, LookInv
  <2>6. work[s].src = <<sku[d], stat[d]>> /\ work[s].dst = <<sku[d], to>>
    BY <2>1 DEF SessionInv, AssignInv
  <2>7. MoveInv(s)'
    <3>1. Place(d)' = <<sku[d], stat[d]>>
      BY <2>1, <2>4, <2>5 DEF Place
    <3>2. TransitionMove(s)'
      BY <2>1, <2>4, <2>5, <2>6 DEF TransitionMove
    <3>. QED
      BY <2>2, <2>4, <2>5, <2>6, <3>1, <3>2 DEF MoveInv
  <2>8. WorkInv(s)' /\ ReadInv(s)' /\ LookInv(s)' /\ AssignInv(s)'
    BY <2>2, <2>3, <2>4
    DEF SessionInv, WorkInv, ReadInv, LookInv, AssignInv
  <2>9. ASSUME NEW t \in Tx \ {s} PROVE Apart(work'[s], work[t])
    BY <2>1, <2>4 DEF LocksApart, Apart, RowFree
  <2>. QED
    BY <2>3, <2>7, <2>8, <2>9 DEF StepKeeps, SessionInv
<1>. QED
  BY <1>1, <1>2
LEMMA ReclassifyKeeps ==
  ASSUME Types, NEW s \in Tx, NEW d \in Device, Reclassify(s, d)
  PROVE  StepKeeps(s)
<1>1. /\ work' = [work EXCEPT ![s] = Holding(d)]
      /\ Proceeds(s, "classifying")
  BY DEF Reclassify, Holding
<1>2. "classifying" \in Point
  BY DEF Point
<1>3. /\ ledgerPc' \in [Tx -> Point] /\ work' \in [Tx -> Work]
      /\ ledgerPc'[s] = "classifying"
      /\ work'[s] = Holding(d)
  <2>1. Holding(d) \in Work
    BY HoldingWork
  <2>. QED
    BY <1>1, <1>2, <2>1, GoesOn
<1>4. /\ work'[s].key = NoKey /\ work'[s].dev = d
      /\ work'[s].locked /\ ~work'[s].row
      /\ work'[s].src = Nowhere /\ work'[s].dst = Nowhere
  BY <1>2, <1>3, HoldingWork
<1>5. DeviceFree(d)
  BY DEF Reclassify
<1>6. SessionInv(s)'
  BY <1>2, <1>3, <1>4
  DEF SessionInv, WorkInv, ReadInv, LookInv, AssignInv, MoveInv
<1>7. ASSUME NEW t \in Tx \ {s} PROVE Apart(work'[s], work[t])
  BY <1>4, <1>5 DEF DeviceFree, Apart
<1>. QED
  BY <1>3, <1>6, <1>7 DEF StepKeeps

LEMMA ClassifyKeeps ==
  ASSUME Types, LocksApart, NEW s \in Tx, SessionInv(s),
         NEW k \in Sku, Classify(s, k)
  PROVE  StepKeeps(s)
<1>1. CASE Closes(s)
  BY <1>1, EndsKeeps
<1>2. CASE ~Closes(s)
  <2>. DEFINE d == work[s].dev
              src == <<sku[d], stat[d]>>
              dst == <<k, stat[d]>>
  <2>1. /\ work' = [work EXCEPT ![s] = Aims(s, src, dst)]
        /\ Proceeds(s, "moving") /\ ledgerPc[s] = "classifying"
        /\ UNCHANGED <<stat, rev, sku, booked>>
        /\ stat[d] \in SkuEditable /\ k # sku[d]
    BY <1>2 DEF Classify, Aims
  <2>2. d \in Device /\ work[s].key \notin Op /\ work[s].locked
    BY <2>1 DEF SessionInv, WorkInv
  <2>3. src \in Cell /\ dst \in Cell /\ "moving" \in Point
    BY <2>1, <2>2, StatusFacts DEF Types, Cell, Point
  <2>4. stat[d] # "ABSENT"
    BY <2>1, StatusFacts
  <2>5. src # dst /\ src = Place(d)
    BY <2>1, <2>4 DEF Place
  <2>6. /\ ledgerPc' \in [Tx -> Point] /\ work' \in [Tx -> Work]
        /\ ledgerPc'[s] = "moving" /\ work'[s] = Aims(s, src, dst)
    <3>. HIDE DEF src, dst
    <3>1. Aims(s, src, dst) \in Work
      BY <2>3, AimsWork
    <3>. QED
      BY <2>1, <2>3, <3>1, GoesOn
  <2>7. /\ work'[s].key = work[s].key /\ work'[s].dev = d
        /\ work'[s].locked = work[s].locked /\ work'[s].row = work[s].row
        /\ work'[s].src = src /\ work'[s].dst = dst
    <3>. HIDE DEF src, dst
    <3>. QED
      BY <2>3, <2>6, AimsWork
  <2>8. WorkInv(s)' /\ ReadInv(s)' /\ LookInv(s)' /\ AssignInv(s)'
    BY <2>2, <2>6, <2>7 DEF WorkInv, ReadInv, LookInv, AssignInv
  <2>9. OtherMove(s)'
    BY <2>1, <2>2, <2>7 DEF OtherMove
  <2>10. MoveInv(s)'
    <3>1. work'[s].src = Place(work[s].dev)'
      BY <2>1, <2>5, <2>7 DEF Place
    <3>. QED
      BY <2>2, <2>5, <2>7, <2>9, <3>1 DEF MoveInv
  <2>11. ASSUME NEW t \in Tx \ {s} PROVE Apart(work'[s], work[t])
    BY <2>7 DEF LocksApart, Apart
  <2>. QED
    BY <2>6, <2>8, <2>10, <2>11 DEF StepKeeps, SessionInv
<1>. QED
  BY <1>1, <1>2

LEMMA CreateKeeps ==
  ASSUME Types, NEW s \in Tx, NEW d \in Device, NEW k \in Sku,
         NEW st \in InitialStatus, Create(s, d, k, st)
  PROVE  StepKeeps(s)
<1>. DEFINE dst == <<k, st>>
<1>1. /\ work' = [work EXCEPT ![s] = Creating(d, dst)]
      /\ Proceeds(s, "moving")
      /\ stat[d] = "ABSENT" /\ UNCHANGED <<stat, sku>>
  BY DEF Create, Creating, Unwritten
<1>2. "moving" \in Point /\ dst \in Cell
  BY StatusFacts DEF Point, Cell
<1>3. /\ ledgerPc' \in [Tx -> Point] /\ work' \in [Tx -> Work]
      /\ ledgerPc'[s] = "moving"
      /\ work'[s] = Creating(d, dst)
  <2>. HIDE DEF dst
  <2>1. Creating(d, dst) \in Work
    BY <1>2, CreatingWork
  <2>. QED
    BY <1>1, <1>2, <2>1, GoesOn
<1>4. /\ work'[s].key = NoKey /\ work'[s].dev = d
      /\ work'[s].locked /\ ~work'[s].row
      /\ work'[s].src = Nowhere /\ work'[s].dst = dst
  <2>. HIDE DEF dst
  <2>1. /\ Creating(d, dst).key = NoKey /\ Creating(d, dst).dev = d
        /\ Creating(d, dst).locked /\ ~Creating(d, dst).row
        /\ Creating(d, dst).src = Nowhere /\ Creating(d, dst).dst = dst
    BY <1>2, CreatingWork
  <2>. QED
    BY <1>3, <2>1
<1>5. DeviceFree(d)
  BY DEF Create
<1>6. WorkInv(s)' /\ ReadInv(s)' /\ LookInv(s)' /\ AssignInv(s)'
  BY <1>2, <1>3, <1>4 DEF WorkInv, ReadInv, LookInv, AssignInv
<1>7. MoveInv(s)'
  <2>1. Place(work[s].dev)' = Nowhere
    BY <1>1, <1>2, <1>3, <1>4 DEF Place
  <2>2. work'[s].src # work'[s].dst
    BY <1>2, <1>3, <1>4
  <2>. QED
    BY <1>2, <1>3, <1>4, <2>1, <2>2 DEF MoveInv, OtherMove
<1>8. ASSUME NEW t \in Tx \ {s} PROVE Apart(work'[s], work[t])
  BY <1>4, <1>5 DEF DeviceFree, Apart
<1>. QED
  BY <1>3, <1>6, <1>7, <1>8 DEF StepKeeps, SessionInv

LEMMA RemoveKeeps ==
  ASSUME Types, NEW s \in Tx, NEW d \in Device, Remove(s, d)
  PROVE  StepKeeps(s)
<1>. DEFINE src == <<sku[d], stat[d]>>
<1>1. /\ work' = [work EXCEPT ![s] = Removing(d, src)]
      /\ Proceeds(s, "moving")
      /\ stat[d] # "ABSENT" /\ UNCHANGED <<stat, sku>>
  BY DEF Remove, Removing, Unwritten
<1>2. "moving" \in Point /\ src \in Cell
  BY <1>1 DEF Types, Point, Cell
<1>3. /\ ledgerPc' \in [Tx -> Point] /\ work' \in [Tx -> Work]
      /\ ledgerPc'[s] = "moving" /\ work'[s] = Removing(d, src)
  <2>. HIDE DEF src
  <2>1. Removing(d, src) \in Work
    BY <1>2, RemovingWork
  <2>. QED
    BY <1>1, <1>2, <2>1, GoesOn
<1>4. /\ work'[s].key = NoKey /\ work'[s].dev = d
      /\ work'[s].locked /\ work'[s].row
      /\ work'[s].src = src /\ work'[s].dst = Nowhere
  <2>. HIDE DEF src
  <2>1. /\ Removing(d, src).key = NoKey /\ Removing(d, src).dev = d
        /\ Removing(d, src).locked /\ Removing(d, src).row
        /\ Removing(d, src).src = src /\ Removing(d, src).dst = Nowhere
    BY <1>2, RemovingWork
  <2>. QED
    BY <1>3, <2>1
<1>5. DeviceFree(d) /\ RowFree(s, d)
  BY DEF Remove
<1>6. WorkInv(s)' /\ ReadInv(s)' /\ LookInv(s)' /\ AssignInv(s)'
  BY <1>2, <1>3, <1>4 DEF WorkInv, ReadInv, LookInv, AssignInv
<1>7. MoveInv(s)'
  <2>1. work'[s].src = Place(work[s].dev)'
    BY <1>1, <1>2, <1>3, <1>4 DEF Place
  <2>2. work'[s].src # work'[s].dst
    BY <1>2, <1>3, <1>4
  <2>. QED
    BY <1>2, <1>3, <1>4, <2>1, <2>2 DEF MoveInv, OtherMove
<1>8. ASSUME NEW t \in Tx \ {s} PROVE Apart(work'[s], work[t])
  BY <1>4, <1>5 DEF DeviceFree, RowFree, Apart
<1>. QED
  BY <1>3, <1>6, <1>7, <1>8 DEF StepKeeps, SessionInv

LEMMA MoveOutKeeps ==
  ASSUME Types, LocksApart, NEW s \in Tx, SessionInv(s), MoveOut(s)
  PROVE  StepKeeps(s)
<1>1. /\ work' = work /\ Proceeds(s, "committing") /\ ledgerPc[s] = "moving"
      /\ UNCHANGED <<stat, rev, sku, booked>>
  BY DEF MoveOut, Unwritten
<1>2. "committing" \in Point
  BY DEF Point
<1>3. /\ ledgerPc' \in [Tx -> Point] /\ work' \in [Tx -> Work]
      /\ ledgerPc'[s] = "committing" /\ work'[s] = work[s]
  BY <1>1, <1>2 DEF Types, Proceeds
<1>4. WorkInv(s)' /\ ReadInv(s)' /\ LookInv(s)' /\ AssignInv(s)'
  BY <1>1, <1>3 DEF SessionInv, WorkInv, ReadInv, LookInv, AssignInv
<1>5. MoveInv(s)'
  <2>1. Place(work[s].dev)' = Place(work[s].dev)
    BY <1>1 DEF Place
  <2>. QED
    BY <1>1, <1>3, <2>1 DEF SessionInv, MoveInv, TransitionMove, OtherMove
<1>. QED
  BY <1>3, <1>4, <1>5 DEF StepKeeps, SessionInv, LocksApart

\* Every step of a session.
LEMMA OwnStep ==
  ASSUME Types, Sessions, LocksApart, NEW s \in Tx, Transact(s)
  PROVE  StepKeeps(s)
<1>1. SessionInv(s)
  BY DEF Sessions
<1>2. ASSUME Commit(s) \/ Aborts(s) PROVE StepKeeps(s)
  BY <1>2, EndsKeeps DEF Commit, Aborts
<1>. QED
  BY <1>1, <1>2, TransitionKeeps, ReadKeeps, LookKeeps, AssignKeeps,
     UpdateKeeps, ReclassifyKeeps, ClassifyKeeps, CreateKeeps, RemoveKeeps,
     MoveOutKeeps DEF Transact
-----------------------------------------------------------------------------
\* Each step keeps the types.
LEMMA TypesStep ==
  ASSUME Types, Sessions, LocksApart, [LedgerNext]_ledgerVars
  PROVE  Types'
<1>1. ASSUME NEW s \in Tx, Transact(s) PROVE Types'
  <2>1. ledgerPc' \in [Tx -> Point] /\ work' \in [Tx -> Work]
    BY <1>1, OwnStep DEF StepKeeps
  <2>2. CASE Commit(s)
    <3>. DEFINE d == work[s].dev
                dst == work[s].dst
                newStat == IF dst = Nowhere THEN "ABSENT" ELSE dst[2]
    <3>1. /\ newStat \in Status \cup {"ABSENT"}
          /\ dst # Nowhere => dst[1] \in Sku
      BY DEF Types, Work, Cell
    <3>2. stat' \in [Device -> Status \cup {"ABSENT"}]
      BY <2>2, <3>1 DEF Types, Commit
    <3>3. rev' \in [Device -> Nat]
      <4>. DEFINE r == IF newStat = stat[d] THEN rev[d] ELSE rev[d] + 1
      <4>1. d \in Device
        BY <2>2 DEF Commit, Sessions, SessionInv, WorkInv
      <4>2. r \in Nat
        BY <4>1 DEF Types
      <4>3. rev' = [rev EXCEPT ![d] = r]
        BY <2>2 DEF Commit
      <4>. QED
        BY <4>2, <4>3 DEF Types
    <3>4. sku' \in [Device -> Sku]
      BY <2>2, <3>1 DEF Types, Commit
    <3>5. balance' \in [Cell -> Int]
      BY <2>2 DEF Types, Commit, Moved
    <3>6. booked' \subseteq Op /\ applied' \in [Op -> Nat]
      BY <2>2 DEF Types, Commit
    <3>. QED
      BY <2>1, <3>2, <3>3, <3>4, <3>5, <3>6 DEF Types
  <2>3. ASSUME NEW k \in Sku, Classify(s, k) PROVE Types'
    <3>1. sku' \in [Device -> Sku]
      BY <2>3 DEF Types, Classify
    <3>. QED
      BY <2>1, <2>3, <3>1 DEF Types, Classify
  <2>4. CASE Unwritten
    BY <2>1, <2>4 DEF Types, Unwritten
  <2>. QED
    BY <1>1, <2>2, <2>3, <2>4
    DEF Transact, Transition, Read, ReadRow, Assign, Update, Reclassify, Create,
        Remove, MoveOut, Aborts
<1>2. ASSUME NEW d \in Device, Relocate(d) PROVE Types'
  BY <1>2 DEF Relocate, Types
<1>3. CASE UNCHANGED ledgerVars
  BY <1>3 DEF ledgerVars, Types
<1>. QED
  BY <1>1, <1>2, <1>3 DEF LedgerNext

LEMMA LocksStep ==
  ASSUME Types, Sessions, LocksApart, [LedgerNext]_ledgerVars
  PROVE  LocksApart'
<1>1. ASSUME NEW s \in Tx, Transact(s) PROVE LocksApart'
  <2>1. \A t \in Tx \ {s} : Apart(work'[s], work[t])
    BY <1>1, OwnStep DEF StepKeeps
  <2>2. \A t \in Tx \ {s} : work'[t] = work[t]
    BY <1>1, Others
  <2>3. ASSUME NEW t \in Tx, NEW u \in Tx, t # u
        PROVE  Apart(work'[t], work'[u])
    <3>1. CASE t = s
      BY <2>1, <2>2, <2>3, <3>1
    <3>2. CASE u = s
      BY <2>1, <2>2, <2>3, <3>2 DEF Apart
    <3>3. CASE t # s /\ u # s
      BY <2>2, <2>3, <3>3 DEF LocksApart
    <3>. QED
      BY <3>1, <3>2, <3>3
  <2>. QED
    BY <2>3 DEF LocksApart
<1>2. CASE UNCHANGED work
  BY <1>2 DEF LocksApart
<1>. QED
  BY <1>1, <1>2 DEF LedgerNext, Relocate, ledgerVars
-----------------------------------------------------------------------------
\* What a commit changes: the device it moves, and its revision unless only
\* the SKU changes, under a lock that a transition from there would need.
LEMMA CommitFacts ==
  ASSUME IInv, NEW s \in Tx, Commit(s)
  PROVE  /\ work[s].dev \in Device
         /\ \A e \in Device : e # work[s].dev =>
              stat'[e] = stat[e] /\ rev'[e] = rev[e] /\ sku'[e] = sku[e]
         /\ work[s].src = Place(work[s].dev)
         /\ work[s].dst = IF stat'[work[s].dev] = "ABSENT" THEN Nowhere
                          ELSE <<sku'[work[s].dev], stat'[work[s].dev]>>
         /\ work[s].src # work[s].dst
         /\ stat'[work[s].dev] # stat[work[s].dev]
              => rev'[work[s].dev] = rev[work[s].dev] + 1
         /\ stat'[work[s].dev] = stat[work[s].dev]
              => /\ rev'[work[s].dev] = rev[work[s].dev]
                 /\ stat[work[s].dev] \in SkuEditable
                 /\ work[s].locked
                 /\ work[s].key \notin Op
         /\ work[s].key \notin booked
<1>. DEFINE d == work[s].dev
            src == work[s].src
            dst == work[s].dst
            newStat == IF dst = Nowhere THEN "ABSENT" ELSE dst[2]
<1>1. Types /\ WorkInv(s) /\ MoveInv(s) /\ ledgerPc[s] = "committing"
  BY DEF IInv, Sessions, SessionInv, Commit
<1>2. d \in Device /\ src = Place(d) /\ src # dst
  BY <1>1 DEF WorkInv, MoveInv
<1>3. stat' = [stat EXCEPT ![d] = newStat]
  BY DEF Commit
<1>4. stat'[d] = newStat /\ \A e \in Device : e # d => stat'[e] = stat[e]
  BY <1>1, <1>2, <1>3 DEF Types
<1>5. /\ newStat = stat[d] => rev'[d] = rev[d]
      /\ newStat # stat[d] => rev'[d] = rev[d] + 1
      /\ \A e \in Device : e # d => rev'[e] = rev[e]
  <2>. DEFINE r == IF newStat = stat[d] THEN rev[d] ELSE rev[d] + 1
  <2>1. rev' = [rev EXCEPT ![d] = r]
    BY DEF Commit
  <2>2. rev'[d] = r /\ \A e \in Device : e # d => rev'[e] = rev[e]
    <3>. HIDE DEF r
    <3>. QED
      BY <1>1, <1>2, <2>1 DEF Types
  <2>. QED
    BY <2>2
<1>6. /\ dst # Nowhere => sku'[d] = dst[1]
      /\ \A e \in Device : e # d => sku'[e] = sku[e]
  BY <1>1, <1>2 DEF Types, Commit
<1>7. dst # Nowhere => dst \in Cell
  BY <1>1 DEF Types, Work
<1>8. dst # Nowhere => /\ dst = <<dst[1], dst[2]>>
                       /\ dst[2] \in Status /\ dst[2] # "ABSENT"
  BY <1>7, StatusFacts DEF Cell
<1>9. dst = IF stat'[d] = "ABSENT" THEN Nowhere ELSE <<sku'[d], stat'[d]>>
  BY <1>4, <1>6, <1>8
<1>10. stat[d] # "ABSENT" => Place(d) \in Cell /\ Place(d) # Nowhere
  BY <1>1, <1>2 DEF Types, Place, Cell
<1>11. newStat = stat[d] => /\ stat[d] \in SkuEditable
                            /\ work[s].locked
                            /\ work[s].key \notin Op
  <2>. SUFFICES ASSUME newStat = stat[d]
                PROVE  /\ stat[d] \in SkuEditable
                       /\ work[s].locked
                       /\ work[s].key \notin Op
    OBVIOUS
  <2>1. work[s].key \notin Op
    <3>1. SUFFICES ASSUME work[s].key \in Op PROVE FALSE
      OBVIOUS
    <3>2. /\ stat[d] # "ABSENT"
          /\ dst = <<sku[d], request[work[s].key].to>>
      BY <1>1, <3>1 DEF MoveInv, TransitionMove
    <3>3. dst # Nowhere
      BY <3>2, <1>4, <1>9
    <3>4. dst[2] = request[work[s].key].to
      BY <3>2
    <3>5. dst = <<sku[d], stat[d]>>
      BY <3>2, <3>3, <3>4
    <3>. QED
      BY <1>2, <3>2, <3>5 DEF Place
  <2>2. OtherMove(s)
    BY <1>1, <2>1 DEF MoveInv
  <2>3. src # Nowhere
    BY <1>2, <1>4, <1>9, <1>10 DEF Place
  <2>4. dst # Nowhere
    BY <1>2, <1>10, <2>3 DEF Place
  <2>. QED
    BY <2>1, <2>2, <2>3, <2>4 DEF OtherMove
<1>12. work[s].key \notin booked
  BY <1>1 DEF MoveInv, TransitionMove, Types
<1>. QED
  BY <1>2, <1>4, <1>5, <1>6, <1>9, <1>11, <1>12
\* What another session knows outlives a commit: of another device all of it,
\* and of the same device only what is marked by its revision.
LEMMA CommitOthers ==
  ASSUME IInv, NEW s \in Tx, Commit(s), NEW t \in Tx, t # s
  PROVE  SessionInv(t)'
<1>. DEFINE d == work[t].dev
<1>1. ledgerPc'[t] = ledgerPc[t] /\ work'[t] = work[t]
  BY Others DEF IInv, Transact
<1>2. /\ Types /\ SessionInv(t) /\ SessionInv(s)
      /\ Apart(work[s], work[t]) /\ ledgerPc[s] = "committing"
  BY DEF IInv, Sessions, LocksApart, Commit
<1>3. WorkInv(t)'
  BY <1>1, <1>2 DEF SessionInv, WorkInv
<1>4. booked' = booked \cup ({work[s].key} \cap Op)
  BY DEF Commit
<1>5. CASE d # work[s].dev
  <2>1. d \in Device => /\ stat'[d] = stat[d] /\ rev'[d] = rev[d]
                        /\ sku'[d] = sku[d]
    BY <1>5, CommitFacts
  <2>2. work[t].key \in Op
          => (work[t].key \in booked' <=> work[t].key \in booked)
    BY <1>2, <1>4, <1>5 DEF SessionInv, WorkInv
  <2>3. ledgerPc[t] # "idle" => d \in Device
    BY <1>2 DEF SessionInv, WorkInv
  <2>4. ledgerPc[t] \in {"looking", "assigning", "updating"} => work[t].key \in Op
    BY <1>2 DEF SessionInv, WorkInv
  <2>5. ReadInv(t)'
    BY <1>1, <1>2, <2>1, <2>3 DEF SessionInv, ReadInv
  <2>6. LookInv(t)'
    BY <1>1, <1>2, <2>1, <2>2, <2>3, <2>4 DEF SessionInv, LookInv
  <2>7. AssignInv(t)'
    BY <1>1, <1>2, <2>1, <2>3 DEF SessionInv, AssignInv
  <2>8. MoveInv(t)'
    <3>1. SUFFICES ASSUME ledgerPc[t] \in {"moving", "committing"}
                   PROVE  MoveInv(t)'
      BY <1>1 DEF MoveInv
    <3>2. d \in Device /\ Place(d)' = Place(d)
      BY <1>1, <2>1, <2>3, <3>1 DEF Place
    <3>3. work[t].key \in Op => TransitionMove(t)'
      BY <1>1, <1>2, <2>1, <2>2, <3>1, <3>2
      DEF SessionInv, MoveInv, TransitionMove
    <3>4. work[t].key \notin Op => OtherMove(t)'
      BY <1>1, <1>2, <2>1, <3>1, <3>2 DEF SessionInv, MoveInv, OtherMove
    <3>. QED
      BY <1>1, <1>2, <3>1, <3>2, <3>3, <3>4 DEF SessionInv, MoveInv
  <2>. QED
    BY <1>3, <2>5, <2>6, <2>7, <2>8 DEF SessionInv
<1>6. CASE d = work[s].dev
  <2>1. MoveInv(t)'
    BY <1>1, <1>2, <1>6, OneMover DEF MoveInv
  <2>2. d \in Device /\ rev[d] \in Nat
    BY <1>2, <1>6, CommitFacts DEF Types
  <2>3. CASE stat'[d] # stat[d]
    <3>1. rev'[d] = rev[d] + 1
      BY <1>6, <2>3, CommitFacts
    <3>2. work[t].rev \in Nat
      BY <1>2 DEF Types, Work
    <3>3. ledgerPc[t] \in {"looking", "assigning", "updating"}
            => work[t].rev < rev'[d]
      BY <1>2, <2>2, <3>1, <3>2 DEF SessionInv, ReadInv
    <3>4. ReadInv(t)'
      BY <1>1, <1>2, <2>2, <3>1, <3>2, <3>3 DEF SessionInv, ReadInv
    <3>5. ledgerPc[t] \in {"looking", "assigning", "updating"}
            => work[t].rev # rev'[d]
      BY <2>2, <3>1, <3>2, <3>3
    <3>6. LookInv(t)' /\ AssignInv(t)'
      BY <1>1, <1>2, <3>5 DEF SessionInv, LookInv, AssignInv
    <3>. QED
      BY <1>3, <2>1, <3>4, <3>6 DEF SessionInv
  <2>4. CASE stat'[d] = stat[d]
    <3>1. /\ rev'[d] = rev[d] /\ stat[d] \in SkuEditable
          /\ work[s].locked /\ work[s].key \notin Op
      <4>1. stat'[work[s].dev] = stat[work[s].dev]
        BY <1>6, <2>4
      <4>2. /\ rev'[work[s].dev] = rev[work[s].dev]
            /\ stat[work[s].dev] \in SkuEditable
            /\ work[s].key \notin Op
        BY <4>1, CommitFacts
      <4>3. work[s].locked
        BY <4>1, CommitFacts
      <4>. QED
        BY <1>6, <4>2, <4>3
    <3>2. ReadInv(t)'
      <4>1. SUFFICES ASSUME ledgerPc[t] \in {"looking", "assigning", "updating"}
                     PROVE  ReadInv(t)'
        BY <1>1 DEF ReadInv
      <4>2. /\ work[t].from # "ABSENT" /\ work[t].rev <= rev[d]
            /\ work[t].rev = rev[d] => stat[d] = work[t].from
        BY <1>2, <4>1 DEF SessionInv, ReadInv
      <4>3. /\ work[t].from # "ABSENT" /\ work[t].rev <= rev'[d]
            /\ work[t].rev = rev'[d] => stat'[d] = work[t].from
        BY <2>4, <3>1, <4>2
      <4>. QED
        BY <1>1, <4>3 DEF ReadInv
    <3>3. ASSUME ledgerPc[t] \in {"assigning", "updating"}
          PROVE  work[t].rev # rev'[d]
      <4>1. SUFFICES ASSUME work[t].rev = rev[d] PROVE FALSE
        BY <3>1
      <4>2. work[t].key \in Op /\ work[t].from \in SkuEditable
        BY <1>2, <3>1, <3>3, <4>1 DEF SessionInv, WorkInv, ReadInv
      <4>3. Allowed(request[work[t].key].policy, work[t].from,
                    request[work[t].key].to)
        BY <1>2, <3>3 DEF SessionInv, LookInv
      <4>4. LocksDevice(request[work[t].key].policy)
        <5>1. request[work[t].key].policy \in Policy
          BY <4>2
        <5>. QED
          BY <4>2, <4>3, <5>1, EditableLocks
      <4>5. work[t].locked
        BY <1>2, <4>2, <4>4 DEF SessionInv, WorkInv
      <4>. QED
        BY <1>2, <1>6, <3>1, <4>5 DEF Apart
    <3>4. LookInv(t)' /\ AssignInv(t)'
      BY <1>1, <1>2, <3>3 DEF SessionInv, LookInv, AssignInv
    <3>. QED
      BY <1>3, <2>1, <3>2, <3>4 DEF SessionInv
  <2>. QED
    BY <2>3, <2>4
<1>. QED
  BY <1>5, <1>6

\* A device without a row that is given another SKU.
LEMMA ClassifyOthers ==
  ASSUME IInv, NEW s \in Tx, NEW k \in Sku, Classify(s, k),
         NEW t \in Tx, t # s
  PROVE  SessionInv(t)'
<1>. DEFINE d == work[t].dev
<1>1. ledgerPc'[t] = ledgerPc[t] /\ work'[t] = work[t]
  BY Others DEF IInv, Transact
<1>2. Types /\ SessionInv(t) /\ SessionInv(s) /\ Apart(work[s], work[t])
  BY DEF IInv, Sessions, LocksApart
<1>3. /\ ledgerPc[s] = "classifying" /\ UNCHANGED <<stat, rev, booked>>
      /\ \/ UNCHANGED sku
         \/ /\ stat[work[s].dev] = "ABSENT"
            /\ sku' = [sku EXCEPT ![work[s].dev] = k]
  BY DEF Classify
<1>4. CASE UNCHANGED sku
  BY <1>1, <1>2, <1>3, <1>4, Untouched
<1>5. CASE /\ stat[work[s].dev] = "ABSENT"
           /\ sku' = [sku EXCEPT ![work[s].dev] = k]
  <2>1. WorkInv(t)' /\ ReadInv(t)' /\ LookInv(t)'
    BY <1>1, <1>2, <1>3 DEF SessionInv, WorkInv, ReadInv, LookInv
  <2>2. d # work[s].dev => (d \in Device => sku'[d] = sku[d])
    BY <1>2, <1>5 DEF Types
  <2>3. ledgerPc[t] # "idle" => d \in Device
    BY <1>2 DEF SessionInv, WorkInv
  <2>4. AssignInv(t)'
    BY <1>1, <1>2, <1>3, <1>5, <2>2, <2>3
    DEF SessionInv, ReadInv, AssignInv
  <2>5. MoveInv(t)'
    <3>1. SUFFICES ASSUME ledgerPc[t] \in {"moving", "committing"}
                   PROVE  MoveInv(t)'
      BY <1>1 DEF MoveInv
    <3>2. d # work[s].dev
      <4>1. SUFFICES ASSUME d = work[s].dev PROVE FALSE
        OBVIOUS
      <4>2. work[s].locked
        BY <1>2, <1>3 DEF SessionInv, WorkInv
      <4>3. work[t].key \notin Op
        BY <1>2, <1>5, <3>1, <4>1 DEF SessionInv, MoveInv, TransitionMove
      <4>. QED
        BY <1>2, <3>1, <4>1, <4>2, <4>3
        DEF SessionInv, MoveInv, OtherMove, Apart
    <3>3. d \in Device /\ sku'[d] = sku[d]
      BY <2>2, <2>3, <3>1, <3>2
    <3>4. Place(d)' = Place(d)
      BY <1>1, <1>3, <3>3 DEF Place
    <3>. QED
      BY <1>1, <1>2, <1>3, <3>1, <3>3, <3>4
      DEF SessionInv, MoveInv, TransitionMove, OtherMove
  <2>. QED
    BY <2>1, <2>4, <2>5 DEF SessionInv
<1>. QED
  BY <1>3, <1>4, <1>5

\* A location that is written makes every reading of its row out of date.
LEMMA RelocateSessions ==
  ASSUME IInv, NEW d \in Device, Relocate(d), NEW t \in Tx
  PROVE  SessionInv(t)'
<1>1. /\ Types /\ SessionInv(t)
      /\ rev' = [rev EXCEPT ![d] = rev[d] + 1]
      /\ UNCHANGED <<stat, sku, balance, booked, ledgerPc, work, applied>>
  BY DEF IInv, Sessions, Relocate
<1>2. WorkInv(t)'
  BY <1>1 DEF SessionInv, WorkInv
<1>3. MoveInv(t)'
  <2>1. Place(work[t].dev)' = Place(work[t].dev)
    BY <1>1 DEF Place
  <2>. QED
    BY <1>1, <2>1 DEF SessionInv, MoveInv, TransitionMove, OtherMove
<1>4. CASE ledgerPc[t] \notin {"looking", "assigning", "updating"}
  BY <1>1, <1>2, <1>3, <1>4 DEF SessionInv, ReadInv, LookInv, AssignInv
<1>5. CASE ledgerPc[t] \in {"looking", "assigning", "updating"}
  <2>1. work[t].dev \in Device /\ work[t].rev \in Nat
    BY <1>1, <1>5 DEF SessionInv, WorkInv, Types, Work
  <2>2. rev[work[t].dev] \in Nat /\ work[t].rev <= rev[work[t].dev]
    BY <1>1, <1>5, <2>1 DEF SessionInv, ReadInv, Types
  <2>3. CASE work[t].dev = d
    <3>1. rev'[d] = rev[d] + 1
      BY <1>1 DEF Types
    <3>2. work[t].rev <= rev'[d] /\ work[t].rev # rev'[d]
      BY <2>1, <2>2, <2>3, <3>1
    <3>3. ReadInv(t)' /\ LookInv(t)' /\ AssignInv(t)'
      BY <1>1, <2>3, <3>2 DEF SessionInv, ReadInv, LookInv, AssignInv
    <3>. QED
      BY <1>2, <1>3, <3>3 DEF SessionInv
  <2>4. CASE work[t].dev # d
    <3>1. rev'[work[t].dev] = rev[work[t].dev]
      BY <1>1, <2>1, <2>4 DEF Types
    <3>2. ReadInv(t)' /\ LookInv(t)' /\ AssignInv(t)'
      BY <1>1, <3>1 DEF SessionInv, ReadInv, LookInv, AssignInv
    <3>. QED
      BY <1>2, <1>3, <3>2 DEF SessionInv
  <2>. QED
    BY <2>3, <2>4
<1>. QED
  BY <1>4, <1>5
LEMMA SessionsStep ==
  ASSUME IInv, [LedgerNext]_ledgerVars
  PROVE  Sessions'
<1>1. ASSUME NEW s \in Tx, Transact(s), NEW t \in Tx
      PROVE  SessionInv(t)'
  <2>1. CASE t = s
    BY <1>1, <2>1, OwnStep DEF IInv, StepKeeps
  <2>2. CASE t # s
    <3>1. CASE Commit(s)
      BY <2>2, <3>1, CommitOthers
    <3>2. ASSUME NEW k \in Sku, Classify(s, k) PROVE SessionInv(t)'
      BY <2>2, <3>2, ClassifyOthers
    <3>3. CASE Unwritten
      <4>1. ledgerPc'[t] = ledgerPc[t] /\ work'[t] = work[t]
        BY <1>1, <2>2, Others DEF IInv
      <4>. QED
        BY <3>3, <4>1, Untouched DEF IInv, Sessions, Unwritten
    <3>. QED
      BY <1>1, <3>1, <3>2, <3>3
      DEF Transact, Transition, Read, ReadRow, Assign, Update, Reclassify,
          Create, Remove, MoveOut, Aborts
  <2>. QED
    BY <2>1, <2>2
<1>2. ASSUME NEW d \in Device, Relocate(d), NEW t \in Tx
      PROVE  SessionInv(t)'
  BY <1>2, RelocateSessions
<1>3. ASSUME UNCHANGED ledgerVars, NEW t \in Tx PROVE SessionInv(t)'
  BY <1>3, Untouched DEF IInv, Sessions, ledgerVars
<1>. QED
  BY <1>1, <1>2, <1>3 DEF LedgerNext, Sessions

-----------------------------------------------------------------------------
\* A commit takes the device from its balance to the other one.
LEMMA CommitBalances ==
  ASSUME IInv, NEW s \in Tx, Commit(s)
  PROVE  BalancesMatch'
<1>. DEFINE d == work[s].dev
            src == work[s].src
            dst == work[s].dst
<1>1. /\ d \in Device /\ src # dst
      /\ src = IF stat[d] = "ABSENT" THEN Nowhere ELSE <<sku[d], stat[d]>>
      /\ dst = IF stat'[d] = "ABSENT" THEN Nowhere ELSE <<sku'[d], stat'[d]>>
      /\ \A e \in Device : e # d => stat'[e] = stat[e] /\ sku'[e] = sku[e]
  BY CommitFacts DEF Place
<1>2. balance' = Moved(src, dst)
  BY CommitFacts DEF Commit, Booked
<1>3. ASSUME NEW c \in Cell PROVE balance'[c] = Cardinality(Standing(c)')
  <2>. DEFINE S == Standing(c)
              T == Standing(c)'
  <2>1. c # Nowhere /\ balance[c] = Cardinality(S) /\ balance[c] \in Int
    BY <1>3 DEF IInv, BalancesMatch, Types
  <2>2. /\ S \subseteq Device /\ T \subseteq Device
        /\ d \in S <=> c = src
        /\ d \in T <=> c = dst
        /\ \A e \in Device : e # d => (e \in S <=> e \in T)
    BY <1>1, <2>1 DEF Standing
  <2>3. IsFiniteSet(S) /\ Cardinality(S) \in Nat
    BY <2>2, FS_Subset, FS_CardinalityType
  <2>4. balance'[c] = balance[c] + (IF c = dst THEN 1 ELSE 0)
                                 - (IF c = src THEN 1 ELSE 0)
    BY <1>2 DEF Moved
  <2>. HIDE DEF S, T, src, dst, d
  <2>5. CASE c = dst
    <3>1. T = S \cup {d} /\ d \notin S
      BY <1>1, <2>2, <2>5
    <3>2. Cardinality(T) = Cardinality(S) + 1
      BY <2>3, <3>1, FS_AddElement
    <3>. QED
      BY <1>1, <2>1, <2>3, <2>4, <2>5, <3>2 DEF T
  <2>6. CASE c = src
    <3>1. T = S \ {d} /\ d \in S
      BY <1>1, <2>2, <2>6
    <3>2. Cardinality(T) = Cardinality(S) - 1
      BY <2>3, <3>1, FS_RemoveElement
    <3>. QED
      BY <1>1, <2>1, <2>3, <2>4, <2>6, <3>2 DEF T
  <2>7. CASE c # src /\ c # dst
    <3>1. T = S
      BY <2>2, <2>7
    <3>. QED
      BY <2>1, <2>3, <2>4, <2>7, <3>1 DEF T
  <2>. QED
    BY <2>5, <2>6, <2>7
<1>. QED
  BY <1>3 DEF BalancesMatch

LEMMA BalancesStep ==
  ASSUME IInv, [LedgerNext]_ledgerVars
  PROVE  BalancesMatch'
<1>1. ASSUME NEW s \in Tx, Commit(s) PROVE BalancesMatch'
  BY <1>1, CommitBalances
<1>2. ASSUME NEW s \in Tx, NEW k \in Sku, Classify(s, k)
      PROVE  BalancesMatch'
  <2>1. /\ UNCHANGED <<stat, balance>>
        /\ \A d \in Device : stat[d] # "ABSENT" => sku'[d] = sku[d]
    BY <1>2 DEF Classify, IInv, Types
  <2>2. ASSUME NEW c \in Cell PROVE Standing(c)' = Standing(c)
    BY <2>1 DEF Standing
  <2>. QED
    BY <2>1, <2>2 DEF IInv, BalancesMatch
<1>3. CASE UNCHANGED <<stat, sku, balance>>
  BY <1>3 DEF IInv, BalancesMatch, Standing
<1>. QED
  BY <1>1, <1>2, <1>3
  DEF LedgerNext, Transact, Transition, Read, ReadRow, Assign, Update, Reclassify,
      Create, Remove, MoveOut, Aborts, Unwritten, Relocate, ledgerVars

LEMMA CountStep ==
  ASSUME IInv, [LedgerNext]_ledgerVars
  PROVE  CountInv'
<1>1. ASSUME NEW s \in Tx, Commit(s) PROVE CountInv'
  <2>1. work[s].key \notin booked
    BY <1>1, CommitFacts
  <2>2. \A k \in Op :
          applied'[k] = applied[k] + (IF k = work[s].key THEN 1 ELSE 0)
    BY <1>1 DEF Commit
  <2>3. booked' = booked \cup ({work[s].key} \cap Op)
    BY <1>1 DEF Commit
  <2>. QED
    BY <2>1, <2>2, <2>3 DEF IInv, CountInv
<1>2. CASE UNCHANGED <<booked, applied>>
  BY <1>2 DEF IInv, CountInv
<1>3. ASSUME NEW s \in Tx, Transact(s), ~Commit(s)
      PROVE  UNCHANGED <<booked, applied>>
  BY <1>3
  DEF Transact, Transition, Read, ReadRow, Assign, Update, Reclassify,
      Classify, Create, Remove, MoveOut, Aborts, Unwritten
<1>4. ASSUME NEW d \in Device, Relocate(d)
      PROVE  UNCHANGED <<booked, applied>>
  BY <1>4 DEF Relocate
<1>5. CASE UNCHANGED ledgerVars
  BY <1>2, <1>5 DEF ledgerVars
<1>. QED
  BY <1>1, <1>2, <1>3, <1>4, <1>5 DEF LedgerNext

LEMMA NextIInv == IInv /\ [LedgerNext]_ledgerVars => IInv'
BY TypesStep, LocksStep, SessionsStep, BalancesStep, CountStep DEF IInv

THEOREM Inductive == LedgerSpec => []IInv
<1>1. LedgerInit => IInv
  BY InitIInv
<1>2. IInv /\ [LedgerNext]_ledgerVars => IInv'
  BY NextIInv
<1>. QED
  BY <1>1, <1>2, PTL DEF LedgerSpec
(***************************************************************************)
(* The theorems                                                            *)
(***************************************************************************)
\* The balances are the numbers of the devices, for any devices, SKUs,
\* transactions and operations.
THEOREM BalancesMatchAlways == LedgerSpec => []BalancesMatch
<1>1. IInv => BalancesMatch
  BY DEF IInv
<1>. QED
  BY <1>1, Inductive, PTL

\* Types, and that no balance is ever negative.
THEOREM TypeCorrect == LedgerSpec => []LedgerTypeOK
<1>1. IInv => LedgerTypeOK
  <2>. SUFFICES ASSUME IInv PROVE LedgerTypeOK
    OBVIOUS
  <2>1. balance \in [Cell -> Nat]
    <3>1. ASSUME NEW c \in Cell PROVE balance[c] \in Nat
      <4>1. balance[c] = Cardinality(Standing(c))
        BY DEF IInv, BalancesMatch
      <4>2. IsFiniteSet(Standing(c))
        BY FS_Subset DEF Standing
      <4>. QED
        BY <4>1, <4>2, FS_CardinalityType
    <3>. QED
      BY <3>1 DEF IInv, Types
  <2>. QED
    BY <2>1 DEF IInv, Types, LedgerTypeOK, Point, Work
<1>. QED
  BY <1>1, Inductive, PTL

\* An operation that is repeated under its key moves its device once.
THEOREM MovedOnceAlways == LedgerSpec => []MovedOnce
<1>1. IInv => MovedOnce
  BY DEF IInv, CountInv, MovedOnce
<1>. QED
  BY <1>1, Inductive, PTL

\* A status changes from what it really is, as a policy allows it.
THEOREM StepsAllowedAlways == LedgerSpec => StepsAllowed
<1>. DEFINE Step(d) ==
       stat[d] # "ABSENT" /\ stat'[d] \notin {stat[d], "ABSENT"}
         => \E k \in Op : /\ request[k].dev = d
                          /\ request[k].to = stat'[d]
                          /\ Allowed(request[k].policy, stat[d], stat'[d])
<1>1. IInv /\ [LedgerNext]_ledgerVars => \A d \in Device : Step(d)
  <2>. SUFFICES ASSUME IInv, [LedgerNext]_ledgerVars, NEW d \in Device PROVE Step(d)
    OBVIOUS
  <2>1. ASSUME NEW s \in Tx, Commit(s) PROVE Step(d)
    <3>. SUFFICES ASSUME stat[d] # "ABSENT",
                         stat'[d] \notin {stat[d], "ABSENT"}
                  PROVE  \E k \in Op :
                           /\ request[k].dev = d
                           /\ request[k].to = stat'[d]
                           /\ Allowed(request[k].policy, stat[d], stat'[d])
      OBVIOUS
    <3>1. d = work[s].dev
      BY <2>1, CommitFacts
    <3>2. /\ work[s].src = <<sku[d], stat[d]>>
          /\ work[s].dst = <<sku'[d], stat'[d]>>
      BY <2>1, <3>1, CommitFacts DEF Place
    <3>3. /\ Types /\ WorkInv(s) /\ MoveInv(s)
          /\ ledgerPc[s] \in {"moving", "committing"}
      BY <2>1 DEF IInv, Sessions, SessionInv, Commit
    <3>4. work[s].key \in Op
      <4>1. SUFFICES ASSUME work[s].key \notin Op PROVE FALSE
        OBVIOUS
      <4>2. OtherMove(s)
        BY <3>3, <4>1 DEF MoveInv
      <4>3. work[s].src \in Cell /\ work[s].src # Nowhere
        BY <3>2, <3>3 DEF Types, Cell
      <4>4. work[s].dst # Nowhere
        <5>1. stat'[d] \in Status \cup {"ABSENT"} /\ sku'[d] \in Sku
          <6>1. Types'
            BY TypesStep DEF IInv
          <6>. QED
            BY <6>1 DEF Types
        <5>. QED
          BY <3>2, <5>1 DEF Cell
      <4>. QED
        BY <3>1, <3>2, <4>2, <4>3, <4>4 DEF OtherMove
    <3>5. /\ work[s].dst = <<sku[d], request[work[s].key].to>>
          /\ Allowed(request[work[s].key].policy, stat[d],
                     request[work[s].key].to)
          /\ request[work[s].key].dev = d
      BY <3>1, <3>3, <3>4 DEF WorkInv, MoveInv, TransitionMove
    <3>6. request[work[s].key].to = stat'[d]
      BY <3>2, <3>5
    <3>. QED
      BY <3>4, <3>5, <3>6
  <2>2. CASE UNCHANGED stat
    BY <2>2
  <2>3. ASSUME NEW s \in Tx, Transact(s), ~Commit(s) PROVE UNCHANGED stat
    BY <2>3
    DEF Transact, Transition, Read, ReadRow, Assign, Update, Reclassify,
        Classify, Create, Remove, MoveOut, Aborts, Unwritten
  <2>4. ASSUME NEW c \in Device, Relocate(c) PROVE UNCHANGED stat
    BY <2>4 DEF Relocate
  <2>5. CASE UNCHANGED ledgerVars
    BY <2>2, <2>5 DEF ledgerVars
  <2>. QED
    BY <2>1, <2>2, <2>3, <2>4, <2>5 DEF LedgerNext
<1>. QED
  BY <1>1, Inductive, PTL DEF LedgerSpec, StepsAllowed

\* A reclassification that read the status of its device without locking the
\* row still finds it in a status in which the SKU may change.
THEOREM SkuSettledAlways == LedgerSpec => SkuSettled
<1>1. IInv /\ [LedgerNext]_ledgerVars =>
        \A d \in Device :
          sku'[d] # sku[d] => stat[d] \in SkuEditable \cup {"ABSENT"}
  <2>. SUFFICES ASSUME IInv, [LedgerNext]_ledgerVars, NEW d \in Device, sku'[d] # sku[d],
                       stat[d] # "ABSENT"
                PROVE  stat[d] \in SkuEditable
    OBVIOUS
  <2>1. ASSUME NEW s \in Tx, Commit(s) PROVE stat[d] \in SkuEditable
    <3>1. d = work[s].dev
      BY <2>1, CommitFacts
    <3>2. /\ Types /\ MoveInv(s) /\ ledgerPc[s] \in {"moving", "committing"}
      BY <2>1 DEF IInv, Sessions, SessionInv, Commit
    <3>3. CASE stat'[d] = stat[d]
      BY <2>1, <3>1, <3>3, CommitFacts
    <3>4. CASE stat'[d] # stat[d]
      <4>1. work[s].src = <<sku[d], stat[d]>> /\ work[s].src \in Cell
        <5>1. work[s].src = <<sku[d], stat[d]>>
          BY <2>1, <3>1, CommitFacts DEF Place
        <5>2. stat[d] \in Status /\ sku[d] \in Sku
          BY <3>2 DEF Types
        <5>. QED
          BY <5>1, <5>2 DEF Cell
      <4>2. work[s].dst # Nowhere /\ sku'[d] = work[s].dst[1]
        BY <2>1, <3>1, <3>2 DEF Commit, Types
      <4>3. work[s].dst = <<sku'[d], stat'[d]>>
        BY <2>1, <3>1, <4>2, CommitFacts
      <4>4. work[s].key \notin Op
        BY <3>1, <3>2, <4>2 DEF MoveInv, TransitionMove
      <4>5. OtherMove(s)
        BY <3>2, <4>4 DEF MoveInv
      <4>. QED
        BY <3>1, <4>1, <4>2, <4>5 DEF OtherMove
    <3>. QED
      BY <3>3, <3>4
  <2>2. ASSUME NEW s \in Tx, NEW k \in Sku, Classify(s, k)
        PROVE  stat[d] \in SkuEditable
    BY <2>2 DEF Classify, IInv, Types
  <2>3. CASE UNCHANGED sku
    BY <2>3
  <2>. QED
    BY <2>1, <2>2, <2>3
    DEF LedgerNext, Transact, Transition, Read, ReadRow, Assign, Update, Reclassify,
        Create, Remove, MoveOut, Aborts, Unwritten, Relocate, ledgerVars
<1>. QED
  BY <1>1, Inductive, PTL DEF LedgerSpec, SkuSettled
=============================================================================
