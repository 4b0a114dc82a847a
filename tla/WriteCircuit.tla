---------------------------- MODULE WriteCircuit ----------------------------
(***************************************************************************)
(* The circuit breaker of one write endpoint: its row of                   *)
(* sales_channel_write_controls, which the writes of every process         *)
(* (sales-channel/write/sales-channel-write-service.ts) update after their *)
(* call and read before it, and which a person resumes.                    *)
(***************************************************************************)
EXTENDS Integers

CONSTANTS
  Slot,        \* slots for writes under way
  Person,      \* persons who look at the control and may resume it
  MaxRevision  \* bound on revision

\* CIRCUIT_FAILURE_LIMIT
FailureLimit == 3

VARIABLES
  revision,   \* revision, 0 while the endpoint has no row
  paused,     \* is_paused
  count,      \* consecutive_failure_count
  circuitPc,  \* where each write stands
  looked,     \* the revision each person saw, 0 when none
  fresh,      \* history: failures recorded since each person looked
  overrun     \* history: calls each slot made since the endpoint is paused

row == <<revision, paused, count>>
circuitVars == <<row, circuitPc, looked, fresh, overrun>>

CircuitInit ==
  /\ revision = 0
  /\ paused = FALSE
  /\ count = 0
  /\ circuitPc = [e \in Slot |-> "idle"]
  /\ looked = [p \in Person |-> 0]
  /\ fresh = [p \in Person |-> 0]
  /\ overrun = [e \in Slot |-> 0]

Shifts(e, to) == circuitPc' = [circuitPc EXCEPT ![e] = to]

\* Mutant of ControlIsOpen: the control is not read.
ControlIsOpenAnyway == TRUE

\* assertControlIsOpen: no row, or one that is not paused.
ControlIsOpen == ~paused

\* The control is read before the write begins, and not again.
Check(e) ==
  /\ circuitPc[e] = "idle"
  /\ ControlIsOpen
  /\ Shifts(e, "checked")
  /\ UNCHANGED <<row, looked, fresh, overrun>>

\* External: the channel confirms the write, fails in a way that counts, or
\* answers something that leaves the circuit alone.
CallEndpoint(e) ==
  /\ circuitPc[e] = "checked"
  /\ \E result \in {"confirmed", "failed", "idle"} : Shifts(e, result)
  /\ overrun' = [overrun EXCEPT ![e] = IF paused THEN @ + 1 ELSE @]
  /\ UNCHANGED <<row, looked, fresh>>

\* The write ends before its call, or its process dies.
Abandon(e) ==
  /\ circuitPc[e] # "idle"
  /\ Shifts(e, "idle")
  /\ UNCHANGED <<row, looked, fresh, overrun>>

\* Mutant of Resettable: a late success resets a paused endpoint too.
ResettableWhilePaused == revision # 0

Resettable == revision # 0 /\ ~paused

\* recordCircuitSuccess; bookkeeping that fails is Abandon.
RecordSuccess(e) ==
  /\ circuitPc[e] = "confirmed"
  /\ revision < MaxRevision
  /\ IF Resettable THEN count' = 0 /\ revision' = revision + 1
                   ELSE UNCHANGED <<count, revision>>
  /\ Shifts(e, "idle")
  /\ UNCHANGED <<paused, looked, fresh, overrun>>

\* recordCircuitFailure: one statement inserts the row or counts on.
RecordFailure(e) ==
  /\ circuitPc[e] = "failed"
  /\ revision < MaxRevision
  /\ revision' = revision + 1
  /\ count' = count + 1
  /\ paused' = (paused \/ count + 1 >= FailureLimit)
  /\ fresh' = [p \in Person |-> fresh[p] + 1]
  /\ Shifts(e, "idle")
  /\ UNCHANGED <<looked, overrun>>

Look(p) ==
  /\ revision # 0
  /\ looked' = [looked EXCEPT ![p] = revision]
  /\ fresh' = [fresh EXCEPT ![p] = 0]
  /\ UNCHANGED <<row, circuitPc, overrun>>

\* Mutant of Unmoved: the revision the person saw is not compared.
UnmovedOrNot(p) == looked[p] # 0

\* The revision in the WHERE clause is the one the person saw.
Unmoved(p) == looked[p] # 0 /\ looked[p] = revision

\* resumeSalesChannelWriteControl
Resume(p) ==
  /\ Unmoved(p)
  /\ paused
  /\ revision < MaxRevision
  /\ revision' = revision + 1
  /\ paused' = FALSE
  /\ count' = 0
  /\ overrun' = [e \in Slot |-> 0]
  /\ UNCHANGED <<circuitPc, looked, fresh>>

WriteStep(e) ==
  \/ Check(e)
  \/ CallEndpoint(e)
  \/ Abandon(e)
  \/ RecordSuccess(e)
  \/ RecordFailure(e)

CircuitNext ==
  \/ \E e \in Slot : WriteStep(e)
  \/ \E p \in Person : Look(p)
  \/ \E p \in Person : Resume(p)

CircuitSpec == CircuitInit /\ [][CircuitNext]_circuitVars

-----------------------------------------------------------------------------
\* The endpoint is paused exactly while its row counts the limit of failures:
\* no success that comes in late clears the count of a paused endpoint, and it
\* is never paused without cause.
PausedAtLimit == paused <=> count >= FailureLimit

\* Every variable holds a value of its type.
CircuitTypeOK ==
  /\ revision \in Nat
  /\ paused \in BOOLEAN
  /\ count \in Nat
  /\ circuitPc \in [Slot -> {"idle", "checked", "confirmed", "failed"}]
  /\ looked \in [Person -> Nat]
  /\ fresh \in [Person -> Nat]
  /\ overrun \in [Slot -> Nat]

\* The check precedes the call by several transactions; all the same a slot
\* reaches a paused endpoint at most once, with the write it had under way.
OneOverrunEach == \A e \in Slot : overrun[e] <= 1

\* A person never resumes an endpoint, and clears its count, over a failure
\* recorded after the look on which the decision rests.
ResumedAsSeen ==
  [][\A p \in Person : Resume(p) => fresh[p] = 0]_circuitVars
=============================================================================
