----------------------- MODULE SalesChannelWrite_proofs -----------------------
(***************************************************************************)
(* Proofs about the writes to the sales channel: the safety properties of  *)
(* SalesChannelWrite hold for any executors, targets and attempts.         *)
(***************************************************************************)
EXTENDS SalesChannelWrite, TLAPS

USE SalesChannelWriteAssumption DEF SalesChannelWriteAssumption

Status == {"NONE", "PENDING", "SENDING", "VERIFYING", "LOCAL_PENDING",
           "COMPLETED", "PARTIALLY_COMPLETED", "NOT_APPLIED", "REJECTED",
           "REVIEW_REQUIRED"}

\* The parts of TypeOK.
RequestTypes ==
  /\ status \in Status
  /\ active \in 0..MaxAttempt
  /\ heartbeat \in {"none", "live", "lapsed"}
  /\ stale \in BOOLEAN
  /\ held \in BOOLEAN

TargetTypes ==
  /\ ext \in [Target -> External]
  /\ loc \in [Target -> Local]
  /\ \A t \in Target : ext[t] = "NOT_APPLIED" <=> loc[t] = "NOT_REQUIRED"

AttemptTypes ==
  /\ last \in 0..MaxAttempt
  /\ kind \in [Attempt -> Kind]
  /\ state \in [Attempt -> Ended \cup {"NONE", "SENDING"}]
  /\ sent \in [Attempt -> BOOLEAN]

ExecutorTypes ==
  /\ pc \in [Exec -> Phase]
  /\ own \in [Exec -> 0..MaxAttempt]
  /\ ids \in [Exec -> SUBSET Target]

HistoryTypes ==
  /\ calls \in Nat
  /\ cut \in BOOLEAN
  /\ unseen \in SUBSET Target
  /\ finalized \in [Target -> Nat]

Types ==
  RequestTypes /\ TargetTypes /\ AttemptTypes /\ ExecutorTypes /\ HistoryTypes

\* Attempts up to the last exist; one is open at most, and it is the one
\* that the status, or the active claim, speaks of.
AttemptInv ==
  /\ \A n \in Attempt : state[n] = "NONE" <=> n > last
  /\ \A m, n \in OpenAttempts : m = n
  /\ status \in Recoverable <=> active = 0 /\ OpenAttempts # {}
  /\ active # 0 => /\ active \in OpenAttempts
                   /\ status \in {"LOCAL_PENDING", "REVIEW_REQUIRED"}

\* An attempt was made by one executor.
ExecutorInv ==
  /\ \A e \in Exec : pc[e] = "idle" <=> own[e] = 0
  /\ \A e \in Exec : own[e] <= last
  /\ \A e, f \in Exec : own[e] # 0 /\ own[e] = own[f] => e = f

InFlight(e) == pc[e] \in {"dispatched", "called"}

\* While the channel is called the request is its caller's.
FlightInv ==
  \A e \in Exec :
    InFlight(e) => OwnsAttempt(e, "SENDING", "WRITE", TRUE) /\ ~stale

ControlInv == AttemptInv /\ ExecutorInv /\ FlightInv

\* A write that was not dispatched has not been made, nor one whose caller
\* has yet to make it.
CallInv ==
  /\ calls \in {0, 1}
  /\ calls = 0 => unseen = {}
  /\ status = "PENDING" => calls = 0
  /\ status = "SENDING" => \A n \in OpenAttempts : ~sent[n] => calls = 0
  /\ \A e \in Exec : pc[e] = "dispatched" => calls = 0

\* The targets have a result exactly when the write has one, and only what
\* succeeded there is finalized, which is counted.
TargetInv ==
  /\ status \in Recoverable \cup {"NONE"} =>
       \A t \in Target : ext[t] = "PENDING" /\ loc[t] = "PENDING"
  /\ status \notin Recoverable \cup {"NONE"} =>
       \A t \in Target : ext[t] # "PENDING"
  /\ \A t \in Target : loc[t] \in {"SUCCEEDED", "FAILED"} =>
       ext[t] = "SUCCEEDED"
  /\ \A t \in Target : finalized[t] = IF loc[t] = "SUCCEEDED" THEN 1 ELSE 0

IInv ==
  /\ Types
  /\ ControlInv
  /\ CallInv
  /\ TargetInv
  /\ NotAppliedWasSeen
  /\ NothingStranded

-----------------------------------------------------------------------------
LEMMA InitIInv == Init => IInv
<1>. SUFFICES ASSUME Init PROVE IInv
  OBVIOUS
<1>. USE DEF Init
<1>1. RequestTypes /\ TargetTypes /\ HistoryTypes
  <2>1. RequestTypes
    <3>1. active \in 0..MaxAttempt
      BY SMT
    <3>. QED
      BY <3>1, Zenon DEF RequestTypes, Status
  <2>2. TargetTypes
    BY DEF TargetTypes, External, Local
  <2>3. HistoryTypes
    BY DEF HistoryTypes
  <2>. QED
    BY <2>1, <2>2, <2>3
<1>2. AttemptTypes /\ ExecutorTypes
  BY DEF AttemptTypes, ExecutorTypes, Attempt, Kind, Ended, Phase
<1>3. OpenAttempts = {}
  BY DEF OpenAttempts
<1>4. ControlInv
  BY <1>3 DEF ControlInv, AttemptInv, ExecutorInv, FlightInv, InFlight,
     Attempt, Recoverable
<1>5. CallInv /\ TargetInv
  BY <1>3 DEF CallInv, TargetInv, Recoverable
<1>6. NotAppliedWasSeen /\ NothingStranded
  BY DEF NotAppliedWasSeen, NothingStranded
<1>. QED
  BY <1>1, <1>2, <1>4, <1>5, <1>6 DEF IInv, Types

-----------------------------------------------------------------------------
(***************************************************************************)
(* Attempts and executors.                                                 *)
(***************************************************************************)
\* The attempt that an executor works for exists.
LEMMA OwnExists ==
  ASSUME IInv, NEW e \in Exec, pc[e] # "idle"
  PROVE  own[e] \in Attempt /\ own[e] <= last
  BY DEF IInv, Types, AttemptTypes, ExecutorTypes, ControlInv, ExecutorInv,
     Attempt

\* Who owns an attempt or holds a review has the open attempt.
LEMMA OwnIsOpen ==
  ASSUME IInv, NEW e \in Exec, pc[e] # "idle",
         state[own[e]] = "SENDING" \/ active = own[e]
  PROVE  own[e] \in OpenAttempts
  BY OwnExists DEF IInv, ControlInv, AttemptInv, ExecutorInv, OpenAttempts

\* The executor of the open attempt is the only one in flight.
LEMMA NobodyElse ==
  ASSUME IInv, NEW e \in Exec, own[e] \in OpenAttempts
  PROVE  \A f \in Exec \ {e} : ~InFlight(f)
<1>1. ASSUME NEW f \in Exec \ {e}, InFlight(f) PROVE FALSE
  <2>1. pc[f] # "idle" /\ state[own[f]] = "SENDING"
    BY <1>1 DEF InFlight, IInv, ControlInv, FlightInv, OwnsAttempt
  <2>2. own[f] \in OpenAttempts
    BY <2>1, OwnIsOpen
  <2>3. own[f] = own[e]
    BY <2>2 DEF IInv, ControlInv, AttemptInv
  <2>. QED
    BY <2>1, <2>3 DEF IInv, ControlInv, ExecutorInv
<1>. QED
  BY <1>1

\* The open attempt ends, nobody has another, and nobody is in flight.
LEMMA CloseControl ==
  ASSUME IInv, NEW n \in OpenAttempts, NEW s \in Ended,
         state' = [state EXCEPT ![n] = s], last' = last,
         active' = 0, status' \notin Recoverable,
         \A f \in Exec : \/ pc'[f] = pc[f] /\ own'[f] = own[f]
                         \/ pc'[f] = "idle" /\ own'[f] = 0,
         \A f \in Exec : ~InFlight(f)'
  PROVE  ControlInv'
<1>. USE DEF IInv, ControlInv
<1>1. /\ n \in Attempt /\ state'[n] = s /\ s \notin {"NONE", "SENDING"}
      /\ \A m \in Attempt \ {n} : state'[m] = state[m]
  BY DEF OpenAttempts, Types, AttemptTypes, Ended
<1>2. OpenAttempts' = {}
  BY <1>1 DEF OpenAttempts, AttemptInv
<1>3. AttemptInv'
  <2>1. \A m \in Attempt : state'[m] = "NONE" <=> m > last'
    BY <1>1 DEF AttemptInv, OpenAttempts
  <2>. QED
    BY <1>2, <2>1 DEF AttemptInv
<1>4. ExecutorInv'
  BY DEF ExecutorInv, Types, ExecutorTypes, AttemptTypes
<1>5. FlightInv'
  BY DEF FlightInv
<1>. QED
  BY <1>3, <1>4, <1>5

\* A new attempt begins as the open one ends, if any, for an executor that
\* does not call yet.
LEMMA OpenControl ==
  ASSUME IInv, NEW e \in Exec, last < MaxAttempt, last' = last + 1,
         state'[last + 1] = "SENDING",
         \A m \in Attempt \ {last + 1} :
           /\ state'[m] # "SENDING"
           /\ state'[m] = "NONE" <=> state[m] = "NONE",
         \/ active' = 0 /\ status' \in Recoverable
         \/ /\ active' = last + 1
            /\ status' \in {"LOCAL_PENDING", "REVIEW_REQUIRED"},
         own'[e] = last + 1, pc'[e] # "idle",
         \A f \in Exec \ {e} : pc'[f] = pc[f] /\ own'[f] = own[f],
         \A f \in Exec : ~InFlight(f)'
  PROVE  ControlInv'
<1>. USE DEF IInv, ControlInv
<1>1. last \in Nat /\ last + 1 \in Attempt
  BY DEF Types, AttemptTypes, Attempt
<1>2. OpenAttempts' = {last + 1}
  BY <1>1 DEF OpenAttempts
<1>3. AttemptInv'
  <2>1. \A m \in Attempt : state'[m] = "NONE" <=> m > last'
    BY <1>1 DEF AttemptInv, Attempt
  <2>2. status' \in Recoverable <=> active' = 0
    BY <1>1 DEF Recoverable
  <2>. QED
    BY <1>2, <2>1, <2>2 DEF AttemptInv
<1>4. ExecutorInv'
  BY <1>1 DEF ExecutorInv, Types, ExecutorTypes
<1>5. FlightInv'
  BY DEF FlightInv
<1>. QED
  BY <1>3, <1>4, <1>5

LEMMA StopsShape ==
  ASSUME IInv, NEW e \in Exec, Stops(e)
  PROVE  /\ ExecutorTypes'
         /\ pc'[e] = "idle" /\ own'[e] = 0
         /\ \A f \in Exec \ {e} : pc'[f] = pc[f] /\ own'[f] = own[f]
  BY DEF Stops, Moves, IInv, Types, ExecutorTypes, Phase

LEMMA MovesShape ==
  ASSUME IInv, NEW e \in Exec, NEW to \in Phase, NEW n \in 0..MaxAttempt,
         Moves(e, to, n), ids' \in [Exec -> SUBSET Target]
  PROVE  /\ ExecutorTypes'
         /\ pc'[e] = to /\ own'[e] = n
         /\ \A f \in Exec \ {e} : pc'[f] = pc[f] /\ own'[f] = own[f]
  BY DEF Moves, IInv, Types, ExecutorTypes

\* An executor ends its attempt and stops.
LEMMA CloseStep ==
  ASSUME IInv, NEW e \in Exec, own[e] \in OpenAttempts, NEW s \in Ended,
         Closes(own[e], s), Stops(e), active' = 0, status' \notin Recoverable
  PROVE  ControlInv' /\ AttemptTypes' /\ ExecutorTypes'
<1>1. \A f \in Exec : ~InFlight(f)'
  BY NobodyElse, StopsShape DEF InFlight
<1>2. state' = [state EXCEPT ![own[e]] = s] /\ last' = last
  BY DEF Closes
<1>3. \A f \in Exec : \/ pc'[f] = pc[f] /\ own'[f] = own[f]
                      \/ pc'[f] = "idle" /\ own'[f] = 0
  BY StopsShape
<1>4. ControlInv'
  BY <1>1, <1>2, <1>3, CloseControl
<1>5. AttemptTypes'
  BY DEF Closes, IInv, Types, AttemptTypes
<1>. QED
  BY <1>4, <1>5, StopsShape

Resting == Phase \ {"idle", "dispatched", "called"}

\* An executor ends its attempt and begins the next one.
LEMMA TransferStep ==
  ASSUME IInv, NEW e \in Exec, own[e] \in OpenAttempts, NEW s \in Ended,
         NEW k \in Kind, Transfers(own[e], s, k),
         NEW to \in Resting, Moves(e, to, last + 1),
         ids' \in [Exec -> SUBSET Target],
         \/ active' = 0 /\ status' \in Recoverable
         \/ /\ active' = last + 1
            /\ status' \in {"LOCAL_PENDING", "REVIEW_REQUIRED"}
  PROVE  ControlInv' /\ AttemptTypes' /\ ExecutorTypes'
<1>1. last \in Nat /\ last + 1 \in Attempt /\ last + 1 \in 0..MaxAttempt
  BY DEF Transfers, IInv, Types, AttemptTypes, Attempt
<1>2. /\ ExecutorTypes'
      /\ pc'[e] = to /\ own'[e] = last + 1
      /\ \A f \in Exec \ {e} : pc'[f] = pc[f] /\ own'[f] = own[f]
  BY <1>1, MovesShape DEF Resting
<1>3. \A f \in Exec : ~InFlight(f)'
  BY <1>2, NobodyElse DEF InFlight, Resting
<1>4. /\ own[e] \in Attempt /\ state[own[e]] = "SENDING"
      /\ \A m \in OpenAttempts : m = own[e]
  BY DEF OpenAttempts, IInv, ControlInv, AttemptInv
<1>5. /\ state'[last + 1] = "SENDING"
      /\ own[e] # last + 1 => state'[own[e]] = s
      /\ \A m \in Attempt \ {own[e], last + 1} : state'[m] = state[m]
  BY <1>1, <1>4 DEF Transfers, IInv, Types, AttemptTypes
<1>6. \A m \in Attempt \ {last + 1} :
        /\ state'[m] # "SENDING"
        /\ state'[m] = "NONE" <=> state[m] = "NONE"
  BY <1>4, <1>5 DEF OpenAttempts, Ended
<1>7. ControlInv'
  BY <1>2, <1>3, <1>5, <1>6, OpenControl DEF Transfers, Resting
<1>8. AttemptTypes'
  BY <1>1 DEF Transfers, IInv, Types, AttemptTypes, Ended
<1>. QED
  BY <1>2, <1>7, <1>8

\* Outside the write nobody is in flight.
LEMMA NobodyFlies ==
  ASSUME IInv, status # "SENDING"
  PROVE  \A f \in Exec : ~InFlight(f)
  BY DEF IInv, ControlInv, FlightInv, OwnsAttempt

\* A claim that expired is closed, so that no attempt is open.
LEMMA ExpiryShape ==
  ASSUME IInv, status \notin Recoverable
  PROVE  /\ AfterExpiry \in [Attempt -> Ended \cup {"NONE", "SENDING"}]
         /\ \A m \in Attempt :
              /\ AfterExpiry[m] # "SENDING"
              /\ AfterExpiry[m] = "NONE" <=> state[m] = "NONE"
<1>1. \A m \in Attempt : state[m] = "SENDING" => m = active
  BY DEF IInv, ControlInv, AttemptInv, OpenAttempts
<1>2. \A m \in Attempt : AfterExpiry[m] =
        IF m = active THEN ExpiredState(m) ELSE state[m]
  BY DEF AfterExpiry
<1>3. \A m \in Attempt :
        ExpiredState(m) = IF state[m] = "SENDING"
                          THEN IF kind[m] = "LOCAL_FINALIZE" THEN "FAILED"
                                                             ELSE "AMBIGUOUS"
                          ELSE state[m]
  BY DEF ExpiredState
<1>4. AfterExpiry = [m \in Attempt |-> AfterExpiry[m]]
  BY DEF AfterExpiry
<1>. QED
  BY <1>1, <1>2, <1>3, <1>4 DEF IInv, Types, AttemptTypes, Ended

\* An executor claims a request that rests.
LEMMA ClaimStep ==
  ASSUME IInv, NEW e \in Exec, status \notin Recoverable, last < MaxAttempt,
         last' = last + 1, state' = [AfterExpiry EXCEPT ![last + 1] = "SENDING"],
         NEW k \in Kind, kind' = [kind EXCEPT ![last + 1] = k],
         NEW d \in BOOLEAN, sent' = [sent EXCEPT ![last + 1] = d],
         NEW to \in Resting, Moves(e, to, last + 1),
         ids' \in [Exec -> SUBSET Target],
         active' = last + 1, status' \in {"LOCAL_PENDING", "REVIEW_REQUIRED"}
  PROVE  ControlInv' /\ AttemptTypes' /\ ExecutorTypes'
<1>1. last \in Nat /\ last + 1 \in Attempt /\ last + 1 \in 0..MaxAttempt
  BY DEF IInv, Types, AttemptTypes, Attempt
<1>2. /\ ExecutorTypes'
      /\ pc'[e] = to /\ own'[e] = last + 1
      /\ \A f \in Exec \ {e} : pc'[f] = pc[f] /\ own'[f] = own[f]
  BY <1>1, MovesShape DEF Resting
<1>3. \A f \in Exec : ~InFlight(f)'
  BY <1>2, NobodyFlies DEF InFlight, Resting, Recoverable
<1>4. /\ state'[last + 1] = "SENDING"
      /\ \A m \in Attempt \ {last + 1} : state'[m] = AfterExpiry[m]
      /\ state' \in [Attempt -> Ended \cup {"NONE", "SENDING"}]
  BY <1>1, ExpiryShape
<1>5. \A m \in Attempt \ {last + 1} :
        /\ state'[m] # "SENDING"
        /\ state'[m] = "NONE" <=> state[m] = "NONE"
  BY <1>4, ExpiryShape
<1>6. ControlInv'
  BY <1>2, <1>3, <1>4, <1>5, OpenControl DEF Resting
<1>7. AttemptTypes'
  BY <1>1, <1>4 DEF IInv, Types, AttemptTypes
<1>. QED
  BY <1>2, <1>6, <1>7

\* An executor moves on with its attempt; a call's flight begins and ends
\* with it.
LEMMA AdvanceStep ==
  ASSUME IInv, NEW e \in Exec, pc[e] # "idle", own[e] \in OpenAttempts,
         NEW to \in Phase \ {"idle"}, Moves(e, to, own[e]),
         UNCHANGED <<active, last, state, ids>>,
         status' \in Recoverable <=> status \in Recoverable,
         active # 0 => status' = status,
         InFlight(e)' => OwnsAttempt(e, "SENDING", "WRITE", TRUE)' /\ ~stale'
  PROVE  ControlInv' /\ ExecutorTypes'
<1>1. /\ ExecutorTypes'
      /\ pc'[e] = to /\ own'[e] = own[e]
      /\ \A f \in Exec \ {e} : pc'[f] = pc[f] /\ own'[f] = own[f]
  BY MovesShape DEF IInv, Types, ExecutorTypes
<1>2. OpenAttempts' = OpenAttempts
  BY DEF OpenAttempts
<1>3. AttemptInv'
  BY <1>2 DEF IInv, ControlInv, AttemptInv
<1>4. ExecutorInv'
  BY <1>1 DEF IInv, ControlInv, ExecutorInv
<1>5. FlightInv'
  BY <1>1, NobodyElse DEF FlightInv, InFlight
<1>. QED
  BY <1>1, <1>3, <1>4, <1>5 DEF ControlInv

\* Who owns an attempt, or holds a review, may end it.
LEMMA OwnsOpen ==
  ASSUME IInv, NEW e \in Exec, pc[e] # "idle", NEW s, NEW k, NEW d,
         OwnsAttempt(e, s, k, d)
  PROVE  /\ own[e] \in OpenAttempts
         /\ active = 0
         /\ status = s
         /\ sent[own[e]] = d
  BY OwnIsOpen DEF OwnsAttempt

LEMMA HoldsOpen ==
  ASSUME IInv, NEW e \in Exec, pc[e] # "idle", NEW s, HoldsReview(e, s)
  PROVE  own[e] \in OpenAttempts /\ status = s
  BY OwnIsOpen DEF HoldsReview

-----------------------------------------------------------------------------
(***************************************************************************)
(* Targets and calls.                                                      *)
(***************************************************************************)
Known == Status \ (Recoverable \cup {"NONE"})

\* Targets take results.
LEMMA SettleShape ==
  ASSUME TargetTypes, NEW T \in SUBSET Target, NEW r \in [Target -> Result],
         Settle(T, r)
  PROVE  /\ TargetTypes'
         /\ \A t \in T : ext'[t] = r[t] /\ loc'[t] = LocalFor(r[t])
         /\ \A t \in Target \ T : ext'[t] = ext[t] /\ loc'[t] = loc[t]
  BY DEF Settle, TargetTypes, LocalFor, Result, External, Local

\* The targets that had not succeeded take results, and none is left without.
LEMMA SettleInv ==
  ASSUME IInv, NEW T \in SUBSET Target, NEW r \in [Target -> Result],
         Settle(T, r), status' \in Known, UNCHANGED finalized,
         \A t \in T : ext[t] # "SUCCEEDED",
         \A t \in Target \ T : ext[t] # "PENDING"
  PROVE  /\ TargetTypes'
         /\ TargetInv'
         /\ \A t \in Target : ext'[t] \in Result
<1>1. /\ TargetTypes'
      /\ \A t \in T : ext'[t] = r[t] /\ loc'[t] = LocalFor(r[t])
      /\ \A t \in Target \ T : ext'[t] = ext[t] /\ loc'[t] = loc[t]
  BY SettleShape DEF IInv, Types
<1>2. \A t \in Target : ext'[t] \in Result
  BY <1>1 DEF IInv, Types, TargetTypes, External, Result
<1>3. \A t \in T : /\ ext[t] # "SUCCEEDED"
                   /\ loc[t] # "SUCCEEDED"
                   /\ loc'[t] \in {"PENDING", "NOT_REQUIRED"}
  BY <1>1 DEF IInv, TargetInv, LocalFor
<1>4. \A t \in Target : loc'[t] \in {"SUCCEEDED", "FAILED"} =>
        ext'[t] = "SUCCEEDED"
  BY <1>1, <1>3 DEF IInv, TargetInv
<1>5. \A t \in Target : finalized'[t] = IF loc'[t] = "SUCCEEDED" THEN 1 ELSE 0
  BY <1>1, <1>3 DEF IInv, TargetInv
<1>. QED
  BY <1>1, <1>2, <1>4, <1>5 DEF TargetInv, Known, Result

\* What is settled as not applied was seen, or the answer was cut.
LEMMA SettleSeen ==
  ASSUME IInv, NEW T \in SUBSET Target, NEW r \in [Target -> Result],
         Settle(T, r), unseen' \subseteq unseen, cut => cut',
         \A t \in T : r[t] = "NOT_APPLIED" /\ t \in unseen' => cut'
  PROVE  NotAppliedWasSeen'
  BY SettleShape DEF IInv, Types, NotAppliedWasSeen

\* Once the write has a result, calls are not made any more.
LEMMA CallsRest ==
  ASSUME IInv, UNCHANGED calls, unseen' \subseteq unseen, status' \in Known,
         \A f \in Exec : pc'[f] = "dispatched" => pc[f] = "dispatched"
  PROVE  CallInv'
  BY DEF IInv, CallInv, Known, Recoverable

\* Every derived status has what moves it on.
LEMMA DerivedShape ==
  ASSUME NEW x, NEW l, \A t \in Target : x[t] \in Result
  PROVE  /\ Derived(x, l) \in Known
         /\ Derived(x, l) = "REVIEW_REQUIRED" =>
              \E t \in Target : x[t] = "UNKNOWN"
         /\ Derived(x, l) = "LOCAL_PENDING" <=>
              /\ \A t \in Target : x[t] # "UNKNOWN"
              /\ SuccessfulPending(x, l) # {}
         /\ Derived(x, l) # "REJECTED"
         /\ Derived(x, l) = "NOT_APPLIED" =>
              \A t \in Target : x[t] = "NOT_APPLIED"
         /\ Derived(x, l) \in {"COMPLETED", "PARTIALLY_COMPLETED"} =>
              /\ SuccessfulPending(x, l) = {}
              /\ \A t \in Target : x[t] # "UNKNOWN"
<1>1. CASE \E t \in Target : x[t] = "UNKNOWN"
  BY <1>1 DEF Derived, Known, Status, Recoverable
<1>2. CASE ~\E t \in Target : x[t] = "UNKNOWN"
  <2>1. \A t \in Target : x[t] \in {"SUCCEEDED", "NOT_APPLIED"}
    BY <1>2 DEF Result
  <2>2. Derived(x, l) = IF SuccessfulPending(x, l) # {} THEN "LOCAL_PENDING"
                        ELSE IF \A t \in Target : x[t] = "NOT_APPLIED"
                          THEN "NOT_APPLIED"
                        ELSE IF \A t \in Target : x[t] = "SUCCEEDED"
                          THEN "COMPLETED"
                        ELSE "PARTIALLY_COMPLETED"
    BY <1>2, <2>1 DEF Derived
  <2>. QED
    BY <1>2, <2>2 DEF Known, Status, Recoverable
<1>. QED
  BY <1>1, <1>2

\* A request whose status is derived is not stranded.
LEMMA DerivedMoves ==
  ASSUME \A t \in Target : ext'[t] \in Result, status' = Derived(ext', loc')
  PROVE  NothingStranded' /\ status' \in Known
<1>1. Rechecked' = {t \in Target : ext'[t] = "UNKNOWN"}
  BY DEF Rechecked
<1>2. SuccessfulPending(ext', loc') = {} =>
        \A t \in Target : ext'[t] = "SUCCEEDED" => loc'[t] = "SUCCEEDED"
  BY DEF SuccessfulPending
<1>. QED
  BY <1>1, <1>2, DerivedShape DEF NothingStranded, Result

\* So is not one whose successes are handed over to a finalization.
LEMMA HandedMoves ==
  ASSUME status' = "LOCAL_PENDING", SuccessfulPending(ext', loc') # {}
  PROVE  NothingStranded' /\ status' \in Known
  BY DEF NothingStranded, SuccessfulPending, Known, Status, Recoverable

\* Nothing happens to the targets.
LEMMA TargetsStay ==
  ASSUME IInv, UNCHANGED <<ext, loc, finalized>>,
         status' \in Recoverable \cup {"NONE"} <=>
           status \in Recoverable \cup {"NONE"}
  PROVE  TargetTypes' /\ TargetInv'
  BY DEF IInv, Types, TargetTypes, TargetInv

-----------------------------------------------------------------------------
(***************************************************************************)
(* The write.                                                              *)
(***************************************************************************)
LEMMA SubmitStep ==
  ASSUME IInv, NEW e \in Exec, NEW changed \in BOOLEAN, Submit(e, changed)
  PROVE  IInv'
<1>. USE DEF Submit
<1>1. /\ status \in {"NONE", "REJECTED", "NOT_APPLIED"} /\ active = 0
      /\ status \notin Recoverable
  BY DEF IInv, ControlInv, AttemptInv, Retryable, Recoverable
<1>2. OpenAttempts = {}
  BY <1>1 DEF IInv, ControlInv, AttemptInv
<1>3. last \in Nat /\ last + 1 \in Attempt /\ last + 1 \in 0..MaxAttempt
  BY DEF Opens, IInv, Types, AttemptTypes, Attempt
<1>4. ids' \in [Exec -> SUBSET Target]
  BY DEF IInv, Types, ExecutorTypes
<1>5. /\ ExecutorTypes'
      /\ pc'[e] = "created" /\ own'[e] = last + 1
      /\ \A f \in Exec \ {e} : pc'[f] = pc[f] /\ own'[f] = own[f]
  BY <1>3, <1>4, MovesShape DEF Phase
<1>6. \A f \in Exec : ~InFlight(f)'
  BY <1>1, <1>5, NobodyFlies DEF InFlight
<1>7. /\ state'[last + 1] = "SENDING"
      /\ \A m \in Attempt \ {last + 1} :
           state'[m] = state[m] /\ state[m] # "SENDING"
  BY <1>2, <1>3 DEF Opens, OpenAttempts, IInv, Types, AttemptTypes
<1>8. ControlInv'
  BY <1>5, <1>6, <1>7, OpenControl DEF Opens, NoReview, Recoverable
<1>9. AttemptTypes'
  BY <1>3 DEF Opens, IInv, Types, AttemptTypes, Kind
<1>10. RequestTypes'
  <2>1. held' \in BOOLEAN
    BY Zenon DEF IInv, Types, RequestTypes
  <2>2. active' \in 0..MaxAttempt /\ status' \in Status
    BY DEF NoReview, Status
  <2>. QED
    BY <2>1, <2>2, Zenon DEF NoReview, RequestTypes
<1>11. TargetTypes' /\ HistoryTypes'
  BY DEF IInv, Types, TargetTypes, HistoryTypes, External, Local
<1>12. \A t \in Target : loc[t] # "SUCCEEDED" /\ finalized[t] = 0
  BY <1>1 DEF IInv, TargetInv, NothingStranded, Recoverable
<1>13. TargetInv'
  BY <1>12 DEF TargetInv, Recoverable
<1>14. CallInv'
  BY DEF CallInv
<1>15. NotAppliedWasSeen' /\ NothingStranded'
  BY DEF NotAppliedWasSeen, NothingStranded
<1>. QED
  BY <1>5, <1>8, <1>9, <1>10, <1>11, <1>13, <1>14, <1>15 DEF IInv, Types

\* What a refusal before the dispatch leaves.
LEMMA RejectStep ==
  ASSUME IInv, NEW e \in Exec, Reject(e)
  PROVE  IInv'
<1>. USE DEF Reject, history
<1>1. own[e] \in OpenAttempts /\ active = 0 /\ status = "PENDING"
  BY OwnsOpen
<1>2. ControlInv' /\ AttemptTypes' /\ ExecutorTypes'
  BY <1>1, CloseStep DEF Ended, Recoverable
<1>3. unseen = {} /\ \A t \in Target : ext[t] = "PENDING"
  BY <1>1 DEF IInv, CallInv, TargetInv, Recoverable
<1>. DEFINE r == [t \in Target |-> "NOT_APPLIED"]
<1>4. r \in [Target -> Result] /\ Settle(Unsettled, r)
        /\ Unsettled \in SUBSET Target /\ Unsettled = Target
  BY <1>3 DEF MarkPending, Result, Unsettled
<1>5. status' \in Known
  BY DEF Known, Status, Recoverable
<1>6. TargetTypes' /\ TargetInv' /\ \A t \in Target : ext'[t] \in Result
  BY <1>3, <1>4, <1>5, SettleInv
<1>7. NotAppliedWasSeen'
  BY <1>3 DEF NotAppliedWasSeen
<1>8. \A t \in Target : ext'[t] = "NOT_APPLIED"
  BY <1>4, SettleShape DEF IInv, Types
<1>9. NothingStranded'
  BY <1>8 DEF NothingStranded
<1>10. CallInv'
  BY <1>5, CallsRest, StopsShape
<1>11. RequestTypes' /\ HistoryTypes'
  BY DEF Touches, IInv, Types, RequestTypes, HistoryTypes, Status
<1>. QED
  BY <1>2, <1>6, <1>7, <1>9, <1>10, <1>11 DEF IInv, Types

\* A write begins.
LEMMA BeginStep ==
  ASSUME IInv, NEW e \in Exec, Begin(e)
  PROVE  IInv'
<1>. USE DEF Begin, targets, attempts, history
<1>1. /\ own[e] \in OpenAttempts /\ active = 0 /\ status = "PENDING"
      /\ calls = 0
  BY OwnsOpen DEF IInv, CallInv
<1>2. ControlInv' /\ ExecutorTypes'
  <2>1. own[e] \in 0..MaxAttempt /\ ids' \in [Exec -> SUBSET Target]
    BY DEF IInv, Types, ExecutorTypes
  <2>2. pc'[e] = "begun"
    BY <2>1, MovesShape DEF Phase
  <2>. QED
    BY <1>1, <2>2, AdvanceStep DEF InFlight, Phase, Recoverable
<1>3. TargetTypes' /\ TargetInv'
  BY <1>1, TargetsStay DEF Recoverable
<1>4. CallInv'
  BY <1>1 DEF IInv, CallInv
<1>5. NotAppliedWasSeen' /\ NothingStranded'
  BY DEF IInv, NotAppliedWasSeen, NothingStranded
<1>6. RequestTypes' /\ AttemptTypes' /\ HistoryTypes'
  BY DEF Touches, IInv, Types, RequestTypes, AttemptTypes, HistoryTypes, Status
<1>. QED
  BY <1>2, <1>3, <1>4, <1>5, <1>6 DEF IInv, Types

\* The dispatch is committed while nothing was called for.
LEMMA DispatchStep ==
  ASSUME IInv, NEW e \in Exec, Dispatch(e)
  PROVE  IInv'
<1>. USE DEF Dispatch, targets, history
<1>1. /\ own[e] \in OpenAttempts /\ active = 0 /\ status = "SENDING"
      /\ calls = 0
  <2>1. /\ own[e] \in OpenAttempts /\ active = 0 /\ status = "SENDING"
        /\ sent[own[e]] = FALSE
    BY OwnsOpen
  <2>. QED
    BY <2>1 DEF IInv, CallInv
<1>2. sent'[own[e]] = TRUE /\ sent' \in [Attempt -> BOOLEAN]
  BY <1>1 DEF OpenAttempts, IInv, Types, AttemptTypes
<1>3. own[e] \in 0..MaxAttempt /\ ids' \in [Exec -> SUBSET Target]
  BY DEF IInv, Types, ExecutorTypes
<1>4. own'[e] = own[e]
  BY <1>3, MovesShape DEF Phase
<1>5. ControlInv' /\ ExecutorTypes'
  <2>1. OwnsAttempt(e, "SENDING", "WRITE", TRUE)' /\ ~stale'
    BY <1>1, <1>2, <1>4 DEF OwnsAttempt, Touches
  <2>. QED
    BY <1>1, <2>1, AdvanceStep DEF Phase
<1>6. TargetTypes' /\ TargetInv'
  BY <1>1, TargetsStay
<1>7. CallInv'
  BY <1>1 DEF IInv, CallInv
<1>8. NotAppliedWasSeen' /\ NothingStranded'
  BY <1>1 DEF IInv, NotAppliedWasSeen, NothingStranded
<1>9. RequestTypes' /\ AttemptTypes' /\ HistoryTypes'
  BY <1>2 DEF Touches, IInv, Types, RequestTypes, AttemptTypes, HistoryTypes
<1>. QED
  BY <1>5, <1>6, <1>7, <1>8, <1>9 DEF IInv, Types

\* The first call of a submission, by the only executor in flight.
LEMMA CallStep ==
  ASSUME IInv, NEW e \in Exec, Call(e)
  PROVE  IInv'
<1>. USE DEF Call, request, targets, attempts
<1>1. /\ OwnsAttempt(e, "SENDING", "WRITE", TRUE) /\ ~stale
      /\ calls = 0 /\ InFlight(e)
  BY DEF IInv, ControlInv, FlightInv, CallInv, InFlight
<1>2. /\ own[e] \in OpenAttempts /\ active = 0 /\ status = "SENDING"
      /\ sent[own[e]] = TRUE
  BY <1>1, OwnsOpen
<1>3. own[e] \in 0..MaxAttempt /\ ids' \in [Exec -> SUBSET Target]
  BY DEF IInv, Types, ExecutorTypes
<1>4. /\ pc'[e] = "called" /\ own'[e] = own[e]
      /\ \A f \in Exec \ {e} : pc'[f] = pc[f]
  BY <1>3, MovesShape DEF Phase
<1>5. ControlInv' /\ ExecutorTypes'
  <2>1. OwnsAttempt(e, "SENDING", "WRITE", TRUE)' /\ ~stale'
    BY <1>1, <1>4 DEF OwnsAttempt
  <2>. QED
    BY <1>2, <2>1, AdvanceStep DEF Phase
<1>6. TargetTypes' /\ TargetInv'
  BY TargetsStay
<1>7. CallInv'
  <2>1. calls' = 1
    BY <1>1
  <2>2. \A n \in OpenAttempts' : sent'[n]
    BY <1>2 DEF OpenAttempts, IInv, ControlInv, AttemptInv
  <2>3. \A f \in Exec : pc'[f] # "dispatched"
    BY <1>2, <1>4, NobodyElse DEF InFlight
  <2>. QED
    BY <1>2, <2>1, <2>2, <2>3 DEF CallInv
<1>8. NotAppliedWasSeen' /\ NothingStranded'
  BY <1>2 DEF IInv, TargetInv, Recoverable, NotAppliedWasSeen, NothingStranded
<1>9. RequestTypes' /\ AttemptTypes' /\ HistoryTypes'
  BY <1>1 DEF IInv, Types, RequestTypes, AttemptTypes, HistoryTypes
<1>. QED
  BY <1>5, <1>6, <1>7, <1>8, <1>9 DEF IInv, Types

\* A write that has no result has none for any target.
LEMMA NothingSettled ==
  ASSUME IInv, status \in Recoverable
  PROVE  Unsettled = Target /\ \A t \in Target : ext[t] = "PENDING"
  BY DEF IInv, TargetInv, Unsettled

\* The finalization of what succeeded is handed to a new attempt.
LEMMA HandOverStep ==
  ASSUME IInv, NEW e \in Exec, own[e] \in OpenAttempts, NEW s \in Ended,
         Transfers(own[e], s, "LOCAL_FINALIZE"), HandsOver(e)
  PROVE  /\ ControlInv' /\ AttemptTypes' /\ ExecutorTypes'
         /\ pc'[e] = "finalizing"
         /\ \A f \in Exec \ {e} : pc'[f] = pc[f]
<1>. USE DEF HandsOver, Binds
<1>1. last + 1 \in 0..MaxAttempt
  BY DEF Transfers, IInv, Types, AttemptTypes
<1>2. SuccessfulPending(ext', loc') \in SUBSET Target
  BY DEF SuccessfulPending
<1>3. ids' \in [Exec -> SUBSET Target]
  BY <1>2 DEF IInv, Types, ExecutorTypes
<1>4. /\ pc'[e] = "finalizing"
      /\ \A f \in Exec \ {e} : pc'[f] = pc[f]
  BY <1>1, <1>3, MovesShape DEF Phase
<1>. QED
  BY <1>3, <1>4, TransferStep DEF Kind, Resting, Phase

\* The request's columns that a hand-over writes.
LEMMA HandOverTypes ==
  ASSUME IInv, NEW e \in Exec, HandsOver(e), last < MaxAttempt, Touches
  PROVE  RequestTypes'
<1>1. last + 1 \in 0..MaxAttempt
  BY DEF IInv, Types, AttemptTypes
<1>. QED
  BY <1>1 DEF HandsOver, Binds, Touches, IInv, Types, RequestTypes, Status

LEMMA ConfirmStep ==
  ASSUME IInv, NEW e \in Exec, ConfirmResponse(e)
  PROVE  IInv'
<1>. USE DEF ConfirmResponse
<1>1. own[e] \in OpenAttempts /\ active = 0 /\ status = "SENDING"
  BY OwnsOpen
<1>2. /\ ControlInv' /\ AttemptTypes' /\ ExecutorTypes'
      /\ pc'[e] = "finalizing"
      /\ \A f \in Exec \ {e} : pc'[f] = pc[f]
  BY <1>1, HandOverStep DEF Ended
<1>3. status' = "LOCAL_PENDING" /\ status' \in Known
  BY DEF HandsOver, Known, Status, Recoverable
<1>4. PICK T \in IF PerItem THEN (SUBSET Target) \ {{}} ELSE {Target} :
        Settle(Target, [t \in Target |-> IF t \in T THEN "SUCCEEDED"
                                                    ELSE "NOT_APPLIED"])
  BY Zenon DEF ConfirmResponse
<1>. DEFINE r == [t \in Target |-> IF t \in T THEN "SUCCEEDED"
                                              ELSE "NOT_APPLIED"]
<1>5. r \in [Target -> Result] /\ Settle(Target, r)
  BY <1>4 DEF Result
<1>6. \A t \in Target : ext[t] # "SUCCEEDED"
  BY <1>1, NothingSettled DEF Recoverable
<1>7. TargetTypes' /\ TargetInv'
  BY <1>3, <1>5, <1>6, SettleInv
<1>8. SuccessfulPending(ext', loc') # {}
  <2>1. T \subseteq Target /\ T # {}
    <3>1. T \in (SUBSET Target) \ {{}} \/ T = Target
      BY <1>4, Zenon
    <3>. QED
      BY <3>1
  <2>2. \A t \in Target : ext'[t] = r[t] /\ loc'[t] = LocalFor(r[t])
    BY <1>5, SettleShape DEF IInv, Types
  <2>3. \A t \in T : ext'[t] = "SUCCEEDED" /\ loc'[t] = "PENDING"
    BY <2>1, <2>2 DEF LocalFor
  <2>. QED
    BY <2>1, <2>3 DEF SuccessfulPending
<1>9. NothingStranded'
  BY <1>3, <1>8, HandedMoves
<1>10. NotAppliedWasSeen' /\ HistoryTypes'
  BY DEF NotAppliedWasSeen, IInv, Types, HistoryTypes
<1>11. CallInv'
  BY <1>2, <1>3, CallsRest
<1>12. RequestTypes'
  BY HandOverTypes DEF Transfers
<1>. QED
  BY <1>2, <1>7, <1>9, <1>10, <1>11, <1>12 DEF IInv, Types

\* The write reached nothing, on the word of nobody or of its answer.
LEMMA NotAppliedStep ==
  ASSUME IInv, NEW e \in Exec, NotApplied(e)
  PROVE  IInv'
<1>1. /\ own[e] \in OpenAttempts /\ active = 0 /\ status = "SENDING"
      /\ \/ calls = 0 /\ UNCHANGED <<cut, unseen>>
         \/ unseen' = {} /\ UNCHANGED cut
         \/ cut' = TRUE /\ UNCHANGED unseen
  <2>1. CASE pc[e] = "begun"
    <3>1. /\ OwnsAttempt(e, "SENDING", "WRITE", FALSE)
          /\ UNCHANGED <<cut, unseen>>
      BY <2>1 DEF NotApplied
    <3>2. /\ own[e] \in OpenAttempts /\ active = 0 /\ status = "SENDING"
          /\ sent[own[e]] = FALSE
      BY <2>1, <3>1, OwnsOpen
    <3>. QED
      BY <3>1, <3>2 DEF IInv, CallInv
  <2>2. CASE pc[e] = "dispatched"
    <3>1. /\ OwnsAttempt(e, "SENDING", "WRITE", TRUE)
          /\ UNCHANGED <<cut, unseen>>
      BY <2>2 DEF NotApplied
    <3>. QED
      BY <2>2, <3>1, OwnsOpen DEF IInv, CallInv
  <2>3. CASE pc[e] = "called"
    <3>1. OwnsAttempt(e, "SENDING", "WRITE", TRUE)
      BY <2>3 DEF NotApplied
    <3>. QED
      BY <2>3, <3>1, OwnsOpen DEF NotApplied
  <2>. QED
    BY <2>1, <2>2, <2>3 DEF NotApplied
<1>. USE DEF NotApplied
<1>2. ControlInv' /\ AttemptTypes' /\ ExecutorTypes'
  BY <1>1, CloseStep DEF Ended, Recoverable
<1>. DEFINE r == [t \in Target |-> "NOT_APPLIED"]
<1>3. r \in [Target -> Result] /\ Settle(Unsettled, r) /\ Unsettled = Target
  BY <1>1, NothingSettled DEF MarkPending, Result, Recoverable
<1>4. status' \in Known
  BY DEF Known, Status, Recoverable
<1>5. \A t \in Target : ext[t] # "SUCCEEDED"
  BY <1>1, NothingSettled DEF Recoverable
<1>6. TargetTypes' /\ TargetInv'
  BY <1>3, <1>4, <1>5, SettleInv
<1>7. \A t \in Target : ext'[t] = "NOT_APPLIED"
  BY <1>3, SettleShape DEF IInv, Types
<1>8. NothingStranded'
  BY <1>7 DEF NothingStranded
<1>9. NotAppliedWasSeen' /\ HistoryTypes' /\ unseen' \subseteq unseen
  <2>1. calls = 0 => unseen = {}
    BY DEF IInv, CallInv
  <2>2. unseen' = {} \/ cut' = TRUE
    BY <1>1, <2>1
  <2>3. unseen' \subseteq unseen /\ cut' \in BOOLEAN
    BY <1>1 DEF IInv, Types, HistoryTypes
  <2>. QED
    BY <2>2, <2>3, Zenon DEF NotAppliedWasSeen, IInv, Types, HistoryTypes
<1>10. CallInv'
  BY <1>4, <1>9, CallsRest, StopsShape
<1>11. RequestTypes'
  BY <1>1 DEF Touches, IInv, Types, RequestTypes, Status
<1>. QED
  BY <1>2, <1>6, <1>8, <1>9, <1>10, <1>11 DEF IInv, Types

\* An answer in doubt is verified by a new attempt.
LEMMA AmbiguousStep ==
  ASSUME IInv, NEW e \in Exec, Ambiguous(e)
  PROVE  IInv'
<1>. USE DEF Ambiguous, targets, history
<1>1. own[e] \in OpenAttempts /\ active = 0 /\ status = "SENDING"
  BY OwnsOpen
<1>2. last + 1 \in 0..MaxAttempt /\ ids' \in [Exec -> SUBSET Target]
  BY DEF Transfers, IInv, Types, AttemptTypes, ExecutorTypes
<1>3. /\ pc'[e] = "verifying"
      /\ \A f \in Exec \ {e} : pc'[f] = pc[f]
  BY <1>2, MovesShape DEF Phase
<1>4. ControlInv' /\ AttemptTypes' /\ ExecutorTypes'
  BY <1>1, <1>2, TransferStep DEF Ended, Kind, Resting, Phase, Recoverable
<1>5. TargetTypes' /\ TargetInv'
  BY <1>1, TargetsStay DEF Recoverable
<1>6. CallInv'
  BY <1>3 DEF IInv, CallInv
<1>7. NotAppliedWasSeen' /\ NothingStranded'
  BY DEF IInv, NotAppliedWasSeen, NothingStranded
<1>8. RequestTypes' /\ HistoryTypes'
  BY DEF Touches, IInv, Types, RequestTypes, HistoryTypes, Status
<1>. QED
  BY <1>4, <1>5, <1>6, <1>7, <1>8 DEF IInv, Types

LEMMA DispatchReadStep ==
  ASSUME IInv, NEW e \in Exec, DispatchRead(e)
  PROVE  IInv'
<1>. USE DEF DispatchRead, targets, history
<1>1. own[e] \in OpenAttempts /\ active = 0 /\ status = "VERIFYING"
  BY OwnsOpen
<1>2. own[e] \in 0..MaxAttempt /\ ids' \in [Exec -> SUBSET Target]
  BY DEF IInv, Types, ExecutorTypes
<1>3. /\ pc'[e] = "reading"
      /\ \A f \in Exec \ {e} : pc'[f] = pc[f]
  BY <1>2, MovesShape DEF Phase
<1>4. ControlInv' /\ ExecutorTypes'
  BY <1>1, <1>3, AdvanceStep DEF InFlight, Phase
<1>5. TargetTypes' /\ TargetInv'
  BY TargetsStay
<1>6. CallInv'
  BY <1>1, <1>3 DEF IInv, CallInv
<1>7. NotAppliedWasSeen' /\ NothingStranded'
  BY <1>1 DEF IInv, NotAppliedWasSeen, NothingStranded
<1>8. RequestTypes' /\ AttemptTypes' /\ HistoryTypes'
  BY DEF Touches, IInv, Types, RequestTypes, AttemptTypes, HistoryTypes
<1>. QED
  BY <1>4, <1>5, <1>6, <1>7, <1>8 DEF IInv, Types

LEMMA VerificationFailsStep ==
  ASSUME IInv, NEW e \in Exec, VerificationFails(e)
  PROVE  IInv'
<1>. USE DEF VerificationFails, history
<1>1. own[e] \in OpenAttempts /\ active = 0 /\ status = "VERIFYING"
  BY OwnsOpen
<1>2. ControlInv' /\ AttemptTypes' /\ ExecutorTypes'
  BY <1>1, CloseStep DEF Ended, Recoverable
<1>. DEFINE r == [t \in Target |-> "UNKNOWN"]
<1>3. r \in [Target -> Result] /\ Settle(Unsettled, r) /\ Unsettled = Target
  BY <1>1, NothingSettled DEF MarkPending, Result, Recoverable
<1>4. status' = "REVIEW_REQUIRED" /\ status' \in Known
  BY DEF Known, Status, Recoverable
<1>5. \A t \in Target : ext[t] # "SUCCEEDED"
  BY <1>1, NothingSettled DEF Recoverable
<1>6. TargetTypes' /\ TargetInv'
  BY <1>3, <1>4, <1>5, SettleInv
<1>7. \A t \in Target : ext'[t] = "UNKNOWN"
  BY <1>3, SettleShape DEF IInv, Types
<1>8. NothingStranded'
  BY <1>4, <1>7 DEF NothingStranded, Rechecked
<1>9. NotAppliedWasSeen'
  BY <1>7 DEF NotAppliedWasSeen
<1>10. CallInv'
  BY <1>4, CallsRest, StopsShape
<1>11. RequestTypes' /\ HistoryTypes'
  BY DEF Touches, IInv, Types, RequestTypes, HistoryTypes, Status
<1>. QED
  BY <1>2, <1>6, <1>8, <1>9, <1>10, <1>11 DEF IInv, Types

\* The results of a read settle targets, and what succeeded is handed over.
LEMMA SettledStep ==
  ASSUME IInv, NEW e \in Exec, own[e] \in OpenAttempts,
         NEW T \in SUBSET Target, NEW r \in [Target -> Result],
         Settle(T, r), unseen' = unseen \ Resolved(T, r),
         \A t \in T : ext[t] # "SUCCEEDED",
         \A t \in Target \ T : ext[t] # "PENDING",
         NEW s \in Ended,
         \/ /\ SuccessfulPending(ext', loc') = {}
            /\ status' = Derived(ext', loc')
            /\ active' = 0
            /\ heartbeat' \in {"none", heartbeat}
            /\ Closes(own[e], s)
            /\ Stops(e)
         \/ /\ SuccessfulPending(ext', loc') # {}
            /\ Transfers(own[e], s, "LOCAL_FINALIZE")
            /\ HandsOver(e),
         Touches, UNCHANGED <<calls, cut, finalized>>
  PROVE  IInv'
<1>1. /\ Settle(T, r)
      /\ \A t \in T : r[t] = "NOT_APPLIED" => t \notin unseen'
      /\ unseen' \in SUBSET Target /\ unseen' \subseteq unseen
  BY DEF Resolved, IInv, Types, HistoryTypes
<1>2. \A t \in Target : ext'[t] \in Result
  <2>1. /\ \A t \in T : ext'[t] = r[t]
        /\ \A t \in Target \ T : ext'[t] = ext[t]
    BY SettleShape DEF IInv, Types
  <2>. QED
    BY <2>1 DEF IInv, Types, TargetTypes, External, Result
<1>3. /\ NothingStranded' /\ status' \in Known
      /\ ControlInv' /\ AttemptTypes' /\ ExecutorTypes' /\ RequestTypes'
      /\ \A f \in Exec : pc'[f] = "dispatched" => pc[f] = "dispatched"
  <2>1. CASE SuccessfulPending(ext', loc') = {}
    <3>1. /\ status' = Derived(ext', loc') /\ active' = 0
          /\ Closes(own[e], s) /\ Stops(e)
          /\ heartbeat' \in {"none", heartbeat}
      BY <2>1
    <3>2. NothingStranded' /\ status' \in Known
      BY <1>2, <3>1, DerivedMoves
    <3>3. ControlInv' /\ AttemptTypes' /\ ExecutorTypes'
      BY <3>1, <3>2, CloseStep DEF Known
    <3>4. RequestTypes'
      <4>1. status' \in Status /\ active' \in 0..MaxAttempt
        BY <3>1, <3>2 DEF Known
      <4>2. heartbeat' \in {"none", "live", "lapsed"}
        BY <3>1 DEF IInv, Types, RequestTypes
      <4>. QED
        BY <4>1, <4>2, Zenon DEF Touches, IInv, Types, RequestTypes
    <3>. QED
      BY <3>1, <3>2, <3>3, <3>4, StopsShape
  <2>2. CASE SuccessfulPending(ext', loc') # {}
    <3>1. Transfers(own[e], s, "LOCAL_FINALIZE") /\ HandsOver(e)
      BY <2>2
    <3>2. status' = "LOCAL_PENDING" /\ last < MaxAttempt
      BY <3>1 DEF HandsOver, Transfers
    <3>3. NothingStranded' /\ status' \in Known
      BY <2>2, <3>2, HandedMoves
    <3>. QED
      BY <3>1, <3>2, <3>3, HandOverStep, HandOverTypes
  <2>. QED
    BY <2>1, <2>2
<1>4. TargetTypes' /\ TargetInv'
  BY <1>3, SettleInv
<1>5. NotAppliedWasSeen'
  BY <1>1, SettleSeen
<1>6. CallInv'
  BY <1>1, <1>3, CallsRest
<1>7. HistoryTypes'
  BY <1>1 DEF IInv, Types, HistoryTypes
<1>. QED
  BY <1>3, <1>4, <1>5, <1>6, <1>7 DEF IInv, Types

LEMMA SettleVerificationStep ==
  ASSUME IInv, NEW e \in Exec, SettleVerification(e)
  PROVE  IInv'
<1>. USE DEF SettleVerification
<1>1. own[e] \in OpenAttempts /\ active = 0 /\ status = "VERIFYING"
  BY OwnsOpen
<1>2. Unsettled = Target /\ \A t \in Target : ext[t] # "SUCCEEDED"
  BY <1>1, NothingSettled DEF Recoverable
<1>3. PICK r \in [Target -> Result] :
        Settle(Unsettled, r) /\ unseen' = unseen \ Resolved(Unsettled, r)
  OBVIOUS
<1>4. \E s \in Ended :
        \/ /\ SuccessfulPending(ext', loc') = {}
           /\ status' = Derived(ext', loc')
           /\ active' = 0
           /\ heartbeat' \in {"none", heartbeat}
           /\ Closes(own[e], s)
           /\ Stops(e)
        \/ /\ SuccessfulPending(ext', loc') # {}
           /\ Transfers(own[e], s, "LOCAL_FINALIZE")
           /\ HandsOver(e)
  BY <1>1 DEF Ended
<1>. QED
  BY <1>1, <1>2, <1>3, <1>4, SettledStep

LEMMA SettleRecheckStep ==
  ASSUME IInv, NEW e \in Exec, SettleRecheck(e)
  PROVE  IInv'
<1>. USE DEF SettleRecheck
<1>1. own[e] \in OpenAttempts /\ status = "REVIEW_REQUIRED"
  BY HoldsOpen
<1>2. /\ Rechecked \in SUBSET Target
      /\ \A t \in Rechecked : ext[t] # "SUCCEEDED"
      /\ \A t \in Target \ Rechecked : ext[t] # "PENDING"
  BY <1>1 DEF Rechecked, IInv, TargetInv, Recoverable
<1>3. PICK r \in [Target -> Result] :
        Settle(Rechecked, r) /\ unseen' = unseen \ Resolved(Rechecked, r)
  OBVIOUS
<1>4. \E s \in Ended :
        \/ /\ SuccessfulPending(ext', loc') = {}
           /\ status' = Derived(ext', loc')
           /\ active' = 0
           /\ heartbeat' \in {"none", heartbeat}
           /\ Closes(own[e], s)
           /\ Stops(e)
        \/ /\ SuccessfulPending(ext', loc') # {}
           /\ Transfers(own[e], s, "LOCAL_FINALIZE")
           /\ HandsOver(e)
  BY DEF Ended, NoReview
<1>. QED
  BY <1>1, <1>2, <1>3, <1>4, SettledStep

-----------------------------------------------------------------------------
(***************************************************************************)
(* The finalization and the review.                                        *)
(***************************************************************************)
\* What a request rests on does not change with its claims.
LEMMA RestStays ==
  ASSUME IInv, UNCHANGED <<status, targets, history>>, status \in Known,
         \A f \in Exec : pc'[f] = "dispatched" => pc[f] = "dispatched"
  PROVE  /\ TargetTypes' /\ TargetInv' /\ HistoryTypes' /\ CallInv'
         /\ NotAppliedWasSeen' /\ NothingStranded'
<1>. USE DEF targets, history
<1>1. TargetTypes' /\ TargetInv'
  BY TargetsStay
<1>2. HistoryTypes' /\ NotAppliedWasSeen'
  BY DEF IInv, Types, HistoryTypes, NotAppliedWasSeen
<1>3. CallInv'
  BY CallsRest
<1>4. NothingStranded'
  BY DEF IInv, NothingStranded, Rechecked, SuccessfulPending
<1>. QED
  BY <1>1, <1>2, <1>3, <1>4

\* A claim is given up.
LEMMA ReleaseTypes ==
  ASSUME IInv, NoReview, Touches, status' \in Status
  PROVE  RequestTypes'
<1>1. active' \in 0..MaxAttempt
  BY DEF NoReview
<1>. QED
  BY <1>1, Zenon DEF NoReview, Touches, IInv, Types, RequestTypes

\* A claim of a request that rests.
LEMMA ClaimedStep ==
  ASSUME IInv, NEW e \in Exec, status \in {"LOCAL_PENDING", "REVIEW_REQUIRED"},
         NEW k \in Kind, NEW d \in BOOLEAN, NEW to \in Resting,
         Claims(e, k, d, to), UNCHANGED <<status, targets, history>>
  PROVE  IInv'
<1>. USE DEF Claims, Binds
<1>1. last + 1 \in 0..MaxAttempt /\ ids' \in [Exec -> SUBSET Target]
  BY DEF IInv, Types, AttemptTypes, ExecutorTypes
<1>2. status \notin Recoverable /\ status \in Known
  BY DEF Recoverable, Known, Status
<1>3. ControlInv' /\ AttemptTypes' /\ ExecutorTypes'
  BY <1>1, <1>2, ClaimStep
<1>4. \A f \in Exec : pc'[f] = "dispatched" => pc[f] = "dispatched"
  BY <1>1, MovesShape DEF Resting
<1>5. RequestTypes'
  BY <1>1 DEF Touches, IInv, Types, RequestTypes
<1>. QED
  BY <1>2, <1>3, <1>4, <1>5, RestStays DEF IInv, Types

LEMMA RecheckFailsStep ==
  ASSUME IInv, NEW e \in Exec, RecheckFails(e)
  PROVE  IInv'
<1>. USE DEF RecheckFails, NoReview
<1>1. own[e] \in OpenAttempts /\ status = "REVIEW_REQUIRED"
        /\ status \in Known
  BY HoldsOpen DEF Known, Status, Recoverable
<1>2. ControlInv' /\ AttemptTypes' /\ ExecutorTypes'
  BY <1>1, CloseStep DEF Ended, Known
<1>3. RequestTypes'
  BY <1>1, ReleaseTypes DEF Known
<1>. QED
  BY <1>1, <1>2, <1>3, RestStays, StopsShape DEF IInv, Types

\* The targets that a finalization settles.
LEMMA MarkLocalShape ==
  ASSUME IInv, NEW T, NEW s \in {"SUCCEEDED", "FAILED"}, MarkLocal(T, s)
  PROVE  /\ TargetTypes'
         /\ ext' = ext
         /\ \A t \in Target : t \in T =>
              /\ ext[t] = "SUCCEEDED"
              /\ loc[t] \in {"PENDING", "FAILED"}
              /\ loc'[t] = s
         /\ \A t \in Target : t \notin T => loc'[t] = loc[t]
<1>1. /\ ext' = ext
      /\ loc' = [t \in Target |-> IF t \in T THEN s ELSE loc[t]]
      /\ \A t \in T : ext[t] = "SUCCEEDED" /\ loc[t] \in {"PENDING", "FAILED"}
  BY DEF MarkLocal
<1>2. TargetTypes'
  BY <1>1 DEF IInv, Types, TargetTypes, Local
<1>. QED
  BY <1>1, <1>2

LEMMA FinalizableShape ==
  ASSUME IInv, NEW e \in Exec
  PROVE  Finalizable(e) \in SUBSET Target
  BY DEF Finalizable, SuccessfulPending, IInv, Types, ExecutorTypes

\* The finalization is counted once for each target.
LEMMA FinalizeStep ==
  ASSUME IInv, NEW e \in Exec, Finalize(e)
  PROVE  IInv'
<1>. USE DEF Finalize, NoReview
<1>. DEFINE T == Finalizable(e)
<1>1. own[e] \in OpenAttempts /\ status = "LOCAL_PENDING"
  BY HoldsOpen
<1>2. /\ TargetTypes'
      /\ ext' = ext
      /\ \A t \in Target : t \in T =>
           /\ ext[t] = "SUCCEEDED"
           /\ loc[t] \in {"PENDING", "FAILED"}
           /\ loc'[t] = "SUCCEEDED"
      /\ \A t \in Target : t \notin T => loc'[t] = loc[t]
  BY MarkLocalShape
<1>3. \A t \in Target : ext'[t] \in Result
  BY <1>1, <1>2 DEF IInv, TargetInv, Types, TargetTypes, Recoverable, External,
     Result
<1>4. NothingStranded' /\ status' \in Known
  BY <1>2, <1>3, DerivedMoves
<1>5. ControlInv' /\ AttemptTypes' /\ ExecutorTypes'
  BY <1>1, <1>4, CloseStep DEF Ended, Known
<1>6. \A t \in Target : finalized'[t] = IF loc'[t] = "SUCCEEDED" THEN 1 ELSE 0
  <2>1. ASSUME NEW t \in Target, t \in T
        PROVE  finalized'[t] = 1 /\ loc'[t] = "SUCCEEDED"
    BY <1>2, <2>1 DEF IInv, TargetInv
  <2>2. ASSUME NEW t \in Target, t \notin T
        PROVE  finalized'[t] = finalized[t] /\ loc'[t] = loc[t]
    BY <1>2, <2>2
  <2>. QED
    BY <2>1, <2>2 DEF IInv, TargetInv
<1>7. TargetInv'
  BY <1>2, <1>3, <1>4, <1>6 DEF IInv, TargetInv, Known, Result
<1>8. HistoryTypes' /\ NotAppliedWasSeen'
  <2>1. finalized' \in [Target -> Nat]
    BY DEF IInv, Types, HistoryTypes
  <2>. QED
    BY <1>2, <2>1 DEF IInv, Types, HistoryTypes, NotAppliedWasSeen
<1>9. CallInv'
  BY <1>4, CallsRest, StopsShape
<1>10. RequestTypes'
  BY <1>4, ReleaseTypes DEF Known
<1>. QED
  BY <1>2, <1>4, <1>5, <1>7, <1>8, <1>9, <1>10 DEF IInv, Types

\* A finalization that fails leaves its targets to the next one.
LEMMA FinalizationFailsStep ==
  ASSUME IInv, NEW e \in Exec, FinalizationFails(e)
  PROVE  IInv'
<1>. USE DEF FinalizationFails, NoReview, history
<1>. DEFINE T == Finalizable(e)
<1>1. own[e] \in OpenAttempts /\ status = "LOCAL_PENDING"
        /\ status \in Known
  BY HoldsOpen DEF Known, Status, Recoverable
<1>2. ControlInv' /\ AttemptTypes' /\ ExecutorTypes'
  BY <1>1, CloseStep DEF Ended, Known
<1>3. /\ TargetTypes'
      /\ ext' = ext
      /\ \A t \in Target : t \in T =>
           /\ ext[t] = "SUCCEEDED"
           /\ loc[t] \in {"PENDING", "FAILED"}
           /\ loc'[t] = "FAILED"
      /\ \A t \in Target : t \notin T => loc'[t] = loc[t]
  BY MarkLocalShape
<1>4. TargetInv'
  BY <1>1, <1>3 DEF IInv, TargetInv, Known
<1>5. NothingStranded'
  <2>1. T # {} /\ T \in SUBSET Target
    BY FinalizableShape DEF MarkLocal
  <2>2. SuccessfulPending(ext', loc') # {}
    BY <1>3, <2>1 DEF SuccessfulPending
  <2>. QED
    BY <1>1, <2>2, HandedMoves
<1>6. HistoryTypes' /\ NotAppliedWasSeen'
  BY <1>3 DEF IInv, Types, HistoryTypes, NotAppliedWasSeen
<1>7. CallInv'
  BY <1>1, CallsRest, StopsShape
<1>8. RequestTypes'
  BY <1>1, ReleaseTypes DEF Known
<1>. QED
  BY <1>2, <1>3, <1>4, <1>5, <1>6, <1>7, <1>8 DEF IInv, Types

\* A request rests without a claim.
LEMMA ReleaseControl ==
  ASSUME IInv, status \notin Recoverable, status' \notin Recoverable,
         active' = 0, last' >= last, last' \in Nat,
         UNCHANGED <<pc, own>>,
         \A m \in Attempt : /\ state'[m] # "SENDING"
                            /\ state'[m] = "NONE" <=> m > last'
  PROVE  ControlInv'
<1>1. OpenAttempts' = {}
  BY DEF OpenAttempts
<1>2. AttemptInv'
  BY <1>1 DEF AttemptInv
<1>3. ExecutorInv'
  BY DEF IInv, Types, ExecutorTypes, AttemptTypes, ControlInv, ExecutorInv
<1>4. FlightInv'
  BY NobodyFlies DEF FlightInv, InFlight, Recoverable
<1>. QED
  BY <1>2, <1>3, <1>4 DEF ControlInv

\* A person's decision about the group of a target in doubt.
LEMMA DecideStep ==
  ASSUME IInv, NEW e \in Exec, NEW t \in Target,
         NEW result \in {"SUCCEEDED", "NOT_APPLIED"}, Decide(e, t, result)
  PROVE  IInv'
<1>. USE DEF Decide
<1>. DEFINE r == [u \in Target |-> result]
<1>1. /\ status \notin Recoverable
      /\ r \in [Target -> Result] /\ Settle({t}, r) /\ {t} \in SUBSET Target
      /\ last \in Nat /\ last + 1 \in Attempt /\ last + 1 \in 0..MaxAttempt
  BY DEF Recoverable, Result, IInv, Types, AttemptTypes, Attempt
<1>2. /\ \A u \in {t} : ext[u] # "SUCCEEDED"
      /\ \A u \in Target \ {t} : ext[u] # "PENDING"
      /\ \A u \in {t} : r[u] = "NOT_APPLIED" => u \notin unseen'
      /\ unseen' \in SUBSET Target /\ unseen' \subseteq unseen
  BY <1>1 DEF IInv, TargetInv, Types, HistoryTypes, Recoverable
<1>3. \A u \in Target : ext'[u] \in Result
  <2>1. ext'[t] = result /\ \A u \in Target \ {t} : ext'[u] = ext[u]
    BY <1>1, SettleShape DEF IInv, Types
  <2>. QED
    BY <1>2, <2>1 DEF IInv, Types, TargetTypes, External, Result
<1>4. CASE SuccessfulPending(ext', loc') = {}
  <2>1. /\ status' = Derived(ext', loc')
        /\ NoReview
        /\ state' = [AfterExpiry EXCEPT ![last + 1] = "SUCCEEDED"]
        /\ UNCHANGED <<pc, own, ids>>
    BY <1>4
  <2>2. NothingStranded' /\ status' \in Known
    BY <1>3, <2>1, DerivedMoves
  <2>3. /\ state' \in [Attempt -> Ended \cup {"NONE", "SENDING"}]
        /\ state'[last + 1] = "SUCCEEDED"
        /\ \A m \in Attempt \ {last + 1} : state'[m] = AfterExpiry[m]
    BY <1>1, <2>1, ExpiryShape DEF Ended
  <2>4. \A m \in Attempt : /\ state'[m] # "SENDING"
                           /\ state'[m] = "NONE" <=> m > last'
    BY <1>1, <2>3, ExpiryShape DEF IInv, ControlInv, AttemptInv, Attempt
  <2>5. ControlInv'
    BY <1>1, <2>1, <2>2, <2>4, ReleaseControl DEF NoReview, Known
  <2>6. AttemptTypes' /\ ExecutorTypes'
    BY <1>1, <2>1, <2>3 DEF IInv, Types, AttemptTypes, ExecutorTypes, Kind
  <2>7. RequestTypes'
    BY <2>1, <2>2, ReleaseTypes DEF Known
  <2>8. TargetTypes' /\ TargetInv'
    BY <1>1, <1>2, <2>2, SettleInv
  <2>9. NotAppliedWasSeen' /\ CallInv' /\ HistoryTypes'
    BY <1>1, <1>2, <2>1, <2>2, SettleSeen, CallsRest
       DEF IInv, Types, HistoryTypes
  <2>. QED
    BY <2>2, <2>5, <2>6, <2>7, <2>8, <2>9 DEF IInv, Types
<1>5. CASE SuccessfulPending(ext', loc') # {}
  <2>1. /\ state' = [AfterExpiry EXCEPT ![last + 1] = "SENDING"]
        /\ HandsOver(e)
    BY <1>5
  <2>2. status' = "LOCAL_PENDING"
    BY <2>1 DEF HandsOver
  <2>3. NothingStranded' /\ status' \in Known
    BY <1>5, <2>2, HandedMoves
  <2>4. ids' \in [Exec -> SUBSET Target]
    BY <2>1 DEF HandsOver, SuccessfulPending, IInv, Types, ExecutorTypes
  <2>5. Moves(e, "finalizing", last + 1) /\ active' = last + 1
    BY <2>1 DEF HandsOver, Binds
  <2>6. ControlInv' /\ AttemptTypes' /\ ExecutorTypes'
    BY <1>1, <2>1, <2>2, <2>4, <2>5, ClaimStep
       DEF Kind, Resting, Phase
  <2>7. RequestTypes'
    BY <2>1, HandOverTypes
  <2>8. TargetTypes' /\ TargetInv'
    BY <1>1, <1>2, <2>3, SettleInv
  <2>9. \A f \in Exec : pc'[f] = "dispatched" => pc[f] = "dispatched"
    BY <1>1, <2>4, <2>5, MovesShape DEF Phase
  <2>10. NotAppliedWasSeen' /\ CallInv' /\ HistoryTypes'
    BY <1>1, <1>2, <2>3, <2>9, SettleSeen, CallsRest
       DEF IInv, Types, HistoryTypes
  <2>. QED
    BY <2>3, <2>6, <2>7, <2>8, <2>10 DEF IInv, Types
<1>. QED
  BY <1>4, <1>5

LEMMA AnnotateStep ==
  ASSUME IInv, Annotate
  PROVE  IInv'
<1>. USE DEF Annotate, executors
<1>1. status \notin Recoverable /\ status \in Known
  BY DEF Known, Status, Recoverable
<1>2. \A m \in Attempt : /\ state'[m] # "SENDING"
                         /\ state'[m] = "NONE" <=> m > last
  BY <1>1, ExpiryShape DEF IInv, ControlInv, AttemptInv
<1>3. ControlInv'
  BY <1>1, <1>2, ReleaseControl DEF NoReview, IInv, Types, AttemptTypes
<1>4. AttemptTypes' /\ ExecutorTypes'
  BY <1>1, ExpiryShape DEF IInv, Types, AttemptTypes, ExecutorTypes
<1>5. RequestTypes'
  BY <1>1, ReleaseTypes DEF Known
<1>. QED
  BY <1>1, <1>3, <1>4, <1>5, RestStays DEF IInv, Types

-----------------------------------------------------------------------------
(***************************************************************************)
(* Recovery, time and failures.                                            *)
(***************************************************************************)
\* The recovery finds nobody in flight, and calls nothing not applied that
\* may have been called for.
LEMMA RecoverStep ==
  ASSUME IInv, NEW n \in Attempt, Recover(n)
  PROVE  IInv'
<1>. USE DEF Recover, executors, history
<1>1. n \in OpenAttempts /\ \A f \in Exec : ~InFlight(f)'
  BY DEF IInv, ControlInv, FlightInv, InFlight
<1>. DEFINE s == IF NeverDispatched(n) THEN "FAILED" ELSE "AMBIGUOUS"
            r == [t \in Target |-> RecoveredResult(n)]
<1>2. s \in Ended /\ Closes(n, s)
  BY DEF Ended
<1>3. status' \in {"NOT_APPLIED", "REVIEW_REQUIRED"} /\ status' \in Known
  BY DEF Known, Status, Recoverable
<1>4. ControlInv'
  <2>1. state' = [state EXCEPT ![n] = s] /\ last' = last
    BY <1>2 DEF Closes
  <2>2. active' = 0 /\ status' \notin Recoverable
    BY <1>3 DEF Known
  <2>. QED
    BY <1>1, <1>2, <2>1, <2>2, CloseControl
<1>5. AttemptTypes' /\ ExecutorTypes'
  BY <1>2 DEF Closes, IInv, Types, AttemptTypes, ExecutorTypes
<1>6. r \in [Target -> Result] /\ Settle(Unsettled, r) /\ Unsettled = Target
  BY NothingSettled DEF MarkPending, RecoveredResult, Result
<1>7. \A t \in Target : ext[t] # "SUCCEEDED"
  BY NothingSettled
<1>8. TargetTypes' /\ TargetInv'
  BY <1>3, <1>6, <1>7, SettleInv
<1>9. \A t \in Target : ext'[t] = RecoveredResult(n)
  BY <1>6, SettleShape DEF IInv, Types
<1>10. NothingStranded'
  <2>1. CASE NeverDispatched(n)
    BY <1>9, <2>1 DEF NothingStranded, RecoveredResult
  <2>2. CASE ~NeverDispatched(n)
    <3>1. status' = "REVIEW_REQUIRED" /\ \A t \in Target : ext'[t] = "UNKNOWN"
      BY <1>9, <2>2 DEF RecoveredResult
    <3>. QED
      BY <3>1 DEF NothingStranded, Rechecked
  <2>. QED
    BY <2>1, <2>2
<1>11. NotAppliedWasSeen'
  <2>1. CASE NeverDispatched(n)
    <3>1. calls = 0
      BY <1>1, <2>1, Zenon DEF NeverDispatched, IInv, CallInv
    <3>. QED
      BY <3>1 DEF IInv, CallInv, NotAppliedWasSeen
  <2>2. CASE ~NeverDispatched(n)
    BY <1>9, <2>2 DEF RecoveredResult, NotAppliedWasSeen
  <2>. QED
    BY <2>1, <2>2
<1>12. CallInv'
  BY <1>3, CallsRest
<1>13. RequestTypes' /\ HistoryTypes'
  BY <1>3 DEF Touches, IInv, Types, RequestTypes, HistoryTypes, Status
<1>. QED
  BY <1>4, <1>5, <1>8, <1>10, <1>11, <1>12, <1>13 DEF IInv, Types

\* Only stale, held and heartbeat change, and only in a write that nobody
\* calls for does stale become true.
LEMMA TimeStep ==
  ASSUME IInv, UNCHANGED <<status, active, targets, attempts, executors,
                           history>>,
         heartbeat' \in {"none", "live", "lapsed"},
         stale' \in BOOLEAN, held' \in BOOLEAN,
         \A e \in Exec : InFlight(e) => ~stale'
  PROVE  IInv'
<1>. USE DEF targets, attempts, executors, history, IInv
<1>1. RequestTypes'
  BY Zenon DEF Types, RequestTypes
<1>2. TargetTypes' /\ AttemptTypes' /\ ExecutorTypes' /\ HistoryTypes'
  BY DEF Types, TargetTypes, AttemptTypes, ExecutorTypes, HistoryTypes
<1>3. ControlInv'
  BY DEF ControlInv, AttemptInv, ExecutorInv, FlightInv, OpenAttempts,
     InFlight, OwnsAttempt
<1>4. CallInv' /\ TargetInv'
  BY DEF CallInv, OpenAttempts, TargetInv
<1>5. NotAppliedWasSeen' /\ NothingStranded'
  BY DEF NotAppliedWasSeen, NothingStranded, Rechecked, SuccessfulPending
<1>. QED
  BY <1>1, <1>2, <1>3, <1>4, <1>5 DEF Types

\* An executor is gone.
LEMMA GivesUpStep ==
  ASSUME IInv, NEW e \in Exec, GivesUp(e)
  PROVE  IInv'
<1>. USE DEF GivesUp, request, targets, attempts, history
<1>1. /\ ExecutorTypes'
      /\ pc'[e] = "idle" /\ own'[e] = 0
      /\ \A f \in Exec \ {e} : pc'[f] = pc[f] /\ own'[f] = own[f]
  BY StopsShape
<1>2. RequestTypes' /\ TargetTypes' /\ AttemptTypes' /\ HistoryTypes'
  BY DEF IInv, Types, RequestTypes, TargetTypes, AttemptTypes, HistoryTypes
<1>3. AttemptInv'
  BY DEF IInv, ControlInv, AttemptInv, OpenAttempts
<1>4. ExecutorInv' /\ FlightInv'
  BY <1>1 DEF IInv, ControlInv, ExecutorInv, FlightInv, InFlight, OwnsAttempt,
     Types, AttemptTypes
<1>5. CallInv' /\ TargetInv'
  BY <1>1 DEF IInv, CallInv, OpenAttempts, TargetInv
<1>6. NotAppliedWasSeen' /\ NothingStranded'
  BY DEF IInv, NotAppliedWasSeen, NothingStranded, Rechecked,
     SuccessfulPending
<1>. QED
  BY <1>1, <1>2, <1>3, <1>4, <1>5, <1>6 DEF IInv, Types, ControlInv

LEMMA WriteStep ==
  ASSUME IInv, NEW e \in Exec, Write(e)
  PROVE  IInv'
  BY SubmitStep, RejectStep, BeginStep, DispatchStep, CallStep, ConfirmStep,
     NotAppliedStep, AmbiguousStep, DispatchReadStep, VerificationFailsStep,
     SettleVerificationStep
     DEF Write

LEMMA ReviewStep ==
  ASSUME IInv, NEW e \in Exec, Review(e)
  PROVE  IInv'
<1>1. ASSUME ClaimFinalization(e) PROVE IInv'
  BY <1>1, ClaimedStep DEF ClaimFinalization, Kind, Resting, Phase
<1>2. ASSUME ClaimRecheck(e) PROVE IInv'
  BY <1>2, ClaimedStep DEF ClaimRecheck, Kind, Resting, Phase
<1>. QED
  BY <1>1, <1>2, FinalizeStep, FinalizationFailsStep, RecheckFailsStep,
     SettleRecheckStep, DecideStep
     DEF Review

LEMMA NextStep == IInv /\ [Next]_vars => IInv'
<1>. SUFFICES ASSUME IInv, [Next]_vars PROVE IInv'
  OBVIOUS
<1>1. stale \in BOOLEAN /\ held \in BOOLEAN
        /\ heartbeat \in {"none", "live", "lapsed"}
        /\ \A e \in Exec : InFlight(e) => ~stale
  BY DEF IInv, Types, RequestTypes, ControlInv, FlightInv
<1>2. CASE GoesStale
  <2>1. \A e \in Exec : ~InFlight(e)
    BY <1>2 DEF GoesStale, InFlight, IInv, ControlInv, FlightInv
  <2>. QED
    BY <1>1, <1>2, <2>1, TimeStep DEF GoesStale
<1>3. CASE LeaseLapses
  BY <1>1, <1>3, TimeStep DEF LeaseLapses
<1>4. CASE WorkerRunEnds
  BY <1>1, <1>4, TimeStep DEF WorkerRunEnds
<1>5. CASE UNCHANGED vars
  BY <1>1, <1>5, TimeStep DEF vars, request
<1>. QED
  BY <1>2, <1>3, <1>4, <1>5, WriteStep, ReviewStep, GivesUpStep, AnnotateStep,
     RecoverStep
     DEF Next

\* The inductive invariant of a write holds in every behaviour.
THEOREM Inductive == Spec => []IInv
  BY InitIInv, NextStep, PTL DEF Spec

THEOREM TypeCorrect == Spec => []TypeOK
<1>1. IInv => TypeOK
  BY DEF IInv, Types, RequestTypes, TargetTypes, AttemptTypes, ExecutorTypes,
     HistoryTypes, TypeOK, Status
<1>. QED
  BY <1>1, Inductive, PTL

\* createSalesChannelWriteAttempt, the transfers and the claims leave one
\* attempt open at most, and it is the one that the request's row speaks of.
THEOREM OneOpenAttemptAlways == Spec => []OneOpenAttempt
<1>1. IInv => OneOpenAttempt
  BY DEF IInv, ControlInv, AttemptInv, OneOpenAttempt
<1>. QED
  BY <1>1, Inductive, PTL

\* A submission calls the channel once at most: the intent to call is
\* committed under an attempt that only one executor has.
THEOREM CalledOnceAlways == Spec => []CalledOnce
<1>1. IInv => CalledOnce
  BY DEF IInv, CallInv, CalledOnce
<1>. QED
  BY <1>1, Inductive, PTL

\* The recovery, the reads and the decisions call nothing not applied that
\* nobody saw, unless an answer broke off.
THEOREM NotAppliedWasSeenAlways == Spec => []NotAppliedWasSeen
<1>1. IInv => NotAppliedWasSeen
  BY DEF IInv
<1>. QED
  BY <1>1, Inductive, PTL

\* deriveSalesChannelWriteRequestStatus and the recovery leave something to
\* do in every status that waits for it.
THEOREM NothingStrandedAlways == Spec => []NothingStranded
<1>1. IInv => NothingStranded
  BY DEF IInv
<1>. QED
  BY <1>1, Inductive, PTL

\* The claim on the request and the targets' local status keep a second
\* finalization out.
THEOREM FinalizedOnceAlways == Spec => []FinalizedOnce
<1>1. IInv => FinalizedOnce
  BY DEF IInv, TargetInv, FinalizedOnce
<1>. QED
  BY <1>1, Inductive, PTL

\* What a step writes to the states of the attempts that have one.
LEMMA FinalStep ==
  ASSUME IInv, [Next]_vars, NEW n \in Attempt, state[n] \in Ended
  PROVE  state'[n] = state[n]
<1>1. /\ state[n] # "SENDING" /\ n # last + 1
      /\ state = [m \in Attempt |-> state[m]]
  BY DEF IInv, Types, AttemptTypes, ControlInv, AttemptInv, Ended, Attempt
<1>2. ASSUME NEW e \in Exec, pc[e] # "idle", NEW s, NEW k, NEW d,
             OwnsAttempt(e, s, k, d)
      PROVE  own[e] # n
  BY <1>1, <1>2, OwnsOpen DEF OpenAttempts
<1>3. ASSUME NEW e \in Exec, pc[e] # "idle", NEW s, HoldsReview(e, s)
      PROVE  own[e] # n
  BY <1>1, <1>3, HoldsOpen DEF OpenAttempts
<1>4. /\ AfterExpiry[n] = state[n]
      /\ AfterExpiry = [m \in Attempt |-> AfterExpiry[m]]
  BY <1>1 DEF AfterExpiry, ExpiredState
<1>5. ASSUME NEW e \in Exec, Write(e) PROVE state'[n] = state[n]
  BY <1>1, <1>2, <1>5
     DEF Write, Submit, Reject, Begin, Dispatch, Call, ConfirmResponse,
         NotApplied, Ambiguous, DispatchRead, VerificationFails,
         SettleVerification, Opens, Closes, Transfers, attempts
<1>6. ASSUME NEW e \in Exec, Review(e) PROVE state'[n] = state[n]
  BY <1>1, <1>3, <1>4, <1>6
     DEF Review, ClaimFinalization, Finalize, FinalizationFails, ClaimRecheck,
         RecheckFails, SettleRecheck, Decide, Claims, Closes, Transfers
<1>7. ASSUME NEW m \in Attempt, Recover(m) PROVE state'[n] = state[n]
  BY <1>1, <1>7 DEF Recover, OpenAttempts, Closes
<1>8. CASE Annotate
  BY <1>4, <1>8 DEF Annotate
<1>9. ASSUME NEW e \in Exec, GivesUp(e) PROVE state'[n] = state[n]
  BY <1>9 DEF GivesUp, attempts
<1>10. CASE GoesStale \/ LeaseLapses \/ WorkerRunEnds \/ UNCHANGED vars
  BY <1>10 DEF GoesStale, LeaseLapses, WorkerRunEnds, vars, attempts
<1>. QED
  BY <1>5, <1>6, <1>7, <1>8, <1>9, <1>10 DEF Next

\* The ownership that every settlement compares keeps an executor that lost
\* its request from an attempt that ended.
THEOREM EndedAttemptIsFinalAlways == Spec => EndedAttemptIsFinal
<1>1. IInv /\ [Next]_vars
        => [\A n \in Attempt :
              state[n] \in Ended => state'[n] = state[n]]_vars
  BY FinalStep
<1>. QED
  BY <1>1, Inductive, PTL DEF Spec, EndedAttemptIsFinal
=============================================================================
