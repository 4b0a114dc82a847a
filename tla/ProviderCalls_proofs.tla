------------------------ MODULE ProviderCalls_proofs ------------------------
(***************************************************************************)
(* Proofs about the calls of providers: what IntegrationCommand promises   *)
(* of a command holds for any executors and any number of attempts, what   *)
(* WriteCircuit promises of an endpoint for any number of writes and       *)
(* persons, and what DeliveryTracking promises of a device for any groups, *)
(* invoices, events and executions of the tracking worker.                 *)
(***************************************************************************)
EXTENDS IntegrationCommand, WriteCircuit, DeliveryTracking, FiniteSetTheorems,
        SequenceTheorems, TLAPS

-----------------------------------------------------------------------------
(* Integration commands.                                                     *)

USE CommandAssumption DEF CommandAssumption

Dispatch == {"CREATED", "DISPATCHED", "RESPONSE_RECEIVED", "CONNECTION_LOST",
             "FAILED_LOCAL"}
Sent == {"DISPATCHED", "RESPONSE_RECEIVED", "CONNECTION_LOST"}
Phase == {"idle", "claimed", "dispatching", "answered"}
Status == {"NONE", "PENDING", "DISPATCHING", "FAILED_LOCAL"} \cup Outcome

Count == Len(cmdAttempts)
Latest == cmdAttempts[Count]

\* The types of the row, and of what the executors hold.
RowTypes ==
  /\ cmdStatus \in Status
  /\ owner \in Executor \cup {Nobody}
  /\ cmdStatus = "DISPATCHING" <=> owner \in Executor
  /\ leased \in BOOLEAN
  /\ leased => cmdStatus = "DISPATCHING"
  /\ cmdAttempts \in Seq(Dispatch)
  /\ Count <= MaxAttempts

ExecutorTypes ==
  /\ cmdPc \in [Executor -> Phase]
  /\ mine \in [Executor -> 0..MaxAttempts]
  /\ answer \in [Executor -> [outcome : Outcome, received : BOOLEAN]]
  /\ cmdCalls \in {0, 1}
  /\ applied \in BOOLEAN

Types == RowTypes /\ ExecutorTypes

\* The status of a command tells that of its latest attempt.
LatestInv ==
  /\ cmdStatus = "NONE" => Count = 0
  /\ cmdStatus = "PENDING" => Count = 0 \/ Latest = "FAILED_LOCAL"
  /\ cmdStatus = "DISPATCHING" =>
       Count > 0 /\ Latest \in {"CREATED", "DISPATCHED"}
  /\ cmdStatus = "FAILED_LOCAL" => Count > 0 /\ Latest = "FAILED_LOCAL"
  /\ cmdStatus \in Outcome =>
       Count > 0 /\ Latest \in {"RESPONSE_RECEIVED", "CONNECTION_LOST"}

InFlight(e) == cmdPc[e] \in {"dispatching", "answered"}

\* An executor that works has an attempt, the latest one if it owns the
\* command or was allowed to call; only one executor ever is.
ExecutorInv ==
  /\ \A e \in Executor : cmdPc[e] # "idle" =>
       /\ mine[e] \in 1..Count
       /\ owner = e => mine[e] = Count
  /\ \A e \in Executor : InFlight(e) =>
       mine[e] = Count /\ Latest \in Sent
  /\ \A e, f \in Executor : InFlight(e) /\ InFlight(f) => e = f

\* Before the call nothing is applied; after it the latest attempt is sent,
\* and the executor that made it knows what the provider did.
CallInv ==
  /\ cmdCalls = 1 => Count > 0 /\ Latest \in Sent
  /\ cmdCalls = 0 => ~applied
  /\ \A e \in Executor : cmdPc[e] = "dispatching" => cmdCalls = 0
  /\ \A e \in Executor : cmdPc[e] = "answered" =>
       /\ cmdCalls = 1
       /\ answer[e].outcome = "SUCCEEDED" => applied
       /\ answer[e].outcome = "NOT_APPLIED" => ~applied
  /\ cmdStatus = "SUCCEEDED" => cmdCalls = 1 /\ applied
  /\ cmdStatus = "NOT_APPLIED" => cmdCalls = 1 /\ ~applied

Open == cmdStatus \in {"NONE", "PENDING", "DISPATCHING"}

\* The only evidence of a command that ended is that of its latest attempt.
EvidenceInv ==
  /\ Open => evidence = {}
  /\ ~Open => evidence = {[attempt |-> Count, outcome |-> cmdStatus,
                           nth |-> 1]}

CommandInv == Types /\ LatestInv /\ ExecutorInv /\ CallInv /\ EvidenceInv

-----------------------------------------------------------------------------
LEMMA CommandInitInv == CommandInit => CommandInv
<1>. SUFFICES ASSUME CommandInit PROVE CommandInv
  OBVIOUS
<1>1. cmdAttempts \in Seq(Dispatch) /\ Count = 0
  BY EmptySeq DEF CommandInit, Count
<1>2. RowTypes
  <2>1. cmdStatus \in Status /\ owner \notin Executor /\ Count <= MaxAttempts
    BY <1>1 DEF CommandInit, Status
  <2>2. leased = FALSE /\ cmdStatus # "DISPATCHING" /\ owner = Nobody
    BY DEF CommandInit
  <2>. QED
    BY <1>1, <2>1, <2>2, Zenon DEF RowTypes
<1>3. ExecutorTypes
  <2>1. answer \in [Executor -> [outcome : Outcome, received : BOOLEAN]]
    BY DEF CommandInit, NoAnswer, Outcome
  <2>2. mine \in [Executor -> 0..MaxAttempts] /\ cmdCalls \in {0, 1}
    BY DEF CommandInit
  <2>3. cmdPc \in [Executor -> Phase]
    BY DEF CommandInit, Phase
  <2>4. applied \in BOOLEAN
    BY DEF CommandInit
  <2>. QED
    BY <2>1, <2>2, <2>3, <2>4 DEF ExecutorTypes
<1>4. LatestInv /\ ExecutorInv /\ CallInv
  BY <1>1 DEF CommandInit, LatestInv, ExecutorInv, CallInv, InFlight, Outcome
<1>. QED
  BY <1>2, <1>3, <1>4 DEF CommandInit, CommandInv, Types, EvidenceInv, Open

\* A change of the latest attempt changes nothing else of the attempts.
LEMMA LatestChanges ==
  ASSUME cmdAttempts \in Seq(Dispatch), Count > 0, NEW d \in Dispatch,
         cmdAttempts' = [cmdAttempts EXCEPT ![Count] = d]
  PROVE  cmdAttempts' \in Seq(Dispatch) /\ Count' = Count /\ Latest' = d
<1>1. Count \in 1..Len(cmdAttempts)
  BY LenProperties, SMT DEF Count
<1>. DEFINE s == [cmdAttempts EXCEPT ![Count] = d]
<1>2. s \in Seq(Dispatch) /\ Len(s) = Len(cmdAttempts) /\ s[Count] = d
  BY <1>1, ExceptSeq
<1>. QED
  BY <1>2 DEF Count, Latest

\* The claim adds an attempt that is created.
LEMMA LatestCreated ==
  ASSUME cmdAttempts \in Seq(Dispatch),
         cmdAttempts' = Append(cmdAttempts, "CREATED")
  PROVE  /\ cmdAttempts' \in Seq(Dispatch)
         /\ Count' = Count + 1
         /\ Latest' = "CREATED"
<1>1. "CREATED" \in Dispatch
  BY DEF Dispatch
<1>. QED
  BY <1>1, AppendProperties DEF Count, Latest

LEMMA CountIsNat == cmdAttempts \in Seq(Dispatch) => Count \in Nat
  BY LenProperties DEF Count

\* The evidence with which an open command ends is its only one.
LEMMA FirstEvidence ==
  ASSUME evidence = {}, NEW o, NEW n, NEW d, Ends(o, n, d)
  PROVE  evidence' = {[attempt |-> n, outcome |-> o, nth |-> 1]}
<1>1. Cardinality(evidence) + 1 = 1
  BY FS_EmptySet
<1>. QED
  BY <1>1 DEF Ends

-----------------------------------------------------------------------------
\* A registration.
LEMMA RegisterStep == CommandInv /\ Register => CommandInv'
  BY DEF Register, CommandInv, Types, RowTypes, ExecutorTypes, LatestInv,
     ExecutorInv, CallInv, EvidenceInv, Open, InFlight, Count, Latest, Status,
     Outcome, provider

\* A claim finds no executor in flight: the command was not sent.
LEMMA ClaimStep ==
  ASSUME CommandInv, NEW e \in Executor, Claim(e)
  PROVE  CommandInv'
<1>. USE DEF CommandInv, Types, RowTypes, ExecutorTypes, provider
<1>1. /\ cmdAttempts' \in Seq(Dispatch)
      /\ Count \in Nat /\ Count' = Count + 1 /\ Count' <= MaxAttempts
      /\ Latest' = "CREATED"
  <2>1. Count < MaxAttempts
    BY DEF Claim, Count
  <2>. QED
    BY <2>1, LatestCreated, CountIsNat, SMT DEF Claim
<1>2. ~(Count > 0 /\ Latest \in Sent)
  BY <1>1 DEF Claim, LatestInv, Sent
<1>3. \A f \in Executor : ~InFlight(f)
  <2>1. ASSUME NEW f \in Executor, InFlight(f) PROVE FALSE
    <3>1. mine[f] \in 1..Count /\ mine[f] = Count /\ Latest \in Sent
      BY <2>1 DEF ExecutorInv, InFlight
    <3>2. Count > 0
      BY <3>1, <1>1
    <3>. QED
      BY <3>1, <3>2, <1>2
  <2>. QED
    BY <2>1
<1>4. cmdCalls = 0
  BY <1>2 DEF CallInv
<1>5. mine'[e] = Count' /\ \A f \in Executor \ {e} : mine'[f] = mine[f]
  BY <1>1 DEF Claim, Count
<1>6. cmdPc'[e] = "claimed" /\ \A f \in Executor \ {e} : cmdPc'[f] = cmdPc[f]
  BY DEF Claim
<1>7. \A f \in Executor : ~InFlight(f)'
  BY <1>3, <1>6 DEF InFlight
<1>8. Types'
  BY <1>1, <1>5, <1>6 DEF Claim, Phase, Status, Count
<1>9. LatestInv'
  BY <1>1 DEF Claim, LatestInv, Outcome
<1>10. ExecutorInv'
  <2>1. ASSUME NEW f \in Executor, cmdPc'[f] # "idle"
        PROVE  mine'[f] \in 1..Count' /\ (owner' = f => mine'[f] = Count')
    <3>1. CASE f = e
      BY <3>1, <1>1, <1>5
    <3>2. CASE f # e
      BY <3>2, <2>1, <1>1, <1>5, <1>6 DEF Claim, ExecutorInv
    <3>. QED
      BY <3>1, <3>2
  <2>. QED
    BY <2>1, <1>7 DEF ExecutorInv
<1>11. CallInv'
  BY <1>4, <1>7 DEF Claim, CallInv, InFlight
<1>12. EvidenceInv'
  BY DEF Claim, EvidenceInv, Open
<1>. QED
  BY <1>8, <1>9, <1>10, <1>11, <1>12

\* The end of an executor, with nothing else, or with a command that ends.
LEMMA RetireStep ==
  ASSUME CommandInv, NEW e \in Executor, Retires(e),
         UNCHANGED <<command, provider>>
  PROVE  CommandInv'
  BY DEF Retires, CommandInv, Types, RowTypes, ExecutorTypes, LatestInv,
     ExecutorInv, CallInv, EvidenceInv, Open, InFlight, Count, Latest, Status,
     Outcome, Phase, NoAnswer, command, provider

\* A command that ends gives its lease up and has its evidence; whoever
\* ended it must only tell what the provider did.
LEMMA EndStep ==
  ASSUME Types, LatestInv, EvidenceInv, cmdStatus = "DISPATCHING",
         NEW o \in {"FAILED_LOCAL"} \cup Outcome, NEW d \in Dispatch,
         Ends(o, Count, d),
         o = "FAILED_LOCAL" => d = "FAILED_LOCAL",
         o \in Outcome => d \in {"RESPONSE_RECEIVED", "CONNECTION_LOST"}
  PROVE  /\ RowTypes'
         /\ LatestInv'
         /\ EvidenceInv'
         /\ Count' = Count
         /\ Latest' = d
<1>. USE DEF Types, RowTypes
<1>1. Count > 0 /\ Count \in Nat
  BY CountIsNat DEF LatestInv
<1>2. cmdAttempts' \in Seq(Dispatch) /\ Count' = Count /\ Latest' = d
  BY <1>1, LatestChanges DEF Ends
<1>3. cmdStatus' = o /\ owner' = Nobody /\ leased' = FALSE
  BY DEF Ends, Released
<1>4. o \notin {"NONE", "PENDING", "DISPATCHING"}
  BY DEF Outcome
<1>5. evidence = {}
  BY DEF EvidenceInv, Open
<1>6. evidence' = {[attempt |-> Count, outcome |-> o, nth |-> 1]}
  BY <1>5, FirstEvidence
<1>7. EvidenceInv'
  BY <1>2, <1>3, <1>4, <1>6 DEF EvidenceInv, Open
<1>8. RowTypes'
  BY <1>2, <1>3, <1>4 DEF Status
<1>9. LatestInv'
  BY <1>1, <1>2, <1>3, <1>4 DEF LatestInv, Outcome
<1>. QED
  BY <1>2, <1>7, <1>8, <1>9
\* What an executor has when it retires.
LEMMA RetireTypes ==
  ASSUME ExecutorTypes, NEW e \in Executor, Retires(e), UNCHANGED provider
  PROVE  ExecutorTypes'
<1>1. NoAnswer \in [outcome : Outcome, received : BOOLEAN]
  BY DEF NoAnswer, Outcome
<1>2. answer' \in [Executor -> [outcome : Outcome, received : BOOLEAN]]
  BY <1>1 DEF Retires, ExecutorTypes
<1>3. mine' \in [Executor -> 0..MaxAttempts] /\ cmdPc' \in [Executor -> Phase]
  BY DEF Retires, ExecutorTypes, Phase
<1>4. cmdCalls' \in {0, 1} /\ applied' \in BOOLEAN
  BY DEF provider, ExecutorTypes
<1>. QED
  BY <1>2, <1>3, <1>4 DEF ExecutorTypes

\* A command that was not sent fails before its dispatch.
LEMMA FailStep ==
  ASSUME CommandInv, NEW e \in Executor, FailBeforeDispatch(e)
  PROVE  CommandInv'
<1>1. CASE ~Created(e)
  BY <1>1, RetireStep DEF FailBeforeDispatch
<1>2. CASE Created(e)
  <2>. USE <1>2 DEF CommandInv, FailBeforeDispatch
  <2>1. mine[e] = Count /\ Latest = "CREATED" /\ cmdStatus = "DISPATCHING"
    BY DEF Created, Owned, ExecutorInv, Latest
  <2>2. Ends("FAILED_LOCAL", Count, "FAILED_LOCAL")
    BY <2>1
  <2>3. RowTypes' /\ LatestInv' /\ EvidenceInv' /\ Count' = Count
    BY <2>1, <2>2, EndStep DEF Dispatch, Outcome
  <2>4. ~(Latest \in Sent)
    BY <2>1 DEF Sent
  <2>5. cmdCalls = 0 /\ \A f \in Executor : ~InFlight(f)
    BY <2>4 DEF CallInv, ExecutorInv, Types, ExecutorTypes
  <2>6. \A f \in Executor : cmdPc'[f] = "idle" \/ cmdPc'[f] = cmdPc[f]
    BY DEF Retires, Types, ExecutorTypes
  <2>7. \A f \in Executor : ~InFlight(f)'
    BY <2>5, <2>6 DEF InFlight
  <2>8. owner' = Nobody /\ cmdStatus' = "FAILED_LOCAL"
    BY <2>2 DEF Ends, Released
  <2>9. CallInv'
    BY <2>5, <2>7, <2>8 DEF CallInv, InFlight, provider
  <2>10. \A f \in Executor : cmdPc'[f] # "idle" =>
           cmdPc[f] # "idle" /\ mine'[f] = mine[f]
    BY DEF Retires, Types, ExecutorTypes
  <2>11. ExecutorInv'
    BY <2>3, <2>7, <2>8, <2>10 DEF ExecutorInv
  <2>. QED
    BY <2>3, <2>9, <2>11, RetireTypes DEF Types
<1>. QED
  BY <1>1, <1>2

\* The one executor that may call finds nobody in flight.
LEMMA MarkStep ==
  ASSUME CommandInv, NEW e \in Executor, MarkDispatched(e)
  PROVE  CommandInv'
<1>1. CASE ~MayDispatch(e)
  BY <1>1, RetireStep DEF MarkDispatched, command, provider
<1>2. CASE MayDispatch(e)
  <2>. USE <1>2 DEF CommandInv, MarkDispatched, MayDispatch
  <2>1. mine[e] = Count /\ Latest = "CREATED" /\ cmdStatus = "DISPATCHING"
    BY DEF Created, Owned, ExecutorInv, Latest
  <2>2. Count > 0 /\ Count \in Nat
    BY <2>1, CountIsNat DEF LatestInv, Types, RowTypes
  <2>3. cmdAttempts' \in Seq(Dispatch) /\ Count' = Count
          /\ Latest' = "DISPATCHED"
    BY <2>1, <2>2, LatestChanges DEF Types, RowTypes, Dispatch
  <2>4. cmdCalls = 0 /\ \A f \in Executor : ~InFlight(f)
    BY <2>1 DEF CallInv, ExecutorInv, Types, ExecutorTypes, Sent
  <2>5. /\ cmdPc'[e] = "dispatching"
        /\ \A f \in Executor \ {e} : cmdPc'[f] = cmdPc[f]
    BY DEF Advances, Types, ExecutorTypes
  <2>6. UNCHANGED <<cmdStatus, owner, leased, evidence, mine, answer, cmdCalls,
                    applied>>
    BY DEF Advances, provider
  <2>7. RowTypes' /\ ExecutorTypes'
    <3>1. RowTypes'
      BY <2>3, <2>6 DEF Types, RowTypes
    <3>2. ExecutorTypes'
      BY <2>6 DEF Types, ExecutorTypes, Advances, Phase
    <3>. QED
      BY <3>1, <3>2
  <2>8. LatestInv' /\ EvidenceInv'
    BY <2>1, <2>2, <2>3, <2>6 DEF LatestInv, EvidenceInv, Open, Outcome
  <2>9. ExecutorInv'
    <3>1. \A f \in Executor : cmdPc'[f] # "idle" =>
            mine'[f] \in 1..Count' /\ (owner' = f => mine'[f] = Count')
      BY <2>1, <2>2, <2>3, <2>5, <2>6 DEF ExecutorInv
    <3>2. \A f \in Executor : InFlight(f)' => f = e
      BY <2>4, <2>5 DEF InFlight
    <3>. QED
      BY <2>1, <2>3, <2>6, <3>1, <3>2 DEF ExecutorInv, Sent
  <2>10. CallInv'
    BY <2>1, <2>4, <2>5, <2>6 DEF CallInv, InFlight
  <2>. QED
    BY <2>7, <2>8, <2>9, <2>10 DEF Types
<1>. QED
  BY <1>1, <1>2
\* The call is the first one, and nobody else waits to make another.
LEMMA CallStep ==
  ASSUME CommandInv, NEW e \in Executor, DispatchCommand(e)
  PROVE  CommandInv'
<1>. USE DEF CommandInv, DispatchCommand
<1>1. cmdCalls = 0 /\ ~applied /\ InFlight(e)
  BY DEF CallInv, InFlight
<1>2. cmdCalls' = 1
  BY <1>1
<1>3. UNCHANGED <<cmdStatus, owner, leased, cmdAttempts, evidence, mine>>
  BY DEF command
<1>4. /\ cmdPc'[e] = "answered"
      /\ \A f \in Executor \ {e} : cmdPc'[f] = cmdPc[f]
  BY DEF Types, ExecutorTypes
<1>5. /\ answer'[e] \in [outcome : Outcome, received : BOOLEAN]
      /\ answer'[e].outcome = "SUCCEEDED" => applied'
      /\ answer'[e].outcome = "NOT_APPLIED" => ~applied'
      /\ applied' \in BOOLEAN
      /\ answer' = [answer EXCEPT ![e] = answer'[e]]
  <2>1. PICK done \in BOOLEAN, received \in BOOLEAN, clear \in BOOLEAN :
          /\ applied' = (applied \/ done)
          /\ answer' = [answer EXCEPT ![e] =
               [received |-> received,
                outcome |-> IF ~clear THEN "AMBIGUOUS"
                            ELSE IF done THEN "SUCCEEDED"
                            ELSE "NOT_APPLIED"]]
    BY DEF DispatchCommand
  <2>2. answer'[e] = [received |-> received,
                      outcome |-> IF ~clear THEN "AMBIGUOUS"
                                  ELSE IF done THEN "SUCCEEDED"
                                  ELSE "NOT_APPLIED"]
    BY <2>1 DEF Types, ExecutorTypes
  <2>3. applied' = done
    BY <1>1, <2>1, Zenon DEF Types, ExecutorTypes
  <2>4. answer'[e] \in [outcome : Outcome, received : BOOLEAN]
    BY <2>2 DEF Outcome
  <2>5. answer'[e].outcome = IF ~clear THEN "AMBIGUOUS"
                             ELSE IF done THEN "SUCCEEDED" ELSE "NOT_APPLIED"
    BY <2>2
  <2>6. answer'[e].outcome = "SUCCEEDED" => done
    BY <2>5
  <2>7. answer'[e].outcome = "NOT_APPLIED" => ~done
    BY <2>5
  <2>8. answer' = [answer EXCEPT ![e] = answer'[e]]
    BY <2>1, <2>2
  <2>. QED
    BY <2>3, <2>4, <2>6, <2>7, <2>8, Zenon
<1>6. Types'
  <2>1. RowTypes'
    BY <1>3 DEF Types, RowTypes, Count
  <2>2. ExecutorTypes'
    BY <1>2, <1>3, <1>5 DEF Types, ExecutorTypes, Phase
  <2>. QED
    BY <2>1, <2>2 DEF Types
<1>7. LatestInv' /\ EvidenceInv'
  BY <1>3 DEF LatestInv, EvidenceInv, Open, Count, Latest
<1>8. \A f \in Executor : f # e => ~InFlight(f) /\ ~InFlight(f)'
  BY <1>1, <1>4 DEF ExecutorInv, InFlight
<1>9. ExecutorInv'
  BY <1>1, <1>3, <1>4, <1>8 DEF ExecutorInv, InFlight, Count, Latest
<1>10. Count > 0 /\ Latest \in Sent
  <2>1. mine[e] \in 1..Count /\ mine[e] = Count /\ Latest \in Sent
    BY <1>1 DEF ExecutorInv, InFlight
  <2>. QED
    BY <2>1, CountIsNat DEF Types, RowTypes
<1>11. cmdStatus \notin {"SUCCEEDED", "NOT_APPLIED"}
  BY <1>1 DEF CallInv
<1>12. CallInv'
  <2>1. \A f \in Executor : cmdPc'[f] # "dispatching"
    BY <1>4, <1>8 DEF InFlight
  <2>2. \A f \in Executor : cmdPc'[f] = "answered" => f = e
    BY <1>8 DEF InFlight
  <2>3. cmdCalls' = 1 => Count' > 0 /\ Latest' \in Sent
    BY <1>3, <1>10 DEF Count, Latest
  <2>. QED
    BY <1>2, <1>3, <1>5, <1>11, <2>1, <2>2, <2>3 DEF CallInv
<1>. QED
  BY <1>6, <1>7, <1>9, <1>12

\* The answer becomes the evidence, unless the command was lost meanwhile.
LEMMA FinalizeStep ==
  ASSUME CommandInv, NEW e \in Executor, FinalizeCommand(e)
  PROVE  CommandInv'
<1>1. CASE ~MayFinalize(e)
  BY <1>1, RetireStep DEF FinalizeCommand
<1>2. CASE MayFinalize(e)
  <2>. USE <1>2 DEF CommandInv, FinalizeCommand, MayFinalize
  <2>. DEFINE o == answer[e].outcome
              d == IF answer[e].received THEN "RESPONSE_RECEIVED"
                                         ELSE "CONNECTION_LOST"
  <2>1. /\ InFlight(e) /\ mine[e] = Count /\ cmdStatus = "DISPATCHING"
        /\ o \in Outcome
    BY DEF Owned, ExecutorInv, InFlight, Types, ExecutorTypes
  <2>2. d \in {"RESPONSE_RECEIVED", "CONNECTION_LOST"}
    OBVIOUS
  <2>3. Ends(o, Count, d)
    BY <2>1
  <2>4. o # "FAILED_LOCAL"
    BY <2>1 DEF Outcome
  <2>5. RowTypes' /\ LatestInv' /\ EvidenceInv' /\ Count' = Count
          /\ Latest' = d
    <3>. HIDE DEF o, d
    <3>. QED
      BY <2>1, <2>2, <2>3, <2>4, EndStep DEF Dispatch
  <2>6. /\ cmdPc'[e] = "idle"
        /\ \A f \in Executor \ {e} : cmdPc'[f] = cmdPc[f]
        /\ \A f \in Executor \ {e} : mine'[f] = mine[f]
    BY DEF Retires, Types, ExecutorTypes
  <2>7. \A f \in Executor : ~InFlight(f)'
    BY <2>1, <2>6 DEF ExecutorInv, InFlight
  <2>8. owner' = Nobody /\ cmdStatus' = o
    BY <2>3 DEF Ends, Released
  <2>9. ExecutorInv'
    BY <2>5, <2>6, <2>7, <2>8 DEF ExecutorInv
  <2>10. CallInv'
    <3>1. cmdCalls = 1 /\ (o = "SUCCEEDED" => applied)
            /\ (o = "NOT_APPLIED" => ~applied)
      BY <2>1 DEF CallInv
    <3>2. Count > 0 /\ d \in Sent
      BY <2>1, <2>2 DEF LatestInv, Sent
    <3>. QED
      BY <2>5, <2>7, <2>8, <3>1, <3>2 DEF CallInv, InFlight, provider
  <2>. QED
    BY <2>5, <2>9, <2>10, RetireTypes DEF Types
<1>. QED
  BY <1>1, <1>2

\* The lease's end takes nothing from its owner yet.
LEMMA LapseStep == CommandInv /\ CommandLeaseLapses => CommandInv'
<1>. SUFFICES ASSUME CommandInv, CommandLeaseLapses PROVE CommandInv'
  OBVIOUS
<1>. USE DEF CommandInv
<1>1. /\ UNCHANGED <<cmdStatus, owner, cmdAttempts, evidence, cmdPc, mine,
                     answer, cmdCalls, applied>>
      /\ leased' = FALSE
  BY DEF CommandLeaseLapses, provider
<1>2. Types'
  BY <1>1, Zenon DEF Types, RowTypes, ExecutorTypes, Count
<1>. QED
  BY <1>1, <1>2 DEF LatestInv, ExecutorInv, CallInv, EvidenceInv, Open,
     InFlight, Count, Latest

\* The recovery takes the command from an executor that may still work.
LEMMA RecoverStep ==
  ASSUME CommandInv, RecoverCommand
  PROVE  CommandInv'
<1>. USE DEF CommandInv, RecoverCommand
<1>1. Count > 0 /\ Count \in Nat
  BY CountIsNat DEF LatestInv, Types, RowTypes
<1>2. Latest \in {"CREATED", "DISPATCHED"} /\ cmdStatus = "DISPATCHING"
  BY DEF LatestInv
<1>3. UNCHANGED <<cmdPc, mine, answer, cmdCalls, applied>>
  BY DEF provider
<1>4. ExecutorTypes'
  BY <1>3 DEF Types, ExecutorTypes
<1>5. CASE Latest = "CREATED"
  <2>1. /\ cmdStatus' = "PENDING"
        /\ Released
        /\ cmdAttempts' = [cmdAttempts EXCEPT ![Count] = "FAILED_LOCAL"]
        /\ UNCHANGED evidence
    BY <1>5 DEF Undispatched, Latest, Count
  <2>2. cmdAttempts' \in Seq(Dispatch) /\ Count' = Count
          /\ Latest' = "FAILED_LOCAL"
    BY <1>1, <2>1, LatestChanges DEF Types, RowTypes, Dispatch
  <2>3. owner' = Nobody /\ leased' = FALSE
    BY <2>1 DEF Released
  <2>4. RowTypes'
    BY <2>1, <2>2, <2>3 DEF Types, RowTypes, Status
  <2>5. cmdCalls = 0 /\ \A f \in Executor : ~InFlight(f)
    BY <1>5 DEF CallInv, ExecutorInv, Sent, Types, ExecutorTypes
  <2>6. LatestInv' /\ EvidenceInv'
    BY <1>2, <2>1, <2>2 DEF LatestInv, EvidenceInv, Open, Outcome
  <2>7. ExecutorInv'
    BY <1>3, <2>2, <2>3, <2>5 DEF ExecutorInv, InFlight
  <2>8. CallInv'
    BY <1>3, <2>1, <2>5 DEF CallInv, InFlight
  <2>. QED
    BY <1>4, <2>4, <2>6, <2>7, <2>8 DEF Types
<1>6. CASE Latest = "DISPATCHED"
  <2>1. Ends("AMBIGUOUS", Count, "CONNECTION_LOST")
    BY <1>6 DEF Undispatched, Latest, Count
  <2>2. RowTypes' /\ LatestInv' /\ EvidenceInv' /\ Count' = Count
          /\ Latest' = "CONNECTION_LOST"
    BY <1>2, <2>1, EndStep DEF Dispatch, Outcome
  <2>3. owner' = Nobody /\ cmdStatus' = "AMBIGUOUS"
    BY <2>1 DEF Ends, Released
  <2>4. ExecutorInv'
    BY <1>3, <2>2, <2>3 DEF ExecutorInv, InFlight, Sent
  <2>5. CallInv'
    BY <1>1, <1>3, <2>2, <2>3 DEF CallInv, Sent
  <2>. QED
    BY <1>4, <2>2, <2>4, <2>5 DEF Types
<1>. QED
  BY <1>2, <1>5, <1>6

\* A step that changes nothing.
LEMMA StutterStep == CommandInv /\ UNCHANGED cmdVars => CommandInv'
  BY DEF cmdVars, command, provider, CommandInv, Types, RowTypes,
     ExecutorTypes, LatestInv, ExecutorInv, CallInv, EvidenceInv, Open,
     InFlight, Count, Latest

LEMMA NextStep == CommandInv /\ [CommandNext]_cmdVars => CommandInv'
<1>. SUFFICES ASSUME CommandInv, [CommandNext]_cmdVars PROVE CommandInv'
  OBVIOUS
<1>1. ASSUME NEW e \in Executor, Execute(e) PROVE CommandInv'
  <2>1. ASSUME Crash(e) PROVE CommandInv'
    BY <2>1, RetireStep DEF Crash
  <2>. QED
    BY <1>1, <2>1, ClaimStep, FailStep, MarkStep, CallStep, FinalizeStep
       DEF Execute
<1>. QED
  BY <1>1, RegisterStep, LapseStep, RecoverStep, StutterStep DEF CommandNext

\* The inductive invariant of a command holds in every behaviour.
THEOREM CommandInductive == CommandSpec => []CommandInv
  BY CommandInitInv, NextStep, PTL DEF CommandSpec

\* A command has a lease token exactly while it is dispatching, and its
\* evidence is of one of its attempts.
THEOREM CommandTypeOKAlways == CommandSpec => []CommandTypeOK
<1>1. ASSUME CommandInv PROVE CommandTypeOK
  <2>. USE <1>1 DEF CommandInv, Types, RowTypes, ExecutorTypes
  <2>1. cmdCalls \in Nat
    OBVIOUS
  <2>2. \A v \in evidence : v.attempt \in DOMAIN cmdAttempts
    <3>1. Count \in Nat /\ (~Open => Count > 0)
      BY CountIsNat DEF LatestInv, Open, Status
    <3>2. DOMAIN cmdAttempts = 1..Count
      BY LenProperties DEF Count
    <3>. QED
      BY <3>1, <3>2 DEF EvidenceInv
  <2>. QED
    BY <2>1, <2>2 DEF CommandTypeOK, Status, Dispatch, Count
<1>. QED
  BY <1>1, CommandInductive, PTL

\* markIntegrationDispatchStarted lets one executor through, and commits that
\* it did before the provider is called: the recovery repeats no such command.
THEOREM SentOnceAlways == CommandSpec => []SentOnce
<1>1. CommandInv => SentOnce
  BY DEF CommandInv, Types, ExecutorTypes, CallInv, LatestInv, SentOnce, Sent
<1>. QED
  BY <1>1, CommandInductive, PTL

\* finalizeIntegrationCommand and the recovery exclude each other, and what
\* either concludes is true of the provider.
THEOREM EvidenceTellsAlways == CommandSpec => []EvidenceTells
<1>1. ASSUME CommandInv PROVE EvidenceTells
  <2>. USE <1>1 DEF CommandInv
  <2>1. Cardinality(evidence) = IF Open THEN 0 ELSE 1
    BY FS_EmptySet, FS_Singleton DEF EvidenceInv
  <2>2. \A v \in evidence : v.outcome = cmdStatus
    BY DEF EvidenceInv
  <2>. QED
    BY <2>1, <2>2, Zenon DEF EvidenceTells, CallInv, Open
<1>. QED
  BY <1>1, CommandInductive, PTL

-----------------------------------------------------------------------------
(* The circuit breaker.                                                      *)

USE DEF FailureLimit

\* A slot that has overrun waits with its next write: it is not past the
\* check, which a paused endpoint refuses.
OverrunInv ==
  \A e \in Slot :
    overrun[e] # 0 => paused /\ overrun[e] = 1 /\ circuitPc[e] # "checked"

\* The revision is a person's evidence: no failure is recorded without it.
FreshInv ==
  \A p \in Person : /\ looked[p] <= revision
                    /\ looked[p] # 0 /\ looked[p] = revision => fresh[p] = 0

CircuitInv == CircuitTypeOK /\ PausedAtLimit

CircuitIInv == CircuitInv /\ OverrunInv /\ FreshInv

LEMMA CircuitInitIInv == CircuitInit => CircuitIInv
<1> SUFFICES ASSUME CircuitInit PROVE CircuitIInv
  OBVIOUS
<1> USE DEF CircuitInit
<1>1. ~(0 >= FailureLimit)
  BY SMT
<1>2. paused <=> count >= FailureLimit
  BY <1>1, Zenon
<1>3. /\ revision \in Nat /\ count \in Nat
      /\ looked \in [Person -> Nat]
      /\ fresh \in [Person -> Nat] /\ overrun \in [Slot -> Nat]
  BY SMT
<1>4. circuitPc \in [Slot -> {"idle", "checked", "confirmed", "failed"}]
  BY SMT
<1>5. CircuitInv
  BY <1>2, <1>3, <1>4, Zenon DEF CircuitInv, CircuitTypeOK, PausedAtLimit
<1>6. OverrunInv /\ FreshInv
  BY SMT DEF OverrunInv, FreshInv
<1>. QED
  BY <1>5, <1>6 DEF CircuitIInv

\* Each action keeps the types and the count in step with the pause.
LEMMA CircuitTypeStep == CircuitInv /\ [CircuitNext]_circuitVars => CircuitInv'
<1> SUFFICES ASSUME CircuitInv, [CircuitNext]_circuitVars PROVE CircuitInv'
  OBVIOUS
<1> USE DEF CircuitInv, CircuitTypeOK, PausedAtLimit
<1>1. ASSUME NEW e \in Slot, Check(e) PROVE CircuitInv'
  BY <1>1 DEF Check, Shifts, row
<1>2. ASSUME NEW e \in Slot, CallEndpoint(e) PROVE CircuitInv'
  BY <1>2 DEF CallEndpoint, Shifts, row
<1>3. ASSUME NEW e \in Slot, Abandon(e) PROVE CircuitInv'
  BY <1>3 DEF Abandon, Shifts, row
<1>4. ASSUME NEW e \in Slot, RecordSuccess(e) PROVE CircuitInv'
  BY <1>4 DEF RecordSuccess, Resettable, Shifts
<1>5. ASSUME NEW e \in Slot, RecordFailure(e) PROVE CircuitInv'
  <2>1. count' = count + 1 /\ paused' = (paused \/ count + 1 >= FailureLimit)
    BY <1>5 DEF RecordFailure
  <2>2. count >= FailureLimit => count + 1 >= FailureLimit
    BY SMT
  <2>3. paused' <=> count' >= FailureLimit
    BY <2>1, <2>2, Zenon
  <2>4. paused' \in BOOLEAN
    BY <2>1, Zenon
  <2>. QED
    BY <1>5, <2>3, <2>4 DEF RecordFailure, Shifts
<1>6. ASSUME NEW p \in Person, Look(p) PROVE CircuitInv'
  BY <1>6 DEF Look, row
<1>7. ASSUME NEW p \in Person, Resume(p) PROVE CircuitInv'
  <2>1. paused' = FALSE /\ count' = 0
    BY <1>7 DEF Resume
  <2>2. ~(0 >= FailureLimit)
    BY SMT
  <2>3. paused' <=> count' >= FailureLimit
    BY <2>1, <2>2, Zenon
  <2>4. /\ revision' \in Nat /\ count' \in Nat
        /\ overrun' \in [Slot -> Nat] /\ UNCHANGED <<circuitPc, looked, fresh>>
    BY <1>7 DEF Resume
  <2>. QED
    BY <2>1, <2>3, <2>4, Zenon DEF CircuitInv, CircuitTypeOK, PausedAtLimit
<1>8. CASE UNCHANGED circuitVars
  BY <1>8 DEF circuitVars, row
<1>. QED
  BY <1>1, <1>2, <1>3, <1>4, <1>5, <1>6, <1>7, <1>8 DEF CircuitNext, WriteStep

\* Calls are only made past the check, and an overrun is settled by Resume.
LEMMA OverrunStep == CircuitInv /\ OverrunInv /\ [CircuitNext]_circuitVars => OverrunInv'
<1> SUFFICES ASSUME CircuitInv, OverrunInv, [CircuitNext]_circuitVars PROVE OverrunInv'
  OBVIOUS
<1> USE DEF CircuitInv, CircuitTypeOK, PausedAtLimit, OverrunInv
<1>1. ASSUME NEW e \in Slot, Check(e) PROVE OverrunInv'
  BY <1>1 DEF Check, ControlIsOpen, Shifts, row
<1>2. ASSUME NEW e \in Slot, CallEndpoint(e) PROVE OverrunInv'
  BY <1>2 DEF CallEndpoint, Shifts, row
<1>3. ASSUME NEW e \in Slot, Abandon(e) PROVE OverrunInv'
  BY <1>3 DEF Abandon, Shifts, row
<1>4. ASSUME NEW e \in Slot, RecordSuccess(e) PROVE OverrunInv'
  BY <1>4 DEF RecordSuccess, Shifts
<1>5. ASSUME NEW e \in Slot, RecordFailure(e) PROVE OverrunInv'
  BY <1>5 DEF RecordFailure, Shifts
<1>6. ASSUME NEW p \in Person, Look(p) PROVE OverrunInv'
  BY <1>6 DEF Look, row
<1>7. ASSUME NEW p \in Person, Resume(p) PROVE OverrunInv'
  BY <1>7 DEF Resume
<1>8. CASE UNCHANGED circuitVars
  BY <1>8 DEF circuitVars, row
<1>. QED
  BY <1>1, <1>2, <1>3, <1>4, <1>5, <1>6, <1>7, <1>8 DEF CircuitNext, WriteStep

\* Whatever records a failure moves the revision away from every look.
LEMMA FreshStep == CircuitInv /\ FreshInv /\ [CircuitNext]_circuitVars => FreshInv'
<1> SUFFICES ASSUME CircuitInv, FreshInv, [CircuitNext]_circuitVars PROVE FreshInv'
  OBVIOUS
<1> USE DEF CircuitInv, CircuitTypeOK, PausedAtLimit, FreshInv
<1>1. ASSUME NEW e \in Slot, Check(e) PROVE FreshInv'
  BY <1>1 DEF Check, row
<1>2. ASSUME NEW e \in Slot, CallEndpoint(e) PROVE FreshInv'
  BY <1>2 DEF CallEndpoint, row
<1>3. ASSUME NEW e \in Slot, Abandon(e) PROVE FreshInv'
  BY <1>3 DEF Abandon, row
<1>4. ASSUME NEW e \in Slot, RecordSuccess(e) PROVE FreshInv'
  BY <1>4 DEF RecordSuccess
<1>5. ASSUME NEW e \in Slot, RecordFailure(e) PROVE FreshInv'
  BY <1>5 DEF RecordFailure
<1>6. ASSUME NEW p \in Person, Look(p) PROVE FreshInv'
  BY <1>6 DEF Look, row
<1>7. ASSUME NEW p \in Person, Resume(p) PROVE FreshInv'
  BY <1>7 DEF Resume
<1>8. CASE UNCHANGED circuitVars
  BY <1>8 DEF circuitVars, row
<1>. QED
  BY <1>1, <1>2, <1>3, <1>4, <1>5, <1>6, <1>7, <1>8 DEF CircuitNext, WriteStep

\* The inductive invariant of the circuit breaker holds in every behaviour.
THEOREM CircuitInductive == CircuitSpec => []CircuitIInv
<1>1. CircuitIInv /\ [CircuitNext]_circuitVars => CircuitIInv'
  BY CircuitTypeStep, OverrunStep, FreshStep DEF CircuitIInv
<1>. QED
  BY CircuitInitIInv, <1>1, PTL DEF CircuitSpec

\* The endpoint is paused exactly while its row counts the limit of failures
\* (recordCircuitSuccess, recordCircuitFailure), for any number of writes.
THEOREM PausedAtLimitAlways == CircuitSpec => []PausedAtLimit
<1>1. CircuitIInv => PausedAtLimit
  BY DEF CircuitIInv, CircuitInv
<1>. QED
  BY CircuitInductive, <1>1, PTL

\* The row, the writes and the persons keep their types.
THEOREM CircuitTypeCorrect == CircuitSpec => []CircuitTypeOK
<1>1. CircuitIInv => CircuitTypeOK
  BY DEF CircuitIInv, CircuitInv
<1>. QED
  BY CircuitInductive, <1>1, PTL

\* However many writes are under way when the endpoint is paused, each slot
\* calls it at most once more (assertControlIsOpen before each write).
THEOREM OneOverrunEachAlways == CircuitSpec => []OneOverrunEach
<1>1. ASSUME CircuitIInv, NEW e \in Slot PROVE overrun[e] <= 1
  <2>1. overrun[e] \in Nat
    BY <1>1 DEF CircuitIInv, CircuitInv, CircuitTypeOK
  <2>2. overrun[e] = 0 \/ overrun[e] = 1
    BY <1>1, Zenon DEF CircuitIInv, OverrunInv
  <2>. QED
    BY <2>1, <2>2, SMT
<1>2. CircuitIInv => OneOverrunEach
  BY <1>1, Zenon DEF OneOverrunEach
<1>. QED
  BY CircuitInductive, <1>2, PTL

\* The revision that resumeSalesChannelWriteControl compares protects every
\* failure recorded since the person's look.
THEOREM ResumedAsSeenAlways == CircuitSpec => ResumedAsSeen
<1>1. CircuitIInv /\ [CircuitNext]_circuitVars => [\A p \in Person : Resume(p) => fresh[p] = 0]_circuitVars
  BY DEF CircuitIInv, FreshInv, Resume, Unmoved
<1>. QED
  BY CircuitInductive, <1>1, PTL DEF CircuitSpec, ResumedAsSeen

-----------------------------------------------------------------------------
(* The tracking of deliveries.                                             *)

USE TrackingAssumption DEF TrackingAssumption

Parcel == {"ALLOCATED", "REGISTERED"} \cup Moving
GroupStatus == {"FROZEN", "READY", "ON_HOLD", "COMPLETED", "INVALIDATED"}
DeviceStatus ==
  {"PACKED", "DEPARTURE", "DELIVERING", "NONE_TRACKING", "FINAL", "RETURN"}
WorkRow ==
  [job : Nat, drained : BOOLEAN,
   items : UNION {[due -> Nat] : due \in SUBSET Invoice}]
JobRow ==
  [items : UNION {[due -> Nat] : due \in SUBSET Invoice},
   owner : Tracker \cup {None},
   status : {"PENDING", "PROCESSING", "SUCCEEDED", "FAILED"},
   live : BOOLEAN]

\* The types of what the carrier knows, and of the groups.
ParcelTypes ==
  /\ events \in [Invoice -> Seq(Moving)]
  /\ shipment \in [Invoice -> Parcel]
  /\ booked \in [Invoice -> [1..MaxEvents -> DeviceStatus \cup {None}]]
  /\ newest \in [Invoice -> Nat]
  /\ reordered \in SUBSET Invoice

GroupTypes ==
  /\ group \in [Group -> GroupStatus]
  /\ current \in [Group -> Invoice]
  /\ member \in [Group -> BOOLEAN]
  /\ device \in [Group -> DeviceStatus]

\* An evidence speaks of events that were scanned.
ItemsInv ==
  \A j \in 1..Len(jobs) : \A s \in DOMAIN jobs[j].items :
    jobs[j].items[s] <= Len(events[s])

JobTypes ==
  /\ jobs \in Seq(JobRow)
  /\ \A j \in 1..Len(jobs) :
       jobs[j].status = "PROCESSING" <=> jobs[j].owner \in Tracker

TrackPlace == {"idle", "drain", "polling", "answered", "recorded", "apply"}

\* Whoever has a job has one that exists, and what the carrier has told was
\* scanned.
WorkInv ==
  /\ trackPc \in [Tracker -> TrackPlace]
  /\ work \in [Tracker -> WorkRow]
  /\ ousted \in SUBSET Tracker
  /\ faults \in 0..MaxFaults
  /\ \A e \in Tracker :
       /\ work[e].job <= Len(jobs)
       /\ trackPc[e] \in {"recorded", "apply"} => work[e].job > 0
       /\ \A s \in DOMAIN work[e].items :
            work[e].items[s] <= Len(events[s])

\* The current invoice is one of the group's, a spare one was not used before
\* it is current, and nothing was registered before the group was confirmed.
CurrentInv ==
  \A g \in Group :
    /\ current[g] \in InvoicesOf(g)
    /\ current[g] = First[g] =>
         \A s \in Spare[g] : shipment[s] = "ALLOCATED"
    /\ group[g] = "FROZEN" => shipment[current[g]] = "ALLOCATED"

\* A parcel is scanned after its registration, as often as it may be.
EventInv ==
  \A s \in Invoice :
    /\ shipment[s] = "ALLOCATED" => events[s] = <<>>
    /\ Len(events[s]) <= MaxEvents

\* A shipment says what its newest projected event says, unless an older one
\* was projected after it; no event above it has moved a device.
NewestInv ==
  \A s \in Invoice :
    /\ newest[s] <= Len(events[s])
    /\ \A n \in 1..MaxEvents : booked[s][n] # None => n <= newest[s]
    /\ newest[s] > 0 /\ s \notin reordered =>
         shipment[s] = events[s][newest[s]]

\* A delivery that has moved the device is not taken back.
DeliveryInv ==
  \A s \in Invoice : \A n \in 1..MaxEvents :
    booked[s][n] # None /\ events[s][n] = "DELIVERED" =>
      device[GroupOf(s)] \in {"FINAL", "RETURN"}

TrackingInv ==
  /\ ParcelTypes
  /\ GroupTypes
  /\ JobTypes
  /\ ItemsInv
  /\ WorkInv
  /\ CurrentInv
  /\ EventInv
  /\ NewestInv
  /\ DeliveryInv
  /\ DeviceFollowsShipment

\* What a step of the worker that projects nothing leaves alone.
RowsInv ==
  /\ ParcelTypes
  /\ GroupTypes
  /\ CurrentInv
  /\ EventInv
  /\ NewestInv
  /\ DeliveryInv
  /\ DeviceFollowsShipment

LEMMA TrackingParts == TrackingInv <=> RowsInv /\ JobTypes /\ ItemsInv /\ WorkInv
BY DEF TrackingInv, RowsInv

LEMMA TrackingPartsLater ==
  RowsInv' /\ JobTypes' /\ ItemsInv' /\ WorkInv' => TrackingInv'
BY DEF TrackingInv, RowsInv

\* An invoice has the group that it is one of the invoices of.
LEMMA InvoiceHasGroup ==
  \A s \in Invoice : GroupOf(s) \in Group /\ s \in InvoicesOf(GroupOf(s))
<1>. SUFFICES ASSUME NEW s \in Invoice
              PROVE  GroupOf(s) \in Group /\ s \in InvoicesOf(GroupOf(s))
  OBVIOUS
<1>1. PICK g \in Group : s \in InvoicesOf(g)
  OBVIOUS
<1>. QED
  BY <1>1 DEF GroupOf

LEMMA GroupOfUnique ==
  ASSUME NEW g \in Group, NEW s \in InvoicesOf(g)
  PROVE  s \in Invoice /\ GroupOf(s) = g
<1>1. s \in Invoice
  BY DEF InvoicesOf
<1>2. GroupOf(s) \in Group /\ s \in InvoicesOf(GroupOf(s))
  BY <1>1, InvoiceHasGroup
<1>3. GroupOf(s) # g => InvoicesOf(GroupOf(s)) \cap InvoicesOf(g) = {}
  BY <1>2, Zenon DEF TrackingAssumption
<1>. QED
  BY <1>1, <1>2, <1>3

\* Without work there is no job and no invoice.
LEMMA NoWorkFacts ==
  /\ NoWork \in WorkRow
  /\ NoWork.job = 0
  /\ DOMAIN NoWork.items = {}
<1>. DEFINE nothing == [s \in {} |-> 0]
<1>1. nothing \in [{} -> Nat] /\ DOMAIN nothing = {}
  OBVIOUS
<1>2. nothing \in UNION {[due -> Nat] : due \in SUBSET Invoice}
  BY <1>1
<1>3. NoWork = [job |-> 0, drained |-> FALSE, items |-> nothing]
  BY DEF NoWork
<1>. HIDE DEF nothing
<1>. QED
  BY <1>1, <1>2, <1>3 DEF WorkRow

LEMMA TrackingInitInv == TrackingInit => TrackingInv
<1>. SUFFICES ASSUME TrackingInit PROVE TrackingInv
  OBVIOUS
<1>. USE DEF TrackingInit
<1>1. ParcelTypes
  BY DEF ParcelTypes, Parcel, Moving
<1>2. GroupTypes
  BY DEF GroupTypes, GroupStatus, DeviceStatus
<1>3. JobTypes /\ ItemsInv
  BY DEF JobTypes, ItemsInv
<1>4. WorkInv
  <2>1. \A e \in Tracker : trackPc[e] = "idle" /\ work[e] = NoWork
    OBVIOUS
  <2>2. trackPc \in [Tracker -> TrackPlace] /\ work \in [Tracker -> WorkRow]
    BY NoWorkFacts DEF TrackPlace
  <2>3. ousted \in SUBSET Tracker /\ faults \in 0..MaxFaults /\ Len(jobs) = 0
    OBVIOUS
  <2>. QED
    BY <2>1, <2>2, <2>3, NoWorkFacts DEF WorkInv
<1>5. CurrentInv
  BY DEF CurrentInv, InvoicesOf
<1>6. EventInv
  BY DEF EventInv
<1>7. NewestInv
  BY DEF NewestInv
<1>8. DeliveryInv
  BY DEF DeliveryInv
<1>9. DeviceFollowsShipment
  BY DEF DeviceFollowsShipment
<1>. QED
  BY <1>1, <1>2, <1>3, <1>4, <1>5, <1>6, <1>7, <1>8, <1>9 DEF TrackingInv

-----------------------------------------------------------------------------
(* Steps of the worker that project nothing.                               *)

LEMMA RowsStand ==
  RowsInv /\ UNCHANGED <<events, carrier, packages>> => RowsInv'
BY DEF RowsInv, carrier, packages, ParcelTypes, GroupTypes, CurrentInv,
       EventInv, NewestInv, DeliveryInv, DeviceFollowsShipment

\* A job that is claimed, failed or succeeds keeps its evidence.
LEMMA JobChanges ==
  ASSUME JobTypes, ItemsInv, UNCHANGED events,
         NEW j \in 1..Len(jobs), NEW entry \in JobRow,
         entry.items = jobs[j].items,
         entry.status = "PROCESSING" <=> entry.owner \in Tracker,
         jobs' = [jobs EXCEPT ![j] = entry]
  PROVE  JobTypes' /\ ItemsInv' /\ Len(jobs') = Len(jobs)
<1>1. /\ jobs' \in Seq(JobRow)
      /\ Len(jobs') = Len(jobs)
      /\ \A i \in 1..Len(jobs) : jobs'[i] = IF i = j THEN entry ELSE jobs[i]
  BY ExceptSeq DEF JobTypes
<1>2. JobTypes'
  BY <1>1 DEF JobTypes
<1>3. ItemsInv'
  BY <1>1 DEF ItemsInv
<1>. QED
  BY <1>1, <1>2, <1>3

\* A job that is recorded speaks of what was scanned.
LEMMA JobAppended ==
  ASSUME JobTypes, ItemsInv, UNCHANGED events,
         NEW items \in UNION {[due -> Nat] : due \in SUBSET Invoice},
         \A s \in DOMAIN items : items[s] <= Len(events[s]),
         NEW entry,
         entry = [items |-> items, owner |-> None, status |-> "PENDING",
                  live |-> FALSE],
         jobs' = Append(jobs, entry)
  PROVE  JobTypes' /\ ItemsInv' /\ Len(jobs') = Len(jobs) + 1
<1>1. entry \in JobRow
  BY DEF JobRow
<1>2. /\ jobs' \in Seq(JobRow)
      /\ Len(jobs') = Len(jobs) + 1
      /\ \A i \in 1..Len(jobs) : jobs'[i] = jobs[i]
      /\ jobs'[Len(jobs) + 1] = entry
  BY <1>1, AppendProperties DEF JobTypes
<1>3. Len(jobs) \in Nat
  BY DEF JobTypes
<1>4. JobTypes'
  BY <1>2, <1>3 DEF JobTypes
<1>5. ItemsInv'
  <2>1. \A i \in 1..Len(jobs') : i \in 1..Len(jobs) \/ i = Len(jobs) + 1
    BY <1>2, <1>3
  <2>2. entry.items = items
    OBVIOUS
  <2>. QED
    BY <1>2, <2>1, <2>2 DEF ItemsInv
<1>. QED
  BY <1>2, <1>4, <1>5

\* An execution goes to a place at which it needs no job, or has one.
LEMMA WorkGoes ==
  ASSUME WorkInv, JobTypes, UNCHANGED events, NEW e \in Tracker,
         NEW to \in TrackPlace, NEW w \in WorkRow,
         Goes(e, to, w), ousted' \in SUBSET Tracker, faults' \in 0..MaxFaults,
         Len(jobs') \in Nat, Len(jobs') >= Len(jobs), w.job <= Len(jobs'),
         to \in {"recorded", "apply"} => w.job > 0,
         \A s \in DOMAIN w.items : w.items[s] <= Len(events[s])
  PROVE  WorkInv'
<1>1. Len(jobs) \in Nat
  BY DEF JobTypes
<1>2. /\ trackPc' = [trackPc EXCEPT ![e] = to]
      /\ work' = [work EXCEPT ![e] = w]
  BY DEF Goes
<1>3. trackPc' \in [Tracker -> TrackPlace] /\ work' \in [Tracker -> WorkRow]
  BY <1>2 DEF WorkInv
<1>4. ASSUME NEW x \in Tracker
      PROVE  /\ work'[x].job <= Len(jobs')
             /\ trackPc'[x] \in {"recorded", "apply"} => work'[x].job > 0
             /\ \A s \in DOMAIN work'[x].items :
                  work'[x].items[s] <= Len(events[s])
  <2>1. CASE x = e
    <3>1. work'[x] = w /\ trackPc'[x] = to
      BY <1>2, <2>1 DEF WorkInv
    <3>. QED
      BY <3>1
  <2>2. CASE x # e
    <3>1. work'[x] = work[x] /\ trackPc'[x] = trackPc[x]
      BY <1>2, <2>2 DEF WorkInv
    <3>2. work[x].job \in Nat /\ work[x].job <= Len(jobs)
      BY DEF WorkInv, WorkRow
    <3>3. work'[x].job <= Len(jobs')
      BY <1>1, <3>1, <3>2
    <3>4. trackPc[x] \in {"recorded", "apply"} => work[x].job > 0
      BY DEF WorkInv
    <3>5. \A s \in DOMAIN work[x].items : work[x].items[s] <= Len(events[s])
      BY Zenon DEF WorkInv
    <3>. QED
      BY <3>1, <3>3, <3>4, <3>5
  <2>. QED
    BY <2>1, <2>2
<1>. QED
  BY <1>3, <1>4 DEF WorkInv

\* Whoever is idle or drains has no job.
LEMMA WorkDropped ==
  ASSUME WorkInv, JobTypes, UNCHANGED events, NEW e \in Tracker,
         NEW to \in {"idle", "drain"},
         Goes(e, to, NoWork), ousted' \in SUBSET Tracker,
         faults' \in 0..MaxFaults, Len(jobs') = Len(jobs)
  PROVE  WorkInv'
<1>1. Len(jobs) \in Nat
  BY DEF JobTypes
<1>2. to \in TrackPlace
  BY DEF TrackPlace
<1>. QED
  BY <1>1, <1>2, NoWorkFacts, WorkGoes

LEMMA FaultCounts == faults \in 0..MaxFaults /\ Faulty => faults' \in 0..MaxFaults
BY DEF Faulty

\* The steps of an execution that project nothing.
LEMMA QuietStep ==
  ASSUME TrackingInv, NEW e \in Tracker,
         \/ StartRun(e) \/ ClaimNext(e) \/ Poll(e) \/ Answer(e)
         \/ Record(e) \/ PollFails(e) \/ NothingDue(e)
         \/ ClaimOwn(e) \/ Refuse(e) \/ Breaks(e) \/ CrashTracker(e)
  PROVE  TrackingInv'
<1>1. RowsInv /\ JobTypes /\ ItemsInv /\ WorkInv
  BY TrackingParts
<1>2. ParcelTypes
  BY <1>1 DEF RowsInv
<1>3. UNCHANGED <<events, carrier, packages>>
  BY DEF StartRun, ClaimNext, Poll, Answer, Record, PollFails, NothingDue,
         ClaimOwn, Refuse, Breaks, CrashTracker, Fails
<1>4. RowsInv'
  BY <1>1, <1>3, RowsStand
<1>5. Len(jobs) \in Nat /\ DOMAIN jobs = 1..Len(jobs)
  BY <1>1 DEF JobTypes
<1>6. work[e] \in WorkRow /\ work[e].job \in Nat /\ work[e].job <= Len(jobs)
  BY <1>1 DEF WorkInv, WorkRow
<1>7. ousted \in SUBSET Tracker /\ faults \in 0..MaxFaults
  BY <1>1 DEF WorkInv
\* The jobs stand still.
<1>8. ASSUME UNCHANGED jobs PROVE JobTypes' /\ ItemsInv' /\ Len(jobs') = Len(jobs)
  BY <1>1, <1>3, <1>8 DEF JobTypes, ItemsInv
<1>9. ASSUME EndsRun(e), faults' \in 0..MaxFaults, Len(jobs') = Len(jobs)
      PROVE  WorkInv'
  <2>1. Goes(e, "idle", NoWork) /\ ousted' \in SUBSET Tracker
    BY <1>7, <1>9 DEF EndsRun
  <2>. QED
    BY <2>1, <1>1, <1>3, <1>9, WorkDropped
\* A job is claimed.
<1>10. ASSUME NEW j \in 1..Len(jobs), NEW drained \in BOOLEAN,
              ClaimsJob(e, j, drained), UNCHANGED <<ousted, faults>>
       PROVE  JobTypes' /\ ItemsInv' /\ WorkInv'
  <2>. DEFINE entry == [jobs[j] EXCEPT !.status = "PROCESSING", !.owner = e,
                                       !.live = TRUE]
  <2>1. jobs[j] \in JobRow
    BY <1>1 DEF JobTypes
  <2>2. /\ entry \in JobRow
        /\ entry.items = jobs[j].items
        /\ entry.status = "PROCESSING"
        /\ entry.owner = e
    BY <2>1 DEF JobRow
  <2>3. jobs' = [jobs EXCEPT ![j] = entry]
    BY <1>10, <1>5 DEF ClaimsJob
  <2>. HIDE DEF entry
  <2>4. JobTypes' /\ ItemsInv' /\ Len(jobs') = Len(jobs)
    BY <1>1, <1>3, <2>2, <2>3, JobChanges
  <2>. DEFINE w == [NoWork EXCEPT !.job = j, !.drained = drained]
  <2>5. /\ w \in WorkRow
        /\ w.job = j
        /\ DOMAIN w.items = {}
    <3>1. j \in Nat
      BY <1>5
    <3>. QED
      BY <3>1, NoWorkFacts DEF WorkRow
  <2>6. Goes(e, "apply", w)
    BY <1>10 DEF ClaimsJob
  <2>. HIDE DEF w
  <2>7. WorkInv'
    <3>1. j \in Nat /\ j > 0 /\ j <= Len(jobs') /\ "apply" \in TrackPlace
      BY <1>5, <2>4 DEF TrackPlace
    <3>. QED
      BY <1>1, <1>3, <1>5, <1>7, <1>10, <2>4, <2>5, <2>6, <3>1, WorkGoes
  <2>. QED
    BY <2>4, <2>7
\* An execution fails, with its job if it still owns it.
<1>11. ASSUME Fails(e), trackPc[e] = "apply", faults' \in 0..MaxFaults
       PROVE  JobTypes' /\ ItemsInv' /\ WorkInv'
  <2>. DEFINE j == work[e].job
  <2>1. j \in 1..Len(jobs)
    BY <1>1, <1>5, <1>6, <1>11 DEF WorkInv
  <2>2. jobs[j] \in JobRow
    BY <1>1, <2>1 DEF JobTypes
  <2>3. /\ Failed(jobs[j]) \in JobRow
        /\ Failed(jobs[j]).items = jobs[j].items
        /\ Failed(jobs[j]).status # "PROCESSING"
        /\ Failed(jobs[j]).owner \notin Tracker
    BY <2>2 DEF Failed, JobRow
  <2>4. UNCHANGED jobs \/ jobs' = [jobs EXCEPT ![j] = Failed(jobs[j])]
    BY <1>5, <2>1, <1>11 DEF Fails
  <2>. HIDE DEF j
  <2>5. CASE UNCHANGED jobs
    BY <1>8, <1>9, <1>11, <2>5 DEF Fails
  <2>6. CASE jobs' = [jobs EXCEPT ![j] = Failed(jobs[j])]
    <3>1. JobTypes' /\ ItemsInv' /\ Len(jobs') = Len(jobs)
      BY <1>1, <1>3, <2>1, <2>3, <2>6, JobChanges
    <3>. QED
      BY <3>1, <1>9, <1>11 DEF Fails
  <2>. QED
    BY <2>4, <2>5, <2>6
<1>12. CASE StartRun(e)
  <2>1. UNCHANGED jobs /\ Goes(e, "drain", NoWork)
    BY <1>12 DEF StartRun
  <2>2. ousted' \in SUBSET Tracker /\ faults' \in 0..MaxFaults
    BY <1>12, <1>7, FaultCounts DEF StartRun
  <2>3. JobTypes' /\ ItemsInv' /\ Len(jobs') = Len(jobs)
    BY <1>8, <2>1
  <2>4. WorkInv'
    BY <1>1, <1>3, <2>1, <2>2, <2>3, WorkDropped
  <2>. QED
    BY <1>4, <2>3, <2>4, TrackingPartsLater
<1>13. CASE ClaimNext(e)
  <2>1. PICK j \in 1..Len(jobs) : ClaimsJob(e, j, TRUE)
    BY <1>5, <1>13 DEF ClaimNext
  <2>2. UNCHANGED <<ousted, faults>>
    BY <1>13 DEF ClaimNext
  <2>. QED
    BY <1>4, <1>10, <2>1, <2>2, TrackingPartsLater
\* The jobs stand still, and the execution knows what was scanned.
<1>14. ASSUME NEW to \in {"polling", "answered"}, NEW due \in SUBSET Invoice,
              NEW told \in [due -> Nat],
              \A s \in due : told[s] <= Len(events[s]),
              Goes(e, to, [NoWork EXCEPT !.items = told]),
              UNCHANGED <<jobs, ousted, faults>>
       PROVE  TrackingInv'
  <2>1. JobTypes' /\ ItemsInv' /\ Len(jobs') = Len(jobs)
    BY <1>8, <1>14
  <2>. DEFINE w == [NoWork EXCEPT !.items = told]
  <2>2. told \in UNION {[d -> Nat] : d \in SUBSET Invoice} /\ DOMAIN told = due
    BY <1>14
  <2>3. w \in WorkRow /\ w.job = 0 /\ w.items = told
    BY <2>2, NoWorkFacts DEF WorkRow
  <2>4. Goes(e, to, w)
    BY <1>14
  <2>. HIDE DEF w
  <2>5. WorkInv'
    <3>1. /\ to \in TrackPlace
          /\ to \notin {"recorded", "apply"}
          /\ \A s \in DOMAIN w.items : w.items[s] <= Len(events[s])
      BY <1>14, <2>2, <2>3 DEF TrackPlace
    <3>. QED
      BY <1>1, <1>3, <1>5, <1>7, <1>14, <2>1, <2>3, <2>4, <3>1, WorkGoes
  <2>. QED
    BY <1>4, <2>1, <2>5, TrackingPartsLater
<1>20. CASE Poll(e)
  <2>1. PICK due \in SUBSET Invoice :
          Goes(e, "polling", [NoWork EXCEPT !.items = [s \in due |-> 0]])
    BY <1>20, Zenon DEF Poll
  <2>2. UNCHANGED <<jobs, ousted, faults>>
    BY <1>20 DEF Poll
  <2>3. [s \in due |-> 0] \in [due -> Nat]
    OBVIOUS
  <2>4. \A s \in due : [x \in due |-> 0][s] <= Len(events[s])
    BY <1>2 DEF ParcelTypes
  <2>. QED
    BY <1>14, <2>1, <2>2, <2>3, <2>4
<1>21. CASE Answer(e)
  <2>. DEFINE due == DOMAIN work[e].items
              told == [s \in due |-> Len(events[s])]
  <2>1. due \in SUBSET Invoice
    BY <1>6 DEF WorkRow
  <2>2. \A s \in due : Len(events[s]) \in Nat
    BY <1>2, <2>1 DEF ParcelTypes
  <2>3. told \in [due -> Nat] /\ \A s \in due : told[s] <= Len(events[s])
    BY <2>2
  <2>4. /\ Goes(e, "answered", [NoWork EXCEPT !.items = told])
        /\ UNCHANGED <<jobs, ousted, faults>>
    BY <1>21 DEF Answer
  <2>. HIDE DEF told, due
  <2>. QED
    BY <1>14, <2>1, <2>3, <2>4
<1>22. CASE Record(e)
  <2>. DEFINE items == work[e].items
              entry == [items |-> items, owner |-> None,
                        status |-> "PENDING", live |-> FALSE]
              w == [NoWork EXCEPT !.job = Len(jobs) + 1]
  <2>1. items \in UNION {[due -> Nat] : due \in SUBSET Invoice}
    BY <1>6 DEF WorkRow
  <2>2. \A s \in DOMAIN items : items[s] <= Len(events[s])
    BY <1>1, Zenon DEF WorkInv
  <2>3. jobs' = Append(jobs, entry) /\ UNCHANGED <<ousted, faults>>
    BY <1>22 DEF Record
  <2>4. Goes(e, "recorded", w)
    BY <1>22 DEF Record
  <2>. HIDE DEF items
  <2>5. JobTypes' /\ ItemsInv' /\ Len(jobs') = Len(jobs) + 1
    BY <1>1, <1>3, <2>1, <2>2, <2>3, JobAppended
  <2>6. w \in WorkRow /\ w.job = Len(jobs) + 1 /\ DOMAIN w.items = {}
    <3>1. Len(jobs) + 1 \in Nat
      BY <1>5
    <3>. QED
      BY <3>1, NoWorkFacts DEF WorkRow
  <2>. HIDE DEF w
  <2>7. WorkInv'
    <3>1. /\ Len(jobs') \in Nat /\ Len(jobs') >= Len(jobs)
          /\ w.job <= Len(jobs') /\ w.job > 0
          /\ "recorded" \in TrackPlace
      BY <1>5, <2>5, <2>6 DEF TrackPlace
    <3>. QED
      BY <1>1, <1>3, <1>7, <2>3, <2>4, <2>6, <3>1, WorkGoes
  <2>. QED
    BY <1>4, <2>5, <2>7, TrackingPartsLater
<1>23. CASE PollFails(e)
  <2>1. UNCHANGED <<jobs, faults>> /\ EndsRun(e)
    BY <1>23 DEF PollFails
  <2>. QED
    BY <1>4, <1>7, <1>8, <1>9, <2>1, TrackingPartsLater
<1>15. CASE NothingDue(e)
  <2>1. UNCHANGED <<jobs, faults>> /\ EndsRun(e)
    BY <1>15 DEF NothingDue
  <2>. QED
    BY <1>4, <1>7, <1>8, <1>9, <2>1, TrackingPartsLater
<1>16. CASE ClaimOwn(e)
  <2>1. work[e].job \in 1..Len(jobs)
    BY <1>1, <1>5, <1>6, <1>16 DEF ClaimOwn, WorkInv
  <2>2. CASE Claimable(work[e].job)
    BY <1>4, <1>10, <1>16, <2>1, <2>2, TrackingPartsLater DEF ClaimOwn
  <2>3. CASE ~Claimable(work[e].job)
    <3>1. UNCHANGED <<jobs, faults>> /\ EndsRun(e)
      BY <1>16, <2>3 DEF ClaimOwn
    <3>. QED
      BY <1>4, <1>7, <1>8, <1>9, <3>1, TrackingPartsLater
  <2>. QED
    BY <2>2, <2>3
<1>17. CASE Refuse(e)
  BY <1>4, <1>7, <1>11, <1>17, TrackingPartsLater DEF Refuse
<1>18. CASE Breaks(e)
  BY <1>4, <1>7, <1>11, <1>18, FaultCounts, TrackingPartsLater DEF Breaks
<1>19. CASE CrashTracker(e)
  <2>1. UNCHANGED jobs /\ EndsRun(e) /\ Faulty
    BY <1>19 DEF CrashTracker
  <2>. QED
    BY <1>4, <1>7, <1>8, <1>9, <2>1, FaultCounts, TrackingPartsLater
<1>. QED
  BY <1>12, <1>13, <1>15, <1>16, <1>17, <1>18, <1>19, <1>20, <1>21, <1>22,
     <1>23

LEMMA LapseOfClaimStep ==
  ASSUME TrackingInv, NEW j, ClaimLapses(j)
  PROVE  TrackingInv'
<1>1. RowsInv /\ JobTypes /\ ItemsInv /\ WorkInv
  BY TrackingParts
<1>2. RowsInv'
  BY <1>1, RowsStand DEF ClaimLapses
<1>3. j \in 1..Len(jobs)
  BY <1>1 DEF ClaimLapses, JobTypes
<1>. DEFINE entry == [jobs[j] EXCEPT !.live = FALSE]
<1>4. jobs[j] \in JobRow
  BY <1>1, <1>3 DEF JobTypes
<1>5. /\ entry \in JobRow
      /\ entry.items = jobs[j].items
      /\ entry.status = jobs[j].status
      /\ entry.owner = jobs[j].owner
  BY <1>4 DEF JobRow
<1>6. jobs' = [jobs EXCEPT ![j] = entry]
  BY DEF ClaimLapses
<1>7. entry.status = "PROCESSING" <=> entry.owner \in Tracker
  BY <1>1, <1>3, <1>5 DEF JobTypes
<1>. HIDE DEF entry
<1>8. JobTypes' /\ ItemsInv' /\ Len(jobs') = Len(jobs)
  BY <1>1, <1>3, <1>5, <1>6, <1>7, JobChanges DEF ClaimLapses
<1>9. WorkInv'
  BY <1>1, <1>8 DEF ClaimLapses, WorkInv, execution
<1>. QED
  BY <1>2, <1>8, <1>9, TrackingPartsLater

-----------------------------------------------------------------------------
(* What else moves shipments, groups and devices.                          *)

\* The jobs stand still while a package moves.
LEMMA PackageMoves ==
  ASSUME TrackingInv, UNCHANGED <<events, jobs, execution, faults>>, RowsInv'
  PROVE  TrackingInv'
<1>1. JobTypes /\ ItemsInv /\ WorkInv
  BY TrackingParts
<1>2. JobTypes' /\ ItemsInv' /\ WorkInv'
  BY <1>1 DEF JobTypes, ItemsInv, WorkInv, execution
<1>. QED
  BY <1>2, TrackingPartsLater

\* A group moves, while its parcels stand still and no delivery is taken back.
LEMMA GroupMoves ==
  ASSUME RowsInv, UNCHANGED <<events, carrier>>, GroupTypes', CurrentInv',
         DeviceFollowsShipment',
         \A g \in Group : device[g] \in {"FINAL", "RETURN"} =>
                           device'[g] \in {"FINAL", "RETURN"}
  PROVE  RowsInv'
<1>1. ParcelTypes' /\ EventInv' /\ NewestInv'
  BY DEF RowsInv, carrier, ParcelTypes, EventInv, NewestInv
<1>2. DeliveryInv'
  BY InvoiceHasGroup DEF RowsInv, carrier, DeliveryInv
<1>. QED
  BY <1>1, <1>2 DEF RowsInv

LEMMA ConfirmInvoiceStep ==
  ASSUME RowsInv, NEW g \in Group, ConfirmInvoice(g) PROVE RowsInv'
<1>. USE DEF ConfirmInvoice, Departed
<1>1. GroupTypes'
  BY DEF RowsInv, GroupTypes, GroupStatus, DeviceStatus
<1>2. CurrentInv'
  BY DEF RowsInv, GroupTypes, CurrentInv, carrier
<1>3. shipment[current[g]] = "ALLOCATED"
  BY DEF RowsInv, CurrentInv
<1>4. DeviceFollowsShipment'
  BY <1>3 DEF RowsInv, GroupTypes, DeviceFollowsShipment, carrier
<1>. QED
  BY <1>1, <1>2, <1>4, GroupMoves DEF RowsInv, GroupTypes

LEMMA HoldStep ==
  ASSUME RowsInv, NEW g \in Group, Hold(g) PROVE RowsInv'
<1>. USE DEF Hold
<1>1. GroupTypes'
  BY DEF RowsInv, GroupTypes, GroupStatus
<1>2. CurrentInv'
  BY DEF RowsInv, GroupTypes, CurrentInv, carrier
<1>3. DeviceFollowsShipment'
  BY DEF RowsInv, GroupTypes, DeviceFollowsShipment, carrier
<1>. QED
  BY <1>1, <1>2, <1>3, GroupMoves

LEMMA SwitchStep ==
  ASSUME RowsInv, NEW g \in Group, Switch(g) PROVE RowsInv'
<1>1. PICK s \in Spare[g] : current' = [current EXCEPT ![g] = s]
  BY DEF Switch
<1>2. /\ s \in Invoice /\ s \in InvoicesOf(g) /\ s # First[g]
      /\ UNCHANGED <<events, carrier, group, member, device>>
      /\ group[g] = "ON_HOLD"
  BY <1>1 DEF Switch, InvoicesOf
<1>3. shipment[s] = "ALLOCATED"
  BY <1>1 DEF RowsInv, CurrentInv, Switch
<1>4. GroupTypes'
  BY <1>1, <1>2 DEF RowsInv, GroupTypes
<1>5. CurrentInv'
  BY <1>1, <1>2 DEF RowsInv, GroupTypes, CurrentInv, carrier
<1>6. DeviceFollowsShipment'
  BY <1>1, <1>2, <1>3 DEF RowsInv, GroupTypes, DeviceFollowsShipment, carrier
<1>. QED
  BY <1>2, <1>4, <1>5, <1>6, GroupMoves

LEMMA ReleaseStep ==
  ASSUME RowsInv, NEW g \in Group, Release(g) PROVE RowsInv'
<1>. USE DEF Release
<1>1. GroupTypes'
  BY DEF RowsInv, GroupTypes, GroupStatus
<1>2. CurrentInv'
  BY DEF RowsInv, GroupTypes, CurrentInv, carrier
<1>3. DeviceFollowsShipment'
  BY DEF RowsInv, GroupTypes, DeviceFollowsShipment, carrier
<1>. QED
  BY <1>1, <1>2, <1>3, GroupMoves

LEMMA ReturnBeforeStep ==
  ASSUME RowsInv, NEW g \in Group, ReturnBefore(g) PROVE RowsInv'
<1>. USE DEF ReturnBefore
<1>1. GroupTypes'
  BY DEF RowsInv, GroupTypes, GroupStatus, DeviceStatus
<1>2. CurrentInv'
  BY DEF RowsInv, GroupTypes, CurrentInv, carrier
<1>3. DeviceFollowsShipment'
  BY DEF RowsInv, GroupTypes, DeviceFollowsShipment, carrier
<1>. QED
  BY <1>1, <1>2, <1>3, GroupMoves DEF RowsInv, GroupTypes

LEMMA ReturnAfterStep ==
  ASSUME RowsInv, NEW g \in Group, ReturnAfter(g) PROVE RowsInv'
<1>. USE DEF ReturnAfter
<1>1. GroupTypes'
  BY DEF RowsInv, GroupTypes, DeviceStatus
<1>2. CurrentInv'
  BY DEF RowsInv, GroupTypes, CurrentInv, carrier
<1>3. DeviceFollowsShipment'
  BY DEF RowsInv, GroupTypes, DeviceFollowsShipment, carrier
<1>. QED
  BY <1>1, <1>2, <1>3, GroupMoves DEF RowsInv, GroupTypes

\* The channel's status takes the device no further back than the shipment's.
LEMMA ChannelStatusStep ==
  ASSUME RowsInv, NEW g \in Group, ChannelStatus(g) PROVE RowsInv'
<1>1. PICK status \in {"IN_TRANSIT", "DELIVERED"} :
        /\ device[g] = "PACKED" => MayDepart(g)
        /\ device' = [device EXCEPT ![g] =
             IF \/ Keeps(g, TargetStatus(status))
                \/ status = "IN_TRANSIT" /\ @ = "NONE_TRACKING"
               THEN @ ELSE TargetStatus(status)]
        /\ group' = [group EXCEPT ![g] =
             IF status = "DELIVERED" /\ MayComplete(g)
               THEN "COMPLETED" ELSE @]
  BY Zenon DEF ChannelStatus
<1>2. UNCHANGED <<events, carrier, current, member>>
  BY DEF ChannelStatus
<1>3. /\ TargetStatus("IN_TRANSIT") = "DELIVERING"
      /\ TargetStatus("DELIVERED") = "FINAL"
  BY DEF TargetStatus
<1>. USE DEF Keeps, MayComplete
<1>4. GroupTypes'
  BY <1>1, <1>2, <1>3 DEF RowsInv, GroupTypes, GroupStatus, DeviceStatus
<1>5. CurrentInv'
  BY <1>1, <1>2 DEF RowsInv, GroupTypes, CurrentInv, carrier
<1>6. CASE status = "IN_TRANSIT"
  <2>1. group' = group
    BY <1>1, <1>6 DEF RowsInv, GroupTypes
  <2>2. device' = [device EXCEPT ![g] =
          IF device[g] \in {"FINAL", "RETURN", "DELIVERING", "NONE_TRACKING"}
            THEN @ ELSE "DELIVERING"]
    BY <1>1, <1>3, <1>6
  <2>3. DeviceFollowsShipment'
    BY <1>2, <2>1, <2>2 DEF RowsInv, GroupTypes, DeviceFollowsShipment, carrier
  <2>. QED
    BY <1>2, <1>4, <1>5, <2>2, <2>3, GroupMoves DEF RowsInv, GroupTypes
<1>7. CASE status = "DELIVERED"
  <2>1. group' = [group EXCEPT ![g] =
          IF group[g] \in {"READY", "ON_HOLD"} THEN "COMPLETED" ELSE @]
    BY <1>1, <1>7
  <2>2. device' = [device EXCEPT ![g] =
          IF device[g] \in {"FINAL", "RETURN"} THEN @ ELSE "FINAL"]
    BY <1>1, <1>3, <1>7 DEF RowsInv, GroupTypes
  <2>3. DeviceFollowsShipment'
    BY <1>2, <2>1, <2>2 DEF RowsInv, GroupTypes, DeviceFollowsShipment, carrier
  <2>. QED
    BY <1>2, <1>4, <1>5, <2>2, <2>3, GroupMoves DEF RowsInv, GroupTypes
<1>. QED
  BY <1>6, <1>7

\* The carrier registers the current invoice, of which it has no events yet.
LEMMA RegisterInvoiceStep ==
  ASSUME RowsInv, NEW g \in Group, RegisterInvoice(g) PROVE RowsInv'
<1>. DEFINE s == current[g]
<1>1. /\ s \in Invoice /\ s \in InvoicesOf(g)
      /\ shipment[s] = "ALLOCATED"
      /\ shipment' = [shipment EXCEPT ![s] = "REGISTERED"]
      /\ UNCHANGED <<events, booked, newest, reordered, packages>>
      /\ group[g] = "READY" \/ (group[g] = "ON_HOLD" /\ s \in Spare[g])
  BY DEF RegisterInvoice, RowsInv, GroupTypes, CurrentInv
<1>2. newest[s] = 0
  <2>1. events[s] = <<>> /\ newest[s] \in Nat /\ newest[s] <= Len(events[s])
    BY <1>1 DEF RowsInv, EventInv, NewestInv, ParcelTypes
  <2>. QED
    BY <2>1
<1>. HIDE DEF s
<1>3. ParcelTypes' /\ GroupTypes'
  BY <1>1 DEF RowsInv, ParcelTypes, GroupTypes, Parcel, packages
<1>4. EventInv'
  BY <1>1 DEF RowsInv, ParcelTypes, EventInv
<1>5. NewestInv'
  <2>1. \A x \in Invoice : x # s => shipment'[x] = shipment[x]
    BY <1>1 DEF RowsInv, ParcelTypes
  <2>2. /\ UNCHANGED <<events, booked, newest, reordered>>
        /\ ~(newest[s] > 0)
    BY <1>1, <1>2
  <2>3. NewestInv
    BY DEF RowsInv
  <2>. QED
    BY <2>1, <2>2, <2>3 DEF NewestInv
<1>6. DeliveryInv'
  <2>1. UNCHANGED <<events, booked, device>> /\ DeliveryInv
    BY <1>1 DEF RowsInv, packages
  <2>. QED
    BY <2>1 DEF DeliveryInv
<1>7. DeviceFollowsShipment'
  <2>1. UNCHANGED <<group, current, device, reordered>>
    BY <1>1 DEF packages
  <2>2. \A h \in Group : \/ shipment'[current[h]] = "REGISTERED"
                         \/ shipment'[current[h]] = shipment[current[h]]
    BY <1>1 DEF RowsInv, ParcelTypes, GroupTypes
  <2>3. DeviceFollowsShipment
    BY DEF RowsInv
  <2>. QED
    BY <2>1, <2>2, <2>3 DEF DeviceFollowsShipment
<1>8. ASSUME NEW h \in Group
      PROVE  /\ current'[h] \in InvoicesOf(h)
             /\ current'[h] = First[h] =>
                  \A x \in Spare[h] : shipment'[x] = "ALLOCATED"
             /\ group'[h] = "FROZEN" => shipment'[current'[h]] = "ALLOCATED"
  <2>1. CASE h = g
    <3>1. current[g] = s /\ current' = current /\ group' = group
      BY <1>1 DEF s, packages
    <3>2. s \notin Spare[g] \/ s # First[g]
      OBVIOUS
    <3>3. \A x \in Spare[g] : x \in Invoice
      OBVIOUS
    <3>. QED
      BY <1>1, <2>1, <3>1, <3>2, <3>3 DEF RowsInv, CurrentInv, ParcelTypes
  <2>2. CASE h # g
    <3>1. s \notin InvoicesOf(h)
      BY <1>1, <2>2, GroupOfUnique
    <3>2. \A x \in InvoicesOf(h) : x \in Invoice /\ shipment'[x] = shipment[x]
      BY <1>1, <3>1, GroupOfUnique DEF RowsInv, ParcelTypes
    <3>3. current' = current /\ group' = group
      BY <1>1 DEF packages
    <3>. QED
      BY <3>2, <3>3 DEF RowsInv, CurrentInv, InvoicesOf
  <2>. QED
    BY <2>1, <2>2
<1>9. CurrentInv'
  BY <1>8 DEF CurrentInv
<1>. QED
  BY <1>3, <1>4, <1>5, <1>6, <1>7, <1>9 DEF RowsInv

LEMMA PackageStep ==
  ASSUME TrackingInv, NEW g \in Group, Package(g) PROVE TrackingInv'
<1>1. RowsInv
  BY TrackingParts
<1>2. RowsInv'
  BY <1>1, ConfirmInvoiceStep, RegisterInvoiceStep, HoldStep, SwitchStep,
     ReleaseStep, ReturnBeforeStep, ReturnAfterStep, ChannelStatusStep
     DEF Package
<1>3. UNCHANGED <<events, jobs, execution, faults>>
  BY DEF Package, ConfirmInvoice, RegisterInvoice, Hold, Switch, Release,
         ReturnBefore, ReturnAfter, ChannelStatus
<1>. QED
  BY <1>2, <1>3, PackageMoves

\* The bound on the events of all invoices bounds those of each.
LEMMA ScansOfEach ==
  ASSUME NEW s \in Invoice, ParcelTypes, Scans < MaxEvents
  PROVE  Len(events[s]) < MaxEvents
<1>. DEFINE Scanned == {scan \in Invoice \X (1..MaxEvents) :
                          scan[2] <= Len(events[scan[1]])}
            Own == {s} \X (1..MaxEvents)
<1>1. SUFFICES ASSUME ~(Len(events[s]) < MaxEvents) PROVE FALSE
  OBVIOUS
<1>2. Len(events[s]) \in Nat
  BY DEF ParcelTypes
<1>3. IsFiniteSet(1..MaxEvents) /\ Cardinality(1..MaxEvents) = MaxEvents
  BY FS_Interval
<1>4. IsFiniteSet(Invoice \X (1..MaxEvents))
  BY <1>3, FS_Product
<1>5. Scanned \in SUBSET (Invoice \X (1..MaxEvents))
  OBVIOUS
<1>6. IsFiniteSet(Scanned)
  BY <1>4, <1>5, FS_Subset
<1>7. IsFiniteSet({s}) /\ Cardinality({s}) = 1
  BY FS_Singleton
<1>8. Cardinality(Own) = 1 * MaxEvents
  <2>. HIDE DEF Own
  <2>1. Cardinality({s} \X (1..MaxEvents)) =
          Cardinality({s}) * Cardinality(1..MaxEvents)
    BY <1>3, <1>7, FS_Product, Zenon
  <2>. QED
    BY <1>3, <1>7, <2>1, Zenon DEF Own
<1>9. Own \in SUBSET Scanned
  BY <1>1, <1>2
<1>10. Cardinality(Own) <= Cardinality(Scanned)
  BY <1>6, <1>9, FS_Subset
<1>11. Scans = Cardinality(Scanned)
  BY DEF Scans
<1>12. Cardinality(Scanned) \in Nat
  BY <1>6, FS_CardinalityType
<1>. HIDE DEF Scanned, Own
<1>. QED
  BY <1>8, <1>10, <1>11, <1>12

LEMMA ScanStep ==
  ASSUME TrackingInv, NEW s \in Invoice, Scan(s) PROVE TrackingInv'
<1>1. RowsInv /\ JobTypes /\ ItemsInv /\ WorkInv /\ ParcelTypes /\ EventInv
  BY TrackingParts DEF RowsInv
<1>2. PICK status \in Moving :
        events' = [events EXCEPT ![s] = Append(events[s], status)]
  BY DEF Scan
<1>3. /\ shipment[s] # "ALLOCATED"
      /\ UNCHANGED <<carrier, packages, jobs, execution, faults>>
      /\ Len(events[s]) < MaxEvents
  BY <1>1, ScansOfEach DEF Scan
<1>. DEFINE grown == Append(events[s], status)
<1>4. events[s] \in Seq(Moving)
  BY <1>1 DEF ParcelTypes
<1>5. /\ grown \in Seq(Moving)
      /\ Len(grown) = Len(events[s]) + 1
      /\ \A n \in 1..Len(events[s]) : grown[n] = events[s][n]
  BY <1>4, AppendProperties
<1>6. Len(events[s]) \in Nat
  BY <1>4
<1>7. events' = [events EXCEPT ![s] = grown]
  BY <1>2
<1>. HIDE DEF grown
\* What was scanned stays.
<1>8. ASSUME NEW x \in Invoice
      PROVE  /\ events'[x] \in Seq(Moving)
             /\ Len(events[x]) \in Nat
             /\ Len(events'[x]) \in Nat
             /\ Len(events[x]) <= Len(events'[x])
             /\ Len(events'[x]) <= MaxEvents
             /\ \A n \in 1..Len(events[x]) : events'[x][n] = events[x][n]
             /\ x # s => events'[x] = events[x]
  <2>1. CASE x = s
    BY <1>1, <1>3, <1>5, <1>6, <1>7, <2>1 DEF ParcelTypes
  <2>2. CASE x # s
    <3>1. events'[x] = events[x] /\ events[x] \in Seq(Moving)
      BY <1>1, <1>7, <2>2 DEF ParcelTypes
    <3>. QED
      BY <1>1, <3>1 DEF EventInv
  <2>. QED
    BY <2>1, <2>2
<1>9. UNCHANGED <<shipment, booked, newest, reordered, group, current, member,
                  device>>
  BY <1>3 DEF carrier, packages
<1>10. ParcelTypes'
  <2>1. events' = [x \in Invoice |-> events'[x]]
    BY <1>1, <1>7 DEF ParcelTypes
  <2>2. events' \in [Invoice -> Seq(Moving)]
    BY <1>8, <2>1
  <2>. QED
    BY <1>1, <1>9, <2>2 DEF ParcelTypes
<1>11. GroupTypes' /\ CurrentInv' /\ DeviceFollowsShipment'
  BY <1>1, <1>9 DEF RowsInv, GroupTypes, CurrentInv, DeviceFollowsShipment
<1>12. EventInv'
  BY <1>1, <1>3, <1>8, <1>9 DEF EventInv
<1>13. NewestInv'
  <2>. SUFFICES ASSUME NEW x \in Invoice
                PROVE  /\ newest[x] <= Len(events'[x])
                       /\ \A n \in 1..MaxEvents :
                            booked[x][n] # None => n <= newest[x]
                       /\ newest[x] > 0 /\ x \notin reordered =>
                            shipment[x] = events'[x][newest[x]]
    BY <1>9 DEF NewestInv
  <2>1. newest[x] \in Nat
    BY <1>1 DEF ParcelTypes
  <2>2. /\ newest[x] <= Len(events[x])
        /\ \A n \in 1..MaxEvents : booked[x][n] # None => n <= newest[x]
        /\ newest[x] > 0 /\ x \notin reordered =>
             shipment[x] = events[x][newest[x]]
    BY <1>1 DEF RowsInv, NewestInv
  <2>3. newest[x] <= Len(events'[x])
    BY <1>8, <2>1, <2>2
  <2>4. newest[x] > 0 => events'[x][newest[x]] = events[x][newest[x]]
    <3>1. newest[x] > 0 => newest[x] \in 1..Len(events[x])
      BY <1>8, <2>1, <2>2
    <3>. QED
      BY <1>8, <3>1
  <2>. QED
    BY <2>2, <2>3, <2>4
<1>14. DeliveryInv'
  <2>. SUFFICES ASSUME NEW x \in Invoice, NEW n \in 1..MaxEvents,
                       booked[x][n] # None, events'[x][n] = "DELIVERED"
                PROVE  device[GroupOf(x)] \in {"FINAL", "RETURN"}
    BY <1>9 DEF DeliveryInv
  <2>1. n <= newest[x] /\ newest[x] <= Len(events[x]) /\ newest[x] \in Nat
    BY <1>1 DEF RowsInv, NewestInv, ParcelTypes
  <2>2. n \in 1..Len(events[x])
    BY <1>8, <2>1
  <2>3. events[x][n] = "DELIVERED"
    BY <1>8, <2>2
  <2>. QED
    BY <1>1, <2>3 DEF RowsInv, DeliveryInv
<1>15. JobTypes' /\ WorkInv'
  <2>1. ASSUME NEW e \in Tracker, NEW x \in DOMAIN work[e].items
        PROVE  work[e].items[x] <= Len(events'[x])
    <3>1. work[e] \in WorkRow
      BY <1>1 DEF WorkInv
    <3>2. x \in Invoice /\ work[e].items[x] \in Nat
      BY <3>1 DEF WorkRow
    <3>3. work[e].items[x] <= Len(events[x])
      BY <1>1, Zenon DEF WorkInv
    <3>. QED
      BY <1>8, <3>2, <3>3
  <2>2. UNCHANGED <<jobs, ousted, trackPc, work, faults>>
    BY <1>3 DEF execution
  <2>. QED
    BY <1>1, <2>1, <2>2 DEF JobTypes, WorkInv
<1>16. ItemsInv'
  <2>. SUFFICES ASSUME NEW j \in 1..Len(jobs), NEW x \in DOMAIN jobs[j].items
                PROVE  jobs[j].items[x] <= Len(events'[x])
    BY <1>3 DEF ItemsInv
  <2>1. jobs[j] \in JobRow
    BY <1>1 DEF JobTypes
  <2>2. x \in Invoice /\ jobs[j].items[x] \in Nat
    BY <2>1 DEF JobRow
  <2>3. jobs[j].items[x] <= Len(events[x])
    BY <1>1 DEF ItemsInv
  <2>. QED
    BY <1>8, <2>2, <2>3
<1>. QED
  BY <1>10, <1>11, <1>12, <1>13, <1>14, <1>15, <1>16, TrackingPartsLater
     DEF RowsInv

-----------------------------------------------------------------------------
(* The projection of an evidence.                                          *)

\* The target of a status is that of the device of a group that follows it.
LEMMA Targets ==
  /\ TargetStatus("IN_TRANSIT") = "DELIVERING"
  /\ TargetStatus("DELIVERED") = "FINAL"
  /\ TargetStatus("EXCEPTION") = "NONE_TRACKING"
  /\ \A status \in Moving : TargetStatus(status) \in DeviceStatus
BY DEF TargetStatus, Moving, DeviceStatus

\* What is known of an observation that reaches its group and is not refused.
LEMMA SeenFacts ==
  ASSUME RowsInv, NEW items \in UNION {[due -> Nat] : due \in SUBSET Invoice},
         \A s \in DOMAIN items : items[s] <= Len(events[s]),
         ~Refuses(items), NEW s \in Projected(items)
  PROVE  /\ s \in Invoice
         /\ items[s] \in 1..MaxEvents
         /\ items[s] <= Len(events[s])
         /\ StatusSeen(items, s) = events[s][items[s]]
         /\ StatusSeen(items, s) \in Moving
         /\ GroupOf(s) \in Group
         /\ current[GroupOf(s)] = s
         /\ shipment[s] # "ALLOCATED"
         /\ \/ Keeps(GroupOf(s), TargetStatus(StatusSeen(items, s)))
            \/ booked[s][items[s]] \in {None, Departed(GroupOf(s))}
<1>1. s \in Invoice /\ s \in DOMAIN items /\ items[s] \in Nat /\ items[s] > 0
  BY DEF Projected
<1>2. events[s] \in Seq(Moving) /\ Len(events[s]) <= MaxEvents
  BY <1>1 DEF RowsInv, ParcelTypes, EventInv
<1>3. items[s] \in 1..Len(events[s]) /\ items[s] \in 1..MaxEvents
  BY <1>1, <1>2
<1>4. events[s][items[s]] \in Moving
  BY <1>2, <1>3
<1>5. StatusSeen(items, s) = events[s][items[s]]
  BY DEF StatusSeen
<1>6. GroupOf(s) \in Group
  BY <1>1, InvoiceHasGroup
<1>7. ~Stale(s, events[s][items[s]])
  BY DEF Projected
<1>8. ~Refused(s, items[s])
  BY <1>1 DEF Refuses
<1>9. /\ CurrentGroup(GroupOf(s), s)
      /\ \/ Keeps(GroupOf(s), TargetStatus(events[s][items[s]]))
         \/ ~KeyRefuses(s, items[s], GroupOf(s))
  BY <1>1, <1>7, <1>8, Zenon DEF Refused
<1>10. shipment[s] # "ALLOCATED"
  <2>1. Len(events[s]) > 0
    BY <1>1, <1>2, <1>3
  <2>. QED
    BY <1>1, <2>1 DEF RowsInv, EventInv
<1>. QED
  BY <1>1, <1>3, <1>4, <1>5, <1>6, <1>9, <1>10 DEF CurrentGroup, KeyRefuses

\* What the projection does to an invoice and its group.
LEMMA ProjectionEffects ==
  ASSUME RowsInv, NEW items \in UNION {[due -> Nat] : due \in SUBSET Invoice},
         \A s \in DOMAIN items : items[s] <= Len(events[s]),
         ~Refuses(items), ProjectEvidence(items)
  PROVE  /\ \A s \in Projected(items) :
              /\ shipment'[s] = StatusSeen(items, s)
              /\ booked'[s] = IF s \in Movements(items)
                   THEN [booked[s] EXCEPT ![items[s]] = Departed(GroupOf(s))]
                   ELSE booked[s]
              /\ newest'[s] = IF items[s] > newest[s] THEN items[s] ELSE newest[s]
              /\ s \notin reordered' => ~(items[s] < newest[s])
              /\ device'[GroupOf(s)] = IF s \in Movements(items)
                   THEN TargetStatus(StatusSeen(items, s))
                   ELSE Departed(GroupOf(s))
              /\ group'[GroupOf(s)] =
                   IF StatusSeen(items, s) = "DELIVERED" /\ MayComplete(GroupOf(s))
                     THEN "COMPLETED" ELSE group[GroupOf(s)]
         /\ \A s \in Invoice \ Projected(items) :
              /\ shipment'[s] = shipment[s]
              /\ booked'[s] = booked[s]
              /\ newest'[s] = newest[s]
         /\ \A g \in Group : current[g] \notin Projected(items) =>
              device'[g] = device[g] /\ group'[g] = group[g]
         /\ shipment' = [s \in Invoice |-> shipment'[s]]
         /\ booked' = [s \in Invoice |-> booked'[s]]
         /\ newest' = [s \in Invoice |-> newest'[s]]
         /\ device' = [g \in Group |-> device'[g]]
         /\ group' = [g \in Group |-> group'[g]]
         /\ reordered \subseteq reordered'
         /\ reordered' \subseteq reordered \cup Projected(items)
<1>. DEFINE seen == Projected(items)
            moved == Movements(items)
            Seen(g) == CHOOSE s \in seen : GroupOf(s) = g
<1>1. moved \subseteq seen
  BY DEF Movements
<1>2. \A s \in seen : /\ s \in Invoice
                      /\ GroupOf(s) \in Group
                      /\ current[GroupOf(s)] = s
  BY SeenFacts
<1>3. \A s \in seen : Seen(GroupOf(s)) = s
  BY <1>2
<1>4. /\ shipment' = [s \in Invoice |->
           IF s \in seen THEN StatusSeen(items, s) ELSE shipment[s]]
      /\ device' = [g \in Group |->
           IF g \in {GroupOf(s) : s \in moved}
             THEN TargetStatus(StatusSeen(items, Seen(g)))
           ELSE IF g \in {GroupOf(s) : s \in seen} THEN Departed(g)
           ELSE device[g]]
      /\ booked' = [s \in Invoice |->
           IF s \in moved
             THEN [booked[s] EXCEPT ![items[s]] = Departed(GroupOf(s))]
             ELSE booked[s]]
      /\ group' = [g \in Group |->
           IF /\ \E s \in seen : /\ GroupOf(s) = g
                                 /\ StatusSeen(items, s) = "DELIVERED"
              /\ MayComplete(g)
             THEN "COMPLETED" ELSE group[g]]
      /\ newest' = [s \in Invoice |->
           IF s \in seen /\ items[s] > newest[s] THEN items[s]
                                                 ELSE newest[s]]
      /\ reordered' =
           reordered \cup {s \in seen : items[s] < newest[s]}
  BY Zenon DEF ProjectEvidence
<1>. HIDE DEF seen, moved, Seen
<1>5. ASSUME NEW s \in seen
      PROVE  /\ shipment'[s] = StatusSeen(items, s)
             /\ booked'[s] = IF s \in moved
                  THEN [booked[s] EXCEPT ![items[s]] = Departed(GroupOf(s))]
                  ELSE booked[s]
             /\ newest'[s] = IF items[s] > newest[s] THEN items[s] ELSE newest[s]
             /\ s \notin reordered' => ~(items[s] < newest[s])
             /\ device'[GroupOf(s)] = IF s \in moved
                  THEN TargetStatus(StatusSeen(items, s))
                  ELSE Departed(GroupOf(s))
             /\ group'[GroupOf(s)] =
                  IF StatusSeen(items, s) = "DELIVERED" /\ MayComplete(GroupOf(s))
                    THEN "COMPLETED" ELSE group[GroupOf(s)]
  <2>1. s \in Invoice /\ GroupOf(s) \in Group
    BY <1>2
  <2>2. GroupOf(s) \in {GroupOf(x) : x \in moved} <=> s \in moved
    BY <1>1, <1>2
  <2>3. device'[GroupOf(s)] = IF s \in moved
          THEN TargetStatus(StatusSeen(items, s)) ELSE Departed(GroupOf(s))
    BY <1>3, <1>4, <2>1, <2>2
  <2>4. (\E x \in seen : /\ GroupOf(x) = GroupOf(s)
                         /\ StatusSeen(items, x) = "DELIVERED")
          <=> StatusSeen(items, s) = "DELIVERED"
    BY <1>2
  <2>5. group'[GroupOf(s)] =
          IF StatusSeen(items, s) = "DELIVERED" /\ MayComplete(GroupOf(s))
            THEN "COMPLETED" ELSE group[GroupOf(s)]
    BY <1>4, <2>1, <2>4
  <2>. QED
    BY <1>4, <2>1, <2>3, <2>5
<1>6. ASSUME NEW s \in Invoice, s \notin seen
      PROVE  /\ shipment'[s] = shipment[s]
             /\ booked'[s] = booked[s]
             /\ newest'[s] = newest[s]
  BY <1>1, <1>4, <1>6
<1>7. ASSUME NEW g \in Group, current[g] \notin seen
      PROVE  device'[g] = device[g] /\ group'[g] = group[g]
  <2>1. \A s \in seen : GroupOf(s) # g
    BY <1>2, <1>7
  <2>. QED
    BY <1>1, <1>4, <2>1
<1>8. /\ shipment' = [s \in Invoice |-> shipment'[s]]
      /\ booked' = [s \in Invoice |-> booked'[s]]
      /\ newest' = [s \in Invoice |-> newest'[s]]
      /\ device' = [g \in Group |-> device'[g]]
      /\ group' = [g \in Group |-> group'[g]]
  BY <1>4
<1>9. reordered \subseteq reordered' /\ reordered' \subseteq reordered \cup seen
  BY <1>4
<1>. QED
  BY <1>5, <1>6, <1>7, <1>8, <1>9, Zenon DEF seen, moved

\* What a projection leaves as it was, and what it says of those that it moves.
LEMMA ProjectionRows ==
  ASSUME RowsInv, NEW items \in UNION {[due -> Nat] : due \in SUBSET Invoice},
         \A s \in DOMAIN items : items[s] <= Len(events[s]),
         ~Refuses(items), ProjectEvidence(items),
         UNCHANGED <<events, current, member>>
  PROVE  RowsInv'
<1>. DEFINE seen == Projected(items)
            moved == Movements(items)
<1>1. /\ ParcelTypes /\ GroupTypes /\ CurrentInv /\ EventInv /\ NewestInv
      /\ DeliveryInv /\ DeviceFollowsShipment
  BY DEF RowsInv
<1>2. \A s \in seen :
        /\ s \in Invoice
        /\ items[s] \in 1..MaxEvents
        /\ items[s] <= Len(events[s])
        /\ StatusSeen(items, s) = events[s][items[s]]
        /\ StatusSeen(items, s) \in Moving
        /\ GroupOf(s) \in Group
        /\ current[GroupOf(s)] = s
        /\ shipment[s] # "ALLOCATED"
        /\ \/ Keeps(GroupOf(s), TargetStatus(StatusSeen(items, s)))
           \/ booked[s][items[s]] \in {None, Departed(GroupOf(s))}
  BY SeenFacts
<1>3. \A s \in seen :
        /\ shipment'[s] = StatusSeen(items, s)
        /\ booked'[s] = IF s \in moved
             THEN [booked[s] EXCEPT ![items[s]] = Departed(GroupOf(s))]
             ELSE booked[s]
        /\ newest'[s] = IF items[s] > newest[s] THEN items[s] ELSE newest[s]
        /\ s \notin reordered' => ~(items[s] < newest[s])
        /\ device'[GroupOf(s)] = IF s \in moved
             THEN TargetStatus(StatusSeen(items, s)) ELSE Departed(GroupOf(s))
        /\ group'[GroupOf(s)] =
             IF StatusSeen(items, s) = "DELIVERED" /\ MayComplete(GroupOf(s))
               THEN "COMPLETED" ELSE group[GroupOf(s)]
  BY ProjectionEffects
<1>4. \A s \in Invoice \ seen : /\ shipment'[s] = shipment[s]
                              /\ booked'[s] = booked[s]
                              /\ newest'[s] = newest[s]
  BY ProjectionEffects
<1>5. \A g \in Group : current[g] \notin seen =>
        device'[g] = device[g] /\ group'[g] = group[g]
  BY ProjectionEffects
<1>6. /\ shipment' = [s \in Invoice |-> shipment'[s]]
      /\ booked' = [s \in Invoice |-> booked'[s]]
      /\ newest' = [s \in Invoice |-> newest'[s]]
      /\ device' = [g \in Group |-> device'[g]]
      /\ group' = [g \in Group |-> group'[g]]
  BY ProjectionEffects
<1>7. reordered \subseteq reordered' /\ reordered' \subseteq reordered \cup seen
  BY ProjectionEffects
<1>8. \A s \in seen :
        /\ s \in moved <=>
             /\ ~Keeps(GroupOf(s), TargetStatus(StatusSeen(items, s)))
             /\ booked[s][items[s]] = None
  BY DEF Movements
<1>9. \A g \in Group : GroupOf(current[g]) = g
  BY <1>1, GroupOfUnique DEF CurrentInv
<1>. HIDE DEF seen, moved
<1>20. \A s \in seen : s \in Invoice /\ items[s] \in 1..MaxEvents /\ items[s] \in Nat
  BY <1>2
<1>21. \A s \in seen : shipment'[s] \in Moving
  <2>1. \A s \in seen : StatusSeen(items, s) \in Moving
    BY <1>2, Zenon
  <2>2. \A s \in seen : shipment'[s] = StatusSeen(items, s)
    BY <1>3, Zenon
  <2>. QED
    BY <2>1, <2>2
<1>22. \A s \in seen :
         booked'[s] = IF s \in moved
           THEN [booked[s] EXCEPT ![items[s]] = Departed(GroupOf(s))]
           ELSE booked[s]
  BY <1>3, Zenon
<1>23. \A s \in seen :
         newest'[s] = IF items[s] > newest[s] THEN items[s] ELSE newest[s]
  BY <1>3, Zenon
<1>24. \A g \in Group : current[g] \in seen =>
         device'[g] = IF current[g] \in moved
           THEN TargetStatus(StatusSeen(items, current[g])) ELSE Departed(g)
  BY <1>3, <1>9, Zenon
<1>25. \A g \in Group : group'[g] \in {"COMPLETED", group[g]}
  <2>1. \A g \in Group : current[g] \in seen =>
          group'[g] \in {"COMPLETED", group[g]}
    BY <1>3, <1>9
  <2>. QED
    BY <1>5, <2>1
\* A device that was delivered or returned stays so.
<1>10. ASSUME NEW g \in Group, device[g] \in {"FINAL", "RETURN"}
       PROVE  device'[g] = device[g]
  <2>1. CASE current[g] \in seen
    <3>1. current[g] \notin moved
      BY <1>8, <1>9, <1>10, <2>1 DEF Keeps
    <3>. QED
      BY <1>3, <1>9, <1>10, <2>1, <3>1 DEF Departed
  <2>2. CASE current[g] \notin seen
    BY <1>5, <2>2
  <2>. QED
    BY <2>1, <2>2
<1>11. ParcelTypes'
  <2>1. shipment' \in [Invoice -> Parcel]
    <3>1. \A s \in Invoice : shipment'[s] \in Parcel
      BY <1>1, <1>4, <1>21 DEF ParcelTypes, Parcel
    <3>. QED
      BY <1>6, <3>1
  <2>2. booked' \in [Invoice -> [1..MaxEvents -> DeviceStatus \cup {None}]]
    <3>1. \A g \in Group : Departed(g) \in DeviceStatus
      BY <1>1 DEF GroupTypes, Departed, DeviceStatus
    <3>2. \A s \in Invoice :
            booked'[s] \in [1..MaxEvents -> DeviceStatus \cup {None}]
      <4>1. \A s \in seen : GroupOf(s) \in Group
        BY <1>2
      <4>. SUFFICES ASSUME NEW s \in Invoice
                    PROVE  booked'[s] \in
                             [1..MaxEvents -> DeviceStatus \cup {None}]
        OBVIOUS
      <4>2. booked[s] \in [1..MaxEvents -> DeviceStatus \cup {None}]
        BY <1>1 DEF ParcelTypes
      <4>3. CASE s \in moved /\ s \in seen
        <5>1. booked'[s] = [booked[s] EXCEPT ![items[s]] = Departed(GroupOf(s))]
          BY <1>22, <4>3
        <5>2. Departed(GroupOf(s)) \in DeviceStatus
          BY <3>1, <4>1, <4>3
        <5>. QED
          BY <4>2, <5>1, <5>2
      <4>4. CASE ~(s \in moved /\ s \in seen)
        BY <1>4, <1>22, <4>2, <4>4
      <4>. QED
        BY <4>3, <4>4
    <3>. QED
      BY <1>6, <3>2
  <2>3. newest' \in [Invoice -> Nat]
    <3>1. \A s \in Invoice : newest'[s] \in Nat
      BY <1>1, <1>4, <1>20, <1>23 DEF ParcelTypes
    <3>. QED
      BY <1>6, <3>1
  <2>4. reordered' \in SUBSET Invoice
    BY <1>1, <1>2, <1>7 DEF ParcelTypes
  <2>. QED
    BY <1>1, <2>1, <2>2, <2>3, <2>4 DEF ParcelTypes
<1>12. GroupTypes'
  <2>1. \A g \in Group : device'[g] \in DeviceStatus
    <3>1. \A g \in Group : Departed(g) \in DeviceStatus
      BY <1>1 DEF GroupTypes, Departed, DeviceStatus
    <3>2. \A s \in seen : TargetStatus(StatusSeen(items, s)) \in DeviceStatus
      BY <1>2, Targets
    <3>. SUFFICES ASSUME NEW g \in Group PROVE device'[g] \in DeviceStatus
      OBVIOUS
    <3>3. CASE current[g] \in seen
      BY <1>24, <3>1, <3>2, <3>3
    <3>4. CASE current[g] \notin seen
      BY <1>1, <1>5, <3>4 DEF GroupTypes
    <3>. QED
      BY <3>3, <3>4
  <2>2. \A g \in Group : group'[g] \in GroupStatus
    BY <1>1, <1>25 DEF GroupTypes, GroupStatus
  <2>. QED
    BY <1>1, <1>6, <2>1, <2>2 DEF GroupTypes
<1>13. CurrentInv'
  <2>. SUFFICES ASSUME NEW g \in Group
                PROVE  /\ current[g] \in InvoicesOf(g)
                       /\ current[g] = First[g] =>
                            \A s \in Spare[g] : shipment'[s] = "ALLOCATED"
                       /\ group'[g] = "FROZEN" =>
                            shipment'[current[g]] = "ALLOCATED"
    BY DEF CurrentInv
  <2>1. current[g] \in InvoicesOf(g) /\ current[g] \in Invoice
    BY <1>1 DEF CurrentInv, GroupTypes
  <2>2. ASSUME current[g] = First[g], NEW s \in Spare[g]
        PROVE  shipment'[s] = "ALLOCATED"
    <3>1. shipment[s] = "ALLOCATED"
      BY <1>1, <2>2 DEF CurrentInv
    <3>2. s \in Invoice /\ s \notin seen
      BY <1>2, <3>1
    <3>. QED
      BY <1>4, <3>1, <3>2
  <2>3. ASSUME group'[g] = "FROZEN" PROVE shipment'[current[g]] = "ALLOCATED"
    <3>1. group[g] = "FROZEN"
      BY <1>3, <1>5, <1>9, <2>3
    <3>2. shipment[current[g]] = "ALLOCATED"
      BY <1>1, <3>1 DEF CurrentInv
    <3>3. current[g] \notin seen
      BY <1>2, <3>2
    <3>. QED
      BY <1>4, <2>1, <3>2, <3>3
  <2>4. current[g] = First[g] => \A s \in Spare[g] : shipment'[s] = "ALLOCATED"
    BY <2>2, Zenon
  <2>. QED
    BY <2>1, <2>3, <2>4, Zenon
<1>14. EventInv'
  <2>1. \A s \in Invoice : shipment'[s] = "ALLOCATED" => shipment[s] = "ALLOCATED"
    BY <1>2, <1>3, <1>4 DEF Moving
  <2>. QED
    BY <1>1, <2>1 DEF EventInv
<1>15. NewestInv'
  <2>. SUFFICES ASSUME NEW s \in Invoice
                PROVE  /\ newest'[s] <= Len(events[s])
                       /\ \A n \in 1..MaxEvents :
                            booked'[s][n] # None => n <= newest'[s]
                       /\ newest'[s] > 0 /\ s \notin reordered' =>
                            shipment'[s] = events[s][newest'[s]]
    BY DEF NewestInv
  <2>1. /\ newest[s] <= Len(events[s])
        /\ \A n \in 1..MaxEvents : booked[s][n] # None => n <= newest[s]
        /\ newest[s] > 0 /\ s \notin reordered =>
             shipment[s] = events[s][newest[s]]
    BY <1>1 DEF NewestInv
  <2>2. newest[s] \in Nat
    BY <1>1 DEF ParcelTypes
  <2>3. CASE s \notin seen
    BY <1>4, <1>7, <2>1, <2>3
  <2>4. CASE s \in seen
    <3>1. newest'[s] \in Nat /\ newest[s] <= newest'[s] /\ items[s] <= newest'[s]
      BY <1>20, <1>23, <2>2, <2>4
    <3>2. newest'[s] <= Len(events[s])
      BY <1>2, <1>3, <2>1, <2>4
    <3>3. ASSUME NEW n \in 1..MaxEvents, booked'[s][n] # None PROVE n <= newest'[s]
      <4>1. n = items[s] \/ booked[s][n] # None
        <5>1. CASE s \in moved
          <6>1. booked'[s] = [booked[s] EXCEPT ![items[s]] = Departed(GroupOf(s))]
            BY <1>22, <2>4, <5>1
          <6>2. DOMAIN booked[s] = 1..MaxEvents
            BY <1>1 DEF ParcelTypes
          <6>. QED
            BY <3>3, <6>1, <6>2
        <5>2. CASE s \notin moved
          BY <1>22, <2>4, <3>3, <5>2
        <5>. QED
          BY <5>1, <5>2
      <4>. QED
        BY <2>1, <2>2, <3>1, <4>1
    <3>4. ASSUME s \notin reordered' PROVE shipment'[s] = events[s][newest'[s]]
      <4>1. ~(items[s] < newest[s]) /\ items[s] \in Nat
        BY <1>3, <1>20, <2>4, <3>4
      <4>2. newest'[s] = items[s]
        BY <1>23, <2>2, <2>4, <4>1
      <4>. QED
        BY <1>2, <1>3, <2>4, <4>2
    <3>. QED
      BY <3>2, <3>3, <3>4
  <2>. QED
    BY <2>3, <2>4
<1>16. DeliveryInv'
  <2>. SUFFICES ASSUME NEW s \in Invoice, NEW n \in 1..MaxEvents,
                       booked'[s][n] # None, events[s][n] = "DELIVERED"
                PROVE  device'[GroupOf(s)] \in {"FINAL", "RETURN"}
    BY DEF DeliveryInv
  <2>1. CASE booked[s][n] # None
    BY <1>1, <1>10, <2>1, InvoiceHasGroup DEF DeliveryInv
  <2>2. CASE booked[s][n] = None
    <3>1. s \in seen /\ s \in moved /\ n = items[s]
      <4>1. booked'[s] # booked[s]
        BY <2>2
      <4>2. s \in seen /\ s \in moved
        BY <1>4, <1>22, <4>1
      <4>3. booked'[s] = [booked[s] EXCEPT ![items[s]] = Departed(GroupOf(s))]
        BY <1>22, <4>2
      <4>. QED
        BY <1>1, <2>2, <4>2, <4>3 DEF ParcelTypes
    <3>2. /\ GroupOf(s) \in Group /\ current[GroupOf(s)] = s
          /\ StatusSeen(items, s) = "DELIVERED"
      BY <1>2, <3>1
    <3>3. device'[GroupOf(s)] = TargetStatus("DELIVERED")
      BY <1>24, <3>1, <3>2
    <3>. QED
      BY <3>3, Targets
  <2>. QED
    BY <2>1, <2>2
<1>17. DeviceFollowsShipment'
  <2>. SUFFICES ASSUME NEW g \in Group
                PROVE  /\ shipment'[current[g]] = "DELIVERED" =>
                            /\ device'[g] \in {"FINAL", "RETURN"}
                            /\ group'[g] \in {"COMPLETED", "INVALIDATED"}
                       /\ current[g] \notin reordered' /\ device'[g] # "RETURN" =>
                            /\ shipment'[current[g]] = "IN_TRANSIT" =>
                                 device'[g] \in {"DELIVERING", "FINAL"}
                            /\ shipment'[current[g]] = "EXCEPTION" =>
                                 device'[g] \in {"NONE_TRACKING", "FINAL"}
    BY DEF DeviceFollowsShipment
  <2>1. current[g] \in Invoice
    BY <1>1 DEF GroupTypes
  <2>2. CASE current[g] \notin seen
    <3>1. /\ shipment'[current[g]] = shipment[current[g]]
          /\ device'[g] = device[g] /\ group'[g] = group[g]
          /\ current[g] \notin reordered' => current[g] \notin reordered
      BY <1>4, <1>5, <1>7, <2>1, <2>2
    <3>. QED
      BY <1>1, <3>1 DEF DeviceFollowsShipment
  <2>3. CASE current[g] \in seen
    <3>. DEFINE s == current[g]
                n == items[s]
                status == StatusSeen(items, s)
    <3>1. /\ GroupOf(s) = g /\ s \in Invoice
          /\ n \in 1..MaxEvents
          /\ status = events[s][n] /\ status \in Moving
          /\ shipment[s] # "ALLOCATED" /\ shipment'[s] = status
      BY <1>2, <1>3, <1>9, <2>3
    <3>2. /\ s \in moved => device'[g] = TargetStatus(status)
          /\ s \notin moved => device'[g] = Departed(g)
          /\ group'[g] = IF status = "DELIVERED" /\ MayComplete(g)
                           THEN "COMPLETED" ELSE group[g]
          /\ s \notin reordered' => ~(n < newest[s])
      BY <1>3, <2>3, <3>1
    <3>3. s \notin moved =>
            \/ Keeps(g, TargetStatus(status))
            \/ booked[s][n] = Departed(g) /\ booked[s][n] # None
      BY <1>2, <1>8, <2>3, <3>1
    <3>. HIDE DEF s, n, status
    <3>4. s = current[g]
      BY DEF s
    \* A delivery takes the device and the group with it.
    <3>5. ASSUME status = "DELIVERED"
          PROVE  /\ device'[g] \in {"FINAL", "RETURN"}
                 /\ group'[g] \in {"COMPLETED", "INVALIDATED"}
      <4>1. ASSUME s \in moved PROVE device'[g] \in {"FINAL", "RETURN"}
        <5>1. device'[g] = TargetStatus("DELIVERED")
          BY <3>2, <3>5, <4>1
        <5>. QED
          BY <5>1, Targets
      <4>2. ASSUME s \notin moved PROVE device'[g] \in {"FINAL", "RETURN"}
        <5>1. CASE Keeps(g, TargetStatus(status))
          <6>1. device[g] \in {"FINAL", "RETURN"}
            BY <3>5, <5>1, Targets DEF Keeps
          <6>. QED
            BY <1>10, <6>1
        <5>2. CASE booked[s][n] # None
          <6>1. device[g] \in {"FINAL", "RETURN"}
            BY <1>1, <3>1, <3>5, <5>2 DEF DeliveryInv
          <6>. QED
            BY <1>10, <6>1
        <5>. QED
          BY <3>3, <4>2, <5>1, <5>2
      <4>3. group[g] # "FROZEN" /\ group[g] \in GroupStatus
        BY <1>1, <3>1, <3>4 DEF CurrentInv, GroupTypes
      <4>4. group'[g] \in {"COMPLETED", "INVALIDATED"}
        BY <3>2, <3>5, <4>3 DEF MayComplete, GroupStatus
      <4>. QED
        BY <4>1, <4>2, <4>4
    \* Otherwise the device has the target, or it is final; an event that has
    \* moved it before is the newest, and it was followed already.
    <3>6. ASSUME s \notin reordered', device'[g] # "RETURN",
                 status \in {"IN_TRANSIT", "EXCEPTION"}
          PROVE  device'[g] \in {TargetStatus(status), "FINAL"}
      <4>1. CASE s \in moved
        BY <3>2, <4>1
      <4>2. CASE s \notin moved /\ Keeps(g, TargetStatus(status))
        <5>1. TargetStatus(status) # "PACKED"
          BY <3>6, Targets
        <5>2. Departed(g) = device[g]
          BY <4>2, <5>1 DEF Keeps, Departed
        <5>. QED
          BY <3>2, <3>6, <4>2, <5>2 DEF Keeps
      <4>3. CASE s \notin moved /\ booked[s][n] # None
        <5>1. n <= newest[s] /\ newest[s] \in Nat
          BY <1>1, <3>1, <4>3 DEF NewestInv, ParcelTypes
        <5>2. n = newest[s]
          BY <3>1, <3>2, <3>6, <5>1
        <5>3. s \notin reordered
          BY <1>7, <3>6
        <5>4. shipment[s] = status
          BY <1>1, <3>1, <5>2, <5>3 DEF NewestInv
        <5>5. device'[g] = Departed(g)
          BY <3>2, <4>3
        <5>6. device[g] # "RETURN"
          BY <3>6, <5>5 DEF Departed
        <5>7. device[g] \in {TargetStatus(status), "FINAL"}
          BY <1>1, <3>4, <3>6, <5>3, <5>4, <5>6, Targets DEF DeviceFollowsShipment
        <5>8. Departed(g) = device[g]
          BY <3>6, <5>7, Targets DEF Departed
        <5>. QED
          BY <5>5, <5>7, <5>8
      <4>. QED
        BY <3>3, <4>1, <4>2, <4>3
    <3>. QED
      BY <3>1, <3>4, <3>5, <3>6, Targets
  <2>. QED
    BY <2>2, <2>3
<1>. QED
  BY <1>11, <1>12, <1>13, <1>14, <1>15, <1>16, <1>17 DEF RowsInv

LEMMA ApplyStep ==
  ASSUME TrackingInv, NEW e \in Tracker, Apply(e) PROVE TrackingInv'
<1>. DEFINE j == work[e].job
<1>1. RowsInv /\ JobTypes /\ ItemsInv /\ WorkInv
  BY TrackingParts
<1>2. /\ trackPc[e] = "apply"
      /\ ~Refuses(jobs[j].items)
      /\ ProjectEvidence(jobs[j].items)
      /\ jobs' = [jobs EXCEPT ![j] = Succeeded(jobs[j])]
      /\ \/ Goes(e, "drain", NoWork) /\ UNCHANGED ousted
         \/ EndsRun(e)
      /\ UNCHANGED <<events, current, member, faults>>
  BY DEF Apply
<1>3. j \in 1..Len(jobs)
  <2>1. Len(jobs) \in Nat
    BY <1>1 DEF JobTypes
  <2>2. work[e] \in WorkRow
    BY <1>1 DEF WorkInv
  <2>3. j \in Nat
    BY <2>2 DEF WorkRow
  <2>4. j <= Len(jobs) /\ j > 0
    BY <1>1, <1>2, Zenon DEF WorkInv
  <2>. QED
    BY <2>1, <2>3, <2>4
<1>4. jobs[j] \in JobRow
  BY <1>1, <1>3 DEF JobTypes
<1>5. jobs[j].items \in UNION {[due -> Nat] : due \in SUBSET Invoice}
  BY <1>4 DEF JobRow
<1>6. \A s \in DOMAIN jobs[j].items : jobs[j].items[s] <= Len(events[s])
  BY <1>1, <1>3 DEF ItemsInv
<1>. HIDE DEF j
<1>7. RowsInv'
  BY <1>1, <1>2, <1>5, <1>6, ProjectionRows
<1>8. /\ Succeeded(jobs[j]) \in JobRow
      /\ Succeeded(jobs[j]).items = jobs[j].items
      /\ Succeeded(jobs[j]).status # "PROCESSING"
      /\ Succeeded(jobs[j]).owner \notin Tracker
  BY <1>4 DEF Succeeded, JobRow
<1>9. JobTypes' /\ ItemsInv' /\ Len(jobs') = Len(jobs)
  BY <1>1, <1>2, <1>3, <1>8, JobChanges
<1>10. ousted' \in SUBSET Tracker /\ faults' \in 0..MaxFaults
  BY <1>1, <1>2 DEF WorkInv, EndsRun
<1>11. Goes(e, "drain", NoWork) \/ Goes(e, "idle", NoWork)
  BY <1>2 DEF EndsRun
<1>12. WorkInv'
  BY <1>1, <1>2, <1>9, <1>10, <1>11, WorkDropped
<1>. QED
  BY <1>7, <1>9, <1>12, TrackingPartsLater

LEMMA TrackingStep == TrackingInv /\ [TrackingNext]_trackVars => TrackingInv'
<1>. SUFFICES ASSUME TrackingInv, [TrackingNext]_trackVars PROVE TrackingInv'
  OBVIOUS
<1>1. ASSUME NEW e \in Tracker, Work(e) \/ Breaks(e) \/ CrashTracker(e)
      PROVE  TrackingInv'
  BY <1>1, QuietStep, ApplyStep DEF Work
<1>2. ASSUME NEW j \in 1..MaxJobs, ClaimLapses(j) PROVE TrackingInv'
  BY <1>2, LapseOfClaimStep
<1>3. ASSUME NEW s \in Invoice, Scan(s) PROVE TrackingInv'
  BY <1>3, ScanStep
<1>4. ASSUME NEW g \in Group, Package(g) PROVE TrackingInv'
  BY <1>4, PackageStep
<1>5. CASE UNCHANGED trackVars
  <2>1. UNCHANGED <<events, carrier, packages, jobs, execution, faults>>
    BY <1>5 DEF trackVars
  <2>2. RowsInv'
    BY <2>1, TrackingParts, RowsStand
  <2>. QED
    BY <2>1, <2>2, PackageMoves
<1>. QED
  BY <1>1, <1>2, <1>3, <1>4, <1>5 DEF TrackingNext

\* The inductive invariant of the tracking of deliveries.
THEOREM TrackingInductive == TrackingSpec => []TrackingInv
BY TrackingInitInv, TrackingStep, PTL DEF TrackingSpec

\* Every row of the tracking has its type, and a job has an owner exactly
\* while it is processed (claimIntegrationProjectionJob).
THEOREM TrackingTypeCorrect == TrackingSpec => []TrackingTypeOK
<1>1. ASSUME TrackingInv PROVE TrackingTypeOK
  <2>1. Len(jobs) \in Nat /\ DOMAIN jobs = 1..Len(jobs)
    BY <1>1 DEF TrackingInv, JobTypes
  <2>2. \A j \in DOMAIN jobs :
          /\ jobs[j].status \in {"PENDING", "PROCESSING", "SUCCEEDED", "FAILED"}
          /\ jobs[j].status = "PROCESSING" <=> jobs[j].owner \in Tracker
    <3>1. \A j \in 1..Len(jobs) : jobs[j] \in JobRow
      BY <1>1 DEF TrackingInv, JobTypes
    <3>2. \A entry \in JobRow :
            entry.status \in {"PENDING", "PROCESSING", "SUCCEEDED", "FAILED"}
      BY DEF JobRow
    <3>. QED
      BY <1>1, <2>1, <3>1, <3>2 DEF TrackingInv, JobTypes
  <2>3. \A e \in Tracker : work[e].job \in 0..Len(jobs)
    BY <1>1, <2>1 DEF TrackingInv, WorkInv, WorkRow
  <2>. QED
    BY <1>1, <2>2, <2>3 DEF TrackingInv, ParcelTypes, GroupTypes, WorkInv,
       TrackingTypeOK, Parcel, GroupStatus, DeviceStatus
<1>. QED
  BY TrackingInductive, <1>1, PTL

\* Whatever evidences, returns, replacements and the channel bring in whatever
\* order (projectPackageGroupDeliveryStatus), a device follows the shipment of
\* its group.
THEOREM DeviceFollowsShipmentAlways == TrackingSpec => []DeviceFollowsShipment
<1>1. TrackingInv => DeviceFollowsShipment
  BY DEF TrackingInv
<1>. QED
  BY TrackingInductive, <1>1, PTL
=============================================================================
