------------------------- MODULE IntegrationCommand -------------------------
(***************************************************************************)
(* One command to an external provider: its row of integration_commands,   *)
(* its attempts and its evidences (integration/command-service.ts).        *)
(*                                                                         *)
(* registerIntegrationCommand is called by the sales channel's writes; the *)
(* execution below it has no worker yet, and its callers are the tests.    *)
(* The lease token and the generation of a claim are told apart by the     *)
(* executor that holds them: an executor has one claim at a time.          *)
(***************************************************************************)
EXTENDS Integers, Sequences, FiniteSets

CONSTANTS
  Executor,    \* executors of the command
  Nobody,      \* no lease_token
  MaxAttempts  \* bound on the attempts

ASSUME CommandAssumption ==
  /\ Nobody \notin Executor
  /\ MaxAttempts \in Nat

VARIABLES
  cmdStatus,    \* command_status, "NONE" before it is registered
  owner,        \* whose lease_token and claim_generation the command has
  leased,       \* locked_until has not passed
  cmdAttempts,  \* dispatch_status of each attempt
  evidence,     \* the evidences, each an attempt and its outcome
  cmdPc,        \* where each executor stands
  mine,         \* the attempt each executor has claimed
  answer,       \* what its call gave each executor
  cmdCalls,     \* history: the calls of the provider
  applied       \* history: whether the provider has applied one

command == <<cmdStatus, owner, leased, cmdAttempts, evidence>>
provider == <<cmdCalls, applied>>
cmdVars == <<command, cmdPc, mine, answer, provider>>

Outcome == {"SUCCEEDED", "NOT_APPLIED", "AMBIGUOUS"}
NoAnswer == [outcome |-> "AMBIGUOUS", received |-> FALSE]

CommandInit ==
  /\ cmdStatus = "NONE"
  /\ owner = Nobody
  /\ leased = FALSE
  /\ cmdAttempts = <<>>
  /\ evidence = {}
  /\ cmdPc = [e \in Executor |-> "idle"]
  /\ mine = [e \in Executor |-> 0]
  /\ answer = [e \in Executor |-> NoAnswer]
  /\ cmdCalls = 0
  /\ applied = FALSE

Retires(e) ==
  /\ cmdPc' = [cmdPc EXCEPT ![e] = "idle"]
  /\ mine' = [mine EXCEPT ![e] = 0]
  /\ answer' = [answer EXCEPT ![e] = NoAnswer]

Advances(e, to) ==
  /\ cmdPc' = [cmdPc EXCEPT ![e] = to]
  /\ UNCHANGED <<mine, answer>>

\* A repeated operation_key changes nothing.
Register ==
  /\ cmdStatus = "NONE"
  /\ cmdStatus' = "PENDING"
  /\ UNCHANGED <<owner, leased, cmdAttempts, evidence, cmdPc, mine, answer,
                 provider>>

Claim(e) ==
  /\ cmdPc[e] = "idle"
  /\ cmdStatus = "PENDING"
  /\ Len(cmdAttempts) < MaxAttempts
  /\ cmdStatus' = "DISPATCHING"
  /\ owner' = e
  /\ leased' = TRUE
  /\ cmdAttempts' = Append(cmdAttempts, "CREATED")
  /\ cmdPc' = [cmdPc EXCEPT ![e] = "claimed"]
  /\ mine' = [mine EXCEPT ![e] = Len(cmdAttempts) + 1]
  /\ UNCHANGED <<evidence, answer, provider>>

\* lockOwnedCommand
Owned(e) == cmdStatus = "DISPATCHING" /\ owner = e

Released == owner' = Nobody /\ leased' = FALSE

\* The command ends with the evidence of an attempt, and gives its lease up.
Ends(outcome, n, dispatch) ==
  /\ cmdStatus' = outcome
  /\ Released
  /\ cmdAttempts' = [cmdAttempts EXCEPT ![n] = dispatch]
  /\ evidence' = evidence \cup
       {[attempt |-> n, outcome |-> outcome,
         nth |-> Cardinality(evidence) + 1]}

Created(e) == Owned(e) /\ cmdAttempts[mine[e]] = "CREATED"

\* failIntegrationCommandBeforeDispatch: the adapter cannot prepare the call.
FailBeforeDispatch(e) ==
  /\ cmdPc[e] = "claimed"
  /\ IF Created(e) THEN Ends("FAILED_LOCAL", mine[e], "FAILED_LOCAL")
                   ELSE UNCHANGED command
  /\ Retires(e)
  /\ UNCHANGED provider

\* Mutant of MayDispatch: the claim on the command is not compared.
MayDispatchAnyway(e) == cmdStatus # "PENDING"

MayDispatch(e) == Created(e)

\* markIntegrationDispatchStarted
MarkDispatched(e) ==
  /\ cmdPc[e] = "claimed"
  /\ IF MayDispatch(e)
       THEN /\ cmdAttempts' = [cmdAttempts EXCEPT ![mine[e]] = "DISPATCHED"]
            /\ Advances(e, "dispatching")
       ELSE Retires(e) /\ UNCHANGED cmdAttempts
  /\ UNCHANGED <<cmdStatus, owner, leased, evidence, provider>>

\* External: the provider applies the request or not, and answers in a way
\* that can be classified, in another, or not at all.
DispatchCommand(e) ==
  /\ cmdPc[e] = "dispatching"
  /\ cmdCalls' = cmdCalls + 1
  /\ \E done \in BOOLEAN, received \in BOOLEAN, clear \in BOOLEAN :
       /\ applied' = (applied \/ done)
       /\ clear => received
       /\ answer' = [answer EXCEPT ![e] =
            [received |-> received,
             outcome |-> IF ~clear THEN "AMBIGUOUS"
                         ELSE IF done THEN "SUCCEEDED" ELSE "NOT_APPLIED"]]
  /\ cmdPc' = [cmdPc EXCEPT ![e] = "answered"]
  /\ UNCHANGED <<command, mine>>

\* Mutant of MayFinalize: the executor's own attempt decides alone.
MayFinalizeLate(e) == cmdAttempts[mine[e]] # "CREATED"

MayFinalize(e) == Owned(e) /\ cmdAttempts[mine[e]] = "DISPATCHED"

\* finalizeIntegrationCommand; an executor that lost the command throws.
FinalizeCommand(e) ==
  /\ cmdPc[e] = "answered"
  /\ IF MayFinalize(e)
       THEN Ends(answer[e].outcome, mine[e],
                 IF answer[e].received THEN "RESPONSE_RECEIVED"
                                       ELSE "CONNECTION_LOST")
       ELSE UNCHANGED command
  /\ Retires(e)
  /\ UNCHANGED provider

\* The process dies, or a commit fails for good: nothing catches that.
Crash(e) ==
  /\ cmdPc[e] # "idle"
  /\ Retires(e)
  /\ UNCHANGED <<command, provider>>

CommandLeaseLapses ==
  /\ leased
  /\ leased' = FALSE
  /\ UNCHANGED <<cmdStatus, owner, cmdAttempts, evidence, cmdPc, mine, answer,
                 provider>>

Undispatched(n) == cmdAttempts[n] \in {"CREATED", "FAILED_LOCAL"}

\* recoverExpiredIntegrationCommands, whose transaction has the command.
RecoverCommand ==
  LET n == Len(cmdAttempts)
  IN  /\ cmdStatus = "DISPATCHING"
      /\ ~leased
      /\ IF Undispatched(n)
           THEN /\ cmdStatus' = "PENDING"
                /\ Released
                /\ cmdAttempts' = [cmdAttempts EXCEPT ![n] = "FAILED_LOCAL"]
                /\ UNCHANGED evidence
           ELSE Ends("AMBIGUOUS", n, "CONNECTION_LOST")
      /\ UNCHANGED <<cmdPc, mine, answer, provider>>

Execute(e) ==
  \/ Claim(e)
  \/ FailBeforeDispatch(e)
  \/ MarkDispatched(e)
  \/ DispatchCommand(e)
  \/ FinalizeCommand(e)
  \/ Crash(e)

CommandNext ==
  \/ Register
  \/ \E e \in Executor : Execute(e)
  \/ CommandLeaseLapses
  \/ RecoverCommand

CommandSpec == CommandInit /\ [][CommandNext]_cmdVars

-----------------------------------------------------------------------------
\* Every variable holds a value of its type, and a command has a lease token
\* exactly while it is dispatching.
CommandTypeOK ==
  /\ cmdStatus \in {"NONE", "PENDING", "DISPATCHING", "FAILED_LOCAL"}
                  \cup Outcome
  /\ cmdStatus = "DISPATCHING" <=> owner \in Executor
  /\ leased => cmdStatus = "DISPATCHING"
  /\ cmdAttempts \in Seq({"CREATED", "DISPATCHED", "RESPONSE_RECEIVED",
                       "CONNECTION_LOST", "FAILED_LOCAL"})
  /\ Len(cmdAttempts) <= MaxAttempts
  /\ \A v \in evidence : v.attempt \in DOMAIN cmdAttempts
  /\ mine \in [Executor -> 0..MaxAttempts]
  /\ cmdCalls \in Nat

\* However leases lapse and executors come late, the provider is called once
\* at most for a command, and a command that waits for another attempt or
\* has failed before its dispatch was never sent.
SentOnce ==
  /\ cmdCalls <= 1
  /\ cmdStatus \in {"NONE", "PENDING", "FAILED_LOCAL"} => cmdCalls = 0

\* A command has one evidence when it has ended and none before, and the
\* evidence says of the provider what is the case, or that it is not known.
EvidenceTells ==
  /\ Cardinality(evidence) =
       IF cmdStatus \in {"NONE", "PENDING", "DISPATCHING"} THEN 0 ELSE 1
  /\ \A v \in evidence :
       /\ v.outcome = cmdStatus
       /\ v.outcome = "SUCCEEDED" => applied
       /\ v.outcome = "NOT_APPLIED" => ~applied
=============================================================================
