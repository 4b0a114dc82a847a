--------------------------- MODULE ServerShutdown ---------------------------
(***************************************************************************)
(* The graceful stop of one server process: the console's shutdown         *)
(* coordinator (tools/quickhack-shutdown-coordinator.mjs) drives the       *)
(* shutdown operation of the backend (admin/server-shutdown-service.ts),   *)
(* which drains the worker manager (workers/manager.ts) and the executions *)
(* it knows of (workers/shutdown-runtime.ts).                              *)
(*                                                                         *)
(* The process is one event loop: a step runs from one await to the next.  *)
(* An actor is a lane, whose timer runs due jobs one after the other, or a *)
(* request that runs one job by hand.                                      *)
(***************************************************************************)
EXTENDS FiniteSets

CONSTANTS
  Lane,      \* the manager's tick loops
  MainLane,  \* the lane that first runs the recovery procedures
  Request    \* slots for requests that run a job by hand

ASSUME ServerShutdownAssumption ==
  /\ MainLane \in Lane
  /\ Lane \cap Request = {}

VARIABLES
  requested,  \* shutdown-runtime's flag, with its abort signal
  starting,   \* the manager waits for the registration of the jobs
  started,    \* the manager's interval timers are armed
  waking,     \* an immediate tick is scheduled
  pc,         \* where each lane and each request stands
  drain,      \* waitForWorkerManagerToDrain, as awaited by the finalization
  phase,      \* phase of the backend's shutdown operation
  console,    \* phase of the console's shutdown coordinator
  up          \* whether the backend process runs

manager == <<starting, started, waking>>
vars == <<requested, manager, pc, drain, phase, console, up>>

Actor == Lane \cup Request

\* registerActiveWorker was called and unregister was not.
Registered(a) == pc[a] \in {"executing", "failing"}
activeWorkers == {a \in Actor : Registered(a)}

Init ==
  /\ requested = FALSE
  /\ starting = FALSE
  /\ started = FALSE
  /\ waking = FALSE
  /\ pc = [a \in Actor |-> "idle"]
  /\ drain = "none"
  /\ phase = "NONE"
  /\ console = "none"
  /\ up = TRUE

(***************************************************************************)
(* The worker manager.                                                     *)
(***************************************************************************)
\* startWorkerManager, which the server's boot and the jobs' page call.
StartManager ==
  /\ up
  /\ ~requested
  /\ ~started
  /\ ~starting
  /\ starting' = TRUE
  /\ UNCHANGED <<requested, started, waking, pc, drain, phase, console, up>>

ArmsTimers == ~requested

\* The jobs are registered: the timers are armed unless a shutdown began.
ManagerReady ==
  /\ starting
  /\ starting' = FALSE
  /\ started' = ArmsTimers
  /\ UNCHANGED <<requested, waking, pc, drain, phase, console, up>>

ManagerFails ==
  /\ starting
  /\ starting' = FALSE
  /\ UNCHANGED <<requested, started, waking, pc, drain, phase, console, up>>

Wake ==
  /\ up
  /\ ~requested
  /\ waking' = TRUE
  /\ starting' = (starting \/ ~started)
  /\ UNCHANGED <<requested, started, pc, drain, phase, console, up>>

\* Where a tick stands at its first await.
FirstAwait(l) == IF l = MainLane THEN {"recovering", "registering"}
                                 ELSE {"registering"}

Tick(l) ==
  /\ started
  /\ ~requested
  /\ pc[l] = "idle"
  /\ \E s \in FirstAwait(l) : pc' = [pc EXCEPT ![l] = s]
  /\ UNCHANGED <<requested, manager, drain, phase, console, up>>

\* The immediate tick enters every lane that is not in a tick already.
ImmediateTick ==
  /\ waking
  /\ waking' = FALSE
  /\ \E s \in FirstAwait(MainLane) :
       pc' = [a \in Actor |->
                IF a \notin Lane \/ pc[a] # "idle" \/ requested THEN pc[a]
                ELSE IF a = MainLane THEN s ELSE "registering"]
  /\ UNCHANGED <<requested, starting, started, drain, phase, console, up>>

(***************************************************************************)
(* The actors.                                                             *)
(***************************************************************************)
\* A recovery procedure ends; the shutdown is looked at before the next one.
Recover(l) ==
  /\ pc[l] = "recovering"
  /\ pc' = [pc EXCEPT ![l] = IF requested THEN "idle" ELSE "registering"]
  /\ UNCHANGED <<requested, manager, drain, phase, console, up>>

\* Mutant of MayClaim: the loop does not look at the shutdown.
MayClaimAnyway == TRUE

\* assertWorkerRunsAllowed at the head of the loop and of a run by hand.
MayClaim == ~requested

\* ensureRegisteredWorkerJobs ends, and the loop reaches its first claim.
EnterLoop(l) ==
  /\ pc[l] = "registering"
  /\ \/ MayClaim /\ pc' = [pc EXCEPT ![l] = "claiming"]
     \/ pc' = [pc EXCEPT ![l] = "idle"]
  /\ UNCHANGED <<requested, manager, drain, phase, console, up>>

\* runWorkerJob, runWorkerJobImmediately or runWorkerJobWithExecutor.
RunByHand(r) ==
  /\ up
  /\ pc[r] = "idle"
  /\ MayClaim
  /\ pc' = [pc EXCEPT ![r] = "claiming"]
  /\ UNCHANGED <<requested, manager, drain, phase, console, up>>

\* Mutant of AfterClaim: the worker's code is called whatever happened
\* during the claim.
AfterClaimExecutes == "executing"

AfterClaim == IF requested THEN "failing" ELSE "executing"

\* The claim's transaction ends.  A claimed job is registered as active and
\* the shutdown is looked at once more before the worker's code is called.
Claim(a) ==
  /\ pc[a] = "claiming"
  /\ pc' = [pc EXCEPT ![a] = AfterClaim]
  /\ UNCHANGED <<requested, manager, drain, phase, console, up>>

\* There is nothing to claim, or the claim fails; an immediate run sleeps.
ClaimNothing(a) ==
  /\ pc[a] = "claiming"
  /\ \/ pc' = [pc EXCEPT ![a] = "idle"]
     \/ a \in Request /\ pc' = [pc EXCEPT ![a] = "sleeping"]
  /\ UNCHANGED <<requested, manager, drain, phase, console, up>>

ClaimAgain(r) ==
  /\ pc[r] = "sleeping"
  /\ pc' = [pc EXCEPT ![r] = IF MayClaim THEN "claiming" ELSE "idle"]
  /\ UNCHANGED <<requested, manager, drain, phase, console, up>>

\* The worker's code throws, or its signal makes it stop: its failure is
\* recorded before it is unregistered.
ExecutionFails(a) ==
  /\ pc[a] = "executing"
  /\ pc' = [pc EXCEPT ![a] = "failing"]
  /\ UNCHANGED <<requested, manager, drain, phase, console, up>>

\* Mutant of NotifyIdle: only an execution that did not fail is unregistered.
NotifyIdleOnSuccess(a) ==
  drain' = IF /\ drain = "waiting"
              /\ activeWorkers = {a}
              /\ pc[a] # "failing"
             THEN "woken" ELSE drain

\* unregister: the last active execution wakes the drain.
NotifyIdle(a) ==
  drain' = IF drain = "waiting" /\ activeWorkers = {a} THEN "woken" ELSE drain

\* The execution is recorded and unregistered; a lane goes on to its next
\* claim until it has made ten.
Execute(a) ==
  /\ Registered(a)
  /\ \/ a \in Lane /\ MayClaim /\ pc' = [pc EXCEPT ![a] = "claiming"]
     \/ pc' = [pc EXCEPT ![a] = "idle"]
  /\ NotifyIdle(a)
  /\ UNCHANGED <<requested, manager, phase, console, up>>

(***************************************************************************)
(* The backend's shutdown operation.                                       *)
(***************************************************************************)
\* beginServerShutdown with beginWorkerManagerShutdown.
BeginShutdown ==
  /\ requested' = TRUE
  /\ started' = FALSE
  /\ waking' = FALSE
  /\ phase' = "DRAINING"
  /\ UNCHANGED starting

\* Mutant of ManagerQuiet: the drain does not wait for a tick that is only
\* between two claims or in a recovery.
ManagerQuietButTicks == ~starting

\* The polling loop of waitForWorkerManagerToDrain.
ManagerQuiet == ~starting /\ \A l \in Lane : pc[l] = "idle"

Poll ==
  /\ up
  /\ drain = "polling"
  /\ ManagerQuiet
  /\ drain' = IF activeWorkers = {} THEN "woken" ELSE "waiting"
  /\ UNCHANGED <<requested, manager, pc, phase, console, up>>

DrainResolves ==
  /\ up
  /\ drain = "woken"
  /\ drain' = "resolved"
  /\ phase' = "FINALIZING"
  /\ UNCHANGED <<requested, manager, pc, console, up>>

\* The operation traces are flushed and the database is disconnected.
Disconnect ==
  /\ up
  /\ phase = "FINALIZING"
  /\ phase' \in {"FINALIZED", "FAILED"}
  /\ UNCHANGED <<requested, manager, pc, drain, console, up>>

\* What is left of the process: nothing.
Dies ==
  /\ up' = FALSE
  /\ starting' = FALSE
  /\ started' = FALSE
  /\ waking' = FALSE
  /\ pc' = [a \in Actor |-> "idle"]
  /\ UNCHANGED <<requested, drain, phase>>

Exit ==
  /\ up
  /\ phase = "TERMINATING"
  /\ Dies
  /\ UNCHANGED console

(***************************************************************************)
(* The console's coordinator.  A call that fails may have been served.     *)
(***************************************************************************)
BeginStop ==
  /\ console = "none"
  /\ console' = "quiescing"
  /\ UNCHANGED <<requested, manager, pc, drain, phase, up>>

QuiesceBackend ==
  /\ console = "quiescing"
  /\ up
  /\ BeginShutdown
  /\ console' \in {"draining", "blocked"}
  /\ UNCHANGED <<pc, drain, up>>

\* The gateway has accepted its own drain; it is not waited for.
FinalizeBackend ==
  /\ console = "draining"
  /\ up
  /\ drain' = "polling"
  /\ console' = "finalizing"
  /\ UNCHANGED <<requested, manager, pc, phase, up>>

\* Mutant of TerminationAllowed: the drain is not asked for.
TerminationAllowedAnyway == TRUE

\* scheduleServerTermination's condition on the operation.
TerminationAllowed == phase = "FINALIZED"

TerminateBackend ==
  /\ console = "finalizing"
  /\ up
  /\ TerminationAllowed
  /\ phase' = "TERMINATING"
  /\ console' = "terminating"
  /\ UNCHANGED <<requested, manager, pc, drain, up>>

VerifyStopped ==
  /\ console = "terminating"
  /\ ~up
  /\ console' = "stopped"
  /\ UNCHANGED <<requested, manager, pc, drain, phase, up>>

CallFails ==
  /\ console \in {"quiescing", "draining", "finalizing", "terminating"}
  /\ console' = "blocked"
  /\ UNCHANGED <<requested, manager, pc, drain, phase, up>>

ForceStop ==
  /\ console \notin {"none", "stopped", "forced"}
  /\ Dies
  /\ console' = "forced"

\* The console starts the backend again.
Boot ==
  /\ console \in {"stopped", "forced"}
  /\ requested' = FALSE
  /\ drain' = "none"
  /\ phase' = "NONE"
  /\ console' = "none"
  /\ up' = TRUE
  /\ UNCHANGED <<manager, pc>>

LaneStep(l) == Tick(l) \/ Recover(l) \/ EnterLoop(l)

RequestStep(r) == RunByHand(r) \/ ClaimAgain(r)

ActorStep(a) == Claim(a) \/ ClaimNothing(a) \/ ExecutionFails(a) \/ Execute(a)

Manage == StartManager \/ ManagerReady \/ ManagerFails \/ Wake \/ ImmediateTick

Finalize == Poll \/ DrainResolves \/ Disconnect \/ Exit

Coordinate ==
  \/ BeginStop
  \/ QuiesceBackend
  \/ FinalizeBackend
  \/ TerminateBackend
  \/ VerifyStopped
  \/ CallFails
  \/ ForceStop
  \/ Boot

Next ==
  \/ Manage
  \/ \E l \in Lane : LaneStep(l)
  \/ \E r \in Request : RequestStep(r)
  \/ \E a \in Actor : ActorStep(a)
  \/ Finalize
  \/ Coordinate

Spec == Init /\ [][Next]_vars

-----------------------------------------------------------------------------
\* Every variable holds a value of its type; only the main lane runs the
\* recoveries, and only a request sleeps between two claims.
TypeOK ==
  /\ requested \in BOOLEAN
  /\ starting \in BOOLEAN
  /\ started \in BOOLEAN
  /\ waking \in BOOLEAN
  /\ pc \in [Actor -> {"idle", "recovering", "registering", "claiming",
                       "sleeping", "executing", "failing"}]
  /\ \A a \in Actor :
       /\ pc[a] = "recovering" => a = MainLane
       /\ pc[a] = "registering" => a \in Lane
       /\ pc[a] = "sleeping" => a \in Request
  /\ drain \in {"none", "polling", "waiting", "woken", "resolved"}
  /\ phase \in {"NONE", "DRAINING", "FINALIZING", "FINALIZED", "TERMINATING",
                "FAILED"}
  /\ console \in {"none", "quiescing", "draining", "finalizing",
                  "terminating", "blocked", "stopped", "forced"}
  /\ up \in BOOLEAN

\* A startup or a wake-up that crosses the shutdown leaves no timer behind.
TimersStayOff == requested => ~started /\ ~waking

\* Once the drain has resolved, the manager does nothing any more: no lane
\* is in a tick, no startup is under way, so the database can be disconnected.
LanesQuietAfterDrain ==
  phase \in {"FINALIZING", "FINALIZED", "TERMINATING"} =>
    ~starting /\ \A l \in Lane : pc[l] = "idle"

\* After the shutdown was requested nobody starts another claim, and no
\* worker's code is called, not even by a claim that was under way.
NothingStartsAfterRequest ==
  [][requested' =>
       \A a \in Actor :
         /\ pc'[a] = "claiming" => pc[a] = "claiming"
         /\ pc'[a] = "executing" => pc[a] = "executing"]_vars

\* "Server termination is only allowed after worker drain and Prisma
\* disconnect": no execution is active when the termination is scheduled.
TerminatesAfterWorkerDrain ==
  phase = "TERMINATING" => activeWorkers = {}

(***************************************************************************)
(* Liveness: awaited work ends, the poll's timer fires and the process     *)
(* reaches its exit.  Ticks, requests and the console owe nothing.         *)
(***************************************************************************)
Fairness ==
  /\ WF_vars(ManagerReady \/ ManagerFails)
  /\ \A l \in Lane : WF_vars(Recover(l) \/ EnterLoop(l))
  /\ \A r \in Request : WF_vars(ClaimAgain(r))
  /\ \A a \in Actor : WF_vars(Claim(a) \/ ClaimNothing(a))
  /\ \A a \in Actor : WF_vars(Execute(a))
  /\ WF_vars(Finalize)

\* The drain is never stuck: whatever was running, the finalization ends.
DrainEnds ==
  Fairness =>
    drain = "polling" ~>
      (phase \in {"FINALIZED", "FAILED", "TERMINATING"} \/ ~up)
=============================================================================
