------------------------ MODULE ServerShutdown_proofs ------------------------
(***************************************************************************)
(* What holds of every graceful stop, for any lanes and any requests.      *)
(*                                                                         *)
(* The invariant follows the drain: once a shutdown is requested nothing   *)
(* arms a timer or enters a lane, so that a lane the drain has seen idle   *)
(* stays idle.                                                             *)
(***************************************************************************)
EXTENDS ServerShutdown, TLAPS

\* Nothing is left to drain in the manager.
LanesIdle == ~starting /\ \A l \in Lane : pc[l] = "idle"

\* How far the drain, the operation and the flag have come together.
DrainOrder ==
  /\ phase # "NONE" => requested
  /\ drain # "none" => requested
  /\ drain \in {"waiting", "woken", "resolved"} => LanesIdle
  /\ phase \in {"FINALIZING", "FINALIZED", "TERMINATING"} => drain = "resolved"
  /\ console \in {"none", "quiescing", "draining"} => drain = "none"
  /\ console \in {"draining", "finalizing", "terminating"} => requested

IInv == TypeOK /\ TimersStayOff /\ DrainOrder

LEMMA InitIInv == Init => IInv
  BY ServerShutdownAssumption
  DEF Init, IInv, TypeOK, TimersStayOff, DrainOrder, Actor

\* The manager's own steps and its timers.
LEMMA ManageStep == IInv /\ Manage => IInv'
<1> SUFFICES ASSUME IInv, Manage PROVE IInv'
  OBVIOUS
<1> USE ServerShutdownAssumption
    DEF IInv, TypeOK, TimersStayOff, DrainOrder, LanesIdle, Actor
<1>1. CASE StartManager
  BY <1>1 DEF StartManager
<1>2. CASE ManagerReady
  BY <1>2 DEF ManagerReady, ArmsTimers
<1>3. CASE ManagerFails
  BY <1>3 DEF ManagerFails
<1>4. CASE Wake
  BY <1>4 DEF Wake
<1>5. CASE ImmediateTick
  BY <1>5 DEF ImmediateTick, FirstAwait
<1>6. QED
  BY <1>1, <1>2, <1>3, <1>4, <1>5 DEF Manage

\* The steps of lanes, requests and executions.
LEMMA ActStep ==
  ASSUME IInv, NEW a \in Actor,
         \/ a \in Lane /\ LaneStep(a)
         \/ a \in Request /\ RequestStep(a)
         \/ ActorStep(a)
  PROVE  IInv'
<1> USE ServerShutdownAssumption
    DEF IInv, TypeOK, TimersStayOff, DrainOrder, LanesIdle, Actor, MayClaim,
        manager
<1>1. CASE a \in Lane /\ LaneStep(a)
  BY <1>1 DEF LaneStep, Tick, FirstAwait, Recover, EnterLoop
<1>2. CASE a \in Request /\ RequestStep(a)
  BY <1>2 DEF RequestStep, RunByHand, ClaimAgain
<1>3. CASE Claim(a) \/ ClaimNothing(a) \/ ExecutionFails(a)
  BY <1>3 DEF Claim, AfterClaim, ClaimNothing, ExecutionFails
<1>4. CASE Execute(a)
  BY <1>4 DEF Execute, NotifyIdle, Registered
<1>5. QED
  BY <1>1, <1>2, <1>3, <1>4 DEF ActorStep

\* The backend's operation and the console.
LEMMA StopStep == IInv /\ (Finalize \/ Coordinate) => IInv'
<1> SUFFICES ASSUME IInv, Finalize \/ Coordinate PROVE IInv'
  OBVIOUS
<1> USE ServerShutdownAssumption
    DEF IInv, TypeOK, TimersStayOff, DrainOrder, LanesIdle, Actor, manager
<1>1. CASE Poll \/ DrainResolves \/ Disconnect
  BY <1>1 DEF Poll, ManagerQuiet, DrainResolves, Disconnect
<1>2. CASE Exit \/ ForceStop
  <2>1. Dies
    BY <1>2 DEF Exit, ForceStop
  <2>2. TypeOK' /\ LanesIdle'
    BY <1>2, <2>1 DEF Dies, Exit, ForceStop
  <2>3. TimersStayOff' /\ DrainOrder'
    BY <1>2, <2>1, <2>2 DEF Dies, Exit, ForceStop
  <2>4. QED
    BY <2>2, <2>3
<1>3. CASE QuiesceBackend
  BY <1>3 DEF QuiesceBackend, BeginShutdown
<1>4. CASE FinalizeBackend \/ TerminateBackend
  BY <1>4 DEF FinalizeBackend, TerminateBackend, TerminationAllowed
<1>5. CASE BeginStop \/ VerifyStopped \/ CallFails
  BY <1>5 DEF BeginStop, VerifyStopped, CallFails
<1>6. CASE Boot
  BY <1>6 DEF Boot
<1>7. QED
  BY <1>1, <1>2, <1>3, <1>4, <1>5, <1>6 DEF Finalize, Coordinate

LEMMA Invariance == Spec => []IInv
<1>1. IInv /\ [Next]_vars => IInv'
  <2> SUFFICES ASSUME IInv, [Next]_vars PROVE IInv'
    OBVIOUS
  <2>1. CASE UNCHANGED vars
    BY <2>1
    DEF vars, manager, IInv, TypeOK, TimersStayOff, DrainOrder, LanesIdle
  <2>2. CASE Next
    BY <2>2, ManageStep, ActStep, StopStep DEF Next, Actor
  <2>3. QED
    BY <2>1, <2>2
<1>2. QED
  BY <1>1, InitIInv, PTL DEF Spec

\* Every variable keeps its type.
THEOREM TypeCorrect == Spec => []TypeOK
  BY Invariance, PTL DEF IInv

\* A startup or a wake-up that crosses the shutdown leaves no timer behind.
THEOREM TimersStayOffAlways == Spec => []TimersStayOff
  BY Invariance, PTL DEF IInv

\* The manager does nothing any more once the drain has resolved.
THEOREM LanesQuietAfterDrainAlways == Spec => []LanesQuietAfterDrain
<1>1. IInv => LanesQuietAfterDrain
  BY DEF IInv, DrainOrder, LanesIdle, LanesQuietAfterDrain
<1>2. QED
  BY <1>1, Invariance, PTL

\* No claim and no worker's code starts after the shutdown was requested.
THEOREM NothingStartsAfterRequestAlways == Spec => NothingStartsAfterRequest
<1> DEFINE Quiet == requested' => \A a \in Actor :
                      /\ pc'[a] = "claiming" => pc[a] = "claiming"
                      /\ pc'[a] = "executing" => pc[a] = "executing"
<1>1. IInv /\ [Next]_vars => [Quiet]_vars
  <2> SUFFICES ASSUME IInv, [Next]_vars PROVE [Quiet]_vars
    OBVIOUS
  <2> USE ServerShutdownAssumption DEF IInv, TypeOK, Actor, MayClaim
  <2>1. CASE Manage
    BY <2>1 DEF Manage, StartManager, ManagerReady, ManagerFails, Wake,
                ImmediateTick, FirstAwait
  <2>2. ASSUME NEW l \in Lane, LaneStep(l)
        PROVE  Quiet
    BY <2>2 DEF LaneStep, Tick, FirstAwait, Recover, EnterLoop
  <2>3. ASSUME NEW r \in Request, RequestStep(r)
        PROVE  Quiet
    BY <2>3 DEF RequestStep, RunByHand, ClaimAgain
  <2>4. ASSUME NEW a \in Actor, ActorStep(a)
        PROVE  Quiet
    BY <2>4 DEF ActorStep, Claim, AfterClaim, ClaimNothing, ExecutionFails,
                Execute
  <2>5. CASE Finalize
    BY <2>5 DEF Finalize, Poll, DrainResolves, Disconnect, Exit, Dies
  <2>6. CASE Coordinate
    <3>1. CASE ForceStop
      BY <3>1 DEF ForceStop, Dies
    <3>2. CASE ~ForceStop
      BY <2>6, <3>2 DEF Coordinate, BeginStop, QuiesceBackend,
                        FinalizeBackend, TerminateBackend, VerifyStopped,
                        CallFails, Boot
    <3>3. QED
      BY <3>1, <3>2
  <2>7. QED
    BY <2>1, <2>2, <2>3, <2>4, <2>5, <2>6 DEF Next
<1>2. QED
  BY <1>1, Invariance, PTL DEF Spec, NothingStartsAfterRequest
=============================================================================
