----------------------------- MODULE MCLiveness -----------------------------
(***************************************************************************)
(* Four parts of the server that promise to come to an end, side by side:  *)
(* the shutdown (ServerShutdown), a worker's job (WorkerJobs), a write     *)
(* request (SalesChannelWrite) and the tracking worker (DeliveryTracking). *)
(* They share nothing here, and the initial state chooses the one that     *)
(* moves, so that TLC checks each by itself.                               *)
(*                                                                         *)
(* The shutdown has the lane with the recoveries and one other lane, and   *)
(* two requests that run jobs by hand; the job has two executions in one   *)
(* process, a tick and a manual run; two executors compete for a request   *)
(* with two targets; the tracking worker follows a package group with an   *)
(* invoice and a spare one.                                                *)
(***************************************************************************)
EXTENDS ServerShutdown, TLC

CONSTANTS main, recent, r1, r2, p1, e1, e2, t1, t2, g1, s1, s2, x1

MCLane == {main, recent}
MCRequest == {r1, r2}

VARIABLES
  moving,
  status, token, gen, run, expiry, attempts, enabled, nextRun, exec,
  shutdown, outcome, failures, closed,
  writeStatus, active, heartbeat, stale, held, ext, loc, last, kind, state,
  sent, writePc, own, ids, calls, cut, unseen, finalized,
  events, shipment, group, current, member, device, booked, jobs, ousted,
  trackPc, work, faults, newest, reordered

jobVars == <<status, token, gen, run, expiry, attempts, enabled, nextRun,
             exec, shutdown, outcome, failures, closed>>
writeVars == <<writeStatus, active, heartbeat, stale, held, ext, loc, last,
               kind, state, sent, writePc, own, ids, calls, cut, unseen,
               finalized>>
trackVars == <<events, shipment, group, current, member, device, booked, jobs,
               ousted, trackPc, work, faults, newest, reordered>>

Job == INSTANCE WorkerJobs WITH
  Proc <- {p1}, Exec <- {e1, e2}, ProcOf <- (e1 :> p1) @@ (e2 :> p1),
  MaxAttempts <- 2, Required <- FALSE, MaxClaims <- 3

Write == INSTANCE SalesChannelWrite WITH
  Exec <- {e1, e2}, Target <- {t1, t2}, PerItem <- TRUE, MaxAttempt <- 4,
  status <- writeStatus, pc <- writePc

Tracking == INSTANCE DeliveryTracking WITH
  Group <- {g1}, Invoice <- {s1, s2}, First <- (g1 :> s1),
  Spare <- (g1 :> {s2}), Tracker <- {x1}, MaxEvents <- 1, MaxJobs <- 2,
  MaxFaults <- 1

allVars == <<vars, jobVars, writeVars, trackVars, moving>>

MCInit ==
  /\ moving \in {"shutdown", "job", "write", "tracking"}
  /\ Init
  /\ Job!Init
  /\ moving = "job" \/ ~enabled
  /\ Write!Init
  /\ Tracking!TrackingInit

\* The shutdown and the job go on for ever; writes and tracking may rest.
MCNext ==
  /\ \/ moving = "shutdown" /\ Next
          /\ UNCHANGED <<jobVars, writeVars, trackVars>>
     \/ moving = "job" /\ Job!Next
          /\ UNCHANGED <<vars, writeVars, trackVars>>
     \/ moving = "write" /\ Write!Next
          /\ UNCHANGED <<vars, jobVars, trackVars>>
     \/ moving = "tracking" /\ Tracking!TrackingNext
          /\ UNCHANGED <<vars, jobVars, writeVars>>
     \/ moving \in {"write", "tracking"}
          /\ UNCHANGED <<vars, jobVars, writeVars, trackVars>>
  /\ UNCHANGED moving

MCSpec == MCInit /\ [][MCNext]_allVars

\* What WorkerJobs promises of a run whose execution died.
AbandonedRunIsRetaken == Job!AbandonedRunIsRetaken

\* What SalesChannelWrite promises of a write whose executor is gone.
InterruptedIsRecovered == Write!InterruptedIsRecovered

\* What DeliveryTracking promises of an evidence that was recorded.
ProjectedUnlessHalted == Tracking!ProjectedUnlessHalted
=============================================================================
