------------------------------ MODULE MCWrites ------------------------------
(***************************************************************************)
(* What the server tells providers and hears from them, side by side: a    *)
(* write request of the sales channel (SalesChannelWrite), the circuit     *)
(* breaker of a write endpoint (WriteCircuit), a command of the            *)
(* integration tables (IntegrationCommand) and the tracking of deliveries  *)
(* (DeliveryTracking).  They share nothing here, and the initial state     *)
(* chooses the one that moves, so that TLC checks each by itself.  What is *)
(* alike in them has the same names, to make use of its symmetry.          *)
(*                                                                         *)
(* Two executors compete for a request with two targets; three writes, as  *)
(* many as the limit of failures, and two persons share a control; two     *)
(* executors compete for a command; two executions of the tracking worker  *)
(* follow a package group with an invoice and a spare one, two events of   *)
(* each, in two jobs.                                                      *)
(***************************************************************************)
EXTENDS SalesChannelWrite, WriteCircuit, IntegrationCommand,
        DeliveryTracking, TLC

CONSTANTS e1, e2, e3, t1, t2, g1, s1, s2

MCExec == {e1, e2}
MCTarget == {t1, t2}
MCSlot == {e1, e2, e3}
Symmetry == Permutations(MCExec) \cup Permutations(MCTarget)

MCGroup == {g1}
MCInvoice == {s1, s2}
MCFirst == g1 :> s1
MCSpare == g1 :> {s2}

VARIABLE moving

allVars == <<vars, circuitVars, cmdVars, trackVars, moving>>

MCInit ==
  /\ moving \in {"write", "circuit", "command", "tracking"}
  /\ Init
  /\ CircuitInit
  /\ CommandInit
  /\ TrackingInit

\* Each of them comes to rest.
MCNext ==
  /\ \/ moving = "write" /\ Next
          /\ UNCHANGED <<circuitVars, cmdVars, trackVars>>
     \/ moving = "circuit" /\ CircuitNext
          /\ UNCHANGED <<vars, cmdVars, trackVars>>
     \/ moving = "command" /\ CommandNext
          /\ UNCHANGED <<vars, circuitVars, trackVars>>
     \/ moving = "tracking" /\ TrackingNext
          /\ UNCHANGED <<vars, circuitVars, cmdVars>>
  /\ UNCHANGED moving

MCSpec == MCInit /\ [][MCNext]_allVars
=============================================================================
