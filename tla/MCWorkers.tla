----------------------------- MODULE MCWorkers ------------------------------
(***************************************************************************)
(* A worker's job (WorkerJobs) and what the workers do that read orders    *)
(* from the sales channel: which they read (OrderReconciliation) and what  *)
(* becomes of a page (ChannelPages).  They share nothing here, and the     *)
(* initial state chooses the one that moves, so that TLC checks each by    *)
(* itself.                                                                 *)
(*                                                                         *)
(* The job has two server processes with one execution each.  Two          *)
(* executions read windows with one order, until four units of two days    *)
(* have gone by; two read a page each, with one order of three statuses.   *)
(* What is alike changes places together.                                  *)
(***************************************************************************)
EXTENDS WorkerJobs, OrderReconciliation, ChannelPages, TLC

CONSTANTS p1, p2, e1, e2, o1

MCExec == {e1, e2}
MCProc == {p1, p2}
MCProcOf == (e1 :> p1) @@ (e2 :> p2)
Symmetry ==
  {f \in Permutations(MCExec \cup MCProc) :
     \A e \in MCExec : f[e] \in MCExec /\ f[MCProcOf[e]] = MCProcOf[f[e]]}

MCPageOrder == {o1}

VARIABLE moving

allVars == <<vars, windowVars, pageVars, moving>>

MCInit ==
  /\ moving \in {"job", "windows", "pages"}
  /\ Init
  /\ moving = "job" \/ ~enabled
  /\ WindowInit
  /\ moving = "windows" \/ FromNothing
  /\ PageInit

\* A job goes on for ever; the bounds stop the readers.
MCNext ==
  /\ \/ moving = "job" /\ Next /\ UNCHANGED <<windowVars, pageVars>>
     \/ moving = "windows" /\ WindowNext /\ UNCHANGED <<vars, pageVars>>
     \/ moving = "pages" /\ PageNext /\ UNCHANGED <<vars, windowVars>>
     \/ moving # "job" /\ UNCHANGED <<vars, windowVars, pageVars>>
  /\ UNCHANGED moving

MCSpec == MCInit /\ [][MCNext]_allVars
=============================================================================
