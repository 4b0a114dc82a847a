----------------------------- MODULE FencedLease -----------------------------
(***************************************************************************)
(* What a fenced lease promises, without rows, clocks or heartbeats.  Each *)
(* grant of the lease is a new generation.  A generation ends once: it is  *)
(* finished by its own holder, or it is voided by the next grant.  Nothing *)
(* that happens later changes how a generation ended.                      *)
(***************************************************************************)
EXTENDS Naturals

CONSTANTS
  MaxGrants,  \* bound on the number of generations
  Result      \* the ways in which a holder may finish its generation

VARIABLES
  granted,    \* the number of the last generation granted, 0 before the first
  holder,     \* the generation that holds the lease, 0 when it is free
  ending      \* how each generation ended: "open", "void" or a Result

vars == <<granted, holder, ending>>

Generation == 1..MaxGrants

Init ==
  /\ granted = 0
  /\ holder = 0
  /\ ending = [g \in Generation |-> "open"]

Grant ==
  /\ granted < MaxGrants
  /\ granted' = granted + 1
  /\ holder' = granted + 1
  /\ ending' = [g \in Generation |-> IF g = holder THEN "void" ELSE ending[g]]

Finish(r) ==
  /\ holder # 0
  /\ holder' = 0
  /\ ending' = [ending EXCEPT ![holder] = r]
  /\ UNCHANGED granted

Next ==
  \/ Grant
  \/ \E r \in Result : Finish(r)

Spec == Init /\ [][Next]_vars
=============================================================================
