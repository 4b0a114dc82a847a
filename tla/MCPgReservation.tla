-------------------------- MODULE MCPgReservation --------------------------
(***************************************************************************)
(* An instance of PgReservation for TLC: two upload rows, two numbers and  *)
(* two transactions under way.                                             *)
(***************************************************************************)
EXTENDS PgReservation, TLC

CONSTANTS r1, r2, n1, n2, s1, s2

MCRecord == {r1, r2}
MCPg == {n1, n2}
MCSession == {s1, s2}
Symmetry == Permutations(MCRecord) \cup Permutations(MCPg)
              \cup Permutations(MCSession)
=============================================================================
