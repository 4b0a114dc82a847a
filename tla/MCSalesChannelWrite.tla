------------------------ MODULE MCSalesChannelWrite ------------------------
(***************************************************************************)
(* An instance of SalesChannelWrite for TLC: two executors that compete    *)
(* for a request with two targets.                                         *)
(***************************************************************************)
EXTENDS SalesChannelWrite, TLC

CONSTANTS e1, e2, t1, t2

MCExec == {e1, e2}
MCTarget == {t1, t2}
Symmetry == Permutations(MCExec) \cup Permutations(MCTarget)
=============================================================================
