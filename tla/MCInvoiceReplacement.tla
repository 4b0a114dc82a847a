------------------------- MODULE MCInvoiceReplacement -------------------------
(* An instance of InvoiceReplacement for TLC: a first invoice and two         *)
(* replacements, two requests under way, and one failure.                     *)
EXTENDS InvoiceReplacement, TLC

CONSTANTS k0, k1, k2, e1, e2

MCKey == {k0, k1, k2}
MCExec == {e1, e2}

Symmetry == Permutations({k1, k2}) \cup Permutations(MCExec)
=============================================================================
