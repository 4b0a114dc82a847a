------------------------------ MODULE MCStock ------------------------------
(***************************************************************************)
(* The reservation of PG numbers (PgReservation), the stock ledger         *)
(* (InventoryLedger) and the issue of invoices (CarrierIssue), side by     *)
(* side.  They share nothing here, and the initial state chooses the one   *)
(* that moves, so that TLC checks each by itself.  What is alike in them   *)
(* has the same names, to make use of its symmetry: s1 and s2 are two      *)
(* transactions or requests under way, u1 and u2 two SKUs or upload rows.  *)
(*                                                                         *)
(* Two upload rows and two numbers.  Of two devices the first is reserved, *)
(* released (so that its reservation can be repeated), put on hold, where  *)
(* its SKU may change, and made sellable; the second one is reserved.  A   *)
(* first invoice and a replacement.                                        *)
(***************************************************************************)
EXTENDS PgReservation, InventoryLedger, CarrierIssue, TLC

CONSTANTS s1, s2, u1, u2, n1, n2, d1, d2, first, second,
          reserve, release, hold, sell, reserve2

MCSession == {s1, s2}
MCSku == {u1, u2}
MCPg == {n1, n2}
MCDevice == {d1, d2}
MCOp == {reserve, release, hold, sell, reserve2}
MCKey == {first, second}
Symmetry == Permutations(MCSession) \cup Permutations(MCSku)

MCrequest ==
  (reserve :> [policy |-> "ORDER_MATCHING_RESERVATION", dev |-> d1,
               to |-> "RESERVED"]) @@
  (release :> [policy |-> "ORDER_REMATCH_RELEASE", dev |-> d1,
               to |-> "SELLABLE"]) @@
  (hold :> [policy |-> "MANUAL_INVENTORY_CORRECTION", dev |-> d1,
            to |-> "HOLD"]) @@
  (sell :> [policy |-> "PURCHASE_CONFIRMATION", dev |-> d1,
            to |-> "SELLABLE"]) @@
  (reserve2 :> [policy |-> "ORDER_MATCHING_RESERVATION", dev |-> d2,
                to |-> "RESERVED"])

VARIABLE moving

allVars == <<vars, ledgerVars, issueVars, moving>>

MCInit ==
  /\ moving \in {"numbers", "ledger", "issue"}
  /\ Init
  /\ LedgerInit
  /\ moving = "ledger" \/ \E u \in Sku : sku = [d \in Device |-> u]
  /\ IssueInit

\* The ledger and the numbers are never at a standstill: nobody waits for
\* a lock for ever.  Invoices may rest.
MCNext ==
  /\ \/ moving = "numbers" /\ Next /\ UNCHANGED <<ledgerVars, issueVars>>
     \/ moving = "ledger" /\ LedgerNext /\ UNCHANGED <<vars, issueVars>>
     \/ moving = "issue" /\ IssueNext /\ UNCHANGED <<vars, ledgerVars>>
     \/ moving = "issue" /\ UNCHANGED <<vars, ledgerVars, issueVars>>
  /\ UNCHANGED moving

MCSpec == MCInit /\ [][MCNext]_allVars
=============================================================================
