--------------------------- MODULE InventoryRules ---------------------------
(***************************************************************************)
(* The statuses of a device, the policies under which callers change them  *)
(* (inventory-status.ts, inventory/inventory-write-rules.ts), and what the *)
(* callers lock first (inventory/device-aggregate-lock.ts).                *)
(***************************************************************************)
EXTENDS Integers, FiniteSets

CONSTANTS
  Device,    \* devices, by their PG numbers
  Sku,       \* inventory SKUs
  Op,        \* operation keys of status transitions
  request,   \* what each operation key stands for: policy, device, status
  NoDevice,  \* no device
  NoKey,     \* no operation key
  Nowhere    \* no balance

Status == {"SELLABLE", "RESERVED", "PACKING", "PACKED", "DEPARTURE",
           "DELIVERING", "FINAL_DELIVERY", "NONE_TRACKING", "HOLD",
           "DEFECTIVE", "RETURN_REQUESTED", "EXCHANGE_REQUESTED",
           "RETURN_CHECK"}

Policy == {"PURCHASE_CONFIRMATION", "ORDER_MATCHING_RESERVATION",
           "ORDER_REMATCH_RELEASE", "SHIPMENT_PRINT_CONFIRMATION",
           "PACKING_VALIDATION", "PRE_SHIPMENT_RETURN",
           "POST_SHIPMENT_RETURN_INSPECTION", "MANUAL_INVENTORY_CORRECTION",
           "STANDARD_SHIPMENT_INVOICE_CONFIRMED", "DELIVERY_STATUS_SYNC"}

Cell == Sku \X Status

ASSUME LedgerAssumption ==
  /\ IsFiniteSet(Device)
  /\ NoDevice \notin Device
  /\ NoKey \notin Op
  /\ Nowhere \notin Cell
  /\ request \in [Op -> [policy : Policy, dev : Device, to : Status]]

-----------------------------------------------------------------------------
\* MANUAL_INVENTORY_INITIAL_STATUSES, MANUAL_CORRECTION_STATUSES
InitialStatus == {"SELLABLE", "HOLD", "DEFECTIVE", "RETURN_CHECK"}

\* INVENTORY_SKU_EDITABLE_STATUSES
SkuEditable == {"HOLD", "DEFECTIVE", "RETURN_CHECK"}

BeforeShipment == {"RESERVED", "PACKING", "PACKED", "DEPARTURE"}

Tracked == {"DELIVERING", "FINAL_DELIVERY", "NONE_TRACKING"}

\* assertInventoryStatusTransition, for two different statuses; the policy of
\* exchanges has no caller.
Allowed(policy, from, to) ==
  \/ policy = "PURCHASE_CONFIRMATION"
       /\ from \in InitialStatus /\ to = "SELLABLE"
  \/ policy = "ORDER_MATCHING_RESERVATION"
       /\ from = "SELLABLE" /\ to = "RESERVED"
  \/ policy = "ORDER_REMATCH_RELEASE" /\ from = "RESERVED" /\ to = "SELLABLE"
  \/ policy = "SHIPMENT_PRINT_CONFIRMATION"
       /\ from = "RESERVED" /\ to = "PACKING"
  \/ policy = "PACKING_VALIDATION" /\ from = "PACKING" /\ to = "PACKED"
  \/ policy = "PRE_SHIPMENT_RETURN"
       /\ from \in BeforeShipment /\ to = "SELLABLE"
  \/ policy = "POST_SHIPMENT_RETURN_INSPECTION"
       /\ from \in BeforeShipment \cup Tracked \cup {"RETURN_CHECK"}
       /\ to \in {"SELLABLE", "HOLD", "DEFECTIVE"}
  \/ policy = "MANUAL_INVENTORY_CORRECTION"
       /\ from \in InitialStatus /\ to \in InitialStatus
  \/ policy = "STANDARD_SHIPMENT_INVOICE_CONFIRMED"
       /\ from = "PACKED" /\ to = "DEPARTURE"
  \/ policy = "DELIVERY_STATUS_SYNC"
       /\ \/ from = "DEPARTURE" /\ to \in Tracked
          \/ from = "DELIVERING" /\ to \in {"FINAL_DELIVERY", "NONE_TRACKING"}
          \/ from = "NONE_TRACKING" /\ to \in {"DELIVERING", "FINAL_DELIVERY"}

\* The callers that lock the device first, and its inventory row with it.
\* A reservation is locked by some of its callers only.
LocksDevice(policy) ==
  policy \notin {"ORDER_MATCHING_RESERVATION", "DELIVERY_STATUS_SYNC",
                 "STANDARD_SHIPMENT_INVOICE_CONFIRMED"}

LocksRow(policy) == LocksDevice(policy) /\ policy # "PURCHASE_CONFIRMATION"
=============================================================================
