----------------------------- MODULE Aftersale -----------------------------
(***************************************************************************)
(* What happens to an order after it was placed: one behaviour is about    *)
(* the returns of an order, about the order's way to the customer, or      *)
(* about the warehouse register.  The three share no state; one run goes   *)
(* through the behaviours of each.                                         *)
(***************************************************************************)
EXTENDS Returns

CONSTANTS Desks, ForceTargets, MaxForced, MaxHistory, Products, Codes, Openings, Deltas, MaxRows, MaxMovements

\* A row does not open below zero.
ASSUME RegisterAssumption == Openings \subseteq Nat /\ Deltas \subseteq Int

VARIABLES
  part,                                       \* what the behaviour is about
  status, owner, history, desk,               \* of Fulfilment
  stock, ledger, warehouse, transfer, clerk   \* of Inventory

fulfilmentVars == <<status, owner, history, desk>>
warehouseVars == <<stock, ledger, warehouse, transfer, clerk>>

F == INSTANCE Fulfilment
W == INSTANCE Inventory WITH Clerks <- Desks

AftersaleInit ==
  /\ part \in {"returns", "fulfilment", "warehouse"}
  /\ Init /\ F!Init /\ W!Init
  /\ part # "fulfilment" => status = "PENDING_PAYMENT" /\ owner = "guest"

AftersaleNext ==
  \/ part = "returns"    /\ Next   /\ UNCHANGED <<part, fulfilmentVars, warehouseVars>>
  \/ part = "fulfilment" /\ F!Next /\ UNCHANGED <<part, vars, warehouseVars>>
  \/ part = "warehouse"  /\ W!Next /\ UNCHANGED <<part, vars, fulfilmentVars>>

AftersaleSpec == AftersaleInit /\ [][AftersaleNext]_<<part, vars, fulfilmentVars, warehouseVars>>

-----------------------------------------------------------------------------

\* The tracking page explains the order, whatever operations overlap.
\* (order_service.py:764 get_tracking)
TrackingExplains == F!TrackingExplains

\* Stock on hand is its opening and movements of the ledger, none twice.
\* (inventory_service.py:103 adjust_stock)
LedgerExplainsStock == W!LedgerExplainsStock
=============================================================================
