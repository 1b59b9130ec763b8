----------------------------- MODULE Inventory -----------------------------
(***************************************************************************)
(* The warehouse register (InventoryService, TransferService and           *)
(* WarehouseService): stock rows with the ledger of their movements,       *)
(* warehouses and transfers.  It is kept by hand: checkout counts the      *)
(* product's own stock (module Checkout) and never looks here.             *)
(*                                                                         *)
(* An adjustment reads the row without a lock and writes the sum at its    *)
(* commit, so of two that overlap one keeps only its ledger row.  Nothing  *)
(* in the database makes a product's stock row or a warehouse's code       *)
(* unique: both are looked up first.                                       *)
(***************************************************************************)
EXTENDS Integers, Sequences, FiniteSets, Functions

CONSTANTS
  Products, Codes,   \* products with their warehouse, warehouse codes
  Openings, Deltas,  \* on-hand a row may start with, adjustments
  Clerks,            \* requests that may overlap
  MaxRows,           \* bound: stock rows, warehouses and transfers, of each
  MaxMovements       \* bound: ledger rows

VARIABLES
  stock,       \* inventory_stock rows
  ledger,      \* inventory_movement rows
  warehouse,   \* rows: code, active
  transfer,    \* rows: status
  clerk        \* requests under way

vars == <<stock, ledger, warehouse, transfer, clerk>>

Idle == [op |-> "idle"]

Init ==
  /\ stock = <<>> /\ ledger = <<>> /\ warehouse = <<>> /\ transfer = <<>>
  /\ clerk = [c \in Clerks |-> Idle]

Begin(c, new) ==
  /\ clerk[c] = Idle
  /\ clerk' = [clerk EXCEPT ![c] = new]
  /\ UNCHANGED <<stock, ledger, warehouse, transfer>>
Done(c) == clerk' = [clerk EXCEPT ![c] = Idle]

\* create_stock_record: the row there is, or a new one.
CreateStock(c, p, n) ==
  /\ Len(stock) < MaxRows
  /\ \A i \in DOMAIN stock : stock[i].product # p
  /\ Begin(c, [op |-> "stock", product |-> p, opening |-> n])

InsertStock(c) ==
  /\ clerk[c].op = "stock" /\ Len(stock) < MaxRows
  /\ stock' = Append(stock, [product |-> clerk[c].product, opening |-> clerk[c].opening,
                             onHand |-> clerk[c].opening, reserved |-> 0,
                             available |-> clerk[c].opening])
  /\ Done(c)
  /\ UNCHANGED <<ledger, warehouse, transfer>>

AdjustStock_Unchecked(c, i, delta) ==   \* mutant: on-hand may go below zero
  Begin(c, [op |-> "adjust", row |-> i, delta |-> delta, onHand |-> stock[i].onHand + delta])

\* adjust_stock: the sum of what was read.
AdjustStock(c, i, delta) ==
  /\ delta # 0 /\ stock[i].onHand + delta >= 0
  /\ Begin(c, [op |-> "adjust", row |-> i, delta |-> delta, onHand |-> stock[i].onHand + delta])

NotBelowZero(n) == IF n < 0 THEN 0 ELSE n

WriteStock(c) ==
  /\ clerk[c].op = "adjust" /\ Len(ledger) < MaxMovements
  /\ LET i == clerk[c].row
     IN stock' = [stock EXCEPT ![i].onHand = clerk[c].onHand,
                               ![i].available = NotBelowZero(clerk[c].onHand - stock[i].reserved)]
  /\ ledger' = Append(ledger, [row |-> clerk[c].row, delta |-> clerk[c].delta])
  /\ Done(c)
  /\ UNCHANGED <<warehouse, transfer>>

\* create_warehouse: the code is looked up.
CreateWarehouse(c, code) ==
  /\ Len(warehouse) < MaxRows
  /\ \A w \in DOMAIN warehouse : warehouse[w].code # code
  /\ Begin(c, [op |-> "warehouse", code |-> code])

InsertWarehouse(c) ==
  /\ clerk[c].op = "warehouse" /\ Len(warehouse) < MaxRows
  /\ warehouse' = Append(warehouse, [code |-> clerk[c].code, active |-> TRUE])
  /\ Done(c)
  /\ UNCHANGED <<stock, ledger, transfer>>

\* update_warehouse: stock and transfers of an inactive one stay as they are.
UpdateWarehouse(w) ==
  /\ warehouse' = [warehouse EXCEPT ![w].active = ~@]
  /\ UNCHANGED <<stock, ledger, transfer, clerk>>

\* create_transfer: lines and warehouses are recorded as given.
CreateTransfer ==
  /\ Len(transfer) < MaxRows
  /\ transfer' = Append(transfer, "DRAFT")
  /\ UNCHANGED <<stock, ledger, warehouse, clerk>>

\* _TRANSITIONS.
MayBecome(from, to) ==
  \/ from = "DRAFT"      /\ to \in {"REQUESTED", "CANCELLED"}
  \/ from = "REQUESTED"  /\ to \in {"APPROVED", "CANCELLED"}
  \/ from = "APPROVED"   /\ to \in {"IN_TRANSIT", "CANCELLED"}
  \/ from = "IN_TRANSIT" /\ to = "COMPLETED"

\* complete_transfer and cancel_transfer.
MoveTransfer(c, t, to) ==
  /\ to \in {"COMPLETED", "CANCELLED"}
  /\ to = "CANCELLED" => transfer[t] \in {"DRAFT", "REQUESTED"}
  /\ MayBecome(transfer[t], to)
  /\ Begin(c, [op |-> "transfer", row |-> t, to |-> to])

WriteTransfer(c) ==
  /\ clerk[c].op = "transfer"
  /\ transfer' = [transfer EXCEPT ![clerk[c].row] = clerk[c].to]
  /\ Done(c)
  /\ UNCHANGED <<stock, ledger, warehouse>>

Abort(c) == clerk[c] # Idle /\ Done(c) /\ UNCHANGED <<stock, ledger, warehouse, transfer>>

StockCalls(c) ==
  \/ \E p \in Products, n \in Openings : CreateStock(c, p, n)
  \/ \E i \in DOMAIN stock, delta \in Deltas : AdjustStock(c, i, delta)
WarehouseCalls(c) ==
  \/ \E code \in Codes : CreateWarehouse(c, code)
  \/ \E w \in DOMAIN warehouse : UpdateWarehouse(w)
TransferCalls(c) ==
  \/ CreateTransfer
  \/ \E t \in DOMAIN transfer, to \in {"COMPLETED", "CANCELLED"} : MoveTransfer(c, t, to)

Next == \E c \in Clerks :
  \/ StockCalls(c) \/ InsertStock(c) \/ WriteStock(c)
  \/ WarehouseCalls(c) \/ InsertWarehouse(c)
  \/ TransferCalls(c) \/ WriteTransfer(c)
  \/ Abort(c)

Spec == Init /\ [][Next]_vars

-----------------------------------------------------------------------------

Movements(i) == {m \in DOMAIN ledger : ledger[m].row = i}

\* The sum of some rows of the ledger.
Total(ms) == SumFunction([m \in ms |-> ledger[m].delta])

\* Whatever adjustments overlap, what is on hand is what the row opened with
\* and the sum of ledger rows, none of them twice: an update may lose
\* another's amount but never counts one that is not in the ledger.  It is
\* never negative, and what is available is on hand and not reserved.
\* (adjust_stock: "Adjustment would result in negative on-hand quantity")
LedgerExplainsStock ==
  \A i \in DOMAIN stock :
    /\ \E ms \in SUBSET Movements(i) : stock[i].onHand = stock[i].opening + Total(ms)
    /\ stock[i].onHand >= 0
    /\ stock[i].available = stock[i].onHand - stock[i].reserved
=============================================================================
