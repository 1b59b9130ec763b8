------------------------------ MODULE Identity ------------------------------
(***************************************************************************)
(* What names a product (ProductService): its permanent id, the display    *)
(* label that starts as the id and may change, and its slug and SKU.       *)
(*                                                                         *)
(* The table keeps ids and labels unique, each by itself; that no label is *)
(* another product's id, and that no two slugs or SKUs differ only in case,*)
(* a request looks up before it writes.  Slugs and SKUs follow one rule    *)
(* and differ in how a free one is found; a behaviour is about one of the  *)
(* two columns.  Texts of slugs and of ids are kept apart.                 *)
(***************************************************************************)
EXTENDS Naturals, FiniteSets

CONSTANTS
  Numbers,     \* ids of one category: PF-SAR-0001, ...
  Fresh,       \* ids made of the time
  Suffixes,    \* what a slug may end in, or the digits of a SKU; 0 is none
  Writers,     \* overlapping requests
  Editors,     \* those that may do more than create
  MaxProducts  \* bound

VARIABLES
  column,  \* "slug" or "sku"
  row,     \* catalog_product: [label, code] by id
  raced,   \* products last written by a request that overlapped another
  req      \* between the look-up and the write

vars == <<column, row, raced, req>>

Ids == Numbers \cup Fresh
NoProduct == [label |-> 0, code |-> "none"]
Keys == {p \in Ids : row[p] # NoProduct}
Idle == [op |-> "idle"]
Spellings == Suffixes \X {"lower", "UPPER"}
Blank == <<0, "blank">>

Init ==
  /\ column \in {"slug", "sku"}
  /\ row = [p \in Ids |-> NoProduct]
  /\ raced = {}
  /\ req = [r \in Writers |-> Idle]

-----------------------------------------------------------------------------

\* _product_with_sku and _product_with_slug: whatever the case.
SameCode(c, d) == c # Blank /\ d # Blank /\ c[1] = d[1]
Taken(code, except) == \E p \in Keys \ except : SameCode(row[p].code, code)

\* _assert_slug_available, _assert_sku_available.
Available(code, except) == code # Blank => ~Taken(code, except)

\* _generate_unique_slug and _generate_unique_sku.
Generated ==
  {<<n, IF column = "slug" THEN "lower" ELSE "UPPER">> :
     n \in {m \in Suffixes : /\ ~Taken(<<m, "lower">>, {})
                             /\ column = "slug" => \A k \in 0..m-1 : Taken(<<k, "lower">>, {})}}

\* What a create stores: the code it was given, or a generated one.
Stored == {c \in Spellings : Available(c, {})} \cup Generated

\* get_next_id.
NextId == {n \in Numbers \ Keys : \A m \in Numbers \ Keys : n <= m}

Begin(r, new) ==
  /\ req[r] = Idle
  /\ req' = [s \in Writers |-> IF s = r
                THEN [new EXCEPT !.alone = \A o \in Writers : req[o] = Idle]
                ELSE IF req[s] = Idle THEN Idle ELSE [req[s] EXCEPT !.alone = FALSE]]
  /\ UNCHANGED <<column, row, raced>>

Insert(r, id, code) ==
  /\ Cardinality(Keys) < MaxProducts
  /\ Begin(r, [op |-> "insert", id |-> id, label |-> id, code |-> code, alone |-> TRUE])

\* create_product.
CreateProduct(r) == \E id \in Fresh \ Keys, code \in Stored : Insert(r, id, code)

\* create_draft: the caller's id is no other product's id.
CreateDraft(r, id) == id \notin Keys /\ \E code \in Stored : Insert(r, id, code)

\* create_employee_draft.
CreateEmployeeDraft(r) == \E id \in NextId, code \in Generated : Insert(r, id, code)

\* duplicate_product.
DuplicateProduct(r, p) == p \in Keys /\ \E id \in Fresh \ Keys, code \in Generated : Insert(r, id, code)

\* update_product: a blank code is stored as it is.
UpdateCode(r, p, code) ==
  /\ p \in Keys /\ Available(code, {p})
  /\ Begin(r, [op |-> "code", id |-> p, label |-> p, code |-> code, alone |-> TRUE])

\* change_product_id: no other product's id or label.
LabelFree(p, label) == \A q \in Keys \ {p} : label # q /\ label # row[q].label

ChangeProductId(r, p, label) ==
  /\ p \in Keys /\ LabelFree(p, label)
  /\ Begin(r, [op |-> "label", id |-> p, label |-> label, code |-> Blank, alone |-> TRUE])

\* The flush: one column, or a row; primary key and unique label hold.
Write(r) ==
  LET new == req[r]  p == new.id IN
  /\ new.op # "idle"
  /\ new.op = "insert" => p \notin Keys
  /\ new.op # "code" => \A q \in Keys \ {p} : row[q].label # new.label
  /\ row' = [row EXCEPT ![p] =
       [label |-> IF new.op = "code" THEN @.label ELSE new.label,
        code  |-> IF new.op = "label" THEN @.code ELSE new.code]]
  /\ raced' = IF new.op = "label" THEN raced
              ELSE IF new.alone THEN raced \ {p} ELSE raced \cup {p}
  /\ req' = [req EXCEPT ![r] = Idle]
  /\ UNCHANGED column

Fail(r) == req[r] # Idle /\ req' = [req EXCEPT ![r] = Idle] /\ UNCHANGED <<column, row, raced>>

-----------------------------------------------------------------------------

CreateCalls(r) == CreateProduct(r) \/ \E id \in Numbers : CreateDraft(r, id)
EmployeeCalls(r) == CreateEmployeeDraft(r)
IdentityCalls(r) ==
  \E p \in Ids : DuplicateProduct(r, p) \/ \E label \in Numbers : ChangeProductId(r, p, label)
EditCalls(r) == \E p \in Ids, code \in Spellings \cup {Blank} : UpdateCode(r, p, code)

Next ==
  \/ \E r \in Writers : CreateCalls(r) \/ EmployeeCalls(r) \/ Write(r) \/ Fail(r)
  \/ \E r \in Editors : IdentityCalls(r) \/ EditCalls(r)

Spec == Init /\ [][Next]_vars

-----------------------------------------------------------------------------

\* An id or a label names one product, however requests overlap, and two
\* products share a slug or a SKU only if requests that overlapped wrote both.
\* (product_service.py:2362, "a duplicate label makes admin lookups silently
\* ambiguous", and :1097, service-layer uniqueness)
IdentityKept ==
  \A p, q \in Keys : p # q =>
    /\ row[p].label # row[q].label /\ row[p].label # q
    /\ SameCode(row[p].code, row[q].code) => {p, q} \subseteq raced
=============================================================================
