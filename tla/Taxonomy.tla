------------------------------ MODULE Taxonomy ------------------------------
(***************************************************************************)
(* Categories and subcategories (CategoryService) and the products that    *)
(* refer to them (ProductService._resolve_taxonomy, bulk_update).          *)
(*                                                                         *)
(* A product's references are text without a foreign key.  An edit resolves *)
(* what it was given, by id or slug, and stores the id of the row; a bulk  *)
(* edit stores what it was given.  Slugs may be renamed, ids never change; *)
(* a subcategory's id is made of the two slugs of the day it was created.  *)
(* Names, which may also refer to a row, behave as slugs do; an id is      *)
(* never another row's slug.                                               *)
(***************************************************************************)
EXTENDS Naturals, FiniteSets

CONSTANTS
  Categories,  \* ids
  Slugs,
  Products,
  Writers,     \* edits of products that overlap with everything else
  None,
  Absent,      \* a field that a request does not carry
  MaxSubs,     \* bound: subcategories
  MaxRenames   \* bound

VARIABLES
  category,  \* catalog_category: [slug, status] by id
  sub,       \* catalog_subcategory: [of, slug, status] by id
  product,   \* catalog_product: its two references
  bulk,      \* products of whose references a bulk edit may have left one
  renames,   \* so far
  req        \* an edit between its checks and its commit

vars == <<category, sub, product, bulk, renames, req>>

SubIds == Slugs \X Slugs
NoRow == [status |-> "ABSENT"]
Idle == [product |-> None]
Exists(row) == row.status # "ABSENT"
CategoryIds == {c \in Categories : Exists(category[c])}
SubRows == {i \in SubIds : Exists(sub[i])}

Init ==
  /\ category = [c \in Categories |-> NoRow]
  /\ sub = [i \in SubIds |-> NoRow]
  /\ product = [p \in Products |-> [category |-> None, subcategory |-> None]]
  /\ bulk = {} /\ renames = 0
  /\ req = [r \in Writers |-> Idle]

-----------------------------------------------------------------------------
(* The taxonomy desk.  A status step reads and writes one row; two that    *)
(* overlap write a status one of them could have written last.             *)

SlugUnique(slug) == \A c \in CategoryIds : category[c].slug # slug
SubSlugUnique(c, slug) == \A i \in SubRows : sub[i].of = c => sub[i].slug # slug

CreateCategory(c, slug) ==
  /\ c \notin CategoryIds /\ SlugUnique(slug)
  /\ category' = [category EXCEPT ![c] = [slug |-> slug, status |-> "HIDDEN"]]
  /\ UNCHANGED <<sub, product, bulk, renames, req>>

UpdateCategory(c, slug) ==
  /\ c \in CategoryIds /\ SlugUnique(slug) /\ renames < MaxRenames
  /\ category' = [category EXCEPT ![c].slug = slug]
  /\ renames' = renames + 1
  /\ UNCHANGED <<sub, product, bulk, req>>

\* Activate, archive and restore.  DRAFT and ARCHIVED are both hidden from the
\* storefront, and from either there is a way to ACTIVE.
StatusMoves == {<<"HIDDEN", "ACTIVE">>, <<"ACTIVE", "HIDDEN">>}

MoveCategory(c, to) ==
  /\ <<category[c].status, to>> \in StatusMoves
  /\ category' = [category EXCEPT ![c].status = to]
  /\ UNCHANGED <<sub, product, bulk, renames, req>>

\* The slug is free in its category; that the id is, only the primary key says.
CreateSubcategory(c, slug) ==
  LET id == <<category[c].slug, slug>> IN
  /\ c \in CategoryIds /\ SubSlugUnique(c, slug) /\ Cardinality(SubRows) < MaxSubs
  /\ id \notin SubRows
  /\ sub' = [sub EXCEPT ![id] = [of |-> c, slug |-> slug, status |-> "HIDDEN"]]
  /\ UNCHANGED <<category, product, bulk, renames, req>>

UpdateSubcategory(i, slug) ==
  /\ i \in SubRows /\ SubSlugUnique(sub[i].of, slug) /\ renames < MaxRenames
  /\ sub' = [sub EXCEPT ![i].slug = slug]
  /\ renames' = renames + 1
  /\ UNCHANGED <<category, product, bulk, req>>

MoveSubcategory(i, to) ==
  /\ <<sub[i].status, to>> \in StatusMoves
  /\ sub' = [sub EXCEPT ![i].status = to]
  /\ UNCHANGED <<category, product, bulk, renames, req>>

-----------------------------------------------------------------------------
(* Products.                                                               *)

\* _lookup_category and _pick_subcategory: the rows a reference names, by id
\* before slug.
Lookup(ref) ==
  IF ref \in CategoryIds THEN {ref} ELSE {c \in CategoryIds : category[c].slug = ref}
Pick(ref, c) ==
  LET owned == {i \in SubRows : sub[i].of = c} IN
  IF ref \in owned THEN {ref} ELSE {i \in owned : sub[i].slug = ref}

CategoryRefs == Categories \cup Slugs
SubRefs == SubIds \cup Slugs \cup {None}

\* _resolve_taxonomy: what an edit stores of the references it was given, for
\* a product with these references; no pair when it is refused.
Resolve(now, c, s) ==
  LET given == IF s = Absent THEN now.subcategory ELSE s
      rows == {x \in Lookup(IF c = Absent THEN now.category ELSE c) :
                 c # Absent => category[x].status = "ACTIVE"} IN
  IF <<c, s>> = <<Absent, None>> THEN {[now EXCEPT !.subcategory = None]}
  ELSE IF given = None
  THEN {[category |-> IF c = Absent THEN now.category ELSE x, subcategory |-> None] : x \in rows}
  ELSE {[category |-> IF c = Absent THEN now.category ELSE x[1],
         subcategory |-> IF s = Absent THEN now.subcategory ELSE x[2]] :
          x \in {y \in rows \X SubRows : y[2] \in Pick(given, y[1]) /\ (s # Absent => sub[y[2]].status = "ACTIVE")}}

\* create_product, update_product: checked, then written.
EditRead(r, p, c, s) ==
  /\ req[r] = Idle
  /\ \A other \in Writers : req[other].product # p
  /\ <<c, s>> # <<Absent, Absent>>
  /\ \E pair \in Resolve(product[p], c, s) :
       req' = [req EXCEPT ![r] = [product |-> p, pair |-> pair, both |-> Absent \notin {c, s}]]
  /\ UNCHANGED <<category, sub, product, bulk, renames>>

EditWrite(r) ==
  LET p == req[r].product  pair == req[r].pair IN
  /\ req[r] # Idle
  /\ product' = [product EXCEPT ![p] = pair]
  /\ bulk' = IF req[r].both THEN bulk \ {p} ELSE bulk
  /\ req' = [req EXCEPT ![r] = Idle]
  /\ UNCHANGED <<category, sub, renames>>

Abort(r) == req[r] # Idle /\ req' = [req EXCEPT ![r] = Idle] /\ UNCHANGED <<category, sub, product, bulk, renames>>

\* bulk_update: what it was given, unresolved; the listed products at once.  It
\* is given slugs here: an id would be stored as an edit stores it.
BulkUpdate(ps, c, s) ==
  /\ ps # {} /\ <<c, s>> # <<Absent, Absent>>
  /\ \A r \in Writers : req[r].product \notin ps
  /\ product' = [p \in Products |-> IF p \notin ps THEN product[p] ELSE
       [category    |-> IF c = Absent THEN product[p].category ELSE c,
        subcategory |-> IF s = Absent THEN product[p].subcategory ELSE s]]
  /\ bulk' = bulk \cup ps
  /\ UNCHANGED <<category, sub, renames, req>>

-----------------------------------------------------------------------------

CategoryCalls ==
  \E c \in Categories :
    \/ \E slug \in Slugs : CreateCategory(c, slug) \/ UpdateCategory(c, slug) \/ CreateSubcategory(c, slug)
    \/ \E to \in {"ACTIVE", "HIDDEN"} : MoveCategory(c, to)
SubcategoryCalls ==
  \E i \in SubIds :
    \/ \E slug \in Slugs : UpdateSubcategory(i, slug)
    \/ \E to \in {"ACTIVE", "HIDDEN"} : MoveSubcategory(i, to)
ProductCalls ==
  \/ \E r \in Writers, p \in Products :
       \E c \in CategoryRefs \cup {Absent}, s \in SubRefs \cup {Absent} : EditRead(r, p, c, s)
  \/ \E r \in Writers : EditWrite(r) \/ Abort(r)
  \/ \E ps \in SUBSET Products, c \in Slugs \cup {Absent}, s \in Slugs \cup {Absent} : BulkUpdate(ps, c, s)

Next == CategoryCalls \/ SubcategoryCalls \/ ProductCalls

Spec == Init /\ [][Next]_vars

-----------------------------------------------------------------------------

\* What the storefront's status maps say of a reference; ACTIVE if nothing.
CategoryStatus(ref) == {category[c].status : c \in Lookup(ref)} \cup (IF Lookup(ref) = {} THEN {"ACTIVE"} ELSE {})
Hidden(p) ==
  \/ CategoryStatus(product[p].category) # {"ACTIVE"}
  \/ product[p].subcategory \in SubRows /\ sub[product[p].subcategory].status # "ACTIVE"

\* Whatever is renamed, archived and edited meanwhile, the references of a
\* product that no bulk edit touched name rows that belong together, so an
\* archived row hides every such product and a rename shows none.
\* (product_service.py:924, "What is stored is the canonical row id", and
\* archive_category, "removes ALL products in this category")
ReferencesHold ==
  \A p \in Products \ bulk :
    LET ref == product[p] IN
    /\ ref.category # None => ref.category \in CategoryIds
    /\ ref.subcategory # None => ref.subcategory \in SubRows /\ sub[ref.subcategory].of = ref.category
    /\ ref.category # None /\ ~Hidden(p) => category[ref.category].status = "ACTIVE"
=============================================================================
