---------------------------- MODULE Collections ----------------------------
(***************************************************************************)
(* Merchandised collections of products (CollectionService) and the two    *)
(* ways a product's page names the collections it is in (ProductService).  *)
(*                                                                         *)
(* A write reads the collection without a lock, changes columns of the     *)
(* loaded row and commits; only columns that differ from what it read are  *)
(* sent.  A collection lists explicit products, those whose legacy labels  *)
(* name it, or those its rule matches.                                     *)
(*                                                                         *)
(* A rule is none, blank (some keys, but no flag, occasion or fabric) or   *)
(* set; the free labels of a product may name a collection in another case *)
(* than its own.  Names stand for the collections that have them.          *)
(*                                                                         *)
(* Slugs, which only refuse, dates, texts and images are left out; a patch *)
(* of several fields is a patch of each.                                   *)
(***************************************************************************)
EXTENDS FiniteSets

CONSTANTS
  Shelves, Products,
  Labelled,    \* <<collection, product>>: the product's labels name it
  Recased,     \* <<collection, product>>: they name it in another case
  Flagged,     \* products the rule matches
  Writers      \* requests that may overlap

VARIABLES
  shelf,     \* catalog_collection rows
  visible,   \* products that are PUBLISHED and published
  req        \* writes under way

vars == <<shelf, visible, req>>

Idle == [of |-> {}, fresh |-> FALSE, set |-> <<>>]
NoShelf == [status |-> "NONE", type |-> "MANUAL", explicit |-> {}, rule |-> "none"]
Rules == {"none", "blank", "set"}
Standing == {c \in Shelves : shelf[c].status # "NONE"}

Init ==
  /\ shelf = [c \in Shelves |-> NoShelf]
  /\ visible \in SUBSET Products
  /\ req = [w \in Writers |-> Idle]

\* The columns that differ from the row that was read.
Dirty(c, new) ==
  LET columns == {k \in DOMAIN new : new[k] # shelf[c][k]}
  IN [k \in columns |-> new[k]]

Load(w, c, new) ==
  /\ req[w] = Idle
  /\ req' = [req EXCEPT ![w] = [of |-> {c}, fresh |-> c \notin Standing, set |-> Dirty(c, new)]]
  /\ UNCHANGED <<shelf, visible>>

\* create_collection: a rule that is not given is empty.
CreateCollection(w, c, type, members, rule) ==
  /\ c \notin Standing
  /\ Load(w, c, [status |-> "DRAFT", type |-> type, explicit |-> members, rule |-> rule])

\* update_collection: explicit products and a rule, whatever the type.
UpdateCollection(w, c, type, members, rule) ==
  /\ c \in Standing
  /\ \/ Load(w, c, [type |-> type])
     \/ Load(w, c, [explicit |-> members])
     \/ Load(w, c, [rule |-> rule])

\* activate, pause, archive and restore.
MoveCollection(w, c) ==
  /\ c \in Standing
  /\ \/ shelf[c].status # "ARCHIVED" /\ Load(w, c, [status |-> "ACTIVE"])
     \/ shelf[c].status = "ACTIVE"   /\ Load(w, c, [status |-> "PAUSED"])
     \/ shelf[c].status # "ARCHIVED" /\ Load(w, c, [status |-> "ARCHIVED"])
     \/ shelf[c].status = "ARCHIVED" /\ Load(w, c, [status |-> "DRAFT"])

\* assign_products: of a MANUAL collection.
AssignProducts(w, c, members) ==
  /\ c \in Standing /\ shelf[c].type = "MANUAL"
  /\ Load(w, c, [explicit |-> members])

Write(w) == \E c \in req[w].of :
  /\ req[w].fresh => c \notin Standing
  /\ shelf' = [shelf EXCEPT ![c] = [k \in DOMAIN shelf[c] |->
                 IF k \in DOMAIN req[w].set THEN req[w].set[k] ELSE shelf[c][k]]]
  /\ req' = [req EXCEPT ![w] = Idle]
  /\ UNCHANGED visible

Abort(w) == req[w] # Idle /\ req' = [req EXCEPT ![w] = Idle] /\ UNCHANGED <<shelf, visible>>

\* Products are published and withdrawn (module Catalog).
Publication(p) ==
  /\ visible' = IF p \in visible THEN visible \ {p} ELSE visible \cup {p}
  /\ UNCHANGED <<shelf, req>>

CollectionCalls(w) == \E c \in Shelves :
  \/ \E type \in {"MANUAL", "RULE_BASED"}, members \in SUBSET Products, rule \in Rules :
       \/ CreateCollection(w, c, type, members, rule)
       \/ UpdateCollection(w, c, type, members, rule)
  \/ MoveCollection(w, c)
  \/ \E members \in SUBSET Products : AssignProducts(w, c, members)

Next ==
  \/ \E w \in Writers : CollectionCalls(w) \/ Write(w) \/ Abort(w)
  \/ \E p \in Products : Publication(p)

Spec == Init /\ [][Next]_vars

-----------------------------------------------------------------------------

\* _rule_matches: a rule without a flag, an occasion or a fabric matches all.
Matched(rule) == IF rule = "set" THEN Flagged ELSE Products

\* _resolve_from_rows: a label counts in the case the collection has.
Members(c) ==
  IF shelf[c].type = "RULE_BASED" /\ shelf[c].rule # "none"
  THEN visible \cap Matched(shelf[c].rule)
  ELSE shelf[c].explicit \cup {p \in visible : <<c, p>> \in Labelled}

\* get_collection_product_ids and the storefront's listing of them.
Listed(c) == IF shelf[c].status = "ACTIVE" THEN Members(c) \cap visible ELSE {}

\* Both ways to name compare labels in any case, of collections without a rule.
NamedByLabel(c, p) == shelf[c].type # "RULE_BASED" /\ <<c, p>> \in Labelled \cup Recased

\* _collection_membership_names: the names on a page of many products.
NamesOnPage_AnyLabel(p) ==   \* mutant: labels also name rule-based collections
  {c \in Standing :
    \/ p \in shelf[c].explicit
    \/ shelf[c].type = "RULE_BASED" /\ p \in visible /\ p \in Matched(shelf[c].rule)
    \/ <<c, p>> \in Labelled \cup Recased}

NamesOnPage(p) ==
  {c \in Standing :
    \/ p \in shelf[c].explicit
    \/ shelf[c].type = "RULE_BASED" /\ p \in visible /\ p \in Matched(shelf[c].rule)
    \/ NamedByLabel(c, p)}

\* _collection_membership_names_for_product: the names on a product's own page.
NamesOfProduct(p) ==
  {c \in Standing :
    \/ shelf[c].type = "RULE_BASED" /\ p \in visible /\ shelf[c].rule = "set" /\ p \in Flagged
    \/ NamedByLabel(c, p)
    \/ shelf[c].type = "MANUAL" /\ p \in shelf[c].explicit}

\* Of a collection that is manual or whose rule is set, whatever overlapping
\* writes leave of its type, rule and explicit products: the pages that list
\* products name it for those its own page names and, if it is rule-based, its
\* explicit products; a product it lists to the public is named as its member,
\* and one named so is listed unless only a label in another case names it.
\* Of rule-based collections whose rule is none or blank nothing is said.
\* (_collection_membership_names_for_product, get_collection_product_ids)
ShelvesAgree == \A c \in Standing, p \in Products :
  LET manual == shelf[c].type = "MANUAL"
      ruled  == shelf[c].type = "RULE_BASED" /\ shelf[c].rule = "set"
      named  == c \in NamesOfProduct(p)
  IN manual \/ ruled =>
       /\ c \in NamesOnPage(p) <=> named \/ (ruled /\ p \in shelf[c].explicit)
       /\ p \in Listed(c) => named
       /\ named /\ p \in visible /\ shelf[c].status = "ACTIVE" =>
            p \in Listed(c) \/ (manual /\ <<c, p>> \in Recased)
=============================================================================
