------------------------------ MODULE Catalog ------------------------------
(***************************************************************************)
(* Products and their taxonomy: authoring, review, publication, archiving, *)
(* the storefront's visibility gate, and the cached product page           *)
(* (ProductService, CategoryService, core.cache).                          *)
(*                                                                         *)
(* A write reads its product, changes attributes of the loaded row, and    *)
(* flushes: the columns that differ from what it loaded are sent, which    *)
(* takes the row's lock, and the cached pages go.  The transaction commits *)
(* when the handler has returned.  A page is read in three steps, with an  *)
(* await between them, and then cached.                                    *)
(*                                                                         *)
(* Content is a version number.  Who may call what, publish issues, and    *)
(* the uniqueness of slugs only refuse, and are left out; the response     *)
(* cache in front of the page cache is cleared at the same points.         *)
(***************************************************************************)
EXTENDS Integers

CONSTANTS
  Products,
  Nodes,          \* categories and subcategories
  Taxonomies,     \* the references a product may have: SUBSET Nodes, a pair or less
  Slugs, Labels,  \* of one product; its id is the label it starts with
  Writers, Readers,
  MaxVersion      \* bound: content versions

ASSUME TaxonomyAssumption == Taxonomies \subseteq SUBSET Nodes /\ {} \in Taxonomies
ASSUME NamesAssumption == "id" \in Labels /\ Slugs # {} /\ Slugs \cap Labels = {}
ASSUME BoundAssumption == MaxVersion \in Nat \ {0}

VARIABLES
  product,   \* catalog_product, committed
  node,      \* status of catalog_category and catalog_subcategory rows
  page,      \* product:storefront:{address}
  req,       \* writes under way
  view,      \* page reads under way
  approved,  \* products a review has approved
  public     \* the versions of products that have been published

vars == <<product, node, page, req, view, approved, public>>

Statuses == {"NONE", "DRAFT", "PENDING_REVIEW", "PUBLISHED", "ARCHIVED"}
Reviews == {"NONE", "PENDING", "APPROVED", "REJECTED"}
NodeStatuses == {"DRAFT", "ACTIVE", "ARCHIVED"}
Row == [status : Statuses, published : BOOLEAN, review : Reviews, version : 0..MaxVersion,
        taxonomy : Taxonomies, slug : Slugs, label : Labels]
Columns == {"status", "published", "review", "version", "taxonomy", "slug", "label"}

Addresses == Slugs \cup Labels
NoPage == -1
NoRow == [status |-> "NONE", published |-> FALSE, review |-> "NONE", version |-> 0,
          taxonomy |-> {}, slug |-> CHOOSE s \in Slugs : TRUE, label |-> "id"]
Exists(p) == product[p].status # "NONE"

-----------------------------------------------------------------------------

Idle == [op |-> "idle", of |-> {}, set |-> <<>>]
NoView == [step |-> "idle", product |-> CHOOSE p \in Products : TRUE, address |-> "id",
           version |-> 0, taxonomy |-> {}]

TypeOK ==
  /\ product \in [Products -> Row]
  /\ node \in [Nodes -> NodeStatuses]
  /\ page \in [Products -> [Addresses -> {NoPage} \cup 0..MaxVersion]]
  /\ \A w \in Writers :
       /\ req[w].op \in {"idle", "loaded", "flushed", "node"}
       /\ req[w].of \subseteq Products \cup Nodes
       /\ DOMAIN req[w].set \subseteq Columns
  /\ view \in [Readers -> [step : {"idle", "row", "gate"}, product : Products, address : Addresses,
                           version : 0..MaxVersion, taxonomy : Taxonomies]]
  /\ approved \subseteq Products
  /\ public \subseteq Products \X (0..MaxVersion)

Init ==
  /\ product = [p \in Products |-> NoRow]
  /\ node = [n \in Nodes |-> "DRAFT"]
  /\ page = [p \in Products |-> [a \in Addresses |-> NoPage]]
  /\ req = [w \in Writers |-> Idle]
  /\ view = [r \in Readers |-> NoView]
  /\ approved = {} /\ public = {}

-----------------------------------------------------------------------------
(* A write: load, assign, flush, commit.                                   *)

\* The unit of work sends the attributes that no longer equal what was loaded.
Dirty(old, new) == [c \in {d \in Columns : new[d] # old[d]} |-> new[c]]
Updated(row, set) == [c \in Columns |-> IF c \in DOMAIN set THEN set[c] ELSE row[c]]

Load(w, p, new) ==
  /\ req[w].op = "idle" /\ Exists(p)
  /\ new # product[p]
  /\ req' = [req EXCEPT ![w] = [op |-> "loaded", of |-> {p}, set |-> Dirty(product[p], new)]]
  /\ UNCHANGED <<product, node, page, view, approved, public>>

\* invalidate_product_cache: the keys of the id and of the slug it has now.
Forget(p, slug) == [page[p] EXCEPT !["id"] = NoPage, ![slug] = NoPage]

Locked(x) == \E w \in Writers : req[w].op \in {"flushed", "node"} /\ x \in req[w].of

Flush(w) ==
  /\ req[w].op = "loaded"
  /\ \A p \in req[w].of : ~Locked(p)
  /\ page' = [p \in Products |->
       IF p \in req[w].of THEN Forget(p, Updated(product[p], req[w].set).slug) ELSE page[p]]
  /\ req' = [req EXCEPT ![w].op = "flushed"]
  /\ UNCHANGED <<product, node, view, approved, public>>

Commit(w) ==
  LET new == [p \in Products |-> IF p \in req[w].of THEN Updated(product[p], req[w].set) ELSE product[p]] IN
  /\ req[w].op = "flushed"
  /\ product' = new
  /\ approved' = approved \cup {p \in Products : new[p].review = "APPROVED"}
  /\ public' = public \cup {<<p, new[p].version>> :
                              p \in {q \in Products : new[q].status = "PUBLISHED" /\ new[q].published}}
  /\ req' = [req EXCEPT ![w] = Idle]
  /\ UNCHANGED <<node, page, view>>

\* An error or a lost connection before the commit.
Abort(w) ==
  /\ req[w].op # "idle"
  /\ req' = [req EXCEPT ![w] = Idle]
  /\ UNCHANGED <<product, node, page, view, approved, public>>

-----------------------------------------------------------------------------
(* Authoring.                                                              *)

\* _resolve_taxonomy: what is assigned must be ACTIVE when it is looked up.
Assignable(taxonomy) == \A n \in taxonomy : node[n] = "ACTIVE"

\* create_product, create_draft, create_employee_draft, duplicate_product.
Create(w, p, taxonomy) ==
  /\ req[w].op = "idle" /\ ~Exists(p) /\ ~Locked(p)
  /\ Assignable(taxonomy)
  /\ page' = [page EXCEPT ![p] = Forget(p, NoRow.slug)]
  /\ req' = [req EXCEPT ![w] = [op |-> "flushed", of |-> {p},
       set |-> Dirty(NoRow, [NoRow EXCEPT !.status = "DRAFT", !.taxonomy = taxonomy])]]
  /\ UNCHANGED <<product, node, view, approved, public>>

\* update_product: content, taxonomy (what stays is not looked up) and slug;
\* published is recomputed from the status as it was loaded.
UpdateProduct(w, p, taxonomy, slug) ==
  /\ product[p].version < MaxVersion
  /\ Assignable(taxonomy \ product[p].taxonomy)
  /\ Load(w, p, [product[p] EXCEPT !.version = @ + 1, !.taxonomy = taxonomy, !.slug = slug,
                                   !.published = product[p].status = "PUBLISHED"])

\* update_product_employee, assign_employee, clear_review_flags.
UpdateContent(w, p) ==
  /\ product[p].version < MaxVersion
  /\ Load(w, p, [product[p] EXCEPT !.version = @ + 1])

ChangeProductId(w, p, label) == Load(w, p, [product[p] EXCEPT !.label = label])

\* bulk_update: a category is set without being looked up, the pages go before
\* the one flush of all the products.
BulkUpdate(w, ps, taxonomy) ==
  /\ req[w].op = "idle" /\ ps # {} /\ \A p \in ps : Exists(p) /\ ~Locked(p)
  /\ page' = [p \in Products |-> IF p \in ps THEN Forget(p, product[p].slug) ELSE page[p]]
  /\ req' = [req EXCEPT ![w] = [op |-> "flushed", of |-> ps, set |-> [taxonomy |-> taxonomy]]]
  /\ UNCHANGED <<product, node, view, approved, public>>

-----------------------------------------------------------------------------
(* The lifecycle: the status and the review are two axes.                  *)

Submit(w, p) ==
  /\ product[p].status \notin {"PUBLISHED", "ARCHIVED", "PENDING_REVIEW"}
  /\ product[p].review \notin {"PENDING", "APPROVED"}
  /\ Load(w, p, [product[p] EXCEPT !.status = "PENDING_REVIEW", !.published = FALSE, !.review = "PENDING"])

Approve(w, p) ==
  /\ product[p].status = "PENDING_REVIEW" /\ product[p].review = "PENDING"
  /\ Load(w, p, [product[p] EXCEPT !.review = "APPROVED"])

Reject(w, p) ==
  /\ product[p].status = "PENDING_REVIEW" /\ product[p].review = "PENDING"
  /\ Load(w, p, [product[p] EXCEPT !.status = "DRAFT", !.published = FALSE, !.review = "REJECTED"])

Publish_Unreviewed(w, p) ==   \* mutant: the review is not looked at
  /\ product[p].status # "ARCHIVED"
  /\ Load(w, p, [product[p] EXCEPT !.status = "PUBLISHED", !.published = TRUE])
Publish(w, p) ==
  /\ product[p].status # "ARCHIVED" /\ product[p].review = "APPROVED"
  /\ Load(w, p, [product[p] EXCEPT !.status = "PUBLISHED", !.published = TRUE])

Unpublish(w, p) ==
  /\ product[p].status = "PUBLISHED"
  /\ Load(w, p, [product[p] EXCEPT !.status = "DRAFT", !.published = FALSE])

Archive(w, p) ==
  /\ product[p].status # "ARCHIVED"
  /\ Load(w, p, [product[p] EXCEPT !.status = "ARCHIVED", !.published = FALSE])

Restore(w, p) ==
  /\ product[p].status = "ARCHIVED"
  /\ Load(w, p, [product[p] EXCEPT !.status = "DRAFT", !.published = FALSE])

-----------------------------------------------------------------------------
(* The taxonomy desk.                                                      *)

NodeMoves == {<<"DRAFT", "ACTIVE">>, <<"ACTIVE", "ARCHIVED">>, <<"DRAFT", "ARCHIVED">>,
              <<"ARCHIVED", "ACTIVE">>}

\* activate, archive, restore: every product page goes, then the commit.
NodeFlush(w, n) ==
  /\ req[w].op = "idle" /\ ~Locked(n)
  /\ page' = [p \in Products |-> [a \in Addresses |-> NoPage]]
  /\ req' = [req EXCEPT ![w] = [op |-> "node", of |-> {n}, set |-> <<>>]]
  /\ UNCHANGED <<product, node, view, approved, public>>

NodeCommit(w, status) ==
  /\ req[w].op = "node"
  /\ \A n \in req[w].of : <<node[n], status>> \in NodeMoves
  /\ node' = [n \in Nodes |-> IF n \in req[w].of THEN status ELSE node[n]]
  /\ req' = [req EXCEPT ![w] = Idle]
  /\ UNCHANGED <<product, page, view, approved, public>>

-----------------------------------------------------------------------------
(* get_storefront_product.  A cached page is answered as it is.            *)

Live(row) == row.status = "PUBLISHED" /\ row.published
Named(p, a) == a \in {"id", product[p].slug, product[p].label}

ViewRow_AnyStatus(r, p, a) ==   \* mutant: the status is not looked at
  /\ view[r].step = "idle" /\ Exists(p) /\ Named(p, a) /\ page[p][a] = NoPage
  /\ view' = [view EXCEPT ![r] = [step |-> "row", product |-> p, address |-> a,
                                  version |-> product[p].version, taxonomy |-> product[p].taxonomy]]
  /\ UNCHANGED <<product, node, page, req, approved, public>>
ViewRow(r, p, a) ==
  /\ view[r].step = "idle" /\ Exists(p) /\ Named(p, a) /\ page[p][a] = NoPage
  /\ Live(product[p])
  /\ view' = [view EXCEPT ![r] = [step |-> "row", product |-> p, address |-> a,
                                  version |-> product[p].version, taxonomy |-> product[p].taxonomy]]
  /\ UNCHANGED <<product, node, page, req, approved, public>>

\* _taxonomy_visible.
Gate(r) ==
  /\ view[r].step = "row"
  /\ view' = [view EXCEPT ![r] = IF Assignable(view[r].taxonomy) THEN [@ EXCEPT !.step = "gate"] ELSE NoView]
  /\ UNCHANGED <<product, node, page, req, approved, public>>

Store(r) ==
  /\ view[r].step = "gate"
  /\ page' = [page EXCEPT ![view[r].product][view[r].address] = view[r].version]
  /\ view' = [view EXCEPT ![r] = NoView]
  /\ UNCHANGED <<product, node, req, approved, public>>

Expire_Never(p, a) == FALSE /\ UNCHANGED vars   \* mutant: pages are stored without a lifetime
\* TTL_PRODUCT_DETAIL has passed, or the process restarted.
Expire(p, a) ==
  /\ page[p][a] # NoPage
  /\ page' = [page EXCEPT ![p][a] = NoPage]
  /\ UNCHANGED <<product, node, req, view, approved, public>>

-----------------------------------------------------------------------------

EditCalls(w) ==
  \/ \E p \in Products :
       \/ \E taxonomy \in Taxonomies :
            \/ Create(w, p, taxonomy)
            \/ \E slug \in Slugs : UpdateProduct(w, p, taxonomy, slug)
       \/ \E label \in Labels : ChangeProductId(w, p, label)
  \/ \E ps \in SUBSET Products, taxonomy \in Taxonomies : BulkUpdate(w, ps, taxonomy)

EmployeeCalls(w) == \E p \in Products : UpdateContent(w, p)
ReviewCalls(w) == \E p \in Products : Submit(w, p)

LifecycleCalls(w) ==
  \E p \in Products :
    \/ Approve(w, p) \/ Reject(w, p) \/ Publish(w, p) \/ Unpublish(w, p)
    \/ Archive(w, p) \/ Restore(w, p)

TaxonomyCalls(w) ==
  \/ \E n \in Nodes : NodeFlush(w, n)
  \/ \E status \in NodeStatuses : NodeCommit(w, status)

Write(w) ==
  \/ EditCalls(w) \/ EmployeeCalls(w) \/ ReviewCalls(w) \/ LifecycleCalls(w) \/ TaxonomyCalls(w)
  \/ Flush(w) \/ Commit(w) \/ Abort(w)

Next ==
  \/ \E w \in Writers : Write(w)
  \/ \E r \in Readers :
       \/ \E p \in Products, a \in Addresses : ViewRow(r, p, a)
       \/ Gate(r) \/ Store(r)
  \/ \E p \in Products, a \in Addresses : Expire(p, a)

Spec == Init /\ [][Next]_vars
\* Time passes, and a read that has begun ends.
FairSpec ==
  /\ Spec
  /\ \A p \in Products, a \in Addresses : WF_vars(Expire(p, a))
  /\ \A r \in Readers : WF_vars(Gate(r) \/ Store(r))

-----------------------------------------------------------------------------
(* Properties.                                                             *)

\* Whatever runs together, a product that is live has passed a review.
LiveWasApproved == \A p \in Products : Live(product[p]) => p \in approved

\* A page, however late it is stored and however long it is kept, never shows
\* content that was not published at some time: nothing of a draft leaks.
PagesWerePublic ==
  \A p \in Products, a \in Addresses : page[p][a] # NoPage => <<p, page[p][a]>> \in public

\* A product withdrawn for good is in the end not served under any address,
\* also one no write clears (an earlier slug, the display label).
WithdrawnLeaves ==
  \A p \in Products :
    <>[](~Live(product[p])) => <>[](\A a \in Addresses : page[p][a] = NoPage)

=============================================================================
