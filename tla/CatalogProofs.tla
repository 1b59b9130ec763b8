---------------------------- MODULE CatalogProofs ----------------------------
(***************************************************************************)
(* What the storefront shows, for any number of products, writers and      *)
(* readers: requests that loaded a row before another one committed write  *)
(* only the columns they changed, and a page is stored after the row it    *)
(* shows may have gone.                                                    *)
(***************************************************************************)
EXTENDS Catalog, TLAPS

Shape ==
  /\ product = [p \in Products |-> product[p]]
  /\ \A p \in Products : DOMAIN product[p] = Columns
  /\ page = [p \in Products |-> page[p]]
  /\ \A p \in Products : page[p] = [a \in Addresses |-> page[p][a]]
  /\ req = [w \in Writers |-> req[w]]
  /\ \A w \in Writers : DOMAIN req[w].set \subseteq Columns
  /\ view = [r \in Readers |-> view[r]]

\* The two axes of the lifecycle, and the writes that carry a publication.
Reviewed(p) == product[p].review = "APPROVED" \/ product[p].status = "PUBLISHED"
Publishes(set) == "status" \in DOMAIN set /\ set["status"] = "PUBLISHED"
ReviewInv ==
  /\ \A p \in Products : Reviewed(p) => p \in approved
  /\ \A w \in Writers : Publishes(req[w].set) => req[w].of \subseteq approved

\* What is live, being read, or cached, has been public.
PublicInv ==
  /\ \A p \in Products : Live(product[p]) => <<p, product[p].version>> \in public
  /\ \A r \in Readers : view[r].step # "idle" => <<view[r].product, view[r].version>> \in public
  /\ PagesWerePublic

CatalogInv == Shape /\ ReviewInv /\ PublicInv

LEMMA CatalogInit == Init => CatalogInv
<1> SUFFICES ASSUME Init PROVE CatalogInv
  OBVIOUS
<1>1. DOMAIN NoRow = Columns /\ NoRow.status = "NONE" /\ NoRow.review = "NONE"
  BY DEF NoRow, Columns
<1>2. DOMAIN Idle.set = {} /\ NoView.step = "idle"
  BY DEF Idle, NoView
<1>3. Shape
  BY <1>1, <1>2 DEF Init, Shape
<1>4. ReviewInv
  BY <1>1, <1>2 DEF Init, ReviewInv, Reviewed, Publishes
<1>5. PublicInv
  BY <1>1, <1>2 DEF Init, PublicInv, PagesWerePublic, Live
<1> QED
  BY <1>3, <1>4, <1>5 DEF CatalogInv

-----------------------------------------------------------------------------
(* Writers.                                                                *)

\* The pages after a step that drops some of them.
Dropped(old, new) ==
  /\ new = [p \in Products |-> new[p]]
  /\ \A p \in Products :
       /\ new[p] = [a \in Addresses |-> new[p][a]]
       /\ \A a \in Addresses : new[p][a] = old[p][a] \/ new[p][a] = NoPage

LEMMA ForgetDrops ==
  ASSUME Shape, NEW p \in Products, NEW slug
  PROVE  /\ Forget(p, slug) = [a \in Addresses |-> Forget(p, slug)[a]]
         /\ \A a \in Addresses : Forget(p, slug)[a] \in {page[p][a], NoPage}
BY DEF Shape, Forget

\* A writer takes up a request, leaves the rows as they are and drops pages.
LEMMA Requested ==
  ASSUME CatalogInv, NEW w \in Writers, NEW new,
         DOMAIN new.set \subseteq Columns,
         Publishes(new.set) => new.of \subseteq approved,
         req' = [req EXCEPT ![w] = new],
         Dropped(page, page'),
         UNCHANGED <<product, view, approved, public>>
  PROVE  CatalogInv'
<1>1. /\ req' = [v \in Writers |-> req'[v]]
      /\ \A v \in Writers : req'[v] = req[v] \/ req'[v] = new
  BY DEF CatalogInv, Shape
<1>2. Shape'
  BY <1>1 DEF CatalogInv, Shape, Dropped
<1>3. ReviewInv'
  BY <1>1 DEF CatalogInv, ReviewInv, Reviewed
<1>4. PublicInv'
  BY DEF CatalogInv, PublicInv, PagesWerePublic, Dropped
<1> QED
  BY <1>2, <1>3, <1>4 DEF CatalogInv

LEMMA NothingDropped == ASSUME Shape, UNCHANGED page PROVE Dropped(page, page')
BY DEF Shape, Dropped

\* A loaded row keeps its status, or is published after its review.
LEMMA Loads ==
  ASSUME CatalogInv, NEW w \in Writers, NEW p \in Products, NEW new, Load(w, p, new),
         new["status"] = "PUBLISHED" => Reviewed(p)
  PROVE  CatalogInv'
<1> DEFINE set == Dirty(product[p], new)
           asked == [op |-> "loaded", of |-> {p}, set |-> set]
<1>1. DOMAIN set \subseteq Columns /\ \A c \in DOMAIN set : set[c] = new[c]
  BY DEF Dirty
<1>2. req' = [req EXCEPT ![w] = asked] /\ UNCHANGED <<product, page, view, approved, public>>
  BY DEF Load
<1>3. asked.set = set /\ asked.of = {p}
  OBVIOUS
<1> HIDE DEF set, asked
<1>4. Publishes(set) => p \in approved
  BY <1>1 DEF Publishes, CatalogInv, ReviewInv
<1> QED
  BY <1>1, <1>2, <1>3, <1>4, NothingDropped, Requested DEF CatalogInv

LEMMA Committed == ASSUME CatalogInv, NEW w \in Writers, Commit(w) PROVE CatalogInv'
<1> DEFINE set == req[w].set
           of == req[w].of
           new == [p \in Products |-> IF p \in of THEN Updated(product[p], set) ELSE product[p]]
<1>1. Shape /\ ReviewInv /\ PublicInv
  BY DEF CatalogInv
<1>2. /\ product' = new
      /\ approved' = approved \cup {p \in Products : new[p].review = "APPROVED"}
      /\ public' = public \cup {<<p, new[p].version>> :
                     p \in {q \in Products : new[q].status = "PUBLISHED" /\ new[q].published}}
      /\ req' = [req EXCEPT ![w] = Idle]
      /\ UNCHANGED <<page, view>>
  BY DEF Commit
<1>3. DOMAIN set \subseteq Columns /\ (Publishes(set) => of \subseteq approved)
  BY <1>1 DEF Shape, ReviewInv
<1>4. ASSUME NEW p \in Products
      PROVE  /\ DOMAIN new[p] = Columns
             /\ new[p]["status"] = "PUBLISHED" =>
                  product[p]["status"] = "PUBLISHED" \/ (p \in of /\ Publishes(set))
  <2>1. DOMAIN product[p] = Columns /\ "status" \in Columns
    BY <1>1 DEF Shape, Columns
  <2>2. CASE p \in of
    <3>1. new[p] = [c \in Columns |-> IF c \in DOMAIN set THEN set[c] ELSE product[p][c]]
      BY <2>2 DEF Updated
    <3> HIDE DEF new, set, of
    <3> QED
      BY <2>1, <2>2, <3>1, <1>3 DEF Publishes
  <2>3. CASE p \notin of
    BY <2>1, <2>3
  <2> QED
    BY <2>2, <2>3
<1>5. new = [p \in Products |-> new[p]]
  OBVIOUS
<1> HIDE DEF new, set, of
<1>6. /\ req' = [v \in Writers |-> req'[v]]
      /\ \A v \in Writers : req'[v] = req[v] \/ req'[v] = Idle
  BY <1>1, <1>2 DEF Shape
<1>7. DOMAIN Idle.set = {}
  BY DEF Idle
<1>8. Shape'
  BY <1>1, <1>2, <1>4, <1>5, <1>6, <1>7 DEF Shape
<1>9. \A p \in Products : Reviewed(p)' => p \in approved'
  BY <1>1, <1>2, <1>3, <1>4 DEF Reviewed, ReviewInv
<1>10. \A v \in Writers : Publishes(req[v].set)' => (req[v].of)' \subseteq approved'
  BY <1>1, <1>2, <1>6, <1>7 DEF Publishes, ReviewInv
<1>11. PublicInv'
  BY <1>1, <1>2 DEF PublicInv, PagesWerePublic, Live
<1> QED
  BY <1>8, <1>9, <1>10, <1>11 DEF CatalogInv, ReviewInv

LEMMA Flushed == ASSUME CatalogInv, NEW w \in Writers, Flush(w) PROVE CatalogInv'
<1> DEFINE new == [req[w] EXCEPT !.op = "flushed"]
<1>1. req' = [req EXCEPT ![w] = new] /\ UNCHANGED <<product, view, approved, public>>
  BY DEF Flush
<1>2. Dropped(page, page')
  BY ForgetDrops DEF CatalogInv, Shape, Flush, Dropped
<1>3. new.set = req[w].set /\ new.of = req[w].of
  OBVIOUS
<1> HIDE DEF new
<1>4. DOMAIN new.set \subseteq Columns /\ (Publishes(new.set) => new.of \subseteq approved)
  BY <1>3 DEF CatalogInv, Shape, ReviewInv
<1> QED
  BY <1>1, <1>2, <1>4, Requested

LEMMA Aborted == ASSUME CatalogInv, NEW w \in Writers, Abort(w) PROVE CatalogInv'
<1>1. req' = [req EXCEPT ![w] = Idle] /\ UNCHANGED <<product, page, view, approved, public>>
  BY DEF Abort
<1>2. DOMAIN Idle.set = {}
  BY DEF Idle
<1> QED
  BY <1>1, <1>2, NothingDropped, Requested DEF CatalogInv, Publishes

\* A step that inserts a draft, or sets a taxonomy without loading the rows.
LEMMA Inserted ==
  ASSUME CatalogInv, NEW w \in Writers, NEW p \in Products, NEW taxonomy, Create(w, p, taxonomy)
  PROVE  CatalogInv'
<1> DEFINE row == [NoRow EXCEPT !.status = "DRAFT", !.taxonomy = taxonomy]
           set == Dirty(NoRow, row)
           new == [op |-> "flushed", of |-> {p}, set |-> set]
<1>1. req' = [req EXCEPT ![w] = new] /\ UNCHANGED <<product, view, approved, public>>
  BY DEF Create
<1>2. new.set = set /\ row["status"] = "DRAFT"
  BY DEF NoRow
<1>3. page' = [page EXCEPT ![p] = Forget(p, NoRow.slug)]
  BY DEF Create
<1>4. Dropped(page, page')
  BY <1>3, ForgetDrops DEF CatalogInv, Shape, Dropped
<1> HIDE DEF row
<1>5. DOMAIN set \subseteq Columns /\ ~Publishes(set)
  BY <1>2 DEF Dirty, Publishes
<1> HIDE DEF new, set
<1> QED
  BY <1>1, <1>2, <1>4, <1>5, Requested

LEMMA Bulk ==
  ASSUME CatalogInv, NEW w \in Writers, NEW ps, NEW taxonomy, BulkUpdate(w, ps, taxonomy)
  PROVE  CatalogInv'
<1> DEFINE set == [taxonomy |-> taxonomy]
           new == [op |-> "flushed", of |-> ps, set |-> set]
<1>1. req' = [req EXCEPT ![w] = new] /\ UNCHANGED <<product, view, approved, public>>
  BY DEF BulkUpdate
<1>2. new.set = set /\ DOMAIN set \subseteq Columns /\ ~Publishes(set)
  BY DEF Publishes, Columns
<1>3. Dropped(page, page')
  BY ForgetDrops DEF CatalogInv, Shape, BulkUpdate, Dropped
<1> HIDE DEF new, set
<1> QED
  BY <1>1, <1>2, <1>3, Requested

LEMMA NodeFlushed ==
  ASSUME CatalogInv, NEW w \in Writers, NEW n, NodeFlush(w, n) PROVE CatalogInv'
<1> DEFINE new == [op |-> "node", of |-> {n}, set |-> <<>>]
<1>1. req' = [req EXCEPT ![w] = new] /\ UNCHANGED <<product, view, approved, public>>
  BY DEF NodeFlush
<1>2. DOMAIN new.set = {}
  OBVIOUS
<1>3. Dropped(page, page')
  BY DEF NodeFlush, Dropped
<1> HIDE DEF new
<1> QED
  BY <1>1, <1>2, <1>3, Requested DEF Publishes

LEMMA NodeCommitted ==
  ASSUME CatalogInv, NEW w \in Writers, NEW status, NodeCommit(w, status) PROVE CatalogInv'
<1>1. req' = [req EXCEPT ![w] = Idle] /\ UNCHANGED <<product, page, view, approved, public>>
  BY DEF NodeCommit
<1>2. DOMAIN Idle.set = {}
  BY DEF Idle
<1> QED
  BY <1>1, <1>2, NothingDropped, Requested DEF CatalogInv, Publishes

LEMMA WriteStep == ASSUME CatalogInv, NEW w \in Writers, Write(w) PROVE CatalogInv'
<1>0. \A p \in Products : DOMAIN product[p] = Columns /\ {"status", "review"} \subseteq Columns
  BY DEF CatalogInv, Shape, Columns
<1>1. ASSUME NEW p \in Products, NEW taxonomy \in Taxonomies, Create(w, p, taxonomy) PROVE CatalogInv'
  BY <1>1, Inserted
<1>2. ASSUME NEW p \in Products, NEW taxonomy \in Taxonomies, NEW slug \in Slugs,
             UpdateProduct(w, p, taxonomy, slug)
      PROVE  CatalogInv'
  BY <1>0, <1>2, Loads DEF UpdateProduct, Reviewed
<1>3. ASSUME NEW p \in Products, UpdateContent(w, p) PROVE CatalogInv'
  BY <1>0, <1>3, Loads DEF UpdateContent, Reviewed
<1>4. ASSUME NEW p \in Products, NEW label \in Labels, ChangeProductId(w, p, label) PROVE CatalogInv'
  BY <1>0, <1>4, Loads DEF ChangeProductId, Reviewed
<1>5. ASSUME NEW p \in Products, Submit(w, p) PROVE CatalogInv'
  BY <1>0, <1>5, Loads DEF Submit
<1>6. ASSUME NEW p \in Products, Approve(w, p) PROVE CatalogInv'
  BY <1>0, <1>6, Loads DEF Approve, Reviewed
<1>7. ASSUME NEW p \in Products, Reject(w, p) PROVE CatalogInv'
  BY <1>0, <1>7, Loads DEF Reject
<1>8. ASSUME NEW p \in Products, Publish(w, p) PROVE CatalogInv'
  BY <1>0, <1>8, Loads DEF Publish, Reviewed
<1>9. ASSUME NEW p \in Products, Unpublish(w, p) PROVE CatalogInv'
  BY <1>0, <1>9, Loads DEF Unpublish
<1>10. ASSUME NEW p \in Products, Archive(w, p) PROVE CatalogInv'
  BY <1>0, <1>10, Loads DEF Archive
<1>11. ASSUME NEW p \in Products, Restore(w, p) PROVE CatalogInv'
  BY <1>0, <1>11, Loads DEF Restore
<1>12. ASSUME NEW ps \in SUBSET Products, NEW taxonomy \in Taxonomies, BulkUpdate(w, ps, taxonomy)
       PROVE  CatalogInv'
  BY <1>12, Bulk
<1>13. ASSUME NEW n \in Nodes, NodeFlush(w, n) PROVE CatalogInv'
  BY <1>13, NodeFlushed
<1>14. ASSUME NEW status \in NodeStatuses, NodeCommit(w, status) PROVE CatalogInv'
  BY <1>14, NodeCommitted
<1> QED
  BY <1>1, <1>2, <1>3, <1>4, <1>5, <1>6, <1>7, <1>8, <1>9, <1>10, <1>11, <1>12, <1>13, <1>14,
     Flushed, Committed, Aborted DEF Write, EditCalls, EmployeeCalls, ReviewCalls, LifecycleCalls,
     TaxonomyCalls

-----------------------------------------------------------------------------
(* Readers, and the end of a page's lifetime.                              *)

LEMMA ReadStep ==
  ASSUME CatalogInv, NEW r \in Readers, NEW new, view' = [view EXCEPT ![r] = new],
         new.step # "idle" => <<new.product, new.version>> \in public,
         UNCHANGED <<product, page, req, approved, public>>
  PROVE  CatalogInv'
<1>1. /\ view' = [s \in Readers |-> view'[s]]
      /\ \A s \in Readers : view'[s] = view[s] \/ view'[s] = new
  BY DEF CatalogInv, Shape
<1>2. Shape' /\ ReviewInv'
  BY <1>1 DEF CatalogInv, Shape, ReviewInv, Reviewed
<1>3. PublicInv'
  BY <1>1 DEF CatalogInv, PublicInv, PagesWerePublic
<1> QED
  BY <1>2, <1>3 DEF CatalogInv

LEMMA Viewed ==
  ASSUME CatalogInv, NEW r \in Readers, NEW p \in Products, NEW a \in Addresses, ViewRow(r, p, a)
  PROVE  CatalogInv'
<1> DEFINE new == [step |-> "row", product |-> p, address |-> a,
                   version |-> product[p].version, taxonomy |-> product[p].taxonomy]
<1>1. view' = [view EXCEPT ![r] = new] /\ UNCHANGED <<product, page, req, approved, public>>
  BY DEF ViewRow
<1>2. new.product = p /\ new.version = product[p].version
  OBVIOUS
<1>3. <<p, product[p].version>> \in public
  BY DEF ViewRow, CatalogInv, PublicInv
<1> HIDE DEF new
<1> QED
  BY <1>1, <1>2, <1>3, ReadStep

LEMMA Gated == ASSUME CatalogInv, NEW r \in Readers, Gate(r) PROVE CatalogInv'
<1> DEFINE new == IF Assignable(view[r].taxonomy) THEN [view[r] EXCEPT !.step = "gate"] ELSE NoView
<1>1. view' = [view EXCEPT ![r] = new] /\ UNCHANGED <<product, page, req, approved, public>>
  BY DEF Gate, CatalogInv, Shape
<1>2. new.step # "idle" => new.product = view[r].product /\ new.version = view[r].version
  BY DEF NoView
<1>3. <<view[r].product, view[r].version>> \in public
  BY DEF Gate, CatalogInv, PublicInv
<1> HIDE DEF new
<1> QED
  BY <1>1, <1>2, <1>3, ReadStep

LEMMA Stored == ASSUME CatalogInv, NEW r \in Readers, Store(r) PROVE CatalogInv'
<1>1. /\ page' = [page EXCEPT ![view[r].product][view[r].address] = view[r].version]
      /\ view' = [view EXCEPT ![r] = NoView]
      /\ UNCHANGED <<product, req, approved, public>>
  BY DEF Store
<1>2. <<view[r].product, view[r].version>> \in public /\ NoView.step = "idle"
  BY DEF Store, CatalogInv, PublicInv, NoView
<1> DEFINE q == view[r].product
           changed == [page[q] EXCEPT ![view[r].address] = view[r].version]
<1>3. Shape'
  <2>1. page' = [page EXCEPT ![q] = changed]
    BY <1>1
  <2>2. q \in Products => changed = [a \in Addresses |-> changed[a]]
    BY DEF CatalogInv, Shape
  <2> HIDE DEF q, changed
  <2>3. page' = [p \in Products |-> page'[p]]
        /\ \A p \in Products : page'[p] = IF p = q THEN changed ELSE page[p]
    BY <2>1 DEF CatalogInv, Shape
  <2>4. \A p \in Products : page'[p] = [a \in Addresses |-> page'[p][a]]
    BY <2>2, <2>3 DEF CatalogInv, Shape
  <2>5. view' = [s \in Readers |-> view'[s]]
    BY <1>1 DEF CatalogInv, Shape
  <2> QED
    BY <1>1, <2>3, <2>4, <2>5 DEF CatalogInv, Shape
<1> HIDE DEF q, changed
<1>4. ReviewInv'
  BY <1>1 DEF CatalogInv, ReviewInv, Reviewed
<1>5. PagesWerePublic'
  BY <1>1, <1>2 DEF CatalogInv, Shape, PublicInv, PagesWerePublic
<1>6. PublicInv'
  BY <1>1, <1>2, <1>5 DEF CatalogInv, Shape, PublicInv
<1> QED
  BY <1>3, <1>4, <1>6 DEF CatalogInv

LEMMA Expired ==
  ASSUME CatalogInv, NEW p \in Products, NEW a \in Addresses, Expire(p, a) PROVE CatalogInv'
<1>1. page' = [page EXCEPT ![p][a] = NoPage] /\ UNCHANGED <<product, req, view, approved, public>>
  BY DEF Expire
<1>2. Shape' /\ ReviewInv'
  BY <1>1 DEF CatalogInv, Shape, ReviewInv, Reviewed
<1>3. PublicInv'
  BY <1>1 DEF CatalogInv, Shape, PublicInv, PagesWerePublic
<1> QED
  BY <1>2, <1>3 DEF CatalogInv

LEMMA CatalogStep == CatalogInv /\ [Next]_vars => CatalogInv'
<1> SUFFICES ASSUME CatalogInv, [Next]_vars PROVE CatalogInv'
  OBVIOUS
<1>1. CASE UNCHANGED vars
  BY <1>1 DEF vars, CatalogInv, Shape, ReviewInv, Reviewed, PublicInv, PagesWerePublic
<1> QED
  BY <1>1, WriteStep, Viewed, Gated, Stored, Expired DEF Next

\* A product that is live has passed a review, though publishing looks at a
\* review read earlier and the status and the review are written by different
\* requests (publish_product, approve_product).
THEOREM LiveApproved == Spec => []LiveWasApproved
<1>1. CatalogInv => LiveWasApproved
  BY DEF CatalogInv, ReviewInv, Reviewed, LiveWasApproved, Live
<1> QED
  BY <1>1, CatalogInit, CatalogStep, PTL DEF Spec

\* A cached page shows only content that was published at some time, though the
\* row, the taxonomy and the cache are read and written in separate steps
\* (get_storefront_product).
THEOREM CachedWasPublic == Spec => []PagesWerePublic
<1>1. CatalogInv => PagesWerePublic
  BY DEF CatalogInv, PublicInv
<1> QED
  BY <1>1, CatalogInit, CatalogStep, PTL DEF Spec

-----------------------------------------------------------------------------
(* A withdrawn product.                                                    *)

\* A page of a withdrawn product can only still come from a read that began
\* while it was live, one page from each: what is left to be stored drains.
Late(p) == {r \in Readers : view[r].step # "idle" /\ view[r].product = p}
WithdrawnDrains ==
  [][\A p \in Products : ~Live(product[p]) =>
       /\ Late(p)' \subseteq Late(p)
       /\ \A a \in Addresses : page'[p][a] \notin {page[p][a], NoPage} =>
            \E r \in Late(p) : r \notin Late(p)' /\ view[r].address = a]_vars

\* A read begins only for a live product, and storing its page ends it.
LEMMA DrainStep ==
  ASSUME CatalogInv, Next, NEW p \in Products, ~Live(product[p])
  PROVE  /\ Late(p)' \subseteq Late(p)
         /\ \A a \in Addresses : page'[p][a] \notin {page[p][a], NoPage} =>
              \E r \in Late(p) : r \notin Late(p)' /\ view[r].address = a
<1> DEFINE Kept == \A a \in Addresses : page'[p][a] \in {page[p][a], NoPage}
<1>0. Shape /\ NoView.step = "idle"
  BY DEF CatalogInv, NoView
<1>1. ASSUME NEW w \in Writers, Write(w) PROVE UNCHANGED view /\ Kept
  <2>1. CASE UNCHANGED page
    BY <1>1, <2>1 DEF Write, EditCalls, Create, UpdateProduct, ChangeProductId, BulkUpdate,
       EmployeeCalls, UpdateContent, ReviewCalls, Submit, LifecycleCalls, Approve, Reject, Publish,
       Unpublish, Archive, Restore, TaxonomyCalls, NodeFlush, NodeCommit, Load, Flush, Commit, Abort
  <2>2. ASSUME NEW q \in Products, NEW taxonomy \in Taxonomies, Create(w, q, taxonomy)
        PROVE  UNCHANGED view /\ Kept
    BY <1>0, <2>2, ForgetDrops DEF Create, Shape
  <2>3. ASSUME NEW ps \in SUBSET Products, NEW taxonomy \in Taxonomies, BulkUpdate(w, ps, taxonomy)
        PROVE  UNCHANGED view /\ Kept
    BY <1>0, <2>3, ForgetDrops DEF BulkUpdate
  <2>4. ASSUME NEW n \in Nodes, NodeFlush(w, n) PROVE UNCHANGED view /\ Kept
    BY <2>4 DEF NodeFlush
  <2>5. ASSUME Flush(w) PROVE UNCHANGED view /\ Kept
    BY <1>0, <2>5, ForgetDrops DEF Flush
  <2> QED
    BY <1>1, <2>1, <2>2, <2>3, <2>4, <2>5 DEF Write, EditCalls, UpdateProduct, ChangeProductId,
       EmployeeCalls, UpdateContent, ReviewCalls, Submit, LifecycleCalls, Approve, Reject, Publish,
       Unpublish, Archive, Restore, TaxonomyCalls, NodeCommit, Load, Commit, Abort
<1>2. ASSUME NEW r \in Readers, NEW q \in Products, NEW a \in Addresses, ViewRow(r, q, a)
      PROVE  UNCHANGED page /\ Late(p)' \subseteq Late(p)
  <2>1. q # p
    BY <1>2 DEF ViewRow
  <2>2. view'[r].product = q /\ \A s \in Readers \ {r} : view'[s] = view[s]
    BY <1>0, <1>2 DEF ViewRow, Shape
  <2> QED
    BY <1>2, <2>1, <2>2 DEF ViewRow, Late
<1>3. ASSUME NEW r \in Readers, Gate(r) PROVE UNCHANGED page /\ Late(p)' \subseteq Late(p)
  <2>1. view[r].step = "row" /\ \A s \in Readers \ {r} : view'[s] = view[s]
    BY <1>0, <1>3 DEF Gate, Shape
  <2>2. view'[r].step = "idle" \/ view'[r].product = view[r].product
    BY <1>0, <1>3 DEF Gate, Shape
  <2> QED
    BY <1>3, <2>1, <2>2 DEF Gate, Late
<1>4. ASSUME NEW r \in Readers, Store(r)
      PROVE  /\ Late(p)' \subseteq Late(p)
             /\ \A a \in Addresses : page'[p][a] \notin {page[p][a], NoPage} =>
                  \E s \in Late(p) : s \notin Late(p)' /\ view[s].address = a
  <2>1. /\ view[r].step = "gate" /\ view'[r].step = "idle"
        /\ \A s \in Readers \ {r} : view'[s] = view[s]
    BY <1>0, <1>4 DEF Store, Shape
  <2>2. \A a \in Addresses :
          page'[p][a] # page[p][a] => p = view[r].product /\ a = view[r].address
    BY <1>0, <1>4 DEF Store, Shape
  <2> QED
    BY <2>1, <2>2 DEF Late
<1>5. ASSUME NEW q \in Products, NEW a \in Addresses, Expire(q, a) PROVE UNCHANGED view /\ Kept
  BY <1>0, <1>5 DEF Expire, Shape
<1>6. UNCHANGED view => Late(p)' = Late(p)
  BY DEF Late
<1> QED
  BY <1>1, <1>2, <1>3, <1>4, <1>5, <1>6 DEF Next

\* Once a product is withdrawn no read of it begins (get_storefront_product
\* reads the row afresh), and each one under way leaves at most one page more.
THEOREM WithdrawnOnlyDrains == Spec => WithdrawnDrains
<1>1. CatalogInv /\ [Next]_vars =>
        [\A p \in Products : ~Live(product[p]) =>
           /\ Late(p)' \subseteq Late(p)
           /\ \A a \in Addresses : page'[p][a] \notin {page[p][a], NoPage} =>
                \E r \in Late(p) : r \notin Late(p)' /\ view[r].address = a]_vars
  BY DrainStep
<1> QED
  BY <1>1, CatalogInit, CatalogStep, PTL DEF Spec, WithdrawnDrains
=============================================================================
