----------------------------- MODULE Storefront -----------------------------
(***************************************************************************)
(* What the shop shows of its catalogue: the filtered, counted, sorted and *)
(* paged listing (ProductService), the home page's seams (ExploreService), *)
(* contextual recommendations (RecommendationService), and the products a  *)
(* customer viewed last, a list in the in-process store.                   *)
(*                                                                         *)
(* A category stands for both levels of the taxonomy, a colour for every   *)
(* attribute that is a list, a collection for those a product names twice: *)
(* as a member and by its legacy label, and a search term for a name that  *)
(* the searched columns may contain.  Colours and labels are free text: a  *)
(* list may repeat one, and Fold tells which differ in case alone.         *)
(* Ratings and the sorts by other numbers than the price are left out.     *)
(***************************************************************************)
EXTENDS Integers, Sequences, FiniteSets, Functions

CONSTANTS
  Products,      \* numbers: the order of their ids
  Categories, Prices,
  Palettes,      \* lists of colours that a product may have
  Labels,        \* the spellings of the collection "edit" in a legacy label
  Fold,          \* what lower() makes of each category, colour and label
  Plates,        \* media objects
  HeroPlates,    \* those of the active HOME_HERO rows
  Seams,         \* of the home page: a sequence of queries with a sort
  SeamLimit, PageSize, RecentLimit,
  Catalogue,     \* the rows to start from
  MaxSteps       \* bound: edits and views

VARIABLES
  row,       \* catalog_product: what a listing looks at
  archived,  \* categories that are not ACTIVE
  recent,    \* rv:{customer}, newest first
  dead,      \* ... its time to live is over
  steps      \* edits and views so far

vars == <<row, archived, recent, dead, steps>>

NoLabel == "no label"
Row ==
  [live : BOOLEAN, category : Categories, colors : Palettes, edit : BOOLEAN,
   label : Labels \cup {NoLabel}, price : Prices, plate : Plates, registered : BOOLEAN, stock : BOOLEAN]

Init ==
  /\ row = Catalogue
  /\ archived = {}
  /\ recent = <<>> /\ dead = FALSE
  /\ steps = 0

Step == steps < MaxSteps /\ steps' = steps + 1

\* Any edit of a product, and its publication and withdrawal (module Catalog).
Save(p, column, value) ==
  /\ Step
  /\ row' = [row EXCEPT ![p][column] = value]
  /\ UNCHANGED <<archived, recent, dead>>

SwitchCategory(c) ==
  /\ Step
  /\ archived' = IF c \in archived THEN archived \ {c} ELSE archived \cup {c}
  /\ UNCHANGED <<row, recent, dead>>

\* What a list keeps when only some of its members may stay.
Kept(list, some) ==
  LET front[n \in 0..Len(list)] ==
        IF n = 0 THEN <<>>
        ELSE IF list[n] \in some THEN Append(front[n - 1], list[n]) ELSE front[n - 1]
  IN front[Len(list)]

\* list_push: removed, pushed, cut and given new time, in a list that may have
\* had its day (lrem, lpush and expire do not look).
Pushed(p) == <<p>> \o Kept(recent, Products \ {p})
Trimmed(list) == IF Len(list) > RecentLimit THEN SubSeq(list, 1, RecentLimit) ELSE list
View(p) ==
  /\ Step
  /\ recent' = Trimmed(Pushed(p)) /\ dead' = FALSE
  /\ UNCHANGED <<row, archived>>

\* Its time ends; a read (lrange) then drops the list.
Expire == recent # <<>> /\ ~dead /\ dead' = TRUE /\ UNCHANGED <<row, archived, recent, steps>>
ReadRecent == dead /\ recent' = <<>> /\ dead' = FALSE /\ UNCHANGED <<row, archived, steps>>

\* POST and GET /products/recently-viewed.
ViewCalls == ReadRecent \/ \E p \in Products : View(p)

Next ==
  \/ \E p \in Products :
       \/ \E column \in {"live", "edit", "registered", "stock"} :
            Save(p, column, ~row[p][column])
       \/ \E c \in Categories : Save(p, "category", c)
       \/ \E cs \in Palettes : Save(p, "colors", cs)
       \/ \E label \in Labels \cup {NoLabel} : Save(p, "label", label)
       \/ \E price \in Prices : Save(p, "price", price)
       \/ \E plate \in Plates : Save(p, "plate", plate)
  \/ \E c \in Categories : SwitchCategory(c)
  \/ ViewCalls \/ Expire

Spec == Init /\ [][Next]_vars

-----------------------------------------------------------------------------
(* The listing.                                                            *)

\* PUBLISHED, published, and _taxonomy_visible.
Shown == {p \in Products : row[p].live /\ row[p].category \notin archived}

\* PRICE_BANDS and _get_price_band; the last band ends where prices do.
Unlimited == 99999999
Bands ==
  {[id |-> "under-500", min |-> 0, max |-> 499], [id |-> "500-1000", min |-> 500, max |-> 1000],
   [id |-> "1000-2500", min |-> 1001, max |-> 2500], [id |-> "2500-5000", min |-> 2501, max |-> 5000],
   [id |-> "above-5000", min |-> 5001, max |-> Unlimited]}
InBand(p, id) == \E b \in Bands : b.id = id /\ row[p].price \in b.min..b.max
Band(p) ==
  IF \E b \in Bands : InBand(p, b.id) THEN (CHOOSE b \in Bands : InBand(p, b.id)).id ELSE "above-5000"

\* A query: for each facet the values to look for, all of them when empty, and
\* a term to search the columns for.
Facets == {"category", "color", "collection", "price"}
NoTerm == "no term"
NoFilter == [f \in Facets \cup {"q"} |-> IF f = "q" THEN NoTerm ELSE {}]

\* What a product says for a facet, and how often it says v, letter by letter.
LabelOf(p) == {row[p].label} \ {NoLabel}
Says(p, f) ==
  CASE f = "category"   -> {row[p].category}
    [] f = "color"      -> Range(row[p].colors)
    [] f = "collection" -> (IF row[p].edit THEN {"edit"} ELSE {}) \cup LabelOf(p)
Times(p, f, v) ==
  CASE f = "category"   -> IF row[p].category = v THEN 1 ELSE 0
    [] f = "color"      -> Cardinality({i \in DOMAIN row[p].colors : row[p].colors[i] = v})
    [] f = "collection" -> (IF row[p].edit /\ v = "edit" THEN 1 ELSE 0) + (IF v \in LabelOf(p) THEN 1 ELSE 0)
    [] f = "price"      -> IF Band(p) = v THEN 1 ELSE 0

\* _matches_facet and the search look in any case.
Among(v, words) == \E w \in words : Fold[w] = Fold[v]
Has(p, f, v) == IF f = "price" THEN InBand(p, v) ELSE Among(v, Says(p, f))
Named(q) ==
  {p \in Shown : q.q = NoTerm \/ Among(q.q, Says(p, "category") \cup Says(p, "color") \cup LabelOf(p))}

\* _product_matches: one of the wanted values of every facet.
Matches(q, p) == \A f \in Facets : q[f] = {} \/ \E v \in q[f] : Has(p, f, v)
Results(q) == {p \in Named(q) : Matches(q, p)}

\* _items_excl: everything that passes the other facets.
ItemsExcl_Itself(q, f) ==   \* mutant: a facet is counted against its own filter
  {p \in Named(q) : \A g \in Facets : q[g] # {} => \E v \in q[g] : Has(p, g, v)}

ItemsExcl(q, f) ==
  {p \in Named(q) : \A g \in Facets \ {f} : q[g] # {} => \E v \in q[g] : Has(p, g, v)}

\* _count_facet: every entry of a list counts, under the text it has.
CountFacet(q, f, v) ==
  SumFunction([p \in ItemsExcl(q, f) |-> Times(p, f, v)])

\* _sort_products: rows the database returns in any order (heap) are sorted by
\* a key that ends in the id; Python's sort is stable.
Sorts == {"recommended", "newest", "price-asc", "price-desc"}
Key(sort, p) ==
  CASE sort = "newest"      -> <<-p, 0>>
    [] sort = "price-asc"   -> <<row[p].price, p>>
    [] sort = "price-desc"  -> <<-row[p].price, p>>
    [] sort = "recommended" -> <<p, 0>>
Before(sort, heap, p, other) ==
  LET a == Key(sort, p)  b == Key(sort, other) IN
  \/ a[1] < b[1]
  \/ a[1] = b[1] /\ a[2] < b[2]
  \/ a = b /\ heap[p] < heap[other]
Rank(items, sort, heap, p) == Cardinality({other \in items : Before(sort, heap, other, p)})

\* A page of the listing.
Page(q, sort, heap, n, size) ==
  {p \in Results(q) : Rank(Results(q), sort, heap, p) \in (n - 1) * size .. n * size - 1}

\* What /explore adds to a page: whether to ask for another.
HasMore(q, n, size) == n * size < Cardinality(Results(q))

\* /search: a term with the same filters, counted over what it names.
Search(q, term, sort, heap, n, size) == Page([q EXCEPT !["q"] = term], sort, heap, n, size)

-----------------------------------------------------------------------------
(* The home page.                                                          *)

\* What a picture is reserved under: the hero by object key and URL, a product
\* by the id of its registered asset or else by its URL.
HeroKeys == {"key", "url"} \X HeroPlates
ImageKey(p) == <<IF row[p].registered THEN "media" ELSE "url", row[p].plate>>

\* _select_products: of twice as many as are wanted, those not yet reserved.
Candidates(seam, used) ==
  LET window == Page(seam.query, seam.sort, [p \in Products |-> p], 1, 2 * SeamLimit) IN
  {p \in window :
    /\ ImageKey(p) \notin used
    /\ \A other \in window : Before(seam.sort, [x \in Products |-> x], other, p) => ImageKey(other) # ImageKey(p)}
Select(seam, used) ==
  {p \in Candidates(seam, used) :
    Rank(Candidates(seam, used), seam.sort, [x \in Products |-> x], p) < SeamLimit}

\* get_home: each seam reserves after those before it.
Reserved[i \in 0..Len(Seams)] ==
  IF i = 0 THEN HeroKeys
  ELSE Reserved[i - 1] \cup {ImageKey(p) : p \in Select(Seams[i], Reserved[i - 1])}
Home == {s \in (1..Len(Seams)) \X Products : s[2] \in Select(Seams[s[1]], Reserved[s[1] - 1])}

-----------------------------------------------------------------------------

\* contextual("related"): what can be bought of the same category, to those who
\* may see the product.
Buyable(p) == {other \in Shown \ {p} : row[other].stock /\ row[other].category = row[p].category}
Recommended(p) == IF p \in Shown THEN Buyable(p) ELSE {}

\* GET /categories/{id}/products: no such page while the category is not ACTIVE.
CategoryPage(c) ==
  IF c \in archived THEN {} ELSE Results([NoFilter EXCEPT !["category"] = {c}])

RecentlyViewed == IF dead THEN <<>> ELSE Kept(recent, Shown)

-----------------------------------------------------------------------------

Colors == UNION {Range(cs) : cs \in Palettes}
Wanted(f) ==
  CASE f = "category" -> {{}} \cup {{c} : c \in Categories}
    [] f = "color" -> {{}, Colors} \cup {{c} : c \in Colors}
    [] f = "collection" -> {{}} \cup {{l} : l \in Labels}
    [] f = "price" -> {{}, {"500-1000"}, {"1000-2500"}}
\* ... for at most two facets at once, or one and a term.
Queries ==
  {q \in [category : Wanted("category"), color : Wanted("color"), collection : Wanted("collection"),
          price : Wanted("price"), q : {NoTerm, "edit"} \cup Categories] :
     Cardinality({f \in Facets : q[f] # {}}) <= IF q.q = NoTerm THEN 2 ELSE 1}

\* What the shop shows is right by its own numbers.  A value's count is made of
\* the products that choosing it would show, each as often as it says the value
\* in that spelling: so it is their number if each says it once, more if one
\* repeats it, fewer if one spells it otherwise.  Pages share and lose no product,
\* whatever order the database returns rows in and however far /explore says to
\* go on; searching for a product's colour finds it.  Home shows no picture twice
\* among those reserved under one key (one picture may have several).  What is
\* recommended is listed in its category, and a product is among the last viewed
\* once.
\* (_build_facets: "counted against the other applied filters")
StorefrontSound ==
  /\ \A q \in Queries, f \in Facets : \A v \in UNION Wanted(f) :
       CountFacet(q, f, v) = SumFunction([p \in Results([q EXCEPT ![f] = {v}]) |-> Times(p, f, v)])
  /\ \A sort \in Sorts, heap \in {[p \in Products |-> p], [p \in Products |-> -p]} :
       LET steady == [p \in Products |-> p] IN
       /\ Page(NoFilter, sort, steady, 1, PageSize) \cap Page(NoFilter, sort, heap, 2, PageSize) = {}
       /\ Shown = UNION {Page(NoFilter, sort, IF n = 1 THEN steady ELSE heap, n, PageSize) :
                          n \in {k \in 1..Cardinality(Products) : k = 1 \/ HasMore(NoFilter, k - 1, PageSize)}}
       /\ \A p \in Shown : \A c \in Says(p, "color") :
            p \in UNION {Search(NoFilter, c, sort, heap, n, PageSize) : n \in 1..Cardinality(Products)}
  /\ \A s, t \in Home : ImageKey(s[2]) = ImageKey(t[2]) => s = t
  /\ \A s \in Home : ImageKey(s[2]) \notin HeroKeys
  /\ \A p \in Products : Recommended(p) \subseteq CategoryPage(row[p].category)
  /\ \A i, j \in DOMAIN RecentlyViewed : RecentlyViewed[i] = RecentlyViewed[j] => i = j
=============================================================================
