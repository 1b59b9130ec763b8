------------------------------- MODULE Media -------------------------------
(***************************************************************************)
(* Product images: objects in the store, the asset register (one row per   *)
(* key, with the checksum of the object), the products' image rows, one of *)
(* which may be primary, and the keys of marketing placements.             *)
(*                                                                         *)
(* The store is no part of the database transaction: a request changes an  *)
(* object in one step and its rows at the commit, and a crash in between   *)
(* keeps the first without the second.  Roles, sort order, titles and the  *)
(* product's authored image columns are left out.                          *)
(***************************************************************************)
EXTENDS Integers, FiniteSets

CONSTANTS
  Keys, Bytes,   \* object keys, contents (and their checksums)
  Products,
  Reqs,          \* requests that may overlap
  Nothing

VARIABLES
  object,    \* the store: contents under each key
  asset,     \* media_media_asset: checksum registered under each key
  images,    \* media_product_media: keys of the product's assets
  primary,   \* those with is_primary
  placed,    \* marketing_media: keys of the placements
  req        \* requests under way

vars == <<object, asset, images, primary, placed, req>>

Idle == [op |-> "idle", key |-> Nothing]

Init ==
  /\ object = [k \in Keys |-> Nothing]
  /\ asset = [k \in Keys |-> Nothing]
  /\ images = [p \in Products |-> {}]
  /\ primary = [p \in Products |-> {}]
  /\ placed = {}
  /\ req = [r \in Reqs |-> Idle]

Begin(r, new) == req[r] = Idle /\ req' = [req EXCEPT ![r] = new]
Done(r) == req' = [req EXCEPT ![r] = Idle]

\* store_image, then put_object: other contents under the same key are refused.
Put(k, b) == object[k] \in {Nothing, b} /\ object' = [object EXCEPT ![k] = b]

\* upload_media_object.
Upload(k, b) == Put(k, b) /\ UNCHANGED <<asset, images, primary, placed, req>>

\* upload_product_media_object, up to the rows.
ProductUpload(r, k, b, p, main) ==
  /\ Begin(r, [op |-> "attach", key |-> k, product |-> {p}, main |-> main, checksum |-> b])
  /\ Put(k, b)
  /\ UNCHANGED <<asset, images, primary, placed>>

\* register_media_object: only an object that exists, for a product or for none.
Register(r, k, of, main) ==
  /\ object[k] # Nothing
  /\ Begin(r, [op |-> "attach", key |-> k, product |-> of, main |-> main, checksum |-> object[k]])
  /\ UNCHANGED <<object, asset, images, primary, placed>>

Attach_KeepsPrimary(r) ==   \* mutant: the other images are not demoted
  /\ req[r].op = "attach"
  /\ LET k == req[r].key
         of == req[r].product
     IN /\ asset' = [asset EXCEPT ![k] = IF @ = Nothing THEN req[r].checksum ELSE @]
        /\ images' = [p \in Products |-> IF p \in of THEN images[p] \cup {k} ELSE images[p]]
        /\ primary' = [p \in Products |-> IF p \in of /\ req[r].main THEN primary[p] \cup {k}
                                          ELSE primary[p]]
  /\ Done(r)
  /\ UNCHANGED <<object, placed>>

\* The rows of both: a row of the register if there is none, and the product's
\* image, the only primary one if asked for.
Attach(r) ==
  /\ req[r].op = "attach"
  /\ LET k == req[r].key
         of == req[r].product
     IN /\ asset' = [asset EXCEPT ![k] = IF @ = Nothing THEN req[r].checksum ELSE @]
        /\ images' = [p \in Products |-> IF p \in of THEN images[p] \cup {k} ELSE images[p]]
        /\ primary' = [p \in Products |-> IF p \notin of THEN primary[p]
                                          ELSE IF req[r].main THEN {k} ELSE primary[p] \ {k}]
  /\ Done(r)
  /\ UNCHANGED <<object, placed>>

\* duplicate_product: the copy shares the registered assets.
Duplicate(p, copy) ==
  /\ images[copy] = {} /\ images[p] # {}
  /\ images' = [images EXCEPT ![copy] = images[p]]
  /\ primary' = [primary EXCEPT ![copy] = primary[p]]
  /\ UNCHANGED <<object, asset, placed, req>>

UsedBy(k) == {p \in Products : asset[k] # Nothing /\ k \in images[p]}

\* delete_media_object: the references, then the object, then the row.
DeleteRead(r, k) ==
  /\ UsedBy(k) = {} /\ k \notin placed
  /\ Begin(r, [op |-> "remove", key |-> k, row |-> asset[k] # Nothing])
  /\ UNCHANGED <<object, asset, images, primary, placed>>

DeleteObject(r) ==
  /\ req[r].op = "remove"
  /\ object' = [object EXCEPT ![req[r].key] = Nothing]
  /\ req' = [req EXCEPT ![r].op = "forget"]
  /\ UNCHANGED <<asset, images, primary, placed>>

\* The register's row goes, and by its foreign keys every image row of it.
DeleteRow(r) ==
  /\ req[r].op = "forget"
  /\ LET gone == IF req[r].row THEN {req[r].key} ELSE {}
     IN /\ asset' = [k \in Keys |-> IF k \in gone THEN Nothing ELSE asset[k]]
        /\ images' = [p \in Products |-> images[p] \ gone]
        /\ primary' = [p \in Products |-> primary[p] \ gone]
  /\ Done(r)
  /\ UNCHANGED <<object, placed>>

\* MarketingMediaService.create, update and delete: the key's form is checked,
\* not that there is an object.
Place(k) == placed' = placed \cup {k} /\ UNCHANGED <<object, asset, images, primary, req>>
Move(k, to) ==
  /\ k \in placed
  /\ placed' = (placed \ {k}) \cup {to}
  /\ UNCHANGED <<object, asset, images, primary, req>>
Unplace(k) ==
  /\ k \in placed
  /\ placed' = placed \ {k}
  /\ UNCHANGED <<object, asset, images, primary, req>>

\* The process stops, or the transaction fails: what the store did stays.
Crash(r) == req[r] # Idle /\ Done(r) /\ UNCHANGED <<object, asset, images, primary, placed>>

MediaCalls(r) ==
  \/ \E k \in Keys, b \in Bytes, p \in Products, main \in BOOLEAN : ProductUpload(r, k, b, p, main)
  \/ \E k \in Keys, of \in {{}} \cup {{p} : p \in Products}, main \in BOOLEAN :
       Register(r, k, of, main)
  \/ Attach(r)
  \/ \E k \in Keys : DeleteRead(r, k)
  \/ DeleteObject(r)
  \/ DeleteRow(r)

MarketingCalls ==
  \/ \E k \in Keys : Place(k) \/ Unplace(k)
  \/ \E k \in Keys, to \in Keys : Move(k, to)

Next ==
  \/ \E r \in Reqs : MediaCalls(r) \/ Crash(r)
  \/ \E k \in Keys, b \in Bytes : Upload(k, b)
  \/ \E p \in Products, copy \in Products : Duplicate(p, copy)
  \/ MarketingCalls

Spec == Init /\ [][Next]_vars

-----------------------------------------------------------------------------

\* registered_media_for_product: the images the product's page shows.
Shown(p) == {k \in images[p] : asset[k] # Nothing}

\* With uploads and deletions one at a time, and crashes between the store and
\* the database, every image a product shows is in the store and no product
\* has two primary images.
\* (register_media_object: "a product never has two primaries")
GalleryIntact ==
  \A p \in Products :
    /\ \A k \in Shown(p) : object[k] # Nothing
    /\ Cardinality(primary[p]) <= 1 /\ primary[p] \subseteq Shown(p)
=============================================================================
