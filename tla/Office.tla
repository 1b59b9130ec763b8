------------------------------- MODULE Office -------------------------------
(***************************************************************************)
(* The shop's back office: one behaviour is about Instagram rewards, the   *)
(* offers desk, collections, departments, a customer's profile, product    *)
(* images, the import of the asset library, categories and what refers to  *)
(* them, what names a product, or what the storefront lists.  They share   *)
(* no state; one run goes through the behaviours of each, and every part's *)
(* rows and requests have names of their own here.                         *)
(***************************************************************************)
EXTENDS Integers, Sequences, FiniteSets

CONSTANTS
  Orders, MaxRewards, MaxCoupons, Tabs, Desks,                     \* Rewards
  Coupons, Codes, Values, LastDate, MaxUses, OfferDesks,           \* Offers
  Shelves, Products, Labelled, Recased, Flagged, ShelfWriters,     \* Collections
  Departments, Sections, DepartmentNames, Employees, ChartReqs,    \* Organisation
  Addresses, Favourites, Users, Clerks, Emails,                    \* Profile
  Editors, CustomerTabs,
  ObjectKeys, Bytes, MediaReqs,                                    \* Media
  Files, Contents, Images,                                         \* MediaImport
  Categories, Handles, Goods, PatchWriters, MaxSubs, MaxRenames,   \* Taxonomy
  Numbers, Fresh, Suffixes, LabelWriters, Labellers, MaxProducts,  \* Identity
  Articles, Areas, Palettes, Labels, Fold, Prices, Plates,         \* Storefront
  HeroPlates, Seams, SeamLimit, PageSize, RecentLimit, Catalogue, MaxSteps,
  Nothing, Absent

VARIABLES
  part,                                               \* what the behaviour is about
  qualifies, reward, coupon, submit, review, lock,    \* of Rewards
  offer, uses, edit, order,                           \* of Offers
  shelf, visible, write,                              \* of Collections
  name, within, worksIn, chart,                       \* of Organisation
  address, default, unset, live, wish, email, visit,  \* of Profile
  object, asset, images, primary, placed, upload,     \* of Media
  source, imported, run, entries, manifest,           \* of MediaImport
  category, sub, item, bulk, renames, patch,          \* of Taxonomy
  column, register, raced, lookup,                    \* of Identity
  listing, archived, recent, dead, steps              \* of Storefront

R == INSTANCE Rewards
O == INSTANCE Offers WITH Desks <- OfferDesks, coupon <- offer, req <- edit
C == INSTANCE Collections WITH Writers <- ShelfWriters, req <- write
D == INSTANCE Organisation WITH Names <- DepartmentNames, Reqs <- ChartReqs, None <- Nothing, req <- chart
P == INSTANCE Profile WITH Products <- Favourites, Staff <- Clerks, Tabs <- CustomerTabs, req <- visit
M == INSTANCE Media WITH Keys <- ObjectKeys, Reqs <- MediaReqs, req <- upload
I == INSTANCE MediaImport WITH object <- imported
T == INSTANCE Taxonomy WITH Slugs <- Handles, Products <- Goods, Writers <- PatchWriters, None <- Nothing,
                            product <- item, req <- patch
N == INSTANCE Identity WITH Writers <- LabelWriters, Editors <- Labellers, row <- register, req <- lookup
S == INSTANCE Storefront WITH Products <- Articles, Categories <- Areas, row <- listing

rewardsVars == <<qualifies, reward, coupon, submit, review, lock>>
offersVars == <<offer, uses, edit, order>>
collectionsVars == <<shelf, visible, write>>
organisationVars == <<name, within, worksIn, chart>>
profileVars == <<address, default, unset, live, wish, email, visit>>
mediaVars == <<object, asset, images, primary, placed, upload>>
importVars == <<source, imported, run, entries, manifest>>
taxonomyVars == <<category, sub, item, bulk, renames, patch>>
identityVars == <<column, register, raced, lookup>>
storefrontVars == <<listing, archived, recent, dead, steps>>
officeVars == <<part, rewardsVars, offersVars, collectionsVars, organisationVars, profileVars, mediaVars,
                importVars, taxonomyVars, identityVars, storefrontVars>>

\* Emails and a library for behaviours that are about something else.
SomeEmails == CHOOSE f \in [Users -> Emails \X {"lower"}] : \A u, v \in Users : f[u] = f[v] => u = v
SomeContents == CHOOSE c \in Contents : c \in Images => Contents \subseteq Images

\* The parts that a behaviour is not about stay in one initial state.
OfficeInit ==
  /\ part \in {"rewards", "offers", "collections", "organisation", "profile", "media", "import", "taxonomy",
                "identity", "storefront"}
  /\ R!Init /\ O!Init /\ C!Init /\ D!Init /\ P!Init /\ M!Init /\ I!Init /\ T!Init /\ N!Init /\ S!Init
  /\ part # "collections" => visible = {}
  /\ part # "profile" => live = {} /\ email = SomeEmails
  /\ part # "identity" => column = "slug"
  /\ part # "import" => source = [i \in 1..Files |-> SomeContents]

OfficeNext ==
  \/ /\ part = "rewards" /\ R!Next
     /\ UNCHANGED <<part, offersVars, collectionsVars, organisationVars, profileVars, mediaVars, importVars,
                    taxonomyVars, identityVars, storefrontVars>>
  \/ /\ part = "offers" /\ O!Next
     /\ UNCHANGED <<part, rewardsVars, collectionsVars, organisationVars, profileVars, mediaVars, importVars,
                    taxonomyVars, identityVars, storefrontVars>>
  \/ /\ part = "collections" /\ C!Next
     /\ UNCHANGED <<part, rewardsVars, offersVars, organisationVars, profileVars, mediaVars, importVars,
                    taxonomyVars, identityVars, storefrontVars>>
  \/ /\ part = "organisation" /\ D!Next
     /\ UNCHANGED <<part, rewardsVars, offersVars, collectionsVars, profileVars, mediaVars, importVars,
                    taxonomyVars, identityVars, storefrontVars>>
  \/ /\ part = "profile" /\ P!Next
     /\ UNCHANGED <<part, rewardsVars, offersVars, collectionsVars, organisationVars, mediaVars, importVars,
                    taxonomyVars, identityVars, storefrontVars>>
  \/ /\ part = "media" /\ M!Next
     /\ UNCHANGED <<part, rewardsVars, offersVars, collectionsVars, organisationVars, profileVars, importVars,
                    taxonomyVars, identityVars, storefrontVars>>
  \/ /\ part = "import" /\ I!Next
     /\ UNCHANGED <<part, rewardsVars, offersVars, collectionsVars, organisationVars, profileVars, mediaVars,
                    taxonomyVars, identityVars, storefrontVars>>
  \/ /\ part = "taxonomy" /\ T!Next
     /\ UNCHANGED <<part, rewardsVars, offersVars, collectionsVars, organisationVars, profileVars, mediaVars,
                    importVars, identityVars, storefrontVars>>
  \/ /\ part = "identity" /\ N!Next
     /\ UNCHANGED <<part, rewardsVars, offersVars, collectionsVars, organisationVars, profileVars, mediaVars,
                    importVars, taxonomyVars, storefrontVars>>
  \/ /\ part = "storefront" /\ S!Next
     /\ UNCHANGED <<part, rewardsVars, offersVars, collectionsVars, organisationVars, profileVars, mediaVars,
                    importVars, taxonomyVars, identityVars>>

OfficeSpec == OfficeInit /\ [][OfficeNext]_officeVars

-----------------------------------------------------------------------------
(* What the parts take for granted of their constants.                     *)

\* Nothing is no row and no name, no contents, and no reference.
NothingApart == Nothing \notin Departments \cup Sections \cup DepartmentNames
BytesAreSomething == Nothing \notin Bytes
\* An id is no row's slug, and what is absent is neither.
NamesApart ==
  /\ Categories \cap Handles = {} /\ T!SubIds \cap Handles = {}
  /\ Nothing \notin Categories \cup Handles \cup T!SubIds \cup Goods
  /\ Absent \notin Categories \cup Handles \cup T!SubIds \cup {Nothing}
\* There is a file, images are contents, and nothing is no content.
LibraryComplete == Files \in Nat \ {0} /\ Images \subseteq Contents /\ Nothing \notin Contents
AmountsAreNumbers == Values \subseteq Int
\* No id is the number that stands for none.
NoZeroId == 0 \notin N!Ids
RewardBounds == MaxRewards \in Nat \ {0} /\ MaxCoupons \in Nat \ {0}

\* The catalogue: finitely many products with numbers for ids and prices, lists
\* of colours, and seams in an order that the listing knows.
CatalogueTyped ==
  /\ IsFiniteSet(Articles) /\ Articles \subseteq Int /\ Prices \subseteq Int
  /\ Palettes \subseteq Seq(STRING)
  /\ Catalogue \in [Articles -> S!Row]
  /\ Len(Seams) \in Nat /\ \A i \in 1..Len(Seams) : Seams[i].sort \in S!Sorts
  /\ PageSize \in Nat \ {0} /\ RecentLimit \in Nat

ASSUME OfficeAssumption ==
  /\ NothingApart /\ BytesAreSomething /\ NamesApart /\ LibraryComplete /\ AmountsAreNumbers
  /\ NoZeroId /\ RewardBounds /\ CatalogueTyped

-----------------------------------------------------------------------------

\* An order brings its customer one coupon at most.
\* (instagram_reward_service.py: create_manual_claim, approve_reward)
OneCouponPerOrder == part = "rewards" => R!OneCouponPerOrder

\* What an offer holds, whatever is edited and ordered.
\* (api/v1/coupons.py:477 admin_update_offer)
OffersSound == part = "offers" => O!OffersSound

\* A manual collection, or one with a rule that is set, is named for the products
\* it lists, with the exceptions that C!ShelvesAgree states; a product's category
\* and subcategory are rows that belong together, whatever is renamed meanwhile;
\* and an id, a label, a slug or a SKU names one product.
\* (product_service.py:390 _collection_membership_names, :986 _resolve_taxonomy,
\* :2362 change_product_id)
NamesHold ==
  /\ part = "collections" => C!ShelvesAgree
  /\ part = "taxonomy" => T!ReferencesHold
  /\ part = "identity" => N!IdentityKept

\* Departments, sections and assignments refer to rows that exist.
\* (employee_service.py:721 create_department and what follows it)
ChartConsistent == part = "organisation" => D!ChartConsistent

\* One default address, saved products and emails once.
\* (address_service.py:50 _demote_existing_default, wishlist_service.py)
ProfileSound == part = "profile" => P!ProfileSound

\* What a product shows is in the store, and it has one primary image.
\* (api/v1/media.py:380 and what follows it)
GalleryIntact == part = "media" => M!GalleryIntact

\* What a manifest says was imported is in the store.
\* (local_media_migration.py, verify_migration)
ManifestHolds == part = "import" => I!ManifestHolds

\* Counts, pages, home and recommendations fit what is listed.
\* (product_service.py:1333 _build_facets, explore_service.py, recommendation_service.py)
StorefrontSound == part = "storefront" => S!StorefrontSound
=============================================================================
