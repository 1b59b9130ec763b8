\* Rewards: two tabs and one desk, up to four claims of two orders.
\* Overlapping requests about collections and departments, and in a customer's
\* other tabs; offers, addresses and images one request at a time.
SPECIFICATION OfficeSpec
CONSTANTS
  o1 = o1
  o2 = o2
  t1 = t1
  t2 = t2
  d1 = d1
  c1 = c1
  p1 = p1
  p2 = p2
  s1 = s1
  s2 = s2
  w1 = w1
  u1 = u1
  u2 = u2
  e1 = e1
  e2 = e2
  Text = Text
  Nothing = Nothing
  Absent = Absent
  Orders = {o1, o2}
  MaxRewards = 4
  MaxCoupons = 3
  Tabs = {t1, t2}
  Desks = {d1}
  Coupons = {o1, o2}
  Codes = {"A", "B"}
  Values <- HalfAndMore
  LastDate = 2
  MaxUses = 1
  OfferDesks = {d1}
  Shelves = {c1}
  Products = {p1, p2}
  Labelled <- ShelfLabels
  Recased <- OddLabels
  Flagged = {p1}
  ShelfWriters = {t1, t2}
  Departments = {o1, o2}
  Sections = {s1, s2}
  DepartmentNames = {"A", "B"}
  Employees = {w1}
  ChartReqs = {t1, t2}
  Addresses = {o1, o2}
  Favourites = {p1}
  Users = {u1, u2}
  Clerks = {u2}
  Emails = {e1, e2}
  Editors = {d1}
  CustomerTabs = {t1, t2}
  ObjectKeys = {o1, o2}
  Bytes = {"A", "B"}
  MediaReqs = {d1}
  Files = 2
  Contents <- AnyContents
  Images = {o1, o2}
  Categories = {o1, o2}
  Handles = {t1, t2}
  Goods = {p1}
  PatchWriters = {d1}
  MaxSubs = 2
  MaxRenames = 1
  Numbers = {1, 2}
  Fresh = {3}
  Suffixes = {0, 1}
  LabelWriters = {1, 2}
  Labellers = {1}
  MaxProducts = 2
  Articles = {1, 2, 3}
  Areas = {"Sarees", "Suits"}
  Palettes <- AnyPalette
  Labels = {"edit", "Edit"}
  Fold <- Lower
  Prices = {500, 1000, 1001}
  Plates = {"m1", "m2", "m3"}
  HeroPlates = {"m3"}
  Seams <- HomeSeams
  SeamLimit = 1
  PageSize = 1
  RecentLimit = 2
  Catalogue <- ThreeProducts
  MaxSteps = 2
SYMMETRY Symmetry
CHECK_DEADLOCK FALSE
INVARIANTS OneCouponPerOrder OffersSound NamesHold ChartConsistent ProfileSound GalleryIntact ManifestHolds StorefrontSound
