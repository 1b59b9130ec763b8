SPECIFICATION FairSpec
CONSTANTS
  p1 = p1
  w1 = w1
  r1 = r1
  Products = {p1}
  Nodes = {"sarees"}
  Taxonomies <- OneCategory
  Slugs = {"slug", "new-slug"}
  Labels = {"id", "label"}
  Writers = {w1}
  Readers = {r1}
  MaxVersion = 2
CHECK_DEADLOCK FALSE
INVARIANTS LiveWasApproved PagesWerePublic
PROPERTIES WithdrawnLeaves
