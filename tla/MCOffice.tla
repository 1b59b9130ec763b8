------------------------------ MODULE MCOffice ------------------------------
(***************************************************************************)
(* The back office for TLC.  The orders o1, o2 of rewards are also the     *)
(* rows of every other part, and the tabs t1, t2 its requests that overlap *)
(* (in taxonomy, slugs), so that one symmetry serves all; the desk d1 is   *)
(* the request of a part whose requests come one at a time.                *)
(***************************************************************************)
EXTENDS Office, TLC

CONSTANTS o1, o2, Text

\* A value that a percentage may have, and one that only an amount may have.
HalfAndMore == {50, 150}

\* Files that are an image, and text.
AnyContents == {o1, o2, Text}

\* The rule of a collection matches the first product, which labels name in
\* another case; labels name the others in the collection's own.
ShelfLabels == Shelves \X (Products \ Flagged)
OddLabels == Shelves \X Flagged

\* Colours may be spelled in two ways, repeated, or in company; so may a label.
AnyPalette == {<<>>, <<"red">>, <<"red", "red">>, <<"blue", "Red">>}
Lower ==
  [v \in {"Sarees", "Suits", "red", "Red", "blue", "edit", "Edit"} |->
     CASE v = "Red" -> "red" [] v = "Edit" -> "edit" [] OTHER -> v]

\* Three products: two share a colour, two a price, two a picture; the home page
\* shows the newest, a category and a colour, one product each.
Item(c, ks, price, plate) ==
  [live |-> TRUE, category |-> c, colors |-> ks, edit |-> FALSE, label |-> "no label", price |-> price,
   plate |-> plate, registered |-> FALSE, stock |-> TRUE]
ThreeProducts ==
  <<Item("Sarees", <<"red">>, 500, "m1"), Item("Sarees", <<"blue", "Red">>, 1000, "m2"), Item("Suits", <<>>, 1000, "m2")>>
Anything == [category |-> {}, color |-> {}, collection |-> {}, price |-> {}, q |-> "no term"]
HomeSeams ==
  <<[query |-> Anything, sort |-> "newest"],
    [query |-> [Anything EXCEPT !.category = {"Sarees"}], sort |-> "recommended"],
    [query |-> [Anything EXCEPT !.color = {"red"}], sort |-> "recommended"]>>

Symmetry == Permutations(Orders) \cup Permutations(Tabs)
=============================================================================
