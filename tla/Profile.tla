------------------------------ MODULE Profile ------------------------------
(***************************************************************************)
(* What a customer keeps about themselves: delivery addresses with their   *)
(* default (AddressService), the wishlist (WishlistService), and the email *)
(* a profile edit may change (CustomerService; AuthService for staff).     *)
(*                                                                         *)
(* A request reads rows without a lock and sends, at its commit, those it  *)
(* changed.  The tables keep a wishlist's product and a user's email       *)
(* unique; nothing keeps the default address unique but the request that   *)
(* demotes the others.  Texts, phone numbers (as emails) and preferences   *)
(* are left out.                                                           *)
(***************************************************************************)
EXTENDS Integers, FiniteSets

CONSTANTS
  Addresses, Products,   \* of one customer, in the catalogue
  Users, Staff, Emails,
  Editors, Tabs          \* overlapping requests: about addresses, and others

VARIABLES
  address, default,   \* customer_address rows, those with is_default
  unset,              \* the default was deleted or unset
  live,               \* products on the storefront
  wish,               \* commerce_wishlist_item: rows for each product
  email,              \* users.email, and whether it is in lower case
  req                 \* requests under way

vars == <<address, default, unset, live, wish, email, req>>

Idle == [op |-> "idle"]

Init ==
  /\ address = {} /\ default = {} /\ unset = FALSE
  /\ live \in SUBSET Products
  /\ wish = [p \in Products |-> 0]
  /\ email \in [Users -> Emails \X {"lower"}] /\ \A u, v \in Users : email[u] = email[v] => u = v
  /\ req = [r \in Editors \cup Tabs |-> Idle]

Begin(r, new) ==
  /\ req[r] = Idle
  /\ req' = [req EXCEPT ![r] = new]
  /\ UNCHANGED <<address, default, unset, live, wish, email>>
Done(r) == req' = [req EXCEPT ![r] = Idle]

\* _demote_existing_default.
Demote_Nobody(wanted) ==   \* mutant: the old default keeps its flag
  {}

Demote(wanted) == IF wanted THEN default ELSE {}

\* create_address: the first one becomes the default.
CreateAddress(r, a, wanted) ==
  /\ a \notin address
  /\ Begin(r, [op |-> "address", new |-> {a}, demoted |-> Demote(wanted),
               promoted |-> IF wanted \/ address = {} THEN {a} ELSE {}])

\* update_address and set_default_address.
SetDefault(r, a) ==
  /\ a \in address
  /\ Begin(r, [op |-> "address", new |-> {}, demoted |-> Demote(TRUE) \ {a}, promoted |-> {a}])

\* update_address with isDefault false.
UnsetDefault(r, a) ==
  /\ a \in default
  /\ Begin(r, [op |-> "address", new |-> {}, demoted |-> {a}, promoted |-> {}])

DeleteAddress(r, a) ==
  /\ a \in address
  /\ Begin(r, [op |-> "delete", of |-> a])

\* The commit; a row that another request deleted fails it.
WriteAddress(r) ==
  /\ req[r].op = "address"
  /\ (req[r].demoted \cup req[r].promoted) \ req[r].new \subseteq address
  /\ address' = address \cup req[r].new
  /\ default' = (default \ req[r].demoted) \cup req[r].promoted
  /\ unset' = IF req[r].promoted # {} THEN FALSE ELSE unset \/ req[r].demoted # {}
  /\ Done(r)
  /\ UNCHANGED <<live, wish, email>>

RemoveAddress(r) ==
  /\ req[r].op = "delete"
  /\ address' = address \ {req[r].of}
  /\ default' = default \ {req[r].of}
  /\ unset' = (unset \/ req[r].of \in default)
  /\ Done(r)
  /\ UNCHANGED <<live, wish, email>>

\* add_product and remove_product; toggle_product is one of them.
AddProduct(r, p) == wish[p] = 0 /\ p \in live /\ Begin(r, [op |-> "add", of |-> p])
RemoveProduct(r, p) == wish[p] > 0 /\ Begin(r, [op |-> "drop", of |-> p])

WriteWish(r) ==
  /\ \/ req[r].op = "add"  /\ wish[req[r].of] = 0 /\ wish' = [wish EXCEPT ![req[r].of] = @ + 1]
     \/ req[r].op = "drop" /\ wish' = [wish EXCEPT ![req[r].of] = 0]
  /\ Done(r)
  /\ UNCHANGED <<address, default, unset, live, email>>

\* The email is looked up, and unique, in the case it has.
EmailFree(u, e) == \A v \in Users \ {u} : email[v] # e

\* update_profile: as the customer typed it.
UpdateEmail(r, u, e) ==
  /\ u \notin Staff /\ EmailFree(u, e)
  /\ Begin(r, [op |-> "email", of |-> u, email |-> e])

\* update_own_profile: in lower case.
UpdateOwnProfile(r, u, e) ==
  /\ u \in Staff /\ e[2] = "lower" /\ EmailFree(u, e)
  /\ Begin(r, [op |-> "email", of |-> u, email |-> e])

WriteEmail(r) ==
  /\ req[r].op = "email" /\ EmailFree(req[r].of, req[r].email)
  /\ email' = [email EXCEPT ![req[r].of] = req[r].email]
  /\ Done(r)
  /\ UNCHANGED <<address, default, unset, live, wish>>

\* The transaction fails: on a constraint, a row that is gone, or otherwise.
Fail(r) ==
  /\ req[r] # Idle /\ Done(r)
  /\ UNCHANGED <<address, default, unset, live, wish, email>>

\* Products are published and withdrawn (module Catalog).
Publication(p) ==
  /\ live' = IF p \in live THEN live \ {p} ELSE live \cup {p}
  /\ UNCHANGED <<address, default, unset, wish, email, req>>

AddressCalls(r) == \E a \in Addresses :
  \/ \E wanted \in BOOLEAN : CreateAddress(r, a, wanted)
  \/ SetDefault(r, a) \/ UnsetDefault(r, a)
  \/ DeleteAddress(r, a)
WishlistCalls(r) == \E p \in Products : AddProduct(r, p) \/ RemoveProduct(r, p)

Next ==
  \/ \E r \in Editors : AddressCalls(r) \/ WriteAddress(r) \/ RemoveAddress(r)
  \/ \E r \in Tabs : WishlistCalls(r) \/ WriteWish(r) \/ WriteEmail(r)
  \/ \E r \in Tabs, u \in Users, e \in Emails \X {"lower", "typed"} :
       UpdateEmail(r, u, e) \/ UpdateOwnProfile(r, u, e)
  \/ \E r \in Editors \cup Tabs : Fail(r)
  \/ \E p \in Products : Publication(p)

Spec == Init /\ [][Next]_vars

-----------------------------------------------------------------------------

\* With address requests one at a time and the others overlapping, at most one
\* address is the default, and one is until the customer deletes or unsets it;
\* a product clicked twice is saved once, and no two users share an email.
\* (create_address: "Setting isDefault: true demotes the previous default")
ProfileSound ==
  /\ Cardinality(default) <= 1 /\ default \subseteq address
  /\ address # {} /\ ~unset => default # {}
  /\ \A p \in Products : wish[p] <= 1
  /\ \A u, v \in Users : email[u] = email[v] => u = v
=============================================================================
