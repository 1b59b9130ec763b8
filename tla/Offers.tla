------------------------------- MODULE Offers -------------------------------
(***************************************************************************)
(* The offers desk (api/v1/coupons.py): coupons are created, edited,       *)
(* activated and paused while orders count their uses.                     *)
(*                                                                         *)
(* An edit reads the coupon without a lock, checks the sent fields over    *)
(* the ones it read, and sends the columns that differ; the use counter is *)
(* never among them.  What a coupon is worth in a cart is in Cart, who may *)
(* use one at checkout in Checkout.                                        *)
(***************************************************************************)
EXTENDS Integers, FiniteSets

CONSTANTS
  Coupons, Codes, Values,
  LastDate,   \* bound: dates; 0 is none
  MaxUses,    \* bound: uses of a coupon
  Desks       \* edits that may overlap

VARIABLES
  coupon,   \* commerce_coupon rows
  uses,     \* orders that used a coupon
  req,      \* edits under way
  order     \* an order under way, with the counter it read

vars == <<coupon, uses, req, order>>

Idle == [of |-> {}, fresh |-> FALSE, set |-> <<>>]
NoOrder == [of |-> {}, count |-> 0]
NoCoupon == [code |-> "none", kind |-> "fixed", value |-> 0, starts |-> 0, expires |-> 0,
             active |-> FALSE, count |-> 0]
Standing == {c \in Coupons : coupon[c].code # "none"}

Init ==
  /\ coupon = [c \in Coupons |-> NoCoupon]
  /\ uses = [c \in Coupons |-> 0]
  /\ req = [d \in Desks |-> Idle]
  /\ order = NoOrder

\* _validate_coupon_fields.
ValidFields(new) ==
  /\ ~(new.kind = "percentage" /\ new.value > 100)
  /\ new.starts # 0 /\ new.expires # 0 => new.starts < new.expires

CodeUnused(c, code) == \A other \in Standing \ {c} : coupon[other].code # code

Merged(c, sent) == [k \in DOMAIN coupon[c] |-> IF k \in DOMAIN sent THEN sent[k] ELSE coupon[c][k]]
Dirty(c, sent) ==
  LET columns == {k \in DOMAIN sent : sent[k] # coupon[c][k]}
  IN [k \in columns |-> sent[k]]

Load_Row(d, c, sent) ==   \* mutant: the whole row goes back as it was read
  /\ req' = [req EXCEPT ![d] = [of |-> {c}, fresh |-> c \notin Standing, set |-> Merged(c, sent)]]
  /\ UNCHANGED <<coupon, uses, order>>

Load(d, c, sent) ==
  /\ req' = [req EXCEPT ![d] = [of |-> {c}, fresh |-> c \notin Standing, set |-> Dirty(c, sent)]]
  /\ UNCHANGED <<coupon, uses, order>>

\* admin_create_offer.
CreateOffer(d, c, code, kind, value, starts, expires) ==
  LET sent == [code |-> code, kind |-> kind, value |-> value, starts |-> starts,
               expires |-> expires, active |-> TRUE]
  IN /\ c \notin Standing
     /\ ValidFields(Merged(c, sent)) /\ CodeUnused(c, code)
     /\ Load(d, c, sent)

\* admin_update_offer: a patch of one field, or of both dates.
Patches ==
  [code : Codes] \cup [kind : {"percentage", "fixed"}] \cup [value : Values]
    \cup [starts : 0..LastDate] \cup [expires : 0..LastDate]
    \cup [starts : 0..LastDate, expires : 0..LastDate]
UpdateOffer(d, c, sent) ==
  /\ c \in Standing
  /\ ValidFields(Merged(c, sent))
  /\ "code" \in DOMAIN sent => CodeUnused(c, sent.code)
  /\ Load(d, c, sent)

\* admin_activate_offer, admin_pause_offer and admin_archive_offer.
SwitchOffer(d, c, active) == c \in Standing /\ Load(d, c, [active |-> active])

\* The flush and the commit; codes are unique.
Write(d) == \E c \in req[d].of :
  /\ req[d].fresh => c \notin Standing
  /\ CodeUnused(c, Merged(c, req[d].set).code)
  /\ coupon' = [coupon EXCEPT ![c] = Merged(c, req[d].set)]
  /\ req' = [req EXCEPT ![d] = Idle]
  /\ UNCHANGED <<uses, order>>

Abort(d) == req[d] # Idle /\ req' = [req EXCEPT ![d] = Idle] /\ UNCHANGED <<coupon, uses, order>>

\* place_order, one at a time: reads the counter, and adds one at its commit.
OrderReads(c) ==
  /\ order = NoOrder /\ c \in Standing /\ coupon[c].active /\ coupon[c].count < MaxUses
  /\ order' = [of |-> {c}, count |-> coupon[c].count]
  /\ UNCHANGED <<coupon, uses, req>>
OrderWrites == \E c \in order.of :
  /\ coupon' = [coupon EXCEPT ![c].count = order.count + 1]
  /\ uses' = [uses EXCEPT ![c] = @ + 1]
  /\ order' = NoOrder
  /\ UNCHANGED req

OfferCalls(d) ==
  /\ req[d] = Idle
  /\ \E c \in Coupons :
       \/ \E code \in Codes, kind \in {"percentage", "fixed"}, value \in Values,
             starts \in 0..LastDate, expires \in 0..LastDate :
            CreateOffer(d, c, code, kind, value, starts, expires)
       \/ \E sent \in Patches : UpdateOffer(d, c, sent)
       \/ \E active \in BOOLEAN : SwitchOffer(d, c, active)

Next ==
  \/ \E d \in Desks : OfferCalls(d) \/ Write(d) \/ Abort(d)
  \/ \E c \in Coupons : OrderReads(c)
  \/ OrderWrites

Spec == Init /\ [][Next]_vars

-----------------------------------------------------------------------------

\* With one edit at a time, and orders placed during it, codes stay apart, no
\* coupon takes off more than all or ends before it starts, and no edit takes
\* back a use that an order counted.
\* (admin_update_offer: "usage_count is never client-writable")
OffersSound ==
  /\ \A c, other \in Standing : coupon[c].code = coupon[other].code => c = other
  /\ \A c \in Standing :
       /\ coupon[c].kind = "percentage" => coupon[c].value <= 100
       /\ coupon[c].starts # 0 /\ coupon[c].expires # 0 => coupon[c].starts < coupon[c].expires
       /\ coupon[c].count = uses[c]
=============================================================================
