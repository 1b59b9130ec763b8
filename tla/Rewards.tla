------------------------------ MODULE Rewards ------------------------------
(***************************************************************************)
(* Instagram rewards (InstagramRewardService and its repository): a        *)
(* customer claims a reward for an order, the desk approves it, which      *)
(* issues a personal coupon, rejects it, reopens a rejected claim, or      *)
(* enters and approves a claim itself.                                     *)
(*                                                                         *)
(* A review takes the row's lock, looks, and commits; a submission looks   *)
(* and commits without one.  The manual claim looks first and locks later, *)
(* and a session does not refresh a row it has loaded: the status that is  *)
(* checked under the lock is the one seen before.                          *)
(*                                                                         *)
(* Whether an order qualifies (paid, or far enough on its way) is one bit. *)
(* What the coupon is worth, how it is used (module Checkout), and the     *)
(* customer's ownership of the order are left out.                         *)
(***************************************************************************)
EXTENDS Integers, FiniteSets

CONSTANTS
  Orders,
  MaxRewards, MaxCoupons,   \* bounds: claims, coupons issued
  Tabs, Desks               \* submissions and reviews that may run together

VARIABLES
  qualifies,   \* the order is paid, or on its way
  reward,      \* claims, in the order they were made
  coupon,      \* coupons issued: the claim each was issued for
  submit,      \* submissions under way: the order
  review,      \* reviews under way
  lock         \* claims whose row is locked

vars == <<qualifies, reward, coupon, submit, review, lock>>

NoReward == [status |-> "NONE"]
NoCoupon == 0
Idle == [step |-> "idle"]
Claims == 1..MaxRewards

Existing == {r \in Claims : reward[r] # NoReward}
Of(o) == {r \in Existing : reward[r].order = o}
\* get_by_order_and_customer: the newest claim of the order.
Newest(o) == CHOOSE r \in Of(o) : \A s \in Of(o) : s <= r

Init ==
  /\ qualifies = [o \in Orders |-> FALSE]
  /\ reward = [r \in Claims |-> NoReward]
  /\ coupon = <<>>
  /\ submit = [t \in Tabs |-> {}]
  /\ review = [d \in Desks |-> Idle]
  /\ lock = {}

\* The order is paid, cancelled, refunded: modules Payments and Checkout.
OrderMoves(o) ==
  /\ qualifies' = [qualifies EXCEPT ![o] = ~@]
  /\ UNCHANGED <<reward, coupon, submit, review, lock>>

Add(o) ==
  /\ Cardinality(Existing) < MaxRewards
  /\ reward' = [reward EXCEPT ![Cardinality(Existing) + 1] =
                  [order |-> o, status |-> "PENDING", coupon |-> NoCoupon]]

\* submit_reward.
Submit(t, o) ==
  /\ submit[t] = {} /\ qualifies[o]
  /\ Of(o) # {} => reward[Newest(o)].status = "REJECTED"
  /\ submit' = [submit EXCEPT ![t] = {o}]
  /\ UNCHANGED <<qualifies, reward, coupon, review, lock>>

SubmitCommit(t) ==
  /\ \E o \in submit[t] : Add(o)
  /\ submit' = [submit EXCEPT ![t] = {}]
  /\ UNCHANGED <<qualifies, coupon, review, lock>>

Rewarded_Newest(r) ==   \* mutant: only the newest claim is looked at
  Newest(reward[r].order) # r /\ reward[Newest(reward[r].order)].status = "APPROVED"
\* Another claim of the order is approved (get_approved_reward_by_order).
Rewarded(r) == \E s \in Of(reward[r].order) \ {r} : reward[s].status = "APPROVED"

\* approve_reward, reject_reward, reopen_reward: the status each starts from.
From(op) == IF op = "REOPEN" THEN {"REJECTED"} ELSE {"PENDING"}

\* The lock, the checks, with seen the status this session holds of the row.
Take(d, r, op, seen) ==
  /\ r \notin lock
  /\ seen \in From(op)
  /\ op = "APPROVE" => ~Rewarded(r)
  /\ lock' = lock \cup {r}
  /\ review' = [review EXCEPT ![d] = [step |-> "locked", claim |-> r, op |-> op]]
  /\ UNCHANGED <<qualifies, reward, coupon, submit>>

Review(d, r, op) ==
  /\ review[d] = Idle /\ r \in Existing
  /\ Take(d, r, op, reward[r].status)

\* create_manual_claim: a claim of the order that is not approved, or a new one
\* (which is committed at once), is then approved.
Manual(d, o) ==
  /\ review[d] = Idle /\ qualifies[o]
  /\ \/ /\ Of(o) # {} /\ reward[Newest(o)].status # "APPROVED"
        /\ review' = [review EXCEPT ![d] = [step |-> "seen", claim |-> Newest(o),
                                            status |-> reward[Newest(o)].status]]
        /\ UNCHANGED reward
     \/ /\ Of(o) = {} /\ Add(o)
        /\ review' = [review EXCEPT ![d] = [step |-> "seen", claim |-> Cardinality(Existing) + 1,
                                            status |-> "PENDING"]]
  /\ UNCHANGED <<qualifies, coupon, submit, lock>>

ManualApprove(d) ==
  /\ review[d].step = "seen"
  /\ Take(d, review[d].claim, "APPROVE", review[d].status)

ReviewCommit(d) ==
  LET r == review[d].claim
      next == Cardinality(DOMAIN coupon) + 1 IN
  /\ review[d].step = "locked"
  /\ \/ /\ review[d].op = "APPROVE" /\ next <= MaxCoupons
        /\ coupon' = [c \in 1..next |-> IF c = next THEN r ELSE coupon[c]]
        /\ reward' = [reward EXCEPT ![r].status = "APPROVED", ![r].coupon = next]
     \/ /\ review[d].op # "APPROVE"
        /\ reward' = [reward EXCEPT ![r].coupon = NoCoupon,
                        ![r].status = IF review[d].op = "REJECT" THEN "REJECTED" ELSE "PENDING"]
        /\ UNCHANGED coupon
  /\ review' = [review EXCEPT ![d] = Idle]
  /\ lock' = lock \ {r}
  /\ UNCHANGED <<qualifies, submit>>

\* An error, a refusal, or a lost connection.
ReviewAbort(d) ==
  /\ review[d] # Idle
  /\ lock' = IF review[d].step = "locked" THEN lock \ {review[d].claim} ELSE lock
  /\ review' = [review EXCEPT ![d] = Idle]
  /\ UNCHANGED <<qualifies, reward, coupon, submit>>

SubmitCalls(t) == SubmitCommit(t) \/ \E o \in Orders : Submit(t, o)

DeskCalls(d) ==
  \/ \E r \in Claims, op \in {"APPROVE", "REJECT", "REOPEN"} : Review(d, r, op)
  \/ \E o \in Orders : Manual(d, o)
  \/ ManualApprove(d) \/ ReviewCommit(d) \/ ReviewAbort(d)

Next ==
  \/ \E o \in Orders : OrderMoves(o)
  \/ \E t \in Tabs : SubmitCalls(t)
  \/ \E d \in Desks : DeskCalls(d)

Spec == Init /\ [][Next]_vars

-----------------------------------------------------------------------------
(* Properties.                                                             *)

\* "Only one APPROVED reward is allowed per order", and so one coupon, however
\* many claims two submissions, a rejection and a reopening have left pending;
\* and a claim is approved as long as the coupon issued for it stands.
OneCouponPerOrder ==
  /\ \A o \in Orders : Cardinality({c \in DOMAIN coupon : reward[coupon[c]].order = o}) <= 1
  /\ \A c \in DOMAIN coupon : reward[coupon[c]].coupon = c
  /\ \A r \in Existing : reward[r].status = "APPROVED" <=> reward[r].coupon # NoCoupon
=============================================================================
