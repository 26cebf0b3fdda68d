-------------------------- MODULE MCPledgeService --------------------------
(* Instances of PledgeService for TLC. c1 belongs to u0; u1 and u2 back it.*)
EXTENDS PledgeService, TLC

CONSTANTS c1, u0, u1, u2, t1, p1, p2, p3, m1, m2, m3

MCCreator == [c \in Campaign |-> u0]

MCTierInfo == [t \in Tier |-> [campaign |-> c1, min |-> 2, limit |-> 1]]

PledgeBody(backer, tier, amount) ==
  [campaign |-> c1, backer |-> backer, tier |-> tier, amount |-> amount]

ChargeOf(order, amount) ==
  [order |-> order, amount |-> amount, fee |-> 1, noted |-> TRUE]

(* Two backers race for the one slot of a tier; the creator tries to back  *)
(* the campaign, too.                                                      *)
RaceBody   == p1 :> PledgeBody(u1, t1, 2) @@ p2 :> PledgeBody(u2, t1, 2)
                @@ p3 :> PledgeBody(u0, NoTier, 2)
RaceCharge == m1 :> ChargeOf(p1, 2) @@ m2 :> ChargeOf(p2, 2)

(* One backer backs the campaign twice, without a tier.                    *)
TwiceBody   == p1 :> PledgeBody(u1, NoTier, 1) @@ p2 :> PledgeBody(u1, NoTier, 2)
TwiceCharge == m1 :> ChargeOf(p1, 1) @@ m2 :> ChargeOf(p2, 2)

(* One pledge and three payment attempts on its order: one of a wrong      *)
(* amount, one right, and one whose event does not carry the order's notes.*)
RetryBody   == p1 :> PledgeBody(u1, t1, 2)
RetryCharge == m1 :> ChargeOf(p1, 1) @@ m2 :> ChargeOf(p1, 2)
                 @@ m3 :> [ChargeOf(p1, 2) EXCEPT !.noted = FALSE]

(* The same pledge with a single payment.                                  *)
LoneCharge == m1 :> ChargeOf(p1, 2)
============================================================================
