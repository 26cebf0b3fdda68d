----------------------------- MODULE MCPledgeTx -----------------------------
(* An instance of PledgeTx for TLC: two backers race for the one slot of a *)
(* tier, and one of them has a second pledge without a tier. One pledge    *)
(* has a failed attempt before the one that is captured, one is confirmed  *)
(* while its event, of another payment with another amount, comes in.      *)
EXTENDS PledgeTx, TLC

CONSTANTS c1, u0, u1, u2, t1, p1, p2, p3, w1, w2, w3, w4, w5

MCCreator == [c \in Campaign |-> u0]
MCTierOf  == [t \in Tier |-> c1]
MCLimit   == [t \in Tier |-> 1]

PledgeBody(backer, tier, amount) ==
  [campaign |-> c1, backer |-> backer, tier |-> tier, amount |-> amount]

MCBody == p1 :> PledgeBody(u1, t1, 1) @@ p2 :> PledgeBody(u2, t1, 2)
            @@ p3 :> PledgeBody(u1, NoTier, 1)

MCPledgeOf == w1 :> p1 @@ w2 :> p1 @@ w3 :> p2 @@ w4 :> p3
                @@ w5 :> p2
MCKind     == w1 :> "captured" @@ w2 :> "failed" @@ w3 :> "confirm"
                @@ w4 :> "captured" @@ w5 :> "captured"
============================================================================
