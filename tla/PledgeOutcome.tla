--------------------------- MODULE PledgeOutcome ---------------------------
(***************************************************************************)
(* What the pledge service promises, without webhooks, retries, Redis or   *)
(* confirmations: the money paid for a pledge is dealt with once.  It      *)
(* either counts toward the campaign, at the moment the total grows by     *)
(* exactly the pledged amount and a slot of its tier that was still free   *)
(* is claimed, or is owed back to the backer, and the decision is never    *)
(* taken again.                                                            *)
(***************************************************************************)
EXTENDS Naturals

CONSTANTS Campaign, Tier, Pledge,
  CampaignOf,  \* [Pledge -> Campaign]
  TierOf,      \* [Pledge -> Tier, or something else if it asks for none]
  AmountOf,    \* [Pledge -> Nat]
  Limited,     \* the tiers that have a limit
  Limit        \* [Limited -> Nat]

VARIABLES fate, total, claimed

Init == /\ fate    = [p \in Pledge |-> "unpaid"]
        /\ total   = [c \in Campaign |-> 0]
        /\ claimed = [t \in Tier |-> 0]

Count(p) ==
  /\ fate[p] = "unpaid"
  /\ TierOf[p] \in Limited => claimed[TierOf[p]] < Limit[TierOf[p]]
  /\ fate'    = [fate EXCEPT ![p] = "counted"]
  /\ total'   = [total EXCEPT ![CampaignOf[p]] = @ + AmountOf[p]]
  /\ claimed' = [t \in Tier |-> IF t = TierOf[p] THEN claimed[t] + 1
                                ELSE claimed[t]]

Owe(p) ==
  /\ fate[p] = "unpaid"
  /\ fate' = [fate EXCEPT ![p] = "owed"]
  /\ UNCHANGED <<total, claimed>>

Next == \E p \in Pledge : Count(p) \/ Owe(p)

Spec == Init /\ [][Next]_<<fate, total, claimed>>
============================================================================
