----------------------------- MODULE AtLeastOnce -----------------------------
(***************************************************************************)
(* What the transactional outbox promises (docs/00-PRODUCT-SPEC.md 11,     *)
(* docs/01-ARCHITECTURE.md, the row "Dispatcher dies mid-publish"): a      *)
(* message exists only once the transaction that wrote it has committed,   *)
(* and then it reaches the topic, once or more often.                      *)
(***************************************************************************)
CONSTANTS
  Message,
  Accepted   \* the messages the broker does not refuse for good

VARIABLES
  sent,      \* the messages of committed transactions
  received   \* the messages on the topic

vars == <<sent, received>>

Init == sent = {} /\ received = {}

Send(m) == /\ m \notin sent
           /\ sent' = sent \cup {m}
           /\ UNCHANGED received

Deliver(m) == /\ m \in sent
              /\ received' = received \cup {m}
              /\ UNCHANGED sent

Next == \E m \in Message : Send(m) \/ Deliver(m)

Spec == Init /\ [][Next]_vars

(* Every message the broker accepts is delivered in the end.               *)
FairSpec == Spec /\ \A m \in Accepted : WF_vars(Deliver(m))
=============================================================================
