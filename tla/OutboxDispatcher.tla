-------------------------- MODULE OutboxDispatcher --------------------------
(***************************************************************************)
(* The transactional outbox: the rows that the pledge and media services   *)
(* write in their own transactions, and the cmd/dispatcher processes that  *)
(* move them to Kafka (internal/outbox/dispatcher.go).                     *)
(*                                                                         *)
(* A row is named by the identity value it gets when it is inserted, so a  *)
(* row may become visible after a row with a greater id. One SQL statement *)
(* or one ProduceSync is one step, but the claim is two: its statement     *)
(* locks rows and gives them up when it ends, as Pool.Query runs it in a   *)
(* transaction of its own. The ticker is abstracted: an idle dispatcher    *)
(* may tick at any time.                                                   *)
(*                                                                         *)
(* A definition Name_Something beside Name is a faulty variant of it and   *)
(* takes no part in the specification.                                     *)
(***************************************************************************)
EXTENDS Naturals, Sequences, FiniteSets, SequencesExt

CONSTANTS
  MaxRow,      \* bound: the number of rows that are ever inserted
  Dispatcher,  \* the processes of cmd/dispatcher
  Batch,       \* the rows a claim takes at most (100 in main.go)
  Poison,      \* the rows Kafka refuses for good (a record too large, say)
  MaxCopies,   \* bound: more copies of a record than this are not counted
  Faults       \* the failures that may happen

ASSUME BoundsAssumption == /\ MaxRow \in Nat
                           /\ Batch \in Nat \ {0}
                           /\ MaxCopies \in Nat \ {0}

ASSUME FaultsAssumption ==
  Faults \subseteq {"kafka_error", "db_error", "crash"}

Row == 1..MaxRow

VARIABLES
  row,     \* [Row -> ...] the outbox table
  copies,  \* [Row -> 0..MaxCopies] how often the row is on the topic
  step,    \* [Dispatcher -> ...] where tick is
  locked,  \* [Dispatcher -> SUBSET Row] FOR UPDATE locks of a running claim
  batch    \* [Dispatcher -> Seq(Row)] the claimed rows still to be handled

vars == <<row, copies, step, locked, batch>>

TypeOK ==
  /\ row    \in [Row -> {"free", "open", "undone", "unpublished", "published"}]
  /\ copies \in [Row -> 0..MaxCopies]
  /\ step   \in [Dispatcher -> {"idle", "claiming", "producing", "marking"}]
  /\ locked \in [Dispatcher -> SUBSET Row]
  /\ batch  \in [Dispatcher -> Seq(Row)]
  /\ \A d \in Dispatcher :
       batch[d] = << >> <=> step[d] \in {"idle", "claiming"}

Init ==
  /\ row    = [r \in Row |-> "free"]
  /\ copies = [r \in Row |-> 0]
  /\ step   = [d \in Dispatcher |-> "idle"]
  /\ locked = [d \in Dispatcher |-> {}]
  /\ batch  = [d \in Dispatcher |-> << >>]

----------------------------------------------------------------------------
(* The services: InsertOutbox in a domain transaction, then its end.       *)

Insert(r) ==
  /\ row[r] = "free"
  /\ \A q \in Row : q < r => row[q] # "free"
  /\ row' = [row EXCEPT ![r] = "open"]
  /\ UNCHANGED <<copies, step, locked, batch>>

EndTransaction(r) ==
  /\ row[r] = "open"
  /\ \E end \in {"unpublished", "undone"} : row' = [row EXCEPT ![r] = end]
  /\ UNCHANGED <<copies, step, locked, batch>>

----------------------------------------------------------------------------
(* A dispatcher's tick: claim a batch, then produce and mark row by row.   *)

Lowest(S, n) == { r \in S : Cardinality({ q \in S : q < r }) < n }

Claimable_AboveMark ==
  { r \in Row : /\ row[r] = "unpublished"
                /\ \A q \in Row : row[q] = "published" => q < r
                /\ \A d \in Dispatcher : r \notin locked[d] }

(* published_at IS NULL, SKIP LOCKED.                                      *)
Claimable ==
  { r \in Row : /\ row[r] = "unpublished"
                /\ \A d \in Dispatcher : r \notin locked[d] }

StartClaim(d) ==
  /\ step[d] = "idle"
  /\ locked' = [locked EXCEPT ![d] = Lowest(Claimable, Batch)]
  /\ step'   = [step EXCEPT ![d] = "claiming"]
  /\ UNCHANGED <<row, copies, batch>>

(* The statement ends and with it the locks. The join of the claimed ids   *)
(* to the table has no ORDER BY, so the rows come in any order; a failed   *)
(* claim ends the tick.                                                    *)
EndClaim(d) ==
  /\ step[d] = "claiming"
  /\ locked' = [locked EXCEPT ![d] = {}]
  /\ \/ /\ locked[d] # {}
        /\ step' = [step EXCEPT ![d] = "producing"]
        /\ \E rows \in SetToSeqs(locked[d]) : batch' = [batch EXCEPT ![d] = rows]
     \/ /\ locked[d] = {} \/ "db_error" \in Faults
        /\ step' = [step EXCEPT ![d] = "idle"]
        /\ UNCHANGED batch
  /\ UNCHANGED <<row, copies>>

Append1(r) == copies' = [copies EXCEPT ![r] = IF @ < MaxCopies THEN @ + 1 ELSE @]

(* The loop goes on to the next row; after the last the tick is over.      *)
NextRow(d) ==
  /\ batch' = [batch EXCEPT ![d] = Tail(@)]
  /\ step'  = [step EXCEPT ![d] = IF Len(batch[d]) = 1 THEN "idle"
                                                       ELSE "producing"]

ProduceOk(d) ==
  /\ step[d] = "producing"
  /\ Head(batch[d]) \notin Poison
  /\ Append1(Head(batch[d]))
  /\ step' = [step EXCEPT ![d] = "marking"]
  /\ UNCHANGED <<row, locked, batch>>

ProduceFails_EndsTick(d) ==
  /\ step[d] = "producing"
  /\ \/ Head(batch[d]) \in Poison /\ UNCHANGED copies
     \/ /\ Head(batch[d]) \notin Poison /\ "kafka_error" \in Faults
        /\ UNCHANGED copies \/ Append1(Head(batch[d]))
  /\ batch' = [batch EXCEPT ![d] = << >>]
  /\ step'  = [step EXCEPT ![d] = "idle"]
  /\ UNCHANGED <<row, locked>>

ProduceFails_Marks(d) ==
  /\ step[d] = "producing"
  /\ Head(batch[d]) \in Poison \/ "kafka_error" \in Faults
  /\ step' = [step EXCEPT ![d] = "marking"]
  /\ UNCHANGED <<row, copies, locked, batch>>

(* The row stays unpublished and the loop continues. A record the producer *)
(* gave up on may have been written all the same.                          *)
ProduceFails(d) ==
  /\ step[d] = "producing"
  /\ \/ Head(batch[d]) \in Poison /\ UNCHANGED copies
     \/ /\ Head(batch[d]) \notin Poison /\ "kafka_error" \in Faults
        /\ UNCHANGED copies \/ Append1(Head(batch[d]))
  /\ NextRow(d)
  /\ UNCHANGED <<row, locked>>

(* A claim that holds the row makes the UPDATE wait, but it has chosen its *)
(* rows by then, so the two commute. A failed UPDATE is only logged.       *)
MarkPublished(d) ==
  /\ step[d] = "marking"
  /\ \/ row' = [row EXCEPT ![Head(batch[d])] = "published"]
     \/ "db_error" \in Faults /\ UNCHANGED row
  /\ NextRow(d)
  /\ UNCHANGED <<copies, locked>>

(* The process dies, or is told to stop and its next calls fail at once.   *)
Crash(d) ==
  /\ "crash" \in Faults
  /\ step[d] # "idle"
  /\ step'   = [step EXCEPT ![d] = "idle"]
  /\ locked' = [locked EXCEPT ![d] = {}]
  /\ batch'  = [batch EXCEPT ![d] = << >>]
  /\ UNCHANGED <<row, copies>>

Next ==
  \/ \E r \in Row : Insert(r) \/ EndTransaction(r)
  \/ \E d \in Dispatcher : \/ StartClaim(d) \/ EndClaim(d)
                           \/ ProduceOk(d) \/ ProduceFails(d)
                           \/ MarkPublished(d) \/ Crash(d)

Spec == Init /\ [][Next]_vars

(* Kafka and Postgres do not fail a row for ever, a dispatcher does not    *)
(* die in the same place every time, and one that is up takes its next     *)
(* step.                                                                   *)
Claimed(d)    == step[d] = "claiming" /\ EndClaim(d) /\ batch'[d] # << >>
Working(d, r) == step[d] \in {"producing", "marking"} /\ Head(batch[d]) = r
Produced(r)   == \E d \in Dispatcher : Working(d, r) /\ ProduceOk(d)
Refused(r)    == \E d \in Dispatcher : Working(d, r) /\ ProduceFails(d)
Marked(r)     == \E d \in Dispatcher : /\ Working(d, r) /\ MarkPublished(d)
                                       /\ row'[r] = "published"
Proceeds(d)   == StartClaim(d) \/ EndClaim(d) \/ ProduceOk(d) \/ ProduceFails(d)
                   \/ MarkPublished(d)

DispatchFairness ==
  /\ \A r \in Row : WF_vars(EndTransaction(r))
  /\ \A r \in Row \ Poison : SF_vars(Produced(r)) /\ SF_vars(Marked(r))
  /\ \A r \in Row \cap Poison : SF_vars(Refused(r))
  /\ \A d \in Dispatcher : SF_vars(Claimed(d)) /\ WF_vars(Proceeds(d))

FairSpec == Spec /\ DispatchFairness

----------------------------------------------------------------------------
(* Properties.                                                             *)

Committed == { r \in Row : row[r] \in {"unpublished", "published"} }

(* A row is marked published only when its record is on the topic: no      *)
(* failed produce, failed mark, crash or second dispatcher between the two *)
(* makes the table claim a delivery that did not happen (tick).            *)
MarkedIsProduced == \A r \in Row : row[r] = "published" => copies[r] > 0

(* The dispatcher implements AtLeastOnce: what is on the topic was         *)
(* committed by its writer, although rows become visible out of the order  *)
(* of their ids and two dispatchers work on the table at once.             *)
Delivery == INSTANCE AtLeastOnce
              WITH Message  <- Row,
                   Accepted <- Row \ Poison,
                   sent     <- Committed,
                   received <- { r \in Row : copies[r] > 0 }

Delivers == Delivery!Spec

(* And it delivers every committed row that Kafka accepts, through         *)
(* outages, crashes and rows that are refused for good, as long as those   *)
(* do not fill a batch.                                                    *)
DeliversAll == Delivery!FairSpec

(* The backlog drains: a committed row does not stay unpublished, so it    *)
(* stops being delivered again.                                            *)
BacklogDrains ==
  \A r \in Row \ Poison : row[r] = "unpublished" ~> row[r] = "published"
=============================================================================
