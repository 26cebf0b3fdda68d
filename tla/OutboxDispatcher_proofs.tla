----------------------- MODULE OutboxDispatcher_proofs -----------------------
(***************************************************************************)
(* Proofs about OutboxDispatcher for any number of rows, dispatchers and   *)
(* failures. The argument is that committed rows never stop being          *)
(* committed, so whatever a dispatcher holds in memory, however stale, is  *)
(* a committed row (Support); and that a dispatcher that is about to mark  *)
(* a row has put it on the topic.                                          *)
(***************************************************************************)
EXTENDS OutboxDispatcher, FiniteSetTheorems, SequenceTheorems, TLAPS

USE BoundsAssumption, FaultsAssumption DEF Row

Held(d) == locked[d] \cup Range(batch[d])

Support ==
  /\ \A r \in Row : copies[r] > 0 => r \in Committed
  /\ \A d \in Dispatcher : Held(d) \subseteq Committed
  /\ \A d \in Dispatcher : step[d] = "marking" => copies[Head(batch[d])] > 0

IInv == TypeOK /\ Support /\ MarkedIsProduced

(* The enumerations of a set of rows are sequences of those rows.          *)
LEMMA EnumerationIsSeq ==
  ASSUME NEW S, S \subseteq Row, NEW rows, rows \in SetToSeqs(S)
  PROVE  /\ rows \in Seq(Row)
         /\ Range(rows) \subseteq S
         /\ S # {} => rows # << >>
<1>1. IsFiniteSet(S)
  <2>1. IsFiniteSet(1..MaxRow)
    BY 0 \in Int, 1 \in Int, MaxRow \in Int, FS_Interval
  <2> QED
    BY <2>1, FS_Subset
<1>2. Cardinality(S) \in Nat
  BY <1>1, FS_CardinalityType
<1>3. rows \in [1..Cardinality(S) -> S]
  BY Zenon DEF SetToSeqs
<1>4. rows \in Seq(Row)
  <2>1. rows \in [1..Cardinality(S) -> Row]
    BY <1>3
  <2>2. [1..Cardinality(S) -> Row] \in {[1..n -> Row] : n \in Nat}
    BY <1>2
  <2>3. rows \in UNION {[1..n -> Row] : n \in Nat}
    BY <2>1, <2>2, Zenon
  <2>4. Seq(Row) = UNION {[1..n -> Row] : n \in Nat}
    BY SeqDef, Zenon
  <2> QED
    BY <2>3, <2>4, Zenon
<1>5. S # {} => rows # << >>
  BY <1>1, <1>2, <1>3, FS_EmptySet
<1> QED
  BY <1>3, <1>4, <1>5 DEF Range

(* What the loop over a claimed batch looks at next.                       *)
LEMMA TailOfSeq ==
  ASSUME NEW s \in Seq(Row), s # << >>
  PROVE  /\ Tail(s) \in Seq(Row)
         /\ Tail(s) = << >> <=> Len(s) = 1
         /\ Head(s) \in Row
         /\ Head(s) \in Range(s)
         /\ Range(Tail(s)) \subseteq Range(s)
<1>1. /\ Len(s) \in Nat \ {0}
      /\ DOMAIN s = 1..Len(s)
  BY EmptySeq, LenProperties
<1>2. /\ Head(s) = s[1]
      /\ Tail(s) \in Seq(Row)
      /\ Len(Tail(s)) = Len(s) - 1
      /\ \A i \in 1..Len(Tail(s)) : Tail(s)[i] = s[i + 1]
  BY <1>1, HeadTailProperties
<1>3. DOMAIN Tail(s) = 1..Len(Tail(s))
  BY <1>2, LenProperties
<1>4. Tail(s) = << >> <=> Len(s) = 1
  <2> DEFINE rest == Tail(s)
  <2>1. rest = << >> => Len(rest) = 0
    BY EmptySeq
  <2>2. rest # << >> => Len(rest) \in Nat \ {0}
    BY <1>2, EmptySeq
  <2>3. Len(s) \in Nat /\ Len(rest) = Len(s) - 1
    BY <1>1, <1>2
  <2> HIDE DEF rest
  <2>4. rest = << >> <=> Len(s) = 1
    BY <2>1, <2>2, <2>3
  <2> QED
    BY <2>4 DEF rest
<1>5. s[1] \in Row
  BY <1>1, ElementOfSeq
<1>6. Range(Tail(s)) \subseteq Range(s)
  <2>1. \A i \in 1..Len(Tail(s)) : i + 1 \in 1..Len(s)
    BY <1>1, <1>2
  <2> QED
    BY <1>1, <1>2, <1>3, <2>1 DEF Range
<1>7. s[1] \in Range(s)
  BY <1>1 DEF Range
<1> QED
  BY <1>2, <1>4, <1>5, <1>6, <1>7

(* Every variable keeps its type, and a dispatcher has rows in its batch   *)
(* exactly while it is producing or marking.                               *)
LEMMA TypeInit == Init => TypeOK
  BY DEF Init, TypeOK

LEMMA TypeStep == TypeOK /\ [Next]_vars => TypeOK'
<1> SUFFICES ASSUME TypeOK, [Next]_vars PROVE TypeOK'
  OBVIOUS
<1> USE DEF TypeOK
<1>1. ASSUME NEW r \in Row, Insert(r) PROVE TypeOK'
  BY <1>1 DEF Insert
<1>2. ASSUME NEW r \in Row, EndTransaction(r) PROVE TypeOK'
  BY <1>2 DEF EndTransaction
<1>3. ASSUME NEW d \in Dispatcher, StartClaim(d) PROVE TypeOK'
  <2>1. Lowest(Claimable, Batch) \in SUBSET Row
    BY DEF Lowest, Claimable
  <2> QED
    BY <1>3, <2>1 DEF StartClaim
<1>4. ASSUME NEW d \in Dispatcher, EndClaim(d) PROVE TypeOK'
  <2>1. CASE UNCHANGED batch /\ step' = [step EXCEPT ![d] = "idle"]
    BY <1>4, <2>1 DEF EndClaim
  <2>2. CASE /\ locked[d] # {}
             /\ step' = [step EXCEPT ![d] = "producing"]
             /\ \E rows \in SetToSeqs(locked[d]) :
                  batch' = [batch EXCEPT ![d] = rows]
    <3>1. PICK rows \in SetToSeqs(locked[d]) : batch' = [batch EXCEPT ![d] = rows]
      BY <2>2
    <3>2. rows \in Seq(Row) /\ rows # << >>
      BY <2>2, EnumerationIsSeq, ZenonT(60)
    <3> QED
      BY <1>4, <2>2, <3>1, <3>2 DEF EndClaim
  <2> QED
    BY <1>4, <2>1, <2>2 DEF EndClaim
<1>5. ASSUME NEW d \in Dispatcher, NextRow(d), batch[d] # << >>
      PROVE  /\ batch' \in [Dispatcher -> Seq(Row)]
             /\ step' \in [Dispatcher -> {"idle", "claiming", "producing", "marking"}]
             /\ \A e \in Dispatcher :
                  batch'[e] = << >> <=> step'[e] \in {"idle", "claiming"}
  <2>1. /\ Tail(batch[d]) \in Seq(Row)
        /\ Tail(batch[d]) = << >> <=> Len(batch[d]) = 1
    BY <1>5, TailOfSeq
  <2> QED
    BY <1>5, <2>1 DEF NextRow
<1>6. ASSUME NEW r \in Row, Append1(r) PROVE copies' \in [Row -> 0..MaxCopies]
  BY <1>6 DEF Append1
<1>7. ASSUME NEW d \in Dispatcher, step[d] \in {"producing", "marking"}
      PROVE  batch[d] # << >> /\ Head(batch[d]) \in Row
  BY <1>7, TailOfSeq
<1>8. ASSUME NEW d \in Dispatcher, ProduceOk(d) PROVE TypeOK'
  BY <1>6, <1>7, <1>8 DEF ProduceOk
<1>9. ASSUME NEW d \in Dispatcher, ProduceFails(d) PROVE TypeOK'
  BY <1>5, <1>6, <1>7, <1>9 DEF ProduceFails
<1>10. ASSUME NEW d \in Dispatcher, MarkPublished(d) PROVE TypeOK'
  BY <1>5, <1>7, <1>10 DEF MarkPublished
<1>11. ASSUME NEW d \in Dispatcher, Crash(d) PROVE TypeOK'
  BY <1>11 DEF Crash
<1>12. CASE UNCHANGED vars
  BY <1>12 DEF vars
<1> QED
  BY <1>1, <1>2, <1>3, <1>4, <1>8, <1>9, <1>10, <1>11, <1>12 DEF Next

(* For any rows, dispatchers and failures the variables keep their types.  *)
THEOREM DispatcherTypes == Spec => []TypeOK
  BY TypeInit, TypeStep, PTL DEF Spec

----------------------------------------------------------------------------
(* Committed rows stay committed.                                          *)
LEMMA CommittedGrows == TypeOK /\ [Next]_vars => Committed \subseteq Committed'
<1> SUFFICES ASSUME TypeOK, [Next]_vars, NEW r \in Committed
             PROVE  r \in Committed'
  OBVIOUS
<1> USE DEF Committed, TypeOK
<1>1. ASSUME NEW q \in Row, Insert(q) \/ EndTransaction(q) PROVE r \in Committed'
  BY <1>1 DEF Insert, EndTransaction
<1>2. ASSUME NEW d \in Dispatcher, MarkPublished(d) PROVE r \in Committed'
  BY <1>2 DEF MarkPublished
<1>3. ASSUME NEW d \in Dispatcher,
             StartClaim(d) \/ EndClaim(d) \/ ProduceOk(d) \/ ProduceFails(d) \/ Crash(d)
      PROVE  UNCHANGED row
  BY <1>3 DEF StartClaim, EndClaim, ProduceOk, ProduceFails, Crash
<1> QED
  BY <1>1, <1>2, <1>3 DEF Next, vars

(* What a dispatcher holds is committed, and it marks what it produced.    *)
LEMMA SupportInit == Init => Support /\ MarkedIsProduced
<1>1. Range(<< >>) = {}
  BY EmptySeq DEF Range
<1> QED
  BY <1>1 DEF Init, Support, MarkedIsProduced, Held

LEMMA SupportStep == IInv /\ [Next]_vars => Support' /\ MarkedIsProduced'
<1> SUFFICES ASSUME IInv, [Next]_vars PROVE Support' /\ MarkedIsProduced'
  OBVIOUS
<1> TypeOK /\ Support /\ MarkedIsProduced
  BY DEF IInv
<1>t. TypeOK'
  BY TypeStep
<1>c. Committed \subseteq Committed'
  BY CommittedGrows
<1> DEFINE Kept == /\ \A r \in Row : copies[r] > 0 => copies'[r] > 0
                   /\ \A r \in Row : copies'[r] > 0 => copies[r] > 0 \/ r \in Committed
           Holds == \A d \in Dispatcher : Held(d)' \subseteq Committed
           Marks == \A d \in Dispatcher :
                      step'[d] = "marking" => copies'[Head(batch'[d])] > 0
           Rows  == \A r \in Row : row'[r] = "published" =>
                      row[r] = "published" \/ copies[r] > 0
<1>s. Kept /\ Holds /\ Marks /\ Rows => Support' /\ MarkedIsProduced'
  BY <1>c DEF Support, MarkedIsProduced
<1> USE DEF TypeOK, Support, Held
<1>m. ASSUME NEW d \in Dispatcher, step[d] \in {"producing", "marking"}
      PROVE  batch[d] # << >> /\ Head(batch[d]) \in Committed /\ Head(batch[d]) \in Row
  BY <1>m, TailOfSeq
<1>n. ASSUME NEW d \in Dispatcher, NextRow(d), batch[d] # << >>
      PROVE  /\ \A e \in Dispatcher : Range(batch'[e]) \subseteq Range(batch[e])
             /\ \A e \in Dispatcher : step'[e] = "marking" =>
                                     step[e] = "marking" /\ batch'[e] = batch[e]
  <2>1. Range(Tail(batch[d])) \subseteq Range(batch[d])
    BY <1>n, TailOfSeq
  <2>2. /\ batch'[d] = Tail(batch[d])
        /\ \A e \in Dispatcher : e # d => batch'[e] = batch[e]
    BY <1>n DEF NextRow
  <2>3. /\ step'[d] # "marking"
        /\ \A e \in Dispatcher : e # d => step'[e] = step[e]
    BY <1>n DEF NextRow
  <2>4. ASSUME NEW e \in Dispatcher
        PROVE  Range(batch'[e]) \subseteq Range(batch[e])
    <3>1. CASE e = d
      <4>1. batch'[e] = Tail(batch[d]) /\ batch[e] = batch[d]
        BY <2>2, <3>1
      <4> QED
        BY <2>1, <4>1, Zenon
    <3>2. CASE e # d
      BY <2>2, <3>2, Zenon
    <3> QED
      BY <3>1, <3>2
  <2> QED
    BY <2>2, <2>3, <2>4
<1>a. ASSUME NEW r \in Committed, Append1(r)
      PROVE  Kept /\ copies'[r] > 0
  BY <1>a DEF Append1, Committed
<1>1. ASSUME NEW r \in Row, Insert(r) PROVE Kept /\ Holds /\ Marks /\ Rows
  BY <1>1 DEF Insert
<1>2. ASSUME NEW r \in Row, EndTransaction(r) PROVE Kept /\ Holds /\ Marks /\ Rows
  BY <1>2 DEF EndTransaction
<1>3. ASSUME NEW d \in Dispatcher, StartClaim(d) PROVE Kept /\ Holds /\ Marks /\ Rows
  <2>1. Lowest(Claimable, Batch) \subseteq Committed
    BY DEF Lowest, Claimable, Committed
  <2> QED
    BY <1>3, <2>1 DEF StartClaim
<1>4. ASSUME NEW d \in Dispatcher, EndClaim(d) PROVE Kept /\ Holds /\ Marks /\ Rows
  <2>1. Kept /\ Rows
    BY <1>4 DEF EndClaim
  <2>2. Marks
    BY <1>4 DEF EndClaim
  <2>3. Holds
    <3>1. CASE UNCHANGED batch
      BY <1>4, <3>1 DEF EndClaim
    <3>2. CASE \E rows \in SetToSeqs(locked[d]) : batch' = [batch EXCEPT ![d] = rows]
      <4>1. PICK rows \in SetToSeqs(locked[d]) : batch' = [batch EXCEPT ![d] = rows]
        BY <3>2
      <4>2. Range(rows) \subseteq locked[d]
        <5>1. locked[d] \subseteq Row
          OBVIOUS
        <5> QED
          BY <4>1, <5>1, EnumerationIsSeq, Zenon
      <4> QED
        BY <1>4, <4>1, <4>2 DEF EndClaim
    <3> QED
      BY <1>4, <3>1, <3>2 DEF EndClaim
  <2> QED
    BY <2>1, <2>2, <2>3
<1>5. ASSUME NEW d \in Dispatcher, ProduceOk(d) PROVE Kept /\ Holds /\ Marks /\ Rows
  <2>1. Kept /\ copies'[Head(batch[d])] > 0
    BY <1>5, <1>m, <1>a DEF ProduceOk
  <2>2. \A e \in Dispatcher : e # d /\ step'[e] = "marking" => step[e] = "marking"
    BY <1>5 DEF ProduceOk
  <2>3. Holds /\ Rows
    BY <1>5 DEF ProduceOk
  <2>4. ASSUME NEW e \in Dispatcher, step'[e] = "marking"
        PROVE  copies'[Head(batch'[e])] > 0
    <3>1. batch'[e] = batch[e]
      BY <1>5 DEF ProduceOk
    <3>2. CASE e # d
      <4>1. step[e] = "marking"
        BY <2>2, <2>4, <3>2
      <4>2. copies[Head(batch[e])] > 0 /\ Head(batch[e]) \in Row
        BY <4>1, <1>m
      <4> QED
        BY <2>1, <3>1, <4>2
    <3> QED
      BY <2>1, <3>1, <3>2
  <2> QED
    BY <2>1, <2>3, <2>4
<1>6. ASSUME NEW d \in Dispatcher, ProduceFails(d) PROVE Kept /\ Holds /\ Marks /\ Rows
  <2>1. Kept
    BY <1>6, <1>m, <1>a DEF ProduceFails
  <2>2. NextRow(d) /\ batch[d] # << >> /\ UNCHANGED <<row, locked>>
    BY <1>6, <1>m DEF ProduceFails
  <2> QED
    BY <1>m, <1>n, <2>1, <2>2
<1>7. ASSUME NEW d \in Dispatcher, MarkPublished(d) PROVE Kept /\ Holds /\ Marks /\ Rows
  <2>1. NextRow(d) /\ batch[d] # << >> /\ UNCHANGED <<copies, locked>>
    BY <1>7, <1>m DEF MarkPublished
  <2>2. Rows
    BY <1>7, <1>m DEF MarkPublished
  <2> QED
    BY <1>n, <2>1, <2>2
<1>8. ASSUME NEW d \in Dispatcher, Crash(d) PROVE Kept /\ Holds /\ Marks /\ Rows
  <2>1. Range(<< >>) = {}
    BY EmptySeq DEF Range
  <2> QED
    BY <1>8, <2>1 DEF Crash
<1>9. CASE UNCHANGED vars
  BY <1>9 DEF vars, Committed, MarkedIsProduced
<1> QED
  BY <1>s, <1>1, <1>2, <1>3, <1>4, <1>5, <1>6, <1>7, <1>8, <1>9 DEF Next

LEMMA Invariant == Spec => []IInv
<1>1. Init => IInv
  BY TypeInit, SupportInit DEF IInv
<1>2. IInv /\ [Next]_vars => IInv'
  BY TypeStep, SupportStep DEF IInv
<1> QED
  BY <1>1, <1>2, PTL DEF Spec

(* However dispatchers crash, fail or overlap, a row marked published is   *)
(* on the topic.                                                           *)
THEOREM MarkedProduced == Spec => []MarkedIsProduced
<1>1. IInv => MarkedIsProduced
  BY DEF IInv
<1> QED
  BY <1>1, Invariant, PTL

(* The dispatcher delivers nothing that was not committed: it implements   *)
(* AtLeastOnce.                                                            *)
THEOREM ImplementsDelivery == Spec => Delivers
<1>1. Init => Delivery!Init
  BY DEF Init, Delivery!Init, Committed
<1>2. IInv /\ [Next]_vars => [Delivery!Next]_Delivery!vars
  <2> SUFFICES ASSUME IInv, [Next]_vars PROVE [Delivery!Next]_Delivery!vars
    OBVIOUS
  <2> DEFINE OnTopic == { r \in Row : copies[r] > 0 }
  <2> TypeOK /\ Support
    BY DEF IInv
  <2>1. ASSUME NEW r \in Row, Insert(r) \/ EndTransaction(r)
        PROVE  \/ Delivery!Send(r)
               \/ UNCHANGED <<Committed, OnTopic>>
    BY <2>1 DEF Insert, EndTransaction, Committed, TypeOK, Delivery!Send
  <2>2. ASSUME NEW r \in Committed, Append1(r), UNCHANGED row
        PROVE  Delivery!Deliver(r) /\ r \in Row
    BY <2>2 DEF Append1, Committed, TypeOK, Delivery!Deliver
  <2>3. ASSUME NEW d \in Dispatcher, step[d] \in {"producing", "marking"}
        PROVE  Head(batch[d]) \in Committed
    BY <2>3, TailOfSeq DEF TypeOK, Support, Held
  <2>4. ASSUME NEW d \in Dispatcher, ProduceOk(d) \/ ProduceFails(d)
        PROVE  \/ \E r \in Row : Delivery!Deliver(r)
               \/ UNCHANGED <<Committed, OnTopic>>
    BY <2>4, <2>2, <2>3 DEF ProduceOk, ProduceFails, Committed
  <2>5. ASSUME NEW d \in Dispatcher, MarkPublished(d)
        PROVE  UNCHANGED <<Committed, OnTopic>>
    BY <2>5, <2>3 DEF MarkPublished, Committed, TypeOK
  <2>6. ASSUME NEW d \in Dispatcher, StartClaim(d) \/ EndClaim(d) \/ Crash(d)
        PROVE  UNCHANGED <<Committed, OnTopic>>
    BY <2>6 DEF StartClaim, EndClaim, Crash, Committed
  <2>7. CASE UNCHANGED vars
    BY <2>7 DEF vars, Committed, Delivery!vars
  <2> QED
    BY <2>1, <2>4, <2>5, <2>6, <2>7 DEF Next, Delivery!Next, Delivery!vars
<1> QED
  BY <1>1, <1>2, Invariant, PTL DEF Spec, Delivers, Delivery!Spec
=============================================================================
