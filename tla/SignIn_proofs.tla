---------------------------- MODULE SignIn_proofs ----------------------------
(***************************************************************************)
(* Proofs about SignIn for any keys, people, logins and times. What a set  *)
(* of keys, cached or on its way, says about Google is true as of the time *)
(* it is dated (Dated): that is why a fetch is dated before it begins. The *)
(* mutex belongs to the one request that fetches (Exclusive), a fetch is   *)
(* over in FetchTime (Fetches), and an address keeps its account           *)
(* (Accounts).                                                             *)
(***************************************************************************)
EXTENDS SignIn, TLAPS

USE SignInAssumption, NoTokenAssumption DEF User

(* What requests carry.                                                    *)
Carried ==
  \A r \in Request :
    /\ pc[r] \in {"lock", "fetching", "answered", "known"}
         => token[r] \in Sent
    /\ pc[r] \in {"demo", "demo_select"}
         => \E d \in DemoUser :
              token[r] = [kid |-> NoKey, sub |-> d, email |-> DemoEmail[d]]

Exclusive ==
  \A r \in Request : (mu = r) <=> pc[r] \in {"fetching", "answered"}

(* A set of keys is what Google published at t or later.                   *)
Dated(set, t) ==
  \A k \in Key :
    IF k \in set
    THEN \/ life[k] = "published"
         \/ life[k] = "withdrawn" /\ t <= since[k]
    ELSE life[k] = "published" => t <= since[k]

Past == \A k \in Key : since[k] <= now

Cache ==
  keys # {} => /\ fetchedAt <= now
               /\ fetchedAt + MinRefresh <= expiresAt
               /\ expiresAt <= fetchedAt + MaxTTL
               /\ Dated(keys, fetchedAt)

Fetches ==
  \A r \in Request :
    /\ pc[r] \in {"fetching", "answered"}
         => asked[r] <= now /\ now <= asked[r] + FetchTime
    /\ pc[r] = "answered" => Dated(answer[r], asked[r])

Accounts ==
  \A e \in Email : users[e] \in DemoUser => e = DemoEmail[users[e]]

----------------------------------------------------------------------------
(* A ttl is within its bounds.                                             *)
LEMMA TTLBounds ==
  ASSUME NEW age \in MaxAge
  PROVE  KeyTTL(age) \in Nat /\ MinRefresh <= KeyTTL(age)
                             /\ KeyTTL(age) <= MaxTTL
BY DEF KeyTTL

LEMMA SentTokens ==
  /\ Sent \subseteq Token
  /\ \A d \in DemoUser : [kid |-> NoKey, sub |-> d, email |-> DemoEmail[d]]
                           \in Token
  /\ \A t \in Token : t.sub \in User /\ t.email \in Email
  /\ \A t \in Sent : t.kid \in Key /\ t.sub \in Person /\ t.email \in Email
BY DEF Token

(* A request that goes on keeps its token, one that ends loses it.         *)
LEMMA ProceedTypes ==
  ASSUME TypeOK, Carried, NEW r \in Request,
         NEW where \in {"known", "unknown_key", "refused", "done"},
         Proceed(r, where),
         pc[r] \in {"lock", "fetching", "answered", "known"}
           \/ where \in Ended
  PROVE  /\ pc' \in [Request -> Ended \cup {"lock", "fetching", "answered",
                        "known", "demo", "demo_select"}]
         /\ token' \in [Request -> Token \cup {NoToken}]
         /\ Carried'
<1>1. /\ pc' = [pc EXCEPT ![r] = where]
      /\ token' \in {token, [token EXCEPT ![r] = NoToken]}
      /\ where = "known" => token' = token
  BY DEF Proceed, Ended
<1>2. \A q \in Request : q # r => pc'[q] = pc[q] /\ token'[q] = token[q]
  BY <1>1 DEF TypeOK
<1>3. pc'[r] = where
  BY <1>1 DEF TypeOK
<1>4. Carried'
  BY <1>1, <1>2, <1>3 DEF Carried, Ended
<1> QED
  BY <1>1, <1>4 DEF TypeOK, Ended

(* Types, and what requests carry, which the types rest on.                *)
LEMMA TypesKept ==
  ASSUME TypeOK, Carried, [Next]_vars
  PROVE  TypeOK' /\ Carried'
<1> USE DEF TypeOK, Carried
<1>1. CASE UNCHANGED vars
  BY <1>1 DEF vars, google, cache
<1>2. CASE Tick
  BY <1>2 DEF Tick, google, cache
<1>3. CASE Restart
  BY <1>3 DEF Restart, google, Ended
<1>4. ASSUME NEW k \in Key, Rotate(k) PROVE TypeOK' /\ Carried'
  BY <1>4 DEF Rotate, cache
<1>5. ASSUME NEW r \in Request, NEW t \in Sent, Arrive(r, t)
      PROVE  TypeOK' /\ Carried'
  BY <1>5, SentTokens DEF Arrive, google, cache, Ended
<1>6. ASSUME NEW r \in Request, NEW d \in DemoUser, ArriveDemo(r, d)
      PROVE  TypeOK' /\ Carried'
  BY <1>6, SentTokens DEF ArriveDemo, google, cache, Ended
<1>7. ASSUME NEW r \in Request, FindKey(r) PROVE TypeOK' /\ Carried'
  <2>1. /\ pc[r] = "lock"
        /\ \E where \in {"known", "unknown_key"} : Proceed(r, where)
    BY <1>7 DEF FindKey
  <2>2. PICK where \in {"known", "unknown_key"} : Proceed(r, where)
    BY <2>1
  <2> QED
    BY <1>7, <2>1, <2>2, ProceedTypes DEF FindKey, google, cache
<1>8. ASSUME NEW r \in Request, BeginFetch(r) PROVE TypeOK' /\ Carried'
  BY <1>8 DEF BeginFetch, google, cache, Ended
<1>9. ASSUME NEW r \in Request, Answer(r) PROVE TypeOK' /\ Carried'
  <2>1. answer' \in [Request -> SUBSET Key]
    BY <1>9 DEF Answer, Published
  <2> QED
    BY <1>9, <2>1 DEF Answer, google, cache, Ended
<1>10. ASSUME NEW r \in Request, FetchFails(r) PROVE TypeOK' /\ Carried'
  BY <1>10 DEF FetchFails, Proceed, google, cache, Ended
<1>11. ASSUME NEW r \in Request, Install(r) PROVE TypeOK' /\ Carried'
  <2>1. expiresAt' \in Nat /\ fetchedAt' \in Nat
    <3>1. PICK age \in MaxAge : expiresAt' = asked[r] + KeyTTL(age)
      BY <1>11 DEF Install
    <3>2. asked[r] \in Nat /\ KeyTTL(age) \in Nat
      BY TTLBounds
    <3> QED
      BY <1>11, <3>1, <3>2 DEF Install
  <2>2. /\ pc[r] = "answered"
        /\ \E where \in {"known", "unknown_key"} : Proceed(r, where)
    BY <1>11 DEF Install
  <2>3. PICK where \in {"known", "unknown_key"} : Proceed(r, where)
    BY <2>2
  <2> QED
    BY <1>11, <2>1, <2>2, <2>3, ProceedTypes DEF Install, google
<1>12. ASSUME NEW r \in Request, Refused(r) PROVE TypeOK' /\ Carried'
  BY <1>12 DEF Refused, Refuse, Proceed, google, cache, Ended
<1>13. ASSUME NEW r \in Request, Upsert(r) PROVE TypeOK' /\ Carried'
  <2>1. /\ token[r].sub \in User /\ token[r].email \in Email
        /\ pc[r] = "known"
    BY <1>13, SentTokens DEF Upsert
  <2>2. users' \in [Email -> User \cup {NoUser}]
    BY <1>13, <2>1 DEF Upsert
  <2>3. session' \in [Request -> Session \cup {NoSession}]
    BY <1>13, <2>1 DEF Upsert, Open, Refuse, Session
  <2>4. \E where \in {"done", "refused"} : Proceed(r, where)
    BY <1>13 DEF Upsert, Open, Refuse
  <2>5. UNCHANGED <<now, google, cache, mu, asked, answer>>
    BY <1>13 DEF Upsert
  <2> QED
    BY <2>2, <2>3, <2>4, <2>5 DEF Proceed, google, cache, Ended
<1>14. ASSUME NEW r \in Request, DemoInsert(r) PROVE TypeOK' /\ Carried'
  <2>1. token[r].sub \in User /\ token[r].email \in Email
    BY <1>14, SentTokens DEF DemoInsert
  <2>2. users' \in [Email -> User \cup {NoUser}]
    BY <1>14, <2>1 DEF DemoInsert
  <2> QED
    BY <1>14, <2>2 DEF DemoInsert, google, cache, Ended
<1>15. ASSUME NEW r \in Request, DemoSelect(r) PROVE TypeOK' /\ Carried'
  <2>1. token[r].sub \in User /\ token[r].email \in Email
    BY <1>15, SentTokens DEF DemoSelect
  <2>2. session' \in [Request -> Session \cup {NoSession}]
    BY <1>15, <2>1 DEF DemoSelect, Open, Refuse, Session
  <2>3. \E where \in {"done", "refused"} : Proceed(r, where)
    BY <1>15 DEF DemoSelect, Open, Refuse
  <2>4. UNCHANGED <<now, google, cache, mu, asked, answer, users>>
    BY <1>15 DEF DemoSelect
  <2> QED
    BY <2>2, <2>3, <2>4 DEF Proceed, google, cache, Ended
<1> QED
  BY <1>1, <1>2, <1>3, <1>4, <1>5, <1>6, <1>7, <1>8, <1>9, <1>10, <1>11,
     <1>12, <1>13, <1>14, <1>15 DEF Next, Runs

LEMMA TypesHold == Spec => [](TypeOK /\ Carried)
<1>1. Init => TypeOK /\ Carried
  BY DEF Init, TypeOK, Carried, Ended
<1> QED
  BY <1>1, TypesKept, PTL DEF Spec

(* Every variable keeps its type.                                          *)
THEOREM SignInTypes == Spec => []TypeOK
BY TypesHold, PTL

----------------------------------------------------------------------------
(* The cache and the clock change in four actions.                         *)
LEMMA CacheSteps ==
  ASSUME [Next]_vars
  PROVE  \/ UNCHANGED <<now, google, cache>>
         \/ Tick \/ Restart
         \/ \E k \in Key : Rotate(k)
         \/ \E r \in Request : Install(r)
<1>1. CASE UNCHANGED vars
  BY <1>1 DEF vars
<1>2. ASSUME NEW r \in Request, NEW t \in Sent, Arrive(r, t)
      PROVE  UNCHANGED <<now, google, cache>>
  BY <1>2 DEF Arrive
<1>3. ASSUME NEW r \in Request, NEW d \in DemoUser, ArriveDemo(r, d)
      PROVE  UNCHANGED <<now, google, cache>>
  BY <1>3 DEF ArriveDemo
<1>4. ASSUME NEW r \in Request,
             \/ FindKey(r) \/ BeginFetch(r) \/ Answer(r) \/ FetchFails(r)
             \/ Refused(r) \/ Upsert(r) \/ DemoInsert(r) \/ DemoSelect(r)
      PROVE  UNCHANGED <<now, google, cache>>
  BY <1>4 DEF FindKey, BeginFetch, Answer, FetchFails, Refused, Upsert,
              DemoInsert, DemoSelect
<1> QED
  BY <1>1, <1>2, <1>3, <1>4 DEF Next, Runs

(* Who fetches, since when and with what changes in a few actions, too.    *)
LEMMA FetchSteps ==
  ASSUME TypeOK, [Next]_vars
  PROVE  \/ /\ UNCHANGED <<now, google, mu, asked, answer>>
            /\ \A r \in Request :
                 \/ pc'[r] = pc[r]
                 \/ {pc[r], pc'[r]} \cap {"fetching", "answered"} = {}
         \/ Tick \/ Restart
         \/ \E k \in Key : Rotate(k)
         \/ \E r \in Request :
              BeginFetch(r) \/ Answer(r) \/ FetchFails(r) \/ Install(r)
<1> DEFINE Other == /\ UNCHANGED <<now, google, mu, asked, answer>>
                    /\ \A r \in Request :
                         \/ pc'[r] = pc[r]
                         \/ {pc[r], pc'[r]} \cap {"fetching", "answered"} = {}
<1>1. CASE UNCHANGED vars
  BY <1>1 DEF vars
<1>2. ASSUME NEW r \in Request, NEW t \in Sent, Arrive(r, t) PROVE Other
  BY <1>2 DEF TypeOK, Arrive, Ended
<1>3. ASSUME NEW r \in Request, NEW d \in DemoUser, ArriveDemo(r, d)
      PROVE  Other
  BY <1>3 DEF TypeOK, ArriveDemo, Ended
<1>4. ASSUME NEW r \in Request, FindKey(r) PROVE Other
  BY <1>4 DEF TypeOK, FindKey, Proceed, Ended
<1>5. ASSUME NEW r \in Request, Refused(r) \/ Upsert(r) \/ DemoSelect(r)
      PROVE  Other
  <2>1. /\ pc[r] \in {"known", "demo_select"}
        /\ \E where \in {"done", "refused"} : Proceed(r, where)
        /\ UNCHANGED <<now, google, mu, asked, answer>>
    BY <1>5 DEF Refused, Upsert, DemoSelect, Open, Refuse
  <2> QED
    BY <2>1 DEF TypeOK, Proceed
<1>6. ASSUME NEW r \in Request, DemoInsert(r) PROVE Other
  BY <1>6 DEF TypeOK, DemoInsert
<1> QED
  BY <1>1, <1>2, <1>3, <1>4, <1>5, <1>6 DEF Next, Runs

(* One request fetches at a time, and has the mutex.                       *)
LEMMA ExclusiveKept ==
  ASSUME TypeOK, Exclusive, [Next]_vars
  PROVE  Exclusive'
<1> USE DEF TypeOK, Exclusive
<1>1. ASSUME /\ UNCHANGED <<now, google, mu, asked, answer>>
             /\ \A r \in Request :
                  \/ pc'[r] = pc[r]
                  \/ {pc[r], pc'[r]} \cap {"fetching", "answered"} = {}
      PROVE  Exclusive'
  BY <1>1
<1>2. CASE Tick \/ \E k \in Key : Rotate(k)
  BY <1>2 DEF Tick, Rotate
<1>3. CASE Restart
  BY <1>3 DEF Restart
<1>4. ASSUME NEW r \in Request, BeginFetch(r) \/ Answer(r) PROVE Exclusive'
  BY <1>4 DEF BeginFetch, Answer
<1>5. ASSUME NEW r \in Request, FetchFails(r) \/ Install(r) PROVE Exclusive'
  <2>1. /\ pc[r] \in {"fetching", "answered"} /\ mu' = Nobody
        /\ \E where \in {"known", "unknown_key", "refused"} : Proceed(r, where)
    BY <1>5 DEF FetchFails, Install
  <2> QED
    BY <2>1 DEF Proceed
<1> QED
  BY <1>1, <1>2, <1>3, <1>4, <1>5, FetchSteps

----------------------------------------------------------------------------
(* A rotation comes after every date so far, and contradicts no dated set. *)
LEMMA DatedKept ==
  ASSUME TypeOK, Past, NEW k \in Key, Rotate(k),
         NEW set, NEW t \in Nat, t <= now, Dated(set, t)
  PROVE  Dated(set, t)'
<1>1. /\ \/ /\ life[k] = "unborn"
            /\ life' = [life EXCEPT ![k] = "published"]
         \/ /\ life[k] = "published"
            /\ life' = [life EXCEPT ![k] = "withdrawn"]
      /\ since' = [since EXCEPT ![k] = now]
  BY DEF Rotate
<1>2. /\ life'[k] \in {"published", "withdrawn"} /\ since'[k] = now
      /\ \A j \in Key : j # k => life'[j] = life[j] /\ since'[j] = since[j]
  BY <1>1 DEF TypeOK
<1> QED
  BY <1>2 DEF Dated, TypeOK

LEMMA CacheKept ==
  ASSUME TypeOK, Past, Cache, Fetches, [Next]_vars
  PROVE  Past' /\ Cache'
<1> USE DEF TypeOK
<1>1. CASE UNCHANGED <<now, google, cache>>
  BY <1>1 DEF Past, Cache, Dated, google, cache
<1>2. CASE Tick
  BY <1>2 DEF Tick, Past, Cache, Dated, google, cache
<1>3. CASE Restart
  BY <1>3 DEF Restart, Past, Cache, google
<1>4. ASSUME NEW k \in Key, Rotate(k) PROVE Past' /\ Cache'
  <2>1. Past'
    BY <1>4 DEF Past, Rotate
  <2>2. ASSUME keys # {} PROVE Dated(keys, fetchedAt)'
    <3>1. Dated(keys, fetchedAt) /\ fetchedAt <= now /\ UNCHANGED cache
      BY <1>4, <2>2 DEF Cache, Rotate
    <3>2. \A set, t : t \in Nat /\ t <= now /\ Dated(set, t)
                        => Dated(set, t)'
      BY <1>4, DatedKept
    <3> QED
      BY <3>1, <3>2 DEF Dated, cache
  <2> QED
    BY <1>4, <2>1, <2>2 DEF Cache, Rotate, cache
<1>5. ASSUME NEW r \in Request, Install(r) PROVE Past' /\ Cache'
  <2>1. /\ asked[r] <= now /\ Dated(answer[r], asked[r])
        /\ UNCHANGED <<now, google>>
        /\ keys' = answer[r] /\ fetchedAt' = asked[r]
    BY <1>5 DEF Install, Fetches
  <2>2. PICK age \in MaxAge : expiresAt' = asked[r] + KeyTTL(age)
    BY <1>5 DEF Install
  <2>3. /\ fetchedAt' + MinRefresh <= expiresAt'
        /\ expiresAt' <= fetchedAt' + MaxTTL
    BY <2>1, <2>2, TTLBounds
  <2> QED
    BY <2>1, <2>3 DEF Past, Cache, Dated, google
<1> QED
  BY <1>1, <1>2, <1>3, <1>4, <1>5, CacheSteps

(* A fetch is over in time, and what it brings is true as of its date.     *)
LEMMA FetchesKept ==
  ASSUME TypeOK, Past, Fetches, [Next]_vars
  PROVE  Fetches'
<1> USE DEF TypeOK
<1>1. ASSUME /\ UNCHANGED <<now, google, mu, asked, answer>>
             /\ \A r \in Request :
                  \/ pc'[r] = pc[r]
                  \/ {pc[r], pc'[r]} \cap {"fetching", "answered"} = {}
      PROVE  Fetches'
  BY <1>1 DEF Fetches, Dated, google
<1>2. CASE Tick
  BY <1>2 DEF Tick, Fetches, Dated, google
<1>3. CASE Restart
  BY <1>3 DEF Restart, Fetches
<1>4. ASSUME NEW k \in Key, Rotate(k) PROVE Fetches'
  <2>1. UNCHANGED <<now, pc, asked, answer>>
    BY <1>4 DEF Rotate
  <2>2. ASSUME NEW r \in Request, pc[r] = "answered"
        PROVE  Dated(answer[r], asked[r])'
    <3>1. Dated(answer[r], asked[r]) /\ asked[r] <= now /\ asked[r] \in Nat
      BY <2>2 DEF Fetches
    <3>2. \A set, t : t \in Nat /\ t <= now /\ Dated(set, t)
                        => Dated(set, t)'
      BY <1>4, DatedKept
    <3>3. \A j \in Key :
            IF j \in answer[r]
            THEN \/ life'[j] = "published"
                 \/ life'[j] = "withdrawn" /\ asked[r] <= since'[j]
            ELSE life'[j] = "published" => asked[r] <= since'[j]
      BY <3>1, <3>2 DEF Dated
    <3> QED
      BY <2>1, <3>3 DEF Dated
  <2> QED
    BY <2>1, <2>2 DEF Fetches
<1>5. ASSUME NEW r \in Request, BeginFetch(r) PROVE Fetches'
  BY <1>5 DEF BeginFetch, Fetches, Dated, google
<1>6. ASSUME NEW r \in Request, Answer(r) PROVE Fetches'
  <2>1. /\ UNCHANGED <<now, life, since, asked>>
        /\ pc' = [pc EXCEPT ![r] = "answered"] /\ pc[r] = "fetching"
        /\ answer' = [answer EXCEPT ![r] = Published]
    BY <1>6 DEF Answer, google
  <2>2. Dated(answer[r], asked[r])'
    BY <2>1 DEF Dated, Past, Fetches, Published
  <2> QED
    BY <2>1, <2>2 DEF Fetches, Dated
<1>7. ASSUME NEW r \in Request, FetchFails(r) \/ Install(r) PROVE Fetches'
  <2>1. /\ UNCHANGED <<now, google>>
        /\ \E where \in {"known", "unknown_key", "refused"} : Proceed(r, where)
        /\ \A q \in Request :
             q # r => asked'[q] = asked[q] /\ answer'[q] = answer[q]
    BY <1>7 DEF FetchFails, Install
  <2>2. /\ pc'[r] \notin {"fetching", "answered"}
        /\ \A q \in Request : q # r => pc'[q] = pc[q]
    BY <2>1 DEF Proceed
  <2> QED
    BY <2>1, <2>2 DEF Fetches, Dated, google
<1> QED
  BY <1>1, <1>2, <1>3, <1>4, <1>5, <1>6, <1>7, FetchSteps

LEMMA CacheHolds == Spec => [](Past /\ Cache /\ Fetches /\ Exclusive)
<1>1. Init => Past /\ Cache /\ Fetches /\ Exclusive
  BY DEF Init, Past, Cache, Fetches, Exclusive
<1> QED
  BY <1>1, TypesHold, CacheKept, FetchesKept, ExclusiveKept, PTL DEF Spec

----------------------------------------------------------------------------
(* Where a token is accepted or found unknown.                             *)
LEMMA Verdicts ==
  ASSUME TypeOK, Carried, [Next]_vars, NEW r \in Request,
         NEW where \in {"known", "unknown_key"}, Becomes(r, where)
  PROVE  /\ token[r].kid \in Key
         /\ \/ /\ FindKey(r)
               /\ where = "known" => Cached(token[r].kid)
               /\ where = "unknown_key" => ~Cached(token[r].kid) /\ ~MustRefresh
            \/ /\ Install(r) /\ pc[r] = "answered"
               /\ where = "known" <=> token[r].kid \in answer[r]
<1> USE DEF TypeOK, Becomes
<1>1. pc'[r] = where /\ pc[r] # where
  OBVIOUS
<1>2. ~UNCHANGED vars
  BY <1>1 DEF vars
<1>3. ~Tick /\ ~Restart /\ \A k \in Key : ~Rotate(k)
  BY <1>1 DEF Tick, Restart, Rotate
<1>4. ASSUME NEW q \in Request PROVE
        /\ \A t \in Sent : ~Arrive(q, t)
        /\ \A d \in DemoUser : ~ArriveDemo(q, d)
        /\ ~BeginFetch(q) /\ ~Answer(q) /\ ~FetchFails(q)
        /\ ~DemoInsert(q)
  BY <1>1 DEF Arrive, ArriveDemo, BeginFetch, Answer, FetchFails, Proceed,
              DemoInsert
<1>5. ASSUME NEW q \in Request
      PROVE  ~Refused(q) /\ ~Upsert(q) /\ ~DemoSelect(q)
  <2> SUFFICES ASSUME \E to \in {"done", "refused"} : Proceed(q, to)
               PROVE  FALSE
    BY DEF Refused, Upsert, DemoSelect, Open, Refuse
  <2> QED
    BY <1>1 DEF Proceed
<1>6. PICK q \in Request : FindKey(q) \/ Install(q)
  BY <1>2, <1>3, <1>4, <1>5 DEF Next, Runs
<1>7. q = r
  BY <1>1, <1>6 DEF FindKey, Install, Proceed
<1>8. token[r] \in Sent
  BY <1>6, <1>7 DEF FindKey, Install, Carried
<1>9. token[r].kid \in Key
  BY <1>8, SentTokens
<1>10. CASE FindKey(r)
  BY <1>1, <1>9, <1>10 DEF FindKey, Proceed
<1>11. CASE Install(r)
  BY <1>1, <1>9, <1>11 DEF Install, Proceed
<1> QED
  BY <1>6, <1>7, <1>10, <1>11

(* A withdrawn key goes out of use within the longest ttl.                 *)
THEOREM OldKeysDropped == Spec => WithdrawnKeyDropped
<1>1. ASSUME TypeOK, Carried, Past, Cache, Fetches, [Next]_vars,
             NEW r \in Request, Becomes(r, "known")
      PROVE  LET k == token[r].kid IN
             \/ life[k] = "published"
             \/ life[k] = "withdrawn" /\ now < since[k] + MaxTTL
  <2> DEFINE k == token[r].kid
  <2>1. k \in Key /\ since[k] \in Nat /\ now \in Nat
    BY <1>1, Verdicts DEF TypeOK
  <2>2. CASE FindKey(r) /\ Cached(k)
    <3>1. /\ keys # {} /\ k \in keys /\ now < expiresAt
          /\ expiresAt <= fetchedAt + MaxTTL /\ Dated(keys, fetchedAt)
      BY <1>1, <2>2 DEF Cached, Cache
    <3> QED
      BY <1>1, <2>1, <3>1 DEF Dated, TypeOK
  <2>3. CASE pc[r] = "answered" /\ k \in answer[r]
    <3>1. /\ Dated(answer[r], asked[r]) /\ asked[r] \in Nat
          /\ now <= asked[r] + FetchTime
      BY <1>1, <2>3 DEF Fetches, TypeOK
    <3> QED
      BY <2>1, <2>3, <3>1 DEF Dated
  <2> QED
    BY <1>1, <2>2, <2>3, Verdicts
<1>2. TypeOK /\ Carried /\ Past /\ Cache /\ Fetches /\ [Next]_vars
      => [\A r \in Request :
            Becomes(r, "known") =>
              \/ life[token[r].kid] = "published"
              \/ /\ life[token[r].kid] = "withdrawn"
                 /\ now < since[token[r].kid] + MaxTTL]_vars
  BY <1>1
<1> QED
  BY <1>2, TypesHold, CacheHolds, PTL DEF Spec, WithdrawnKeyDropped

(* A new key is found within minKeyRefresh.                                *)
THEOREM NewKeysFound == Spec => RotationFollowed
<1>1. ASSUME TypeOK, Carried, Past, Cache, Fetches, [Next]_vars,
             NEW r \in Request, Becomes(r, "unknown_key")
      PROVE  LET k == token[r].kid IN
             life[k] # "published" \/ now < since[k] + MinRefresh
  <2> DEFINE k == token[r].kid
  <2>1. k \in Key /\ since[k] \in Nat /\ now \in Nat
    BY <1>1, Verdicts DEF TypeOK
  <2>2. CASE ~Cached(k) /\ ~MustRefresh
    <3>1. /\ keys # {} /\ k \notin keys /\ now - fetchedAt < MinRefresh
          /\ Dated(keys, fetchedAt) /\ fetchedAt \in Nat
      BY <1>1, <2>2 DEF Cached, MustRefresh, Cache, TypeOK
    <3> QED
      BY <2>1, <3>1 DEF Dated
  <2>3. CASE pc[r] = "answered" /\ k \notin answer[r]
    <3>1. /\ Dated(answer[r], asked[r]) /\ asked[r] \in Nat
          /\ now <= asked[r] + FetchTime
      BY <1>1, <2>3 DEF Fetches, TypeOK
    <3> QED
      BY <2>1, <2>3, <3>1 DEF Dated
  <2> QED
    BY <1>1, <2>2, <2>3, Verdicts
<1>2. TypeOK /\ Carried /\ Past /\ Cache /\ Fetches /\ [Next]_vars
      => [\A r \in Request :
            Becomes(r, "unknown_key") =>
              \/ life[token[r].kid] # "published"
              \/ now < since[token[r].kid] + MinRefresh]_vars
  BY <1>1
<1> QED
  BY <1>2, TypesHold, CacheHolds, PTL DEF Spec, RotationFollowed

(* Fetches come one at a time and minKeyRefresh apart.                     *)
THEOREM FetchesApart == Spec => FetchesSpaced
<1>1. ASSUME TypeOK, Cache, Exclusive, [Next]_vars,
             NEW r \in Request, Becomes(r, "fetching")
      PROVE  /\ \A q \in Request : pc[q] \notin {"fetching", "answered"}
             /\ keys # {} => now >= fetchedAt + MinRefresh
  <2>1. BeginFetch(r)
    <3>1. ASSUME NEW q \in Request,
                 BeginFetch(q) \/ Answer(q) \/ FetchFails(q) \/ Install(q)
          PROVE  BeginFetch(r)
      BY <1>1, <3>1 DEF TypeOK, Becomes, BeginFetch, Answer, FetchFails,
                        Install, Proceed
    <3>2. ~Tick /\ ~Restart /\ \A k \in Key : ~Rotate(k)
      BY <1>1 DEF Becomes, Tick, Restart, Rotate
    <3> QED
      BY <1>1, <3>1, <3>2, FetchSteps DEF Becomes
  <2>2. mu = Nobody /\ MustRefresh
    BY <2>1 DEF BeginFetch
  <2>3. \A q \in Request : pc[q] \notin {"fetching", "answered"}
    BY <1>1, <2>2 DEF Exclusive
  <2>4. keys # {} => now >= fetchedAt + MinRefresh
    BY <1>1, <2>2 DEF MustRefresh, Cache, TypeOK
  <2> QED
    BY <2>3, <2>4
<1>2. TypeOK /\ Cache /\ Exclusive /\ [Next]_vars
      => [\A r \in Request :
            Becomes(r, "fetching") =>
              /\ \A q \in Request : pc[q] \notin {"fetching", "answered"}
              /\ keys # {} => now >= fetchedAt + MinRefresh]_vars
  BY <1>1
<1> QED
  BY <1>2, TypesHold, CacheHolds, PTL DEF Spec, FetchesSpaced

----------------------------------------------------------------------------
(* An address keeps its account, and a demo account has no other address.  *)
LEMMA AccountsKept ==
  ASSUME TypeOK, Carried, Accounts, SessionNamesAccount, [Next]_vars
  PROVE  Accounts' /\ SessionNamesAccount'
<1> USE DEF TypeOK, Accounts, SessionNamesAccount
<1>1. ASSUME users' = users,
             \A r \in Request : session'[r] \in {session[r], NoSession}
      PROVE  Accounts' /\ SessionNamesAccount'
  BY <1>1
<1>2. CASE UNCHANGED vars
  BY <1>1, <1>2 DEF vars
<1>3. CASE Tick \/ Restart \/ \E k \in Key : Rotate(k)
  BY <1>1, <1>3 DEF Tick, Restart, Rotate
<1>4. ASSUME NEW r \in Request, \/ \E t \in Sent : Arrive(r, t)
                                \/ \E d \in DemoUser : ArriveDemo(r, d)
      PROVE  Accounts' /\ SessionNamesAccount'
  BY <1>1, <1>4 DEF Arrive, ArriveDemo
<1>5. ASSUME NEW r \in Request,
             \/ FindKey(r) \/ BeginFetch(r) \/ Answer(r) \/ FetchFails(r)
             \/ Install(r) \/ Refused(r)
      PROVE  Accounts' /\ SessionNamesAccount'
  BY <1>1, <1>5 DEF FindKey, BeginFetch, Answer, FetchFails, Install, Refused,
                    Refuse
<1>6. ASSUME NEW r \in Request, Upsert(r)
      PROVE  Accounts' /\ SessionNamesAccount'
  <2> DEFINE e == token[r].email  u == token[r].sub
  <2>1. e \in Email /\ u \in Person
    BY <1>6, SentTokens DEF Upsert, Carried
  <2>2. CASE /\ UNCHANGED users
             /\ Refuse(r) \/ (users[e] # NoUser /\ Open(r, users[e]))
    BY <2>1, <2>2 DEF Refuse, Open
  <2>3. CASE /\ users[e] = NoUser /\ users' = [users EXCEPT ![e] = u]
             /\ Open(r, u)
    <3>1. /\ users'[e] = u /\ \A f \in Email : f # e => users'[f] = users[f]
          /\ session' = [session EXCEPT ![r] = [user |-> u, email |-> e]]
      BY <2>1, <2>3 DEF Open
    <3>2. Accounts'
      BY <2>1, <3>1
    <3>3. ASSUME NEW q \in Request, session'[q] # NoSession
          PROVE  users'[session'[q].email] = session'[q].user
      <4>1. CASE q = r
        BY <3>1, <4>1
      <4>2. CASE q # r
        <5>1. session'[q] = session[q] /\ session[q] \in Session
          BY <3>1, <3>3, <4>2
        <5>2. session[q].email \in Email /\ session[q].user # NoUser
          BY <5>1 DEF Session
        <5>3. session[q].email # e
          BY <2>3, <3>3, <5>1, <5>2
        <5> QED
          BY <3>1, <3>3, <5>1, <5>2, <5>3
      <4> QED
        BY <4>1, <4>2
    <3> QED
      BY <3>2, <3>3
  <2> QED
    BY <1>6, <2>2, <2>3 DEF Upsert
<1>7. ASSUME NEW r \in Request, DemoInsert(r)
      PROVE  Accounts' /\ SessionNamesAccount'
  <2> DEFINE e == token[r].email  u == token[r].sub
  <2>1. PICK d \in DemoUser : u = d /\ e = DemoEmail[d]
    BY <1>7 DEF DemoInsert, Carried
  <2>2. session' = session
    BY <1>7 DEF DemoInsert
  <2>3. CASE users' = users
    BY <1>1, <2>2, <2>3
  <2>4. CASE users[e] = NoUser /\ users' = [users EXCEPT ![e] = u]
    <3>1. users'[e] = u /\ \A f \in Email : f # e => users'[f] = users[f]
      BY <2>1, <2>4
    <3>2. Accounts'
      BY <2>1, <3>1
    <3>3. ASSUME NEW q \in Request, session[q] # NoSession
          PROVE  users'[session[q].email] = session[q].user
      <4>1. session[q].email \in Email /\ session[q].user # NoUser
        BY <3>3 DEF Session
      <4> QED
        BY <2>4, <3>1, <3>3, <4>1
    <3> QED
      BY <2>2, <3>2, <3>3
  <2> QED
    BY <1>7, <2>3, <2>4 DEF DemoInsert
<1>8. ASSUME NEW r \in Request, DemoSelect(r)
      PROVE  Accounts' /\ SessionNamesAccount'
  <2> DEFINE e == token[r].email  u == token[r].sub
  <2>1. PICK d \in DemoUser : u = d /\ e = DemoEmail[d]
    BY <1>8 DEF DemoSelect, Carried
  <2>2. users' = users
    BY <1>8 DEF DemoSelect
  <2>3. CASE Refuse(r)
    BY <1>1, <2>2, <2>3 DEF Refuse
  <2>4. CASE Taken(u) /\ Open(r, u)
    <3>1. users[e] = u
      BY <2>1, <2>4 DEF Taken
    <3> QED
      BY <2>1, <2>2, <2>4, <3>1 DEF Open
  <2> QED
    BY <1>8, <2>3, <2>4 DEF DemoSelect
<1> QED
  BY <1>2, <1>3, <1>4, <1>5, <1>6, <1>7, <1>8 DEF Next, Runs

(* A session names the account that has its address.                       *)
THEOREM SessionsName == Spec => []SessionNamesAccount
<1>1. Init => Accounts /\ SessionNamesAccount
  BY DEF Init, Accounts, SessionNamesAccount
<1> QED
  BY <1>1, TypesHold, AccountsKept, PTL DEF Spec
============================================================================
