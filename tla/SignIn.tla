------------------------------- MODULE SignIn -------------------------------
(***************************************************************************)
(* Signing in (cmd/api/auth.go) with the cache of Google's signing keys    *)
(* (cmd/api/firebase_verify.go).                                           *)
(*                                                                         *)
(* The cache is in the memory of one API process, under a mutex that is    *)
(* held while the keys are fetched. A fetch takes time: Google reads its   *)
(* keys at some moment in between, and the clock may go on. A token is its *)
(* key id, the Firebase account it names and the account's e-mail address; *)
(* the rest of what Verify looks at holds or does not (Refused).           *)
(***************************************************************************)
EXTENDS Integers

CONSTANTS
  Key,         \* key ids, of Google's keys of all times and of others
  Request,     \* goroutines serving POST /auth/firebase and /auth/demo
  Person,      \* Firebase accounts; also the user ids derived from them
  DemoUser,    \* the ids in demoAccounts
  Email,
  DemoEmail,   \* [DemoUser -> Email]
  Sent,        \* the tokens that are sent to POST /auth/firebase
  NoKey, NoUser, NoToken, NoSession, Nobody,
  MinRefresh,  \* minKeyRefresh, one minute, which is also the least keyTTL
  MaxTTL,      \* the greatest keyTTL, 24 h
  MaxAge,      \* the max-age values Google's answers may carry
  FetchTime,   \* the timeout of the HTTP client
  MaxTime,     \* bound of the clock
  Faults

ASSUME SignInAssumption ==
  /\ NoUser \notin Person \cup DemoUser
  /\ Nobody \notin Request
  /\ NoKey \notin Key
  /\ Person \cap DemoUser = {}
  /\ DemoEmail \in [DemoUser -> Email]
  /\ \A d, e \in DemoUser : DemoEmail[d] = DemoEmail[e] => d = e
  /\ MinRefresh \in Nat /\ MaxTTL \in Nat /\ FetchTime \in Nat
  /\ FetchTime < MinRefresh /\ MinRefresh <= MaxTTL
  /\ Sent \subseteq [kid : Key, sub : Person, email : Email]
  /\ MaxAge \subseteq Int /\ MaxTime \in Nat
  /\ Faults \subseteq {"fetch_error", "restart"}

User    == Person \cup DemoUser
Token   == [kid : Key \cup {NoKey}, sub : User, email : Email]
Session == [user : User, email : Email]

ASSUME NoTokenAssumption == NoToken \notin Token /\ NoSession \notin Session

VARIABLES
  now,        \* the clock
  life,       \* [Key -> ...] whether Google publishes a key (external)
  since,      \* [Key -> Nat] when that last changed
  keys,       \* FirebaseVerifier.keys; {} is nil, no empty set is installed
  fetchedAt, expiresAt,
  mu,         \* who holds the mutex
  pc,         \* [Request -> ...] where a request is
  token,      \* [Request -> ...] what it was sent
  asked,      \* [Request -> Nat] the `now` it read before its fetch
  answer,     \* [Request -> SUBSET Key] the keys in Google's answer
  users,      \* [Email -> ...] the users table: the id of an address
  session     \* [Request -> ...] the session it answered with

cache   == <<keys, fetchedAt, expiresAt>>
google  == <<life, since>>
vars    == <<now, google, cache, mu, pc, token, asked, answer, users, session>>

----------------------------------------------------------------------------
Ended == {"idle", "done", "unknown_key", "refused"}

TypeOK ==
  /\ now       \in Nat
  /\ life      \in [Key -> {"unborn", "published", "withdrawn"}]
  /\ since     \in [Key -> Nat]
  /\ keys      \subseteq Key
  /\ fetchedAt \in Nat /\ expiresAt \in Nat
  /\ mu        \in Request \cup {Nobody}
  /\ pc        \in [Request -> Ended \cup {"lock", "fetching", "answered",
                      "known", "demo", "demo_select"}]
  /\ token     \in [Request -> Token \cup {NoToken}]
  /\ asked     \in [Request -> Nat]
  /\ answer    \in [Request -> SUBSET Key]
  /\ users     \in [Email -> User \cup {NoUser}]
  /\ session   \in [Request -> Session \cup {NoSession}]

Init ==
  /\ now = 0
  /\ \E k \in Key :
       life = [j \in Key |-> IF j = k THEN "published" ELSE "unborn"]
  /\ since     = [k \in Key |-> 0]
  /\ keys      = {}
  /\ fetchedAt = 0 /\ expiresAt = 0
  /\ mu        = Nobody
  /\ pc        = [r \in Request |-> "idle"]
  /\ token     = [r \in Request |-> NoToken]
  /\ asked     = [r \in Request |-> 0]
  /\ answer    = [r \in Request |-> {}]
  /\ users     = [e \in Email |-> NoUser]
  /\ session   = [r \in Request |-> NoSession]

----------------------------------------------------------------------------
(* Time and Google (external).                                             *)

(* A fetch is over, one way or the other, when its client times out.       *)
Tick ==
  /\ now < MaxTime
  /\ \A r \in Request : pc[r] \in {"fetching", "answered"}
                          => now < asked[r] + FetchTime
  /\ now' = now + 1
  /\ UNCHANGED <<google, cache, mu, pc, token, asked, answer, users, session>>

Published == { k \in Key : life[k] = "published" }

(* A new key is published, or one of several is withdrawn for good.        *)
Rotate(k) ==
  /\ \/ /\ life[k] = "unborn"
        /\ life' = [life EXCEPT ![k] = "published"]
     \/ /\ life[k] = "published" /\ Published # {k}
        /\ life' = [life EXCEPT ![k] = "withdrawn"]
  /\ since' = [since EXCEPT ![k] = now]
  /\ UNCHANGED <<now, cache, mu, pc, token, asked, answer, users, session>>

----------------------------------------------------------------------------
(* FirebaseVerifier.key                                                    *)

Cached_Forever(k) == k \in keys

Cached(k) == k \in keys /\ now < expiresAt

MustRefresh_Later ==
  keys = {} \/ now >= expiresAt \/ now - fetchedAt > MinRefresh

MustRefresh ==
  keys = {} \/ now >= expiresAt \/ now - fetchedAt >= MinRefresh

(* max-age, bounded from below and above.                                  *)
KeyTTL(age) == IF age < MinRefresh THEN MinRefresh
               ELSE IF age > MaxTTL THEN MaxTTL ELSE age

(* A request goes on, or ends and forgets what it was sent.                *)
Proceed(r, where) ==
  /\ pc' = [pc EXCEPT ![r] = where]
  /\ token' = IF where \in Ended THEN [token EXCEPT ![r] = NoToken] ELSE token

(* A login with a token of any key id: a published one, one of a rotation  *)
(* long ago, one that is none of Google's.                                 *)
Arrive(r, t) ==
  /\ pc[r] \in Ended
  /\ pc'      = [pc EXCEPT ![r] = "lock"]
  /\ token'   = [token EXCEPT ![r] = t]
  /\ session' = [session EXCEPT ![r] = NoSession]
  /\ UNCHANGED <<now, google, cache, mu, asked, answer, users>>

(* The mutex is taken and given back at once.                              *)
FindKey(r) ==
  /\ pc[r] = "lock" /\ mu = Nobody
  /\ \/ Cached(token[r].kid) /\ Proceed(r, "known")
     \/ /\ ~Cached(token[r].kid) /\ ~MustRefresh
        /\ Proceed(r, "unknown_key")
  /\ UNCHANGED <<now, google, cache, mu, asked, answer, users, session>>

BeginFetch_Unlocked(r) ==
  /\ pc[r] = "lock"
  /\ ~Cached(token[r].kid) /\ MustRefresh
  /\ mu'    = r
  /\ asked' = [asked EXCEPT ![r] = now]
  /\ pc'    = [pc EXCEPT ![r] = "fetching"]
  /\ UNCHANGED <<now, google, cache, token, answer, users, session>>

(* The mutex is kept, and so is the time read before the fetch.            *)
BeginFetch(r) ==
  /\ pc[r] = "lock" /\ mu = Nobody
  /\ ~Cached(token[r].kid) /\ MustRefresh
  /\ mu'    = r
  /\ asked' = [asked EXCEPT ![r] = now]
  /\ pc'    = [pc EXCEPT ![r] = "fetching"]
  /\ UNCHANGED <<now, google, cache, token, answer, users, session>>

(* Google reads its keys for the answer (external).                        *)
Answer(r) ==
  /\ pc[r] = "fetching"
  /\ answer' = [answer EXCEPT ![r] = Published]
  /\ pc'     = [pc EXCEPT ![r] = "answered"]
  /\ UNCHANGED <<now, google, cache, mu, token, asked, users, session>>

Install_WhenAnswered(r) ==
  /\ pc[r] = "answered"
  /\ keys'      = answer[r]
  /\ fetchedAt' = now
  /\ \E age \in MaxAge : expiresAt' = now + KeyTTL(age)
  /\ mu' = Nobody
  /\ Proceed(r, IF token[r].kid \in answer[r] THEN "known" ELSE "unknown_key")
  /\ answer' = [answer EXCEPT ![r] = {}]
  /\ asked'  = [asked EXCEPT ![r] = 0]
  /\ UNCHANGED <<now, google, users, session>>

(* refreshLocked replaces the whole set, dated before the fetch.           *)
Install(r) ==
  /\ pc[r] = "answered"
  /\ keys'      = answer[r]
  /\ fetchedAt' = asked[r]
  /\ \E age \in MaxAge : expiresAt' = asked[r] + KeyTTL(age)
  /\ mu' = Nobody
  /\ Proceed(r, IF token[r].kid \in answer[r] THEN "known" ELSE "unknown_key")
  /\ answer' = [answer EXCEPT ![r] = {}]
  /\ asked'  = [asked EXCEPT ![r] = 0]
  /\ UNCHANGED <<now, google, users, session>>

FetchFails_ServesOld(r) ==
  /\ "fetch_error" \in Faults
  /\ pc[r] = "fetching"
  /\ mu' = Nobody
  /\ Proceed(r, IF token[r].kid \in keys THEN "known" ELSE "refused")
  /\ asked' = [asked EXCEPT ![r] = 0]
  /\ UNCHANGED <<now, google, cache, answer, users, session>>

FetchFails_KeepsLock(r) ==
  /\ "fetch_error" \in Faults
  /\ pc[r] = "fetching"
  /\ Proceed(r, "refused")
  /\ UNCHANGED <<now, google, cache, mu, asked, answer, users, session>>

(* The request fails, times out, or its answer is of no use; so does a     *)
(* login whose client has gone. The cache stays as it was, fetchedAt too.  *)
(* The fallback to a cached key in line 190 is never taken: a key that is  *)
(* cached and valid at this `now` was returned before the fetch.           *)
FetchFails(r) ==
  /\ "fetch_error" \in Faults
  /\ pc[r] = "fetching"
  /\ mu'    = Nobody
  /\ asked' = [asked EXCEPT ![r] = 0]
  /\ Proceed(r, "refused")
  /\ UNCHANGED <<now, google, cache, answer, users, session>>

(* The process starts anew, with an empty cache.                           *)
Restart ==
  /\ "restart" \in Faults
  /\ keys' = {} /\ fetchedAt' = 0 /\ expiresAt' = 0
  /\ mu'      = Nobody
  /\ pc'      = [r \in Request |-> "idle"]
  /\ token'   = [r \in Request |-> NoToken]
  /\ asked'   = [r \in Request |-> 0]
  /\ answer'  = [r \in Request |-> {}]
  /\ session' = [r \in Request |-> NoSession]
  /\ UNCHANGED <<now, google, users>>

----------------------------------------------------------------------------
(* HandleFirebaseAuth and HandleDemoAuth                                   *)

Taken(user) == \E e \in Email : users[e] = user

(* GenerateJWT, and the answer.                                            *)
Open(r, user) ==
  /\ session' = [session EXCEPT ![r] = [user |-> user,
                                        email |-> token[r].email]]
  /\ Proceed(r, "done")

Refuse(r) ==
  /\ Proceed(r, "refused")
  /\ UNCHANGED session

(* The signature is not the key's, checkClaims finds a fault, or the       *)
(* address is not a verified one.                                          *)
Refused(r) ==
  /\ pc[r] = "known"
  /\ Refuse(r)
  /\ UNCHANGED <<now, google, cache, mu, asked, answer, users>>

Upsert_OwnId(r) ==
  LET e == token[r].email  u == token[r].sub IN
  /\ pc[r] = "known"
  /\ \/ users[e] # NoUser /\ Open(r, u) /\ UNCHANGED users
     \/ users[e] = NoUser /\ Taken(u) /\ Refuse(r) /\ UNCHANGED users
     \/ /\ users[e] = NoUser /\ ~Taken(u)
        /\ users' = [users EXCEPT ![e] = u]
        /\ Open(r, u)
  /\ UNCHANGED <<now, google, cache, mu, asked, answer>>

(* ON CONFLICT (email) gives the id that is there, whoever made it. A      *)
(* conflict on the id alone, of a person whose address has changed, is an  *)
(* error.                                                                  *)
Upsert(r) ==
  LET e == token[r].email  u == token[r].sub IN
  /\ pc[r] = "known"
  /\ \/ users[e] # NoUser /\ Open(r, users[e]) /\ UNCHANGED users
     \/ users[e] = NoUser /\ Taken(u) /\ Refuse(r) /\ UNCHANGED users
     \/ /\ users[e] = NoUser /\ ~Taken(u)
        /\ users' = [users EXCEPT ![e] = u]
        /\ Open(r, u)
  /\ UNCHANGED <<now, google, cache, mu, asked, answer>>

ArriveDemo(r, d) ==
  /\ pc[r] \in Ended
  /\ pc'      = [pc EXCEPT ![r] = "demo"]
  /\ token'   = [token EXCEPT ![r] = [kid |-> NoKey, sub |-> d,
                                      email |-> DemoEmail[d]]]
  /\ session' = [session EXCEPT ![r] = NoSession]
  /\ UNCHANGED <<now, google, cache, mu, asked, answer, users>>

(* EnsureDemoUser: ON CONFLICT DO NOTHING, of the address or the id, ...   *)
DemoInsert(r) ==
  LET e == token[r].email  u == token[r].sub IN
  /\ pc[r] = "demo"
  /\ users' = IF users[e] # NoUser \/ Taken(u) THEN users
              ELSE [users EXCEPT ![e] = u]
  /\ pc' = [pc EXCEPT ![r] = "demo_select"]
  /\ UNCHANGED <<now, google, cache, mu, token, asked, answer, session>>

DemoSelect_Trusts(r) ==
  /\ pc[r] = "demo_select"
  /\ Open(r, token[r].sub)
  /\ UNCHANGED <<now, google, cache, mu, asked, answer, users>>

(* ... and then the row must be there under the demo account's id.         *)
DemoSelect(r) ==
  /\ pc[r] = "demo_select"
  /\ \/ Taken(token[r].sub) /\ Open(r, token[r].sub)
     \/ ~Taken(token[r].sub) /\ Refuse(r)
  /\ UNCHANGED <<now, google, cache, mu, asked, answer, users>>

----------------------------------------------------------------------------
(* What a request does once it has left the mutex's queue.                 *)
Runs(r) == \/ Answer(r) \/ FetchFails(r) \/ Install(r) \/ Refused(r)
           \/ Upsert(r) \/ DemoInsert(r) \/ DemoSelect(r)

Next ==
  \/ Tick \/ Restart
  \/ \E k \in Key : Rotate(k)
  \/ \E r \in Request :
       \/ \E t \in Sent : Arrive(r, t)
       \/ \E d \in DemoUser : ArriveDemo(r, d)
       \/ FindKey(r) \/ BeginFetch(r) \/ Runs(r)

Spec == Init /\ [][Next]_vars

(* A goroutine that can run does, a fetch ends by the client's timeout at  *)
(* the latest, and sync.Mutex lets no waiter starve.                       *)
SignInFairness ==
  \A r \in Request : SF_vars(FindKey(r) \/ BeginFetch(r)) /\ WF_vars(Runs(r))

FairSpec == Spec /\ SignInFairness

----------------------------------------------------------------------------
(* Properties.                                                             *)

Becomes(r, where) == pc[r] # where /\ pc'[r] = where

(* Cached keys go out of use: a token is accepted only on a key that       *)
(* Google still publishes, or withdrew less than the longest keyTTL ago.   *)
(* The key may be withdrawn during the fetch, or long before it expires    *)
(* here.                                                                   *)
WithdrawnKeyDropped ==
  [][\A r \in Request :
       Becomes(r, "known") =>
         \/ life[token[r].kid] = "published"
         \/ /\ life[token[r].kid] = "withdrawn"
            /\ now < since[token[r].kid] + MaxTTL]_vars

(* A rotation is followed within minKeyRefresh: the key of a token is      *)
(* called unknown only if Google does not publish it or has done so for    *)
(* less than that, wherever in a fetch the new key came up.                *)
RotationFollowed ==
  [][\A r \in Request :
       Becomes(r, "unknown_key") =>
         \/ life[token[r].kid] # "published"
         \/ now < since[token[r].kid] + MinRefresh]_vars

(* However many logins find the cache empty, expired or without their key, *)
(* one of them fetches, and none within minKeyRefresh of the time at which *)
(* a fetch was begun that succeeded.                                       *)
FetchesSpaced ==
  [][\A r \in Request :
       Becomes(r, "fetching") =>
         /\ \A q \in Request : pc[q] \notin {"fetching", "answered"}
         /\ keys # {} => now >= fetchedAt + MinRefresh]_vars

(* A session names the account that has the address it was opened for,     *)
(* also when two accounts of one address, or a demo account and a person   *)
(* with its address, sign in at the same time.                             *)
SessionNamesAccount ==
  \A r \in Request :
    session[r] # NoSession => users[session[r].email] = session[r].user

(* Every login is answered: nobody keeps the mutex.                        *)
LoginAnswered ==
  \A r \in Request : pc[r] = "lock" ~> pc[r] \in Ended
============================================================================
