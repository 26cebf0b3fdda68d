# CineFund in TLA+

CineFund is a crowdfunding platform for films: a Go API that takes pledges
through a payment provider, a dispatcher that publishes what the services
recorded, and a media pipeline that turns uploaded videos into HLS streams.
This directory holds TLA+ modules of the parts in which state, concurrency and
failures meet, TLC configurations that check them on small instances, and
theorems about them whose proofs TLAPS checks.

`PROJECT.json` is the index: components, runs, the lines of source each
definition stands for, the mutants that show what each property is sensitive
to, the hazards, the findings and the theorems.

Contents: [the system](#1-the-system) · [modules](#2-modules-and-the-code) ·
[runs](#3-what-the-runs-check) · [fairness](#4-fairness) ·
[proofs](#5-what-is-proved) · [findings](#6-where-code-and-documents-part) ·
[left out](#7-what-is-not-modelled) · [plan](#8-plan) · [usage](#9-usage)

## 1. The system

```
 browser ──POST pledges──► pledge service ──order──► payment provider
    │  └──POST confirm──►     │   ▲  └──────────webhooks (again and again)
    │                         │   └─ Redis: SETNX of event keys, 24 h
    │                    Postgres: pledges, campaigns, reward_tiers,
    │                              ledger, payment_events, outbox
    ├──presign, PUT, complete──► media intake ──► media_assets, outbox
    │                                   ▲            │
    │                            consumer ◄─ Kafka ◄─┴─ outbox dispatcher
    │                                   └──► transcode_jobs
    │                                             │ lease, heartbeat
    └──GET master/variant ──► playback       transcode workers ──► object store
```

Everything that lasts is in Postgres, Redis, Kafka and the object store; the
processes keep only what they have just read. What is hard is therefore what
happens between two of their operations.

| component | state | operations | what is hard | what makes it right |
|---|---|---|---|---|
| Pledge service (`internal/pledge`) | `pledges`, `campaigns.raised_amount` and `backer_count`, `reward_tiers.claimed_count`, ledger, `payment_events`, Redis keys, outbox | create a pledge, confirm a checkout, handle a webhook | the webhook and the checkout callback report one payment at the same time; events come late, twice, in any order; the check of tier and campaign is stale when the payment comes; Redis, Postgres and the provider fail one without the others | money is decided once, totals and slots are those of the captured pledges, ledger and outbox agree with the row, a captured payment is booked in the end |
| Outbox dispatcher (`internal/outbox`) | `outbox.published_at` | claim, produce, mark | two dispatchers, rows that become visible out of the order of their ids, a crash between produce and mark | nothing uncommitted is sent, everything committed is sent, a marked row was sent |
| Media intake (`media/handler.go`, `upload.go`, `consumer.go`) | `media_assets.status`, consumer offsets | presign, complete, consume `media.uploaded` | a job is made on two roads, the record and the request; each may die, and records come again | every confirmed upload gets one job; a repetition changes nothing |
| Transcode jobs (`media/repo.go`, `transcode/worker.go`) | `transcode_jobs`, rendition objects | claim with a lease, heartbeat, encode, upload, succeed/fail/reject | a worker that stalls past its lease and wakes up, overlapping attempts on the same keys, shutdown, lost answers | the latest attempt decides, once; READY means playable; no job stays RUNNING |
| Transcode algorithms (`probe.go`, `ladder.go`, `master.go`) | none | probe, validate, ladder, playlists | rotation signs, rounding, a fallback that must not be reached | nothing is scaled up or distorted |
| Playback (`media/playback.go`) | none | master and variant playlists | row and playlist are read in two calls while workers write | what is offered can be played |
| Campaigns (`internal/campaign`) | `campaigns`, `reward_tiers` | create, add a tier, go live | closing while checkouts are open | in the pledge service's model |
| Authentication (`cmd/api/auth.go`, `firebase_verify.go`) | a cache of Google's signing keys in each process, `users` | sign in with Firebase, sign in as a demo account | keys rotate while they are fetched and cached; fetches fail; all logins wait for one mutex; two sign-ins meet at one address | a withdrawn key goes out of use, a new one is found, Google is not asked too often, a session is that of the account with its address |
| Migrations runner (`cmd/migrate`) | `schema_migrations`, the schema | up, down | several runs at once without a lock, commits whose answer is lost | the table tells what is there; an up that reports success has done everything; of racing ups one gets to the end |

The components meet in four places: the outbox rows that the pledge service and
the media services write in their transactions and the dispatcher reads; the
`media.uploaded` records it produces and the consumer reads; the job row that
intake makes and the workers claim; and the rendition keys and the asset row
that the workers write and playback reads. The hazards of all of them are
listed in `PROJECT.json`, each at its line.

## 2. Modules and the code

A step is what the code makes atomic: one transaction, one Redis command, one
call to the provider, the object store or Kafka. Between two steps anything
else may run and the process may die. A transaction may be one step because it
takes its row locks before it reads what it decides on; where that is not so,
the model says so (see `unseen` and the dispatcher's claim). `PledgeTx` looks
inside the transactions of pledges, which is where it would matter most.

`Faults` is a constant of every module with failures: the set of those that may
happen. Runs and theorems say which they assume. A definition
`Name_Something` beside `Name` is a faulty variant, of the kind a careless
change would make; none takes part in a specification. Putting one in the place
of `Name` must break the property that `PROJECT.json` pairs it with.

**Pledge service.** `PledgeService` has one variable per column that matters
(`status`, `paidBy`, `ledger`, `outbox`, `raised`, `backers`, `claimed`,
`recorded`), the Redis `keys`, what the provider knows (`charged`, `acked`), and
where each goroutine is (`request`, `step`, `delivery`, `fetched`).

| code | actions |
|---|---|
| `Service.CreatePledge` | `RefusePledge`, `InsertPledge`, `CreateOrder`, `AttachOrder`, `CreateDies` |
| `Service.HandleWebhook`, `Handler.Webhook` | `Receive` (SETNX), `RejectDuplicate`, `Process` (the transaction, with `Apply`), `RollBack`, `Release` (DEL), `Crash` |
| `applyCapture`, `holdForRefund`, `applyFailure`, `Ledger` | `ApplyCapture`, `CountCapture`, `HoldForRefund`, `ApplyFailure`, `RecordCapture` |
| `Service.ConfirmPayment` | `ConfirmFetch`, `ConfirmApply`, `ConfirmFails` |
| campaign `SetLive`, the passing of the deadline | `SetLive`, `DeadlineNears` |
| the provider (external) | `Pay`, `Receive` of any event it emitted, again and again |
| Redis losing a key | `LoseKey` |

One read is not protected by a lock: the `EXISTS` in `IncrementCampaignRaised`
(repo.go:124) that tells a new backer from a known one sees the snapshot of its
statement, which may be older than a capture that committed while the statement
waited for the campaign's row. `unseen[p]` holds the captures that a
transaction for `p` under way may miss: those that commit after it began
(`Begin`, `UnderWay`), unless both lock the same tier, which orders them
(`Overtakes`). `PledgeOutcome` is the abstract specification: each pledge is
counted or owed back, once; with that decision and nothing else the campaign's
total moves and a slot of the tier that is still free is claimed. `PledgeService` implements it (`DecidesOnce`), with
`Fate` computed from `status` and `total` being `raised`.

**Pledge transactions.** `PledgeTx` has the same transactions statement by
statement: `CreatePledge` locks the campaign and then the tier
(`LockCampaign`, `LockTier`, `Insert`); a webhook inserts its event, whose
foreign key shares the pledge's row, and takes that row, the tier, the
campaign and the ledger's accounts (`InsertEvent`, `LockPledge`, `CheckTier`,
`TakeSnapshot`, `Raise`, `TakeAccounts`, `CommitCount` or `CommitHold`); a
confirmation does the same without the event. `lock` and `share` are Postgres's
row locks, `Blockers` who must end first, `BreakDeadlock` its deadlock detector.
Columns change at the commit, and what the UPDATE of the campaign computed or
saw is kept in `total` and `seen` until then. It implements `PledgeOutcome` too.

**Outbox.** `OutboxDispatcher` has the `outbox` table as rows 1..`MaxRow` that
are inserted (`open`), committed or undone in any order of their transactions,
and any number of dispatchers. `StartClaim`/`EndClaim` are the
`SELECT … FOR UPDATE SKIP LOCKED` and its end; `tick` then produces and marks row
by row (`ProduceOk`, `ProduceFails`, `MarkPublished`) without any lock.
`AtLeastOnce` is the abstract specification: `DeliversAll` is its fair
specification, `Delivers` the part without fairness.

**Media intake.** `MediaIntake` has the asset row, the job row, the outbox rows
not yet sent, the topic as a count of records per asset, and the consumer's four
positions (returned, handled, returned earlier, committed), since the client
library commits by itself what earlier polls returned. `dropped` remembers of
which assets the loop passed a record over before they had a job. `Complete`,
`MarkUploaded`, `EnqueueDirectly` are the request; `Poll`, `HandleUploaded`,
`CommitRecord`, `AutoCommit`, `Restart` the consumer. The dispatcher and the
workers are there as what their own modules show of them: a committed row is
produced, perhaps twice (`AtLeastOnce`), and a job is decided
(`JobVerdict`, `EveryJobDecided`).

**Transcode jobs.** `TranscodeJob` has the job row with its lease and attempt,
the asset, the outbox, the stored files, and each worker's memory: the job it
thinks it has, the attempt it claimed, where `runJob` is, what it returned.
`Claim`, `Heartbeat`, `Probe`, `Encode`, `UploadRung`, `UploadMaster`,
`Succeed`, `Report` (with `Fail` and `Reject`), `Shutdown`, `Crash`. Time is
`LeaseExpires`: a lease may run out while its worker still works, which is what
a stall is. `JobVerdict` is the abstract specification: a job is decided once, in
one step with its asset, and READY or REJECTED only as validation found its
source. `TranscodeJob` implements it (`DecidedForGood`) unless the answer to a
commit is lost.

**Streams.** `StreamPlan` holds the pure part: rotation, probe, validation, the
ladder, sizes, the master playlist, written as functions of what ffprobe
prints (`Output`). `LadderFor` keeps the rungs that fit, which are the last ones
of a ladder that falls; the stable sort of `BuildMasterPlaylist` puts a rung where
the number of rungs before it says (`Before`, `Sorted`). The code computes a width
as `int(float64(height) * w / h) &^ 1`; the product is exact, and a quotient that
is no integer is at least 1/h away from one, so that rounding down gives what
`Width` says. `Streaming` composes it with the workers' uploads, now file by file and
in the order of `uploadDir`, and with a player whose requests take two steps
each (`AskMaster`/`ServeMaster`, `AskVariant`/`ServeVariant`). It repeats of
`TranscodeJob` only what a player can notice: attempts overlap, the last one
claimed gives the verdict.

**Signing in.** `SignIn` has a clock, Google's keys with the time each was
published or withdrawn, the cache (`keys`, `fetchedAt`, `expiresAt`) with its
mutex `mu`, the logins, and the `users` table as a function from addresses to
ids. `FindKey`, `BeginFetch`, `Answer`, `Install`, `FetchFails` are
`FirebaseVerifier.key` and `refreshLocked`; `Answer` is the moment at which
Google reads its keys, between the start of a fetch, by which the cache is
dated, and its end. `Upsert` is `HandleFirebaseAuth`, `DemoInsert` and
`DemoSelect` are the two statements of `EnsureDemoUser`.

**Migrations.** `Migrator` has `schema_migrations` (`table`, `recorded`), the
SQL that is in effect (`built`), and any number of runs. A migration is known by
how its SQL stands to the others': which tables it needs, whether it may run
twice, whether it changes a table instead of making one. `FindTable`,
`CreateTable`, `ReadApplied`, `Apply`, `Conflict` are `up`, `ReadLatest` and
`Revert` are `down`, `Fail` and `CommitUnknown` what may go wrong in both.

`MC*` modules give the constants their values for TLC; `*_proofs` hold the
proofs.

## 3. What the runs check

| run | properties | what it shows |
|---|---|---|
| `pledge_race` | `TotalsAreCaptured` `BooksMatchStatus` `RefundHasReason` `BookedMoneyWasTaken` | two backers race for the last slot of a tier with two webhook goroutines, both callbacks and all eight kinds of failure; the creator's own pledge is refused |
| `pledge_twice` | `BackersBounded` `PaidIsBooked` | one backer pays two pledges at once, two webhook goroutines; a captured payment is booked in the end, unless a redelivery overlapped a delivery that rolled back |
| `pledge_retry` | `RecordedIsApplied` `StatusFollowsTable` `CaptureIsFinal` `DecidesOnce` | three attempts at one payment, of right and wrong amounts, with and without notes, events in any order and number |
| `pledge_lost_event` | `AckedIsRecorded` — violated | finding 1 |
| `pledge_outage` | `OutageRecovers` — violated | finding 2 |
| `outbox_dispatch` | `MarkedIsProduced` `DeliversAll` `BacklogDrains` | two dispatchers, three rows, one of them refused by Kafka for good, all failures |
| `transcode_lease` | `VerdictsAgree` `ReadyIsPlayable` `AttemptsBounded` `DecidedForGood` `LatestAttemptDecides` `StolenWritesNothing` `EveryJobDecided` | two workers take two jobs from each other; one source is to be rejected |
| `intake_delivery` | `UploadTracked` `RedeliveryIsHarmless` `EveryUploadQueued` | two assets, two requests that may die, records that repeat or are passed over, consumers that die |
| `stream_plays` | `NothingBroken` `SignedIsStored` `NothingUpscaled` `RotationKept` | 94 sources, each with two overlapping attempts and a player |
| `pledge_locks` | `TierNotOversold` `BackersBounded` `DeadlocksAreKnown` `DecidesOnce` `CaptureLands` | three pledges, two of them for one slot, and five webhooks and confirmations, statement by statement with locks, deadlocks and rollbacks |
| `sign_in` | `SessionNamesAccount` `WithdrawnKeyDropped` `RotationFollowed` `FetchesSpaced` `LoginAnswered` | two logins at a time, and again, with keys that rotate, fetches that fail and a process that restarts |
| `migrate` | `RecordedIsBuilt` `UpMeansUp` `RaceIsWon` | three runs of up and down at a time, and again, with SQL errors, deaths and lost commits |

The type invariant of every module is proved (section 5), so no
run repeats it; to check it, name `TypeOK` in a `.cfg`.

**Bounds, and why they are enough.**

- *Pledges.* Two pledges are the fewest that race for a slot, and two of one
  backer the fewest that can be counted as one backer or as two; a third is the
  creator's own, which must be refused. Three payments of one order are a
  failed, a wrong and a right one. A second webhook goroutine is needed for two
  events at the same time, and for a redelivery of an event while the first
  delivery is under way; a third adds no interleaving of one event with
  another. Amounts are 1 and 2, fees 1: what is told apart is right and wrong,
  and which pledge. For the safety properties the theorems remove these bounds.
- *Outbox.* With three rows and batches of two a claim can leave a row out, and
  a row with a lower id can become visible after a higher one was claimed.
  `MaxCopies` = 1: nothing depends on how often a row is on the topic, only on
  whether it is.
- *Transcoding.* `MaxAttempts` = 2 has a retry and a last attempt; three failures
  in a behaviour allow a stall during each attempt and one more. Two rungs tell
  "all" from "one".
- *Intake.* Two records of one asset are a record and its repetition; two assets
  have polls that return one and not the other. The two requests are about one
  asset or about two (`Owned`). Two verdicts tell one that stays from one that
  changes.
- *Streams.* Ten picture sizes in eight turns (in the display matrix, the tag
  or both; negative and beyond a full turn), at and around each limit, and each
  other reason to reject. `MaxSegments` = 2 tells the first segment from the last.

- *Pledge transactions.* One slot and two backers race for it; one of them has a
  pledge without a tier, so that the sub-select can miss it. One pledge has two
  webhooks and another a webhook and a confirmation, which are the two ways to
  meet at a row. `MaxRollbacks` = 2 beside the deadlocks.
- *Signing in.* Two keys, two logins, one person whose address becomes the demo
  account's. A tick is half of `minKeyRefresh`, `MaxTTL` one and a half of it:
  the cache can expire, be too young to be refreshed, and be neither. Three ticks
  let a key be withdrawn while it is cached and the cache run out afterwards.
  Google's `max-age` is too small or too great, which `keyTTL` puts in its
  bounds.
- *Migrations.* Four migrations, one of each kind that the repository has. Three
  runs are one more than a race needs, so that two may lose; a run that has ended
  may be started again.

A deadlock is expected (`CHECK_DEADLOCK FALSE`) only where every job, upload, attempt or
transaction comes to its end, or where the clock stops (`MaxTime`).

## 4. Fairness

Only what the code or its surroundings do without being asked is fair; no
failure and no user is.

- *Pledges* (`WebhookFairness`). `SF Redeliver(e)`: the provider delivers an event
  until it is answered 2xx. `SF Process(h)`: a transaction that is tried again
  and again does not fail every time. `WF RejectDuplicate`, `WF Release`: a
  running goroutine goes on. `PaidIsBooked` is checked without `crash` and
  `del_error`: with either it is false. It is false without them too when a
  redelivery is answered 200 while the first delivery holds the key and then
  rolls back; that case it excepts (`LostToOverlap`), and shows that no other
  rollback, lost key or lost commit loses a payment. All three are finding 1.
- *Outbox* (`DispatchFairness`). `WF` of a service's end of transaction and of the
  dispatcher's next statement; `SF` of a produce, a mark, a refusal and a claim,
  as a tick is repeated for ever and failures do not last for ever.
- *Transcoding* (`FairSpec`). `WF Works(w)`: a worker that is up takes its next
  step. `WF LeaseExpires(j)`: time passes. `MaxFaults` ends the failures and at
  least one worker stays up (`AnotherIsUp`), as a deployment restarts its
  workers. Without that bound a job whose worker dies each time is claimed for
  ever; the claim compares no attempts (repo.go:29).
- *Intake* (`IntakeFairness`). The dispatcher produces what is committed
  (`OutboxDispatcher`), a job gets its verdict (`TranscodeJob`), the consumer
  polls and commits; `SF` of a poll that reaches the asset and of its handling,
  as a consumer that restarts does not do so at the same place each time.
  Nothing is asked of requests.
- *Pledge transactions* (`TxFairness`). `WF Runs(x)`: a transaction that can go on
  does, and the provider and the web client repeat a call that was not answered;
  `WF BreakDeadlock(x)`: the detector runs. `CaptureLands` supposes that deadlocks
  come to an end: two webhooks of one pledge that were repeated at the same
  moments for ever could abort each other for ever. The provider's delays make
  that unlikely; nothing in the code prevents it.
- *Signing in* (`SignInFairness`). `SF` of taking the mutex, as Go's `sync.Mutex`
  lets no waiter starve; `WF` of a login's next step, as a goroutine that runs
  goes on and a fetch ends by its timeout.
- *Streams* and *migrations*: safety only. An up that fails is run again by people.

## 5. What is proved

For every number of pledges, tiers, campaigns, handlers, rows, dispatchers,
workers, jobs, rungs, sources, assets, requests, calls, keys, logins and
migrations, under the assumptions on constants named in each module (disjoint null
values, positive amounts, a finite set of pledges, sources of the kind ffprobe
prints), which TLC evaluates in every run.

| module | theorem | states |
|---|---|---|
| `PledgeService_proofs` | `TypeCorrect`, `BooksCorrect`, `CaptureFinal`, `TableFollowed`, `BookedIsTaken`, `RecordedApplied` | `TypeOK`, `BooksMatchStatus`, `CaptureIsFinal`, `StatusFollowsTable`, `BookedMoneyWasTaken`, `RecordedIsApplied` |
| | `ImplementsOutcome` | the refinement of `PledgeOutcome` |
| | `RaisedCorrect`, `ClaimedCorrect`, `NeverOversold` | the parts of `TotalsAreCaptured` |
| | `TotalsCorrect`, `RefundsHaveReasons`, `BackersCorrect` | `TotalsAreCaptured`, `RefundHasReason`, `BackersBounded` |
| `OutboxDispatcher_proofs` | `DispatcherTypes`, `MarkedProduced`, `ImplementsDelivery` | `TypeOK`, `MarkedIsProduced`, the refinement of `AtLeastOnce` |
| `TranscodeJob_proofs` | `JobTypes`, `Playable`, `LatestDecides`, `StolenIsSilent`, `RetryBudget` | `TypeOK`, `ReadyIsPlayable`, `LatestAttemptDecides`, `StolenWritesNothing`, `AttemptsBounded` |
| | `OneVerdict`, `ImplementsVerdict` | `VerdictsAgree` and the refinement of `JobVerdict`, if `"commit_unknown" \notin Faults` |
| `MediaIntake_proofs` | `IntakeTypes`, `OnlyVerified`, `NeverForgotten`, `RedeliveryHarmless` | `TypeOK`, `VerifiedBeforeQueued`, `UploadTracked`, `RedeliveryIsHarmless` |
| `Streaming_proofs` | `StreamTypes`, `ReadyPlays`, `SignedStored` | `TypeOK`, `NothingBroken`, `SignedIsStored` |
| | `NeverUpscaled`, `TurnedRight` | `NothingUpscaled`, `RotationKept`, for pictures of any size and any angle |
| `PledgeTx_proofs` | `TxTypes`, `SlotsHold`, `CirclesKnown`, `BackersHold` | `TypeOK`, `TierNotOversold`, `DeadlocksAreKnown`, `BackersBounded` |
| | `TxDecideOnce` | the refinement of `PledgeOutcome` |
| `SignIn_proofs` | `SignInTypes`, `OldKeysDropped`, `NewKeysFound`, `FetchesApart`, `SessionsName` | `TypeOK`, `WithdrawnKeyDropped`, `RotationFollowed`, `FetchesSpaced`, `SessionNamesAccount` |
| `Migrator_proofs` | `MigratorTypes`, `RecordedTruth`, `UpIsUp`, `RaceWon` | `TypeOK`, `RecordedIsBuilt`, `UpMeansUp`, `RaceIsWon` |

**The arguments.**

*Pledges.* No property is inductive by itself: that `Apply` finds a row that may
be captured depends on which events exist at all. `Support` is the
strengthening: rows exist only for requests that inserted them, a payment was
made only for an order the backer was given, an event that is recorded or being
served was emitted by the provider, and a payment that `ConfirmPayment`
has fetched was captured. Then every step that touches the books is a
`BooksStep`: one pledge is captured, held for refund or failed, by the code's
operators and for a payment that was taken, or nothing changes
(`NextIsBooksStep`). All properties of the books are then shown for a
`BooksStep`, not action by action. The sum of the captured pledges is a
cardinality (`Paise`, one element for each paisa), so that it grows with one
more pledge by the cardinality of a disjoint set, with no recursion.
`BackersBounded` needs that what is captured stays captured (`CountedBackers`): a
capture that adds no backer saw one of this backer's, and each capture adds one
at most.

*Outbox.* A row that is committed stays committed (`CommittedGrows`); a batch
has only committed rows and a row in "marking" was produced (`Support`). So a
stale batch, of a dispatcher that lost a race, is harmless: it sends a copy.

*Transcoding.* `Fencing`: a worker that owns the job in its memory is its latest
claimant, and until it reports, the job is RUNNING and it has not found it
stolen; so `tried` is the row's attempt when it reports, and only the last attempt
or a stopped worker fails a job (`Exhausted`). `Uploads`: in each attempt, what is still to be uploaded together with
what is stored is every rung. `Answered`: a worker that is about to report an
error or a rejection of a job it owns has not decided it, if no commit's answer
is lost. `Concluded` and `Budget`: an undecided job that no live, unstopped
worker holds under a valid lease has an attempt to spare, paid for by a failure
if it is beyond `MaxAttempts`. `Suited`: what a worker is about to write fits the
source it probed, which with `Answered` and `Fencing` makes each of its
transactions a step of `JobVerdict` or a stutter.

*Streams.* Of the pure part the proofs need that the ladder falls, in height and in
bandwidth: then what `LadderFor` keeps fits and the sort finds it sorted
(`LadderShape`, `SortKeeps`), and the rest is arithmetic (`WidthFits`). Validation
is used for the heights below 360, without which the fallback to 240p would scale
up (`AcceptedIs`). Go's remainder keeps its argument's sign; with 360 added to a
negative one it is the angle within one turn, of which the quarter turns stay
(`RemainderFits`, `NormalisedTurn`). `Support`: an attempt has stored everything before the file it is
at (`Uploaded`), so that the master playlist comes after all files; a READY row was
written after it, and as an accepted source is never rejected and nothing is
deleted, it stays true whatever other attempts do. A request that saw READY
therefore finds what it asks for, however late it looks.

*Intake.* `Evidence`: an UPLOADED asset has a row still to be sent or a record on
the topic, and rows, records and jobs exist only for a file that was there.
`PassedHasJob`: the consumer passes a record only when its asset has a job, or by
a failure that `dropped` remembers. The
group's offset is never beyond what the consumer has passed, so an asset without
a job has its record behind the offset.

*Pledge transactions.* `HasRows`: the statement a capture is at tells which rows
it has, and what it read of them still holds (`Untouched`, `OthersStay`);
`Placed` is the other direction, from a row to where its holder is. Captures take
pledge, tier, campaign and accounts in this order, so one that has its pledge's
row waits only for others that are further on (`FurtherOn`), and the last of
these for none: a circle has only captures that share a pledge's row. No
finiteness is needed. `Snapshots`: all that a sub-select saw stays captured, and of
the pledges on the transaction's own tier, whose row it has, it saw all; hence
`backer_count` is never too low and no backer is counted twice on one tier
(`BackersHold`, the one theorem here that needs a finite set of pledges).

*Signing in.* `Dated`: what a set of keys, cached or on its way, says about each
of Google's keys is true as of the time it is dated, which is why the code dates
it before the fetch. With `expiresAt` at most `MaxTTL` after that and a fetch
over in `FetchTime`, both rotations follow. `Exclusive` ties the mutex to the one
login that fetches; `Accounts` keeps an address's account.

*Migrations.* `RecordedIsBuilt` is nearly inductive: a transaction changes both
sides. `Race` is not: as long as nothing but ups ran and nothing failed, what is
recorded is closed downward, and some run `Leads`: what it will apply next is the
first that is missing.

**Checked by TLC only.** Liveness: `PaidIsBooked`, `CaptureLands`, `BacklogDrains`,
`EveryJobDecided`, `EveryUploadQueued`, `LoginAnswered`, and of `DeliversAll` what
goes beyond `Delivers`. The proof system does not reach it under fairness. Every
safety property of a passing run is a theorem.

## 6. Where code and documents part

1. **A lost event** (`pledge_lost_event`, service.go:250). The Redis key is set
   before the transaction and taken back by the goroutine alone. If that dies,
   or its DEL fails, the redelivery is answered 200 for 24 hours although
   `payment_events` does not have the event; the architecture document calls
   that the worst bug possible. It takes no crash: a redelivery that comes while
   the first delivery holds the key is answered 200 as well, and when that one
   rolls back and takes the key back, nobody delivers the event again.
   `ConfirmPayment` may still book the payment.
2. **An outage that does not end** (`pledge_outage`, repo.go:53). When the order
   cannot be created the row keeps `provider_order_id = ''`. The column is
   UNIQUE, so each later pledge of anyone fails until the row is repaired by
   hand. The sweep the documents mention is not in the repository.

Met while modelling, without a run of their own:

- *Shutdown fails a job for good* (worker.go:186). A worker that is told to stop
  reports its job as not retryable, in the first attempt as well; the comment in
  runner.go has an abort cost no attempt. `Shutdown` and `Report` do this in
  `TranscodeJob`; `AttemptsBounded` excepts it, and shows that nothing else fails a
  job that has attempts left. To `EveryJobDecided` such a job is decided.
- *A record is committed that was not handled* (consumer.go:53). When Enqueue fails
  the record is committed all the same, and the sweep over `idx_media_stuck` does
  not exist. `EveryUploadQueued` and `UploadTracked` except the assets this happens
  to (`dropped`), and show that they are the only ones that are lost.
- *A decided upload is completed again* (upload.go:179). `MarkUploaded` does not
  look at the status; a READY film goes back to UPLOADED and gets no second job.
  The API document promises 409. `RedeliveryIsHarmless` excepts it
  (`CompletesAgain`), and shows that nothing else takes a verdict away;
  `UploadTracked` and `EveryUploadQueued`, which look for a job, do not see it.
- *One backer counted twice* (repo.go:121, "someone who backs the same campaign
  twice is one backer"): two captures of one backer's two pledges without a
  common tier overlap, the second does not see the first in its snapshot, and
  both add one. `BackersBounded` is what is left.
- *A success taken back* (media/repo.go:140): the commit of `Succeed` takes effect,
  its answer is lost, and `Fail`, which asks only for `worker_id`, puts the job
  back. `OneVerdict` assumes it away.
- *SKIP LOCKED* (dispatcher.go:90, "so two dispatchers never grab the same row"):
  the locks end with the claim, before the rows are produced; two dispatchers do
  send the same row. At-least-once delivery allows it.
- *Two payments of one order* (service.go:348): the second is recorded as applied
  and nothing is booked for it.
- *Progress* (progress.go:50): ffmpeg prints both keys in microseconds, the
  second is multiplied by 1000 and wins, so that progress stands at its end at once.
- *Order on the topic* (dispatcher.go:99): the claimed ids are joined back without
  ORDER BY, and a record that fails is passed over; two events of one pledge can
  be produced in either order.
- *A heartbeat that fails* (worker.go:243) is ignored: a worker cut off from
  Postgres alone goes on writing objects past its lease, as `TranscodeJob` has it.
- *fetches.Err()* (consumer.go:39) is one partition's error, but `continue` passes
  over the records of all (`Poll` with `poll_error`).
- *A presigned PUT* (playback.go:220) stays valid after complete: a client can
  replace a source between attempts.
- *minKeyRefresh* (firebase_verify.go:30) is said to bound how often keys are
  fetched. `fetchedAt` moves only when a fetch succeeds: while they fail, each
  login with an unknown or expired key fetches anew, one after the other, each up
  to six seconds under the mutex. `FetchesSpaced` says what holds. The fallback to
  a cached key (line 190) is never reached.
- *Two webhooks of one pledge* (service.go:255) can deadlock: each has the row
  FOR KEY SHARE by its insert, and asks for it FOR UPDATE. One is aborted and
  delivered again. The PLATFORM_ESCROW account is locked by every capture, so that
  captures of all campaigns commit one after the other.
- *A pledge on a draft campaign* is answered 500, not 409: the NULL deadline does
  not scan (repo.go:80).
- *A changed e-mail address* (auth.go:283): the upsert conflicts on the id instead
  of the address, and the login ends in an error.
- *Racing downs*: two read the same latest version and one of them reverts
  nothing, yet reports success. A down whose version is no longer the latest leaves
  a gap, and can drop a table together with a later migration's change of it that
  stays recorded (0017 of 0011). `RecordedIsBuilt` has that as `"late"`.

## 7. What is not modelled

- This server's own tokens, their middleware, signatures and claims: computed
  without state. That a token's key is found and that it is refused for any other
  reason are steps of `SignIn`.
- `migrate status` reads only. All runs of `migrate` are taken to be of one build:
  two builds with different sets of files are not modelled.
- Progress figures of encodes, which only the job's row shows.
- ffmpeg and its arguments, JSON, HTTP, logging, configuration, the object
  store's contents: I/O and formats. All attempts at one asset are assumed to
  read the same source and so to write the same bytes; the presigned PUT URL
  would let a client break that.
- Refunds, payouts, entitlements, refresh tokens, idempotency keys and the audit
  log exist as tables only. No code reads or writes them.
- The web client: what it may send, and send again, is left open in the models.
- Seeds, benchmarks, container files.

## 8. Plan

Done, in the order of importance: (1) the pledge service and its abstract
specification, with proofs; (2) the outbox; (3) transcode jobs; (4) intake;
(5) streams and playback; (6) the transactions of pledges with their locks;
(7) signing in; (8) migrations.

Next, modelling:

1. `PledgeTx` shown to implement the one-step transactions of `PledgeService`, with
   `unseen` derived from `seen`.
2. `MediaPipeline`: intake and jobs composed through the shared rows, in place of
   the assumptions `MediaIntake` makes of the workers; the client's second PUT.
3. The encoders of a job's rungs, the semaphore, and what a heartbeat writes.
4. The web client's checkout and upload flows against the API, with retries.

Next, proofs: that `PledgeTx` implements the transactions of `PledgeService`, with
item 1; what holds of a job when the answer to a commit is lost.

## 9. Usage

```
tlc -workers 2 -config pledge_race.cfg MCPledgeService.tla
tlapm PledgeService_proofs.tla
```

The runs named "violated" end with the counterexample. `pledge_retry` is the
largest (1.3 million states, a minute and a half). `sign_in` and `intake_delivery`
take two to four minutes, `pledge_twice` and `stream_plays` one and a half,
`pledge_locks`, `transcode_lease`, `migrate` and `pledge_race` about one, the
others seconds. The proofs of one module take a few minutes from nothing.
