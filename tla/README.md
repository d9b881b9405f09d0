# A verification project for DistTaskQueue

DistTaskQueue turns a Gmail inbox into PDF files on Google Drive. A scheduler
finds new mail and enqueues a job per message; workers take the job through the
stages fetch, render and upload; a sweeper repairs what crashes leave behind. The
state of record is a PostgreSQL table, `pipeline_jobs`; Redis lists carry job ids
to the workers; the two share no transaction. This directory holds TLA+ modules
translated from the Go source, TLC configurations that check them on small
instances, and TLAPS proofs that hold for all instances.

## 1. Inventory

| Component | State | Operations | Interacts with | What is hard |
|---|---|---|---|---|
| Job store (`internal/store/store.go`, `types.go`) | rows: status, stage, worker, attempts, last_error, next_run_at, created_at | EnqueueJob, ClaimJob, MarkDone, MarkFailed, AdvanceJob, three listings | every process | MarkDone and MarkFailed do not look at the row's status or owner; ClaimJob looks at the status only |
| Redis queue (`internal/queue/queue.go`) | `queue:<stage>`, `processing:<stage>:<worker>`, `heartbeat:<worker>` with a TTL | Push, BlockingPop, Ack, Heartbeat, IsWorkerAlive, ListProcessing, ReclaimProcessing, Depth | workers, sweeper, producers | ids and rows drift apart; ids are duplicated; a lost reply after an executed command |
| Worker (`internal/worker`, `cmd/worker`) | position in ProcessOne, the id held | Run, ProcessOne, heartbeatLoop | store, queue, handlers | a crash or an error between any two calls; two goroutines; cancellation |
| Sweeper (`internal/sweeper`, `cmd/sweeper`) | the snapshots of its four passes | SweepOnce | store, queue | acts on snapshots that may be stale; infers death from a missing key |
| Scheduler (`internal/scheduler`, `gmail_sync.go`) | the Gmail history cursor, in PostgreSQL | pollUser | Gmail, store, queue | the cursor must not pass mail that was not enqueued |
| Backfill (`internal/backfill/backfill.go`) | none that lasts | runUser every hour | Gmail, store, queue; shares the scheduler's process | checks, then acts |
| Full import (`internal/backfill/full.go`, `cmd/backfill`) | the page it is at | RunFull | Gmail, store, queue | interrupted and re-run at any point; backpressure |
| Gmail client (`internal/gmail`) | token source | LatestMessageIDs, ListRecent, ListAllPages, FetchMessage | Gmail | pagination; expired cursors |
| Rate limiter (`internal/api/ratelimit.go`) | a token bucket per client | Allow | demo endpoints | lazy refill at the limits |
| Demo endpoints (`internal/api/demo.go`) | none | burst, slow, flaky, flood | store, queue | a producer like the others: row first, push second |
| Stage handlers (`internal/handler`) | files below the data directory, folders and files on Drive | Process | Gmail, PDF service, Drive | executed at least once, so repeated |
| Drive client and folder cache (`internal/drive`) | Drive, cached folder ids | EnsureFolder, Upload | Drive, Redis | list-then-create; stale cache |
| OAuth tokens (`internal/oauth`, `store/oauth.go`, `cmd/oauth-setup`) and users (`store/users.go`) | the users' rows and their encrypted tokens; in each client a refreshing and a saving token source | LoadToken, SaveToken, savingSource.Token; GetUserByEmail, CreateUser; consent and exchange | Google, store, every client of Gmail and Drive | refreshes and saves of several processes, a new consent, a deleted user, a wrong key |
| MIME parsing (`internal/handler/mime.go`) | none | parseMessage, walkPart | render stage | recursion over nested parts |
| PDF client; dashboard, metrics; migrations; deployment | none, or read-only | | | |

What makes each part correct:

* **queue**: a job that was enqueued ends done or dead; it is executed by one
  worker at a time; every unsuccessful ending costs exactly one attempt; done and
  dead are final; an id that was pushed is not lost by Redis moves;
* **scheduler**: the cursor never passes a message that has no row; **backfill**:
  what a poll loses is found again; **import**: re-runs make no second job, and
  the queue stays within its limit plus one page, on top of what others push meanwhile;
* **filing**: a folder is never taken for another, whoever creates it and whatever the cache says;
  every part of a mail whose job is done is on Drive at the path of the mail; repetition makes no second file;
* **MIME**: the walk finds every attachment once and the body a reader expects, and what it finds is what ends
  up on Drive; **trash**: a folder the user has thrown away is not used for ever;
* **tokens**: the saved token is whole, readable and of the user it belongs to, whoever saved last; no token is
  used that a crash would lose; a new consent sticks in the end;
* **rate limiter**: burst plus rate is an upper bound over every stretch of time,
  and a client that waits is served.

The hazards behind these properties, each at its source line, are listed in
`PROJECT.json` under `hazards`.

## 2. Modules

```
 Pipeline ── JobStore ─┐
 Pipeline ── RedisQueue┼─ Worker ──┐
 Faults ───────────────┴─ Sweeper ─┴─ TaskQueue ── MCTaskQueue
                          JobLifecycle ──┘ └── TaskQueueProofs ── HandoverProofs
 Faults ── MailJobs ─┬─ Scheduler ──┐
                     ├─ Backfill ───┼─ Ingest ── MCIngest
                     └─ FullImport ─┘   └── IngestProofs ── ProducerProofs
   MailArchive ───────┐
 Faults ── Filing ────┼─ Archive ── MCFiling
             │  Mime ─┘     └─────────────┐
             └── FilingProofs ── ArchiveProofs
 Faults ── OAuthToken ─┬─ MCOAuth
                       └─ OAuthProofs
 RateLimiter ── RateLimiterProofs
```

| Module | Models |
|---|---|
| `Pipeline` | the stages and their order, as the handlers' return values give it |
| `JobStore` | `pipeline_jobs`: one SQL statement is one atomic step |
| `RedisQueue` | the three kinds of key: one Redis command is one atomic step |
| `Faults` | which kinds of fault a model allows, and how many |
| `Worker` | Run and ProcessOne, cut at every call another process can observe; heartbeatLoop |
| `Sweeper` | SweepOnce: reclaimProcessing, reviveOrphans, promoteDelayed, repushStale, cut at every call |
| `TaskQueue` | the composition with producers, the expiry of keys and the clock; its properties |
| `JobLifecycle` | abstract specification: what a user of the queue may rely on |
| `MailJobs` | what the three mail producers share: mailbox, rows per message, depth of `queue:fetch` with the ids that fetch workers take off it and the sweeper puts back, the insert-then-push loop |
| `Scheduler`, `Backfill`, `FullImport` | one producer each |
| `Ingest` | their composition (the first two share a process and die together); its properties |
| `Filing` | the handlers of the three stages: the data directory, the folders and files of a user's Drive, the folder cache |
| `Mime` | the walk over a message's MIME parts, and what it should find; pure operators |
| `Archive` | the composition of the two: the attachments `Filing` files are those `Mime` finds in the mail's message; the properties of the whole |
| `MailArchive` | abstract specification: what the owner of a mailbox may rely on |
| `OAuthToken` | one account's user and token rows, oauth-setup, and the clients that load, refresh and save the token |
| `RateLimiter` | the token buckets |
| `TaskQueueProofs`, `HandoverProofs` | theorems on `TaskQueue`: types, budget, exclusion and the refinement of `JobLifecycle`; `NoStranding` |
| `IngestProofs`, `ProducerProofs` | theorems on `Ingest`: types and cursor; the import and the duplicates |
| the other `...Proofs` | theorems on the module they are named after |

### How state and actions correspond to the code

`PROJECT.json` maps every definition to its lines. In general:

* **Rows.** `jobs` has the columns the protocol reads. Times are kept as what the
  queries compare: `next_run_at` is "due" or "future", `created_at` "fresh" or
  "stale"; the clock (`BackoffElapses`, `AgeOut`) moves them, at any moment.
* **Redis.** `queue` and `processing` are sequences with the head on the left, as
  LPUSH and BLMOVE RIGHT LEFT use them. `heartbeat` is the set of workers whose key
  exists. A dead worker's key disappears at some later moment (`DeadKeyExpires`).
* **Worker.** `wpc` is the position in ProcessOne. A handler is its outcome, success
  (`Complete`, `Advance`) or failure (`Fail`); the time it takes is the time the
  worker stays in "working". The deferred Ack is an action of its own because it
  comes after the settling call and may fail; `exiting` is the path of `errPostClaim`
  and of a cancelled context. Worker ids are random in the code, so a name of the
  model is reused only if nothing refers to it any more.
* **Sweeper.** `refs`, `orphans` and `pushes` are the snapshots a pass loops over, and
  `victim` the row whose owner was found dead and which is about to be failed.
* **Producers of mail jobs.** Gmail's history is the sequence of INBOX records and a
  history id is a position in it. The ids a pass has listed are a set, since Gmail's
  order is arbitrary for the models. A Gmail call that fails ends a pass before it
  has changed anything, so it is the same as a pass that does not begin. A cancelled
  context makes every later call fail, the save of the cursor included, and is
  therefore covered by "crash". One user is modelled: users share no state but
  the loop. Gmail keeps the last `HistoryKept` records: a poll with an older cursor fails, and so does every
  later one, since nothing seeds the cursor again.
  Of what workers and sweeper do with the jobs, which is `TaskQueue`'s subject, there is what producers can observe: an id leaves
  `queue:fetch` (`Pop`); the sweeper pushes a row in flight again, at any moment and whether or not its id is still there
  (`Repush`: promoteDelayed and repushStale), or takes back an id a dead worker had popped, whose row may have ended
  (`Reclaim`); and a job ends (`JobEnds`). Status, stage and age of the rows are left out, so the sweeper of this model may
  push more often than the real one. `foreign` is an observer: it counts what processes other than the import have pushed above
  the limit since the queue was last at its limit or below. The age of a mail (`GrowOld`) matters to the backfill only.
* **Handlers.** `xpc` is the position of a worker in a handler, cut at each call to the
  file system, Redis or Drive. `Interrupted` is an error or a crash at any of these points, after which the job
  is executed again from the start of its stage; a create whose reply is lost is a create followed by it.
  Of the queue the module takes what `TaskQueue` shows, that a job is executed by one worker at a time as long as heartbeats are truthful; a job
  that dies is simply not taken again. The names a mail gives rise to (dated folder, own folder, attachments)
  are constants, so collisions of names are a choice of the instance. A path is the sequence of these names.
  The cache key is made by path.Join, which tells the same paths apart as long as no name holds a '/' or is a dot or two (sanitised subjects do not; a
  sender's address with a '/' and a root path with '..' are left out). The levels above the mail's own folder
  are found or created by the same turn of one loop: one level stands for all. Drive lists equal names in any order.
  A mail that does not parse fails every attempt and ends dead; the mails of `Filing` are those that parse.
  `trashed` holds the ids of what the user has moved to the trash with `UserTrashes`, the content of a folder
  included; a file in the trash still counts as filed. The listings leave the trash out, as their queries say, while a cached or already found id still leads into it.
* **MIME.** A message is the sequence of its parts in the order NextPart delivers them, each with its depth, so the
  recursion of walkPart is one over the parts passed so far (`walk`); `inside` is the depth of the attachment whose content is being passed over. Of a
  part the model keeps what the code looks at: media type, disposition, the two names, and whether the decoded content is empty or
  broken. The reference definition speaks of the tree: the parts above a part, the parts no attachment contains.
* **Tokens.** A consent makes a grant; of an access token the model keeps the grant and whether it has expired by its
  holder's clock. A client is a refreshing source (`base`) inside a saving source (`seen`: its `last` is that token), built
  for one job, poll or import; `stored` is an observer. Loading is one step, refreshing and saving are
  two, because other processes save in between. The library's cache around the saving source only hands out what the
  saving source returned. A second oauth-setup at the same time as the first is not modelled.
* **Rate limiter.** Time is an integer and a token is counted in `Interval` parts, so
  refill is exact; the rounding of `float64` is left out. `opened`, `granted` and
  `spent` are observers for the properties.

## 3. What the runs check

Runs of the task queue (`MCTaskQueue`):

| Run | Checks | Shows |
|---|---|---|
| `tq_budget` | `TypeOK`, `RetryBudget` | all fault kinds: a live job has attempts left, a dead one has none |
| `tq_lease` | `ExclusiveProcessing`, `SweepSound`, `OwnerWorks`, `TerminalStable`, `LifecycleKept` | two workers of one stage, three faults, truthful heartbeats: no two workers execute one job, a worker that stays up leaves no claim behind (the fail-stop of `errPostClaim`), done and dead are final, and the queue implements `JobLifecycle` |
| `tq_handover` | `NoStranding`, `LifecycleKept` | two stages, two crashes: no pushed id is lost, also between AdvanceJob and the push to the next stage |
| `tq_settled` | `EventuallySettled` | every job ends done or dead, after any two of six kinds of fault |
| `tq_v_claimreply` | `EventuallySettled` | violated, see section 6 |

Runs of the ingest (`MCIngest`), of the filing (`MCFiling`), of the tokens (`MCOAuth`) and of the rate limiter:

| Run | Checks | Shows |
|---|---|---|
| `in_cursor` | `TypeOK`, `CursorCovers`, `DuplicatesBounded` | the cursor never passes mail without a row; a message has at most as many jobs as INBOX records, faults and one overlap of poll and backfill explain |
| `in_missed` | `NothingMissed` | the backfill finds what a poll has lost, also when the cursor is too old for Gmail and every poll fails |
| `in_import` | `ImportOnce`, `Backpressure`, `ImportCovers`, `EventuallyImported` | an import can be interrupted and repeated, its normal end means that nothing is left out, it gets there although it waits for the queue, and it takes the queue no further above its limit than one page, on top of the ids the sweeper puts back |
| `fi_filed` | `TypeOK`, `CacheSound`, `ParentSound`, `Filed`, `NoTwinFiles`, `WalkIsRight`, `AttachmentsArchived`, `TrashForgotten`, `ArchiveKept` | two workers race for folders, with two of interruptions, Redis errors and folders thrown away: no folder is mistaken, every part of a finished mail is filed at its path, no file is made twice in a folder, what is filed is what the message holds, a folder in the trash is forgotten once its cache entry is gone, and the stages together implement `MailArchive` |
| `fi_v_filed` | `Filed` | violated when two mails have one folder name, see section 6 |
| `oa_token` | `TypeOK`, `HalvesMatch`, `NoRevenant`, `RowReadable`, `SavedFirst`, `EventuallyAuthorised`, `EveryoneServed` | two processes and a stray one with a wrong key use one account's token through two of crash, failed save, ended grant and deleted user: the row is whole, readable and the right user's, nothing unsaved is used, a live token is saved in the end and everyone gets one |
| `rl_rate` | `RateBounded`, `PatienceRewarded` | burst and rate are kept, patience is rewarded |

Each passing property has a mutant in `PROJECT.json`: a named variant of one
definition ("slip", "plausible bug") under which TLC finds it violated.

### Bounds

* `JobIds` has one job: jobs share no row, and only interact through the order
  of ids in a list, which no property depends on. Two workers serve one stage where
  races for a claim matter, and two stages are served where the hand-over matters. `MaxAttempts` is 2 (8 in production): one retry and one death.
* `MaxFaults` is 1 to 3, in any order and at any point. Two are needed for a fault
  that hits the recovery from another.
* `MaxCopies` bounds the copies of one id in a stage list at the moment of a push; a push
  beyond it keeps the list as it is. The code has no bound: promoteDelayed and
  repushStale push the same row every few seconds until somebody claims it. One copy
  beside the one in flight already gives duplicates, and the order in which further
  copies arrive adds no new kind of step.
* `MaxHistory` is the number of INBOX records; three allow a message to be
  archived and to come back, and a poll to span several records. `HistoryPage` is one answer of history.list;
  `PageSize` one page of messages.list. The import has four messages in pages of at most two,
  enough to overrun the limit if it did not wait. `HistoryKept` is 2 in `in_missed`, so that a third record makes
  the cursor too old; elsewhere it does not matter and is not reached.
* `MaxRepushes` is the number of ids the sweeper puts back into `queue:fetch`: two in `in_import`, so that the queue is taken over
  limit plus page by them, drained and taken over again. The code has no bound, and the proof of `Backpressure` needs none. No property of `in_cursor` and `in_missed` reads the depth;
  there it is 0, and `MaxQueueDepth` is out of reach.
* The filing has two mails of one day, so that both workers may create the day's folder, one with an attachment (a forwarded
  mail), so that an upload can be interrupted between its parts. A third mail would add
  another contender for the same folder and no new kind of conflict. Nothing more is to
  be done when both jobs are done, so those runs do not check deadlock.
* `WalkIsRight` is about all messages of up to three parts, and all multiparts of up to four, with ten kinds of part:
  enough for an attachment inside an attachment inside a multipart, and a part after it.
* `MaxGrants` is 4, the grants that can be held at a time: one by each client that has loaded it, and one by
  the row or oauth-setup. The name of a grant nobody holds is used again. The id of a created user is fresh, and grows
  with deletions, which are faults and therefore bounded.
* `MaxTime` bounds the clock of the rate limiter, long enough to fill a bucket and
  to empty it again; the clock stops there, so that run does not check deadlock.

`In_cursor` uses the symmetry of its messages and `Fi_filed` that of its workers, which are interchangeable there;
both check invariants and, the latter, step properties, but no liveness.

### Fairness

`TaskQueue!FairSpec`: a running worker takes its next step, a dead one is restarted
(Kubernetes restarts the pod), its heartbeat ticks, unrenewed keys expire, the sweeper's
ticker fires and its loop goes on, a producer that has inserted a row goes on to the push, time passes. Nothing
is assumed of faults (there are finitely many in a behaviour, which is what
makes recovery meaningful) and nothing of handlers: a job whose handler never succeeds must end dead.
`Ingest!FairSpec`: the tickers of scheduler and backfill fire and their loops go on. `Ingest!ImportFairSpec`: the import
goes on, is started again when it has ended, and the fetch workers take ids off the queue. A behaviour has finitely many
ids that the sweeper puts back: it pushes a row again only until the row is claimed, so this says that in the end workers claim faster
than the sweeper repeats. If they never did, the import would wait for ever.
`OAuthToken!FairSpec`: clients that need a token are built and go on, the job of a client ends (strong fairness, since the
token may expire meanwhile any number of times), oauth-setup goes on once the consent is given, and the operator runs it when the saved token
does not work, as SELF-HOSTING.md:132 tells. Nothing is assumed of expiry, of a retry after a failed save, or of faults.

Two remarks on the liveness runs. False expiry of a live worker's key is left out: then
ReclaimProcessing, which loops until the list is empty, can take back each id
in lockstep with a worker that has recovered and pops it again; only unlucky timing sustains the cycle.
A stalled sweep is included in `tq_settled`. The three-stage pipeline with one worker per stage is out of
reach of a quick liveness check; `tq_handover` covers what is specific to several stages.

## 4. What is proved

All theorems hold for every value of the constants: any jobs, workers, stages, messages,
numbers of faults.

| Theorem | States | Assumes |
|---|---|---|
| `TypeCorrect` | `Spec => []TypeOK` | |
| `BudgetKept` | `Spec => []RetryBudget` | |
| `OwnersWork` | `Spec => []OwnerWorks` | no lost claim reply |
| `OneWorkerAtATime` | `Spec => []ExclusiveProcessing` | truthful heartbeats |
| `SweepsAreSound` | `Spec => []SweepSound` | truthful heartbeats |
| `TerminalStays` | `Spec => TerminalStable` | truthful heartbeats |
| `UnfailedIsExclusive` | `Spec => []NeverFailedOwned`: whoever executes a job that has never failed owns its row | |
| `QueueImplementsLifecycle` | `Spec => LifecycleKept`, the refinement of `JobLifecycle` | truthful heartbeats, no lost claim reply |
| `NoIdIsLost` | `Spec => []NoStranding` | calls succeed |
| `IngestTypeCorrect` | `Spec => []TypeOK`, with one job in flight per message | |
| `CursorNeverSkips` | `Spec => []CursorCovers` | lossless polls |
| `FewDuplicates` | `Spec => []DuplicatesBounded` | no import |
| `ImportSkipsNothing` | `Spec => ImportCovers` | |
| `ImportMakesOneJob` | `Spec => []ImportOnce` | a lone import |
| `ImportKeepsQueueShort` | `Spec => []Backpressure` | |
| `FilingTypeCorrect` | `Spec => []TypeOK` | |
| `CacheTellsTruth` | `Spec => []CacheSound` | |
| `UploadsOnPath` | `Spec => []ParentSound` | |
| `TrashStaysForgotten` | `Spec => TrashForgotten` | |
| `NoFileTwice` | `Spec => []NoTwinFiles` | a folder for each mail |
| `DoneIsFiled` | `Spec => []Filed` | a folder for each mail, a name for each part |
| `ArchiveIsExact` | `Spec => []ExactlyItsParts`: by their names the files of a finished mail are its parts, nothing else | a folder for each mail |
| `WalkFindsAll` | `WalkedRight(parts)` for every message `parts` | |
| `WalkAlwaysRight` | `Spec => []WalkIsRight` | |
| `ArchiveIsWhole` | `Spec => []AttachmentsArchived` | a folder for each mail |
| `FilingKeepsPromise` | `Spec => ArchiveKept` | a folder for each mail |
| `OAuthTypeCorrect` | `Spec => []TypeOK` | |
| `SavedTokenWhole` | `Spec => []HalvesMatch` | |
| `DeletedStaysDeleted` | `Spec => []NoRevenant` | |
| `RowStaysReadable` | `Spec => []RowReadable` | |
| `UsedAfterSaved` | `Spec => []SavedFirst` | |
| `RateIsBounded` | `Spec => []RateBounded` | |
| `PatienceIsRewarded` | `Spec => PatienceRewarded` | |

*Truthful heartbeats* (`TruthfulHeartbeats`) excludes the faults "expiry" and
"slow_sweep": the key of a live worker does not expire, and a sweep gets from
listing rows to checking their owners within a TTL. Neither can be
dropped: TLC violates `ExclusiveProcessing` within one such fault (section 6). *Lossless polls* (`LosslessPoll`) says that history fits one answer and that no
insert fails; section 6 says what happens otherwise.

The other provisos:

* *Calls succeed* (`CallsSucceed`): no push is lost, no call to Redis or PostgreSQL fails, nobody is shut down and no live
  worker's key expires. Crashes at any step, stalled sweeps and lost claim replies are allowed, in any number. With failed calls a row
  is found again by repushStale, which is a matter of liveness (`tq_settled`).
* *A lone import* (`LoneImport`): neither the scheduler nor the backfill runs beside it. They check for a row and insert it in two
  statements, as the import does, so with two of them a message can get two jobs.
* *No import* (`NoImport`): the scheduler and the backfill only, with all faults. An import beside them would be a second overlap to count.
* *A folder for each mail* (`OwnFolder`): no two mails have the same dated folder and the same name below it. *A name for each part*
  (`OwnNames`): the files of a mail have different names. The code sees to neither; section 6 shows what happens otherwise.

Of the constants the theorems use what the modules assume of them, which TLC evaluates in every run; for counting, the
mailbox (`Messages`) is finite.

The argument for exclusive processing: `ExclusiveProcessing` alone is not inductive,
since the sweeper's MarkFailed is unconditional and works from a snapshot. What makes it safe is
`SweepSound`: a process that is up has its key; a listed row still runs
under the owner that was listed, or the owner's key still exists and the check will pass over the row;
the row about to be failed still runs under an owner that is gone for good, because worker
ids are never reused; and a sweep holds each job at most once. The conjunction of types,
exclusion and sound sweeps, `LeaseInv`, is inductive: a late MarkDone or MarkFailed can only come from
a worker that still owns the row. `TerminalStays` follows from the same invariant.

For the refinement, `JobLifecycle` is stated per job. `LeaseInv` and `RetryBudget` together give that every step is for each
row a step of the life cycle or leaves it alone: a settling call finds the row running under the caller, an orphan is
failed under its own owner, and what is left of the attempts is right. A claim whose reply is lost is no step of the life cycle: the row
runs and nobody executes it.

For `NoStranding` the trouble is that an id travels through lists that several processes empty. `HandoverInv` says where it
is at each point: the processing list of a worker inside ProcessOne is exactly the id it holds and that of an idle one is empty (`HoldsTrace`);
the sweeper empties lists of the dead only (`ReclaimsFromTheDead`); and a job that waits is in a stage list or with a worker
that died with it, is about to claim it, or is about to push it on (`HandedOn`). False expiry cannot be allowed here: the sweeper would take
the id from a live worker's list, a second worker would acknowledge the copy as a lost race, and a crash of the first between AdvanceJob and its push would leave the
id nowhere.

`UnfailedIsExclusive` is what remains of exclusion when heartbeats may lie: a job is taken from a worker that executes it by
MarkFailed only, which sets `last_error` for good, so a job without one is executed by its owner alone, under all faults.

For the cursor, `SyncInv` adds to `CursorCovers` that what the poll under way has listed
is pending or has a row (`PollCovers`), so that saving its cursor is sound, and that cursors do not run ahead of the
history.

For the import, `PendingMail` says that while it runs every message has a row, is on a later page, or is still to be handled on this one, whatever else inserts
rows meanwhile. For a lone import `LoneInv` adds that the message about to be inserted has no row (`FreshAtInsert`).
For the queue `RoomInv` adds that what is left of the page fits under limit, page and `foreign` together (`RoomForPage`). Whoever runs beside the
import (`RoomElsewhere`): a push by another process is counted or leaves the queue at the limit or below, and a pop that brings the queue back to
the limit starts the count again and leaves room for a whole page.

For the duplicates, `PaidInv` accounts for every row of a message. A row beyond those of earlier faults is paid by an INBOX record that the saved cursor has
passed. A poll inserts before it saves, so until then its row is paid by the record ahead of the cursor for which it was listed; if the
cursor is never saved, by the fault that prevented it. The backfill holds one overlap in reserve, which it spends
between its check and its insert.

For the filing, `CacheSound` and `ParentSound` are inductive only together (`FilingInv`): a walk may take
each of its steps from the cache, and what it writes to the cache is where the walk has come to. Both
rest on two facts: no folder is removed, only put in the trash, so a folder stays at its path (`AtPathStays`), and a listed or
created folder is one step below the worker's (`OneLevelDown`). For these, nothing is assumed of the names, nor that
there is one folder per path. `TrashStaysForgotten` needs of the types that ids are below `nextId` (`IdsTypeOK`), so that
a created folder is not one of the trash; then each step either keeps the ids in use (`IdsKept`) or adds one that was listed
outside the trash, was just created, or is already in some worker's hands.

`NoTwinFiles` rests on the gap between list and create in Upload: the worker about to create a file has found none of the name,
and none has come since (`EmptyAtPut`), because its mail is held by no other worker (`OneHolder`) and no other mail has the
path of its folder, ids being unique (`UniqueFolders`). For `Filed` the invariant follows the mail through its stages: where a worker is tells
how many of its parts are on disk or on Drive (`Made`), a finished stage has left everything behind (`StagesMade`), and a
file found under a name is the mail's own part (`FilesOwned`); the last is where different names are needed.

Where attachments share a name, content is lost (section 6), but no name: `NamesInv` is the same account kept by names
alone, how many of them have been filed when a worker is where it is (`NamedSoFar`), and needs only that a file found under a
name is of the same mail. `ArchiveIsExact` and the theorems on the archive rest on it.

For the MIME walk the invariant is `FoundTo`: after n parts the walk has found exactly what there is to find among these n, and
is either at a part it has walked or among the parts of an attachment, whose depth it remembers (`Whereabouts`). From the latter it
follows that the next part is passed over exactly if some attachment contains it (`SkipsInside`), which is the heart of the matter: the
code looks at one number, the definition at all parts above. The induction over the parts is done by hand, from the
least number of parts for which the claim would fail (`CountsUp`, from the well-foundedness of the naturals); `WalkDefined` first shows in the same way
that a function satisfying the recursion exists, without which the definition of `walk` says nothing.

`MailArchive` keeps documents one by one and closes a mail that has all of them. The mapping takes as kept what lies in a
folder at its mail's path, and as closed the mails whose job is done. An upload (`PutKeeps`) keeps a document of a mail that is still
open, or repeats one that was thrown away, which is no step; the return of a handler (`ReturnCloses`) closes the mail or is no step;
everything else, the race for folders, the cache, interruptions and the trash, is invisible (`Seen`). That the parts
the handlers count are the documents of the message is `PartsAreDocuments`, from `WalkFindsAll`.

For the tokens the inductive invariant is `OAuthInv`. `HalvesMatch`, `NoRevenant` and `RowReadable` speak of the row, but the row
is written from what clients and oauth-setup hold, so the invariant says the same of every holder: a client's token is of one grant, a client
whose user is still there holds no grant of a deleted one, and a client that could load the row has oauth-setup's key (`Sound`); ids drawn for users are between 1 and `created`, so a
client of a deleted user can never be taken for one of the new user; oauth-setup's token is of a grant that
is no deleted user's and that nobody else holds yet (`SetupOK`); and a token that the saving source has seen, or that is ready for use, was stored (`Counted`). Grant names are used again in the model, which is sound because a new name is one that no row,
client or oauth-setup holds.

For the rate limiter `EarningsKept` relates the tokens of a bucket to the
time since it was opened and to the calls granted.

Left to TLC are the five liveness properties (`EventuallySettled`, `NothingMissed`, `EventuallyImported`, `EventuallyAuthorised`,
`EveryoneServed`), since fairness is out of the prover's reach. Every invariant and every action property of the passing runs, and both
refinements, are theorems.

## 5. What is not modelled

* The removal of old files from the data directory by the data-gc job: an upload retried after it fails on a missing file.
* Of MIME, rendering and naming: bytes, character sets, header syntax, the PDF service and the spelling of
  names; a name is a constant of the instance, or what SanitizeFilename makes of the few names that occur.
* Encryption, which is library code: a sealed token opens with its own key and no other.
* Dashboard and metrics: every request reads PostgreSQL and Redis with separate queries and shows the results. Nothing
  depends on it; a snapshot of several moments is all that could be stated of it.
* Migrations, which a library runs under its own lock: set-up.
  The models use `max_attempts`, the unique index on a user's message, and the foreign key of `oauth_tokens`.
* Several replicas of the sweeper or the scheduler, and two runs of oauth-setup at a time: the manifests run one of each;
  an overlap during a rollout is planned.

## 6. Where the code and the documents disagree

Shown by a run that TLC finds violated:

| Run | The document says | What TLC finds |
|---|---|---|
| `tq_v_claimreply` | ARCHITECTURE.md:521, any job ends within bounded time | a claim that commits while its reply is lost leaves a running row under a live, idle worker for ever |
| `fi_v_filed` | paths.go:34, the time suffix disambiguates folders; README.md:8, every email is filed | two mails of one subject and sender in one minute share a folder; Upload finds the first one's `email.pdf` and the second one's is never uploaded, though its job is done |

What the first leaves behind needs an operator. The second loses a PDF silently.

Seen while modelling, plain from the code, and not worth a run of their own:

* ARCHITECTURE.md:300 says the log is pulled and the cursor advances, :399 that this catches every scenario. LatestMessageIDs
  (client.go:64) reads one page of the history, ignores NextPageToken and returns the mailbox's current history id, so the cursor jumps over
  the rest: with `HistoryPage = 1` in `In_cursor.cfg` TLC violates `CursorCovers`. The backfill finds what is skipped,
  within its window (`in_missed`).
* The same section does not say what happens to a cursor older than Gmail's history: every poll fails from then on (client.go:71),
  and mail is found by the hourly backfill only, until an operator deletes the row of `gmail_sync_state`.
* OPERATIONS.md:340 and SELF-HOSTING.md:132 say to run oauth-setup again when a refresh token has ended. A client built
  before, whose grant still works, that refreshes after the new token is saved puts the old refresh token over it (token.go:80 saves whatever it was
  built with). `EventuallyAuthorised` shows that repeating oauth-setup sticks in the end; once is not always enough.
* ARCHITECTURE.md:415 says a cached entry is short-lived enough that "a manually-deleted folder eventually gets re-created rather
  than erroring forever". The 24 hours are far longer than the retries of a job (eight attempts, some four minutes of backoff), so
  the mails uploaded below a deleted folder meanwhile end dead, and those below a folder in the trash
  are filed in the trash. `TrashForgotten` shows the part that holds: after that the folder is not used again.
* ARCHITECTURE.md:137 says inline images without a file name are dropped. So is an inline part that has one, and a part
  that is neither text nor named; a multipart sent as an attachment is kept as one file, undecoded.
* Two attachments whose names SanitizeFilename makes equal are one file on disk, and upload finds the first of them there already
  (render.go:60, client.go:82). `ArchiveIsExact` shows that the name at least is there.
* OPERATIONS.md:549 calls the last-poll gauge a detector of dead tokens; it is the maximum over all users, so one
  healthy account hides the others (metrics.go).
* ARCHITECTURE.md:513 says a job is processed by exactly one worker at a time and :517 that nothing breaks it. A live
  worker whose heartbeat writes fail for a TTL only logs that (worker.go:136), loses its job to the
  sweeper and goes on executing it. Adding "expiry" to the faults of `TQ_lease.cfg` shows it.
* ARCHITECTURE.md:288 says duplicate pushes cost one round trip. ClaimJob does not look at the stage, so a copy left in
  `queue:fetch` lets a fetch worker execute a job that has advanced to render.
* ARCHITECTURE.md:499 promises exactly one Drive folder per email. Two workers that race in EnsureFolder make
  two folders of the day, and an upload interrupted below one of them is repeated below the other if the other
  worker's id is in the cache by then. No property here depends on folders being unique.
* ARCHITECTURE.md:277 speaks of retries whose backoff has elapsed; ClaimJob does not look at
  `next_run_at`, so a leftover copy of the id starts a retry at once.
* OPERATIONS.md:78 says the backfill only enqueues what is unknown; HasJobForMessage and EnqueueJob are
  two statements, and the unique index does not cover a job that has ended in between.
* ARCHITECTURE.md:341 says the unique index rejects the duplicates of a repeated poll; not those of a message whose
  job has ended.
* OPERATIONS.md:414 says the cursor advances after emails are processed; it advances once they are enqueued.
* SELF-HOSTING.md:102 says the scheduler never backfills on its own; the backfill goroutine runs at start-up.

## 7. Plan

Done: the task queue with its abstract life cycle, the ingest with its fairness and expired cursors, the filing with
MIME parsing, the trash and its abstract archive, the tokens, the rate limiter, and the theorems above. Next, in this order:

1. `NoStranding` under failed calls: which rows repushStale will find, as an invariant.
2. Two sweepers that overlap; two schedulers that overlap.
3. The removal of files from the data directory.
