# exotomailcow: a TLA+ model of the migration

exotomailcow copies mailboxes from Exchange Online to mailcow: mail over IMAP,
events and contacts over CalDAV and CardDAV. It is one FastAPI process in one
container, with a SQLite file, a thread pool that runs migration jobs, and an
administrator who starts, cancels and repeats them in a browser. It is used for
days or weeks: first migration, further runs, a resync after the DNS change.
What can go wrong lies between those runs and between the threads, which is what
the modules here are about.

Everything is translated from the code under `src/`; paths below are relative to
the repository.

## 1. The system

| Component | State it keeps | Operations | Made correct by |
|---|---|---|---|
| Job creation (`app/web/routes/jobs.py`, `routes/resync.py`, `app/jobs/resync.py`) | `migration_job` rows | `POST /jobs`, resync of one mapping, resync of all | one active job per mapping; every job committed is also submitted |
| Scheduler (`app/jobs/scheduler.py`) | queue and threads of a `ThreadPoolExecutor`, lost in a restart | `submit`, `cancel`, `resume_incomplete_jobs` | no job lost, none run twice, a cancellation stands |
| Runner, job level (`app/jobs/runner.py`, `run`) | `status`, `started_at`, `finished_at`, `last_synced_at` | guarded start, completion, failure, cancellation | the row says what the thread does; the watermark comes from a whole run |
| Runner, items (`_migrate_one_*`) | `migration_item`, the four counters, the SQLAlchemy session | skip, deliver, record, retry, count | done means delivered; duplicates only where unavoidable; every item counted once |
| Listing and window (`app/graph/client.py`, `resync.py`) | `last_synced_at`, `mail_since_date` | page through folders, calendars, contacts with a `$filter` | what is missing is inside the next resync's window |
| Folders (`app/importers/folder_mapping.py`, `repositories.py`) | `mail_folder_map` | path of each folder, create once, remember | each folder exists in mailcow before messages go there, and at the end of a run |
| IMAP and DAV importers (`app/importers/`) | an IMAP connection | `append_message`, `ensure_folder`, `put_event`, `put_contact` | modelled by their effect in mailcow |
| Mapping routes (`routes/mappings.py`) | `mailbox_mapping` | add, CSV import, delete | what is delivered to an address belongs to a user mapped to it; the rows of one mapping say nothing about another |
| Tenant, secrets, admin (`routes/setup.py`, `routes/admin.py`, `app/security/`) | `tenant_config`, encrypted passwords | save, test, purge, bootstrap | after a purge nothing starts with the old secrets |
| Graph client (`app/graph/client.py`, `retry.py`) | a token per call | pages, messages, attempts, `Retry-After` | a listing ends, misses nothing by itself, and its calls stay within the life of their token |
| Conversion (`app/conversion/`) | none | event to iCalendar, contact to vCard | a recurrence keeps its days |
| Reports (`routes/reports.py`) | none | list of failed items | what a job counted as failed is named |
| Templates, configuration, logging | none of their own | - | - |

How they interact: a request thread checks for an active job, inserts rows,
commits, and hands the ids to the pool. A pool thread takes an id, moves the row
from PENDING to RUNNING with a guarded UPDATE, and goes through mail, calendars
and contacts; before each item it reloads the row to see a cancellation. The
cancelling request and the runner write the same column from different sessions.
All persistent state is in SQLite, so a restart keeps rows and loses queue,
threads and half-served requests; the startup hook submits what was left.

Hard behaviours: two sessions that read and later write the same row; check and
insert in different transactions; commits that raise (`database is locked`);
deliveries that took effect and whose answer is lost; restarts at any point; a
source that changes while it is read; two clocks; state remembered about a folder
tree that has changed since; ids that are handed out again, to jobs that know a
mapping by nothing else; a cancelled thread that is still at work beside its
successor; waits that add up against the life of a token.

## 2. Modules

| Module | Contents |
|---|---|
| `JobLifeCycle` | what the machinery promises about one job; abstract, implemented by `MigrationJobs` |
| `MigrationJobs` | life cycle of jobs: routes, scheduler, `run`, restart |
| `MailboxImport` | one mailbox through several runs: items, rows, counters, session, report |
| `OverlappingRuns` | one mailbox with two threads in it: of racing requests, or one of them of a cancelled job |
| `MappingTable` | the mappings and the secrets while jobs work from them |
| `GraphClient` | reading one mail folder: pages, attempts, token |
| `SyncWindow` | which items a run lists, the watermark, clocks |
| `FolderMap` | folder paths and `mail_folder_map` through several runs |
| `Recurrence` | an event's recurrence against the rule it is translated to |
| `MC...` | symmetry sets for TLC; the `.cfg` files choose the sizes |
| `...Proofs` | theorems about the module of the same name; `MigrationJobsProofs` ends with the refinement of `JobLifeCycle` |

The models look at the same program at several magnifications. In
`MigrationJobs` a job is a number of anonymous items, because its subject is who
writes the status and when. `MailboxImport` opens one item at a time, for runs
that follow each other, with all that fails; `OverlappingRuns` opens the same
item for runs that do not follow each other, and lets nothing fail but the unique
constraint. `SyncWindow` keeps of an item only whether its newest version is
recorded, and opens time. `FolderMap` keeps of a run only its walk over the
folders, `GraphClient` only its way through one of them. `MappingTable` keeps of an
item its delivery and its record, counts no copies, and opens the table that says
whose items they are. Each leaves to the others what it says it leaves out, in its header.

They meet in one place each: the overlap that `OverlapHasCause` allows in
`MigrationJobs` is where `OverlappingRuns` starts (`Check` and `Commit` are the two
steps of a request there as here, `Cancel` comes at any point of an item); a page in
`SyncWindow` is any part of what is left because `GraphClient` says what a listing can
miss; the deleted mapping that ends a run in `MigrationJobs` is a row of `MappingTable`,
where the id may belong to another mapping by then.

### MigrationJobs

The first group of variables is the database, the second what a restart loses.
Each request and each pool thread has a program counter; a step is what happens
between two points where another session can be seen or a statement can raise. Two
history variables are kept for the properties: `overtaken`, the mappings a request has
checked and another request has committed a job for since, and `raced`, the jobs that
were committed for such a mapping all the same.

| Actions | Code |
|---|---|
| `Boot`, `ResumeSubmit`, `Serve` | `Scheduler.resume_incomplete_jobs` in the lifespan hook: one commit, then one submission at a time while the pool already works |
| `Crash` | the container goes away; only the database group is kept |
| `Request`, `Check`, `CommitJobs`, `Submit`, `Respond`, `RequestFails` | `create_jobs` (one commit after the loop), `create_resync_job` (one commit per job), `resync_all`; the check sees committed rows only, since sessions have `autoflush=False` |
| `MappingLost` | `resync_all` reads `mapping.id` of an object its previous commit has expired; when the row is gone this raises, and the jobs committed so far are not submitted |
| `CancelRead`, `CancelWrite`, `CancelFails` | `Scheduler.cancel`: the read and the UPDATE by primary key are separate |
| `DeleteMapping` | `delete_mapping`: no look at jobs, and SQLite is not told to enforce foreign keys |
| `Take`, `Start`, `StartFault`, `RefreshLost`, `Setup`, `RunFails`, `NextItem`, `FinishItem` | `_run_safely` and `run` up to the end of the items; the start commit and the `db.refresh` after it (`runner.py:234`) are outside the inner `try`, so the job stays PENDING or RUNNING when they raise; the cancellation check comes before each item and nowhere else |
| `Complete`, `CompleteLost`, `Fail`, `FailLost`, `Stop`, `StopLost` | the ways out of `run`: the commit in `finally` carries status, `finished_at` and `last_synced_at` together, or raises and loses all three |

`JobLifeCycle` is the same seen from outside: per job a `task` (new, waiting,
working, lost, over) and a `verdict`. `TaskOf` and `VerdictOf` at the end of
`MigrationJobs` are the mapping: a job is worked on when a thread holds it, it waits
when it is PENDING, or RUNNING in a container that is down, and it is lost when it
is RUNNING and nobody has it. `ImplementsLifeCycle` says that every step of the
machinery is one step of the life cycle or none: work begins only on a waiting job,
an end is decided once and a cancellation that came first stands, and only a
restart takes up what was lost. What the life cycle allows as well is in the code:
`Cancel` relabels a job that has just ended, since `Scheduler.cancel` read it before.

### MailboxImport

A message is appended, so every append that takes effect is one more copy; an
event or contact is put under its uid, so the last put wins. `DeliverLost` is a
delivery that took effect and raised: the answer was lost, or an append was
answered without APPENDUID (`imap_importer.py:35`). `session` is what SQLAlchemy
makes of a flush that raised without a rollback: every later use raises, until the
session is closed. That is why `RecordFails` leads to `ItemFailsJob`:
`record_failure` uses the same session and raises out of the `except` clause
(`runner.py:131`). Attributes that the failed flush has expired cannot be read
either; a message needs `mapping.exo_upn` and is not sent again (`CanSend`), an
event or contact is. `CommitFault` is `_commit_with_retry`: its rollback also
throws away the increment the retry was to commit (`runner.py:45`).

### SyncWindow

Time is Exchange's clock, which ticks with each change in the mailbox; this
server's clock, which provides `started_at`, differs by at most `MaxDrift` in
either direction. A version is the time of a change, so for mail it is
`receivedDateTime`, which never changes, and for the others
`lastModifiedDateTime`. `ListPage` takes any part of one category's remaining
items as they are at that moment, which covers folders, calendars and pages in
any order; items can change between the page and their import. It assumes that
whatever is there is on some page: pages by position can miss a message
(`MissedOnlyByShift` of `GraphClient`), and what is missed lies in no window. An import
succeeds or is recorded as failed. `Resume` is a restart: the same job runs
again with a new `started_at`. Messages that appear with an old
`receivedDateTime` (restored or imported by another client) are not modelled.

### FolderMap

A name stands for a display name after the delimiter was replaced, so two
siblings may share one, and a user's folder may have the name mailcow has for a
well-known one. `Paths` is `build_imap_paths`; since joining with the delimiter
is one to one here, a path is a sequence of segments. `Relocate` is a user who
renames or moves a folder, with all below it, at any moment. `Enter`, `Ensure`,
`Mark`, `Fill` are one folder in `_migrate_mail`; `Stop` may come between any two
of them. The row of a folder is written in a dry run too; the folder is not
created and not marked. An append to a path that does not exist is refused.
`imap_mailbox_name` and `graph_path` are written and never read, and are left
out. Nobody removes folders in mailcow, and the set of Exchange's folders is the same
throughout: a folder added between two runs is, to the next run, one without a
row, which is how every folder begins.

### OverlappingRuns

The item by item procedures again, one program counter per run. A session keeps the
row it has once loaded: `seen`. `Lookup` therefore reads only if the session had
found nothing, and `Write` is an INSERT, or an UPDATE of the columns in which the
session's copy changes, whatever the other thread has written meanwhile.

| Actions | Code |
|---|---|
| `Check`, `Commit` | `has_active_job_for_mapping` in `create_jobs` and its commit, in a request thread each; requests may come between the two steps of another |
| `Start`, `Cancel` | the start of `run` in a pool thread; `Scheduler.cancel` |
| `NextItem`, `Pick`, `Deliver`, `DeliverFails`, `Retry`, `GiveUp` | `_migrate_one_*` up to the record; the cancellation check is in `NextItem` only |
| `Lookup`, `Write` | `record_success`, `record_failure`: `get_item`, then INSERT or UPDATE and flush |
| `Conflict`, `RecordRaises`, `ItemFailsJob` | the unique constraint of `migration_item`, and what the unusable session then does to the item and the job |
| `End`, `Return` | the ways out of `run` |

`raced` are the runs whose request another one had overtaken between its check and its
commit, `astray` the items in the hand of a run when it was cancelled, and every item in
the hand of a run of `raced`; the properties are about these two sets.

A record and the commit that ends the item are one step here: between a flush and its
commit SQLite lets no other session write.

### MappingTable

| Actions | Code |
|---|---|
| `Add`, `ImportCsv`, `Delete` | the three routes; a CSV row with an empty field is passed over, the others are one commit |
| `SaveSetup`, `Purge` | `setup_save`, `purge_secrets` |
| `Create`, `Resync` | `create_jobs` does not look the mapping up; `order` is what the form asks for: the categories, those of them listed from the beginning (mail is not when `mail_since_date` is given), dry run or not. A resync takes all categories and none from the beginning |
| `Start`, `Fail` | `run` looks the mapping up and decrypts both secrets; anything may raise later on |
| `List`, `Skip`, `CountOnly`, `Deliver`, `Record`, `ImportFails` | `_migrate_mail`, `_migrate_calendar` and the item procedures; the delivery and the row are two steps, with a restart between them where it comes; any item may have raised three times, before its delivery or after it, and the job goes on |
| `Complete`, `CompleteLost` | `last_synced_at`, unless in a dry run, and the commit in `finally` |
| `Restart` | `resume_incomplete_jobs` |

`made` numbers the mappings as they are made, so that a mapping can be told from its
successor with the same id, which the code cannot. `target` is the mapping whose
address and password a job has copied into `MailcowTarget` at its start; `held` is the
mapping as the session's object still shows it, which every commit expires; `Seen` is
therefore whatever row has the id after the next commit. A meeting is an event of
several users with one `iCalUId`. Copies are a set here, so a message that is delivered
a second time shows nowhere; `MailboxImport` and `OverlappingRuns` count. A request's
check and insert are one step, and there is no cancellation: no property here rests on
a mapping having one job at a time.

### GraphClient

A folder is a sequence, newest message first; a page is cut out of it by position when
it is requested, because that is what a `$skip` in a nextLink amounts to, and it is
requested when the messages of the one before are done with (`list_messages` is a
generator). Time passes only in calls: `life` is what is left of the token that the
call started with. `BackOff` and `WaitAsTold` are the two kinds of wait in
`graph_request`; `RetryMessage` is the runner's own retry around it, with a new call and
a new token. `Arrive` and `Vanish` are the mailbox in use.

### Recurrence

A pure conversion, written as a specification of one step so that the events are the
initial states. The calendar is small (see the header) and begins on a Sunday; days of
the week, months and years have the arithmetic of the real one. `DaysOf` is what
Exchange shows, written from the meaning of Graph's pattern and range; `Rule` and
`DtStart` are the code; `Times` is RFC 5545. The properties compare the first with the
last.

## 3. Runs

Passing runs:

| Run | Bounds | What it shows |
|---|---|---|
| `jobs` | 2 mappings, 2 threads, 2 creators, 2 requests of up to 2 ids, 4 jobs, jobs without items; 1 cancelled job or 1 deleted mapping | `OneActiveUnlessRaced`: a mapping has two active jobs only if the later one was committed by a request that another had overtaken after its check. `OverlapHasCause`: two threads are in one mapping only for that reason or because of a cancelled job. `WatermarkMovesForward`: likewise for a watermark that goes back. `SyncedByWholeRun`: the watermark belongs to a real run of this mapping that went to its end. `CancelledIsFinal`. Also reached here: `resync_all` losing a mapping between two commits (`MappingLost`) |
| `jobs_live` | 1 mapping, 2 threads, 1 creator, 2 jobs of up to 1 item, 1 crash, 1 failed commit, 1 deleted mapping, 2 cancellations | `OneRunnerPerJob`: a job never has two threads. `PendingIsDispatched`: a PENDING job is in the queue or on its way. `RunningIsOwned`: a RUNNING job has its thread unless a commit failed or the mapping is gone. `FinishedIsSettled`. `ImplementsLifeCycle`: the refinement. `PendingSettles`, `CancelStops` under fairness |
| `import` | 1 message, 1 event with 2 versions, 2 jobs, 1 lost answer, 1 failed flush, 1 crash, 3 attempts | `DoneIsDelivered`, `SkippedIsThere`: nothing is skipped that mailcow lacks. `DuplicatesBounded`: each surplus copy is paid for by a lost answer, a failed flush or a crash. `CompletedIsCurrent`, `CountersComplete`, `ReportNamesFailures`, and `RunEnds` under fairness |
| `overlap` | 1 message, 1 event with 2 versions, 3 jobs of one item each, 2 requests between check and commit, 2 attempts; after racing requests a cancellation or a third job | `DuplicatesBounded`: one copy, and one more for each run that had the message in hand and was cancelled with it or is of a racing request. `DoneIsDelivered`: an older version replaces a newer one only where such a run had the event in hand. `FailsOnlyOnRecorded`: the unique constraint fails a job only on an item that another run has recorded |
| `sync_window` | 1 message, 1 event, buffer and drift 2, 2 jobs, 2 ticks of the clock after the start | `WindowCovers`: whatever is missing and not recorded as failed lies in the next resync's window, in each category the last initial job took whole |
| `folders` | 1 well-known folder, 2 others, 2 moves | `RefusedOnlyIfMoved`, `StructureKept`: dry runs and stopped runs cost no folder |
| `graph` | 3 messages, 1 that arrives, pages of 1, the code's 5 and 3 attempts, a token of 300 s, answers after 46 s, `Retry-After` of 1 and 400 s | `TokenOutlivesBackoff`: the client's own waits never outlast the token. `MissedOnlyByShift`: a listing that ends has missed at most one message for each that vanished from before its next page. `ListingEnds` |
| `mappings` | 2 users, 2 addresses, 2 mappings made, CSV files of 2 rows, 2 jobs: of everything, with a date for the mail, of the mail alone, dry, or resyncs. In one behaviour either an item fails or a job is not of everything, or mappings are deleted and secrets purged, at most twice | `DeliveredAsMapped`: nobody's items come to an address they were not mapped to. `ResyncAfterMigration`: a resync is offered only after a real job for this very mapping. `CompletedIsThere`: what a completed job listed from the beginning is at its address or reported as failed. Each of the three makes an exception of an id that was handed on. `PurgeIsFinal` |
| `recurrence` | the 6 kinds of pattern, 3 kinds of range, 7 first days, an end date, intervals 1 and 2, 4 sets of days, weeks that begin on Saturday, Sunday or Monday, 4 offsets; days of 3 times, months of 9 days, years of 2 months | `RuleKeepsDays`, `DailyKeepsTimes`: the rule gives the days and times that Exchange shows, as far as a rule beside a UTC start can |

Why the bounds are enough. Two requests of two ids are the check, the commit and the
other request's check and commit in every order, with the same mapping named twice or
with two; the ids suffice for both, so that no request waits for one. Two jobs and two
threads on one mapping are what can meet there; what a cancellation and a deletion do to
each other is in `jobs_live`, where both happen and there is one mapping. Crashes and
failed commits are in `jobs_live` only; that the properties of `jobs` survive them is left
to their theorems. A second crash
meets no state that the first does not (`Boot` depends on the rows only). One failed
commit is one too many in each place it can fall, and two never meet in one thread's
decision. Three attempts are the code's own constant; where threads overlap, two suffice
for an attempt that is followed by another and one that is the last. For the window the
interesting order is: job, change, job, change, and what the next resync would list;
two jobs and two ticks give it, with a drift equal to the whole buffer. Two ordinary folders are
enough for parent and child, for siblings with the same name, and for a folder
that changes places with another. Three jobs of a mapping let a cancelled run be
overtaken twice, or two racing ones be followed by a third, and threads meet in one item
at a time. Two mappings are one id handed on; of two jobs one can be across the change
and the other before or after it, or the second repeats what the first left undone;
what happens together in no behaviour of the run, the theorems cover. A page of one
message puts a page boundary everywhere. 46 seconds an answer is the edge of what the
code stands: MSAL hands out no token with less than 300 seconds, and five waits (3, 5, 9,
17 and 33 with the jitter) and five answers take 297; with 47 the last attempt may be
sent with an expired token. The timeout of a call is 30 seconds for each of connecting,
sending and every piece read, so an answer may take longer than that. A month of nine
days holds every day of the week and two of them twice, which tells the first, second
and last of a month apart. Nothing else depends on the sizes, and the theorems of
section 5 hold for all of them.

Runs that end in a violation, each a disagreement between the code and what is
said of it:

| Run | Property | What happens |
|---|---|---|
| `overlap_duplicates` | `NoDuplicates` | a job is cancelled while its thread is inside a message; the next job may be created at once, finds no row, and both append. `has_active_job_for_mapping` (`repositories.py:13-16`) is there to prevent just this. The run has one request at a time, so that its trace is this one: two racing requests get to two copies as well, with nobody cancelled |
| `mapping_reused` | `SkippedIsAtTarget` | a mapping is deleted and added again with the right address; it gets the same id, inherits the item rows, and its job skips what was imported to the wrong address |
| `window_gap` | `NoSilentGap` | after a full first migration, a second initial job for, say, mail alone moves the one watermark; an event changed before it is older than every later resync's window |

Other behaviour of the models worth knowing. Each of these is an exception that a
passing property or a theorem names:
- Handlers run in a thread pool, so two creating requests may both check
  (`jobs.py:36`) before either commits (`jobs.py:51`), and both create a job. Nobody needs
  to cancel anything for two threads to work in one mapping then, for two copies of a
  message, for an older version over a newer one, for a job that fails on the unique
  constraint, or for a watermark that goes back: `raced` in `OneActiveUnlessRaced`,
  `OverlapHasCause` and `WatermarkMovesForward`, and `raced` and `astray` in the
  three properties of `OverlappingRuns`. `ActiveJobsPerRequest` (theorem
  `RacesAreBounded`) is the bound on it: no more active jobs of a mapping than there are
  request threads.
- `cancel` reads RUNNING, the runner commits COMPLETED, `cancel` writes CANCELLED over
  it: `JobLifeCycle!Cancel` may relabel a job that is over.
- A mapping deleted during its run makes the last commit raise and take COMPLETED with
  it; the job stays RUNNING until the next restart. `RunningIsOwned` excepts it,
  `JobLifeCycle` calls it lost. In `MappingTable` it also blocks new jobs for the next
  mapping with that id (`CompleteLost`, `Create`).
- A folder renamed after a run keeps its row marked as created; the new path is never
  created and its messages are refused (`RefusedOnlyIfMoved`, `StructureKept`).
- When an id is handed on in the middle of a job, the job lists the new user's
  calendars and puts them at the old address, and its end marks the new mapping as
  synced (`HandedOn` in `ResyncAfterMigration` and `CompletedIsThere`).
- A resync lists what was modified since the watermark, and every real job that completes
  sets it: a job of one category, one with a date for the mail, one whose items have
  all failed, even one with no category ticked. `ResyncAfterMigration` therefore says
  that a real job has completed and no more, `CompletedIsThere` speaks of what a job
  listed from the beginning and allows for failed rows, and `window_gap` shows what the
  watermark of a partial job costs.
- A `Retry-After` longer than the client's own wait is slept in full, with the token
  of the first attempt (`asked` in `TokenOutlivesBackoff`).
- The series of an event moves when its day differs in UTC, since BYDAY and BYMONTHDAY
  stay those of the organiser; a series with an end date loses or gains a last
  occurrence there too, UNTIL being midnight in UTC; summer time shifts every later
  occurrence, DTSTART having no time zone. These are the conditions in `RuleKeepsDays`
  and `DailyKeepsTimes`. Days a month does not have (the 31st) are not in the model's
  calendar: a rule skips them, Exchange takes the last day.

And stated by no property: one failed flush in `record_success` or `record_failure`
fails the whole job although the design says an item never does (`ItemFailsJob`); a
counter increment can be lost (`CommitFault`); an event delivered for the first time
after a failed attempt in an earlier job counts as updated (`SuccessCounter`); a job
cancelled after its last check ends CANCELLED and moves the watermark all the same
(`Complete`, and the wording of `SyncedByWholeRun`); items recorded as failed that are
older than the window are not listed by a resync, only by a new initial job.

## 4. Fairness

`MigrationJobs!FairSpec` is weakly fair for the startup hook, for each request
thread in its handler, for each canceller that has read, and for each pool
thread: the operating system runs threads that can run, calls to Graph and
mailcow return or raise, and every loop in them is bounded. For Graph and DAV the
code's HTTP timeouts see to that; `IMAPClient` is opened without a timeout
(`imap_importer.py:16`), so for IMAP it is an assumption on the network. Where the
code can only raise (`CompleteLost` for a deleted mapping) that is what happens
in the end. There is no fairness for users, for failures, for crashes, or for
choosing success over failure. `MailboxImport!FairSpec` is weakly fair for the
run and its restart, so `RunEnds` rests on the attempts being counted, not on
any delivery succeeding. `GraphClient!Spec` is weakly fair for the client's steps
together and for none of them in particular: `ListingEnds` rests on the position that
only grows, on the bounded attempts and on a folder that does not grow for ever. The
other modules claim nothing that must eventually happen.

Deadlock is checked in every run. `Quiet` stands for a system with nothing to do
and is enabled only there; `Over` and `Put` are the ends of a listing and of a
conversion.

## 5. Proofs

All theorems hold for every value of the constants; the bounds appear in them as
arbitrary numbers.

**MigrationJobsProofs**, from `MappingAssumption`, `BoundsAssumption` and, for
`RacesAreBounded`, `CreatorsAssumption`.
- `TypeCorrect`. Type correctness alone is not inductive: `FinishItem` takes one
  from `wleft`, and a thread must have a job. `WorkerShape` adds both.
- `CancellationIsFinal`. The only writers that could undo a cancellation are a
  commit that reuses an id and a guarded UPDATE. `Numbered` (ids above
  `lastJob` have no row, and nobody is about to cancel one) excludes the first;
  `StatusFrame` lists the steps that do not touch the status at all.
- `RunnersAreExclusive`. `RunnerInv` says that the job of a thread at work is
  RUNNING or CANCELLED, so `Start`, which wants PENDING, cannot give it to
  a second thread. The one step that takes jobs back to PENDING is `Boot`;
  `DownIsEmpty` says that then no thread is at work.
- `JobsOfAMappingAreExclusive`, for any number of creating requests at a time. `BatchInv`:
  the uncommitted jobs of a request are for different mappings, and none of these has an
  active job unless the request was overtaken on it. `Successive`: when a mapping's next
  job is made, and it is not of `raced`, the earlier ones are no longer active, and none
  becomes so again. `CommitJobs` is the step on which both hang: what it commits makes
  active jobs of choices, and it overtakes every other request that has made the same choice.
- `OverlapsHaveACause`, from the two before: two RUNNING jobs of a mapping are two active
  ones, and so the later one is of `raced`.
- `RacesAreBounded`, from `CreatorsAssumption` (the server's thread pool is
  finite): a mapping has at most as many active jobs as there are request threads
  (`ActiveJobsPerRequest`, stated in the proofs module; a run small enough for TLC has no more
  requests than that, so it would show nothing).
  Counting jobs alone is not inductive, since any number of threads may have chosen a
  mapping that has none yet. `RaceInv` counts jobs and choices together. `CheckRace`:
  a thread chooses a mapping only when it has no active job, and each thread at most
  once. `CommitRace`: a choice becomes one job. `NothingChosen` is every other step.
- `RunningJobsAreOwned`. The property is its own invariant once `RunnerInv` and
  `DownIsEmpty` are known: a job becomes RUNNING in the hands of a thread (`StatusSteps`
  lists how a status comes to be what it is), and a thread lets go of a RUNNING job only
  in a statement that raises (`ThreadGoesOn`), which a failed commit or read
  (`dbFaults` counts both) or a deleted mapping accounts for.
- `PendingJobsAreDispatched`. `OnItsWay` names the four places where a PENDING job can
  be: with the startup hook, in the request that committed it, in the queue, or with a
  thread that has not started it. `DispatchKept` follows a job from one to the next.
- `FinishedJobsAreSettled`. The commit that writes `finished_at` writes the end of the job
  with it, and none of the steps that come back to a job (`StatusSteps`) takes up one
  that has ended. `StoppingIsCancelled`: a thread stops on its own only when its
  job was cancelled.
- `WatermarksAreOfWholeRuns`. `SyncedBy`: the only step that moves a watermark is the last
  commit of a real run that has nothing left to do.
- `WatermarksMoveForward`. By `Successive` a job that still runs beside a later one was
  cancelled, or the later one is of `raced`; only such a job can move the watermark back.
- `MachineryImplementsLifeCycle`: initial states map to initial states, each step to a
  step or to none. `Reading` tabulates `TaskOf` by status, phase and whether a thread
  has the job, which `RunnerInv` and `DownIsEmpty` make unambiguous; each action that
  changes any of the three then has a lemma of its own (`BootMaps`, `CrashMaps`,
  `CommitMaps`, `CancelMaps`, `StartMaps`, `FinishMaps`, `GoneMaps`), and
  `MapsToStutter` is all the others. `CancelKnown` keeps a canceller from a job that
  is not there.

**MailboxImportProofs**, from `ItemAssumption` and `AttemptAssumption`.
- `TypeCorrect`.
- `DoneRowsAreDelivered`, `SkippedItemsAreThere`. `DeliveryInv` orders the
  versions: recorded, then in hand, then in Exchange; a version about to be
  recorded is in mailcow.
- `DuplicatesAreExplained`. `CopyInv` is an account of copies: each is paid for
  by the row that says done, by the record about to be written, or by something
  that went wrong.
- `CompletedJobsAreCurrent`. The property speaks of the end of a run; `CurrentInv` of
  every moment of it: all items the run has reached are dealt with (`DealtWith`), except
  the one in hand. What a skip means comes from `DeliveryInv`.
- `CountersAreComplete`. `CountInv`: until something goes wrong with the database or the
  container, the counters are one behind the items reached, or level between two items.
- `ReportsNameFailures`. `ReportInv` compares the failures counted with `FailedSoFar`, the
  rows of this run that say failed; the row of the item in hand may say so from an
  earlier run and does not count. A lost increment (`CommitFault`) only makes the counter
  smaller, which is why the theorem needs no more than a container that stays up.

**OverlappingRunsProofs**, from `ItemAssumption` and `BoundsAssumption`.
- `TypeCorrect`, with `RowInv`: a row that a session has seen does not go away.
- `RequestInv`: of the runs not in `raced` one is active at most, and while one of them is
  between check and commit no run is. All else rests on it through `ThreadInv`: at most
  one running job is not of `raced` (the `Sole` one), and any other thread with an item
  in hand is astray with it.
- `RecordsAreTrue`. `VersionInv` orders the versions of an event as long as nobody was
  astray with it (`Clear`); `HandInv`: what is about to be recorded is there.
- `FailuresLoseNothing`. `ConflictInv`: a row the sole job has overlooked, and the
  row its session broke on, were written by a thread astray with the item (`Overtaken`).
- `CopiesAreBounded`. `MailInv`: nothing is sent through a broken session, and nothing that
  is known to be done. A thread astray with a message is `Sending` it or through with
  it, and once through (`Late`) it stays so: `LateStays`. `CopyInv` allows a copy for
  each late thread and one for the sole job, which is not spent (`Owes`) while that
  job may still send. `CopiedKept` reduces a step to what it does to its own thread.

**SyncWindowProofs**, from `ItemAssumption` and `ClockAssumption` (the drift is
no larger than the buffer: what the design says the buffer is for).
- `TypeCorrect`, together with `ClockInv`, which keeps all times in order.
- `ResyncsLeaveNoGap`. The invariant has two halves. `Caught`: what is missing
  changed no earlier than the watermark, up to the drift. `Catching`: what is
  missing of the part a real run is done with changed no earlier than that run's
  start, up to the drift. `Catching` becomes `Caught` when the run completes and
  its start becomes the watermark. `PageInv` handles the items that have been
  listed and have moved on since.

**FolderMapProofs**, from `FolderAssumption`.
- `RefusalsAreExplained`, `StructureIsKept`. `InPlace`: an unmoved folder is
  where its row says it was created, and where the run at hand looks for it;
  `Walked`: a real run has a created row for each folder it is through with.
  Nothing is used of how a path is computed, only that nothing but the tree
  enters into it.

**MappingTableProofs**, from `BoundsAssumption` and `OrderAssumption`.
- `MappingTableTypeCorrect`. Not inductive alone: `Shape` says that there are no
  more mappings than the bound and no ids in use beyond their number, that a job has an
  id, and that a thread at work has a RUNNING job, a source and a target. The next id is one more than
  the largest in use; that there is a largest (`Greatest`) is well-foundedness of `<`.
- `PurgedStaysPurged`. `PurgeInv`: a password that is there was typed in after the last
  purge.
- `OwnInv` is what the other three rest on: whatever a job refers to is a mapping with
  the job's own id, and no mapping comes to an id before its predecessors (`target`,
  `source` and `held` are in the order in which they were made). `HistoryKept`: a mapping
  that was made stays in `made`.
- `ItemsGoWhereMapped`. An item is listed for a mapping with the job's id and delivered to
  one, though not always the same.
- `ResyncFollowsMigration`. With `SoleOwner`, an id that was not handed on has one mapping,
  so the job that writes the watermark was a job of that mapping; `HandedOnStays` makes
  the exception permanent, `CompletedStays` the job.
- `CompletedJobsHaveCopied`. `RowsInv`: a row of `migration_item` tells the truth about some
  mapping with its id, and an item that is delivered and not yet recorded is where the job
  has put it. While the id has one mapping, a skipped item is at the target. An item is
  `Accounted` for when it is there or its row says failed; `AccountedStays`: such a row
  goes only in a `Record` of the same item under the same id, by this job or another, and
  then the item is at the address. `ProgressInv` follows a job through what it listed from
  the beginning (`Full`), its mail and then its events; `DoneInv` keeps the result after
  the thread has gone.

**GraphClientProofs**, from `MessageAssumption`, `RetryAssumption` and `TimeAssumption`.
- `TokenLastsForCall`, for `MaxRetries = 5`, which is `MAX_RETRIES` in the code: a token
  that lasts longer than five of the slowest answers and 67 seconds is not expired on
  account of the client's own waits. 300 seconds and 46 per answer are one such pair, and
  the run has it. `TokenInv` is the account: what is left, the answers so far at their
  longest and the waits so far (`Waits(n)`, that is 2 + 4 + ... and a second of jitter
  each) make up at least what the call began with. The sum is written out for the five
  attempts (`BackoffAddsUp`), since a sum over n would be an induction over data.
- `ListingMissesByShift`. `Missed` are the messages that were there from the beginning, of
  which nothing is known and which no later page can bring, because they stand before the
  next position or there is no next page. `MissedInv`: there are at most as many as
  messages vanished from before that position. An arrival pushes messages back,
  towards the pages to come (`PrependFacts`); only a removal brings one forward
  (`RemoveFacts`), and exactly one.

**RecurrenceProofs**, from `CalendarAssumption` (an organiser is at most a day ahead of UTC
or behind it) and `EventAssumption` (an event has a first day, days of the week and an
interval greater than zero). There is one step, so no invariant has to be strengthened:
`ConvertInv` says that what is put is the translation of the event, and the rest is
about the two sides of the comparison, for a calendar of any size.
- `RulesKeepDays`. `RuleIsPattern`: with DTSTART on the organiser's day the rule picks a
  day exactly when the pattern does. For an index the two choose among different sets,
  the days of a month and the expansion of the rule's period; `MonthIsShort` and
  `SameMonth` show them to be the same days. For COUNT the two take the first n of
  two sets that agree up to the horizon and no further; `FirstsLocal` says that what
  lies after a day does not matter for whether it is counted. `DayInUtc` is the part
  that hangs on the time zone: with `SameDay`, a time and its local time are of one
  day, with the first offset and with the second.
- `DailyEventsKeepTimes`. `ShiftedDay`: with one offset a time and its local time are
  always the same number of days apart, and an event begins at most one day later in
  UTC than at home, so no day within the horizon is lost. For COUNT `FirstsShifted`
  carries "fewer than n before it" along the bijection between the days in UTC and
  those at home.

Only model-checked: the liveness properties (`PendingSettles`, `CancelStops`, `RunEnds`,
`ListingEnds`), which are out of the prover's reach. Every other property of a passing run
is a theorem.

## 6. What surrounds the code

Code that is not in the repository enters by what this code relies on.
- SQLite in WAL mode: transactions are serialised, a commit is atomic, a
  statement may raise after the busy timeout; foreign keys are not enforced.
- SQLAlchemy: `autoflush=False` (`session.py:37`), objects expire on commit, a
  failed flush leaves the session unusable until a rollback, an UPDATE of an
  object whose row is gone raises.
- SQLite ids: the tables have no AUTOINCREMENT, so a new row gets one more than the
  largest id there is, which is the last one's again after it was deleted.
- `ThreadPoolExecutor`: a FIFO queue, `CONCURRENCY` threads.
- MSAL hands out a cached token that is good for at least five more minutes, or a new
  one. Graph pages a folder by `$skip`, a position, and answers a request with an
  expired token with 401.
- RFC 5545: the times of a DTSTART with an RRULE; a time without TZID and with Z stays
  at its UTC time all year.
- IMAP: an append to a folder that does not exist is refused; every other append
  that takes effect adds a copy. CalDAV and CardDAV: a PUT replaces.
- Exchange: a moved folder keeps its id, a message its id and
  `receivedDateTime`; a `$filter` with `ge` is applied as it stands.

## 7. What is not modelled, and the plan

Not modelled because nothing there changes state that matters or TLC has nothing
to add: templates, configuration, logging, password hashing and the bootstrap of the
admin row, the engine setup and `_apply_missing_columns`, which run before anything
else; the fields of events and contacts that are copied as they are; all-day events,
whose date the code itself says may be off by one (`ics.py:83-90`); the list of
mailboxes offered beside the mappings. `mail_folder_map` rows of a deleted mapping are
inherited like item rows; `MappingTable` has the item rows only.

All safety properties of the passing runs, invariants and action properties, are theorems.
Left to do:
1. Type correctness of `FolderMap` and `GraphClient` in full; so far their proofs have as
   much of it as they use.
2. In `OverlappingRuns` nothing fails but the unique constraint; lost answers beside a
   cancelled thread would join its account of copies with that of `MailboxImport`.
