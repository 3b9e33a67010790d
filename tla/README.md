# TLA+ project of nooa-sns

nooa-sns runs SNS channels (Instagram, YouTube) with a team of LLM agents: at
every slot of the day a cycle researches a topic, writes content, renders media
and lands a publication in PostgreSQL; a quality gate and, in `hybrid` mode, an
operator let it pass; a batch posts it; metrics slots poll what became of it and
settle a reward that weighs the next choice of a topic. This directory holds
TLA+ models of the parts of that program where order, failure and concurrency
matter, the TLC configurations that check them, and TLAPS proofs of the results
that hold for every value of the constants. Paths below are relative to
`src/src/sns/` unless they begin with `src/`.

Run `tlc -config <run>.cfg <MC module>` and `tlapm <module>Proofs.tla`;
`PROJECT.json` lists every run with its module, the mutant that shows each
property can fail, the source lines each definition models, the hazards, the
findings and the theorems.

## The system

| Component | State it keeps | Operations | Talks to |
|---|---|---|---|
| Publish path: `publish/` | `publish_attempt` (one row per publication), `publication.status`, `external_post_id` | `run_pending_publications`, `StateMachinePublish`, `run_publish`, `PgAttemptStore.load/save` | platform adapters, quality gate's SQL, operator |
| Platform adapters: `adapters/instagram/publisher.py`, `adapters/youtube/publisher.py` | nothing of their own; containers and posts live on the platform | create container, wait, media_publish; resumable upload | platform HTTP APIs |
| Cycle runner: `runner.py`, `store.py` | `cycle`, `topic`, `content_item`, `media_asset`, `publication`, `analysis_note`, `run_event` | `run_cycle`, `_persist`, `PgCycleStore.*` | orchestrator agent, sandbox gate |
| Approval: `approval.py` | the gate's sets of approved and notified keys; the review columns | `ApprovalGate.__call__/approve`, `approve_publication` | operator, notifier, publish tool |
| Scheduler: `scheduler.py` | none but the loop's locals | `next_slot`, `due_slots`, `run_resident` | clock, the resident trigger in `bootstrap.py` |
| Learning loop: `learning/loop.py`, `learning/reward.py` | `metric_observation`, `metric_value`, `reward`, `topic_stats` | `due_windows`, `poll_due_metrics`, `settle_rewards` | metrics adapters |
| Operations CLI: `bootstrap.py` | the process's connection and its media store; reads `channel` | `cycle`, `publish-pending`, `metrics`, `approve`, `set-token`, `yt-auth`, `resident` | all of the above |
| Trend research: `research/` | futures of one call | `ResearchTrendsService.__call__` | web sources, agents |
| Migrations: `db/migrate.py` | `schema_version` | `apply_migrations` | PostgreSQL |
| Playbook: `learning/playbook.py` | `playbook` versions | `PgWritePlaybook.__call__` | analyst agent |
| Credentials: `crypto.py`, `adapters/youtube/auth*.py` | the encrypted token column | set-token, yt-auth, refresh | Google OAuth |
| Alerts: `notify/` | `run_event` rows | `dispatch_alert` | LLM, Discord; no caller in the program yet |
| Rendering: `render/` | media files, or bytes in the process | `render_card`, `render_video`, `put` and `load` of the media stores | fonts, TTS, ffmpeg; the adapters read what it stored |
| Scoreboard: `signals/scoreboard.py` | none | `signal_values`, `compute_scoreboard` | metrics; no caller in the program yet |
| Quality gates: `quality/gate.py`, `render/video/quality.py` | none | `check_card`, `check_video` | renderers; no caller in the program yet |
| Web page, agents' prompts | none | read-only SQL, text | |

The components share one PostgreSQL database. There is no in-process queue:
what one process knows of another is what it reads from a table, usually in one
statement and then acted on in another. The CLI may run any number of times at
once (cron, resident, an operator at a terminal), nothing takes a lock, and
almost every statement is its own transaction; the multi-statement transactions
are `PgAttemptStore.save`, the observation with its values, the reward with its
statistics and `approve_publication`.

What makes it hard:

- *Two truths.* The platform's posts and the ledger of them cannot be written in
  one step; a crash, a lost reply or an escaping exception comes between.
- *Stale snapshots.* The batch selects its rows once and works on that reading
  through uploads that take minutes; the metrics slot does the same.
- *Overlapping processes.* Two batches, a batch and an agent's tool call, two
  metrics slots, two cycles of one slot.
- *Partial failure.* A cycle lands row by row; only the orchestrator's call is in
  a `try`. A setting may be missed after the model was paid.
- *What another process has.* Rendered bytes may live in the memory of the command
  that made them, or in a file somebody is still writing.
- *Time.* Slots at the ends of the day, sleeps that end late, a wall clock that
  is set back, windows that come while a slot polls.

What makes each part correct:

- *Publish path*: nothing goes out that did not pass the gate (entry only, an
  attempt under way is not judged again); at most one live post per publication;
  the ledger and the publication agree; terminal is final and silent; a container
  made is reused; what is due gets settled.
- *Cycle runner*: a closed cycle landed exactly what its result carried; nothing
  landed changes; the events tell the story of the ledger; what waits for review
  is not posted; every open cycle is closed.
- *Scheduler*: slots fire once, in order, never early; none that comes during a
  planned sleep is lost; the catch-up computation is exact.
- *Learning loop*: statistics equal the sum of the rewards; no window observed
  before it came, none twice; a reward rests on its own observed window and on
  enough samples; every post is judged in the end.
- *Trend research*: a slow source delays the call by one timeout at most and costs
  no other source its answer.
- *Migrations*: every file takes effect once, in order, whoever races for it.
- *Rendering*: no text is lost or set over another without the overflow being
  reported; what is seen, read and heard stays together; what is served is what was
  rendered.
- *Playbook*: versions go forward, one at a time, whoever writes.
- *CLI*: what a command lacks ends it before it costs anything; a channel that is
  off posts nothing.
- *Cycles and publishing together*: whatever a batch or an agent's tool does, the
  cycle's ledger sees settled only what passed its review.
- *Publishing and learning together*: a post is dated once, what is measured is the
  post on record, and no topic is credited for a post that is not there.
- *Alerts*: the message is accepted, says the class, and agrees with the row.
- *Scoreboard*: no verdict without the samples for it.
- *Quality gate*: the report says of a card what a reader sees of it.
- *Credentials*: a token that works goes on working through any overlap of
  commands; the advice a command gives is one that helps.

## Modules

| Module | Models |
|---|---|
| `PublishContract` | vocabulary of `tools/contracts.py`, the CHECK constraints and the state sets of the state machine |
| `PublishOnce` | abstract specification of the publish path: one post, then the word; given up only without one |
| `PublishPipeline` | `publish/runner.py`, `publish/tool.py`, `publish/state_machine.py`, `publish/stores.py`, `publish/dispatch.py`, the two adapters, and the environment (landing, rendering, approval) |
| `RewardLedger` | abstract specification of the learning loop: judged once, counted in the same step |
| `LearningLoop` | `learning/loop.py`, `learning/reward.py`, the metrics adapters' answers |
| `Scheduler` | `scheduler.py` and the resident trigger of `bootstrap.py` |
| `CycleRunner` | `runner.py`, `store.py`, the sandbox guard, `approve_publication`, `run_slot` |
| `PublishSystem` | the commands of `bootstrap.py` over one database: `CycleRunner` and `PublishPipeline` composed, the former as the abstract specification of the whole |
| `FeedbackSystem` | the metrics slots over the database of `PublishSystem`, with `LearningLoop` as the abstract specification of the whole |
| `ResearchTrends` | `research/trends.py`, the service |
| `Migrations` | `db/migrate.py` |
| `TextLayout` | `render/card/renderer.py`, wrapping and stacking |
| `CardQuality` | `render/card/spec.py`, `quality/gate.py`, around `TextLayout` |
| `VideoTimeline` | `render/video/renderer.py`, `subtitles.py`, `tts.py`, `spec.py` but for colours and voice, `quality.py` |
| `Alerts` | `notify/` |
| `Scoreboard` | `signals/scoreboard.py` |
| `Credentials` | `crypto.py`, `adapters/youtube/auth_db.py`, the token commands of `bootstrap.py` |
| `Playbook` | `learning/playbook.py` |
| `MediaStore` | `render/storage.py`, `render/storage_local.py`, and the adapters as their readers |
| `CommandLine` | the seven commands of `bootstrap.py`: settings, order, refusals, whose rows a batch posts |
| `Services` | the ten service modules side by side, as they share no state |
| `MC*` | constants of the runs |
| `*Proofs` | theorems |

### PublishPipeline

`status`, `postId`, `ledger`, `assets` are the tables, `claims` the posts an agent
says it made, which `Land` brings and `MarkClaimed` records; `containers`, `spent`,
`posts` the platform; `pc`, `rows`, `job` the locals of a worker. `StartBatch` is
the SELECT of `_SELECT_PENDING`, and `RowWaits`, `RowRejected`, `RowEnters` are
the loop's branches on the *snapshot*. `LoadTerminal`, `LoadRaises`,
`LoadProceeds` are the three ends of `run_publish`'s head; `CreateContainer`,
`WaitProcessed`, `MediaPublish`, `CallFails` the calls of the adapters;
`Save` is the transaction of `PgAttemptStore.save`. `ReplyLost`, `CallRaises`,
`Crash` are the faults. `AgentCall` is the same state machine reached from the
publish tool, with a platform and a kind of the agent's choosing. Idempotency
keys are identified with publication ids: `run_publish` is called with
`str(publication_id)` by the batch, and a key an agent makes up violates the
foreign key of `save`. The errors are the classes of the contract that the
adapter of the platform can find (`ErrorsOf`); which HTTP status gives which is
left out, any of them may come. An upload whose reply is lost may count as
transient or as permanent, since the YouTube adapter catches every exception. A
render adds an asset of the gate's verdict (`RenderAsset`): the batch relies on it
(`publish/runner.py:115-117`) although the CLI itself calls `save_media_asset`
once per cycle, so `MaxAssets = 1` is the program of today and 2 the one its
query is written for. A YouTube worker has the bytes of its media; who has them and
who has not is `MediaStore`'s.

### LearningLoop

A worker's slot is `SelectPosts`, `SelectObserved` (the two SELECTs of
`due_windows`), a poll and a transaction per window (`PollAnswers`,
`PollRaises`, `Store`, `StoreRaises`), then `SelectUnsettled`, and per
publication the reward function and its transaction (`Judge`, `Record`,
`RecordRaises`). The UNIQUE constraints are the guards of `Store` and `Record`,
their violations `StoreRaises` and `RecordRaises`, which end the process as
nothing catches them. `age` counts the windows that have come. A signal is
missing, zero or positive, `InstagramInsights` and `YouTubeMetrics` say when it
is missing; a ratio is one of `Rewards`; the median is above zero
unless more than half of the samples are zero.

### Scheduler

Time is `<<day, tick>>`. `Plan` reads the clock once and sleeps for the
difference (`left`), a monotonic wait, while `Tick` moves the wall clock and
`SetBack` sets it back. `NestedRun` says that the trigger calls `asyncio.run`
inside the running loop, as `bootstrap.py:452` does; with it `FALSE` the module
is the scheduler with a trigger that works.

### CycleRunner

A cycle's result is the set of its non-empty fields. `pc` walks through the
statements of `run_cycle` and `_persist` by `NextStage`, which has their order
and early returns. Every statement may raise (`StatementRaises`), the process
may die anywhere (`Crash`), the orchestrator may return anything or raise. The
posting is a single step per publication here (`Post`), by a batch or by the publish
tool of an auto channel's agent while its cycle runs; `PublishPipeline` has it in
full.

### PublishSystem

It EXTENDS `PublishPipeline` and has `CycleRunner` as the instance `C`: `status` is
its publications, the last asset its `AssetOf`, `stage` its `pc`. A process takes
the runner's steps while the pipeline's `pc` is idle and the pipeline's while its
stage is `batch` or `agent`; `SaveAsset` and `CreatePublication` replace the
pipeline's `Land` and `RenderAsset` with the statements of `_persist`; an approval
and a death in mid-call are steps of both. A whole posting, container, wait, publish,
save and all retries, is `C!Post` at its `Save` and a stutter before, so that
`CyclesSpec == C!Spec` is the refinement. `Command` lets a process begin only while
no other runs (`publish/runner.py:20-23`); two channels take turns in any order.

### FeedbackSystem

It EXTENDS `PublishSystem` and has `LearningLoop` as the instance `L`. In `LearningLoop` a
post appears by itself (`Publish`); here `age` starts with the UPDATE of
`PgAttemptStore.save`, which writes `external_post_id` and `published_at` together
(`Dates`). `SelectPosts` is the query of `due_windows` on `status` and the post id, and
`targets` the post ids it read: a poll minutes later is of that post, whatever
the publish path did in between, which `measured` remembers. The other steps of a
slot are those of `LearningLoop`. Publishing commands take turns as in
`PublishSystem`, the pollers overlap with everything. Two publishers that overlap are
outside this deployment: the second `save` would write another post id and
`published_at` over the first (`publish/stores.py:89-98`), and the
observations of one publication would mix two posts.

### Services

`Services` composes the modules below: `part` names the service a behaviour is
about, the others stay idle. `MCServices` instantiates it and fixes what an idle
service might begin with, which the one that runs cannot see (`SmallInit`).

`ResearchTrends` counts time in ticks while the caller waits. `Ask` starts the
threads, `Answer` ends one, `Collect` and `GiveUp` are the two ends of
`future.result`. The caller is prompt: `Tick` is possible only while it has to
wait. The thread pool has a worker for every name, so all start at once.

`Migrations` has one action per statement of `apply_migrations`; the statements
of a file are opaque, `effects` counts how often they were committed. Nothing is
assumed of them that would keep a second application out, `IF NOT EXISTS` for
instance: what keeps it out is the primary key of `schema_version`.

`TextLayout` wraps by the greedy algorithm of `_wrap` with widths that add up; a
font's kerning, and the difference between a text's bounding box and its
advance, are left out. `VideoTimeline` counts in samples: a slide's
segment is `Frames` of its WAV's length, a subtitle's ends are `Printed`
cumulative lengths. `Alerts` represents a text by its length, with the limits of
the code; `Scoreboard` keeps fractions exact, one ratio and one raw signal stand
for all.

`CardQuality` puts the parser before the layout and the gate behind it. A colour
is its six characters, read as Python's `int(text, 16)` reads them, whole by
`_valid_hex` and in pairs by `_hex_to_rgb`; the contrast is any answer. A block is
drawn (`DrawBlock`) when its font can be loaded: `FontSize` is the width divided and
rounded down, and with 0 the render ends there (`FontRaises`), after the blocks before it were drawn. Pillow's
limit of a million characters for one text is left out.

`Credentials` is one channel's row and the commands that read it. `LoadYouTube`
is the SELECT and the restoring of `ensure_credentials`, `Refresh` the call to
Google, `Persist` the UPDATE that follows without looking at the row again;
`Flow` and `PersistNew` are yt-auth's browser and UPDATE. `LoadInstagram` and
`Provide` are `load_channel` and the lazy decryption of what it read. The
environment rotates the key, takes grants back and lets access tokens expire;
`overtaken` marks the commands during which it did, so that a property can say
what they are excused from.

`Playbook`: `BeginWrite` is the snapshot of the one INSERT ... SELECT, `InsertRow` and
`InsertRefused` its two ends; UNIQUE binds the lineages of `Referenced`, whose
`scope_ref` is not NULL.

`MediaStore`: a file comes to be in three steps, opened, half written, whole, and
`LookForFile` returns the URL of one at any of them. `served` keeps what each
reader got; `overlapped` and `interrupted` remember who wrote at once and who died.

`CommandLine` has each command as its sequence of steps (`Steps`); `Lacks` says where
one of them ends it. A cycle and the posting of a row are single steps.

`VideoTimeline` ends in the gate of `render/video/quality.py`: the picture's size and shape, the
duration of the file and the volume of its sound, as `check_video` asks for them. What
ffmpeg's AAC encoder adds to the sound (its priming and the padding of the last frame)
is left out, so `GateAgrees` is about a file as long as its narration or its pictures.

## Runs

| Run | Question | Bounds |
|---|---|---|
| `publish_reliable` | Without faults, is every publication posted at most once, is the path an implementation of `PublishOnce`, and is everything due settled? | one hybrid Instagram worker, a card and a reel, 2 assets, 2 containers and 2 posts each: one more than a correct run makes |
| `publish_system` | Do ledger and publication ever part, is terminal silent, is a container kept, does what waits for review stay off the platform, and is the whole an implementation of `CycleRunner`? | two processes, a hybrid and an auto channel, two cycles with a full result each, agents' calls, 2 containers and 2 posts each, one lost reply, escaping exception or death in the middle of a call (`MaxFaults = 1`) and one process that ends (`MaxEnds = 1`). A death in the middle of a call is both, so a fault can come before or after an end between two statements, but nothing further strikes the recovery from a death in mid-call. 1.14 million states |
| `publish_two_workers` | Does a race let anything ungated out or record a post that is not live? | an Instagram and a YouTube worker in auto mode, agent calls of either, claimed posts, one publication (workers share nothing else), 2 assets, 1 container, 2 posts, 1 fault |
| `learning` | Do overlapping slots count twice, rewrite history or leave `RewardLedger`, and is every served post judged in the end? | two workers that poll one post, so that both meet at every UNIQUE constraint, one crash; no least number of samples, so that its reward counts |
| `feedback` | Is what a slot measures the post on record, whatever the publish path does meanwhile, is a topic credited for nothing that is not live and reviewed, does a reward rest on its observation and samples, and is the whole an implementation of `LearningLoop`? | an auto channel with two cycles, each landing one card of the same topic, so that the posts meet in one arm and are each other's samples (`MinBaseline = 1`); one poller, one fault of the publish path, one death of the poller, 1 container and 2 posts each. 0.7 million states |
| `scheduler` | Once, in order, in time, none lost? | four ticks a day, three days, slots at midnight and at the last tick and one repeated; one raise, one crash, one set-back |
| `cycle` | Whole, final, truthful, reviewed? | two hybrid workers, two cycles, any result, one failing statement, one crash |
| `services` | What each service promises, from its idle state | one service per behaviour, they share no state; three names asked of two registered sources, timeout 2; two releases of 2 and 3 files, one failure, one crash; paragraphs of up to three words, one of them wider than a line, blank ones, three heights, one of them negative, all colours of six characters of five kinds, sides around both limits and around the least width of each font; three slides of seven lengths around the rounding points of an eight-sample frame; alerts with texts of 5 and 5000 characters and up to 6 context values, enough to pass the 4000 of a message; up to 3 posts against a least number of 2 (the code's 5); two commands, two keys and two grants, one set-token, so that every pair of writers of the row can meet; three writers and four writes of the playbook, one lineage with a reference and one without; two processes over one reel in either store; one shell with three commands in a row over two Instagram accounts and one of YouTube, each with at most one setting missing, and one edit by the operator. 1.16 million states |

The passing runs fire every action; with one poller `feedback` has nobody to violate a
UNIQUE constraint, which `learning` does. Every safety property of a run is also a
theorem, and two are theorems only: `NotTooEarly` and the type invariant of
`LearningLoop`. Symmetry is used over workers, and in
`services` over commands and grants, never in a run with a liveness property. `CHECK_DEADLOCK FALSE` is in the scheduler's
runs because the model's time ends at `LastDay`, and in `services` because a card,
a video, an alert and a scoreboard are finished when they are made and the writes
and commands are bounded.

Four runs find the code at odds with what the repository says of it; each is a
finding in `PROJECT.json`:

- `crash_reposts`: a crash after `media_publish` and before `save` leaves no
  record; the next batch makes a new container and posts again
  (`publish/state_machine.py:86`; `src/docs/nooa-sns-spec.md:80,128`).
- `one_row_blocks_batch`: an image row of a YouTube channel raises out of the
  batch at every try and the rows after it are never visited
  (`publish/runner.py:149`, against its comment at 85).
- `resident_runs_nothing`: the resident trigger calls `asyncio.run` inside the
  running loop and dies at its first slot (`bootstrap.py:452`).
- `failed_statement_leaves_running`: a statement outside `run_cycle`'s `try` that
  raises leaves the cycle `running` for ever. In the trace it is the `cycle_started`
  event (`runner.py:58`); a statement of `_persist` that raises does the same.

More disagreements can be seen by changing a constant or taking an exception out of a
property, and are not kept as runs:

- a lost YouTube reply posts again (`adapters/youtube/publisher.py:135`; its
  comment 106-107): `AtMostOnePost` with `Channel <- YTHybrid1`, `MaxFaults = 1`;
- two workers post the same row (`publish/runner.py:89`; `runner.py:21-22`,
  `src/docs/nooa-sns-spec.md:129`): `AtMostOnePost` with two workers, no fault;
- two workers leave the attempt and the publication in different terminal states
  (`publish/stores.py:73`; 4-6): `LedgerAgreement` with two workers;
- a post the agent claims is published without an attempt (`runner.py:156`):
  `LedgerAgreement` with `AgentClaims = TRUE`;
- nothing keeps two triggers of one slot from two cycles (`store.py:189`;
  `scheduler.py:5-6`, `src/docs/nooa-sns-spec.md:122`): `OpenCycle` has no guard
  on the slot, and no column to put one on;
- an auto channel waits for the operator as well, media is always `needs_review`
  (`runner.py:149`; `src/docs/diagrams/operator-userflow.mermaid:13`);
- `Scoreboard.sample_count` is the number of posts it was given
  (`signals/scoreboard.py:120`), its comment at 78 says those that went into a
  baseline; the verdicts themselves count the latter (`VerdictEarned`);
- a colour such as `#0_0000` passes `_valid_hex` (`render/card/spec.py:73-80`) and
  makes `_hex_to_rgb` raise a bare `ValueError`, although the parser says the
  renderer only sees complete values (`spec.py:3-5`): the phase `raised` of
  `CardQuality`, which `ReportTrue` confines to such colours and to the next case;
- a width of 1 to 29 passes `_parse_dimension` (`render/card/spec.py:97-103`) and
  leaves a block, at last the footer, with a font of size 0, for which Pillow raises a
  bare `ValueError` (`render/card/renderer.py:120,128`), against the same `spec.py:3-5`:
  `FontRaises` of `CardQuality`;
- a YouTube token of another key, or one Google took back, ends a command with
  `DecryptionError` or `RefreshError`, and yt-auth with the same one: it restores
  the row before it opens the browser (`adapters/youtube/auth_db.py:58-67`). Only
  set-token helps. `AdviceHelps` says that a command advises yt-auth only where
  it does help;
- a command that runs while the key is rotated writes its token back under the
  old key (`adapters/youtube/auth_db.py:67`): `UsableStays` without its last
  disjunct;
- a batch takes the pending rows of every channel and posts them on the account of
  the command's own, those of a channel that is off too (`publish/runner.py:49-63`;
  the isolation of channels of its line 85): `PostsOnPlatform` holds of the
  platform and not of the account;
- `approve` says that `publish-pending` will publish (`bootstrap.py:411-413`;
  `approval.py:69`, `src/docs/REMAINING.md:33`), but in another process than the one
  that rendered there are no bytes for YouTube and nobody serves a `mem://` URL
  to Instagram (`bootstrap.py:353`): the upload fails for good. `ServedAsRendered`
  without its last conjunct;
- `LocalDirMediaStore.put` leaves a torn file as it is and returns its URL, its
  comment says that the same checksum need not be written again
  (`render/storage_local.py:24`): `ServedAsRendered` without `interrupted`;
- two writers of the global playbook get the same version, the docstring counts on
  UNIQUE to refuse that (`learning/playbook.py:3-4`), which does not bind a NULL
  `scope_ref`: `OneRowPerVersion` over all `Lineages`;
- `channel.status` has `paused` and `revoked` (`db/migrations/001_initial.sql:9`), and
  no statement reads it: only `mode` stops a channel;
- the Instagram token is asked for when a request is made (`bootstrap.py:94`), though
  building the adapters is to fail fast (189): `FailsFast` without its exception;
- a first poll that comes late stores the same present value as the observations of
  6, 24 and 72 hours (`learning/loop.py:95`): `NotTooEarly` has no upper bound;
- the catch-up of `due_slots` has no caller: a resident that was down, or a trigger
  that runs past the next slot, loses slots (`scheduler.py:35,76`):
  `SleepsThroughNone` is about planned sleeps only;
- a wall clock set back fires a slot twice (`scheduler.py:70`; 5-6): `Ordered`
  without `ClockKept`.

### Fairness

- `PublishPipeline!FairSpec`: weak fairness of each worker's batch and attempt (a
  process that runs, runs on, and the batch is run again and again by the
  scheduler or cron); strong fairness of an answer that is not transient at each
  kind of call (a platform asked again and again answers at last). Nothing is
  assumed of the operator, of rendering or of agents: `Settles` begins where the
  gate was passed.
- `LearningLoop!FairSpec`: windows come (time), slots are run and run on, and a
  platform polled again and again answers (strong, since polls alternate with
  the rest of the slot). Publishing is not fair.
- `Scheduler!FairSpec`: time passes and the loop is scheduled.
- `CycleRunner!FairSpec`: a process that runs, runs on, and its batch; approvals
  are not fair.

## Proofs

Each theorem is for every set of publications, workers, slots or cycles, every
assignment of platforms, formats and modes, and every bound; the assumptions are
the `ASSUME`s of the modules and nothing else. They only type the constants, but for
`NoClaimsAssumption` of `PublishSystem`: no agent claims a post it did not make.

- `PublishPipelineProofs`: `TypeCorrect`, and `GateGuardsEntry` (`NothingUngated`).
  The gate is asked at two places, of a snapshot and of a query, and acted on
  later, so the invariant is strengthened: a snapshot row that says "passed" or
  "entered" belongs to a publication with a passed asset (`SnapshotPassed`), and
  so does every call beyond the gate (`CallPassed`). It is inductive because an
  asset never leaves "passed" (`PassedStable`), and nothing passed is there before its
  row (`NonePassedBeforeRow`).
  `RecordedPostIsLive` (`PublishedIsLive`) is for any number of workers, which save
  over one another: the post a worker is about to record is live (`ResultLive`), and
  nothing takes a post from the platform, so it still is when the worker saves.
  For *one* worker and no claimed posts (stated as hypotheses: with two workers it
  is false, see above), `LedgerNeverDiverges`, `SilentOnceTerminal` and
  `ContainerReused`. The inductive invariant says that an
  idle worker holds no rows, that the snapshot is current as to whether an attempt
  exists for the rows not yet visited, that a call in progress is about an open
  attempt and none of the remaining rows, and that its container is the recorded
  one. `LedgerAgreement` speaks of the states (`StatesAgree`) and of the post id, there
  exactly when the attempt is published (`IdsAgree`); the latter rests on `ResultLive`,
  an id is written with the state and never taken back. The lemmas ask only that no two
  workers be busy at once in the states of the step (`OneBusy`), so that the composition
  can use them. `RepostsAreFaults`: every
  post of a publication after its first took a fault of its own
  (`RepostsTakeFaults`, a bound no run states; `PostsCounted`: as many
  posts as faults, and one more if it is recorded or about to be);
  hence `PostedOnce` without faults. `PathImplementsOnce` is the refinement of
  `PublishOnce`, under the hypotheses of the run that checks it: one worker, hybrid
  channels (an auto channel's agent is a second worker), no claimed posts, no faults. Each of
  them is needed, the disagreements above are what happens without.
- `PublishSystemProofs`: `SystemImplementsRunner`, the refinement of `CycleRunner` by
  the whole, and `ReviewHoldsOffPlatform`, for any number of processes; neither uses
  that they take turns. `SystemLedgerAgrees`, `SystemTerminalIsSilent` and
  `SystemContainerKept` do, from the further invariant that one command is under
  way at most, which makes `OneBusy` a fact instead of a hypothesis; so do
  `SystemPostIsLive` and `SystemRepostsAreFaults`, where the processes change but the
  posts are still counted against one budget of faults. A step of the
  pipeline maps to `C!Post` where its `Save` settles a publication, because a call beyond
  the gate is about a row that is there and passed (the gate's invariant of
  `PublishPipelineProofs`) and is made in a batch or by an auto channel's agent
  (`Within`); that a cycle's rows land in its order is the stages' invariant of
  `CycleRunnerProofs`. `SystemCyclesAreWhole` lifts the runner's own promises through the
  refinement: whole, lasting and truthful cycles whatever comes between their statements.
- `FeedbackSystemProofs`: `FeedbackImplementsLoop` (`LoopSpec`), the refinement of
  `LearningLoop` by cycles, batches, agents and slots, for any pollers. What
  `LearningLoop` takes for granted, that a post appears once, is here the terminal
  state being silent: the invariant of one publishing process
  (`PublishPipelineProofs`) says that a save that writes a post id finds none, and that
  `status`, `external_post_id` and `published_at` agree, so that the query of a slot selects
  exactly what has appeared. `LoopPromisesHold` carries `RewardsEarned`, the statistics and the
  history over. `WhatIsMeasuredIsOnRecord` (`MeasuredIsRecorded`): a post id a slot
  read is still the recorded one when it stores, because no post id is ever replaced.
  `TrialsRestOnPosts` (`TrialsHavePosts`) joins the three: a trial is a reward, a
  reward is of a published row, and a published row is live and passed its gate.
- `LearningLoopProofs`: `LoopTypeCorrect`; `LoopImplementsLedger`, the refinement of
  `RewardLedger` for any number of overlapping slots; `StatisticsAreRewards`
  (`StatsMatchRewards`), with its counting half `TrialsCountRewards`: a sum over
  any finite set of publications grows by what a step records; `WindowsMature`
  (`NotTooEarly`), whose invariant bounds what each worker remembers by what time
  has brought; `HistoryStays`; and `RewardsAreEarned` (`RewardEarned`): what a worker
  read before its transaction is still so when it records it, because observations
  are only ever added and windows only come.
- `SchedulerProofs`: `NextSlotIsNext` and `CatchUpIsExact` about the two pure
  functions for any ascending list of slots; `SlotsFireOnce`, `SlotsFireInTime`,
  `SleepMissesNoSlot` while the clock is not set back, from the invariant that a
  sleep of `left` ticks from `now` cannot end before its target and that no slot
  lies between.
- `CycleRunnerProofs`: `CycleTypeCorrect`, `ClosedCyclesAreWhole`, `LandedRowsStay`,
  `ReviewIsKept`, `EventsAgree`. The invariant ties the stage a worker is at to
  the rows its cycle has; that no two workers run one cycle is part of it.
- `ServicesProofs`: `SchemaIsSound`, with its parts `FilesApplyOnce`, `SchemaHasNoGap`
  and `ReportsAreHonest`, for any number of runners, releases, failures and crashes:
  the invariant says that all below the file a runner looks at is applied, which
  its stale reading of the table cannot undo. `DelayIsContained`, with
  `PromptSourcesKept` and `CallsAreBounded`, for any sources, request and timeout: a
  result that is not ok has an excuse that lasts, its source raised, or a timeout
  has passed and it had not answered before. `MediaAreServed`, for any processes and
  media: the last one to open a file writes both of its halves after that, so a
  file nobody is in and nobody died in is whole, whoever overlapped.
  The algorithms of the services, for any input:
  - `VideoKeepsInStep` (`KeepsInStep`): a rounding is off by half a unit at most, so
    the sums over any number of slides are off by half a unit a slide, and a cue's
    ends, being rounded sums themselves, by half a unit in all.
  - `AlertsAreWhole` (`AlertTold`): the lines of an alert are cut at the end only, and
    class, cause and raw error come first and fit (`PriorityFits`).
  - `VerdictsAreEarned` (`VerdictEarned`): at least half of the samples are on either
    side of the one in the middle of the sorted, whatever ties there are.
  - `TextsWrapFaithfully` (`WrapFaithful`): what `_wrap` has set after any number of
    words joins to the words given (`Sound`), and if no word had to be cut no line
    could have taken the next one's first word (`Thrifty`); `CutIsGood` is the same for
    the characters of a word that is cut.
  - `ReportsTellTheCard` (`ReportTrue`): the lines drawn stand apart above `nextTop`
    and show the texts set so far (`CardInv`), so that the footer can meet none of
    them unless it begins above `nextTop`, which is what `overflow` says. Every block that
    was drawn had a font (`Fitting`), and the smallest width that `min_resolution`
    accepts has one for each, so a render raises on a colour or on a width that is
    below `MIN_CARD_SIDE`.
- `OperationsProofs`: `PlaybookAdvances`, for any writers and lineages: what a writer
  is about to insert follows a version of the snapshot it took, and no later
  commit takes a version away. `AdviceIsSound` (`AdviceHelps`) and `TokensStayUsable`
  (`UsableStays`), for any commands that overlap, any keys and grants: what a command
  holds to refresh or to persist it read under the key it has, of a whole grant that
  is its own (`HoldsKey`, `HoldsFull`, `HoldsFound`). `CommandsAreOrdered` (`CommandsInOrder`), for any
  shells, accounts and environments: what a command has done is a prefix of its
  steps, and each step before found what it asked for. `ServicesAreIndependent`: the
  composition implements the specification of every service, since a step of one
  leaves the others alone; hence `ServicesKeepTheirPromises`, all that the run `services`
  checks, and `ServicesTypeCorrect` (`ServicesTypeOK`). The types are not only a matter of
  assignments: that a payload has a length and names parts an alert has, that the rows of a
  scoreboard have a value, a baseline and a tag, and that a card is drawn from `nextTop`
  and a list of lines, follows from what the algorithms
  compute (`AlertInv`, `ScoreInv`, `CardInv`).

The provers know induction only over numbers they are given, and the library's
induction theorems cannot be used. What the services' proofs need is derived in first-order logic
in `ServicesProofs`: every nonempty set of numbers has a least one (from the
well-foundedness theorems about sets), so a set with 0 and with every successor of
its members is `Nat` (`Counting`); a set with `<<>>` and with every `Append` to its members
has all sequences (`Lengthening`); the recursive function behind the library's
folds and `FlattenSeq` exists (`FoldExists`, `FlatExists`), so their CHOOSE is that
function, and a fold over `Append(s, e)` is a step from the fold over `s`
(`WordWidens`, `CutAppend`, `PlaceAppend`, `FlatAppend`).

Only model-checked: liveness (`Settles`, `AllJudged`, and the refuted `SlotsRun`,
`CyclesClose`), which is outside the prover's reach, as ENABLED is. Of the refuted
`AtMostOnePost` there is what remains true, the bound of `RepostsAreFaults`.

What the proofs said of the model, and what was changed for it:

- two cases of `Restored` in `Credentials` overlapped, a text under another key, and
  which one a CASE takes is not determined; they are an IF now, in the order of the
  code's conditions;
- `CommandLine` named what a step did by one `@` inside another, which TLC and the
  provers read differently; `Does` says it without;
- the assumption that an alert's priority lines fit said nothing where there are no
  classes; it is about a missing class too, and the code's limits satisfy it;
- a `Scale` of 0 made every ratio of `Scoreboard` equal and `VerdictEarned` false; it is
  positive now, and the samples are indexed by post instead of selected, as
  the provers cannot see into the library's `SelectSeq` and `SortSeq`;
- the characters of a text were not typed, nor had the heights of a canvas a
  greatest one that `CardQuality` could try;
- nothing said that the bounds of `CommandLine` are numbers.

## Not modelled, and why

- *Prompts and agents*: what an LLM returns is any value at all. Their effect on the
  database is through the tools and the runner, which are modelled.
- *HTTP, parsing, HTML, argument parsing, SQL text*: input and output.
- *Event recorder*: it appends a `run_event` row for each event of the agents' bus, and
  only the web page reads them. What the bus of the agent library does with a sink
  that raises is not in this repository. The runner's own events are `CycleRunner`'s.
- *Analysis validator*: a pure comparison of the words and numbers of a text with a
  scoreboard; no code of the program calls it.
- *`ApprovalGate`*: it wraps the agent's publish tool in memory while no publication
  row exists; what it makes the tool return is covered by any result of the agent.
- *Sources, fonts, ffmpeg, TTS, the Google client's retries*: external; any answer
  and any exception of theirs is an action.
- *Web page*: read-only.

## Plan

The order is by weight: what is published and what is recorded of it first.

1. Done: `PublishContract`, `PublishOnce`, `PublishPipeline`; `CycleRunner`, which
   lands what the path publishes; `Scheduler`, which triggers both;
   `RewardLedger`, `LearningLoop`, which judge what was published. Theorems:
   types, gate, ledger, history, schedule.
2. Done: the services, one module each, composed in one MC module as they share no
   state: `ResearchTrends`, `Migrations`, `TextLayout` and `CardQuality`,
   `VideoTimeline`, `Alerts`, `Scoreboard`, `Credentials`. Theorems: migrations
   and trends.
3. Done: `Playbook`, the version counter under overlapping writers, with the NULL
   that UNIQUE does not cover; the video gate behind `VideoTimeline`; `MediaStore`,
   who can read what another process stored; `CommandLine`. Theorems: playbook,
   media stores.
4. Done: `PublishSystem`, `CycleRunner` and `PublishPipeline` over one database, with
   the single-step `Post` of the former refined by the latter. Theorems: the
   refinement, review, ledger.
5. Done: theorems for every safety property that a run checks: the
   refinement of `PublishOnce` by a single fault-free worker and the bound on
   reposts, `PublishedIsLive`, `RewardEarned` and the statistics' sums, tokens and
   commands, and the algorithms of the services, by induction over their inputs.
6. Done: `FeedbackSystem`, the cycles' ledger and the learning loop over one database, with the
   posts of the former judged by the latter. Theorems: the refinement of
   `LearningLoop`, what is measured, what is credited. `Services`, the composition the run
   `services` checks. Theorems: the types and the promises of all services in it.
7. Left: what of the liveness properties is safety (a step that must be possible is, in
   every state of the inductive invariants); publishers that overlap in
   `FeedbackSystem`, where dates and post ids are written twice.
