# GigSwift in TLA+

A verification development of GigSwift, the bot that collects remote-job
listings from RSS feeds and Telegram channels, scores them, and posts the best
ones on X, Telegram and LinkedIn. The modules model the code under `app/`; TLC
checks them on small instances, and TLAPS proves the most important results for
every value of the constants. `PROJECT.json` lists the components, the runs, the
lines of code each definition stands for, the hazards, and the theorems.

## The system

| Component | State | Operations | Interacts with |
|---|---|---|---|
| Scheduler, `app/scheduler.py` | locals of a run: batch, selection, counts | `pipeline_run`, `_process_job`, `_record_run_failure`, `run_once` | everything below; other runners through the database |
| Process lifecycle, `scheduler.py`, `main.py` | one APScheduler job (interval, `max_instances=1`) | start, fire, skip, drain, dispose, cancel, exit | starts `pipeline_run`; ends it, with the requests and threads beside it |
| Tables, `app/models` | `jobs` (unique `content_hash`), `posts`, `publish_log`, `run_log` | insert, update, commit, rollback | shared by all runners, read by the API |
| Publishers, `app/publisher` | attempt counter, cached person URN | `publish_with_retry`, `_log`, `_mark_job_posted`, `publish` | the platforms; the job's transaction |
| Selection, `app/pipeline` | none | dedup, scam filter, score, threshold, sort | reads `jobs` |
| Ingestors, `app/ingest` | Telethon session, partial lists | `safe_fetch`, feeds in threads, channels in turn | the batch of a run |
| Formatters, `app/formatter` | none | text per platform, pay, summary, escaping | a thread per call, which no cancel reaches |
| Image cards, `app/formatter/image.py` | one file per content hash | draw and save, or find and use again | called by two formatters; the files outlive the process |
| API, `app/api` | none | runs, errors, stats, health | reads the tables; derives a run's status |
| Engine and sessions, `app/core/database.py` | pool of connections (5, and 5 over) | `get_db`, sessions of a run, `dispose_engine` | a session holds a connection from the first statement of a transaction to its end |

Several runners share one database and the same accounts: the scheduler inside
the web container, the standalone one, and the backup workflow that runs
`--once`. They never talk to each other. Dedup reads the `jobs` table minutes
before the insert it decides on, and posts cannot be taken back, so what keeps
runners apart is the unique index on `jobs.content_hash`, taken by the flush in
`_process_job` before anything is published and held until that job's commit.

What makes each part correct, and what is hard about it:

- *Runs*: a job goes out once per platform, however the runners interleave,
  but for faults between a post and its commit. The log, the stamp
  `posted_at`, the counts of `run_log` and the posts themselves agree. Runs end,
  and what the cap cuts off comes in later.
- *Schedule*: runs of one process do not overlap and keep their pace; the status
  shown of a run does not go back.
- *Process*: it ends when told to; nobody waits for a connection while holding
  one; sessions are closed however a run ends.
- *Cards*: a post shows the card of its own listing, and a whole one, although
  the file is looked for, drawn and saved in steps that a kill can part.
- *Ingestors*: one failing source costs its own listings only, and the order of
  the batch does not depend on who answers first: the order decides which of two
  equal listings is kept.
- *Selection and score*: the pipeline keeps the best new listings; a listing
  without pay is not posted, and one below the floor only if the rest of it makes
  up for the pay: a known upper figure, an entry-level title that is not shouted, and
  a text that says remote or a usable link.
- *Text*: shortening cuts no more than it must and spares the link; escaped text
  reads as written; pay is shown the way it was scored; requirements are those
  of their section, and what is appended behind it does not take them back; on a card no word is lost unmarked and no text covers another.

## Modules

| Module | Models | Its state and actions |
|---|---|---|
| `Scorer` | `score_job`, `is_scam` | operators; a listing is the features the score tells apart, pay in cents, score in tenths |
| `PayText` | `extract_pay_range`, `format_pay_range`, `format_pay_amounts` | operators from the figures of a text to what is shown |
| `Pipeline` | dedup, filter, threshold, sort, cap | operators; a stage is the set of batch positions it keeps |
| `PipelineRun` | `pipeline_run`, `_process_job`, `publish_with_retry` | see below |
| `JobLedger` | what the runs promise about a job | owners, evicted runners, stored jobs, posts that are out |
| `Ingest` | the two ingestors under `gather` | a task per feed, the calls of the Telegram fetch, cancellation |
| `Schedule` | APScheduler's job, the lifecycle, `RunLogSchema.status` | a clock, the next fire, the rows of `run_log` |
| `CardCache` | `generate_card`, `safe_generate_card` and the thread they run in | the files by content hash, the call at work |
| `Process` | a process with its run, requests, pool and threads, over its restarts | see below; EXTENDS `CardCache` |
| `PostText` | layout and shortening of X and LinkedIn posts, length of a Telegram caption, `escape_markdownv2` | operators on lengths, and on short texts; a caption counts the characters that are two UTF-16 units twice |
| `CardText` | `_wrap`, `_draw_info` and the four variants of a card | operators on the widths of words and on heights |
| `Summary` | `extract_smart_summary` and its helpers | operators on the lines of a description, their pieces, and the chunks its sentences are made of |
| `MC*` | instances for TLC, and walks over inputs for the operator modules | |
| `SequenceFacts` | nothing of the program | induction over positions, what `FlattenSeq` computes |
| `PipelineRun_proofs`, `Pipeline_proofs`, `Scorer_proofs`, `Schedule_proofs`, `Process_proofs`, `Ingest_proofs`, `PostText_proofs` | theorems | |

Some definitions are followed in use by a *broken variant* with a similar name
(`HashFree` and `NoUniqueIndex`, `Keep` and `KeepTooMany`, ...). The
specifications do not use them. Each stands for a plausible mistake in the code,
and some property of the module fails when it takes the definition's place;
`PROJECT.json` says which, under `mutants`.

### PipelineRun

`jobs`, `postedAt`, `plog` and `runLog` are the committed tables, `delivered`
counts the posts that are out, and `pc`, `raw`, `todo`, `claim`, `txn`, `counts`
are what each runner holds: the statement it is about to execute, its batch, the
selected positions not yet taken, the hash its open transaction has inserted,
the uncommitted rest of that transaction, and the counters of the run.

Every statement that touches shared state is an action: `StartRun`, `Ingest`,
`RunPipeline`, `InsertJob`, `FormatAndInsertPost`, `Publish`, `LogSuccess`,
`MarkJobPosted`, `LogFailure`, `Commit`, `Rollback`, `Finalise`,
`RecordRunFailure`. A platform that refuses (`PublishRefused`) is ordinary
behaviour. A *fault* is counted and bounded by `MaxFaults`: a statement or commit
that raises (the commit applied or not), a formatter that raises, a post that is
out although the call raised, a connection the server closes, a rollback that
raises, a process that dies or is cancelled by the shutdown.

Three points are easy to get wrong:

- `InsertJob` waits while another transaction holds the hash: PostgreSQL blocks
  the second insert of a unique key until the first transaction ends.
  `InsertRejected` is the `IntegrityError` after a commit, and the error of a
  listing PostgreSQL never takes (`Unstorable`: a NUL in a feed's text), which
  every run selects again.
- A failing statement ends the transaction on the server, which frees the hash at
  once (`StatementFails`), while a formatter that raises leaves the hash claimed
  until the rollback (`FormatFails`).
- `ConnectionLost` ends the transaction of a runner that is publishing or in its
  back-off. The runner does not notice before its next statement, so the attempt
  it is making may still go out (`PublishLate`), after another runner has taken
  the job. `PersistedIsFinal` names this as the only post of a stored job, and
  `OnePublisherPerJob` as the only way two runners publish a job at once.

`JobLedger` says the same without statements: one runner at a time owns a job,
only the owner posts it, only the owner stores it, and it is stored for good; an
owner may be evicted and then posts at most once more. `PipelineRun` implements
it with `stored <- jobs`, the owners read off `claim`, and the evicted runners
off `pc`.

### Ingest

The RSS fetch gathers a thread per feed; the Telegram fetch connects, asks
whether it is authorized, reads the channels in turn and always disconnects. Any
call may fail and the run may be cancelled at any moment. `failed` remembers who
gave nothing because of an error, so that `FailureIsIsolated` can say what the
batch must contain. A disconnect that fails leaves the session open: `leaked`
keeps that apart from a disconnect nobody made.

### Schedule

Time is counted in ticks. A fire is due when the process starts and at every
`Interval`; it starts a run, is skipped because a run is active, or is lost
because the process was late by more than APScheduler's grace time or the run
could not insert its row. A run ends with its `UPDATE`, without it, or with its
process. The backup runners add rows at any time and have no part in the
schedule, so they are left out here; `PipelineRun` has them.

### Process and CardCache

`Process` looks at one process from outside the tables: `held` is who has a
connection of the pool, `req` the requests in flight, `pc` the statement of the
run, `thread` and `feeds` the threads it has started, `card` the files on disk.
A session takes its connection with the first statement of a transaction
(`Checkout`) and hands it back at commit, rollback or close; `Answer`,
`RecordStart`, `Commit`, `RollBack`, `Finalise` are those points. When no
connection comes free in time, the statement raises: `TurnAway` for a request, and
for the run the ordinary failures (`StartFails`, `InsertFails`, `RunFails`,
`RecordFailure`), whose guard is a connection or a full pool. The run's failure
is recorded in a second session, which `pipeline_run` opens after it has left the
first (`LeaveSession`): opened inside, it would wait for a connection while
holding one, and `NoHoldAndWait` would be false.

A shutdown goes `Terminate` (no new requests, and the open ones are answered),
`Dispose` (the lifespan stops the scheduler without waiting and disposes of the
engine), `Cancel` (the run gets `CancelledError` at whatever it awaits, past every
handler; its sessions close), `Exit` (the interpreter joins the threads, so
a drawing is finished and its file saved). `Kill` takes none of these steps. `Boot`
keeps `/tmp/gigswift_cards`, as a restart of the container does, or starts
without it, as a new container does.

A card is found (`ReuseCard`: a file of that name, unread), or drawn in memory and
then opened, written and closed; every failure before the end removes the file, but
a kill does not. Which listing a card shows is kept as the `Text` in the file: two
listings of one hash have one title and link, and may differ in pay and
description. `CardFitsPost` states what a post can rely on. Its exceptions are
real and the code accepts them: the card of an earlier listing, if that one's
transaction was given up after its card was drawn, and an incomplete one after a kill.

### PostText, CardText, Summary, PayText

Texts are reduced to lengths, fragments and figures; a card to the widths of its
words and to heights, a line of text being as high as its font and a fifth
(Pillow's metrics depend on the font that is installed; this is their order). The
four are checked by walks that enumerate inputs, so their properties are invariants
over all inputs in range and action properties over neighbouring ones.

## What is checked

| Run | Bounds | Shows |
|---|---|---|
| `MCTwoRunners` | 2 runners, 1 job, 2 platforms, 2 attempts, 2 runs each, 2 faults (271,000 states) | types; one publisher per job beside evicted ones; duplicates cost faults; log, stamp and posts agree; attempts run to their end; what is stored is final; unfinished rows of `run_log` need faults, finished ones stand |
| `MCFairRuns` | 2 runners, cap 2, a batch of 4 listings of 3 jobs, the best of them unstorable, 1 platform, 1 attempt, 2 runs each, 1 fault, fairness | the counts of `run_log` against the tables; every run ends; the storable backlog is stored; the ledger is implemented |
| `MCPipeline` | batches of up to 4 of 6 listings, 4 hashes, cap 2 | the sets of `Pipeline` are the lists of the source's loops; storing a job changes nothing for the others |
| `MCScorer` | pay figures just below, at and above every line; all other factors | no unpaid job; below the floor only listings that make up for it; more pay no lower; pay shown as scored |
| `MCIngest` | 2 feeds, 2 channels, two contents each, fairness for Telegram | order of the batch, isolation, closed session; the fetch stalls only on a hung feed |
| `MCSchedule` | interval 3, "recent" 1 tick, 9 ticks, 2 processes, 4 rows | pace, no overlap, no long idleness, the status only moves forward |
| `MCProcess` | 2 jobs with 2 versions of their listing, 2 requests, a pool of 1 connection, 1 kill, any number of shutdowns, fairness (95,000 states) | nobody holds and waits; cards are broken by kills only and fit their posts; requests are answered; the shutdown ends |
| `MCPostText` | lengths around 280, 700 and 1024, with and without wide characters, texts of up to 5 characters, descriptions of up to 4 of 14 lines, cards of up to 7 words (225,000 states) | exact cuts, whole links, captions, escaping, wrapping, layouts, sections, stable requirements |

Two runners are enough for what the runs claim about exclusion: each claim
relates a job to two runners, and a third only repeats the role of the second.
Two faults let a late post and another failure meet. Two attempts and two
platforms distinguish a first, a last and a reset attempt, and a first and a last
platform. In `MCFairRuns` the cap of two below three jobs makes a backlog, and the
unstorable job on top takes one place of every run; the four runs are the ones the two
others and the fault require. `BacklogDrains` is false when the runs run out earlier, as
`MaxRuns` is a bound of the model and not of the code, and also when as many listings
are unstorable as the cap has places: then the code itself starves the rest, which is
why the property is stated for fewer. A pool of one connection is the worst case:
whoever holds and waits then waits for itself. One kill is enough for the cards, as
a further one can only break another file or the same. The time bound
of `MCSchedule` covers three intervals and a restart at any point of them. The
post lengths include the ones where the title alone, the hashtags, and the link
are the first to give way; titles of one character are left out, since their
ellipsis makes a post longer. The captions have every text at the most its bound allows,
the title at the length from which they no longer fit, and no, one or very many
characters that count twice.

The 14 lines of `MCPostText` are those of real descriptions, with their lengths: headers
of both sections, bare, with a colon and with items, sentences shorter and longer than the
30 characters a summary line asks for, a Headquarters sentence, boilerplate, and a line
whose requirement is said in others. Four of them give every order of a header, its items,
a sentence that settles the summary line and one that comes too late.

The two runners of `MCTwoRunners` are symmetric; the runs that check liveness use no
symmetry. Deadlock is checked in every
run: where a bound ends a behaviour, an explicit stuttering action (`AllRunsDone`,
`Bounded`, `FetchOver`) says so, and any other stop is an error. In particular
no two runners wait for each other's hash.

### Fairness

`FairSpec` of `PipelineRun` asks that a runner takes its next ordinary step: every
call a run awaits returns or raises, as the drivers have time-outs, and the
scheduler (or cron) starts the next run. Failures are never required. The wait
for another runner's hash is not fair by itself; that it ends is what `RunsEnd`
shows. `FairSpec` of `Ingest` assumes the same of Telethon's calls and nothing of
a feed, because `feedparser.parse` is called without a time-out: hence
`OnlyAHungFeedStalls` is conditional on feeds that answer. In the composed
system this is where the first assumption can fail: a hung feed holds `Ingest`.

`FairSpec` of `Process` is strongly fair to `Checkout`: the pool hands a returned
connection to the first that waits, so a session that waits while connections come
and go gets one. Statements, drawing and the steps of a shutdown are weakly fair;
nothing is assumed of the feeds, the pool's time-out, or the signals. So
`RequestsAnswered` does not lean on time-outs, and holds while the run waits for
a feed for ever, because the run has committed before it fetches. `ShutdownEnds`
has to except a feed that never answers: `asyncio.run` joins its thread.

### Disagreements with comments and docstrings

Four runs are expected to find a violation; each checks one sentence of the code.

- `MCPublishRaises`: "It always returns a PublishResult rather than raising"
  (`app/publisher/base.py:5`). A statement of `_log` or `_mark_job_posted` that
  fails breaks the transaction, and logging that failure raises.
- `MCAttemptsLost`: "logging every attempt to `publish_log`"
  (`app/publisher/base.py:48`). The rows share the job's transaction, and its
  rollback removes them, also those of posts that are out.
- `MCPayShown`: "A raw stored figure over $500 is an annual salary ... otherwise it
  is an hourly rate" (`app/formatter/base.py:56-58`). One figure of a range decides
  the unit of both: `$80-100k` is shown as `$80-$100000/hr`.
- `MCInterrupted`: "older unfinished runs were killed mid-run"
  (`app/schemas/run_log.py:37-38`). A slow run, or one whose last `UPDATE` failed,
  is called interrupted too.

## What is proved

`PipelineRun_proofs` is about any finite set of runners, any listings, hashes and
batches, any number of platforms and retries, and any bounds on runs and faults
(`PipelineRunAssumption`, `PipelineAssumption`). The inductive invariant is

    SafetyInv == TypeOK /\ ClaimInv /\ DeliveryInv /\ LogInv
                 /\ LoggedSuccessWasDelivered /\ StampMatchesLog

and, beside it, `EvictedInv`:

- `ClaimInv`: a runner between its insert and its commit holds the claim on its
  job; claims are exclusive and never on a stored job. `OnePublisherPerJob` by
  itself is not inductive: nothing in it says that an insert waits.
- `EvictedInv`: there are no more evicted runners than faults so far. A runner whose
  transaction the server ended is still in `publish_with_retry` and posts once more,
  beside the next publisher of the job or after it was stored; `OnePublisherPerJob`
  allows these, and no others, on top of the one publisher a job may have.
- `DeliveryInv`: the posts of a job on a platform, and those that evicted runners
  may still make, are at most the faults so far plus the one post the job is
  entitled to, once it is stored or its owner's transaction has sent it.
  `DuplicatesCostFaults` forgets who may still post, so a step could not use it.
- `LogInv`: the log of an open transaction is as truthful as the table's.

Each lemma `...Step` takes one conjunct through the actions; small lemmas
(`LocalStep`, `DeliveredStep`, `TablesStep`, ...) first say which few actions
touch a piece of state, so that the others are dismissed together. The results:

| Theorem | States |
|---|---|
| `TypeCorrect` | `Spec => []TypeOK` |
| `OnePublisher` | `Spec => []OnePublisherPerJob` |
| `DuplicatesAreFaults` | `Spec => []DuplicatesCostFaults` |
| `LogIsTruthful` | `Spec => []LoggedSuccessWasDelivered` |
| `StampIsTruthful` | `Spec => []StampMatchesLog` |
| `StoredIsFinal` | `Spec => PersistedIsFinal` |
| `RunsImplementLedger` | `Spec => ImplementsLedger` |

It continues with what the runs leave in `run_log` and `publish_log`:

| Theorem | States |
|---|---|
| `FinishedRunsStand` | `Spec => FinishedRowsStand` |
| `UnfinishedRunsNeedFaults` | `Spec => []InterruptedRunsNeedFaults` |
| `StoredAttemptsAreOver` | `Spec => []AttemptsRunToTheEnd` |
| `RunLogIsTruthful` | `Spec => []RunLogMatchesJobs` |

A row may be written twice, when the commit of `Finalise` was applied and raised:
`RowsInv` says that the counters then agree with the row but for the errors.
`InterruptedRunsNeedFaults` counts active runs, whose rows a step may finish or desert,
so the induction is over `Orphans`, the rows no active run will finish: no ordinary step
adds one, and a fault adds at most one. `AttemptInv` follows the log of an open
transaction: over on the platforms behind, empty on those ahead, and on the one at hand
one failure for each attempt but the current.

`RunLogMatchesJobs` compares sums over the rows with sizes of sets. `Sum` counts marks, so
that the facts about finite sets apply to it, and the induction goes over `Tally`, the sum
in which an active run counts with the counters it holds instead of its row: the row is
zero until `Finalise` copies them. `CountsInv` says that unfinished rows and the counters
of idle runners are zero, and that an open transaction has an error for each platform it
has given up; `TallyInv` is the property with `Tally` in the place of `Total`. The two sums
are equal when no run is active.

`Pipeline_proofs` is about any listings, hashes, jobs table, scoring and cap
(`PipelineAssumption`):

| Theorem | States |
|---|---|
| `SelectionIsTheLoops` | `MatchesReference` of every batch, a sequence of listings |
| `SelectionAlwaysTheLoops` | `Spec => []MatchesReference` |
| `BacklogIsNotReshuffled` | `Spec => StoringKeepsTheRest` |

The loops of the source are recursive functions here (dedup with its set of seen hashes,
the stable sort by insertion); each is followed through its positions: what it holds after
`n` steps is a sequence in the right order (`Ordered`) of the right set.

`Scorer_proofs` shows, for every pay floor and threshold, that a listing without
pay never passes (`UnpaidIsNeverPosted`), that one below the floor passes only
if its upper figure is known, its title is entry level and not shouted, and its text says
remote or its link is usable (`BelowFloorIsMadeUp`; at the default threshold of 0.5 it
always does then, unless it is a scam), and that more pay within one unit never scores
lower (`BetterPayIsNoWorse`). Its second part states them of
the walk of `MCScorer` over the edits of a listing, as they are checked there:

| Theorem | States |
|---|---|
| `EditsKeepUnpaidOut` | `Spec => []NoUnpaidJob` |
| `EditedBelowFloorIsMadeUp` | `Spec => []BelowFloorMakesUp` |
| `RaisesNeverCostScore` | `Spec => MorePayScoresNoLower` |
| `XShowsWhatWasScored` | `Spec => []XShowsPayAsScored`, if the floor is in whole dollars |

The hypothesis of the last one is needed: X shows dollars, rounded half to even, and with
a floor of $10.40 a figure of $10.45 meets it and is shown as $10. The default of
`MIN_PAY_HOURLY` is 15.0 (`app/core/config.py:42`).

`Schedule_proofs` is about any interval, any age limit of "running" and any bounds
(`ScheduleAssumption`):

| Theorem | States |
|---|---|
| `RunsPaced` | `Spec => []RunsArePaced` |
| `NeverIdle` | `Spec => []NeverIdleForLong` |
| `StatusForward` | `Spec => StatusMovesForward` |

Its inductive invariant, `PaceInv` in `Schedule`, adds what ties the rows to the
next fire: only the process that is up has an active run, the next fire is an
interval at least after any of its runs began (`RowInv`), and never more than an
interval ahead of the clock (`DueInv`). `RecentInv` measures idleness from the next
fire, which stays while the clock moves.

`Process_proofs` is about any finite set of jobs, any texts, requests, size of the pool
and bound on kills (`ProcessAssumption`, `CardAssumption`):

| Theorem | States |
|---|---|
| `ProcessTypeCorrect` | `Spec => []TypeOK` (of `Process`) |
| `PoolNeverDeadlocks` | `Spec => []NoHoldAndWait` |
| `OnlyKillsBreakCards` | `Spec => []BrokenCardsNeedAKill` |
| `CardsFitPosts` | `Spec => []CardFitsPost` |

Its inductive invariant, `ProcessInv`, looks at the pool from the holder's side
(`HeldInv`: which statements a session may have a connection at; `NoHoldAndWait` speaks
of those that have none and is not inductive). For the cards it adds whose call the
thread is working on (`ThreadInv`: the job at hand, or one whose run was cancelled and so
is in `lost`), that a job left to post has one text and is not yet stored
(`TodoInv`), and that a whole card belongs to a job that was stored or lost before, or is
the text at hand (`DrawnInv`).

`Ingest_proofs` is about any number of feeds and channels, whatever each may hold
(`IngestAssumption`):

| Theorem | States |
|---|---|
| `SessionAlwaysClosed` | `Spec => []SessionIsClosed` |
| `BatchKeepsConfigOrder` | `Spec => []BatchInConfigOrder` |
| `OnlyFailedSourcesLose` | `Spec => []FailureIsIsolated` |

`SessionInv` says at which calls the session may be open, wherever a failure or a cancel
arrives. `FetchInv` is about what the tasks have collected: `Holds(t, P)` says of a list
that it has exactly the listings of `P` in the order of the configuration, `FeedsInv` that
a feed's list is that of its own entries, `TelegramInv` that the two lists of the Telegram
fetch are the channels done and the messages read of the one at hand. Neither property is
inductive without it, as both speak of the batch only, which is put together in one step.

`PostText_proofs` is about `PostText`, `Summary` and `CardText`, over the walk of
`MCPostText`. The bounds of that walk (`MaxText`, `MaxLines`, `MaxWords`) are constants
and no theorem depends on them.

| Theorem | States | For |
|---|---|---|
| `TitleCutIsExact`, `LinkStaysWhole` | `CutIsExact`, `LinkIsWhole` | any layout, limit and number of blanks |
| `PostsFit` | `Spec => [](CutIsExact /\ LinkIsWhole)` | the posts of the walk |
| `CaptionsFit` | `Spec => []CaptionFits` | the captions of the walk, with any number of wide characters |
| `SectionsAreTheLoops` | `Spec => []SectionsFollowTheLoop` | any number of lines |
| `RequirementsStay` | `Spec => MoreTextKeepsRequirements` | any number of lines |
| `EscapingIsUndone` | an escaped text reads as it was | any text and any reserved characters, the backslash first and none twice |
| `TextsReadBack` | `Spec => []EscapedReadsBack` | any length of text |
| `WordsAreKept` | `Spec => []WrapKeepsTheWords` | any number of words |
| `TextsStayApart` | `Spec => []NothingOverlaps` | any number of words |

The invariants of the walk are types (`IsPost`, `IsCaption`, `IsDescription`, `IsText`,
`IsCard`); the argument lies in the loops:

- *Escaping*. One replacement maps each character to one or two (`Spread`), and
  replacements compose (`SpreadSpread`) as long as none meets what an earlier one wrote:
  the backslash goes first (`EscapeMore`). Reading is followed from the left: whether a
  backslash is literal depends only on what is before it (`LiteralAppend`).
- *Sections*. `Summary` computes the items from the lines that are headers; `Scan` carries
  two flags. After `n` lines both hold the same items, and the flags say whether the last
  header before is of the section (`CapturingStep`, `ScanStep`).
- *Requirements*. More lines only extend the items of a section, and the first of them
  stay (`FirstOfExtended`), but the summary line takes away what it says itself and is
  chosen from the whole text. `SummaryStays`: if a sentence that is long enough has ended,
  so has the first such sentence, as sentences do not overlap (`SentencesApart`); it is a
  sentence of the longer text as well, and one before it would have been one already.
  Without the hypothesis the property is false: after `Great job.` and a section with
  `laptop and internet`, a last line `Apply today with us` makes the two the summary line,
  and the requirement is dropped.
- *Wrapping*. `Placed` holds after each word: the lines are the words so far, full but for
  the last (`PlaceWordStep`), until the cap stops the loop.

The library's induction theorems take an operator as a parameter, which the provers cannot
instantiate. `SequenceFacts` states induction and recursion with sets and functions
instead (`Induction`, `Recursion`), from the well-foundedness of the order on numbers; with
them what `FlattenSeq` and the modules' recursive functions compute can be proved for every
sequence. This is why no module here declares an operator RECURSIVE.

Every safety invariant and action property that a passing run checks is stated by one of
these theorems. Only model-checked: liveness (`RunsEnd`, `BacklogDrains`, `TelegramEnds`,
`OnlyAHungFeedStalls`, `RequestsAnswered`, `ShutdownEnds`), which the proof system does not
reach, and the four disagreements of the runs that expect a violation.

## What is not modelled

- The text itself: keyword matching, HTML cleaning, currency, hashtags, the noise
  prefixes of a description. These decide the features, lengths, marks and fragments that
  the modules take as given. In `Summary` a sentence ends with a chunk that is marked so,
  and the cuts at 160 and 400 characters fall between two chunks, where the code cuts
  between two words; commas between chunks are not counted.
- Colours, fonts and the horizontal position of what is drawn on a card.
- The media upload and the cached person URN of the publishers: one call that posts,
  refuses or raises stands for `publish`.
- The posts table: a post lives and dies in the transaction of its `publish_log`
  rows.
- Two hashes that collide (`title + apply_url` is concatenated without a
  separator): `HashOf` is any function, so two listings may share a hash, but
  which texts do is data.
- Durations: how long a back-off or a request takes. `Schedule` lets a run take any
  time; `PipelineRun` has no clock.
- When within a call a post becomes public. A request that is in flight when its runner
  is killed, cancelled or timed out counts as delivered by then or never.
- Signals outside the container: uvicorn raises SIGTERM again after it has shut down,
  which has no effect on PID 1 and would otherwise end the process like `Kill`, without
  joining its threads.
- The platforms' own rules (duplicates, broken photos): a post they refuse is
  `PublishRefused`. The limit of a caption is in `PostText`.
- What the read-only queries of the API return: in `Process` a request is one
  statement in a session of its own.
- Logging, configuration, migrations: nothing in them changes while the program runs.

## Plan

In order of importance:

1. *Runs* (done): `PipelineRun` with `Pipeline`, `JobLedger` and the proofs.
2. *Around the runs* (done): `Ingest`, `Schedule`, `Scorer`, `PayText`, `PostText`,
   `Summary`.
3. *Shutdown and pool* (done): `Process` with its proofs.
4. *Cards* (done): `CardCache` under `Process`, `CardText`.
5. *Telegram's caption* (done): in `PostText`.
6. *Records* (done): the proofs about `run_log` and the attempts.
   *Selection, batch and texts* (done): `Pipeline_proofs`, the second part of
   `Ingest_proofs`, `PostText_proofs`.
7. *Composition*: `Ingest` in place of the choice of a batch in `PipelineRun`, so
   that a hung feed and a run's end are in one specification; `Schedule` driving its
   `StartRun`.
8. *Summary line*: the choice of `_first_substantive_sentence` (done, in `Summary`); the
   noise prefixes and cuts within a chunk.
9. *Weaker hypotheses*: `XShowsWhatWasScored` for floors that are not whole dollars, with
   the bound of half a dollar that then holds.
