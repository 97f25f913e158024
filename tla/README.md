# Verification of jobs-back

jobs-back is the backend of a personal job search: it searches several job
providers live, consolidates what they return, and keeps each profile's library
of saved jobs. This directory holds TLA+ models of its concurrent and stateful
parts, the TLC runs that check them on small instances, and theorems about them
that TLAPS proves for every value of the constants. Paths below are relative to
`src/jobs_back/` of the repository; JE-nnn are the specifications under
`docs/development/specs/`.

## 1. The system

| component | state it keeps | operations | what makes it hard |
|---|---|---|---|
| Live search registry, `search/live.py` | `states`, `latest`, `refreshing`, `evicted`, populate tasks, an eviction task | start (plain, forced), populate, promote, settle, evict, discard a profile, page, close | tasks of many searches and providers interleave; stale-while-refresh; retention against references; one budget shared by all providers |
| Search endpoints, `api/searches.py` | none | create a search, refresh the default search, read a page | what an answer promises and what the registry does later |
| Paginating adapters, `providers/himalayas.py`, `providers/adzuna.py` | per call: request budget, page queue, worker tasks, output queue | `pages(filters)` | worker pool with retries, quota, cap, sentinels, cancellation, batches out of order |
| Single-feed adapters, `providers/remotive.py`, `remoteok.py`, `jobicy.py`, `weworkremotely.py` | per call: the attempt, the batches still to be yielded | `pages(filters)` | retries, bad rows, caps, batch arithmetic, a consumer that does not come back |
| Provider registry, `providers/registry.py`, `api/providers.py` | the adapters of the process | build, availability | free JSON as configuration: missing, mistyped and out-of-range options |
| Consolidation, `search/consolidation.py`, `normalization/dedup.py` | results and an index by dedup key | merge a batch into the results | the order in which batches arrive |
| Personal library, `services/profile_library.py` | tables `profiles`, `saved_jobs` | save, patch, delete, list | requests of one profile interleave at READ COMMITTED; two unique constraints; migration 005 folds rows of an older table |
| Profiles and skills, `api/profiles.py`, `services/skills.py` | table `profiles` | create, patch | a change of skills withdraws searches, from a worker thread and without a lock |
| Relevance, `search/relevance.py` | none | score and filter one result | terms and words are read differently; dates come from providers |
| Ingestion, `ingestion/` | tables `jobs`, `sync_runs`; an advisory lock | `sync --provider` | crashes, lost connections, failed commits between the steps |
| Stored job search, `services/job_search.py` | none | `GET /jobs` | comparisons with NULL, ties in the order that pages are cut from |
| Application, `main.py`, `config.py`, `db.py` | settings | lifespan | shutdown while searches run |

How they interact: the two search endpoints are coroutines on the event loop
and call `LiveSearchManager.start`, which creates a populate task. That task
drains every active provider's async generator `pages()` concurrently and merges
each batch into the search's state; a background task evicts. Reading a page,
the library and the profile endpoints run in worker threads, each request with
its own database session; saving a job first resolves it from the live search it
was shown in, and changing a profile's skills calls
`discard_profile_searches`. Ingestion runs in processes of its own and shares
nothing with the rest but the database.

What makes each part correct, and where a test hardly reaches, is listed line by
line under `hazards` in `PROJECT.json`.

## 2. The modules

| module | models | state |
|---|---|---|
| `LiveSearch` | `search/live.py` | the four dictionaries, the providers' trackers, clock, shutdown |
| `PolledSearch` | the abstract contract of an id that a client polls | `view`, `owner` |
| `SearchThreads` | `api/searches.py`, `api/profiles.py` and `search/live.py` as threads | the dictionaries of the registry, committed skills, and what the loop, each PATCH, each call of `_evict` and a poller are in the middle of |
| `PagePool` | `pages()` of the two paginating adapters | generator, workers, queues, budget, cap |
| `Registry` | `providers/registry.py` and the settings it reads | none |
| `FeedAdapters` | `pages()` of the four single-feed adapters, built by `Registry` | settings, the attempt, the document, batches yielded and to be yielded |
| `Library` | `services/profile_library.py` | `saved_jobs`, requests in progress |
| `LibraryUpgrade` | migration 005, before the requests of `Library` | the table of revision 004 |
| `Ingestion` | `ingestion/` | `jobs`, `sync_runs`, processes, the lock |
| `Catalog` | `services/job_search.py`, `schemas/job_search.py`, over the table of `Ingestion` | none |
| `Ranking` | `search/relevance.py` and `_filter` of `search/live.py` | none |
| `Consolidation` | `search/consolidation.py`, `normalization/dedup.py` and the code of `live.py` that calls them | the list of results, `dedup_index`, the batch in hand |
| `MC*` | the instances TLC checks | |
| `LiveSearchProofs`, `SearchThreadsProofs`, `PagePoolProofs`, `FeedAdaptersProofs`, `LibraryProofs`, `IngestionProofs`, `ConsolidationProofs` | theorems about the module they are named after; `IngestionProofs` also about `Catalog`, `ConsolidationProofs` about `Ranking`, `LibraryProofs` about `LibraryUpgrade` | |
| `Counting` | lemmas the theorems share: sizes of sets, places in a sequence, sums over a set | |

**LiveSearch.** An action is what runs on the event loop between two suspension
points. `Start`, `StartRefresh` and `StartReplacing` are the three outcomes of
`start()` that register a search; that an ordinary start finds a search to reuse
changes nothing here and is a step of `SearchThreads` (`Lookup`). `ConsumeBatch`, `DropBatch`,
`ProviderEnds` and `ProviderRaises` are one turn of `_consume_provider`,
including the promotion a batch may cause; `BeginSort` and `FinishSearch` are
the rest of `_populate`, split where the sort is awaited; `EvictExpired` is one
pass of `evict_expired`, whose three loops over a sorted list are written as the
set they evict. Results are counted. Ids are drawn in order, so the order of ids
is the order of `created_at`. The lock of a search is not in the model: the only
code that suspends while holding it runs when no consumer is left. Nothing but
tests calls `serving_search_id`; it is in the model because it promotes.
`DiscardProfile` is an action too, although the endpoint that calls it,
`patch_profile`, runs in a worker thread and can cut into a start, a promotion or a
settling. `LiveSearch` has only the discards that come between two of its actions, and
what it says of `latest` and `refreshing` is said for those; the others are in
`SearchThreads`.

**SearchThreads.** `LiveSearch` takes each call as one step, which is right for
code on the event loop. But FastAPI runs `async def` endpoints on the loop and
`def` endpoints in worker threads, and no lock guards the dictionaries. This
module takes apart the calls that meet: the loop (`ReadProfile` to `Answer` of
the two endpoints that start searches, `BeginSettling` to `Rebind` of a populate
task's end, `BeginPass` to `EndPass` of the eviction task), patchers
(`CommitSkills` to `AnswerPatch`), and a poller (`AskPage` to `ReadItems`);
`_evict` is called by two of them and has steps of its own (`CallEvict` to
`Unbind`). One action is one operation on a shared dictionary or object.
Iterating a dictionary that another thread grows or shrinks raises
(`PatchRaises`, `PassRaises`), and so does deleting an entry that is gone. What
`LiveSearch` computes in detail is left open here: any search that is not
protected may be due for eviction, and any search may succeed or fail.

**PagePool.** Himalayas and Adzuna share one design and differ in the daily
quota, the constant `HasQuota`. The generator's place in its code is `gen`, a
reader's is `reader`. Requests take two steps, sending and being answered, so
that workers interleave around the shared budget; `Cancel` and `Abandon` are the
two ways the consumer leaves.

**FeedAdapters.** The four adapters share their skeleton - one request with
retries, one document, a cap, one or several batches - and differ in which rows
they take, skip or raise on (`RemotiveFate` and the others), in what the cap
counts (`Reached`, `Entries`) and in when they warn (`RemotiveBatches` and the
others). A row is the few facts the code looks at, a result the position of its
row, so that losing, repeating or reordering one shows. `SourceLimit` is the most rows
a source sends for one request, whatever the adapter's own cap is (`MayHaveMore`);
RemoteOK sends all it has. Nothing suspends between
the arrival of the document and the first batch, so `Document` is one step.

**Registry.** `settings` is what `PROVIDER_CONFIG_JSON` and the credentials can say: for
each known provider no entry, an entry that is no object, or one whose options may be
missing or no number. `Cap`, `BatchSize` and `MaxRetries` of `FeedAdapters` are what
`_factory` makes of it, under the option names each adapter has. Options are integers
here: the code has cut off a fraction and parsed a string of digits before it compares
with the bounds. An adapter takes part only if the registry has built it.

**Library.** Requests are processes of two statements. A request computes from
the copy it read, and a flush sends only the columns that differ from it
(`Flushed`), which is how SQLAlchemy writes. Both unique constraints are
enforced. The dedup key, the role, is computed from the title at every save, so a
listing has one of `RolesOf` at a time and may come back with another; the upsert
writes the new key over the old one and can meet the second constraint when it does
(`Upsert`). After a merge a row may have the key of another listing. The alternate
sources are one column. What a request reads again after its commit, only to
answer with it, is left out. **LibraryUpgrade** puts a table of revision 004 and
its migration in front: the container's entry point upgrades before the
application starts, so no request runs until `Upgrade` is through.

**Ingestion.** A sync command is a process that may crash between any two steps.
`Disconnect` takes the lock's connection from under a running process, `Reap` frees the
lock of a crashed one; a commit may take effect and its answer be lost. The time of a
run is its number: the wall clock that stamps runs (`ingestion/service.py:100`) is taken
never to step back. The SELECTs of `apply_jobs` are one step and its writes another. A
job's fields are one content, with `Stored` for what the columns give back of it: a
timestamp comes back in the database's offset. **Catalog** reads the table the syncs
leave: each content has a salary, a date and an eligibility, `Filtered` is the WHERE
clause, and `Ahead`, `Places` and `OnPage` are ORDER BY, OFFSET and LIMIT.

**Consolidation.** Where `LiveSearch` counts results, this module lists them. A batch is
taken in hand whole and folded in one listing at a time, because clients read the list
from worker threads between any two. Text is a sequence of words and a title a sequence
of parts, plain or in brackets, so `DedupKey` is derived the way the code derives it; a
listing without a company or a title is like no other (`LikeNoOther`) and
`DistinctRolesStayApart` speaks of the rest. Alternates are a set: the code never lists
one twice, and their order follows the order of arrival. `sorted()` is any permutation
that puts results with greater keys first and leaves equal ones as they were, which
determines it. **Ranking** says which of the listings pass the filters and what each is
worth; scores are in fractions of `1 / Unit`, so that the halving of the recency bonus
stays in the integers.

## 3. What the runs check

| run | instance | what it shows |
|---|---|---|
| `polled` | 2 profiles with a key each, 1 provider, 3 searches, clock 0..1 | the registry implements `PolledSearch`; a refresh always has something served in its place; only a discard takes a busy search |
| `fan_in` | 2 providers, 1 search, batches of 0 to 3 against a budget of 2, 2 batches each | failed and partial say what happened, in whatever order providers deliver, fail or are cut off, and a search that is called failed hides no result |
| `settles` | 1 provider, keys with and without providers, 2 searches, shutdown | a refresh replaces an index only once it is useful; every search settles and every refresh is resolved |
| `page_pool` | 2 workers, up to 4 pages, 5 requests, cap 4, 2 attempts | no ceiling is overshot, no page is dropped or repeated, no worker is left, the generator ends |
| `feeds` | the four single-feed adapters, eleven settings (legal, at the edge, out of range, mistyped, disabled), every document of up to 4 rows of 6 kinds, sources that send 3 rows at most | configured limits hold, deliveries are complete and in order up to the cap, warnings say what is missing, at once, and nothing else (of what a source cuts off, where the cap is within its limit), only a failed conversion raises |
| `consolidation` | 2 providers, 8 listings of 5 roles (one edited, one retitled, one filtered out), batches of up to 2, a budget of 4 | the richest listing is shown, every source is kept and resolves, roles of another level or country stay apart, the settled page does not depend on the order of arrival, and a date outweighs no more than the bonus |
| `library` | a table of up to 2 rows that is migrated, 2 profiles, 2 listings of one role, one of which may be retitled, 3 requests in all | the migration forgets no source and no application; state and timestamps agree, profiles are isolated, saving again keeps history; a save that no other request overlaps, and that names the result by its canonical source, is refused only when its listing was retitled into a role that another row holds |
| `ingestion` | a full-snapshot and an incremental provider, 2 jobs, 3 commands, one lost connection or answer | one sync per provider, active jobs are those of the last success, counters balance, failed runs leave no trace; eleven searches of the table select and page exactly |
| `threads` | one profile with 2 searches under 2 filters, one PATCH, one poller, one eviction task | a PATCH answered with 200 has discarded what it should; a poller sees no half of a change; the eviction task survives itself; nobody waits for ever; an index names a search that is gone only if a discard took it away during its start or settling |

Three searches are the fewest in which a stale index, a refresh and a third start meet;
two providers, two workers and two concurrent requests are the fewest that race, and the
third request or command gives them something older to race over. A retitled listing
needs one listing to keep its role beside it. Caps of `feeds` are below, at and above
the sources' limit of 3. `threads` has two searches because an eviction pass and a
discard must find one and lose the other, and one poller because pollers do not affect
each other. Budgets, caps and bounds are one or two above what one actor can use up, so
that both sides of each are reached. `MaxSearches`, `MaxPages`, `MaxTime`, `MaxTotal`,
`MaxRows`, `MaxRequests`, `MaxLegacy`, `MaxInvocations`, `MaxFaults`, `MaxPatches` and
`Fetchable` bound the models only; the proofs hold for every value of them.

One PATCH at a time is, for `NobodyWaitsInVain`, a restriction of `threads` and not
only a bound: two PATCHes of one profile that discard at once can leave `refreshing`
bound to a search that is gone (section 3.1). The other five properties of the run are
proved for any number of PATCHes.

Deadlock is not checked: with their counters at the bounds the models stop, and
so does a finished generator.

**Fairness.** `settles` assumes weak fairness of each consumer's and each populate
task's next step: the event loop runs every ready task, and a provider's
generator ends because its requests have timeouts and its budgets are finite.
Nothing is assumed of clients, the eviction task, shutdown or the clock.
`page_pool` assumes the same of the generator, its workers and the transport,
and that the consumer, which asks for the next batch as soon as it has applied
one, does so; nothing of cancellation. The other runs check safety only.

### 3.1 Where the code does not do what a document says

Three disagreements are shown by a run of their own:

| run | |
|---|---|
| `silent_loss` | The last page overtakes another and fills the cap exactly: pages stay unread and no truncation warning is given (`providers/himalayas.py:389`, `adzuna.py:488`). |
| `any_source` | A save named by an alternate source of a result can violate the dedup constraint and answer 500, also when no listing is ever retitled (`services/profile_library.py:251`). |
| `stale_skills` | A search start that read the profile before a PATCH of its skills committed, and registered after the PATCH discarded, leaves a search with the old skills, which the next start reuses (`api/searches.py:81`). |

Others are in the models, which do what the code does, but have no run:

- Live search. A refresh promoted early on raw counts can settle as failed, and is
  then served although the index it replaced is alive (`search/live.py:384`, against
  `tests/test_live_search_manager.py:178`). In `SearchThreads`: a discard that meets a
  start or an eviction raises after the commit and the PATCH answers 500; one that
  raises inside an eviction pass ends the eviction task; a poll during an eviction may
  answer 404 in place of 410; a search that a discard takes between its registration
  and `_schedule_populate` is populated although nobody can read it; and two PATCHes at
  once can leave `refreshing` bound. One is enough to leave `latest` or `refreshing`
  bound to a search that is gone, when it discards between the statements of a start
  or a promotion (`search/live.py:200-205`, `259-261`); `OnlyOvertakenEntriesDangle`
  says that nothing else does. The next start of that key does not find the state and
  starts anew. `status` is written before `is_partial`
  (`search/live.py:453-457`), so that a poll in between shows a complete page that is
  not yet marked partial (JE-007).
- Ranking. `search/relevance.py:43` and JE-011 say that recency cannot reorder jobs whose
  match strength differs. The bonus is 2 and a skill that is found in a description
  counts 1, so it can; `RecencyOnlyNudges` says what does hold. And a query is read
  term by term but a text word by word: `node.js` asks for `nodejs`, which no text
  contains (likewise `ci/cd` and `front-end`).
- Registry. Nothing bounds `concurrency`: with 0, a paginating provider loses all pages
  after the first without a warning (`registry.py:80`). If only Adzuna is enabled and its
  credentials are missing, the process starts with no provider. An explicit
  `SEARCH_MAX_ITEMS` of exactly 100 000 is scaled like the default (`config.py:140`).
- Adapters. Jobicy and We Work Remotely compare a document with the configured cap
  alone. The sources send about 50 and 100 rows at most, `result_cap` may be up to 1000,
  and above their own limit a document that they have cut passes for whole, without a
  warning (`providers/jobicy.py:21`, `219`; `weworkremotely.py:22`, `259`; against
  JE-007:135-138 and JE-013:97-98). `CutsAreTold` therefore asks for a warning of what a
  source keeps back only where the cap is within `SourceLimit`. One row whose salary
  (Jobicy) or publication time (all four) cannot be converted raises and costs the
  provider all its listings, where JE-013 has We Work Remotely skip malformed entries
  (`OnlyConversionRaises`). We Work Remotely counts its entries after dropping malformed
  ones, so a full feed with one of them is not reported as truncated (`CutsAreTold`).
  Remotive rounds a salary outside its `try` (`providers/remotive.py:62-68`), so an
  amount of more than 26 digits would raise too; `RemotiveFate` takes amounts to be
  smaller.
- Consolidation. A discipline in brackets (`(Backend)`, `(Frontend)`) and the last
  characters of `C++` and `C#` are dropped from a title, so such roles are merged
  (`normalization/dedup.py`, against JE-008:27-29). `DistinctRolesStayApart` speaks of
  level words and countries only.
- Library. A saved job whose listing has since been retitled into the role of another
  saved job cannot be saved again: the upsert writes the new dedup key
  (`services/profile_library.py:124`, `291`), meets the other constraint and answers
  500, although no other request runs (against JE-004:44-45 and JE-008:76-77).
  `RefusedOnlyIfRetitled` says that a save by the canonical source, which nothing
  overlaps, is refused in this case only. After a merge that met such a save a row may
  show a listing under the key of another. Saving a job again from its own listing drops
  the sources that were merged into it (`services/profile_library.py:292`, against
  `tests/test_library_api.py:474` and `services/library_dedup.py:18`). The migration
  keeps the time at which the applied row was saved, although another row of the role
  may be older.
- Ingestion. When the answer to the commit of the jobs is lost, the run is recorded as
  failed although its jobs were committed; `FailedRunLeavesJobs` says so, and excludes
  nothing else. `ingestion/upsert.py:215` compares a publication time as text, so the
  same instant in another UTC offset counts as changed content at every sync. No
  ingestion adapter is registered in the real process, so `sync` cannot succeed as
  shipped; the model takes the providers' adapters as given.
- Stored job search. The count and the page are two statements, so a sync between them
  makes `total` disagree with the pages. `main.py` does not mount the router of
  `GET /jobs`, and migration 004 drops the tables of ingestion; both are modelled as the
  code that is there.

## 4. What is proved

Every invariant and every action property that a passing run checks is also a theorem,
for all values of the constants that satisfy the modules' ASSUMEs; none of the
theorems rests on the bounds of the runs. The assumptions say what the code takes for
granted of its inputs: that amounts, dates and settings are numbers where they are
given (`ConsolidationAssumption`, `FeedAssumption`, `RegistryAssumption`), that the
defaults are in their own bounds, that the skills and the query of a search are
finitely many (`RankingAssumption`), and that what a sync writes satisfies the CHECK
constraints of `jobs` and no two rows share an id (`CatalogAssumption`).

Liveness stays with TLC (`EverySearchSettles`, `RefreshIsResolved`, `EventuallyEnds`):
under fairness it is out of the prover's reach.

**LiveSearchProofs.** `TypeCorrect` and `RefreshAlwaysHasServing`: `IndInv` is the
two together and two facts more, that both indexes resolve (`IndexesResolve`) and that
a search being sorted is still loading. None is inductive alone: a promotion
keeps the indexes right only because a refresh is loading and differs from what
is served, and a failed refresh is dropped from them because it was loading
until its sort ended. `IndexesResolve` is a step of the proof and no result: it rests on
discards that come between the actions of the loop, and is false of the code where one
cuts into them. `OutcomeAlwaysHonest` and `FailedNeverHides` follow from `IndInv`
and `Drained`, which says of every moment of a search what its outcome will be computed
from: trackers absent exactly where no provider is active, a complete tracker with a
success, an exhausted budget with an incomplete tracker. The two action properties
rest on the same invariant, and so does `ImplementsPolledSearch`: every step of the
registry is a step of `PolledSearch` or a stutter under the mapping of `view` and
`owner`. Eviction maps to `Expire` because `Protected` excludes searches in progress,
discarding to `Withdraw`.

**SearchThreadsProofs.** One invariant per hazard, each inductive beside the types
(`ThreadsTypeCorrect`). `PageInv`: the items of a search are sorted before its status
says that it is over, also between two reads of a poller (`CompletePagesAreFinal`).
`LeaveInv`: an id that was given out is live or evicted at every moment, because `_evict`
writes the one before it removes from the other (`NotFoundOnlyWhenLeaving`).
`PassInv`: what an eviction pass holds is true of the dictionaries unless a discard has
disturbed it (`EvictorOnlyKilled`).
`DiscardInv`: a search made stale by a PATCH is already found, still ahead of the
PATCH's iteration, or on its way out (`DiscardsAreComplete`).
`DangleInv`: what an index names is there, is being evicted, or was overtaken by a
discard while the loop was at it (`EntriesDangleOnlyWhenOvertaken`). It needs to know
that a call of `_evict` unbinds what it evicts before it returns, and that the loop
binds only what it has registered or found (`EntryInv`, `LeaverInv`, `BusyInv`). This is
what holds of the indexes in the code, and for any number of PATCHes.
`NobodyEverWaitsInVain` assumes `OnePatcher`, without which it is false; it adds who
works on a search, who is about to take it away (`WaitInv`, `CallsInv`, `FoundsInv`) and
`IndexAndVictims`.

**PagePoolProofs.** `PoolTypeCorrect` and `CeilingsAlwaysKept`: requests sent and
requests left add up to the budget, and only `Yield` moves what was accepted, by at
most the room left. `PoolAnswers` is the invariant of the pages: one that was taken
from the queue is with one reader, in the output once, or yielded once (`OnePlace`,
`NoneLost`), and each worker that stopped left one sentinel, behind all its batches
(`SentinelsInv`). So a generator that has counted as many sentinels as there are workers
finds the output empty, which is `EveryPageAlwaysAnswered`. `NoWorkerEverOutlives`
follows the `finally` that gathers the workers.

**FeedAdaptersProofs.** `FeedInv` (`FeedsAreCutUp`): the batches the consumer has taken
and those it has not are together one list, and that list is what the adapter makes of
the document. What is left is about the list, for each of the four adapters:
`Normalized` keeps the order of the rows it takes, `Split` puts each of them into one
batch of at most `BatchSize`, and the last row taken is the one at which the cap was
reached. `ConfiguredLimitsAlwaysHold` goes back to the settings: what `BoundedOption`
makes of any integer, missing or mistyped value. A source that keeps rows
back has sent as many as the cap where the cap is within its own limit (`MoreIsLong`),
so the adapter notices; above the limit it does not (section 3.1). With
`WholeFeedAlwaysDelivered`, `WarningsAlwaysTellTheTruth` and `OnlyConversionEverRaises`.

**LibraryProofs.** That states and times agree, that profiles are isolated, that saving
again keeps history and that only a retitled listing can have an undisturbed save
refused, for the requests alone (`AppliedAtAlwaysAgrees`, `ProfilesAlwaysIsolated`,
`SavingAlwaysKeepsHistory`, `RefusalsMeanRetitled`) and for those that follow a
migration (`AppliedAtAgreesAfterUpgrade`, `IsolatedAfterUpgrade`,
`HistoryKeptAfterUpgrade`, `RefusalsMeanRetitledAfterUpgrade`). The invariant spans the
two statements of a request: a row it is about to write was its profile's when it was
read, and since ids are never given out twice and rows do not change hands, it still is
if it still exists. `SavesInv` adds that each source and each role of a profile has one
row, and that a request which was alone all along still finds the table as it read it.
`UpgradeAlwaysForgetsNothing` is of the migration itself: among the rows of a role there
is a preferred one (the least of the least times, by well-foundedness), and the folded
row names all the others.

**IngestionProofs.** `AlwaysOneSyncPerProvider` takes `LockInv`: a lock's holder is a
process there is, and invocation numbers are given out in order. The data rest on it.
Of the undisturbed processes of a provider one at most is between its start and its
last commit (`OnlyOneUnderWay`), so its run is the provider's newest and the rows it has
loaded are still the rows there are (`HeldInv`). Therefore the transaction that ends it
leaves exactly what it fetched active (`LatestInv`, `ActiveIsAlwaysLatestFetched`), moves
the counters by exactly what it changed (`CountersAlwaysExact`) and loses no discovery
(`HistoryIsAlwaysKept`). `CountersAlwaysBalance` sums this up: `BalanceInv` has two
functions that add up the gains and losses of the successful runs (`Sums`, of
`Counting`), a run that succeeds adds one term to each, and no other step changes a
term. What holds without the lock - that a failed run has left no trace
(`FailedRunsNeverTouchJobs`), that the counters cover all that was fetched
(`FetchedAreAllCounted`), that the columns of a job agree - rests on run numbers
belonging to one process each (`OwnersInv`) and marking nothing until the commit
(`PendingInv`). `StoredSearchIsAlwaysExact` is of any table of the right type: the
order of a query is total on the rows it selects, so that places are a bijection with
`1..total` and the rows whose place, divided by the page size, is the same are a full
page, except on the last; and the effective bounds of a salary are its least and its
greatest annual amount, whichever of them is stated.

**ConsolidationProofs.** `AlwaysShowsRichest` and `AlwaysKeepsSources`, while a
search loads and after its sort. The invariant adds that index and list name
each other (`IndexInv`), which is what makes a merge meet all the offers of its
role; that richness is a total order is proved by spelling the comparison of
tuples out. What outlives the sort is that each role has one result (`RolesInv`), which
gives `EverySourceAlwaysResolves`. `PlacesAlwaysStay` is an action property of the merge.
`DistinctRolesAlwaysApart` is a fact about `NormalizedTitle`: no word that names a level
is ever dropped, since a part that holds one is meaningful and is no gender marker.
`SettledOrderIsAlwaysFixed` says which listings the settled page holds and that their keys
descend strictly, and `SettledPageIsOne` that only one list does; where one would argue
by induction along the list, the proof takes the first place at which two lists
differ. `RecencyAlwaysOnlyNudges` needs the scores to be numbers, which are sums over
the words of the search (`StrengthIsNatural`), and the bonus to be between nothing and
the whole (`BonusIsBounded`).

`TypeOK` of `LiveSearch`, of `PagePool` and of `SearchThreadsProofs` is proved and is
therefore in no run. The other modules have no type invariant of their own: the
invariants above contain one.

## 5. What is not modelled

- The conversion of an adapter's fields (salaries as text, HTML, dates), request
  parameters, waiting times between attempts, the text of answers and warnings.
- In `SearchThreads`, the counters and ages by which eviction chooses, the providers,
  and `close()`: all are in `LiveSearch`. `LiveSearch` in turn has no threads. That each
  atomic call of `LiveSearch` is what the steps of `SearchThreads` amount to when no
  thread interferes is not stated. A promotion that a batch causes before its search
  settles is in `LiveSearch` only, so a discard that cuts into it is modelled at the
  promotion that settles.
- That a promised index stays readable: an ordinary start during a refresh
  overwrites `latest` (see the hazards). `RefreshHasServing` says only that
  something is served, and, like all of `LiveSearch`, only of discards that come between
  two actions of the loop.
- `warm_defaults`, which nothing but tests calls; creating, renaming and listing
  profiles, which are single statements; the text search of `GET /jobs`, which is
  PostgreSQL's; the migrations other than 005.

## 6. Plan

Done: all modules above, and a theorem for every safety property. What is left, in
this order:

1. The thread steps of `SearchThreads` as a refinement of `PolledSearch`, with what a
   poll under way may still see added to the contract; and for two PATCHes at once, what
   of `NobodyWaitsInVain` is left.
2. An abstract specification of a paginating or single-feed adapter, as the live search
   sees it (batches, then an end or an exception, never more than the cap), that
   `PagePool` and `FeedAdapters` implement and the consumer of `LiveSearch` relies on.
3. The conversion of salaries and dates in the adapters, over bounded inputs.
