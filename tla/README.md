# A verification of Data Diver

Data Diver turns county web sites and open-data portals into one life cycle per
property.  A C++ engine (`src/src`, `src/include/dd`) fetches sources, reads
their documents, learns which column means what, notices when a site changes,
repairs its own mapping and keeps every property event in plain files.  A
TypeScript worker (`src/cloud/src`) runs the same engine as WebAssembly over
Postgres and Durable Objects, talks to investors by SMS and runs sources on
their behalf.

This directory holds TLA+ models of the parts whose correctness is a matter of order,
interleaving and crashes, and of the algorithms whose results other parts build on
over many runs; TLC configurations that check them on small instances; and proofs,
checked by TLAPS, that the main properties of the stateful parts hold for every value
of the constants.  `PROJECT.json` lists the components, the runs, the mutants that
show each property can fail, the source lines of each definition, the findings, the
hazards and the theorems.

## Inventory

### Engine

| part | state | operations | correct when |
|---|---|---|---|
| durable files (`core/core.cpp` fileio) | files; the `.tmp` beside each | `append_line`, `write_file_atomic`, `read_lines`, `list_dir` | a restart reads what was written, but for the line a crash cut |
| store (`engine/store.cpp`) | sources, learned state per source, events, runs, repairs; one mutex | load, save, append, resolve, snapshots, fetch cache | memory and files agree; a repair is decided once; an event is stored once |
| pipeline (`engine/pipeline.cpp`) | the run in progress | `run_source`, `run_cached`, `ingest`, `ingest_model` | every run ends with its record; what a run learned is explained and durable |
| drift and repair (`engine/heal.cpp`) | none (a function of state and document) | `assess`, `propose` | a repair taken automatically recovers the baseline |
| run scheduler (`run_sources`) | shared counter, threads, results | claim, run, join | each source once, none skipped, dependent sources last |
| Socrata paging (`fetch_socrata_pages`) | offset, records so far | read, cut, stop | no row lost, cap kept, ends |
| mapping inference (`engine/schema.cpp`) | a source's mapping and overrides, the watch of a url | `infer_mapping`, `apply_mapping`, `apply_overrides`, `deserialize` | what is in force can be read back, takes a column whole or by parts, and obeys every decision |
| events and life cycle (`engine/events.cpp`) | none | `build_events`, `compute_id`, `reduce` | same record, same id; the state follows from dates, and from arrival only among events of one date |
| entity resolution (`engine/entity.cpp`) | none | `parse_address`, `compatible`, `property_key` | neighbours are told apart |
| county compile (`engine/compile.cpp`) | none (a function of the stored events) | `county_from_events` | each event is reported once; no claim vanishes; the newest edition wins |
| source list (`store.cpp`, `catalog` in `harvest.cpp` and `commands.cpp`) | `sources.json`, working copies of seed files, a source's own files | seed, add, update, remove, catalog add | list and file agree; a removed source leaves nothing; discovery can be repeated |
| harvest and training (`engine/harvest.cpp`, `commands.cpp`, `ml/`) | column corpus, document corpus, two models, in files and in the shell | `harvest`, `harvest-docs`, `train`, `train-columns` | a harvest adds; a session's pipeline uses what is saved; only sure examples teach |
| crawl (`net/crawl.cpp`) | queue, visited urls, page hashes | `crawl`, `RobotsPolicy::parse`, `resolve` | robots.txt is obeyed, redirects aside; breadth first; nothing queued is lost; ends |
| parsers, bench, rendering | none | functions of bytes, output | their tests |
| command line (`app/main.cpp`, `app/commands.cpp`) | none of its own | `add`, `run` (`ingest`), `review`, `watch`, `align`, `crawl`, `train`, `harvest`, `catalog`; approving and refusing a repair, and editing and removing a source, are methods of the store that no command calls | one operation at a time, after the runs it started ended |

A run is one thread's call of `Pipeline::run_source`.  Runs of different sources
are concurrent; they share only the `Store`, whose every method takes one mutex.
The store keeps everything twice, in memory and in files, writes the file first
inside the same lock, and reads the files only in its constructor.  There is no
transaction across methods: a run's events, snapshot, learned state and run
record are four separate writes.

### Cloud

| part | state | operations | correct when |
|---|---|---|---|
| county warming (`worker.ts`, `warming.ts`) | a warm row and a workflow per county, compiled cache with a stamp | `ensureCountyWarm`, `CountyWarmWorkflow`, `compileCountyPayload` | one workflow per county; the cache is never newer or older than its stamp says; a requester is told in the end |
| source runs (`worker.ts`, `sources.ts`) | run rows, event rows, queue of a sweep | `runSource`, `SourceRunWorkflow`, `queueSweep`, `sweepStatus` | a retry writes nothing twice; a sweep completes |
| SMS turns (`worker.ts`) | delivery rows, a workflow per turn | inbound dedupe, `/sms/process`, send | a message is answered once, or at least never twice |
| thread (`conversation/thread.ts`) | conversation, profile, drafts, approvals, trees with versions | `handleMessage`, `attachDraft` | nothing is sent or changed without the user's yes to exactly that |
| decision trees (`decision/graph.ts`) | none | compile, validate, evaluate | a compiled tree is valid; evaluation ends at a leaf |
| credentials (`worker.ts`, `codex/oauth.ts`) | sealed token per thread | connect, refresh | a refresh token is spent once |
| politeness, paging, crawl | slot per host; page position | `makeLimiter`, `fetchPaginated`, `crawl` | requests of one host are spaced; paging ends |
| outreach schedule | none | `nextSendWindow` | a send falls in the allowed hours |

### What is hard here

* Crashes between and inside writes: four writes per run, a temporary file that
  is read back, logs whose last line may be cut.
* Runs that interleave over the shared store, between reading the tracked
  properties or the learned state and acting on them.
* Long sequences of legal runs, drifts, repairs, reviews and approvals that move
  the mapping and its baseline.
* Paging by offset through data that changes, and its boundary at the cap.
* A shared counter between threads, two waves, a join.
* Files rewritten in several steps: a source list with the files of its sources, a
  corpus removed and written again line by line.
* Models held in three places (file, shell, pipeline) and trained in any order.
* Pairwise rules applied in sequence (greedy matching, weighing of claims, joining of
  properties), whose result may depend on an order nobody chose.
* In the worker: retries of workflows, deduplicated deliveries, rows read before
  an `await` and used after it.

`PROJECT.json` lists these one by one under `hazards`, each at its line, with the
properties that would catch it going wrong.

## Modules

| module | models | state |
|---|---|---|
| `LineFile` | the files: a log of lines, what a crash leaves of it, what a reader sees | operators |
| `Heal` | drift, the verdict on a repair, the moving average | operators |
| `Ingest`, `MCIngest` | `Pipeline::run_source`, `run_cached` and `ingest_model` over `Store`, the operator, crashes | 15 variables |
| `RunWaves`, `MCRunWaves` | `Pipeline::run_sources` | 7 variables |
| `SocrataPages` | `fetch_socrata_pages` over a growing dataset | 7 variables |
| `Schema` | the matching of columns to fields and the reading of records with it | operators |
| `Matching`, `MCMatching` | one source's mapping through runs, reviews and approvals, and the watch of its url | 7 variables |
| `Sorting` | the sorts of the library, as orders | operators |
| `Entity` | addresses and property keys | operators |
| `Lifecycle` | records to events, events to a property's state | operators |
| `Compile`, `MCCompile` | `county_from_events` over what runs left in the store | 3 variables |
| `Robots`, `Links` | robots.txt; links resolved against a page | operators |
| `Crawl`, `MCCrawl` | `crawl::crawl` and the redirects of its requests | 11 variables |
| `Catalog` | what `discover` makes of the portals' answers | operators |
| `SourceList`, `MCSourceList` | the list of sources, who changes it, crashes between its writes | 13 variables |
| `Harvest` | what a harvest takes from the portals as examples | operators |
| `Training`, `MCTraining` | corpora, trainings and who uses the models | 12 variables |
| `CountyView` | the promise: an answer is a snapshot taken between question and answer | 4 variables |
| `CountyCache`, `MCCountyCache` | `compileCountyPayload` under the database statements of `runSource` | 8 variables |
| `EventWindow` | the newest events of a set, up to a limit | an operator |
| `FoldProofs` | theorems about the folds of sequences and sorts by insertion, for any operator | |
| `PipelineProofs` | theorems about `RunWaves`, `SocrataPages` and `Matching` | |
| `IngestProofs`, `CompileProofs`, `CrawlProofs`, `SourceListProofs`, `TrainingProofs`, `CountyCacheProofs` | theorems about the module each is named after | |

`Matching` instantiates `Heal`, so that both judge drift and repairs by one
definition.  `Ingest` takes from the matching only that it is some function of a
document; `Matching` says which, and leaves out what reaches the disk.  `Compile`
reads what `Ingest` stores.  `SourceList` has of a run only the files it leaves.

### Ingest

One action per call into the store, because the store's mutex is held for the
whole of it, and one per decision `ingest_model` takes between two calls.
`work[s]` is the thread that runs source `s`: where it is (`pc`), its document,
its own copy of the source's state, its events.

| code | actions |
|---|---|
| `run_source` up to the ingest | `Begin`, `FetchFails`, `Fetch` (with the body's half of `save_fetch_cache`), `SaveMeta` |
| `run_cached` | `RunCached` |
| `ingest`, `ingest_model` ending early | `Reject` |
| no mapping yet / mapping still good / drift | `Learn` / `Keep` / `AutoRepair`, `Quarantine` |
| filter of an enrichment source | `BuildBatch` |
| `add_events`, `save_latest_records`, `save_source_state`, `record_run` | `AddEvents`, `SaveRecords`, `SaveState`, `RecordRun` |
| `review`, `resolve_repair` | `Review`, `Approve`, `Refuse` |
| the constructor after an exit or a kill | `Restart` |
| a kill between two lines of a batch | `KillEvents` |
| a kill inside a write | `TearEvents`, `TearRepair`, `TearRun` (an append), `TearState`, `TearReview`, `TearApproval` (an atomic write) |

Documents are model values.  What parser, classifier and matcher make of one is
given by constant functions: `StopsAt` (a document that ends its run early),
`Infer` and `Confidence` (`infer_mapping`), `Rate` (`apply_mapping`), `Pin`
(`apply_overrides`), `EventsOf` (`build_events`).  `FirstPage` says that the cache
of a paged fetch holds only the first page; `Reading` says what a body is taken
for under a content type that belongs to another one.  Rates are hundredths and
`UpdateBaseline` divides whole numbers, so the averaged baseline is at most one
hundredth below the code's.

A log is the set of its readable lines and how it ends.  `AppendLine` on a log
that does not end in a newline glues its line to what is there and both are
lost, which is what the next start-up makes of those bytes.

`add_events` appends a line per event.  It holds the mutex to its end, so that no other
call sees a part of a batch and `AddEvents` may be one step as long as the process
lives; a kill is what tells its lines apart, and leaves any number of the new ones
(`KillEvents`), the next one cut (`TearEvents`).  `killed` is history: the runs a crash
put an end to.

Ids are distinct (`nextId`); the code makes them from the clock in seconds, and
`SourceList` says what follows for sources when two meet.  The filter of an enrichment
source reads the property keys and then the events of each in separate lock
periods; the model takes both at once, which is sound because the store only
grows while a process lives.

### RunWaves

Sources are positions 1..N.  `Claim` is `at = next++` with the test that follows,
`Leave` the same on a drained wave, `Finish` the return of `run_source`, `Join`
the joined threads and the start of the next wave.  A worker remembers in `read`
whether its source's template could be expanded when it began.

### SocrataPages

Rows are numbers, oldest first; the dataset is read newest first, as
`order_by_learned_date` asks for, and `Publish` adds a row between any two pages.
`asked` and `ending` are history: the newest row at the first page, and why the
fetch stopped.

### Schema and Matching

A document is its labels and records, and a value is what the validators make of
it: the kinds it is of and the kinds that can be extracted from it.  How alike two
names are and what the column model says of a label are constants, so no text is
compared; every rule that follows is done in full: sampling, the rates measured on
the sample, composite columns, the weighted candidates in their order, the greedy
matching with its clash of whole and parts, the refusal of mappings without an
identity field, the operator's overrides in the order of `std::map`, extraction,
and what `deserialize` refuses.

| code | actions |
|---|---|
| `ingest_model` from a document to a state | `Run` (`Judge`, `EndRun`) |
| `review` and the run it starts | `Review` |
| `approve` | `Approve` |
| `watch_url`: one fetch; its end | `Watch`; `StopWatching` |

### Lifecycle, Entity and Compile

An address is a sequence of words of a class (digits, one letter, a word), a parcel
number a sequence of characters; edition and date are numbers, 0 for none.
`Run` stores the events of a batch of records with the trust of its mapping;
everything else is a function of the log, as in the code: `Groups` joins properties
by parcel and by address, `Resolve` weighs the claims of a field one by one in the
order the code meets them, `Reduce` folds the events to a state, `Report` sorts.

### Crawl

One action per turn of the loop: `Refuse`, `Fail`, `Duplicate` and `Hand`
for what may come of the url at the head of the queue, `LoadRobots` before and
`Finish` after it.  A request follows its redirects (`Redirects`, `Request`) and may
fail at any of them; robots.txt and the host are asked about the queued url alone.
`Parse` is the robots parser line by line, with its grouping of
agent lines.  `Links` resolves what an anchor holds against the page it stands on.
`text`, `handed`, `asked`, `requested` and `refused` are history.

### SourceList

| code | actions |
|---|---|
| the constructor, then `seed` source by source, then its save and its copies | `Start`, `Seed`, `Seeded` |
| `add_source`, `update_source` (with the update that throws half way) | `AddSource`, `UpdateSource` |
| `remove_source`: list and memory, then file by file | `RemoveSource`, `RemoveFile` |
| `catalog add`: the answers, then source by source | `Catalog`, `AddFound`, `Added`; `AddFails` when a dataset has no name |
| a run that saved | `Run` |
| the process ends or dies anywhere, after the save of a start, inside a run's save | `Stop`, `StartDies`, `RunDies` |
| the clock | `Tick` |

An id is the name, the url as it was typed and the second, so that two sources
added within a second can share one.  Portals answer with any of a few answers.

### Training

A model is the number of its training.  `HarvestColumns` removes the corpus and
`WriteLine` and `Written` write it again, because `append_corpus` writes a line at a
time; `HarvestDocs` adds documents.  A training may fail, pass or throw:
`TrainColumns`, `Train`, `TrainingFails`, `TrainColumnsThrows`, `TrainThrows`, where
the guards are those conditions on the corpora under which the outcome is possible for
some numbers.  `Ensure` makes the pipeline on first use, from the classifier's file
and the shell's column model, as `ShellState` does; the classifier the shell read at
its start is an argument of the loop (`main.cpp:414`) and stays what it was;
`TrainElsewhere` is another process.

### CountyCache

Isolates of the worker share the database and the bucket and nothing else, so each
statement and each bucket operation is a step.

| code | actions |
|---|---|
| `runSource`: the run's row, `property.createMany`, `event.createMany`, the update to ok | `CreateRun`, `ListProperties`, `LandEvents`, `MarkDone` |
| a statement that throws, an isolate that dies | `RunDies` (a run), `Drop` (a request) |
| `countyStamp` at the start of `compileCountyPayload` | `Ask` |
| the cached entry: fresh, or not | `AnswerFromCache`, `Miss` |
| `loadCountyEvents` | `Load`, `NoEvents` |
| the mappings of the newest good runs | `ReadTrust` |
| `persist`, row by row | `PersistRow` |
| `bucket.put` and the answer | `PutCache` |
| a new engine with another `abi` | `Deploy` |

Events are numbers in the order of their dates, and the stamp is their count: rows
are only ever inserted, so the newest `recordedAt`, the stamp's other half, cannot
change without it.  A compile is represented by what it was made from: `of`, the
table when it was loaded, of which it shows the `Newest`, and `trust`, for each
source the run whose mapping it used.  A good run is taken to have learned a
mapping with fields; the code passes over one that did not.  A row in `table` is
the set of events it was compiled from.  Each property is a record of its own: the
merging of several keys into one record belongs to the compile and is left
out, and so is the `jurisdiction` by which a county is found.

`CountyView` is what a caller may rely on.  It keeps the events, who is waiting,
what was stored when each asked, and the answer given last; `View` maps `since` and
`step` of a call to them.

## Runs

| run | instance | shows |
|---|---|---|
| `ingest` | a feed and an enrichment source, five documents, three mappings, 3 runs, 1 cut line | memory and files agree (`MemoryMatchesFiles`); done runs are durable (`DoneRunsAreDurable`), and a cut line costs at most two events (`LossBound`); mappings change only with a record (`MappingChangesAreLogged`); baselines slip by three tenths at most (`BaselineNeverSlips`); enrichment stays with tracked properties (`EnrichmentOnlyTracked`); repairs are decided once (`RepairsAreDecidedOnce`); every run the process lives to see is recorded, however early it ends (`RunsEnd`) |
| `ingest_review` | one source, one decision to pin, 3 runs, 1 cut line | an operator's decisions outlive runs, repairs, approvals, crashes (`DecisionsStand`) |
| `run_waves` | 5 sources, 3 threads | each source once (`EachOnce`), `{parcels}` last (`ParcelsWait`), the command returns (`Returns`) |
| `socrata` | pages of 3, cap 14, up to 17 rows | the cap (`CapHolds`), no gap (`NoGap`), a short end is complete (`ShortMeansAll`), termination (`Ends`) |
| `matching` | 4 fields, 24 documents of 3 columns that change name, shape and validity, 3 runs, reviews or looks | a mapping takes a column whole or by parts and can be read back (`WholeOrParts`); the matching is the best pair by pair (`MatchIsStable`); decisions are in force after every good run (`DecisionsInForce`); watch and run tell drift alike (`WatchTellsDrift`) |
| `matching_kept` | the same | a sentence of the README the code does not keep (see Findings) |
| `compile` | two editions of a roll, a tax list, deeds, violations and another county, 4 runs | events are reported once (`EventsReportedOnce`); neighbours stay apart (`NeighboursApart`); the state follows from the dates of what came after the last deed (`StateFollowsDates`); dropped values are on record (`NoSilentLoss`); among dated sources the newest wins (`NewestOfDated`) |
| `crawl` | 7 urls, 6 pages, depth 3, 4 links a page, every robots.txt of an agent line and up to three more | robots.txt, read as a set of records, is obeyed but by redirects (`RobotsObeyed`); depth is distance (`DepthIsLeast`); nothing queued is lost (`NothingLost`); the crawl ends (`Ends`) |
| `source_list` | one seed, three portals' answers, two seconds, 5 commands | memory is the file but for a refused update (`FileIsMemory`); no state without its source (`NoStrayState`); repeated discovery lists nothing again (`FoundOnce`) |
| `training` | two fields, a portal to learn from and one held out, 5 commands | a harvest keeps the corpus (`HarvestKeeps`); a session's pipeline and column model are the saved ones, and its shell's classifier until it trains one (`SessionServesSaved`); a column taught as no field is not named like one (`NoneIsSure`) |
| `county_cache` | 2 requests at a time, 2 runs of 2 sources, 2 events of 2 properties, 2 engines | answers are snapshots no older than their question (`ImplementsView`); a warm county is whole (`WarmIsWhole`) and its rows are filled (`CachedMeansPersisted`); done runs are stored (`DoneMeansStored`); a county somebody goes on asking for ends warm (`EventuallyWarm`) |
| `county_rows` | two overlapping compiles | a comment of the worker the code does not keep (see Findings) |

### Bounds

`MaxRuns` of `Ingest` bounds runs ever started.  Three are enough for the longest
story of one source: learn, drift and propose, then run on the approved mapping; or
for two sources, a first run to be tracked, one to enrich, one to interleave with
either.  The invariants relate one run to the run before it, so longer histories
repeat these steps; the proofs remove the bound.  `MaxTears` bounds crashes that cut a log
line: one shows both lost lines (the cut one and the one glued to it).
Exits, kills between writes and kills inside an atomic write are not bounded.

The cap of 14 is no multiple of the page of 3 and 17 rows reach past it, so a cap met
inside a page, on a page's end and by a short page all occur.  Five sources on
three threads have waves larger than the pool (four), equal to one worker (one), and a
worker that gets nothing.

Three steps of `Matching` are a mapping learned, one drift, repair or review, and a
run that meets its result; a review may answer every candidate in every way.  Its
documents have four rows of which three are sampled, so that a column can differ
beyond its sample.  Four runs of `Compile` let four of six sources meet in any order,
or one edition follow another with two sources between; a deed and a tax record of one
property have no date, so that their arrival decides.  The crawled site has one url
more than its queue has room for, a page served under two urls, a redirect off the
host, one to a page that robots.txt may forbid, and a circle; three lines after an
agent line reach every state of the robots parser, and longer texts with both records
are added by hand. Five commands of `SourceList` are, for instance, start, add,
discover, start again after a crash and discover again; two seconds let ids meet and
differ.  Five of `Training` are start, use, train, use, and a training elsewhere, or
two harvests around a crash.

Two requests of `CountyCache` are enough for a compile to overtake another
between any two of its steps; each request may be repeated and may die any
number of times.  Two events stored by two runs give three different stamps, and
one deployment is one change of `abi` under a request.  With a limit of two nothing
is cut in that run; that answers are right when the limit cuts is proved.

### Deadlock

It is checked in every run but those whose configuration sets `CHECK_DEADLOCK`
to `FALSE`; a system whose work is over (`Returned`, `Ended`, `Done`) stutters
explicitly, and `Ingest` can always restart.  `Matching`, `Compile`, `SourceList` and
`Training` stop when their bound on commands is reached; a person who types nothing
more is no deadlock.

### Fairness

`Ingest`: weak fairness of each source's `Step`, the steps a started run takes by
itself; nothing is assumed of new runs, the operator or crashes.  The code runs a
started run on its own thread to the end, no store method waits for anything but
the mutex, and a fetch has a time limit.  `RunWaves`: weak fairness of each
worker and of the join.  `SocrataPages`: every request comes back, with a page or an
error; nothing is assumed of `Publish`.  `Crawl`: the loop goes on, because it
waits for nothing but a request and every request has a time limit; which of its
outcomes a request has is left open.  `CountyCache`: weak fairness of each step of a
call that began.  Nothing is assumed of calls beginning, runs or deployments.
That the county is asked for again and again, and that from some moment on
requests no longer die, are premises of `EventuallyWarm`, for the worker schedules
neither: a warm workflow is keyed by stamp and `abi` and not created again once it
completed (`warming.ts:34-52`, `worker.ts:1762-1837`), so after a late put of an
old compile only a request for the county itself compiles again (`worker.ts:2084`).

## Theorems

Every theorem is about the specification without bounds on its constants.

* **Folds** (`FoldProofs`).  Loops over lists are folds here.  What a fold computes is
  shown by induction over the length of its sequence, and the operator folded is a
  constant of the module: a proof instantiates `FoldProofs` with the operator it is
  about.  `FoldRuns`: there is a sequence of intermediate results, each made of the
  one before by one application, and each of a set the operator does not leave.  With
  `ReachesLast` an invariant of the loop then holds of its result, which
  `FoldReaches` says at once; `SortsMembers` is its consequence for sorts, whatever their
  order: the members, their number and what holds of every two of them stay.  All are
  proved from the definitions of the library and from the well-foundedness of the
  natural numbers.
* **Types** (`IngestProofs`).  `TypeInv` adds to `TypeOK` that a run that
  settled has a mapping and a document; without it a rate could not be typed.
* **Files** (`IngestProofs`).  `FilesInv`: memory is what the files hold, and until a
  line is cut each log is exactly memory with every newline in place, which is what
  makes the next append readable, wherever in a batch the process was killed.
  `DurableInv`: from the step that adds them to the step that records the run, a run's
  events are known.  They give `MemoryMatchesFiles` and `DoneRunsAreDurable`.
  `LossInv` counts: there is a set of events such that all that is known or reported
  is in the log or in it, and its size, with the lines the next append can still cost
  (none, or the append and the unterminated end it is glued to), is at most two for
  each crash inside a line. Without those lines the bound is not inductive.  It gives
  `LossBound`.
* **History** (`IngestProofs`).  The properties of a step need what the run
  knew when it settled.  `SettledOK` carries it from the decision to the save: the
  state in the store did not change under the run; its mapping extracts six
  tenths of the baseline, or replaces one whose repair is in the log and extracts
  seven tenths.  `IdsInv` (ids are given once, a run that has not decided has
  logged nothing), `EarnedInv` (good runs are runs of a mapping) and `FilteredInv`
  complete it.  Two lemmas say how a learned state can change at all
  (`StatesMove`: the end of a run, a review, an approval, or forgetting a state
  that was only in a `.tmp`) and how the repairs can (`RepairMoves`).  From them follow
  `MappingChangesAreLogged`, `BaselineNeverSlips`, `DecisionsStand`,
  `RepairsAreDecidedOnce` and `EnrichmentOnlyTracked`.
* **Scheduler** (`PipelineProofs`).  The counter is the number of positions
  claimed; a claimed position below it is running or has its result.  So
  nothing runs twice and, when the last wave is joined, nothing is missing (`EachOnce`).
* **Paging** (`PipelineProofs`).  While fetching, the records end at or above the
  row the next page starts from, and their number is the offset.
* **Matching** (`PipelineProofs`).  Each loop of `Schema` is a fold with an invariant
  of its own.  The candidates come in falling confidence, so that whatever was met
  is at least as certain as what comes next; after the first k of them each that
  passes is taken or clashes with one taken that is as certain, and no two taken
  clash (`AcceptedStands`).  The first half is `MatchIsStable`.  The second survives the
  order of the registry, what a pin erases and the pin itself (`OrderedFacts`,
  `ErasedFacts`, `PinFacts`), so that all mappings have it: `WholeOrParts`.  Along
  the names of the decisions, each that was applied is in force or its column went to
  a later pin (`OverridesFacts`); `MatchInv` carries this between the steps to
  `DecisionsInForce`.  `DecisionsInForce` is not inductive by itself: a run
  judges a mapping that a repair or an earlier run left, and what is erased and
  kept of it is known only of a mapping.  `WatchTellsDrift` is shown of each step; no
  invariant is needed.
* **Compile** (`CompileProofs`).  `LogInv` says of the store that its events have
  their type and an id of their own each.  Everything else is said of the functions of
  the log, in four groups.  `InsertsAt` and `Prefix` show that the insertion sort
  keeps its list sorted by a total order, so that `Chronological` lists the events of
  a group, each once, by date; along it, every state proposed since the last deed is
  at most the state there (`MoveFollows`).  That order breaks ties of date by the run
  that stored an event, so it does depend on arrival; `OrderFollowsDates` keeps of it
  what dates alone say, which is `StateFollowsDates`.  `WeighKeeps` and `WeighPrefers`
  carry through the weighing of a field that every value met is the best, or the same
  as it, or on record as dropped (`NoSilentLoss`), and that a claim with an edition is
  not older than any claim it may lose to (`NewestOfDated`).  `PlaceKeeps` shows that
  the buckets of a group partition it and that any two members of one fit each other,
  which with the parcels of a group gives `NeighboursApart`.  `GroupsDivide` makes of
  that a partition of the county's keys; the properties of a report are its located
  groups, each once (`ReportLists`), each compiled from all events of its keys
  (`EventsInCounted`), so that along the report the lengths add up to the events shown
  (`ShownGrows`).  `LocatedIsListed` follows an address from the record through the
  key to the value that won: its group is located by that value, whichever event it is
  of.  They give `EventsReportedOnce`.
* **Crawl** (`CrawlProofs`).  `CrawlInv`: the queue is in order of depth and spans two
  levels at most; each url in it was linked from a page one level above, and each page
  handed out has all its links met at their level; so the depth of a page is its
  distance (`DepthIsLeast`).  What was ever queued is waiting, asked or refused, and
  counted once, so that a crawl that ends below its limits has followed every link
  (`NothingLost`).  `RobotsInv` adds to `RobotsObeyed` that whatever was requested was
  asked for or is on the way of a redirect; it rests on `ParseDecides`, an invariant
  of the parser's loop over the lines of any robots.txt: the rules collected so far
  are those of the records that name the agent, of `*` while there is none.
* **Source list** (`SourceListProofs`).  `ListInv`: list and file are lists of
  sources, and outside a start they have the same ids in the same order and differ
  only in records a refused update touched; `Persist` makes them equal.  `StrayInv`
  says where a state may be at each stage: of a listed source, of the one being
  removed until its file is gone, or of one a write died on.  During a start the list
  may already hold seeds the file has not, so that the states are compared with the
  file's ids first.  `FoundInv` gives `FoundOnce`: of each url the list has at most as
  many found sources as one answer of the portals names it, and while a discovery is
  being added, those in the list and those still to come together are no more.
* **Training** (`TrainingProofs`).  `SessionInv`: until another process saves a model,
  the shell's column model is the saved one, whether or not a pipeline exists, and
  the pipeline is both saved models; every training updates each holder it reaches,
  and no classifier's number is above the last training's, so that the one the shell
  keeps differs from any the session saves.
  `CorpusInv`: while the corpus is written again, the lines in the file and those
  to come hold what there was, each column once; outside it, the file holds it, or a
  line in it is torn.  It gives `HarvestKeeps`; with the lemmas on `Harvested` it gives
  `NoneIsSure`.
* **County** (`CountyCacheProofs`).  `Chain`: all snapshots anybody holds are
  ordered by inclusion, because the table only grows; this is what makes a
  comparison of counts a comparison of contents.  `StampsLag`: a stamp counts what
  was stored when the request began, and what is loaded is loaded later.  From both
  follow `WarmIsWhole` and, with `CountyView`'s steps, the refinement
  `ImplementsView`.  `Written` and `RowsFilled` follow the order of the writes and give
  `DoneMeansStored` and `CachedMeansPersisted`.

The assumptions are those named in the modules.  They say that the constants have
their types (documents, pages, answers and batches hold lists of the records the code
reads; limits, pages and pools are numbers that are not empty; a column of a document,
and each word in its name, has been compared with every field), and beside that: the
names of the fields come once each in the order of the decisions; enrichment sources
are sources; the empty mapping is no mapping; no pinned decision leaves a mapping as
it is; `none` is no field; a corpus as shipped has a column once; seeds are not found
by discovery; a seed url has a host; ids are ordered as text, which is a total order
(`OrderAssumption`).

Only model-checked are `RunsEnd`, `Returns`, `Ends` and `EventuallyWarm`: liveness under
fairness is out of the prover's reach.  `RunsEnd`: a run that began is recorded in
the end, unless the process was killed under it.

The type invariants of `Ingest`, `RunWaves` and `CountyCache` are proved and not run.

## Findings

1. Of two overlapping compiles the older one can leave its rows in the properties
   table under a fresh entry of the newer one, and later requests do not write
   them again (`county_rows`).
2. A review's "y" to a match of one part of a split column is stored as field and
   label, and pins the whole column: the part the operator kept is replaced, and the
   other parts' matches are removed (`matching_kept`).

### Known divergences

Found while modelling, reproducible by stating the sentence as a property of the module
named, and not kept as runs:

* An accepted repair is changed by the operator's overrides afterwards and not
  judged again (`pipeline.cpp:564`; `src/README.md:211` "auto-accepted only above
  75% confidence with the baseline recovered") (`Ingest`).
* The newest record's date is not read back, so `fresh` has none after a restart
  (`store.cpp:85`) (`Ingest`).
* A state left in a `.tmp` file is loaded, and lost by the next save that dies: a
  review's answers can disappear (`store.cpp:226`) (`Ingest`, as `Forgets`).
* `{streets}` and `{numbers}` sources run in the first wave (`pipeline.cpp:322`)
  (`RunWaves`).
* A dataset that meets the cap with a short page is recorded as truncated
  (`pipeline.cpp:301`) (`SocrataPages`).
* A compile that reads between a run's events and its ok flag, or a source read
  again with the same events, leaves a fresh entry that does not use the newest
  run's mapping (`worker.ts:1389`) (`CountyCache`).
* A source without an edition is weighed by confidence against dated ones, so a value can
  win over a newer edition that lost to it in turn (`compile.cpp:66`) (`Compile`, which
  therefore states `NewestOfDated` for claims that are all dated).
* robots.txt is said to govern "whether a path may be fetched" (`crawl.hpp:19`), and
  is asked about the queued url only: the fetch follows redirects (`fetch.cpp:100`),
  so a forbidden path of the host is requested when an allowed one redirects to it
  (`crawl.cpp:286-295`) (`Crawl`, whose `RobotsObeyed` says it is the only way).
* `train` says its classifier is "live-swapped into this session"
  (`commands.cpp:450`): the pipeline's is; the one `align`, `watch` and `crawl` are
  given is the one the shell read at its start (`main.cpp:414`, 608, 664, 670)
  (`Training`, whose `SessionServesSaved` says when the two differ).
* A harvest says it merges rather than replaces, and a crash while it writes leaves the
  part written (`commands.cpp:503-518`) (`Training`, whose `HarvestKeeps` excepts it).

### Observations

Behaviour the models show that nothing in the repository contradicts:

* `EventId` leaves out amount and edition: a record that changes only in them is
  the event already stored (`events.cpp:55`).
* A repair whose approval is cut short between `repairs.jsonl` and the state is decided,
  and its mapping not in force (`store.cpp:558`) (`Ingest`).
* Events of one date, or of none, are ordered by the run that stored them
  (`events.cpp:139-143`): an undated deed read before an undated tax record leaves the
  property in distress, read after it leaves it normal (`Compile`, whose
  `StateFollowsDates` is exact but for events of the last deed's date).
* A property's first address, and with it what it joins, depends on the order events
  arrived in (`compile.cpp:23`).
* What a refused `update_source` changed becomes durable with the next save
  (`store.cpp:344`).
* `remove_source` leaves a `.tmp` of the state, and a removed seed returns at the next
  start (`store.cpp:376`).
* The copy of a seed's file is made at whatever its url is by then, also one the
  operator typed (`store.cpp:303-309`).
* `catalog` compares urls as portals write them with urls stored trimmed: one with
  white space is added again each time; a package that answers two queries is taken
  twice in one discovery (`harvest.cpp:485`); a dataset without a name ends the shell
  (`commands.cpp:743`).
* The shipped column corpus has 54 lines labelled `none` whose names are a field's own
  words (44, as `longitude` at `data/columns/corpus.jsonl:90`) or near them (10, as
  `X_COORD` at 502), where a harvest would label the first and leave out the others;
  a line keeps its label when a harvest merges (`commands.cpp:509`).  `NoneIsSure` is
  therefore about the lines a harvest added.
* A corpus keeps one label per column name and domain: a column that is labelled
  otherwise later keeps its first label (`commands.cpp:509`).
* A url under watch is held against its last document, so slow decay is never drift,
  and `heal::describe` says nothing of parts (`main.cpp:266`).

## Not modelled

* Text: how names are compared, dates and amounts read, documents parsed and
  reports written.  The models take what these functions decide as constants; their tests
  cover them, and no property here is about characters.
* The numbers of the two models (naive Bayes, the transformer), valuation, the
  calendar of sends: numeric functions of their input.
* Failing writes (a full disk): the engine throws from a worker thread and ends, which
  is a crash between two steps unless the last buffer is lost in silence.
* Two processes on one root, except for the saved models: the code assumes one.
* The worker's conversation: SMS turns and their redelivery, threads with drafts
  and approvals, credentials, the warm row with its workflow, the sweep, the limiter
  of hosts.  Each is a protocol with services this repository only calls; their
  hazards are listed with a note.
* Benchmarks, exports, logging, the browser wrapper (no state of its own), and the
  TypeScript counterparts of the paging and the crawl.

## Plan

The engine is modelled: its runs, scheduler, paging, matching, compile, crawl, source
list and training.  What would come next:

1. `CountyWarm`: warm row and workflow over `CountyCache`'s compile, with requesters
   that must be told; its abstract specification is a promise per requester.
2. `TurnDelivery` and `Thread`: inbound dedupe, turn workflow and retry; drafts and
   approvals under interleaved turns; at most one reply per message.
3. `SourceRun`, `HostLimiter`, `Credentials`: a workflow's retries and the sweep's
   count, slots and refresh tokens under concurrent callers.
4. Failing writes in `LineFile`, and `RunWaves` composed with `Ingest`.
