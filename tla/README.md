# Archon and Arctika in TLA+

Netsearch builds Solr indexes of a web archive. **Archon** is a service with a
table of every ARC/WARC file; **Arctika** index builders, one per Solr shard,
ask Archon for files, have worker processes index them, and report back. This
directory specifies the protocol between the two and the concurrency inside
each, the script that registers files and the tool that validates the result,
checks them with TLC on small instances, and proves the central parts with
TLAPS for every instance.

What everything depends on: a file must be indexed into **one** shard, must
not be **forgotten**, and what Archon says of it must be what **happened**.
All three are about the order of steps of several programs, none of which
takes a lock; the unit tests of the repository call them one at a time.

## 1. Inventory

| Component | State | Operations | Modules |
|---|---|---|---|
| Archon storage and REST requests (`ArchonStorage`, `ArchonFacade`, `ArchonResource`) | table `ARCHON`; per-shard caches `nextArcIdsCached` (static memory); `isPaused` | `nextARC`, `addARC`, `addOrUpdateARC`, `removeARC`, `setARCState`, `setARCProperties`, `setARCPriority`, `resetArcWithPriority`, `clearIndexing`, `resetShardID`, `setShardState`, `nextShardID`, `setPaused`; reports | `Archon`, `ArcLeases` |
| Archon under concurrent requests | the same, plus where each servlet thread is | the steps of `nextARC`, the other requests of the workflow beside them, the container going down | `ArchonRequests` |
| Archon as it is operated | files each builder was given | fetch, report, crash, restart, register, give back | `ArchonWorkflow`, `ArcLeases`, `BuilderLeases` |
| Archon client (`ArchonConnectorClient`) | none | one HTTP call per request | `ArchonWorkflow`, `IndexBuilder` |
| Index builder (`IndexBuilder`) | `builderState`, the batch, the pool of `JobController` | `buildIndex`, `isIndexingFinished`, `performOptimize`, `startNewIndexWorker`, `taskFinished` | `IndexBuilder`, `BuilderLeases` |
| Index workers (`IndexWorker`, `IndexWorkerShellCall`, `IndexWorkerSpawnJVM`) | status of the run and of every file | `call`, `processARCs` | `IndexWorker` |
| Solr client (`ArctikaSolrJClient`) | none; Solr has size and segments | `flush`, `optimize`, `getStatus` | `IndexBuilder` (as an environment) |
| Registration scripts (`register_add_arc_files.sh`, `register_add_ALL_arc_files.sh`) | per folder a listing, its timestamp, the registered files; a lock. The second script has no state | list, compare, `addOrUpdateARC`, note | `RegisterScript`; `ArchonWorkflow` (what Archon sees of both) |
| Validation tool (`warcindexvalidationtool`) | records read, records found, in memory | read, count, look up in batches, list | `ValidateWarc` |
| Web application shell, vendored scripts, file name parser | none that matters here | start-up and pages; a regular expression | not modelled |

**Interaction.** A builder calls `clearIndexing(shard)` once, then
`nextARC(shard)` for every file; Archon marks the row `RUNNING` with the shard
before it answers. Worker threads call `setARCState` when a file is done.
`JobController` calls `taskFinished` on the worker's own thread, where it reads
`builderState`, which the main thread writes. Archon's servlet threads share
the static caches. Between Archon and a builder nothing but the table says who
works on what. The registration script is started by cron and knows what Archon
has by its own notes only; the validation tool reads Solr while builders write.

**What is hard, and what makes each component correct.**

* *Archon.* The cache is a copy of rows and is never looked up again, so it can
  be stale; it is shared by threads with no lock; it is memory, and the rollback
  of a request does not restore it. Correct means: what is handed out is free,
  for that shard, to one shard only; "nothing left" is true; no waiting file
  waits for ever; a shard's bulk updates touch its own files.
* *Protocol.* Answers are lost after the commit, builders die with leases, and
  the only repair is `clearIndexing` at the next start. Correct means: what a
  builder works on is `RUNNING` for its shard and no other.
* *Builder.* Retries, reports, optimization and shutdown run on different
  threads; counts of active jobs leave out queued ones; every wait has a timeout;
  everything can throw. Correct means: a file is with one worker at a time, is
  reported once, is tried a bounded number of times, is dropped only where the
  code really drops it, and the builder stops.
* *Registration.* It is killed anywhere, its calls fail or are refused without
  notice, files arrive while a folder is listed. Correct means: what it has
  noted is true, and every file gets to Archon in the end.
* *Validation.* It compares numbers first and records, in batches, afterwards,
  with an index that grows in between. Correct means: the list of missing
  records is exact, and the verdict is right where numbers can tell.
* *Worker.* The status of a file is guessed from the text a script prints.
  Correct means: every file gets a status and `COMPLETED` means the script said so.

`PROJECT.json` lists the hazards at their lines, with the properties that
cover each.

## 2. The modules and the code

`Archon` <- `ArchonWorkflow` <- `ArchonRequests` and `ArchonWorkflow` <-
`ArchonProofs` <- `BuilderViewProofs` are chains of `EXTENDS`; `ArchonWorkflow`
instantiates `ArcLeases` and, once per shard, `BuilderLeases`. `IndexBuilder`
abstracts Archon to the states of its shard's rows and a worker to the set of
files it completed, and instantiates `BuilderLeases`; `BuilderProofs` extends
it. `RequestProofs` extends `ArchonRequests` and `ArchonProofs`. `IndexWorker`,
`ValidateWarc` and `RegisterScript` stand alone, each with its proofs
(`WorkerProofs`, `ValidateProofs`, `RegisterProofs`). `MC*` modules hold the
values of the constants.
Operators called "a faulty variant of ..." are plausible bugs; they are used by
no specification, and show that the properties would catch them.

**`Archon`** - one action per REST request, with its commit or rollback.
`db` is the table, without the two time columns, that order reports only;
`cache[s]` is `nextArcIdsCached`, where an absent key and an empty list are the
same (`nextARC` treats them alike). `Eligible`, `Before`, `LoadSize` and
`LoadOrders` are the SQL query: `WHERE`, `ORDER BY`, `LIMIT`, and any order
among ties. `NullsLast` is the order of NULL, which the SQL standard leaves to
the database: last on PostgreSQL, first on H2 (the database of the tests).
`HandOut` removes the head by `ArcVO.equals` (folder and name) from every
cache, then marks the row: an unknown row rolls back the table and not the
caches. Each request that names an unknown row is answered with an error
(`UpdateRow`). `RestartServer` empties the static fields.

**`ArcLeases`** - the abstract specification: every file is absent, free,
leased or done; a lease is given on a free file only; "nothing left" is said
only when nothing is. It knows of no cache and no priority.

**`ArchonWorkflow`** - the requests as they are really made: `held[s]` is what
the builder of shard `s` was given and has not reported. `FetchLost` is an
answer that never arrives, `RestartBuilder` the `clearIndexing` of a new start.
The operator gives back only what no builder holds (`Reset`, `ResetShard`, and
`Requeue`, which is `setShardState` to `NEW`), removes and corrects only finished
files (`Discard`, and `Correct`, which is `setARCProperties`) and may change
priorities, ask for a shard ID (`AskShardID`) and pause any time. Outside of this
discipline are the other uses of `setARCState`, `setARCProperties` and
`setShardState`, and a file that moves to another folder: they are in `Archon`.
With them `OnlyEligibleReturned` is false, for a file that is cached and then
changed by the administrator is handed out all the same.

**`BuilderLeases`** - the contract between Archon and *one* builder: it takes
free files, drops what it likes, finishes only what it works on, and gets back
its leases when it is started; `Environment` is everybody else, who may do
anything to a file but one this builder works on. The two sides meet here:
`IndexBuilder`, with all its threads, failures and restarts, implements
`Spec` (`StatusOf`, and `InHand` as what it works on), and of `ArchonWorkflow`
every builder's view is a behaviour of `OpenNext` (`NobodyInterferes`). So what
was found of a builder alone with its rows stands when others share Archon
with it, as long as requests are served one at a time. Two whole builders are
not put beside one Archon in one instance; the contract is what replaces it.

**`ArchonRequests`** - `nextARC` in the steps between which another servlet
thread can run: test and query, put, size, remove, one purge per list, commit,
and the answer. After the facade's commit the answer is on its way (`InTransit`)
and arrives (`Deliver`) or is lost: with the connection while the builder lives
(`LoseAnswer`), with the builder, or with the container.
`req[s]` is the program counter and the local variables of the thread that
serves `s`; `keys` are the keys of the `HashMap`, because a key added during
the purge loop makes its iterator throw. Test and query are one step: a list
that is empty stays so until this request fills it, as the only writer of
non-empty lists for `s` is the request of `s`. A builder that dies
(`CrashBuilder`) leaves its request running, beside the `clearIndexing` of its
successor; `orphaned` is a history variable with the committed leases nobody was
told of: the answer was lost, or the builder had died. `raced` is another: it becomes true when a request looks at its
list while another one has looked at its own and has not ended. `Operate` is what
the operator and the scripts may ask for between any two steps, and
`ReportMeanwhile` what a builder's workers report while it waits for its answer.
`RestartContainer` ends all requests under way with no answer - what was
committed stays so - and empties the caches.

**`IndexBuilder`** - the main thread by its program counter `pc`, and a record
per worker in the pool. `Active` is `getActiveCount`: running, or in
`taskFinished`, not queued. `unpolled` counts futures that are finished and
not polled. A worker's return gives any subset of its files as completed
(`IndexWorker` says which); then each file takes one step of its own -
`ReportCompleted`, `ReportRejected`, `SetAside` - because `builderState`, read
in `CanRetry`, can change between two files of one loop. Trouble: `popAll` or
`poll` times out, a file is missing, `setARCState` throws, a worker dies of an
`Error`, Solr or Archon does not answer the main thread, the process ends. A
request that fails was not sent, or was done and its answer is lost: `FetchLost`, both cases of `StartFails`
(`clearIndexing`) and of `ReportFails` (`setARCState`).
`lost` is a history variable: leased files dropped without a report.
Solr grows by at least the completed and at most all of a worker's files.

**`IndexWorker`** - `call` and the two ways of `processARCs`. A line of output
is the number it starts with and the file it names; `PartOf` says which file
names are parts of others. `Matching` is the set of lines that seem to be about
a file; `Parse` decides one file by the first of them (`Decide`), or rejects the
whole batch when the number does not fit an int (`RejectAll`, the `catch` of
`call`). `StatusAsReported` is the promise of the class comment for the files
whose name is not part of another (`Unambiguous`).

**`RegisterScript`** - one action per command of `register_add_arc_files.sh`
that changes a file or calls Archon. A run remembers the loop it is in, the
folder, the modification time it copied (`touch -r`) and what `comm` printed;
everything else is in files and survives a kill. `set -e` is in the actions:
`List` ends the run when `grep` finds no name, `SendFails` when `curl` fails,
but three things go unnoticed, and each has a history variable: `ls` that fails
half-way (`ListFails`, `cut`), because a pipeline has the status of its last
command; `sort` in a process substitution, or `comm` before the last command
(`CompareFails`, `missed`): too few names are read, or names sent before; and an
HTTP error (`SendRefused`, `refused`), which `curl` without `-f` takes for success.

**`ValidateWarc`** - the loop over the records (`Skipped`, `Expects`), the
count of documents with the filters of each schema (`NumFound`), the batches,
the list. `namesakes` are documents of a file whose name goes on where this
one's ends: the 2.0 query ends in a wildcard. `counted` is a history variable.
What *should* be in the index is stated independently of the code
(`Indexable`, from the tool's help and README): HTTP responses, and revisits if
asked for, whose status was asked for, of a WARC or an ARC. `Surplus` is what is
counted and should not be there. For a WARC the code's rule (`Expects`) agrees
with it; for an ARC, whose records have no type, it expects nothing, so the two
properties of the run `validate` are about WARCs and `validate_arc` shows the ARC.

## 3. What the runs show

Passing runs:

| Run | Instance | Shows |
|---|---|---|
| `workflow` | 4 files, 2 shards, cache of 3 | the types, with no file twice in one cache; `EmptyMeansNoneLeft`; `OwnShardFirst` (a database with NULL last); `CacheFresh`, `HeldIsRunning`, `LeasesExclusive`, `StartedHasShard`, `OnlyEligibleReturned`; implements `ArcLeases`; `NobodyInterferes` with a builder at work |
| `requests` | 2 files, 2 shards, `nextARC` interleaved with itself and with the other requests of the workflow (but those named at `Operate`); builders die, answers are lost, the container goes down | types of the interleaved state; `RunningIsHeld`: a row that says `RUNNING` is with its builder or on its way there, unless its answer was lost after the commit; `OnlyRacesShareLeases`: a lease is shared only after two requests worked on the caches at once - crashes, restarts and resets in the middle of a request are harmless |
| `requests_fair` | the same interleaving, fair, with builders that crash and files that are given back for ever | `EveryFileHandedOut` although requests race, fail with HTTP 500, say too early that nothing is left, or lose their answer |
| `builder` | 4 files, batch 2, 2 threads, 1 retry, all trouble, restarts | `InHandIsRunning`, `OneWorkerPerFile`, `TriesBounded`, `RunningIsAccountedFor`, `FinishedIsFinal`; implements `BuilderLeases` |
| `builder_stops` | 2 files, batch 1, 2 threads, 1 retry, all trouble but the end of the process | `BuilderStops` |
| `worker` | 3 files, the name of one part of another's, up to 3 lines | `EveryFileDecided`; `StatusAsReported`: for every file whose name is not part of another, `COMPLETED` is exactly what the script said |
| `register` | 3 files in 2 folders, 2 runs at a time, 2 troubles | `ScriptTypeOK` (only the run with the lock works), `TimestampVouches`, `RegisteredReached`; `EveryFileRegistered`: given up is only what failed unnoticed |
| `validate` | every file of up to 4 records, ARC or WARC, both schemas, batches of 2, every index, growing | for a WARC: `MissingListExact`; `VerdictCorrect`: the numbers agree exactly if as many documents are missing as there are too many |

Runs in which the code does not do what its documentation says:

| Run | Counterexample |
|---|---|
| `requests_race` | shards 1 and 2 both have the file cached; both take it as their head before either purges the other's list, and both builders index it. `ArchonStorage`: "Remove it from all caches! (fix of rare race condition bug ...)" |
| `builder_quiet` | 3 files, batch of 2: the third file is fetched, the next answer is the empty string, which is not `null` and so is taken for a missing file; the incomplete batch is dropped and its file stays `RUNNING` after a clean shutdown. The next start repeats this. |
| `worker_names` | `0 x.warc.gz` is the only line: `x.warc` is `COMPLETED` too, for its name is part of the line |
| `validate_arc` | an ARC with one page, and nothing in the index: the tool says "the correct number of documents (0)", and lists nothing. Its README shows an ARC with 5147 expected documents |

### Bounds, and why they are enough

* *Two shards.* The code treats all shards alike and interactions are between
  one shard and "the others"; two make the order of the purge loop matter.
* *Files.* A load is handed out from in the same request, so a cache of three is
  the smallest that leaves a list of two behind: then a removal from another
  shard's list can hit the head, the tail, or neither. Four files make `LIMIT`
  leave one out (`workflow`). In `requests` two files give overlapping caches,
  an emptied list and a reload; a third multiplies the states and adds no step.
* *One folder and one priority* in the runs. The theorems below cover
  `TypeOK`, `EmptyMeansNoneLeft` and the workflow for any number of both, and
  `TypeOK`, `EmptyMeansNoneLeft` and `OwnShardFirst` also for an administrator who
  changes rows without any discipline (`Spec` of `Archon`).
* *`NoShard` to `Shards`*: `nextShardID` is taken only while its answer is a
  shard of the instance.
* *Reports of `requests`* are `COMPLETED` only: Archon compares with `NEW` and
  `RUNNING` and with nothing else.
* *Builder*: batches of two with four files give a full batch and a second
  one, cut short or full, and two workers at a time. Sizes count ARC files and
  saturate at `MaxSize + 1`, since nothing tells larger ones apart. A merge
  drops at most one file's worth, which is enough to cross each limit.
  The limits 1, 2 and 3 make every comparison go either way.
* *Worker*: three files are one whose name is part of another's, that other one
  and a third; three lines give two that contradict each other, in either order,
  and one about another file. The proofs need no bound.
* *Register*: a file that is added while its folder is listed, one that is there
  before and one in the other folder; two runs compete for the lock; two troubles
  let a second one hit the run that repairs the first. `EveryFileRegistered` is
  about runs in which trouble comes to an end. Files are only added and every
  addition advances the modification time, so the set of files stands for the
  time: a file added within the clock tick of `touch -r` is not modelled.
  Folders come in any order where the shell takes them by name.
* *Validate*: with four records and batches of two the last batch is full, half
  full or absent. One namesake is enough to make up for a missing record.
* *View.* The runs of `MCArchonRequests` leave `reply` out of the states
  (`WithoutReply`): no guard reads it, and no property of these runs mentions it.
  Of `orphaned` the view keeps what is still `RUNNING` for that shard
  (`StillOrphaned`): the rest decides nothing, neither a guard nor a property, and
  if such a file is leased again, `Commit` decides anew whether it is orphaned.
* *Operator of `requests_fair`*: registers and resets; what a discard or a reset
  of a whole shard does to the race is in `requests`. A builder that restarts
  there has no request under way.
* ARC files are interchangeable in every safety run (symmetry); no symmetry is
  used where liveness is checked.

### Fairness, and why the code justifies it

* `requests_fair`: weak fairness of `Handle(s)`, for each shard. The container
  runs a request to its end, with an answer or an error, and `buildIndex` asks
  until nothing is left or the index is full, and is started again by its
  operator. Nothing says that answers are good or arrive, that builders report, or
  that they stop crashing. The cache takes all waiting files (`CacheLimit` >= files);
  beyond 1000 waiting files `LIMIT` can starve the lowest ranked. Archon is not
  paused for ever.
* `register`: weak fairness of "some run starts", which is cron, and of the
  commands of a run (`Work`). Nothing makes a harvester add files or a call
  succeed: trouble is bounded by `MaxTroubles`, not by fairness.
* `builder_stops`: weak fairness of the main thread, whose `poll` times out
  after four hours; of the workers, because the process of a worker is killed
  after `WORKER_TIMEOUT`; and of Solr's merges. Archon is not paused for ever: a
  builder that is told to wait asks again after ten minutes. Nothing is assumed
  of what goes wrong. The timeout of `poll` is needed: a future can be polled before its
  `taskFinished` has ended, the main thread still counts that worker as active,
  and polls for an answer that never comes. The property also needs
  `TargetLimit <= OptimizeLimit`: an optimized index that is over the optimize
  limit and not over the target is checked over and over, for ever.

### External assumptions

`JobController` is not in this repository: a job counts as active while it runs
or is in `afterExecute`, its future can be polled once it has returned, `popAll`
ends when every future is finished or at its timeout. Solr: a merge ends with at
most one segment; its schema declares one of `source_file` and `source_file_s`
(the tool refuses a schema with neither, and with both it would count by the one
field and look up by the other). The database: a committed row is seen by the next query, and
ties come in any order. The file system: `mv` is atomic, `flock` is released
when its process ends. Two threads inside one `HashMap` or `ArrayList` call are
not modelled: each call is atomic.

## 4. What is proved

Each proof module proves its theorems from the assumptions on the constants,
which TLC evaluates in the runs.

### Archon: `ArchonProofs` and `BuilderViewProofs`

For any finite sets of files and shards, any folders and priorities, and any
cache size (`ArcsAssumption`, `ShardsAssumption`, `PriorityAssumption`, `CacheAssumption` of `Archon`):

| Theorem | Statement |
|---|---|
| `ArchonTypeCorrect` | `Spec => []TypeOK`, by any sequence of requests |
| `EmptyAnswersAreTrue` | `Spec => EmptyMeansNoneLeft` |
| `OwnShardServedFirst` | `NullsLast` implies `Spec => OwnShardFirst` |
| `CachesStayFresh` | `WorkflowSpec => []CacheFresh` |
| `HeldFilesAreRunning` | `WorkflowSpec => []HeldIsRunning` |
| `LeasesStayExclusive` | `WorkflowSpec => []LeasesExclusive` |
| `StartedFilesHaveShard` | `WorkflowSpec => []StartedHasShard` |
| `ArchonImplementsLeases` | `WorkflowSpec => ImplementsLeases` |
| `OnlyEligibleFilesReturned` | `WorkflowSpec => OnlyEligibleReturned` |
| `NobodyEverInterferes` | `WorkflowSpec => NobodyInterferes` |

*Types.* The load query and the removals are the hard part:
`LoadedElements` (a load lists eligible files, each once), `RemoveAtElements`
and `WithoutFileElements` (what a removal keeps, and that it keeps the order)
give `HandOutCaches`. That no cache lists a file twice is part of the type: it
makes "drop the first equal entry" drop the file. `OwnShardServedFirst` rests
on the first row of a load (`FirstLoaded`): a row of the shard that asks would
come before a row without a shard. Its hypothesis `NullsLast` is the
database the code is written for (PostgreSQL); without it the property is false.

*Workflow.* `LeasesExclusive` is not inductive: whether the next hand-out is a
second lease depends on what the caches hold. The inductive invariant is
`WorkflowInv`: the types, `CacheFresh`, `HeldIsRunning` and `StartedHasShard`.
`CacheFresh` makes every hand-out a hand-out of a `NEW` file, so of one nobody
holds; it needs `HeldIsRunning` for the reports (a reported file is
`RUNNING`, so in no cache) and the uniqueness and equal paths in the caches for
the purge (the file handed out leaves *every* cache). `StartedHasShard`
makes `clearIndexing` and `resetShardID` free only rows of their shard, never
a cached row that has no shard. `LeasesExclusive` follows: a held file's row
has one shard. `FreshWhenEligibleKept` says that a step keeps the caches fresh
when it keeps the cached files eligible and their folders; each action shows that it does.

*Refinement.* One lemma per kind of step: `UpdateRowLease` for requests on one
row, `NextARCLease` for `nextARC` (`Grant`, `Refuse` or `Other`), and
`WorkflowLeaseStep` puts them together under `WorkflowInv`, which gives that
the granted file is free.

*One builder's view.* `OnlyEligibleReturned` is `CacheFresh` at the head of the
list, once `OnlyFetchesAnswerArc` has shown that only `nextARC` names a file. For
`NobodyInterferes` every step is either the builder's own - `FetchIsTake`,
`ReportIsFinish`, `RestartIsRestart` - or somebody else's, and then
`NotMyBusiness`: a file in this builder's hands is `RUNNING` for its shard, so it
is in no cache, of no other shard, and neither free nor finished, which is what
every other request that changes a state asks for.

### Interleaved requests: `RequestProofs`

For any number of shards, with one `nextARC` of each under way at any step
(the assumptions of `Archon`):

| Theorem | Statement |
|---|---|
| `RequestTypeCorrect` | `RequestsSpec => []RequestTypeOK` |
| `LeasesNotLost` | `RequestsSpec => []RunningIsHeld` |
| `LeasesExclusiveWithoutRaces` | `RequestsSpec => []OnlyRacesShareLeases` |

*Types.* The race spoils what the caches *mean* and never what they *are*: a
cache only loses entries, or is replaced by a list just read. `RequestTyped` is
all of `RequestTypeOK` and that a request at the purge has taken a row.
`RunningIsHeld` is inductive with it: a row becomes
`RUNNING` in `Commit` only, in the step that sends it off or, if nobody waits for
it, makes it `orphaned`. What is on its way is one
file (`InTransitIsFile`), and it gets into the builder's hands
(`DeliverTyped`) or into `orphaned` (`LoseAnswerRunning`).

*Races.* `LeasesExclusive` is false here (`requests_race`), so what is proved
is that nothing but a race breaks it. While there was no race, one request at a
time works on the caches, and `Quiet` is inductive: the invariant of
the workflow (`CacheFresh`, `HeldIsRunning`, `StartedHasShard`) carried through
the middle of a request. The list it has read and not yet put is as fresh as a
cache (`ReadListFresh`); the file it has taken is still eligible and in no list
that it has purged (`TakenFileFresh`), which needs every list that is not
empty to have a key (`CachesKeyed`). So the commit leases a file that nobody
holds and no cache offers (`CommitQuiet`). An answer on its way stays leased
(`TransitKept`): nobody else has the file, and the operator gives back neither
what a builder holds nor what is on its way to one. The requests beside it are steps
of the workflow and their effect is already known from `ArchonProofs`
(`WorkflowStep`); what is new is that none of them changes the eligibility of
the taken file (`BesideQuiet`, `EligibleKept`). TLC checked `QuietInv` on the
instance of `requests` before it was proved.

### Builder: `BuilderProofs`

For any finite set of files, any number of threads, batch size and tries, and
any limits (`BuilderAssumption`), through every failure and restart:

| Theorem | Statement |
|---|---|
| `BuilderTypeCorrect` | `RestartingSpec => []BuilderTypeOK` |
| `FilesInHandAreRunning` | `RestartingSpec => []InHandIsRunning` |
| `WorkersShareNoFile` | `RestartingSpec => []OneWorkerPerFile` |
| `TriesStayBounded` | `RestartingSpec => []TriesBounded` |
| `RunningFilesAccountedFor` | `RestartingSpec => []RunningIsAccountedFor` |
| `FinishedStaysFinished` | `RestartingSpec => FinishedIsFinal` |
| `BuilderImplementsLeases` | `RestartingSpec => ImplementsLeases` |

The inductive invariant `BuilderInv` has two halves. `ShapeOK` is about the
builder alone: the main thread, the batch, the workers (what a worker still has
to report and what it set aside are disjoint, and it sets aside only while it
has tries left), and where a batch or a worker can be. `SharedOK` is about the
builder and Archon: `InHandIsRunning` and `RunningIsAccountedFor`.
`OneWorkerPerFile` is not inductive without `InHandIsRunning`: a fetched file is
in nobody's hands because it was `NEW`. Each of the steps is put into one of
four effects on what is shared - nothing, a file leased, a file reported,
everything given back - and the second half, `FinishedIsFinal` and the
refinement are read off the effect, once each (`EffectKeepsShared`,
`EffectKeepsFinished`, `EffectIsAbstract`).

### Registration: `RegisterProofs`

For any finite sets of files and folders, any runs and any number of troubles
(`ScriptAssumption`):

| Theorem | Statement |
|---|---|
| `ScriptTypeCorrect` | `Spec => []ScriptTypeOK` |
| `TimestampsVouch` | `Spec => []TimestampVouches` |
| `RegisteredFilesReached` | `Spec => []RegisteredReached` |

`ScriptInv` adds what a run knows between two commands: the time it copied is
not older than the last timestamp, and its listing has what was there then
(`ScanOK`); what is listed and not with Archon is what it still has to send
(`SendOK`), or was refused, or `missed`, in which a file stays until a later
comparison of its own folder (`FoldersApart`); and no timestamp is ahead of the folder (`StampedThen`). That only the
run with the lock works, a part of the type, is what keeps one run's files from
changing under another: without it neither holds.

### Worker: `WorkerProofs`

For any batch, any number of lines and any relation between the names
(`WorkerAssumption`):

| Theorem | Statement |
|---|---|
| `WorkerTypeCorrect` | `Spec => []WorkerTypeOK` |
| `WorkersDecideOnEveryFile` | `Spec => []EveryFileDecided` |
| `StatusesAsReported` | `Spec => []StatusAsReported` |

`WorkerInv` adds what holds half-way: a file the loop has passed is decided,
and rightly if its name is not part of another (`DecidedOK`). For such a file
the matching lines are those that spell its own name, so the first of them is
the one `Reported` speaks of.

### Validation: `ValidateProofs`

For any file, any batch size and an index that grows at any step
(the assumption of `ValidateWarc`):

| Theorem | Statement |
|---|---|
| `ValidateTypeCorrect` | `Spec => []ValidateTypeOK` |
| `MissingListsExact` | `Spec => []MissingListExact` |
| `VerdictsCorrect` | `Spec => []VerdictCorrect` |

`ValidateInv`: what is wanted is what is expected of the records read so far,
each once (`WantedOK`); a record whose batch was looked up, and that was in the
index at the count, is found (`LookupOK`); the outcome of the comparison is that of
the numbers (`CountOK`). The first two give the list, once the code's `Expects` is
shown to be `Indexable` for a WARC. The verdict is a matter of cardinalities:
what is counted is what should be there and is, and the surplus, so the numbers
agree exactly if the missing and the surplus are as many. Both theorems are
about WARCs, as their properties are.

### Only model-checked

Liveness, which is out of the prover's reach: `EveryFileHandedOut`,
`BuilderStops`, `EveryFileRegistered`. Every other property of a passing run is
stated by a theorem above. The four properties of the violation runs are false
of the code there; `LeasesExclusive` is proved where requests are served
one at a time, and where they do not race.

## 5. Plan

Done, in this order: `Archon`, `ArcLeases`, `ArchonWorkflow` and their proofs,
since the leases are what everything rests on; the threads of `nextARC`; the
builder; the worker; the contract `BuilderLeases` and its two sides; the
registration script; the validation tool; the proofs of the builder and the
script; the proofs of the interleaved requests, the worker and the validation tool.

Next:

1. `nextARC` under one lock implements `ArcLeases`: as `OnlyRacesShareLeases`
   says already, requests that do not overlap share no lease; the refinement would
   show that the lock is the whole repair of the race, "nothing left" included.
2. A property on priorities that allows for entries already cached.

### Divergences read off the code, without a run

* `ArchonConnector.nextARC` promises a third order, by name; the query has none.
  Its other promise, only `NEW` files, ends where an administrator changes rows.
* `nextShardID` is "guaranteed to be unique" (`ArchonConnector`) and reserves
  nothing: two that ask before either has a file get the same one. Tests are
  its only callers.
* The client sends `arcId` and `shardId` with `setARCProperties` where the service
  expects `arcID` and `shardID`, and puts the values of `setShardState` on the path
  where the service asks for query parameters. Nothing in the repository but
  tests calls these.
* `nextARC` writes the priority it cached over one that was set since.
* `canStartJobs` "will be false during optimization": it is tested file by file,
  and the retry is submitted later, when the state may have changed.
* `register_add_arc_files.sh` says `set -e # exit on errors`, and does not exit
  when `ls` fails half-way, when `sort` or `comm` fails, or when Archon answers with
  an error. A folder without
  files ends every run before anything is sent (hence the premise of
  `EveryFileRegistered`).
* The validation tool compares numbers: documents of other records make up for
  missing ones, and the missing list is not asked for.

## 6. Not modelled, and why

* The reports of Archon (`getShardIDs`, `getARCFiles`, counts, latest files)
  change nothing.
* The web application shell: start-up, JSP pages, and the vendored scripts under
  `src/main/webapp/js` and `css` (`jquery-1.8.3.js`, Bootstrap). They are third-party
  code for the layout of the pages; no program of the system depends on them.
* `ArcFileNameParser` is one regular expression the builder does not use.
* `register_add_ALL_arc_files.sh` has no state; each of its calls is a
  `RegisterAgain` of `ArchonWorkflow`.
* Logging, profiling, command lines, parsing of records, printed statistics and
  wording are left out everywhere.

## 7. Running

    tlc -config MCArchonWorkflow.cfg MCArchonWorkflow.tla
    tlapm ArchonProofs.tla

Every `.cfg` belongs to the module named for its run in `PROJECT.json`. All
runs but `builder*`, `worker*` and `validate*` check for deadlock; a builder, a
worker and the validation tool may really stop.
