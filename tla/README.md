# TLA+ models of address-quality

address-quality is a Go HTTP service that takes an Indonesian address as people
type it and answers with the administrative location it names (province, city,
district, subdistrict, postal code), a confidence and a status.  This directory
holds TLA+ models of its parts, configurations that check them with TLC, and
proofs that TLAPS checks.  All paths below are relative to `src/`.

## 1. Inventory

### The parts, their state and their operations

| Part | Source | State | Operations |
|---|---|---|---|
| Store queue | `internal/queue/queue.go` | buffered channel, `closed`, WaitGroup, worker goroutines | `New`, `Submit`, `run`, `execute`, `Shutdown` |
| Server lifecycle | `cmd/server/main.go`, `service/service.go`, `database/database.go`, `handler/handler.go` | main goroutine, shutdown deadline, HTTP listener, table `address_requests` | start-up, signal, `e.Shutdown`, `svc.Shutdown`, `InsertAddressRequest` |
| Geocoding | `service/geocode.go`, `database/google_maps.go` | `googleMapsMu`, table `google_maps_cache`, mock mode | `ValidateAddressV0`: look up, call, upsert, answer |
| Location caches | `service/validate_helper.go`, `resolve.go`, `fuzzy_context.go` | six caches with a `sync.Once` each, phrase dictionaries, children index | `ensure...Loaded`, `loadPhraseDict`, `ensureChildrenIndexesLoaded` |
| Validation pipeline | `service/validate_v1.go`, `evidence.go`, `resolve.go`, `builder.go`, `dedup.go`, `enrich.go`, `evaluate.go` | local to a request | extract, resolve, discover, enrich, score, rank, answer |
| Contextual recovery | `service/fuzzy_context.go` | local to a request | coverage, frontier, neighborhood, span matching |
| Database seeder | `cmd/seeder/main.go`, `database/location.go`, `postgres_copy.go` | the location tables in SQLite, their copy in PostgreSQL, the two address tables | `--init`, `--drop`, `--truncate`, `--normalize`, update |
| Text cleaning | `internal/normalizer`, `service/evidence.go` | none | `Normalize`, `detectRoadContextTokens`, `stripRoadContext` |
| HTTP layer | `internal/router`, `middleware`, `handler` | the rate limiter's (external) | body limit, API key, rate limit, recover, handler |
| Logging, telemetry | `internal/logger`, `telemetry` | counters and spans of completed requests | the request middleware |
| Configuration, sanitizer | `internal/config`, `internal/sanitizer` | none | |

### How they interact

    request --> handler --> ValidateAddressV1 --> pipeline --reads--> location caches <--loads-- SQLite / PostgreSQL
                                   |                                                                 ^
                                   +--Submit--> store queue --workers--> address_requests            | copy
    request --> handler --> ValidateAddressV0 --> mutex --> google_maps_cache / Google Maps         seeder

* Every request runs in a goroutine of its own.  Requests share the location
  caches, the store queue and the geocode mutex; nothing else.
* The queue's handler is a callback of the service (`writeNormalizedRecord`).
* `main` stops HTTP first and the queue second, both under one deadline of 15 s.
* The seeder is another process.  The server sees its work only when a cache is
  loaded, once in the life of the process.

### What is hard, and what makes each part correct

| Part | What is hard | What makes it correct |
|---|---|---|
| Store queue | submit races with close; hand-over to a blocked worker; panics; a ctx that ends first; several callers of `Shutdown` | accepted jobs are executed once, in order, a job is refused for want of room only, and `Shutdown` says nil only when all are over |
| Server lifecycle | handlers, queue and INSERTs under one deadline; crash at any point; refusals written at different depths of the middleware | an orderly stop loses nothing it accepted; a signalled process ends; an answer is counted once, as what it was |
| Geocoding | look up, call and store are three steps; restarts in either mode; failures of each | one answer per body for ever, no second call for a stored body, the mutex is always released |
| Location caches | six independent onces, errors that stay, indexes built from caches | indexes agree with complete caches; a failed cache is never served |
| Pipeline | steps that mutate what later steps read; map order; unstable sort; weights | a complete address is found; a candidate does not contradict itself; arbitrary order is never reported as certain; recovery takes the nearest name and does not hurt |
| Seeder | several tables without one transaction, failures between statements, retries, two databases | a later run completes whatever broke off, no orphan rows, the copy equals the source |

`PROJECT.json` lists the hazards one by one with the line where each bites.

## 2. Modules

| Module | What it is |
|---|---|
| `DrainPromise` | abstract: what a queue that drains on shutdown promises |
| `WorkerQueue` | the store queue in detail; implements `DrainPromise` |
| `WorkerQueueProofs` | theorems about `WorkerQueue` and their proofs |
| `ServerLifecycle` | one server process; runs the actions of `WorkerQueue` as its queue |
| `ServerLifecycleProofs` | theorems about `ServerLifecycle`, on top of those about the queue |
| `AnswerBook` | abstract: every body has one answer, learnt once |
| `GeocodeCache` | geocoding in detail; implements `AnswerBook` |
| `GeocodeCacheProofs` | theorems about `GeocodeCache` |
| `LazyCaches` | the six caches and the two indexes |
| `LazyCachesProofs` | theorems about `LazyCaches` |
| `Seeder` | run after run of the seeder |
| `SeederProofs` | theorems about `Seeder` |
| `TextCleaning` | from a text to its words, its roads and what is left without them (functions) |
| `EditDistance` | the distance of two words, row by row, and what it is meant to be (functions) |
| `Gazetteer` | names, hierarchy, city priority, longest phrase match (functions) |
| `Scoring` | conflicts, score and quality of a candidate (functions) |
| `Pipeline` | one request through the stages of validation |
| `RecursionProofs` | what folds and recursive functions are, and the theorem about `EditDistance` |
| `PipelineProofs` | theorems about `Pipeline` and the functions it uses |
| `AnswerProofs` | theorems about contextual recovery and complete addresses, on top of these two |
| `MC...` | constants for TLC |

`WorkerQueue` and `ServerLifecycle` need no MC module: their cfg files give every
constant a value.

Operators whose comment starts with "Slip:" are not part of a specification.
Each is a definition of the model with a plausible mistake (a forgotten guard, an
early return that keeps the mutex, a swapped order of statements); with it in
place of the real one, some property fails.  They document which part of the code
each property depends on; `PROJECT.json` pairs them under "mutants".

### Store queue (`WorkerQueue`)

| Model | Code |
|---|---|
| `jobs`, `closed` | the channel buffer; `q.closed`, which is also "the channel is closed" |
| `worker`, `holding` | where each goroutine of `run` is, the job in `execute` |
| `SubmitClosed`, `SubmitFull`, `HandOver`, `Enqueue` | the four outcomes of `Submit`; one step each since the mutex is held over a `select` that is one channel operation |
| `Receive`, `Park`, `Exit` | `for job := range q.jobs`: take, block, leave on closed and empty |
| `Execute` | handler returns, or panics and `execute` recovers |
| `Shutdown`, `Notify`, `ReturnDrained`, `ReturnGaveUp` | close once, the goroutine on `wg.Wait`, the `select` in `Shutdown` |
| `Expire` | a caller's ctx ends |

The channel follows the Go runtime: a send gives the job to a blocked receiver
without touching the buffer, a close releases the blocked receivers, a closed
channel is emptied before `range` ends.  `accepted`, `taken` and `outcome` are
history variables that the properties need and no guard reads.  Two clamps (`AtLeastOne`) come from `New`.

### Server lifecycle (`ServerLifecycle`)

| Model | Code |
|---|---|
| `main`, `StartUp`, `Fatal` | `main` opens telemetry and three databases, of which PostgreSQL is not needed, and serves; what it needs and cannot open ends the process, and so does an error of `StartServer` |
| `Signal`, `CloseListener`, `HttpClosed`, `CloseStore`, `StoreClosed`, `Leave` | the end of `main`; both shutdowns share one ctx, so `DeadlinePasses` is the queue's `Expire("main")` |
| `Arrive`, `TooLarge`, `Unauthorized`, `RateLimited`, `Invalid`, `Fail` | the middleware chain and the handler as far as they decide an answer |
| `SubmitRecord` | `Submit` of the queue in the same step, with any of its four outcomes; a refusal is logged and the request goes on (`validate_v1.go:174-179`) |
| `Respond`, `WriteFails` | the answer is written; or its client has gone (`Impatient`) and the write of whichever answer it was fails, which the handler reports as its error |
| `Observed`, `counts` | the status `EchoMiddleware` takes, and the counter of its class |
| `RunWorker`, `RunNotify`, `Commit` | the goroutines of the queue, and the INSERT of a record |
| `Crash` | the process is killed at any point, by a signal too while nobody waits for one yet |

A handler of the queue that ends without `Commit` is an INSERT that failed, ran into its
five seconds, or panicked.  The queue's part of the state is an instance of
`WorkerQueue`, and its actions run inside those of the server.

### Geocoding (`GeocodeCache`)

One action per step under `googleMapsMu`, one failing variant for each step.
A request has the canonical body (`BodyOf`) and what comes back is one of four
kinds of answer, of which "broken" is a 200 whose bytes are not JSON: it is stored
before anybody parses it.  `Restart` ends the process anywhere and chooses the mode
anew; the table survives.

### Location caches (`LazyCaches`)

A request ensures the caches in the order of the code (`Order`), each through its
`once`; the winner loads, the others wait; an error stays in `failed`.  `Resolve`
builds the phrase dictionary from the caches as it finds them, `Recover` the
children index.  A cache's contents are abstracted to the source they were loaded
for: that is what the properties tell apart.

### Seeder (`Seeder`)

A run (mode, content of the files, version, revision of the program, with
PostgreSQL or without) goes through its steps; each SQL statement outside a
transaction, and each transaction, is one step, and `Fail` may end the run before
any of them.  The files are two dumps, regions and postal codes, that `Joined`
puts together: the last line with a code is a region's, and a line without one
does not count.  `--init` creates the address tables after the location tables
(`Create`); `--drop` drops the copy first (`DropCopy`).  The copy to PostgreSQL is one
transaction in the code and one step here; PostgreSQL enforces the references
(`ReferencesHold`), SQLite does not.  The five rows of `location_levels` are not in the state: the
schema inserts them right after it creates the table, and no run deletes them.

### Pipeline (`TextCleaning`, `EditDistance`, `Gazetteer`, `Scoring`, `Pipeline`)

| Stage | Code |
|---|---|
| `Refuse`, `Fail`, `Clean` | `AddressRequest.Validate`, `sourceAndCaches`, `Normalize`, the road patterns |
| `Resolve` | `ExtractEvidence`, phrase matching, postal entities |
| `Prioritize` | `applyCityPriority`, turn by turn, each seeing the turns before |
| `CompactFallback` | names that differ in their spaces only |
| `Build` | `DiscoverCandidates`, deduplication, `EnrichCandidates` |
| `Recover` | `RecoverContextualEvidence` and the rebuild |
| `Rank` | `EvaluateCandidate` for each, sort, status |
| `PostalFallback` | `resolveLocationByPostalCode` |

A text is a sequence of items, each a word of letters or of digits with the mark
behind it: that is what the normalizer and the two road patterns tell apart.  A field
between two spaces loses its digits and its marks, so words that only a mark separates
grow together; an administrative word goes only when nothing but a space (or its
full stop) follows it.  A road is its prefix and the words that only spaces
separate, up to a number or one of three words.

A location is the set of the ids of its entities.  Since a candidate begins as
one entity, the set of candidates is in bijection with the entities found, and
deduplication is what a set does.  Scores are in hundredths: every weight in
`constant.go` is a whole number of them.  Two things need care.  `sort.Slice`
is stable in Go's implementation for at most 12 elements (insertion sort) and not
above: `InsertionMax`; up to it the order of discovery decides between equals, above
it any of them may win.  And a gap of exactly 0.1 compares either way, as two
floating-point scores round (`MayBeAmbiguous`).  Loops over Go maps (the postal groups)
run in every order.  A key and the words of a span are compared by
`damerauSimilarity` in millionths, of a distance that `Row` and `Rotate` compute as the code
does, with three buffers that change places; `Edits` is the distance by its
definition, the least number of edits: it asks which pairs of beginnings of the two words
one more edit reaches, until the pair of the whole words is among them, and shares nothing
with the rows.  What is left as a constant is the order of strings (`Precedes`) and
the bound on the length of an address (`MaxItems`).

The constants are assumed to be what the code makes of them: ids and kodes are those of
the rows of a table, and no two rows share a kode (`RowsAssumption`); letters written
together are no number (`WordAssumption`) and no word of a longer phrase (`TogetherAssumption`); the
sort keeps the order of some number of elements (`InsertionAssumption`); the order of strings is total
(`PrecedesAssumption`); an address has at most a thousand letters, the default of `MAX_ADDRESS_LENGTH`
(`config.go:55`), and a name no more, so that millionths tell the similarities of spans and
names apart (`LengthAssumption`).

## 3. Runs

| Run | Shows | Bounds |
|---|---|---|
| `queue` | order, exactly-once, no lost wake-up, orderly close, drained means handled, refused means full, refinement of `DrainPromise`, jobs and callers end | 3 jobs, room for 2, 2 workers, 2 callers |
| `server` | a clean stop refuses no record, a timely stop loses nothing, every answer is counted once in its class, a signalled process ends | 3 requests, one of them with a client that may go, room for 1, 2 workers; 1.7 million states |
| `server_written` | violation: `Shutdown` says nil for a record whose INSERT failed | 1 request |
| `geocode` | the section under the mutex is serial, no second call, refinement of `AnswerBook`, every request ends | 3 requests, 2 bodies |
| `caches` | indexes agree with caches, failed loads are final, nobody waits for ever | 3 requests, 2 sources, 6 caches |
| `caches_snapshot` | violation: caches of two sources side by side | 2 requests |
| `seeder` | no table left behind, no seeding over missing tables, no dangling rows, seeded means complete, success means synchronized | 2 contents, 2 revisions, 1 version, batches of 2, 2 ids; 6.3 million states |
| `seeder_truncate` | violation: PostgreSQL refuses the copy after `--truncate` | 2 versions |
| `seeder_update` | violation: changed rows are not updated | 2 contents |
| `pipeline` | a complete address is found, a lone city wins, no candidate contradicts itself (so no address is in CONFLICT), nothing arbitrary is VALID, the postal code decides by majority and never over names, recovery takes the nearest and does not hurt | 2045 addresses, 24 places |
| `pipeline_confidence` | violation: a negative confidence | 2 addresses |
| `pipeline_road` | violation: the name of a road locates | 1 address |

`PROJECT.json` names the properties of each run.

Why the bounds are enough.  *Queue*: three jobs fill a buffer of two and overflow it,
or sit in two hands and one slot at once; two workers can be parked, busy and gone in
every combination; the second caller finds the queue closed.  What the bounds do
not cover, the proofs do.  *Server*: room for one makes refusals happen with three
requests, and each of the three can end in every class of answer; the proofs cover the rest here too.  *Geocode*: two requests for one body race, the third shows that bodies do
not disturb each other.  *Caches*: two sources and a third request that comes late.
*Seeder*: the first content has a city and a district of one name (a priority row),
a subdistrict whose ancestors are missing, and rows for more than one batch; the second
renames and removes; one postal code stands on two lines and one line has none; the
revisions differ in what they normalize.  *Pipeline*: the
gazetteer has a city, a regency, a district and a subdistrict of one name, a
district and its subdistrict of one name (of one word, of one word twice, and of two words), a name
with and without a space, two
districts of one name, postal codes shared between districts, a district
without subdistricts and a subdistrict without uppers, so every branch of matching,
priority, enrichment, score and status is taken.  The addresses are all those of up
to three words of a vocabulary of ten, those of four words in which a misspelt word
stands beside the names that make it a misspelling (one letter too few, two
exchanged, the same with a wrong letter), six with the marks and titles that text
cleaning treats in a special way, and for every subdistrict in the hierarchy all its
complete addresses: both directions, with and without titles, with and without its
code, behind three beginnings.  236 requests of the run end with evidence that is read as a complete
address under the conditions of `CompleteAddressResolves`; of these 110 have to be answered with the place,
and 8 of the others are AMBIGUOUS with another place.  Three addresses contradict themselves
(`Contradictory`): a subdistrict with the code of another, one of two cities, two districts of different cities.  `InsertionMax` is 6 in that run so that both kinds of sort
occur with candidates this few.  Its gazetteer is as the source file is in two
respects (`PlacesAreReal`): names that differ from a city's in their spaces only lie outside the
cities of that name and outside each other (`SpacedNamesakesAreElsewhere`), and a city whose name a
district or subdistrict has too is in the hierarchy (`CitiesArePlaced`).  Both hold for every such city
of the 91 599 rows of `db/source/wilayah.sql`.

Deadlock is checked in every run.  Where the system really stops, a stuttering step
says so by name (`Terminated`, `Rest`, `Ended`, `Done`).

### Fairness

* Queue: weak fairness of each worker and of `Notify` and `Return`: the Go scheduler
  runs every runnable goroutine, and the only handler works under a deadline of five
  seconds (`service.go:158-164`).  Nobody has to submit, to close or to time out.
* `DrainPromise`: weak fairness of handling, which is what the workers provide.
* Server: only `main` and the timer of the deadline.  `StopsAfterSignal` must hold when
  handlers, workers and INSERTs are stuck, so nothing is assumed of them.
* Geocode: weak fairness of a request that has the mutex, as the HTTP client gives up after
  ten seconds; strong fairness of taking the mutex, as `sync.Mutex` hands it
  to the longest waiter once that one has waited a millisecond.
* Caches: weak fairness of every request's steps: a query ends, with rows or an error.
* Seeder and pipeline: none, they are checked for safety only.  Nobody has to run the seeder
  again after it failed, and the pipeline is a finite chain of steps.

## 4. What is proved

`WorkerQueueProofs` proves, for every set of jobs and callers, every size and every number of
workers, from one assumption, `ParametersAssumption`
(size and worker count are integers, `NoJob` is no job):

* `TypeCorrect`, `NoLostWakeUp`, `CloseInOrder`, `FirstInFirstOut`, `JobsRunOnce`,
  `ShutdownDrains`: the six invariants that the run `queue` checks.
* `RefusesAtCapacity`: a job is refused as "full" only when as many accepted jobs as the buffer
  takes are unfinished; from the invariant, because the jobs of the buffer are different
  and unfinished ones (for finitely many jobs).
* `QueueIsSound`: the inductive invariant behind them.
* `QueueKeepsPromise`: every behaviour of the queue satisfies the safety part of
  `DrainPromise` under the refinement mapping.

The argument.  The inductive invariant is

    QueueInv == TypeOK /\ NoWorkerSleepsOnWork /\ CloseIsOrderly
                       /\ ReceivedInOrder /\ ExactlyOnePlace

The parts are proved inductive one by one over the type invariant, with a lemma for each action
that disturbs one.  `DrainedMeansHandled` is not inductive: that a caller was told
"drained" says nothing of jobs.  It follows from the others: drained means
notified, notified means that all workers have left, a worker leaves only on a closed
and empty channel (`CloseIsOrderly`), an exited worker has an empty hand (`TypeOK`), so an
accepted job is neither in the buffer nor in a hand and must be over
(`ExactlyOnePlace`); this is `ExitedMeansHandled`.  The same lemma is the interesting step of
the refinement: `ReturnDrained` maps to the step of `DrainPromise` that may happen only with
nothing pending.  Where the refinement stutters (parking, receiving, expiring) the
mapped variables do not change.  Lemmas on sequences (the range and the injectivity of
`Append` and `Tail`) come first.

`GeocodeCacheProofs` proves, for every set of requests and bodies (`CacheAssumption`: each
request has a body, the two null values are no request and no payload):

* `TypeCorrect`, `Serialized`: types, and that look-up, call and upsert are one section.
* `NoSecondCall`: the action property that Google is never asked about a stored body.
* `CacheIsAnswerBook`: the refinement of `AnswerBook`, which has no fairness, in full.

The invariant is `TypeOK /\ SectionIsSerialized /\ NewIsEmptyHanded`.  The types need the
section, because the status of an answer is declared only for real payloads; a request in the
section is alone in it (`Alone`), so no other step can store between its look-up and its own
upsert; that is what makes the upsert the `Learn` of the book, also when it reports an error
after it was committed.  `NewIsEmptyHanded` is needed by the refinement alone: a refused request must
have been told nothing.

`LazyCachesProofs` proves, for every set of requests and sources (`SourceAssumption`):

* `CachesAreSound`: the inductive invariant.
* `TypeCorrect`, `IndexesAreComplete`, `NoAnswerAfterFailure`: the invariants of the run `caches`.

The last two are not inductive.  `Behind` adds that every cache a request has passed is filled, and
`OneLoader` that two requests never load one cache: with it the end of a load can only touch
a cache that nobody has passed, so what was copied into an index stays equal to it.

`ServerLifecycleProofs` proves, for every finite set of requests, every room and number of workers
(`ServerAssumption`):

* `TypeCorrect`, `NoRecordComesTooLate`, `NothingIsLostInTime`, `EachIsCountedOnce`: the four invariants
  of the run `server`; `LifecycleIsSound`: the inductive invariant

      LifecycleInv == ProcessTypes /\ QP!QueueInv /\ StopOrder /\ RequestOrder

`QP` is an instance of `WorkerQueueProofs`: a step of the server is, on the queue's part of the state,
a step of the queue or a stutter, so the queue's invariant holds by the lemmas proved there.
`StopOrder` says what `main` has already done at each place (the queue closes after HTTP did, and
`main` leaves with a drained queue or a deadline that passed); `RequestOrder` that no handler runs
after a clean close of HTTP and that a request has asked the queue before it is answered 200.  A timely stop then loses nothing because `main` leaves through a drained
queue, and drained means handled.  The counters are sums over the requests: a step moves one
request into one class, and the cardinalities change by one.

`SeederProofs` proves, for any files, versions, revisions and batch size, and any number of runs that
fail anywhere (`SeederAssumption`):

* `TypeCorrect`, `NoneIsLeft`, `NoneDangles`, `CopiesAgree`: four invariants of the run `seeder`, as
  parts of one inductive invariant (`SeederIsSound`).  It adds to them which step belongs to which
  mode (`Modal`), what a half created, half dropped or half truncated database has left
  (`HalfSchema`, `HalfTruncated`), that a table that is not there has no rows, and that the source
  of a run is there once it is inserted.
* `SchemaIsComplete`: a run that seeds over a schema of which tables are missing does not come to its end.
  The invariant, `Schema`, says which table is never there without another (a source without levels, a
  hierarchy without aliases), by the orders of creating and dropping, and which ones a run has met.
* `SeedingIsComplete`: a run of a seeding mode that came to its end has all its rows, all their uppers
  and all priorities, whatever the runs before it left behind.  Its invariant, `Progress`, states
  after how many batches which regions have their rows (`Got`), that `--init` and `--truncate`
  have no others (`Just`), and that hierarchy and priorities follow from the codes.

`RecursionProofs` has no component of its own.  TLA+ takes a recursive function by CHOOSE, so
that it satisfies its own equation is something to prove, and the library's induction theorems
take the predicate as a parameter, which the installed provers cannot instantiate.  Here
sets and functions stand for predicates and operators: induction is "a set of numbers that
has the first and every next one has all" (from `NatLessThanWellFounded` and `WFMin`), and a
definition that goes step by step has the function that its step describes.  Lemmas for folds,
for scans from the left and for recursion with several steps back follow once, and every proof
about a fold or a recursive function below cites them.  Then:

* `DistanceIsTheLeastNumberOfEdits`: for all words of letters, what `damerauLevenshtein` computes with
  its three rotating buffers is the least number of insertions, deletions, replacements and
  exchanges of neighbours, none of which touches an exchanged letter again.  One half is that the
  table the rows fill satisfies the recurrence of its cells (`IsTable`); the other that the cells whose
  value is at most n are those that n edits reach (`Layer`), by induction on n.

`PipelineProofs` proves, for every gazetteer and every text (`RowsAssumption`, `TextAssumption`,
`WordAssumption`, `TogetherAssumption`, `PrecedesAssumption`, `InsertionAssumption`):

* `NoContradiction`: no candidate contradicts itself, and CONFLICT is never given, whatever the address says.
  This is what the code does and not what the documents promise (section 5).  The lemma
  `EnrichIsConsistent` does the work: enrichment of one entity leaves the chain of its uppers and
  nothing else; `ConsistentHasNoConflict` then needs nothing of the evidence.
* `NoArbitraryValid`: a VALID answer does not hang on the order of a map or an unstable sort.  A winner
  that is not strictly better than another candidate has a gap of zero to it.
* `NamesComeFirst`: the postal code never overrides what the names say (`Settled` is inductive with it).
* `LargestDistrictWins`: the loop over the groups of a postal code ends with the group that beats every
  other, in whatever order the map is visited: what is in hand beats all that were seen, and beating is
  transitive because the order of names is total.
* `TypesAreRight`: types, and with them that no two exact pieces of evidence have one value.  It goes
  through all that makes evidence: the fields of the normalizer, the scans for phrases, the turns of
  the city priority, the spans of recovery.
* `SoleCityIsFound`: the text that names a city and nothing else, without the title of a lower level, is answered with that city, in its
  preferred form, in every gazetteer with `SpacedNamesakesAreElsewhere` and `CitiesArePlaced`.  `CityInv`
  follows the evidence through the stages.  When no phrase is another name, the city priority meets no other
  evidence in any of its turns and leaves the cities of the name (`SuppressionLeavesCities`).  Compact
  matching cannot bring back what it took away, because a word is never spelt like a longer span around it
  (`TogetherAssumption`).  Recovery adds nothing, because its frontier needs two pieces of evidence
  (`RecoveryNeedsTwo`).  Each candidate is then supported by that one piece, so a city has 37
  hundredths before the penalty that all share, and any other level 35 at most (`SoleScore`); the order of
  discovery puts the preferred form first (`SoleCityIsFirst`).
* `ConfidenceIsBounded`: a confidence is at most 100 hundredths and at least minus 3 for each piece of
  exact evidence.  This is the half of `STORY.md:113` that holds; `pipeline_confidence` shows the other.
* `PipelineInvHolds`: the inductive invariant of the first two.

`AnswerProofs` proves, with `LengthAssumption` besides for the first two:

* `RecoveryHelps`: contextual recovery never lowers the best score.  New evidence at the end of
  the list only adds to what a candidate matches, and the words that recovery uses up stop counting as
  unused (`ScoreGrows`); each candidate of before is still one, because what was discovered still is.
* `RecoveryIsNearest`: what recovery takes for a misspelt name is a name within a fifth of its letters,
  and none of the neighborhood is nearer, by the least number of edits.  The code compares
  similarities; with words of at most a thousand letters the greater similarity in millionths is the
  smaller share of edits (`MoreSimilarIsNearer`), and the distance is the least number of edits by
  `DistanceIsTheLeastNumberOfEdits`.

* `CompleteAddressIsFound`: an address that is read as the names of a subdistrict and its uppers, in
  whatever order and with what titles and other words there are around them, is answered with that
  subdistrict or is AMBIGUOUS; never with another place as VALID, INCOMPLETE or UNKNOWN.  (The subdistrict
  has a postal code, recovery takes no other word for a name, and no upper of one word meets an entity of its level that has
  a longer one of these names.)  Where no other place
  has all the words, and the name of the subdistrict is not a single word while another subdistrict has a longer one
  of these names, it is never AMBIGUOUS with another place either.  The conditions of
  `CompleteAddressResolves` are about what cleaning and phrase matching have made of the text (`ReadAs`), and about
  namesakes (`Unrivalled`, `Alone`); the statement does not choose how an address is written.

The argument for the last one.  The inductive invariant, `PlaceInv`, says at each stage that nothing has changed the
evidence since it was extracted (`Extracted`):

    PlaceInv == /\ stage = "prioritize" => Extracted(resolved)
                /\ stage \in {"compact", "build", "recover"} /\ Meant # {} => Extracted(resolved)
                /\ stage = "rank" /\ Meant # {} /\ Verbatim => Extracted(resolved) /\ explained = {}
                /\ stage \in {"postal", "done"} /\ Verbatim => PlacesAreFound

The property alone says nothing before the last stage and is not inductive.  Each stage has its lemma.  What the
extraction finds means, word by word, the names of the place (`EvidenceOfAPlace`).  A turn of the city priority takes
nothing away, because each word has beside it another one that means a place of the same chain of uppers
(`NothingIsSuppressed`).  Compact matching finds nothing that is not found already (`NothingIsSpaced`), and recovery
that adds no evidence changes nothing (`NothingIsRecovered`).  Then the place that is meant is a candidate, and it is
compared with any other (`OthersScoreLess`).  All levels of the place are supported by all the evidence; another
location can match at most the same weights (`ScoreOfThePlace`, `ScoreOfAny`, over the levels one by one), gets no
bonus that the place does not get except the one of a subdistrict with a longer name (`BonusesOfOthers`), which is five
hundredths, and leaves no fewer pieces of evidence unused (`ThePlaceUsesMost`; strictly more where no other place has all the words).
So a location without a subdistrict scores no more and loses by its size, and one with all four levels is at most five hundredths
ahead.  That is less than the ten which VALID needs, so what wins instead of the place is AMBIGUOUS (`TheWinnerIsThePlace`).

Only model-checked, because reasoning about `ENABLED` is out of the prover's reach: the liveness properties
(`AcceptedIsHandled`, `ShutdownReturns`, `StopsAfterSignal`, and `EveryRequestEnds` of geocoding and of the caches) and the
fairness of the refinement `KeepsPromise`, of which the safety part is proved.  Every invariant and every action property of the passing runs
is a theorem.

## 5. Where code and documentation differ

`PROJECT.json` has the quotations.  The first six are a run of their own each; the seventh is what a property
that holds, and its theorem, show.

1. `service.go:170-171` says that Shutdown waits for queued records "to be written".  A
   record whose INSERT fails counts as done (`server_written`).
2. `ABOUT.md:227` says that all requests share one snapshot.  Each cache has its own
   once, and two first requests with different sources can each fill some (`caches_snapshot`).
3. `--truncate` does not empty `location_city_priority`; the priorities of a source that is gone
   make PostgreSQL refuse every later copy (`seeder_truncate`).
4. An update run does not update: rows that exist are kept (`seeder_update`).
5. `STORY.md:113` says that the confidence is clamped to the unit interval; the penalty for unused
   evidence comes after the cap (`pipeline_confidence`).
6. `resolve.go:108-109` says that road names are not location evidence; they are discovered and
   scored like any other (`pipeline_road`).
7. `STORY.md:108` and `:150` say that an address with an internal inconsistency, of its hierarchy or its postal
   code, is detected and answered CONFLICT; `ABOUT.md:326` and `:523` say the same of candidates.  CONFLICT is
   never given: `detectConflicts` looks inside a candidate, which is one entity and its uppers, with its
   subdistrict's own postal code (`NoCandidateContradictsItself` in the run `pipeline`, and the theorem
   `NoContradiction` for every gazetteer and text).  In the run "pamoyanan cicendo bandung 40171", where Pamoyanan
   has the code 40172, is answered with Pamoyanan and 40172, and "pasirkaliki cicendo bandung cimahi jabar" with
   Pasirkaliki in Bandung, both as AMBIGUOUS.

A plan asks for something that the code does not have: `plan/benchmark_prio_city_over_other_level_plan.md:363-365`
wants the city priority to leave a name alone that follows "kecamatan", "kelurahan" or "desa", and `:488` lists
"kecamatan bandung", which keeps its subdistricts, among the acceptance criteria (not ticked).  `Normalize` drops these titles
("desa" it leaves, as a word that means nothing) before the priority is decided, so "Kec. Bandung" is answered with the
city.  `SoleCityWins` says nothing of addresses with such a title (`BelowCity`).

Observations that contradict no document:

* The bonuses for three and four common postal digits never apply, because postal
  evidence matches equal codes only.
* Status and confidence are settled before the postal fallback: a full location that rests on the code
  alone comes with UNKNOWN and 0 (`CodeNeverOverridesNames`).
* Road prefixes stay in the words that contextual recovery looks at.
* A road that bears the name of a district and its subdistrict in the city of the address ties with a
  complete address and makes it AMBIGUOUS; `CompleteAddressResolves` is about addresses in which no name is a road's.
* A complete address can be answered with another place where names are shared.  A subdistrict that has the
  longer name of its own district (Lawe Sumur in the district Lawe Sumur) gets the bonus for two words there and
  beats its neighbors: "Berandang, Lawe Sumur, Aceh Tenggara, Aceh" (`wilayah.sql:673`, `:676`) is answered with the village
  Lawe Sumur.  By `CompleteAddressIsFound` such an answer is AMBIGUOUS.
* Names that stand side by side can be read as another name: "Sifaoroasi, Huruna, Nias Selatan, Sumatera Utara" holds the
  name of the village Sifaoroasi Huruna, and is answered with it as VALID.  This is not an address that is read as it is
  meant, and no theorem speaks of it.
* How much of the source file that is, by a count outside these runs: of the 167 524 addresses that the 83 762
  subdistricts of `wilayah.sql` have, from the bottom to the top and back, by their names alone, about 99.8 in a hundred are
  read as meant; 132 082 of them meet all the conditions and are answered with the place; of those that only do not meet the last two (`Alone`,
  `Unrivalled` for subdistricts) 32 550 are answered with the place and 866 with another, AMBIGUOUS.
* The administrative word in "kota, bandung" stays, as the comma is part of the field when the word is
  compared.  The sanitizer writes "&" as an entity, of which the normalizer keeps the word "amp".
* A name can be made up of names of cities alone, as the subdistrict Padang Bandung is (18 names of the source
  file are).  A road of the first and a place of the second name are then read as that name: "Jl. Padang, Bandung" is
  answered with the subdistrict, as VALID.  `SoleCityWins` is about addresses in which no phrase is another name.
* With more than twelve candidates the preference for a KOTA is no longer kept by the sort.
* `AddressRecord.NormalizedAddr` holds the formatted address, not the normalized one.
* `--normalize` does not rebuild the city priorities, which are keyed by the normalized
  names; the next seeding does (`SeededMeansComplete`).  After a seeding that failed it copies the
  incomplete database to PostgreSQL.
* An `--init` that fails between the location tables and the address tables is refused when it is
  repeated, and no other mode creates the address tables.
* A new version seeded under a running server is named in its answers, while the names in them are
  those of the version that was loaded.
* A payload made up in mock mode stays in the cache and is served after a restart without
  mock mode; a 200 that is not JSON is stored, and answered 500 from then on.
* The span of a request has the status that is going to be written, its log line the one written
  so far: an error of echo (413, 404) is logged as a 200.
* A write to a client that has gone is counted as an error of the server.
* A signal that comes before `signal.NotifyContext` ends the process without a shutdown.
* `TestSubmitWhenFull` (`queue_test.go:81-93`) expects the second `Submit` to be refused; whether it is
  depends on whether the worker has taken the first job (`RefusedOnlyAtCapacity` says what holds).

## 6. Not modelled

* How the limiter counts (an external library), CORS, `/health`, `/metrics` and swagger: they keep no
  state that another part reads.
* The sanitizer: a call to a library; the models begin with what it returns.
* Reasons, matched and missing components and the layout of responses: nothing reads them back.
* Spans of the stages, exporters, log lines.
* Configuration: values read once.  Deployment, benchmark scripts, generated docs: not the program.

## 7. Plan

Written in this order: `WorkerQueue` with `DrainPromise` and its proofs, because losing
records silently is the worst a service of this kind does; `ServerLifecycle`, which
composes it; `GeocodeCache` with `AnswerBook` and `LazyCaches`, with their proofs; `Seeder`; `Gazetteer`,
`Scoring`, `Pipeline`; then `TextCleaning` and `EditDistance`, so that the pipeline begins with texts and
no function of it is a constant; the proofs about server, seeder, pipeline and recovery, and last the
one that a complete address is found.

What could follow:

1. `LazyCaches` under a seeder that runs beside the server: which versions an answer can mix.
