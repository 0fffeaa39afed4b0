# Cognate (Polyglot Cache): TLA+ models and proofs

TLA+ modules for the cross-lingual semantic cache in this repository: the cache
engine and its two tiers, the in-memory and database indexes, the tenancy
quotas, the HTTP front door, the structural guard with the language guess, the
threshold calibration, the embedding call and the life cycle of the process. TLC
checks every module on small instances; TLAPS proves all of their safety
properties but one, that one for the texts that say one thing, and four
refinements, for every value of the constants, and what their liveness rests on.

## The system

| component | state | operations | talks to |
|---|---|---|---|
| L1 exact cache (`internal/cache/exact`) | list + map under one mutex | Get, Put, Remove, Len | called by the engine |
| Cache engine (`internal/cache/engine`) | L1, L2, quota, cipher, TTL, thresholds | Serve | front door above; sidecar, L2, upstream below |
| L2 index (`internal/cache/semantic`) | entries in memory under a read-write lock, or rows in Postgres | Add, Search, Len | engine; database |
| Quotas (`internal/tenant`) | two maps of rate limiters | AllowRequest, AllowStore | front door, engine |
| Front door (`internal/proxy`) | none of its own; buffers one body per request | chat handler, reverse proxy | engine, upstream |
| Guard and language guess (`internal/guard`, `internal/lang`) | none | Extract, Compare, Detect | engine, front door |
| Encryption (`internal/crypto`) | one data key per process | DataKey, Seal, Open | process, engine |
| Embedding (`internal/embed`, `sidecar/app.py`) | one lazily loaded model | Embed; /embed | engine |
| Calibration (`eval/calibration`) | none; writes the threshold table | analyze, chooseThreshold | engine reads the table |
| Process (`cmd/proxy`, `internal/config`) | all of the above in memory, rows on disk | start, stop | operator, database |
| Provider | a base URL and a key | stamps the upstream request | front door |
| Telemetry, benchmark, gut check | none that steers the cache | | not modelled |

A request is buffered, charged to its tenant, turned into a query and given to
`Engine.Serve`: L1 by hash; else embed, search L2, judge the candidate by
expiry, threshold, guard and decryption; else call the upstream, put a 200 into
L1 and, within the store quota, sealed, into L2.

### What is hard here, and what makes each part right

* **Interleavings.** Serve runs on one goroutine per request and holds no lock
  between its steps. Every cached answer must still belong to the right key,
  scope and model (`Provenance`, `ScopeIsolation`), be a clean success
  (`OnlySuccessServed`), and have been made for something truly equivalent
  (`NoDrift`; similarity is not transitive). A search reads one entry after
  another while others wait to append, and must look like one moment
  (`ActsAtOnce`). Loads of the model race (`CopiesBounded`).
* **Time.** The clock is read before the lock whose step uses the reading.
  Entries are judged, promoted and stamped at different moments
  (`AgeIsBounded`, `OldestOfTheNearest`); a slow request may put an older record
  over a fresher one (`RepeatsHitL1`); limiter readings arrive out of order and
  move the limiter back (`BudgetHolds`, `QuotaHolds`, `WorkIsPaidFor`).
* **Failure.** Sidecar, database, cipher and upstream fail independently, in the
  middle of a request (`EveryRequestEnds`, `RepeatsHitL1`, `SealedAtRest`).
* **Restarts.** A durable L2 outlives the process, its key and its isolation
  mode (`NothingSealedServed`, `RowsAreSealed`, `IsolationOutlivesRestarts`); a
  stop must end under running requests (`EveryStopEnds`).
* **Boundaries.** L1's capacity, the body cap, the bursts, the units of Chinese
  numerals, separators and date order, the order of the guard's stages, the ends
  and the rounding of the cutoff scan, vectors without a direction.

`PROJECT.json` lists the hazards line by line with the properties aimed at them.

## Modules

| module | models | variables and actions |
|---|---|---|
| `CachePromise` | what a cache promises: one answer per request, its own or one made earlier for an allowed query | abstract specification of `Engine` and `FrontDoor` |
| `Recency` | what an LRU promises: a map and a recency order | abstract specification of `LRU` |
| `NearestIndex` | what an L2 index promises: each call happens at one moment | abstract specification of `SemanticIndex` |
| `LRU` | `exact.LRU` | `ll`, `items`; one action per method path |
| `TokenBucket` | `rate.Limiter` of x/time/rate (outside the repository) | pure operators |
| `Quotas` | `tenant.Quotas` | a call is Allow (registry lock), ReadClock, then Grant or Refuse (limiter lock) |
| `Engine` | `Engine.Serve`, composed of `LRU`, `TokenBucket`, L2 and cipher | `pc[r]` names the next step of request r; Serve (L1's lock), Check; Embed; Search (L2's); Decide, Stamp, Promote (L1's lock); UpstreamFails/Refuses/Answers, Keep (L1's lock); Charge (the clock), Spend (the limiter's lock); Add; Tick; Restart |
| `SemanticIndex` | `MemoryIndex` under its `sync.RWMutex`, and the database's query over the same entries | RLock, Lock, Scan (one entry), ScanEnds, AppendEntry, Unlock |
| `FrontDoor` | the chat handler and its fallback, with `TokenBucket` | Receive, Admit (the clock), Spend (the limiter's lock), Parse, Serve, CallFails/CallUpstream, Forward/ForwardFails; Tick |
| `Lifecycle` | `main` from environment to exit, over restarts, with the rows on disk | Start, OpenDatabase, TakeKey/RefuseKey, Listen/ListenFails, Wait, Stop, Tick, CloseOrExit, PoolCloses, Kill; a request's Accept, Hit, Miss, UpstreamReturns, Add, AddFails; Outage, Recovery |
| `ZHNumber` | `parseZHNumber` | operators (a function along the numeral), and how a number is written |
| `Locale` | `normalizeNumber`, `consumeDates`, `isoDate` | operators |
| `Extraction` | `Detect` rune by rune, then `Extract` stage by stage and `Compare` | Mark, Pass, EndOfScan, Extract |
| `Calibration` | `analyze` with two passes of `chooseThreshold` per pair, the table and its lookup | Consider per candidate, Choose, Ship, WriteThresholds, Panic; the lookup `For` |
| `Sidecar` | `embed.Client` and `/embed` | Embed, Unreachable, TimeOut, GetModel, LoadModel, Raise, Encode, Restart |
| `MC*` | instances for TLC | constants; `MCSequential` also holds the corpus of texts |
| `LRUProofs`, `EngineProofs`, `QuotasProofs`, `FrontDoorProofs`, `LifecycleProofs`, `SemanticIndexProofs`, `SequentialProofs` | theorems and their proofs | |
| `Collections` | lemmas on lists and on sums over finite sets | |

An action is what a goroutine does between two points where another can run: a
lock, a reading of the clock that a later step uses, or a call that leaves the
process. Operators defined just before another
one and commented as a mutant are plausible mistakes in it; each property fails
when one of its mutants takes the definition's place.

How they compose: `Engine` instantiates `LRU` (its L1) and `TokenBucket` (its
store quota); `FrontDoor` instantiates `TokenBucket` (its request limit).
`Engine` searches L2 in one step, which is `NearestIndex`'s search, and
`SemanticIndex` implements `NearestIndex`. `FrontDoor` reduces the engine to a
lookup (a record of the same text, an entry of a similar one with its promotion,
or nothing), an upstream call and a store in one tier or both; both implement
`CachePromise`, one over whole queries, the other over scope and text.
`MCSequential` and `MCProcesses` check two modules each that share no state;
one of the two moves while the other stands at one of its initial states, so a
run is as large as the sum of the two and not their product.

### Abstractions

* A body is the request whose upstream call made it, and the key that sealed it
  (`of`, `by`); so a property can say where an answer came from.
* SHA-256 is injective on scope, model and text; AES-GCM opens only under the
  sealing key. Separators of `Query.key` and `exactText` are taken to work, and
  a tenant's hash to be its own and never the word of the shared pool.
* Every reading of the clock is a step of its own, apart from the locked step
  that uses it: a record's expiry (`Check`), a candidate's (`Decide`), the stamp
  of a promotion (`Stamp`) and of an answer (`UpstreamAnswers`), and the
  limiters' (`Charge`, `Admit`, `ReadClock`). What a goroutine does with values
  of its own between two such steps (threshold, guard, decryption) is part of
  one of them. The history variables `read` and `rewound` keep what properties
  compare.
* The pgvector index is HNSW, hence approximate, and filters what it found: a
  search may return any row that passes the filters, or none (`QueryRows`), or
  fail. An Add that reports an error may have committed. So nothing says that
  the database returns the nearest row; `ScanNeverWorse` says that the scan of
  the same entries is never worse and never finds a row the query excludes.
* In `SemanticIndex` a vector is a length and a direction (None: all zeros), and
  the cosine an arbitrary function of directions.
* No embedder, a failing sidecar and an answer of another shape are the one
  failure of Embed in `Engine`; `Sidecar` tells them apart.
* `Extraction` reads a text as a sequence of pieces: a word with its letters'
  number, its case and the marks it holds, a run of digits with its value and
  length, a Han rune by its part in the patterns, a sign, a space. What RE2
  matches is leftmost and longest over pieces; inflected forms of a currency
  word are one piece. `WellFormed` leaves out texts where a pattern would end
  inside a piece: a seventh letter after an apostrophe in the middle of a word,
  and a year of five digits.
* Fractions have at most three digits, and values are counted in thousandths.
  The code holds a number as float64. Fifteen decimal digits survive that, so a
  value in thousandths is exact while its whole stays below `Exact`, 10^12; what
  a larger amount or numeral becomes is left open (`RoundedAmount`,
  `RoundedNumeral`), and no property says that long numbers stay distinct. In
  the run `Exact` is below 2^31, the width of TLC's integers, and every number
  below it.
* In `Lifecycle` an environment is the five variables `main` branches on, a key
  is usable, unusable or unset, and a request is its L2 search, upstream call and
  store. With the cache disabled a request goes to the upstream only.

## Runs

| run | shows | bounds, and why they are enough |
|---|---|---|
| `lru` | list and map agree, capacity, refinement of `Recency` | one key more than the capacity, so evicted keys return |
| `engine` | type, `OnlySuccessServed`, `NoDrift`, `AgeIsBounded`, `OldestOfTheNearest` | three requests: a maker, a promoter and a reader; an L1 of one entry; TTL 1 and clock 3 cover store, promotion at the last moment, a promoter that lingers between its two clock readings, and expiry; texts en ~ tr ~ zh and one that differs in an amount |
| `engine_faults` | `Provenance`, `ScopeIsolation`, `NothingSealedServed`, `SealedAtRest`, `QuotaHolds`, `KeepsThePromise`, `RepeatsHitL1`, `EveryRequestEnds` | two requests (one stores, one reads) in two scopes and for two models; two keys, one crash, Postgres; a store quota of one byte per tick, a burst of two and a text of two bytes, so that stores are refused and readings come late; L1 unbounded, as `RepeatsHitL1` supposes room |
| `quotas` | type, `OneLimiterEach`, `BudgetHolds` | concurrent calls past the burst, clock readings held back |
| `front_door` | type, `WorkIsPaidFor`, `CachedFromWholeRequests`, `OptOutIsRespected`, `KeepsThePromise` | three requests; a cap of 2 bytes with bodies below, at, one past and further beyond it; broken-off, streaming and non-POST requests; two tenants, with and without opt-out; a text that is like two which are not like each other; a clock of one tick, enough for a late reading |
| `processes` | type, `RowsAreSealed`, `IsolationOutlivesRestarts`, `EveryStopEnds` of `Lifecycle`; `CopiesBounded` of `Sidecar` | three starts under any of ten environments (keys, databases, isolation words, also misspelt ones, a bad URL), two requests of two tenants, one outage, a grace of one tick; three calls of the sidecar on two workers, one restart |
| `index` | type, `ScanNeverWorse`, `ActsAtOnce`, `EveryCallReturns` | three concurrent calls, each any of 14 jobs: two scopes and two models, equal, near, opposite and zero vectors, one of another length |
| `sequential` | `RightLabelReadsRight`, `LabelRarelyMatters` of `Extraction`; `BestCutoff`, `GuardOnlyHelps`, `LookupsServeAsChosen` of `Calibration` | ten shapes of amounts, dates of every kind, IDs, identifiers, ordinals and currencies in four languages, alone under four lead words and pairwise; suffixes glued to other words; numerals for every number to 1300, steps of 37 to 37000 and around every unit up to 2 * 10^9. Two pairs of three languages: the first with two positives and two negatives under every score and verdict, the second with one of each and also with a cutoff of zero; a target of 60 % makes 2/3 pass and 1/2 fail; a rounding grain above the unit of scores |

The clock, restarts, outages and requests are bounded (`MaxClock`, `MaxBoots`,
`MaxOutages`, `Req`, `Call`); `Tick`, `Restart`, `Start` and `Outage` carry the
bounds in their guards. `Finished`, `Done`, `Stopped` and `Over` stutter where
the system really has nothing left to do, so deadlock is checked everywhere.

### Where code and documents part

Each of these runs states what a comment says and is expected to be violated;
`findings` in `PROJECT.json` quotes both sides.

| run | the code | the text |
|---|---|---|
| `engine_key_off` | without a key, sealed bytes are served as they are | a key that cannot decrypt fails closed rather than serve garbage (`engine.go:234`) |
| `engine_lifetime` | a promotion stamps its L1 record with the present time, so L1 serves an answer for another lifetime | `CACHE_TTL` is the "Entry lifetime" (`README.md:158`); entries expire, "bounding how long a poisoned entry can live" (`docs/THREAT_MODEL.md:34`) |
| `front_door_unpaid` | a body over the cap or broken off, and a request that is not a POST, goes upstream uncharged | the limit comes "before any cache or upstream work is spent on the request" (`chat.go:75`); a rate limit "at the front door" (`docs/THREAT_MODEL.md:85`) |
| `front_door_reply` | oversized replies are cut off and cached | the full response is buffered so it can be cached (`chat.go:167`) |

Modelling met these too. The modules contain the behaviour; no run states the
text's side of it.

* `chat.go:23` has oversized requests fall through untouched; the handler
  forwards the `maxChatBody + 1` bytes it has read and drops the rest
  (`chat.go:71`).
* `AgeIsBounded` is the bound on an answer's age that does hold: one lifetime,
  or, from L1 by way of a promotion, two and what the promoter took between its
  two looks at the clock. Nothing bounds that last part.
* `docs/ARCHITECTURE.md:27` has the durable cache survive a restart; a database
  that is down at start-up leaves the process on an index in memory for its
  whole life, with a line in the log, as `main.go:54-57` says.
* The nearest L2 entry alone is judged, and of equally near ones the oldest: one
  that is expired or vetoed by the guard hides a servable one, and nothing
  deletes it. `OldestOfTheNearest` states the consequence.
* A cross-language hit serves the stored answer as it is; `ARCHITECTURE.md` and
  `entry.go` speak of a lazy translation of the response.
* Detect returns at the first mark, so Han characters do not always win as
  `detect.go:22` says, and Spanish without its marks is English to the guard's
  locale rules.
* The guard reads some writings otherwise than their writer would: an ISO time
  (`2024-01-15T10`) leaves `15T10` as an ID; `3.5` before wan is 3 and 50000;
  an amount with its currency glued on (`100TL`, `100USD`) is an ID; a full-width
  comma joins two numbers into one; a numeral with wan before yi is read as a
  sum. A suffix takes up to six letters of any script after its apostrophe, so
  what is glued to it goes with it: `100'in和GC-5501` has no ID left but a number
  5501, and `100'in和GC-1.234` the number 1.234 or 1234, by the label. An ordinal
  keeps its leading zeros (`05th` is not `5th`). Such texts are in the corpus
  only with another writer's label, for `LabelRarelyMatters`.
* `chooseThreshold` takes the most precise and then the highest of the cutoffs of
  equal recall, not the lowest that meets the target. Rounding to four decimals
  comes after the choice and can move a cutoff past a score within half a grain
  of it (the committed en-es scores 0.912468 and 0.912509 lie within one grain);
  `LookupsServeAsChosen` is about the other scores.
* First calls of the sidecar can each load a model (`CopiesBounded` is the bound).

## Fairness

* `Engine`: weak fairness of each request's steps. Serve blocks in three kinds of
  calls. The embedding client has a timeout of 30 s and the upstream client one
  of 120 s, so both come back. Database calls carry only the request's context;
  that they return is an assumption about the database. `Tick`, `Restart` and the
  arrival of requests are not fair.
* `SemanticIndex`: weak fairness of each caller's steps. A step that needs the
  lock is enabled only while the lock admits it; `sync.RWMutex` keeps new readers
  out while a writer waits, so an enabled step does get its turn.
* `Lifecycle`: main goes on, time passes during a drain, and a call to L2
  returns. Nothing is assumed of the upstream, of arrivals, signals, crashes or
  the database's recovery: `EveryStopEnds` holds with an upstream that never
  answers.

The other modules state no liveness property and assume no fairness.

## Proofs

Every module `XProofs` EXTENDS `X`; `LifecycleProofs` also `Sidecar`, and
`SequentialProofs` `Calibration` and `Extraction`, which is why the specifications
of `Sidecar` and `Extraction` have names of their own. Safety theorems have the
form `Spec => []P` and rest on an inductive invariant; refinements have the form
`Spec => Abstract!Spec` and rest on one lemma per action saying which abstract
step it is. Induction over numbers and finite sets is by the least
counterexample, since the library's induction theorems are out of reach.

* `LRUProofs`: `Inv` is `TypeOK`, `ListMatchesMap` and `WithinCapacity`. The
  bound needs the agreement: Put overwrites without evicting when the map says
  that the key has an element, and evicts the back element by its own key. For
  `ImplementsRecency`, `OlderOf(ll)` is the order a list stands for; a move to
  the front, a push and a removal act on it as `Recency` says, and the back
  element is the only key that is older than every other, hence `Victim`.
* `EngineProofs`: type correctness, then `Provenance`: every L1 record answers
  its key, every L2 entry describes the request that made it, every candidate is
  such an entry in the right scope, and a request that has not heard from the
  upstream has made nothing. The other invariants stand on it; they are not
  inductive, since they say nothing of what the tiers hold.
  * `CachePromise` is refined with `NewIsUnasked`: a request that has not begun
    has asked nothing. `NothingSealedServed` holds for deployments where every
    process has a key (with `Unsealed`: L1 holds plain bodies, and a candidate
    that passed Open is one its key sealed; without that assumption the run
    `engine_key_off` refutes it). `AgeIsBounded` needs `Aged`: an L1 record has
    its answer's stamp, or one a promotion made of an entry that was within its
    lifetime when the promoter judged it.
  * `OldestOfTheNearest`: `OldestFound` says of a candidate held between search
    and verdict what the property says of a served one. Entries only join at the
    end of L2, so the oldest of the nearest stays that while they do.
  * `QuotaHolds`: `InBudget` is a balance per tenant: bytes stored, bytes charged
    and not yet stored, and tokens left stay within one burst for every start of
    the process and the refill up to the limiter's last reading, with what late
    readings moved it back. Spend moves a text's length from the tokens to the
    second sum, Add from the second to the first. A request that read the clock
    under an earlier process is lost with it, so a reading is late only towards
    the present one.
  * `RepeatsHitL1`: `Memory` says that, while L1 has room for every key, every key
    answered by this process has a record in L1, and that every record carries
    the stamp of some request that answered its key, not always of the last one;
    a restart forgets the answers and the records together.
* `QuotasProofs`: `Inv` adds to `OneLimiterEach` a balance per tenant: tokens
  left plus bytes granted never exceed the burst plus the refill up to the
  limiter's last reading and what late readings moved it back (`rewound`).
  The budget alone is not inductive, since it does not mention the tokens left.
* `FrontDoorProofs`: `Flow` says what each place in the handler implies of the
  request there (what is buffered, that it was read whole, that nothing was sent
  yet) and that everything stored came from a whole request in its own scope.
  The cache properties and the opt-out follow. For the refinement of
  `CachePromise` it also says that a record answers the text it is stored under:
  in L2 that is its maker's own, so that a promotion puts under another text only
  what is directly alike to it.
  `WorkIsPaidFor` has its own balance: bytes let through and tokens left stay
  within the burst, the refill up to the limiter's last reading and what late
  readings moved it back, and what was refused was never sent.
* `LifecycleProofs`: `KeyTaken` (a server runs only with the configured key) for
  the rows' seals; every entry's scope follows from its process's mode, and every
  served answer is an entry its request could see (`OnlyHitsServe`), for
  isolation. For the sidecar, `Loads`: copies built plus threads still
  loading never exceed the workers. While there is no model no copy was built,
  so the loading threads are the running ones; once there is one, no thread
  starts to load.
* `SemanticIndexProofs`: `ScanSound` says that a scan in progress holds the
  read lock and the best of the entries it has looked at, so that its last step
  is `NearestIndex`'s Search; the lock's part of `TypeOK` keeps the entries still
  meanwhile. For `ScanNeverWorse`, `Found` keeps the same of a finished search
  until it returns, and the query's filters are the scan's.
* `SequentialProofs`, the calibration: a cutoff above all scores, one below them
  and the midpoints split the scores in every way a cutoff can (`Covered`), so
  the best of the candidates is the best of all cutoffs. `Scanned` says that
  `best` is that of the candidates before `k`, `Best` that each finished pass
  chose so, and `InTurn` which passes and pairs are finished. For
  `LookupsServeAsChosen`, rounding moves a cutoff by at most half a grain, so a
  score at least that far from the chosen one stays on its side; the key of a
  pair is the same in both orders and no other pair's; and `Tabled` says that the
  table holds nothing but chosen cutoffs and its default none below them.
  `GuardOnlyHelps` compares the best points of the two populations.
* `SequentialProofs`, the guard: two labels that a text is not ambiguous under
  leave the same text and find the same tokens after every stage; only the
  stages for numbers and slashed dates look at the label, and only the matches
  `DependsOnLabel` names are read differently. That has to be said of what each
  stage meets and not of the text alone: a date that is blanked out can leave a
  lone separator where the text had several (`500.123.1.22.2024`).
* `SequentialProofs`, the label: `Passed` says that a scan that goes on has met no
  mark and knows whether it met a letter, so the label is the first mark's
  (`LabelIsTheFirstMarks`); which makes the order of the marks matter only where
  they are of several languages (`OneLanguageIsLabelled`).
* `SequentialProofs`, the numerals: reading a joined phrase is reading its second
  part from where the first has led. Hence a section of four digits adds to the
  accumulators what its places are worth (one case per digit that may be left
  out, shown by a zero, or stand before its unit), and a big unit multiplies what
  has gathered. `NumeralsAreRead` puts three sections together, for all numbers
  below 10^12 where the run has 2^31; `WanBeforeYiIsASum` shows what is read when
  the units stand in the other order.
* `SequentialProofs`, the guard's stages: the stretches a stage reads are matches,
  do not overlap and pass none by (the lemma `SpansCoverMatches`). So a stage that matches
  one stretch and no other takes that one whole; if no earlier stage takes part
  of it, and what remains when it is blanked out matches no later stage, it is all
  the guard reads. That is shown for one numeral, slashed date or amount among
  words (`NumeralIsOneNumber`, `DateIsOneDate`, `AmountIsOneNumber`), which with
  `NumeralsAreRead` gives `OneThingReadsRight`: `RightLabelReadsRight` for the
  texts that say one thing, a number in it being one a float64 holds exactly. The words (`Calm`) are any that begin no token of
  their own: no currency, no camel case, no mark of code; and a space, another
  such mark or a Han rune that counts nothing stands next to the thing said
  (`Gap`), since a letter or a classifier would make it another token. A word may
  be one that tells the language.
* What liveness rests on, with the fairness taken away: that who is not done can
  go on, and that it cannot go on for ever. In `SemanticIndexProofs`, a writer
  that waits waits for readers, and a reader holds the lock only in steps that
  need nothing more (`NobodyWaitsForEver`); what a caller has left to do is a
  number that its steps lower and nobody else's raise, since an append reaches no
  scan in progress (`EveryStepIsProgress`). In `EngineProofs`, a search always has
  an outcome and steps follow the order of Serve (`RequestsMoveOnward`). In
  `LifecycleProofs`, a stop lets nothing in and moves no deadline (`StopsGoOn`).
* `EngineSearchesTheIndex` joins the two models of L2: in an engine over the
  in-memory index a search is a step of `NearestIndex`, which `IndexIsAtomic`
  shows the scan under the lock to be.
* `Collections`: what pushing, moving and removing does to a list without
  duplicates, and how a sum over a finite set (a fold) changes when one element
  joins it or one summand grows; a fold is not expanded by the provers, so the
  sum is first shown to follow its recursive equation.

Assumptions: the named ASSUMEs of the modules, and `EveryProcessHasAKey` where
stated. They give the constants their types; `None` is no query, request or
tenant; tenants are not the shared pool; cosines are whole numbers, which stand
for any ordered values; no two languages are calibrated twice, and the precision
target is a percentage above zero. The similarity, threshold and guard operators
are arbitrary. `EngineSearchesTheIndex` is about an L2 in memory, and
`EveryStepIsProgress` about finitely many callers.

Model-checked only: liveness (`EveryRequestEnds`, `EveryCallReturns`,
`EveryStopEnds`), which is beyond the prover, so that only its safety half is
proved; and `RightLabelReadsRight` for texts that say several things or another
one (a unit, a currency, a version, code). It compares the guard's reading with
what a writer meant: for one thing among words `OneThingReadsRight` proves it for
every text, while things next to one another can join into a token nobody meant,
so that only the run's corpus can say (see above).

## Not modelled

* Telemetry (log lines), the benchmark and the gut check (offline reports over
  recorded scores): they feed nothing back into the program.
* The provider beyond its base URL: it stamps a header.
* Configuration variables on which nothing branches over time: they are the
  constants of the modules.
* The regular expressions letter by letter, vectors and their arithmetic, SQL and
  the schema, HTTP headers, audit events, the server's own timeouts, the cipher,
  file formats, and the calibration's AUC, embedding of intents and reports.
* A thresholds file that cannot be read or parsed: the process falls back to one
  default for every pair, which is another value of `Engine`'s `Cutoff`.

## Plan

What could be added: `Lifecycle`'s request replaced by `Engine`'s, which needs the engine's
restart to choose its environment.
