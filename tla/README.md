# janus-graph in TLA+

janus-graph keeps an agent's memories: an episode (a text) is put into a queue
in SQLite, a worker ingests it into a knowledge graph in FalkorDB with
graphiti, and a nightly "dream" tidies the graph up and repairs the queue. An
MCP server, an HTTP daemon and a command line work on the same two databases,
each in a process of its own. This directory models the parts where those
processes, their crashes and their failing calls meet, checks the models with
TLC, and proves what matters most with TLAPS for every value of the constants.
Paths below are relative to `src/janus_graph/`.

    tlc -workers 2 -config queue_deployed.cfg MCEpisodeQueue
    tlapm EpisodeQueue_proofs.tla

## The system

| Component | State | Operations | What is hard |
|---|---|---|---|
| Episode queue `pipeline/queue.py` | tables `episodes` (status, attempt_count, last_error), `dead_letter`, a partial UNIQUE index on the content hash of rows in flight | claim, done, failed, aborted, skipped, reap, requeue, replay | several processes, each statement by ids of an earlier SELECT; SAVEPOINTs that commit; two tables that must agree |
| Worker `pipeline/worker.py`, `retry.py` | a coroutine per claimed row | backstop, `add_episode` under a timeout, the three endings | a cancelled ingestion may have happened; a thread that outlives its cancellation; a status write that fails |
| Sweep `pipeline/cron.py` | none | reap, claim, process a batch | `gather` swallows exceptions; the claim of a dead process must be given back |
| Intake gate `pipeline/queue.py`, `core/dedup.py`, `daemon/episode_queue_adapter.py` | one asyncio lock per MCP process, ledger `dedup_events` | enqueue in the modes off, observe, enforce | lookup, INSERT and ledger are transactions of their own; the daemon has no lock at all |
| Supervision of FalkorDB `daemon/circuit_breaker.py`, `falkordb_supervisor.py`, `falkordb_restart_policy.py` | circuit, failure count, retry time, the rolling window of restarts | probe, record, trip hook, restart, boot | a probe's result is recorded after awaits, in another state of the circuit; nobody probes by itself |
| Dream run `pipeline/dream.py`, `daemon/cron_loop.py` | the table `dream_runs`, the loop's `last_run_date` | the four phases, the row, the report | phases report failures in different forms; a daemon that dies anywhere |
| Phase 1, clusters `pipeline/dream_phases.py` | none, it measures | synchronous label propagation | it may oscillate |
| Phase 2, merging entities `pipeline/dedup.py`, `dedup_apply.py` | the graph | redirect MENTIONS and RELATES_TO, collapse, delete | no transaction over two queries; three entry points without a common lock; ingestion meanwhile |
| Phase 2, folding episodes `pipeline/dedup_apply.py` | the graph, `dream_episodic_undo_log` | move MENTIONS, log, delete | as above, and an undo log that must be complete |
| Phase 3, pruning `pipeline/dream_phases.py`, `dream_apply.py` | the graph | three queries for each orphan | a plan out of date |
| Graph search `daemon/search_engine.py`, `embedding_client.py`, `cache/lru.py` | shared Redis client, HTTP session, semaphore, LRU of vectors | probe seeds, query, embed, rank | shared clients checked before an await and used after it; shutdown under way |
| Memory search `daemon/http_search_memory_handler.py`, `engine/search_memory.py`, `cache/embed_cache.py` | hits per address, an LRU of vectors | limit, probe, embed, search, gate, answer | the limiter forgets addresses; lists of edges and scores that a gate drops from; a cache read before an await and written after it |
| Repair of LLM answers `heuristics/` | a log | validate, repair, validate again | the rule sees only what the first error is about |
| HTTP server, lifecycle `daemon/http_server.py`, `lifespan.py` | the order of start and stop | /health, POST /episodes, searches | requests while clients are being closed |

Interactions: writers reach the queue through the gate; the sweep and phase 4
of the dream work on the rows the gate let in. A sweep and a dream are skipped
while the circuit is OPEN; only requests (/health, /search/memory) move the
circuit, and the trip of the circuit is what restarts FalkorDB. The dream's
phases 2 and 3 change the graph while the worker adds to it and searches read
it.

Parts that are not modelled: the settings (`config.py`; what the modules need
of them are their constants), the payload hash (a pure function: a constant
`PayloadOf`), the report sinks, the migration and install scripts (I/O). `PROJECT.json` lists every
component with what is left out of it, and every hazard at its line.

## Modules

| Module | Models | State and actions |
|---|---|---|
| `EpisodeTable` | the rows and the SQL of `queue.py` that writes them | `status`, `gate`, `attempts`, `lastError`, `aged`, `dlq`, `dlqError`; one operator per transaction (`MarkDoneRow`, `MarkAbortedRow`, `UpdateRow`, ...) |
| `EpisodeQueue` | the processes that use it | sweepers, dreamers and operators by `pc`, the rows of their last SELECT in `picked`, the coroutines in `task`, left-over threads in `late`, the SQLite write lock in `writer`; one action per transaction |
| `EpisodeLifecycle` | abstract: the row machine, without processes | one action per committed transaction |
| `IntakeGate` | abstract: the gate, every call decided in one step | `Accept`, `Refuse`, `RowsMove`: one atomic decision, then the moves of rows |
| `DedupGate` | both writers | per call `pc`, the `holder` it found and the ledger's `event`; per process `mode` and `lock` |
| `FalkorSupervisor` | server, circuit, policy, boot, probes, sweep loop | the server and its pidfile, `breaker`, `failures`, `retryIn`, `policy`, `restarts`, one program counter per request |
| `DreamRun` | the loop, the phases seen from outside, row and report | `pc`, `results` (what the run says) and `became` (what happened) per run |
| `Clustering` | `build_adjacency`, `cluster_graph`, `_resolve_cycle` | `labels` and the `trail` of all rounds; one action per sweep |
| `EntityMerge` | `plan_dedup`, `apply_plan` | plan `root`, rows `todo`, the edge being `moving`; one action per query |
| `EpisodicFold` | `plan_episodic_exact_dups`, `apply_episodic_plan` | as above, with `undo` |
| `OrphanPrune` | `run_phase3_prune` | plan `todo`, the counters `outcome`, what was really deleted in `took` |
| `GraphSearch` | a search with its clients | per request `pc` and its data; the shared session, client, slots and cache |
| `LruCache` | `cache/lru.py`: a sequence of pairs, least recently used first | `CacheGet`, `CacheSet` and loops of them, used by both searches |
| `Selection` | a list comprehension with a condition | `Selected`, used by both searches |
| `MemorySearch` | `/search/memory`: limiter, handler, engine, embedding cache | `hits` and `order` of the limiter; per request `pc`, `vector`, `found`, `scores`, `reply`; the shared `cache` |
| `LlmRepair` | the repairing client and its four rules | an answer abstracted to the places of its items and how far each fits; one call |
| `MC...` | instances | the constants of the runs |
| `..._proofs` | theorems; `DreamRun_proofs` has those of `OrphanPrune` and `Clustering` too, `Searches_proofs` those of `MemorySearch` and `GraphSearch` | |

`EpisodeQueue` extends `EpisodeTable` and instantiates `EpisodeLifecycle`
(`ImplementsLifecycle`); `DedupGate` instantiates `IntakeGate`
(`ImplementsGate`), and `EpisodeLifecycle` implements `IntakeGate` too
(`LifecycleIsGated`): the moves of rows that the gate takes for granted are
those the queue makes. `DreamRun` sees the phases from outside; their insides
are the four modules after it and phase 4 of `EpisodeQueue`.

Operators with a suffix (`MarkDoneRow_KeepsDlq`) are not part of a
specification. Each is a definition with a plausible bug, kept next to the
right one: put in its place it must violate a property, which shows that the
property can be broken by the code.

## Runs

| Run | Question | Bounds |
|---|---|---|
| `queue_deployed` | As the daemon runs it: can two enforced twins be in flight, a done row have an open dead letter, content be ingested twice without a loss, a skip lose content? Is every commit a step of `EpisodeLifecycle`? | 2 rows of one content, gated or not, with the backstop, 1 sweeper, 1 dream, both limits of attempts 2, 1 crash, 1 left-over thread; 3 M states |
| `queue_liveness` | Does every row leave `processing` and `queued`? Can a row with content be done and not ingested, or a row be queued above both limits of attempts? | 1 row at a time, with content or without, 1 sweeper, an operator who reaps and retries, default limit 2 and setting 3, 1 crash |
| `gate_mixed` | Is the gate atomic seen from outside, its ledger true, every call answered? | 3 calls, 2 contents, an MCP process and the daemon, each in any mode, 1 crash, 1 failing statement |
| `falkor_polled` | What late probe results do to circuit and policy; recovery under polling | 1 request of each kind, threshold 3, reset 1, cooldown 2, budget 2, window 4 |
| `dream_nights` | One finished run a night, row and report agree, every run that got a run_id returns | 2 days, 2 runs, 1 failure, in a run or before it, 1 stop or kill |
| `cluster_graphs` | Does label propagation end, and where may labels go | all 1024 graphs of five nodes; of three nodes all spellings of edges; thresholds 0..3 |
| `merge_runs` | Is a MENTIONS or a fact lost, does merging converge | 4 entities (a chain of three that restate each other), 5 edges, 1 process, 1 crash, 1 failure |
| `fold_runs` | The same of folding, and its undo log | 5 nodes in two groups, the duplicate of one of them without an edge, 6 edges, runs without end, 1 crash, 2 failures |
| `prune_runs` | Does an edge lose an end, is a deletion kept quiet | 2 entities, 2 edges, 2 processes, 2 failures |
| `graph_runs` | Vectors and texts, honest replies, every request ends | 3 requests, 3 texts, cache of 2, 1 slot, FalkorDB changes once |
| `memory_runs` | Is the limit exact, does its table stay small, whose score has a row, by which query is an edge judged | 2 requests, 2 addresses of which the limiter knows 1, 2 requests a window, 2 texts and a cache of 1, 3 edges, one without a vector |
| `repair_loses` | refuted: "Any payload that *does* carry entities must produce a non-empty list" | one answer of two items |

Why these bounds: the defects these systems have need two rows of one content
(index, skips), one process that is stale and one that is not, and one crash
or failure at the worst place; the second attempt of two is the last one, so
retry, escalation and replay are all reached. The code has two limits of
attempts: `should_retry` and the reaper of a sweep use the default 3 of their
parameter (`DefaultAttempts`), `queue reap` and the retry policy of the dream use `pipeline.max_attempts` (`MaxAttempts`). `queue_deployed` leaves
them equal, as the shipped configuration does, and `queue_liveness` sets the
second one higher. In `memory_runs` there is one address more than the limiter knows, a
window in which both requests of one address fit, lists longer than a limit,
and an edge without a vector before, between and after the others. In
`falkor_polled` the reset
timeout is below the cooldown, unlike the defaults, because only then every
gate of the restart policy is reached. `MaxRuns` (of merging), `MaxRows`, `MaxCrashes`,
`MaxFailures`, `MaxLate`, `LastDay`, `MaxRestarts` and `MaxFlips` bound
counters and appear in guards only. `MaxRuns` of `merge_runs` is as
high as arrivals and failures can make necessary; that of `fold_runs` bounds
no run, it is where the count of runs stays. Clustering stops at five
nodes, as six take more than minutes; `MaxRounds = 12` instead of 1000 makes
`EndsByItself` stronger. Merging and folding run one process: with several,
`MentionsKept`, `LongestStays`, `NothingDangles`, `DeletedIsLogged` and
`GroupsStay` are proved; the others fail (below), and are proved under the
assumption of one process. `CHECK_DEADLOCK FALSE`
stands where nothing is left to do once the bounded counters are used up.

### Fairness

- Queue: time passes (a claim gets older than the timeout), a coroutine that
  can go on does, the cron loop starts sweeps again and again. Nothing is
  assumed of producers, dreams, operators, crashes, or how an ingestion ends.
- Gate: a coroutine that is ready runs, and a thread comes back.
- FalkorDB: time, boot, the sweep loop, and that a probe that has begun ends
  (socket timeouts of 1 s). `PolledSpec` adds that the pollers poll;
  `RecoversWhenPolled` needs it, and without it recovery fails
  (`SweepsResume` below).
- Merging and folding: a run under way goes on, and the cron starts one every
  night. Of pruning nothing is assumed: its runs check safety only.
- MemorySearch and LlmRepair state no liveness: a request under way ends with
  its timeout of ten seconds, which the code leaves to `wait_for`.
- DreamRun: a run that has its run_id goes on. GraphSearch: whatever a request awaits comes back
  or times out. Clustering is sequential and states its termination as an
  invariant.

## What is proved

All proofs are for every value of the constants, under the `ASSUME`s of the
modules (disjoint roles, positive limits, unique ranks).

- **Queue** (`EpisodeQueue_proofs`). `TypeOK` alone is not inductive for what
  matters, because processes write by ids they read long ago; `Held` adds that
  those rows still exist and that whoever is about to write `done`, a
  left-over thread included, has ingested, unless the row has no content
  (`Passed`). `StepMaps` shows from both that
  each action is a transaction of `EpisodeLifecycle` or a stutter.
  `LifecycleSafe` (there, on a far smaller machine) then gives `UniqueActive`,
  `NoOpenDlqWhenDone` and `DoneMeansDelivered`, the latter of rows with content:
  the empty ones are done without an ingestion.
  Three more need to know who runs. `SkipLosesNothing` is proved for any
  number of dreams and producers and one process that reaps (`OneReaper`: a
  sweeper or an operator). Without it the property is false: with three sweeps
  and a dream under way two sweeps each select one of two twins as stuck, a
  coroutine fails the one and a third sweep claims and fails the other while
  the dream requeues its twin, each requeue of the two sweeps then meets the
  other row queued again, and both rows end skipped (TLC follows this schedule
  on an instance with three sweepers and three attempts). With two sweepers
  no loss was found. Its invariant `SkipSafe` says that a row
  about to be skipped, by the reaper between two statements or by a coroutine,
  has a twin that is delivered or not skipped. `NoSpuriousDuplicate` and
  `QueuedBelowCeiling` are proved for what a daemon runs (`Deployed`: at most
  one sweeper and one dream, no operator), from the invariant `Solo`: the rows
  the dream is about to requeue are in nobody else's hand and still have an
  attempt left by the setting, what the sweep requeues has one left by the default, a row in the sweep's hand has not failed, and what is known to
  be in the graph is done or about to be, with nobody about to requeue it.
  With a second sweeper both are false (TLC, on `queue_deployed` with `Sweeper
  = {s1, s2}`, where `QueuedBelowCeiling` is added). What is proved of
  `QueuedBelowCeiling` has a dream and no operator, what `queue_liveness` checks
  has an operator and no dream.
- **Gate** (`DedupGate_proofs`). `TypeOK`, the shape of a call at each program
  counter, `LockIsOwned`, `OnlyEnforceRefuses` and `LedgerIsHonest` together
  are inductive, and every step is one of `IntakeGate` or a stutter. The
  verdict falls when the holder is found, which is what the mapping uses.
- **FalkorDB** (`FalkorSupervisor_proofs`). `TripCount`, the order of the
  window (`RestartsBounded`), `RestartOnlyOnTrip`, `FatalIsFinal`;
  `CooldownNeverRefuses` from an invariant that relates the time since the
  last restart to the time left in OPEN, if reset_timeout_sec >= cooldown_sec
  (60 and 60 by default); `HydrationNeverTrips` from one that counts the
  failures boot can record.
- **Folding** (`EpisodicFold_proofs`). Plans lead to older nodes that existed,
  rows belong to victims, logging comes before deleting: `DeletedIsLogged` and
  `GroupsStay`, with any number of processes. With one process, while
  episodes arrive, also `MovesAddNoDuplicate` (no query has failed),
  `FoldIsUndoable` (nothing has failed or died) and `FoldKeepsMentions` (the
  same, or the first run with whatever fails in it). These need the invariant
  `Alone` of five parts, each under the condition it needs: the plan is settled
  once it is made; the place an edge moves to is clear; edges have uuids of
  their own but for the one being moved; what is dropped has a twin that stays;
  and the rows of the run are all the edges of its victims, and say all they
  mentioned. A second process moves edges after the first one's SELECT, which
  breaks the last part.
- **Merging** (`EntityMerge_proofs`). Plans lead to better-ranked nodes of the
  same name, rows fit their phase, a copy exists before the original goes:
  `MentionsKept`, `LongestStays`, `NothingDangles`, with any number of
  processes. With one process also `RelationsKept`: the ends a plan leads to
  are then still in the graph when an edge is moved, so that the CREATE, which
  matches its ends, never creates nothing before the DELETE.
- **Pruning** (`DreamRun_proofs`). `EdgesKeepEnds`, and `TakenIsTold`: a node
  still to be looked at has no outcome, so none is overwritten.
- **Clusters** (`DreamRun_proofs`). `WithinComponents`, for graphs of any size:
  edges go both ways, so what a search reaches is a class of an equivalence; a
  label always comes from the class of the node that has it, because the winner
  of a vote is one of the labels heard and a resolved cycle takes the label of a
  node of the same component; and the label of a pinned node is its own,
  because pinned nodes do not vote and do not oscillate. `TrailIsOrbit`: every
  vector of labels is the sweep of the one before, until one repeats; then the
  loop stops, and only the last vector has been there before. It rests on a
  sweep being a function of the snapshot and the labels alone, so that the
  vectors a later round looks back at still lead where they led.
- **Searches** (`Searches_proofs`). `RateIsBounded`: the deque of an address and
  its history lose what is stale at the same time, so that they are equal as
  long as the address is remembered; the table stays within `MaxKeys` addresses,
  because one is evicted before a new one comes in. `RowsKeepTheirScores` and
  `GateIsKept`: across its awaits a request holds the vector of its own query or none, and
  the shared cache holds only pairs of a text and its own vector, whatever
  other requests put in. `VectorsFit` and `RepliesAreHonest` of the graph
  search rest on the same, with a set of texts in place of one query. What the
  comprehensions of the code select is stated by positions (`Selection`), which
  makes the facts about them provable without induction.
  `GraphSearchTypeOK` counts (`Slots`): a request is posted with a slot only, and
  gives it back however it leaves, answered, failed, timed out or cancelled;
  and who waits for one is in the queue, once (`Placed`). That a cache has a
  key once and stays within its size are lemmas on the operators of `LruCache`,
  which both searches use.
- **Dream run** (`DreamRun_proofs`). `ClosedRowIsTheReport`, and
  `OncePerNightWhileUp`: while the daemon stays up, the day the loop noted
  bounds the nights of all the runs that returned, and only a later night
  starts another.

A theorem about a module that is reached through INSTANCE has that module's
`ASSUME` as its hypothesis, and names the property with the instance:
`Prune!EdgesKeepEnds`, `Prune!TakenIsTold`, `Cluster!WithinComponents`,
`Graph!VectorsFit` and `Graph!RepliesAreHonest` are the properties of
`prune_runs`, `cluster_graphs` and `graph_runs`. Each instance
renames the variables of its module one to one, so that these are statements
about the module itself.

Type correctness is a theorem of each of these modules, so no configuration
checks it. It says more than types where the code keeps a count: in
`GraphSearch` the free slots and the requests posted add up to the concurrency
and a waiter queues once (`SlotsAreCounted`); in both searches the cache has a
key once and stays within its size; in `Clustering` the adjacency is symmetric. Of the
other proved properties `TripCount`, `LockIsOwned`, `OnlyEnforceRefuses`,
`FatalIsFinal`, `LongestStays`, `GroupsStay`, `CooldownNeverRefuses` and
`TrailIsOrbit` are in no configuration either.

Only model-checked:

- every liveness property (`ProcessingResolves`, `QueuedIsClaimed`,
  `RecoversWhenPolled`, `CallsAreAnswered`, `DuplicatesFold`, `PairsMerge`,
  `RunsReturn`, `EveryRequestEnds`): liveness under fairness and ENABLED are out
  of TLAPS' reach here;
- `CyclesHaveLengthTwo` and `EndsByItself` of `Clustering`. Why two rounds are a
  cycle is an argument over sums along all edges and all rounds, which needs
  induction over the trail; `EndsByItself` is a statement about the bound
  `MaxRounds` and five nodes only.

## Abstractions

- Queue: every SELECT is one step, and a transaction opens at its first write
  and holds SQLite's lock. `ORDER BY` (enqueued_at) and `min_age_sec` are left
  open: any choice within the LIMIT. `Blank` are the rows the worker reads as
  empty, those without content and those whose `payload_json` cannot be parsed
  (`queue.py` 1079-1080), and marks done at once (`worker.py` 175-178);
  `SkipLosesNothing` leaves their hashes out, as an unreadable row still has the
  hash of the content it was to carry. The checkpoint of a sweep is left out.
  The UNIQUE index is assumed to exist: when it cannot be created the code logs
  that and goes on (`queue.py` 692-722), and `UniqueActive` has nothing to rest on.
- Gate: queued and processing are "active". Two calls with one id do not
  occur. The mode `mcp_only` refuses before any state changes.
- FalkorDB: ages are capped, the failure count saturates at the threshold,
  restarts do not contend for their lock, a probe has no length.
- Merging: an edge is its two ends, fact, uuid and whether it is superseded;
  edges that agree in all of these are one. Ties are broken in any order.
  Ingestion of an entity or an edge is one step.
- Folding: batches of 200 are one query; ingestion of an episode is one step.
  A run none of whose victims has a MENTIONS is refused (`dedup_apply.py`
  705-710), so duplicates that mention nothing stay unless other victims take
  them along: `DuplicatesFold` speaks of those that mention something.
- Pruning: MENTIONS and RELATES_TO are read one after the other, as the code
  does. Whether graphiti writes a node before its edges is not in this
  repository: both orders are possible.
- Dream run: only the daemon's nightly runs. The window of half an hour does
  not close on a run that is due, as the loop looks every minute, unless each
  look raised. `EpisodeQueue(db_path)` and `ReportDispatcher.from_settings`
  (`dream.py` 149-150) stand before the run_id and outside every `try`: what they
  raise reaches the loop, which logs it and calls again a minute later
  (`BeginFails`). Such a call leaves no row in `dream_runs`, although a comment
  there says that "a run that CRASHES still leaves evidence that it started"; the
  night may pass without a run, and `RunsReturn` speaks of runs from the INSERT
  on. The time a blocking phase takes is not modelled.
- Clusters: entities are numbers in the order of their uuids, which makes a
  label the number of the node it came from.
- Memory search: a cosine is above or below the floor, a vector is named by
  its text and a score by its edge; a request moves from await to await.
- Repair: an answer is the places of its items and how far each fits; a field
  that is a list or a dict where it must not be one is left out.
- Search: an error FalkorDB answers a command with is one it could not parse
  (`INVALID_CYPHER`); its other errors are left out. Validation, escaping, parsing, the MMR order and the limit are left
  out; the probes of several seeds are one; a vector is named by its text; a
  server that garbles answers 200 with something that is not JSON.

## Disagreements

`repair_loses` is part of the suite. The following formulas state what a comment,
a docstring, a document or a test says; TLC refutes each when it is added to the
named configuration as an invariant (or a property, if it is temporal), in some
cases with one constant changed. They stand at the end of their modules.

- **ClaimIsExclusive** (`queue_deployed` with `Sweeper = {s1, s2}`; `pipeline/queue.py:1070`): claim_next_batch SELECTs the queued ids and then UPDATEs WHERE id IN (...) without AND status = 'queued'; the SELECT takes no lock, so two sweeps can both get the row and both ingest it. Its docstring (pipeline/queue.py:1042) says "Atomically claim next batch of queued episodes".
- **ReplayKeepsDone** (`queue_deployed`; `pipeline/queue.py:1465`): replay_dlq_episode looks the dead-letter row up without recovered_at IS NULL and requeue_guarded has no status filter, so a manual retry flips a done episode back to queued; replay_dlq_batch guards against exactly this: "Never requeue an episode that already succeeded ... a replay that flips a 'done' episode back to 'queued' re-ingests content into the graph" (pipeline/queue.py:1582).
- **PermanentIsNotRequeued** (`queue_deployed`; `pipeline/queue.py:1558`): replay_dlq_batch applies the policy to dead_letter.last_error only. An aborted row that reap_failed_or_aborted requeued keeps its open dead-letter row with the old error; when it then fails with a permanent 404/402 the replay requeues it with attempt_count 0. The docstring (pipeline/queue.py:1356) says "Rows whose ``last_error`` carries a permanent upstream code are never requeued by ANY path".
- **SkippedIsTerminal** (`queue_deployed`; `pipeline/queue.py:1590`): replay_dlq_batch requeues every row whose status is not 'done', and mark_skipped_duplicate leaves an open dead-letter row open, so a skipped row is queued and claimed again. mark_skipped_duplicate's docstring (pipeline/queue.py:2152) says "The row is TERMINAL: it is never claimed again".
- **AbortedHasOpenDlq** (`queue_deployed`; `pipeline/queue.py:1628`): replay_dlq_batch commits the requeue when it releases its SAVEPOINT and closes the dead-letter row by episode id afterwards; an abort in between re-opens the row and the replay then closes it. The comment (pipeline/queue.py:1384) says "``mark_aborted`` writes a dead_letter row with ``recovered_at IS NULL``, so every aborted episode has an open DLQ row".
- **DoneIsIngested** (`queue_liveness`; `pipeline/worker.py:175`): _execute_ingestion marks a row with empty content done without calling add_episode (the MCP tool add_episode accepts such content), and claim_next_batch reads a payload_json that cannot be parsed as empty (pipeline/queue.py:1080). mark_skipped_duplicate's docstring (pipeline/queue.py:2143) says that the status done means "this content WAS ingested".
- **FailedIsNotStranded** (`queue_deployed`; `pipeline/cron.py:130`): A coroutine that finds the sweep's soft deadline passed marks its row failed whatever its attempt_count is, so on the last attempt the row is failed with no attempt left and no dead-letter row: no reaper, dream or replay takes it again. A pipeline.max_attempts below 3 does the same to every row the worker fails at that count, because should_retry (pipeline/retry.py:27) keeps its default of 3. Its docstring (pipeline/retry.py:28) says "Determine whether an episode should be retried or sent to DLQ".
- **HalfOpenDeduplicates** (`falkor_polled`; `daemon/circuit_breaker.py:126`): allow_probe returns True to every caller in HALF_OPEN and nobody calls acquire_probe_slot (which would always return True there). The module says "Probe during HALF_OPEN: serialized via ``asyncio.Lock`` so concurrent probes deduplicate to ``half_open_max_probes`` total attempts" (daemon/circuit_breaker.py:15).
- **WarmingIsNoFailure** (`falkor_polled`; `daemon/lifespan.py:310`): boot records a failure when the probe after start() finds the server WARMING_UP, and two when start() raises. The supervisor says "``WARMING_UP``: Redis bound port but responded ``-LOADING``; do NOT count as failure and do NOT trip the circuit-breaker" (daemon/falkordb_supervisor.py:18).
- **FatalMeansBudgetSpent** (`falkor_polled`; `daemon/falkordb_restart_policy.py:276`): An exception of manager.start() enters FATAL_DEGRADED at once and consumes no budget. docs/AUTO_RESTART_SUPERVISOR.md:101 gives as the cause of FATAL_DEGRADED "Max restarts exhausted in 1h window", and its state machine (line 46) says "start=False/raises -> record failure -> rolling-window budget tracks; after max_per_hour -> FATAL_DEGRADED".
- **SweepsResume** (`falkor_polled` with `SPECIFICATION Spec` and `Searcher = {}`; `daemon/cron_loop.py:165`): The sweep loop only reads breaker.state; OPEN -> HALF_OPEN happens inside allow_probe, which only /health and /search/memory call. Without them the circuit stays OPEN and sweeps are skipped for ever. The docstring (daemon/cron_loop.py:148) says "Skips tick when Falkor circuit is OPEN ...: the supervisor will already be probing".
- **GivesUpOnlyWhenFatal** (`falkor_polled`; `daemon/circuit_breaker.py:239`): The hook fires on CLOSED -> OPEN only, so after one restart that did not bring the server up the circuit alternates between OPEN and HALF_OPEN and no further restart is ever attempted; the budget is not used and FATAL_DEGRADED is not reached. docs/AUTO_RESTART_SUPERVISOR.md:113 says "Falkor starts but immediately crashes | `_ping()` after `start()` returns False -> recorded as failure; rolling budget tracks".
- **RejectionsAreRecorded** (`gate_mixed`; `daemon/episode_queue_adapter.py:403`): When the UNIQUE index refuses the daemon's INSERT, _insert_with_hash_sync raises EpisodeDuplicateError and nothing writes to dedup_events; only the pre-check's rejections are recorded. _record_dedup_event_sync says "The daemon writer is the SECOND writer of the same table, so its duplicates have to land in the SAME ledger as the MCP writer's" (daemon/episode_queue_adapter.py:420).
- **ObserveDetects** (`gate_mixed`; `pipeline/queue.py:812`): The lookup and the INSERT are separate transactions and no index covers an observed row, so two writers can both find nothing and both insert; neither is counted. enqueue says "observe  — hash computed + stored, duplicates detected and counted, but the episode is STILL enqueued" (pipeline/queue.py:740).
- **DetectedIsEnqueued** (`gate_mixed`; `daemon/episode_queue_adapter.py:262`): The daemon records "detected" before it inserts, and a crash or a failing INSERT leaves an event for an episode that was never enqueued. record_dedup_event says "``detected`` — a duplicate was found; the episode was still enqueued (observe mode)" (core/dedup.py:275).
- **DoneIsRejected** (`gate_mixed`; `daemon/episode_queue_adapter.py:238`): The daemon's lookup and the index only see queued and processing rows, so content that is done is accepted again. The module says the adapter "rejects with ``EpisodeDuplicateError`` when an episode with the same hash already exists in status in {queued, processing, done}" (daemon/episode_queue_adapter.py:6).
- **ActiveDuplicatesAreRejectable** (`gate_mixed` with `PayloadOf <- MCSamePayload`; `pipeline/queue.py:2060`): active_duplicates counts the hashes that occur more than once, not the rows: three rows of one content count as one. get_dedup_stats says "active_duplicates — rows sharing a payload_hash while still active (queued/processing). This is the number that says "the enforce gate would reject N rows right now"" (pipeline/queue.py:2036).
- **MentionsSurvive** (`fold_runs`; `pipeline/dedup_apply.py:548`): A run that dies (or whose DELETE fails) after the CREATE leaves the old and the new edge with one uuid. The next run finds the target at the survivor, puts the uuid into to_drop, and _delete_mentions_by_uuid deletes by uuid alone, so both edges go and the MENTIONS is lost. The module says "CREATE-then-DELETE can at worst duplicate an edge, and the duplicate-collapse step cleans that up on the next run" (pipeline/dedup_apply.py:17).
- **MentionsSurvive** (`fold_runs` with `Run = {r1, r2}`, no crash and no failure; `pipeline/dedup_apply.py:548`): The cron, the MCP tool and the CLI can fold at the same time. A run that reads while another is between CREATE and DELETE drops the shared uuid, without any crash. apply_episodic_plan says "the two edges briefly share a uuid, and only the endpoint constraint keeps the DELETE from taking both" (pipeline/dedup_apply.py:869); the DELETE of the redundant rows has no such constraint.
- **UndoRestores** (`fold_runs`; `pipeline/dedup_apply.py:919`): The undo row holds the edges this run read. What an earlier run moved before it died or before its undo row failed is in no undo row, and the node is deleted all the same. _build_episodic_undo_rows says "Capture each victim's full state so the delete can be undone" (pipeline/dedup_apply.py:577).
- **NoMovedDuplicate** (`fold_runs`; `pipeline/dedup_apply.py:722`): When the read of the survivors' edges fails the run notes it and goes on with no targets, so every edge is recreated, those the survivor has too. apply_episodic_plan says "so the survivor never holds two rows to the same target even momentarily" (pipeline/dedup_apply.py:821).
- **RelationsKept** (`merge_runs` with `Run = {r1, r2}`; `pipeline/dedup_apply.py:434`): Phase B deletes the old RELATES_TO whether or not the CREATE matched. If another run has deleted the survivor meanwhile the CREATE makes nothing and the fact is lost. Phase A guards against this, because "running DELETE regardless would destroy the MENTIONS outright when the MATCH hits 0 rows" (pipeline/dedup_apply.py:320), and Phase B says "Only after the new edge exists do we remove the old one" (pipeline/dedup_apply.py:430).
- **MergesAreSimilar** (`merge_runs`; `pipeline/dedup.py:408`): A node is compared with the nodes that remain, not with those folded into them, so A is folded into B and B into C although A and C do not reach the threshold; A's edges end at C and A's text is gone. The module says that it merges "only nodes whose summaries are near-restatements of each other" (pipeline/dedup.py:18).
- **InvalidStaysInvalid** (`merge_runs` with `Links <- MCInvalid`; `pipeline/dedup_apply.py:412`): The RELATES_TO is created anew without invalid_at (and expired_at), so a superseded fact becomes a current one when its node is merged. The server relies on "SearchFilters(invalid_at=IS NULL) filters out soft-deleted facts" (mcp/server.py:15).
- **MentionsCollapse** (`merge_runs` with `Links <- MCLinks`; `pipeline/dedup_apply.py:360`): plan_dedup counts the second MENTIONS of an episode as dropped; apply_plan moves every MENTIONS and never drops one, Phase C collapses RELATES_TO only. The test says "both mentions collapse onto the survivor -> one is redundant" (src/tests/test_dream_dedup.py:214).
- **CollapseStaysLocal** (`merge_runs`; `pipeline/dedup_apply.py:458`): The query of Phase C has no restriction to the survivors (nor to a group): one merge anywhere deletes every duplicate fact of the graph. The comment says "Phase C: drop duplicate edges the move may have created" (pipeline/dedup_apply.py:444).
- **DropsExcludeSelfLoops** (`merge_runs` with `Links <- MCLoops`; `pipeline/dedup.py:510`): _rel_key gives all self-loops between two nodes one key, so two of them count as a dropped duplicate besides the self-loops. DedupPlan says "AFTER redirection. EXCLUDES self-loops, which have their own counter" (pipeline/dedup.py:212).
- **TextStays** (`prune_runs`; `pipeline/dream_apply.py:67`): The statement that deletes looks at the edges again, not at the summary; a summary written between the snapshot and the deletion goes with the node. The module says it deletes only nodes "that are unreferenced **and** carry no summary text" (pipeline/dream_phases.py:57).
- **DeletedIsTrue** (`prune_runs`; `pipeline/dream_apply.py:96`): deleted is counted from the probe before, not from what the DELETE matched, so a node that another run deleted, or that gained an edge, in between is reported as deleted. The counts are kept apart because "different outcomes and collapsing them silently hides a race" (pipeline/dream_apply.py:59).
- **OncePerNight** (`dream_nights`; `daemon/cron_loop.py:198`): last_run_date is local to the loop. A daemon that is restarted between 02:30 and 03:00 after its run starts a second one. The loop runs it "once per day at 02:30 ICT" (daemon/cron_loop.py:193).
- **FailuresDowngrade** (`dream_nights`; `pipeline/dream.py:224`): If the snapshot cannot be read run_phase1_cluster returns status FAILED without a result; _phase1_result makes an empty result of it and cluster_report says SKIPPED, so the run is completed. run_dream_consolidation says any "phase that actually failed downgrades the whole run" (pipeline/dream.py:378).
- **RowIsTheReport** (`dream_nights`; `pipeline/dream.py:416`): The failure of the UPDATE is logged and the report is emitted; the row stays running without phases. run_dream_consolidation says "the audit trail and the report can never disagree about what happened" (pipeline/dream.py:392).
- **ResolvedIsFixed** (`cluster_graphs`; `pipeline/dream_phases.py:445`): The oscillating nodes take one label, but nodes that did not oscillate keep theirs and are outvoted, or outvote, in the next sweep. _resolve_cycle says that "the next sweep reads a single label across the set and the partition stops moving" (pipeline/dream_phases.py:426).
- **ComponentsStayWhole** (`cluster_graphs`; `pipeline/dream_phases.py:536`): Synchronous propagation leaves a connected component in several communities with no node pinned. connected_components says "no label-propagation variant can split a connected" component (pipeline/dream_phases.py:359), and calls their number the structural floor.
- **EmbedNeverRaises** (`graph_runs`; `daemon/embedding_client.py:134`): The shutdown stops the embedding client before the HTTP server. A request that waits for the semaphore meanwhile evaluates self._session.post on None (or a closed session): AttributeError (RuntimeError), neither of which embed catches, and the handler answers 503 INTERNAL. The module says "We do NOT raise" (daemon/embedding_client.py:9).
- **NothingLeftOpen** (`graph_runs`; `daemon/embedding_client.py:96`): embed() calls start() whenever it finds no open session, so a request still under way after stop(), or while stop() awaits the closing, opens one that nothing closes, or that stop() then forgets. stop() "closes the session (called on shutdown)" (daemon/embedding_client.py:45).
- **DownWasDown** (`graph_runs`; `daemon/search_engine.py:208`): start() assigns the shared client before its ping and sets it to None if the ping fails. A request that came in between, when FalkorDB is back, finds None at its next command; the AttributeError is classified as FALKOR_DOWN. _classify_cypher_error calls that "actively harmful: it tells monitoring the database is down" (daemon/search_engine.py:637).
- **RawRowsSurvive** (`graph_runs`; `daemon/search_engine.py:359`): The filter of step 5 drops every row without a cosine, so a search the embedder failed answers with no row at all. The client says that the caller "treats the BFS result as unranked and returns raw rows with cosine=None" (daemon/embedding_client.py:9).
- **OnlyWantedTypes** (`graph_runs`; `daemon/search_engine.py:433`): edge_types is validated and put into the request, and _cypher_bfs does not use it. The pipeline's step 2 is listed as "edge_types filter" (daemon/search_engine.py:6).
- **TypedCodeDecides** (`memory_runs`; `daemon/http_search_memory_handler.py:369`): An engine answer with the code INTERNAL_ERROR falls through to the search for words, so its text alone makes it FALKOR_DISCONNECTED: "Connection error.", which the embedder's client raises, tells the caller that the database is down. The comment says "handler maps by code, not by string fragment" (daemon/http_search_memory_handler.py:339).
- **DroppedByTheGate** (`memory_runs`; `engine/search_memory.py:347`): The difference is taken after the gate's result was cut to the limit, so what the over-fetch brought beyond it is counted too. The handler says "how many candidates the cosine gate dropped" (daemon/http_search_memory_handler.py:394).
- **EchoIsEmpty** (`repair_loses` with `Answers <- MCAnswers`; `heuristics/rules/extracted_entities.py:171`): The type description under extracted_entities in an echoed JSON Schema is a dict under a known key, so it becomes one entity named <unnamed>. The rule says "For a JSON-Schema echo ... there is genuinely no entity data here, so an empty list is the honest repair" (heuristics/rules/extracted_entities.py:244).

## Not modelled, and what is left

- A proof that label propagation oscillates with period two at most (above).
- `cache/embed_cache.py`: the batch path (`create_batch`). `MemorySearch` has
  the single path, which is the one a search takes.
- The claim order of the queue (`enqueued_at`, `min_age_sec`): the model claims
  in any order, so its safety properties cover this one; fairness between rows
  when there are more than a batch is not stated.
- `config.py`: settings are read once and become the constants of the modules.
  The report file with its rotation and the dispatcher, the migration, backup
  and install scripts: input and output, with no state another part reads.
- The MCP server and the command line call operations that are modelled; their
  argument handling and output are not.
- The vendored patch of graphiti and graphiti itself: external, modelled from
  how they are called.
