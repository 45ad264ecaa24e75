# A TLA+ verification of cognitive-memory-daemon

The daemon keeps the long-term memory of AI agents in one SQLite file. Clients
talk to it over a Unix socket; it stores, searches and links memories, lets them
fade, moves faded ones to cold storage, archives them to stubs, resolves
contradictions between them and compresses groups of fading ones into summaries.
Everything runs in one tokio process with many requests in flight, a single
writer connection, slow calls to language models, and an operator who starts and
kills the process. This directory models those parts in TLA+, checks the models
with TLC and proves their safety properties with TLAPS.

All source references are relative to `src/crates/` unless they say otherwise.

## 1. Inventory

| Part | State | Operations | Interacts with | What makes it correct |
|---|---|---|---|---|
| **Store** (`store/pool.rs`, `store/repos.rs`) | SQLite tables `memories`, `associations`, `conflict_queue`, `schema_migrations`; a reader pool and a one-connection writer pool | insert, update, delete with cascade, migrate to cold / hot, convert to stub, mark superseded, boost, promote, associate; migrations | called by every handler | no edge without its ends; a row's flags agree with each other; migrations can be replayed |
| **Handlers and lifecycle engine** (`daemon/handlers.rs`, `lifecycle`) | none of its own: what a handler read and has not yet written back | Store, Get, Search with strengthening and graph expansion, Update, Delete, Link, the Tick with its four passes, single-step lifecycle requests | Store, Search, LLM and embedding providers | stale reads never corrupt rows; a memory's life moves forward only; conflict verdicts are final and acyclic; the conflict queue drains |
| **Search** (`search/searcher.rs`) | none | candidate scan, graph expansion, bridge discovery, ranking | Store | direct hits are of the model of the query; expansion reaches what fresh links reach; bridges are real and shortest paths |
| **IPC server** (`daemon/server.rs`) | connections, one task per request, two semaphores, shutdown broadcast | accept, handshake, read frame, acquire permit, answer, drain | handlers, clients | permits are conserved; no admitted request is dropped by a graceful shutdown; shutdown ends |
| **Daemon process** (`daemon/main.rs`, `server.rs` serve) | socket file, pid file, database file | start, migrate, probe, bind, write pid, serve, clean up | CLI, other daemons | the files are those of the serving daemon; none serves a half-migrated database; a killed daemon can be followed by another |
| **CLI daemon control** (`cli/main.rs`) | reads the two files | start, stop, restart, connect-or-spawn, recovery | daemon process | does not break a daemon that is fine as long as commands do not overtake each other, gets one back |
| **Client library** (`client`) | one stream, the next request id | connect, request with timeout | IPC server | an answer belongs to its request |
| **Event stream** (`server.rs`, `handle_tick`) | a broadcast channel of 1024 events, a receiver per subscriber | publish, subscribe with snapshot, deliver, lag notice | IPC server, clients | nothing is missed without being told |
| **Embedding providers and cache** (`embeddings`) | the cached vectors | canonicalise, look up, embed, insert | Store, Search | a request uses the vector of its text under the running model; a cached text is not embedded again |
| **LLM providers** (`llm`) | none in the daemon | complete | Tick | external |
| **HTTP bridge** (`http-bridge`) | a token map, a token file; the daemon's `kv` table | mint at start, authenticate, forward | client library, daemon | the status says what happened; good tokens pass, also after restarts |
| **Graph utilities, doctor, trace ring, protocol, paths, configuration** | little or none | pure functions, diagnostics | all | see section 8 |

The behaviours that are hard to test, each at its line, are the `hazards` of
`PROJECT.json`. They are of five families: rows read on a reader connection and
written later by id; writes that another request's write makes meaningless
(deletes, restores, verdicts); tasks that end in the middle (disconnect, drain
deadline, restart, pool timeout); answers and events that arrive late on a stream
somebody still reads; and files and tables that outlive the process that wrote
them.

## 2. Modules

| Module | Models | Role |
|---|---|---|
| `Store` | `store/repos.rs`, the schema of `store/pool.rs` | one operator per SQL statement or transaction, on a record of columns |
| `Lifecycle` | `daemon/handlers.rs`, `search/searcher.rs` | EXTENDS `Store`; concurrent requests as sequences of reads and writes |
| `MemoryLife` | what the daemon promises about a memory | abstract specification that `Lifecycle` implements |
| `MCLifecycle` | | model-checking instance (symmetry) |
| `LifecycleProofs` | | type correctness and the safety invariants of `Lifecycle` |
| `RefinementProofs` | | `Lifecycle` implements `MemoryLife` |
| `Server` | `daemon/server.rs`, `handle_shutdown`, Ctrl-C in `daemon/main.rs` | connections, permits, shutdown |
| `MCServer` | | model-checking instance |
| `ServerProofs` | | type correctness, permits, graceful drain |
| `Runtime` | `Store::open`, `Daemon::serve` around its loop, `cli/main.rs` | processes, files, operators |
| `MCRuntime` | | model-checking instance |
| `RuntimeProofs` | | types, migrations, and whose the two files are |
| `Associations` | `create_or_strengthen`, `strengthen_pairs`, stability writes, `StoreBatch` | strengths of links and memories under concurrent requests |
| `MCAssociations` | | model-checking instance (symmetry) |
| `AssociationsProofs` | | types and the three invariants of `Associations` |
| `Traversal` | `expand_via_graph`, `find_bridges`, `bfs_path` | the walks of one search over a graph that changes |
| `MCTraversal` | | model-checking instance: the scenarios, symmetry |
| `TraversalProofs` | | both walks: what they find, and that breadth-first search finds shortest chains |
| `Session` | `client`, the frames, subscriptions and events of `handle_connection` | what one connection carries |
| `Bridge` | `http-bridge`, the bridge-token handlers | EXTENDS `Session`: every HTTP request is one or two clients of it |
| `MCBridge` | | model-checking instance of both (symmetry) |
| `BridgeProofs` | | all invariants of `Session` and `Bridge` |
| `Embeddings` | `embeddings`, `EmbeddingCacheRepo`, full-text triggers, `candidates_for_search`, the scoring in `expand_via_graph` | from a text to what can be found again |
| `MCEmbeddings` | | model-checking instance, and `canonicalise` on all short texts |
| `EmbeddingsProofs` | | types and the three invariants of `Embeddings` |

Definitions named "Mutant" are plausible bugs; each is put in the place of the
definition after it to show that the property it is paired with can fail.

### Store and Lifecycle

`db` is the committed database: one set per Boolean column, one function per
other column. A task record (`task[t]`) is what a handler carries from one
`.await` to the next, tagged with the step that follows. An action is the code
between two database accesses that other requests can observe:

* a read on the reader pool is a step that copies into the task record;
* a write transaction on the writer connection is one step (`Commit`), enabled
  while no other transaction is open (`WriterFree`);
* conflict resolution is the one transaction that awaits something outside the
  database (the LLM), so it is split: `TickBegin` copies `db` into the task's
  `draft`, each `TickJudge` handles one pair of the draft, `TickCommit` publishes
  it. Other requests read the old tables meanwhile, and their writes wait or give
  up (`AcquireTimeout`).

| Request | Steps |
|---|---|
| Memory::Store | `StoreInsert`, `StoreSearch`, `StoreQueue` (fails as a whole on a foreign key) |
| Memory::Get, GetMany | `GetRead`, `GetRestore` |
| Memory::Search | `SearchQuery`, `SearchFindCold`, `SearchRestore`, `SearchReadRows`, `SearchBoost`, `SearchPromote`, `SearchLink` |
| Lifecycle::Tick | pass 1 `TickReadHot`, `TickMigrate`; pass 2 `TickReadCold`, `TickStub`; conflicts `TickReadQueue`, `TickBegin`, `TickJudge`, `TickCommit`; consolidation `TickReadFading`, `TickCompress`, `TickSupersede`, `TickEnd` |
| one statement or transaction | `Update`, `UpdateRetention`, `BatchUpdate`, `DeleteMany`, `Clear`, `Link`, `Unlink`, `Supersede`, `ToCold`, `ToHot`, `ToStub` |
| the environment | `Disconnect` (tasks of a closed connection are dropped, an open transaction rolls back), `Restart`, `Advance` (days pass) |

Data that the properties do not tell apart is abstracted: contents and embeddings
(a search returns any subset of what its filters let through, a similarity band
is any of the configured ones), edge weights and stability (the subject of `Associations`), retention as a
number (`MayBeAtFloor`, `MayBeFading` say which rows it can put below a
threshold), and time of day (the clock counts days, since every threshold is in
days). The two counters that are only compared with a threshold stop at it. One
user is modelled: the requests filter by `user_id`, and the tick, the edges and the
conflict queue treat the rows of all users alike. A search reads candidates and
their links in one snapshot; its later reads are separate steps.

### Server

`conn[c]` holds the local variables of `handle_connection`, `inbox[c]` the socket
buffer, `work[r]` how far a request is, `permits` the two semaphores, `wake` the
receivers that have an unread shutdown broadcast. The `biased` select is modelled
by guards: an arm runs only if the arms above it are not ready. Waiting for a
permit happens inside the frame arm, so a waiting connection (`Acquire`) runs no
other arm. Dropping a connection's `JoinSet` marks its tasks `aborting`; they
give their permit back when they are dropped. A send to a client that stays
connected but does not read is taken to succeed.

### Runtime

`sock` is the process whose bind created the socket file, `pidfile` the id in the
pid file; both survive the process. A daemon goes through its start
(`IsMigrationApplied`, `ExecuteStatement`, `RecordVersion`, `Opened`, `Inspect`,
`Probe`, `UnlinkStale`, `Bind`, `TruncatePid`, `WritePid`), serves, and cleans up
(`Drained`, `UnlinkSocket`, `UnlinkPid`). Each is a step another process can come
between. `Crash` removes a process at any step and leaves its files. An operator's
command is a chain of CLI steps (`Begin` ... `WaitReady` / `WaitExit`), or a daemon
in the foreground. Ctrl-C there (`Interrupt`) reaches both processes: `cm` has no
handler and returns the prompt at once, while a serving daemon begins to drain; one
that has not yet installed its handler is killed, and one between the handler and
the subscription of `serve` may lose the signal and go on. The waits of the CLI may
end at any moment, because their 5 s are no longer than the drain's.

So nothing keeps an operator from starting a daemon while another is on its way up
or down. `haste` counts the steps that did: a command, a Ctrl-C or a restart's spawn
that found another daemon unsettled, or another command under way (`Calm`,
`MayHurry`). It restricts nothing but how often that happens (`MaxHaste`); what the
code guarantees about the files is stated for `haste = 0`, and the run has haste to
see what recovers from it.

### Associations

`Lifecycle` treats rows and the existence of edges; here a row is its id and what
counts is `weight`, `dated` (whether `last_co_retrieval` is set) and `stability`.
A Link and the links of a batch are chains of `LinkRead` / `LinkWrite`: the sum
is computed from a read on the reader pool and written later. A chain is at a
pair of its ids, (i, j) with i < j, on the way there or back; `MoveTo` is the
code's two nested loops. A Search reads the
rows (`SearchRead`), writes absolute stabilities (`SearchBoost`) and then adds to
all pairs in one transaction (`SearchStrengthen`). `StoreTag` is the transaction
of `queue_conflicts_for`. `Drop` ends a request between any two steps. Four
history variables say what was given (`earned`, `granted`), cut and acknowledged.
Numbers are tenths or coarser: 0..`Full`, with client strengths that may be
negative or above 1.0, and the code's clamp. The tables start empty: edges from
before migration 5, which added the date and filled it from `updated_at`, are not in
the model.

### Traversal

One search with `ask` (hops, bridges, limit). Each query is a step; `Change`
lets another request link, unlink, delete or archive between any two. An edge is
`fresh`, `faded` or `undated` (after the decay of Eq 10); the aggregate of
`linked_for_many`, which mixes the greatest weight with the latest date, is the
difference between `MustPass` and `MayPass`. `pair` is where the two loops over
the anchors stand, `Successor` the next of them; `queue` and `visited` are those
of `bfs_path`. The results are any order of what
was found, since scores are not modelled.

### Session and Bridge

`client[c]` is a `Client`, `inbox[c]` and `wire[c]` are the two directions of its
stream, `loop[c]` is the daemon's end: running and finished request tasks, the
event receiver (the number of the next event), and where a Subscribe stands that
must still replay its snapshot. `Timeout` leaves everything on the wire. Events
are numbered; `told[c]` is what the stream has accounted for. `Die` and `Start`
are the daemon's, with frames already written still readable.

`Bridge` adds the bridge process: start (`BootMint`, `BootSend`, `BootDone`, or
`BootPlain`), one HTTP request per handler (`Arrive`, `HttpConnect`, `HttpSend`,
`AuthDone`, `CallDone`, `HttpEnd`, `HttpGone`), and the daemon's handlers behind
it (`HandleMint`, `HandleValidate`, `HandleCall`). Every exchange is a fresh
client of `Session`, with all that can happen to one. `effects` counts what the
request did to the daemon's data.

### Embeddings

A vector is the pair of the model and the canonical text it was made from.
`Lookup`, `CallProvider`, `InsertCache` are the steps of `CachedEmbeddings::embed`,
with nothing locked in between; `UseStore`, `UseSearch` what follows. A search
scores the candidates (`direct`) and then, hop by hop, what links lead to (`Expand`,
`linked`): the candidates are chosen by provider and model, the linked rows by the
length of their vector only, so a model has a dimension (`Dim`). The triggers are part of the statements that fire them. `Restart` picks the other
model. `Canonicalise` is the algorithm of `canonical.rs` on sequences of
characters; its normal form and idempotence are an assumption of `MCEmbeddings`
that TLC evaluates on every text of up to five characters.

## 3. Runs

State counts are distinct states; times are with two workers.

| Run | Instance | Checks | Size |
|---|---|---|---|
| `lifecycle_rows` | 2 memories, 2 requests; store, search, link, unlink, tick, delete; both bands; restarts with and without LLM | `ReferentialIntegrity`, `ContradictionsAcyclic` | 719 000, 3 min |
| `lifecycle_cold` | 1 memory, 2 requests, 2 days; every request that changes hot / cold / stub, disconnects, restarts | `TypeOK`, `ColdFlagsAgree`, `EmbeddedUnlessStub` | 104 000, 25 s |
| `lifecycle_ticks` | 2 memories, 2 ticks, batches and groups of 1, both judges, deletes | `SuccessorKnown`, `ImplementsMemoryLife`, `QueueDrains` | 46 000, 40 s |
| `server` | 2 connections, 1 permit; a query, a shutdown request and a subscription whose frame may be damaged; clients that leave, Ctrl-C, drain deadline | `TypeOK`, `PermitsConserved`, `GracefulDrain`, `Settled`, `ShutdownStops` | 154 000, 2 min |
| `runtime` | 3 processes, 1 operator, all commands, 2 migrations of 2 statements, 2 kills at any step, 1 hasty step | `TypeOK`, `SchemaComplete`, `FilesOwned`, `Recovers` | 421 000, 70 s |
| `associations` | 3 memories, batches of 3, 2 requests at a time, 3 in all; every request that writes a strength, deletes, disconnects | `TypeOK`, `BatchLinked`, `NothingUnearned`, `UndatedIsTag` | 1 550 000, 2.5 min |
| `traversal` | 4 memories, every graph of the scenarios, one change between any two queries | `TypeOK`, `ChainsSound`, `ShortestWhenStill`, `OneQueryEach`, `ExpansionBounded` | 3 000 000, 100 s |
| `session` | 1 client with 3 requests, 3 events in a channel of 1; or the bridge with 2 starts, 2 tokens and 2 HTTP requests; 1 restart of the daemon | `BridgeTypeOK`, `OwnAnswer`, `MismatchNeedsTimeout`, `NothingMissed`, `StatusMatchesEffect`, `RefusalJustified` | 1 800 000, 90 s |
| `embeddings` | 2 memories, 2 requests, 2 spellings of a text, 2 models, any number of restarts | `TypeOK`, `VectorsTrue`, `OneSpaceCompared`, `IndexExact`, `CallsCease` | 76 000, 70 s |
| `restored_archived`, `second_daemon`, `migration_replay` | minimal | one documented claim each, which TLC refutes (section 6) | |

Why the bounds are enough for the cases that matter:

* Two requests are what a stale read needs: one that holds the copy and one that
  changes the row. Invariants over a single row (`lifecycle_cold`) need one
  memory; edges, queued pairs, two memories that lose to each other and a summary
  with its original need two. Longer cycles of verdicts and larger groups are
  beyond these instances. The theorems of section 5 remove the bounds for every
  safety property of the passing runs.
* `ConflictBatch` is 1 in `lifecycle_ticks`, so that a batch is smaller than the
  queue (two stores that find each other queue two pairs). Ids are not used again,
  so arrivals end and `QueueDrains` says nothing of an endless stream of more
  similar pairs (section 6); `ColdTTLDays` is 0 and `ColdMigrationDays` 1, so that migration and
  archival are reached in two ticks; `CoreAccessThreshold` is 1, so that one
  retrieval promotes.
* One permit is the smallest pool in which waiting happens; two connections are
  needed for one to wait for the other. No request of that run is bulk; the two
  pools share the code and `PermitsHold` covers both.
* Three process ids are enough for a daemon that drains, its successor and one more
  start, and for a pid that is reused. One operator reaches all overlaps of daemons,
  since Ctrl-C and expired waits free him early; two commands at once need two, and
  are covered by the theorem (as haste). One hasty step is enough to have two daemons
  remove each other's files, two kills to leave a socket and a pid file of different
  processes. Kills fall anywhere, also inside a migration and between truncating and
  writing the pid file; `Recovers` names those two as the exceptions (`Stuck`).
* `associations`: a stale read and an atomic addition to the same edge need two
  requests; one batch stores the memories, which leaves two requests to meet. A
  batch of three has pairs before and after the one its chain is at. `Full` = 3
  keeps the clamp within reach.
* `traversal`: on four memories there are bridges of one and of two intermediate
  memories and detours around them; `MaxDepth` = 2 makes the depth limit bite
  there (the code's 3 would need five memories). The three scenarios are bridges
  over every graph of up to five links, two hops over links of all kinds with a
  stub, and both together. `MinFrontier` = 1 makes hits below the frontier occur.
* `session`: a late response needs two requests, one that is late twice needs
  three; a channel of one event lags at the second. Direct clients and the bridge
  are explored apart (`Mixed` = FALSE): they share the daemon's restarts and
  nothing else that the properties speak of.
* `embeddings`: two spellings with one canonical form, which is what the key must
  identify; the two models a daemon can be started with, of dimensions 384 and 16, that replace
  each other any number of times. Models that share a dimension are covered by the
  theorem.

`CHECK_DEADLOCK FALSE` is set where a behaviour may really end: `server` (a
stopped daemon), `traversal` (a search that has returned), `associations` and
`session` (the bound on requests is used up).

## 4. Fairness

* `Lifecycle!FairSpec`: weak fairness for each task's next step (tokio polls
  every ready task; the writer pool is first come, first served), strong fairness for "some tick starts" (somebody, a scheduler or a
  client, keeps asking for ticks and is admitted although requests compete for
  the same slots). Nothing makes the clock advance or deletes happen, and stores come to an end. That a
  step follows an LLM call is an assumption about the provider: the HTTP clients
  of `llm` set no timeout, and a call that never returns inside
  `resolve_conflicts` keeps the writer connection (listed as a hazard).
  `lifecycle_ticks` has no disconnects: a client that always gives up before its
  tick commits keeps the queue full, a hazard that is listed with a note.
* `Server!FairSpec`: weak fairness of `DaemonStep` as a whole, i.e. the daemon
  does not stand still while one of its own steps is possible; the same
  assumption about providers applies to a handler's return. `ShutdownStops` does
  not lean on it, because the drain has a deadline. Clients, their Hello frame
  included, are not fair.
* `Runtime!FairSpec`: weak fairness for every process and CLI step (the drain
  inside `Drained` ends because of `ShutdownStops`), weak fairness of `Interrupt`
  (whoever runs a daemon in the foreground ends it some time), strong fairness for an
  operator running a command that needs the daemon; that is what `Recovers` is
  about, since nothing else restarts a dead daemon. Kills and haste are not fair.
* `Embeddings!FairSpec`: weak fairness for each request's next step or its end
  (tokio polls every ready task; the provider answers, fails, or its client
  gives up). Nothing makes requests arrive or the daemon restart.

## 5. Theorems

Every safety property that a passing run checks is the subject of a theorem, for
every value of the constants. The assumptions are the named `ASSUME`s of the
modules (distinct nulls, thresholds positive, sets of requests or memories
finite, scales between 0 and `Full`); TLC evaluates them on every run. Each
inductive invariant was checked with TLC on the instance of its run before it was
proved.

**LifecycleProofs.** `TypeCorrect` first, with one lemma per Store operator (what
it returns is a database) and one case per action. The safety invariants are not
inductive alone: a verdict written by a tick depends on the draft it
accumulated, and a row written from a stale copy depends on what that copy can
hold. The inductive invariant is

    IInv == TypeOK /\ Consistent(db, minted) /\ \A t : Carried(task[t], minted)

* `Consistent(d, M)` is about one database value: `Rows` (live rows were minted,
  flags only on live rows), `Edges` (no edge or queued pair without its ends),
  `Archival` (cold flag and date agree, no embedding lost without a stub),
  `Successors` (superseded and superseded_by agree and name something minted),
  `Verdicts` (losers are superseded; no set of losers is closed under "lost to").
* `Carried` says it of a tick's uncommitted draft, and that a summary held between
  its insert and the superseding was minted.

Each Store operator is shown once to preserve `Consistent` (`InsertConsistent`,
`DeleteConsistent`, ..., `JudgedConsistent`); `IInvStep` then has one case per
action. The argument for `Verdicts`: `resolve_conflicts` re-reads both rows in
its transaction and skips a pair if either is superseded, so a loser is given to
a winner that has lost nothing yet, and a new edge never closes a cycle.
Consequences: `IntegrityHolds`, `ColdFlagsHold`, `EmbeddingHolds`,
`SuccessorHolds`, `VerdictsAcyclic`, for any number of memories, tasks and days
and any batch size.

**RefinementProofs.** `LifeRefinement == Spec => ImplementsMemoryLife`. Besides
`IInv` it needs `OneWriter`: at most one transaction is open, and its draft
differs from `db` by verdicts only, each on a memory that had none. So the commit
is one `Judge` step of `MemoryLife`; every other action is `Born`, `Archive`,
`Forget`, `Supersede` or a stutter.

**ServerProofs.** `ServerTypeCorrect`; `PermitsHold`, where `Buffered` (a frame
in a buffer is of that connection, appears once, and its request has not begun)
is what keeps a request from taking two permits; `DrainIsGraceful`, an action
property, from `DrainInv` = `TypeOK`, `Buffered`, `Owned` (a request in progress
belongs to a connection past its handshake) and `GaveUp` (`can_send` is false only if
the client left).

**AssociationsProofs.** The three invariants speak of the tables; what breaks
them would be a value that a request computed from an old read. So the inductive
invariant adds `CarriedTrue`: a chain that is about to write carries at most what
its edge will have been given then (`Funded`: the reading may be old, but what an
edge was ever given only grows); every pair before the one a batch is at has been
linked both ways or was cut since (`Covered`); the stabilities that a search will
write are at most what their memories were given (`BoostsTrue`). `Grows` says that
no step takes anything back from the histories, so the claims of a request survive
the steps of the others.

**BridgeProofs.** The invariant of a connection, `ConnOK`, follows a request
through its places: inbox, running, finished, on the wire. It is in one place only
(`OnceAsked`, `OnceReplied`, `Apart`), ids are below `next` (`Issued`), on a
connection without a timeout only the awaited request is anywhere (`Awaited`), and
a request has its effect exactly when its handler has ended (`Done`). `OwnAnswer`,
`MismatchNeedsTimeout` and `NothingMissed` follow. On top of it `BInv` relates an
HTTP request to what its clients were told: `CallsTrue` (a call that can still run
has had no effect and nobody has been told that it had none), `RefusalsTrue`,
`TokensTrue` (a token that anybody holds is in the daemon's table with the scope
it is held for). For the reasons of a refusal `NInv` adds `Narrow`: a request answered
with 403 holds a token of a scope that does not suffice, because only the comparison
with the map, at arrival, gives that answer. Steps of `Session` that bring no new request or answer are `Calm`
and disturb none of it.

**EmbeddingsProofs.** `CacheTrue` (an entry is the vector of its key), `Carries`
(from the provider's answer on, a request holds the vector of its text under the
running model; a restart ends the requests), `RowsTrue` (a row names the model
of its vector) and `Gathered` (what a search has collected: direct vectors of the
query's model, linked ones of its dimension) make `VectorsTrue`, `OneSpaceCompared`
and `IndexExact` inductive. `OneSpaceHolds` is for any models and dimensions.

**RuntimeProofs.** All for any number of operators, processes and kills.
`SchemaHolds` is the positive side of `migration_replay`: a daemon that gets past
`Store::open` has every statement of every migration, because a statement that was
executed before fails the second time. `FilesOwnedHolds` is about histories without
haste; the inductive invariant is `HInv == haste = 0 => FInv`. Its parts: at most one
command is on its way and at most one daemon is unsettled (`Busy`, `Aimed`); where
daemons can be while a command is at a point (`Allowed`); a daemon which found nobody
listening or is going away is alone (`Alone`); the files are its own until it removes
them (`Named`). A start refused by the probe, a kill at any step, a lost Ctrl-C and a
pid that is in use again are cases of it. With haste the statement is false, as
`second_daemon` shows.

**TraversalProofs.** `TInv` describes every queued path as a `Walk`: simple, from
the first anchor, over marked memories, by edges that existed when they were read.
Hence `OneQueryHolds` and `ChainsSoundHolds`, whatever the graph does meanwhile.

`ShortestHolds` is the correctness of breadth-first search on a graph that stays.
The invariant `Layers` of the queue: lengths do not fall and differ by at most one
(`Ordered`), no walk to the end of a queued path is shorter than it (`Nearest`),
a marked memory that is no longer queued has only marked neighbours (`Swept`), and
all that is as near as the head of the queue is marked (`Covered`). When the head
reaches the depth limit it becomes `Hopeless`: the target is farther than that and
no queued path will be extended. `Exact` says it of the current pair and that the
pairs before it are connected by shortest chains; `Orderly` that the loops visit
the pairs in order. `LayersGrow` is the step, and the two places that would take
an induction over paths use the least-number principle (`LeastNumber`, from the
well-foundedness of the naturals).

`ExpansionHolds` has `Spread` in the same style: after h hops, what fresh links
lead to in h hops was found, what was found and left the frontier was expanded,
and everything found is that near. `MayPassStrong` is the argument about the
aggregate of `linked_for_many`. The distance (`Ball`) is defined by walks rather
than by recursion so that it can be reasoned about.

Only model-checked: the liveness properties `QueueDrains`, `Settled`,
`ShutdownStops`, `Recovers` and `CallsCease` (TLAPS does not prove liveness under
fairness), and what `Canonicalise` computes (a fold over a sequence: induction over
data is out of the provers' reach). The three violations of section 6 are
counterexamples and need no proof.

## 6. Disagreements between documentation and code

Each of the first three is the subject of a run that is expected to end in a
violation.

1. `restored_archived`: `daemon/handlers.rs` 821 says that any access restores a
   cold memory; one that a Get restored between pass 2's read and its write is
   archived although it is hot.
2. `second_daemon`: `ARCHITECTURE.md` 122 says a second daemon cannot delete the
   live socket. A daemon that drains for up to 5 s removes the socket file by
   path, which by then may be its successor's. One operator is enough: Ctrl-C on a
   foreground daemon returns the prompt at once, and the same command again starts
   the successor.
3. `migration_replay`: `ARCHITECTURE.md` 132 says a half-applied migration replays
   cleanly. Statements run outside a transaction and most of them are not
   idempotent, so the next start fails on the first one that was executed.

The others have no run of their own. The models have the code's behaviour, and the
property that comes nearest says what the code does guarantee.

* `ARCHITECTURE.md` 117 and 130 say that dead state is cleaned up and that recovery
  from a crash is invisible. `write_pid_file` (`server.rs` 600) truncates before it
  writes; a kill in between leaves an empty file, which `read_pid_file` (`cli/main.rs`
  1262) reports as an error to every later start. `Recovers` has the exception
  `Stuck`.
* `embeddings/lib.rs` 61-63: two agents asking for the same text "pay one provider
  call across the whole daemon lifetime". Requests that miss the cache together pay
  one each; `CallsCease` says that the calls end.
* `docs/concepts/embedding-strategy.md` 53 lists NFC and lower-casing as part of the
  canonical form; `canonical.rs` trims and collapses white space only.
* `docs/concepts/embedding-strategy.md` 70: "Searches only compare embeddings from the
  same `(provider, model)` slice". Graph expansion (`searcher.rs` 339) and the
  grouping of fading memories (`handlers.rs` 1550) compare whatever agrees in
  dimension. `OneSpaceCompared` claims it for direct hits, and for linked ones where
  dimensions tell the models apart.
* `docs/concepts/http-bridge.md` 128-137 gives 401 for a missing, invalid or expired
  token, 403 for an insufficient scope, 500 for a storage error. The bridge answers
  401 to whatever error the daemon's validation returns (`http-bridge/lib.rs`
  322-324), an unreadable table and a narrow scope included, and 500 to every error of
  the request itself (358-365): 404, 409, 429 and 503 are never sent, and 400 only
  for a missing Host header or a malformed body. `RefusalJustified` states
  the code's reasons for 401 and 403.
* `SECURITY.md` 54 and 56: expired tokens get 401, and daemon-minted tokens are
  validated with the daemon on each request. The token the bridge minted at its start
  is accepted from its own map (`http-bridge/lib.rs` 274-276), also after it expired.
* `repos.rs` 867-870 and 884-887: `last_co_retrieval` is None only for edges older than
  migration 5. Every synaptic tag is inserted without it (`handlers.rs` 536-545) and
  does not decay until something else strengthens it. `UndatedIsTag` bounds its
  weight.
* `handlers.rs` 1329: "the queue drains regardless of resolver choice". A tick takes 50
  pairs by descending similarity (1335), so a steady stream of more similar pairs can
  keep one queued; `QueueDrains` is for stores that end.
* `handlers.rs` 1211 calls core memories exempt from migration to cold; one that became
  core after pass 1 read it may be migrated.
* `repos.rs` 781 says stubs stay hidden; graph expansion returns a stub that kept its
  embedding.
* A subscriber may be told `replay_snapshot_sent` although the snapshot query failed
  (`server.rs` 340).

## 7. Plan

Modelled: every component that has state of its own and every request that
changes it. Proved: every safety property of the passing runs. What is left:

1. `Runtime`: what one hasty step can cost. `FilesOwned` fails only through a daemon
   that drains while another starts, or through two commands at once; a theorem that
   names the step would bound the damage that `second_daemon` shows.
2. Action properties that no run states yet: which steps may end a subscription
   (`Session`), and which may lower a weight (`Associations`).
3. The steps of the liveness arguments that are safety properties: the measure
   that each `DaemonStep` of a shutdown lowers, and that a tick's commit never
   leaves the conflict queue longer than it found it.

## 8. Not modelled

* Scores: cosine similarity, the retention curve, rank fusion (`hybrid.rs`) and the
  reordering of hybrid search are floating-point functions without state; where
  their outcome decides what happens it is a nondeterministic choice.
* `TokenBucket`, `CachedExtractor` (`llm`), the `graph` crate, `record_access` and
  the event table are constructed or called by tests only.
* Protocol types and codec: serde derivations and length-prefixed framing; the
  models keep ids, kinds and order of frames and that a frame may fail to decode.
* A client that stays connected and does not read: `sink.send` then blocks its
  connection until the drain deadline; sends are taken to succeed.
* Paths, configuration, logging, file permissions: read or set once at start.
* Doctor and the trace ring: diagnostics that nothing else reads.
* List, GetLinked, GetLinkedMany, VectorSearch, SearchLexical, FindFading,
  FindStable, Counts, Status and RecentTraces: requests that only read.
* The CLI's other commands: one request each, and formatting.
* HTTP calls to providers: external; their result is a nondeterministic choice.
