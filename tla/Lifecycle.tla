----------------------------- MODULE Lifecycle -----------------------------
(***************************************************************************)
(* The memory and lifecycle requests of the daemon (daemon/handlers.rs)    *)
(* running concurrently over one store.                                    *)
(*                                                                         *)
(* The store has one writer connection and a pool of readers, so a write   *)
(* transaction is one atomic step, a read is another, and every other      *)
(* request may run in between.  What a handler read is kept in its task's  *)
(* record until it writes: that copy may be stale.  The one transaction    *)
(* that waits for something outside the database, conflict resolution      *)
(* asking the LLM, is a sequence of steps: its task holds the uncommitted  *)
(* tables, the others read the committed ones and no other write starts.   *)
(* A task disappears when its handler returns, when its client disconnects *)
(* (the connection drops its JoinSet) and when the daemon dies; an open    *)
(* transaction is rolled back.                                             *)
(***************************************************************************)
EXTENDS Store, Sequences, FiniteSets, Functions

CONSTANTS
    Tasks,               \* requests that may be in flight together
    Ops,                 \* the requests the clients issue
    Categories,          \* the categories of the memories they store
    Bands,               \* similarity bands that the stored contents fall in
    LLMModes,            \* with or without an LLM: what a start may find configured
    ColdTTLDays,         \* COLD_TTL_DAYS: 180
    ConflictBatch,       \* CONFLICT_RESOLUTION_BATCH: 50
    GroupSize,           \* CONSOLIDATION_GROUP_SIZE: 5
    MaxPerTick,          \* CONSOLIDATION_MAX_PER_TICK: 5
    MaxNow               \* bound on the clock

ConsolidationThreshold == 20    \* CONSOLIDATION_RETENTION_THRESHOLD, percent

AllOps == {"store", "get", "search", "tick", "update", "retention", "batch_update",
           "delete", "clear", "link", "unlink", "supersede", "to_cold", "to_hot", "to_stub",
           "disconnect", "restart"}

ASSUME LifecycleAssumption ==
    /\ Ops \subseteq AllOps
    /\ Categories \subseteq {"core", "other"}
    /\ Bands \subseteq {"conflict", "tag"}
    /\ LLMModes \subseteq BOOLEAN
    /\ {ColdTTLDays, MaxNow} \subseteq Nat
    /\ {ConflictBatch, GroupSize, MaxPerTick} \subseteq Nat \ {0}

VARIABLES
    db,        \* the committed tables
    minted,    \* every id handed out so far: ulid::Ulid::new never repeats
    now,       \* unix_now, in days
    llm,       \* state.llm.is_some()
    task       \* what each request in flight has read and does next

vars == <<db, minted, now, llm, task>>

Idle == [pc |-> "idle"]

\* The stages of a request, named after the step that comes next.
TaskState ==
    {Idle}
    \cup [pc : {"store_search"}, new : Id]
    \cup [pc : {"store_queue"}, new : Id, conflict : SUBSET Id, tagged : SUBSET Id]
    \cup [pc : {"get_restore"}, cold : SUBSET Id]
    \cup [pc : {"search_find_cold", "search_read_rows"}, now : Nat, hits : SUBSET Id]
    \cup [pc : {"search_restore"}, now : Nat, hits : SUBSET Id, cold : SUBSET Id]
    \cup [pc : {"search_boost"}, now : Nat,
          hits : SUBSET Id, boost : SUBSET Id, promote : SUBSET Id]
    \cup [pc : {"search_promote"}, hits : SUBSET Id, promote : SUBSET Id]
    \cup [pc : {"search_link"}, hits : SUBSET Id]
    \cup [pc : {"tick_migrate"}, now : Nat,
          bump : SUBSET Id, reset : SUBSET Id, cold : SUBSET Id]
    \cup [pc : {"tick_read_cold", "tick_read_queue", "tick_read_fading"}, now : Nat]
    \cup [pc : {"tick_stub"}, now : Nat, expired : SUBSET Id]
    \cup [pc : {"tick_begin"}, now : Nat, pairs : Seq(Id \X Id)]
    \cup [pc : {"tick_judge"}, now : Nat, pairs : Seq(Id \X Id), draft : Database]
    \cup [pc : {"tick_compress"}, now : Nat, fading : SUBSET Id, core : SUBSET Id, made : Nat]
    \cup [pc : {"tick_supersede"}, now : Nat, fading : SUBSET Id, core : SUBSET Id,
          made : Nat, group : SUBSET Id, summary : Id]

TypeOK ==
    /\ db \in Database
    /\ minted \subseteq Id
    /\ now \in Nat
    /\ llm \in BOOLEAN
    /\ task \in [Tasks -> TaskState]

Init ==
    /\ db = Empty
    /\ minted = {}
    /\ now = 0
    /\ llm \in LLMModes
    /\ task = [t \in Tasks |-> Idle]

At(t, pc) == task[t].pc = pc
Goto(t, s) == task' = [task EXCEPT ![t] = s]
Starts(t, op) == op \in Ops /\ task[t] = Idle

\* Mutant: the writer pool has more than one connection.
WriterShared == TRUE

\* The single connection of the writer pool is not in use.
WriterFree == \A t \in Tasks : ~At(t, "tick_judge")

\* A write transaction on the writer connection.
Commit(d) == WriterFree /\ db' = d

-----------------------------------------------------------------------------
(* Memory::Store: insert, search for similar memories, then one            *)
(* transaction that queues conflicts and tags neighbours.  The second      *)
(* write fails as a whole when a hit was deleted after the search; the     *)
(* memory itself stays stored.                                             *)

StoreInsert(t) ==
    /\ Starts(t, "store")
    /\ \E id \in Id \ minted, cat \in Categories, imp \in Importances :
          /\ Commit(Insert(db, id, cat, imp, now))
          /\ minted' = minted \cup {id}
          /\ Goto(t, [pc |-> "store_search", new |-> id])
    /\ UNCHANGED <<now, llm>>

\* The similarity bands split the hits; only the two bands that write
\* rows of other tables are told apart.
StoreSearch(t) ==
    /\ At(t, "store_search")
    /\ LET hits == CandidatesForSearch(db, FALSE) \ {task[t].new}
       IN  \E C \in SUBSET hits, G \in SUBSET hits :
              /\ C \cap G = {}
              /\ C # {} => "conflict" \in Bands
              /\ G # {} => "tag" \in Bands
              /\ Goto(t, [pc |-> "store_queue", new |-> task[t].new,
                          conflict |-> C, tagged |-> G])
    /\ UNCHANGED <<db, minted, now, llm>>

StoreQueue(t) ==
    /\ At(t, "store_queue")
    /\ LET pairs == {<<task[t].new, h>> : h \in task[t].conflict}
           links == LinksOf(task[t].new, task[t].tagged)
       IN  \/ /\ ForeignKeysHold(db, pairs \cup links)
              /\ Commit(Associate(Enqueue(db, pairs), links))
           \/ /\ ~ForeignKeysHold(db, pairs \cup links)
              /\ Commit(db)
    /\ Goto(t, Idle)
    /\ UNCHANGED <<minted, now, llm>>

-----------------------------------------------------------------------------
(* Memory::Get and GetMany: a cold memory that is read is restored.        *)

GetRead(t) ==
    /\ Starts(t, "get")
    /\ \E S \in SUBSET db.live :
          /\ S \cap db.cold # {}
          /\ Goto(t, [pc |-> "get_restore", cold |-> S \cap db.cold])
    /\ UNCHANGED <<db, minted, now, llm>>

GetRestore(t) ==
    /\ At(t, "get_restore")
    /\ Commit(MigrateToHot(db, task[t].cold))
    /\ Goto(t, Idle)
    /\ UNCHANGED <<minted, now, llm>>

-----------------------------------------------------------------------------
(* Memory::Search: rank, restore cold hits (deep recall only), boost,      *)
(* promote, strengthen the edges between the hits.                         *)

\* expand_via_graph from the direct hits: the request says how many hops,
\* and two reach whatever is linked among the few memories of an instance.
Expand(d, S) == S \cup LinkedFor(d, S) \cup LinkedFor(d, LinkedFor(d, S))

\* What a search may return: scores and the limit pick any subset.
Reachable(d, deep) == Expand(d, CandidatesForSearch(d, deep))

SearchQuery(t) ==
    /\ Starts(t, "search")
    /\ \E deep \in BOOLEAN : \E H \in SUBSET Reachable(db, deep) \ {{}} :
          Goto(t, [pc |-> IF deep THEN "search_find_cold" ELSE "search_read_rows",
                   now |-> now, hits |-> H])
    /\ UNCHANGED <<db, minted, now, llm>>

SearchFindCold(t) ==
    /\ At(t, "search_find_cold")
    /\ LET s == task[t]
       IN  \/ /\ s.hits \cap db.cold # {}
              /\ Goto(t, [pc |-> "search_restore", now |-> s.now, hits |-> s.hits,
                          cold |-> s.hits \cap db.cold])
           \/ /\ s.hits \cap db.cold = {}
              /\ Goto(t, [pc |-> "search_read_rows", now |-> s.now, hits |-> s.hits])
    /\ UNCHANGED <<db, minted, now, llm>>

SearchRestore(t) ==
    /\ At(t, "search_restore")
    /\ Commit(MigrateToHot(db, task[t].cold))
    /\ Goto(t, [pc |-> "search_read_rows", now |-> task[t].now, hits |-> task[t].hits])
    /\ UNCHANGED <<minted, now, llm>>

\* After the boosts: pairs of hits are strengthened when there are two.
AfterBoost(H) ==
    IF AllPairs(H) = {} THEN Idle ELSE [pc |-> "search_link", hits |-> H]

\* apply_post_retrieval_strengthening, up to its first write.  The gate on
\* stability is any subset of the rows that pass the gate on accesses.
SearchReadRows(t) ==
    /\ At(t, "search_read_rows")
    /\ LET H == task[t].hits
           boost == (H \cap db.live) \ db.stub
           eligible == {i \in boost \ db.core : db.accesses[i] + 1 >= CoreAccessThreshold}
       IN  \/ /\ boost = {}
              /\ Goto(t, AfterBoost(H))
           \/ /\ boost # {}
              /\ \E P \in SUBSET eligible :
                    Goto(t, [pc |-> "search_boost", now |-> task[t].now, hits |-> H,
                             boost |-> boost, promote |-> P])
    /\ UNCHANGED <<db, minted, now, llm>>

SearchBoost(t) ==
    /\ At(t, "search_boost")
    /\ Commit(ApplyDirectBoost(db, task[t].boost, task[t].now))
    /\ \/ /\ task[t].promote = {}
          /\ Goto(t, AfterBoost(task[t].hits))
       \/ /\ task[t].promote # {}
          /\ Goto(t, [pc |-> "search_promote", hits |-> task[t].hits,
                      promote |-> task[t].promote])
    /\ UNCHANGED <<minted, now, llm>>

SearchPromote(t) ==
    /\ At(t, "search_promote")
    /\ Commit(PromoteToCore(db, task[t].promote))
    /\ Goto(t, AfterBoost(task[t].hits))
    /\ UNCHANGED <<minted, now, llm>>

\* strengthen_pairs: one transaction, lost as a whole if a hit is gone.
SearchLink(t) ==
    /\ At(t, "search_link")
    /\ LET pairs == AllPairs(task[t].hits)
       IN  \/ /\ ForeignKeysHold(db, pairs)
              /\ Commit(Associate(db, pairs))
           \/ /\ ~ForeignKeysHold(db, pairs)
              /\ Commit(db)
    /\ Goto(t, Idle)
    /\ UNCHANGED <<minted, now, llm>>

-----------------------------------------------------------------------------
(* Lifecycle::Tick, pass 1: the at-floor counter and cold migration.       *)

\* A memory's retention is 1 at its last access and decays at a rate left
\* open: it may be at a positive floor at any later time (and at once when
\* the floor is 1), and below the threshold of pass 4 unless the floor holds
\* it up.
MayBeAtFloor(d, at) ==
    {i \in Hot(d) : d.floor[i] > 0 /\ (d.accessed[i] < at \/ d.floor[i] = 100)}

MayBeFading(d, at) ==
    {i \in Hot(d) \cap d.embedded : d.floor[i] < ConsolidationThreshold /\ d.accessed[i] < at}

TickReadHot(t) ==
    /\ Starts(t, "tick")
    /\ \E A \in SUBSET MayBeAtFloor(db, now) :
          Goto(t, [pc    |-> "tick_migrate", now |-> now,
                   bump  |-> A,
                   reset |-> {i \in Hot(db) \ A : db.days[i] > 0},
                   cold  |-> {i \in A \ db.core : db.days[i] + 1 >= ColdMigrationDays}])
    /\ UNCHANGED <<db, minted, now, llm>>

MigratePass(d, s) ==
    LET counted == Bump(d.days, s.bump \cap d.live, ColdMigrationDays)
    IN  MigrateToCold([d EXCEPT !.days = Put(counted, s.reset, 0)], s.cold, s.now)

TickMigrate(t) ==
    /\ At(t, "tick_migrate")
    /\ Commit(MigratePass(db, task[t]))
    /\ Goto(t, [pc |-> "tick_read_cold", now |-> task[t].now])
    /\ UNCHANGED <<minted, now, llm>>

(* Pass 2: cold rows past their TTL become stubs.                          *)

Expired(d, at) ==
    {i \in d.cold \ (d.stub \cup d.core) :
        d.coldSince[i] # NoTime /\ d.coldSince[i] < at - ColdTTLDays}

TickReadCold(t) ==
    /\ At(t, "tick_read_cold")
    /\ Goto(t, [pc |-> "tick_stub", now |-> task[t].now,
                expired |-> Expired(db, task[t].now)])
    /\ UNCHANGED <<db, minted, now, llm>>

\* Mutant: the flag is set where the row is still cold, the embedding goes anyway.
ArchivePassHalfRechecked(d, S) ==
    [d EXCEPT !.stub = d.stub \cup (S \cap d.cold), !.embedded = d.embedded \ S]

ArchivePass(d, S) ==
    [d EXCEPT !.stub = d.stub \cup (S \cap d.live), !.embedded = d.embedded \ S]

TickStub(t) ==
    /\ At(t, "tick_stub")
    /\ Commit(ArchivePass(db, task[t].expired))
    /\ Goto(t, [pc |-> "tick_read_queue", now |-> task[t].now])
    /\ UNCHANGED <<minted, now, llm>>

(* Pass 3: conflict resolution.                                            *)

\* Consolidation is skipped without an LLM.
AfterResolve(at) == IF llm THEN [pc |-> "tick_read_fading", now |-> at] ELSE Idle

\* ORDER BY similarity DESC LIMIT ConflictBatch: the similarities are any.
Batches(d) ==
    {s \in UNION {[1..n -> d.queue] : n \in 1..ConflictBatch} :
        IsInjective(s) /\ (Len(s) = ConflictBatch \/ Range(s) = d.queue)}

TickReadQueue(t) ==
    /\ At(t, "tick_read_queue")
    /\ \/ /\ db.queue = {}
          /\ Goto(t, AfterResolve(task[t].now))
       \/ /\ db.queue # {}
          /\ \E s \in Batches(db) :
                Goto(t, [pc |-> "tick_begin", now |-> task[t].now, pairs |-> s])
    /\ UNCHANGED <<db, minted, now, llm>>

\* The transaction of the batch: it keeps the writer connection while the
\* judge is asked about one pair after the other.
TickBegin(t) ==
    /\ At(t, "tick_begin")
    /\ WriterFree
    /\ Goto(t, [pc |-> "tick_judge", now |-> task[t].now, pairs |-> task[t].pairs, draft |-> db])
    /\ UNCHANGED <<db, minted, now, llm>>

\* The heuristic compares importance and then recency.
NewWins(d, p) ==
    \/ d.importance[p[1]] > d.importance[p[2]]
    \/ d.importance[p[1]] = d.importance[p[2]] /\ d.created[p[1]] > d.created[p[2]]

\* The loser is superseded, and demoted if it is core.
Judged(d, loser, winner) ==
    [d EXCEPT !.superseded = d.superseded \cup {loser},
              !.supersededBy = Put(d.supersededBy, {loser}, winner),
              !.contradictedBy = Put(d.contradictedBy, {loser}, winner),
              !.floor = Put(d.floor, {loser} \cap d.core, 0),
              !.core = d.core \ {loser}]

\* Mutant: the refetched rows only have to exist.
OutcomesOfLive(d, p) ==
    IF ~({p[1], p[2]} \subseteq d.live) THEN {d} ELSE {d, Judged(d, p[2], p[1])}

\* What may become of a pair.  Both rows are refetched: unless they exist
\* and neither is superseded, nothing happens.  The judge may answer
\* CONTRADICTION or UPDATE, which lets the new memory win, or OVERLAP or
\* NONE, or fail; without an LLM the heuristic decides.
Outcomes(d, p) ==
    LET best == IF d.importance[p[2]] > d.importance[p[1]]
                THEN d.importance[p[2]] ELSE d.importance[p[1]]
    IN  IF ~({p[1], p[2]} \subseteq d.live \ d.superseded) THEN {d}
        ELSE IF llm
             THEN {d, Judged(d, p[2], p[1]),
                   Judged(SetImportance(d, {p[1]}, best), p[2], p[1])}
             ELSE IF NewWins(d, p) THEN {Judged(d, p[2], p[1])} ELSE {Judged(d, p[1], p[2])}

Dequeue(d, p) == [d EXCEPT !.queue = d.queue \ {p}]

\* Mutant: only a pair with a verdict leaves the queue.
TickJudgeKeepingUndecided(t) ==
    /\ At(t, "tick_judge")
    /\ task[t].pairs # <<>>
    /\ LET p == Head(task[t].pairs)
       IN  \E d \in Outcomes(task[t].draft, p) :
              Goto(t, [pc |-> "tick_judge", now |-> task[t].now, pairs |-> Tail(task[t].pairs),
                       draft |-> IF d = task[t].draft THEN d ELSE Dequeue(d, p)])
    /\ UNCHANGED <<db, minted, now, llm>>

\* Whatever became of it, the pair leaves the queue.
TickJudge(t) ==
    /\ At(t, "tick_judge")
    /\ task[t].pairs # <<>>
    /\ LET p == Head(task[t].pairs)
       IN  \E d \in Outcomes(task[t].draft, p) :
              Goto(t, [pc |-> "tick_judge", now |-> task[t].now, pairs |-> Tail(task[t].pairs),
                       draft |-> Dequeue(d, p)])
    /\ UNCHANGED <<db, minted, now, llm>>

TickCommit(t) ==
    /\ At(t, "tick_judge")
    /\ task[t].pairs = <<>>
    /\ db' = task[t].draft
    /\ Goto(t, AfterResolve(task[t].now))
    /\ UNCHANGED <<minted, now, llm>>

(* Pass 4: consolidation of fading memories, one cluster after the other.  *)

TickReadFading(t) ==
    /\ At(t, "tick_read_fading")
    /\ \E F \in SUBSET MayBeFading(db, task[t].now) :
          Goto(t, [pc |-> "tick_compress", now |-> task[t].now,
                   fading |-> F, core |-> F \cap db.core, made |-> 0])
    /\ UNCHANGED <<db, minted, now, llm>>

\* Mutant: the originals are superseded before the summary is stored.
TickCompressOriginalsFirst(t) ==
    /\ At(t, "tick_compress")
    /\ \E G \in SUBSET task[t].fading, id \in Id \ minted :
          /\ Cardinality(G) = GroupSize
          /\ Commit(MarkSuperseded(db, G, id))
          /\ Goto(t, [pc |-> "tick_supersede", now |-> task[t].now,
                      fading |-> task[t].fading, core |-> task[t].core,
                      made |-> task[t].made, group |-> G, summary |-> id])
    /\ UNCHANGED <<minted, now, llm>>

\* The summary is inserted by a write of its own.  Its importance is the
\* largest the group had when it was read: any, since rows change meanwhile.
TickCompress(t) ==
    /\ At(t, "tick_compress")
    /\ \E G \in SUBSET task[t].fading, id \in Id \ minted, imp \in Importances :
          /\ Cardinality(G) = GroupSize
          /\ G \subseteq task[t].core \/ G \cap task[t].core = {}
          /\ Commit(Insert(db, id, IF G \subseteq task[t].core THEN "core" ELSE "other",
                           imp, task[t].now))
          /\ minted' = minted \cup {id}
          /\ Goto(t, [pc |-> "tick_supersede", now |-> task[t].now,
                      fading |-> task[t].fading, core |-> task[t].core,
                      made |-> task[t].made, group |-> G, summary |-> id])
    /\ UNCHANGED <<now, llm>>

TickSupersede(t) ==
    /\ At(t, "tick_supersede")
    /\ LET s == task[t]
       IN  /\ Commit(MigrateToCold(MarkSuperseded(db, s.group, s.summary), s.group, s.now))
           /\ Goto(t, IF s.made + 1 >= MaxPerTick THEN Idle
                      ELSE [pc |-> "tick_compress", now |-> s.now, fading |-> s.fading \ s.group,
                            core |-> s.core, made |-> s.made + 1])
    /\ UNCHANGED <<minted, now, llm>>

\* No further cluster is similar enough, or the LLM fails and the tick
\* returns its error.
TickEnd(t) ==
    /\ At(t, "tick_compress")
    /\ Goto(t, Idle)
    /\ UNCHANGED <<db, minted, now, llm>>

-----------------------------------------------------------------------------
(* Requests that are a single write.                                       *)

Write(op, d) == op \in Ops /\ Commit(d) /\ UNCHANGED <<minted, now, llm, task>>

\* Each column of the update is optional.
Update ==
    \E i \in db.live, cat \in {"core", "other"}, f \in Floors, imp \in Importances :
        \E d1 \in {db, SetCategory(db, {i}, cat)} :
        \E d2 \in {d1, SetFloor(d1, {i}, f)} :
        \E d3 \in {d2, SetImportance(d2, {i}, imp)} : Write("update", d3)

UpdateRetention == \E i \in db.live, f \in Floors : Write("retention", SetFloor(db, {i}, f))

\* update_retention_scores: a floor per id, in one transaction.
BatchUpdate ==
    \E S \in SUBSET db.live : \E g \in [S -> Floors] :
        Write("batch_update",
              [db EXCEPT !.floor = [i \in Id |-> IF i \in S THEN g[i] ELSE db.floor[i]]])

\* Delete, DeleteMany
DeleteMany == \E S \in SUBSET db.live \ {{}} : Write("delete", Delete(db, S))

Clear == Write("clear", Delete(db, db.live))

\* One direction of an edge; a bidirectional link is two writes.  The ids
\* are the client's: one that was deleted breaks the foreign key.
Link ==
    \E e \in minted \X minted :
        Write("link", IF ForeignKeysHold(db, {e}) THEN Associate(db, {e}) ELSE db)

\* One direction or both, in one statement.
Unlink ==
    \E i, j \in minted : \E E \in {{<<i, j>>}, LinksOf(i, {j})} :
        Write("unlink", Dissociate(db, E))

\* summary_id is not checked: it may name no memory at all.
Supersede ==
    \E S \in SUBSET db.live \ {{}}, by \in minted \cup {Foreign} :
        Write("supersede", MarkSuperseded(db, S, by))

\* cold_since is chosen by the client.
ToCold == \E i \in db.live, since \in 0..MaxNow : Write("to_cold", MigrateToCold(db, {i}, since))

ToHot == \E i \in db.live : Write("to_hot", MigrateToHot(db, {i}))

ToStub == \E i \in db.live : Write("to_stub", ConvertToStub(db, {i}))

\* The client of t disconnects: its task is aborted between two writes.
Disconnect(t) ==
    /\ "disconnect" \in Ops
    /\ task[t] # Idle
    /\ Goto(t, Idle)
    /\ UNCHANGED <<db, minted, now, llm>>

\* The stages whose next step needs the writer connection.
WriteStages == {"store_queue", "get_restore", "search_restore", "search_boost", "search_promote",
                "search_link", "tick_migrate", "tick_stub", "tick_begin", "tick_compress",
                "tick_supersede"}

\* The pool gives a request 30 s to get the connection; one that waits
\* longer returns the error and leaves its earlier writes behind.
AcquireTimeout(t) ==
    /\ task[t].pc \in WriteStages
    /\ ~WriterFree
    /\ Goto(t, Idle)
    /\ UNCHANGED <<db, minted, now, llm>>

\* The daemon dies and is started again, perhaps with another LLM setting.
Restart ==
    /\ "restart" \in Ops
    /\ task' = [t \in Tasks |-> Idle]
    /\ llm' \in LLMModes
    /\ UNCHANGED <<db, minted, now>>

\* Days pass between requests: none lasts as long (a client waits 120 s).
Advance ==
    /\ now < MaxNow
    /\ \A t \in Tasks : task[t] = Idle
    /\ now' = now + 1
    /\ UNCHANGED <<db, minted, llm, task>>

Step(t) ==
    \/ StoreSearch(t) \/ StoreQueue(t)
    \/ GetRestore(t)
    \/ SearchFindCold(t) \/ SearchRestore(t) \/ SearchReadRows(t)
    \/ SearchBoost(t) \/ SearchPromote(t) \/ SearchLink(t)
    \/ TickMigrate(t) \/ TickReadCold(t) \/ TickStub(t) \/ TickReadQueue(t)
    \/ TickBegin(t) \/ TickJudge(t) \/ TickCommit(t)
    \/ TickReadFading(t) \/ TickCompress(t) \/ TickSupersede(t) \/ TickEnd(t)

Start(t) == StoreInsert(t) \/ GetRead(t) \/ SearchQuery(t) \/ TickReadHot(t)

SingleWrite ==
    \/ Update \/ UpdateRetention \/ BatchUpdate
    \/ DeleteMany \/ Clear \/ Link \/ Unlink
    \/ Supersede \/ ToCold \/ ToHot \/ ToStub

Next ==
    \/ \E t \in Tasks : Start(t) \/ Step(t) \/ AcquireTimeout(t) \/ Disconnect(t)
    \/ SingleWrite
    \/ Restart
    \/ Advance

Spec == Init /\ [][Next]_vars

(* Fairness.  tokio runs every spawned task and the writer connection is   *)
(* handed out first come first served, so a request that is still there    *)
(* takes its next step, provided that the LLM answers (its HTTP client has *)
(* no timeout); somebody keeps asking for ticks and is admitted.           *)
FairSpec ==
    /\ Spec
    /\ \A t \in Tasks : WF_vars(Step(t))
    /\ SF_vars(\E t \in Tasks : TickReadHot(t))

-----------------------------------------------------------------------------
(* Invariants.                                                             *)

(* Every edge and every queued pair has two existing memories as its ends, *)
(* although a hit can be deleted between the search that found it and the  *)
(* transaction that writes the edge (queue_conflicts_for, strengthen_pairs)*)
(* and a delete can run while a pair waits for the tick.                   *)
ReferentialIntegrity ==
    ForeignKeysHold(db, db.assoc) /\ ForeignKeysHold(db, db.queue)

(* is_cold and cold_since agree in every reachable state: pass 2 of the    *)
(* tick only finds a cold memory by its cold_since, so a cold row without  *)
(* one would never expire, and a hot row with one would keep a stale date. *)
ColdFlagsAgree == \A i \in Id : i \in db.cold <=> db.coldSince[i] # NoTime

(* is_superseded and superseded_by agree, and the recorded successor was   *)
(* stored before: an original of compress_cluster is hidden only once its  *)
(* summary is in the table, even if the tick dies between the two writes.  *)
SuccessorKnown ==
    \A i \in Id : /\ i \in db.superseded <=> db.supersededBy[i] # NoId
                  /\ i \in db.superseded => db.supersededBy[i] \in minted \cup {Foreign}

(* A memory that is no stub keeps its embedding, so neither a tick nor any *)
(* race makes a full memory invisible to vector search for good.           *)
EmbeddedUnlessStub == db.live \subseteq db.embedded \cup db.stub

Contradicted == {i \in Id : db.contradictedBy[i] # NoId}

(* Conflict verdicts form no cycle, within one batch of resolve_conflicts  *)
(* and over concurrent ticks that read overlapping batches: every set of   *)
(* losers has one that lost to a memory outside the set.                   *)
ContradictionsAcyclic ==
    \A S \in SUBSET Contradicted : S # {} => \E i \in S : db.contradictedBy[i] \notin S

-----------------------------------------------------------------------------
(* Action properties.                                                      *)

Phase ==
    [i \in Id |-> IF i \in db.stub THEN "stub"
                  ELSE IF i \in db.live THEN "full"
                  ELSE IF i \in minted THEN "deleted" ELSE "unborn"]

Life == INSTANCE MemoryLife WITH
            phase <- Phase, superseded <- db.superseded, verdict <- db.contradictedBy

(* The daemon implements MemoryLife: no write from a stale read revives a  *)
(* deleted memory, clears a supersession or a stub, or changes the verdict *)
(* of a conflict that another tick already settled.                        *)
ImplementsMemoryLife == Life!LifeSpec

(* As long as ticks keep running and the stores that queue pairs come to   *)
(* an end (there are finitely many memories), every queued conflict leaves *)
(* the queue, although a pair may be read by two ticks, be left for a      *)
(* later batch, and lose its memories to a supersession or a delete first: *)
(* "every queued pair is dropped ... so the queue drains regardless"       *)
(* (handlers.rs 1329).  A steady stream of more similar pairs can keep a   *)
(* pair out of every batch (ORDER BY similarity DESC LIMIT, 1335); that is *)
(* not excluded by the code and not by this property.                      *)
QueueDrains == \A p \in Id \X Id : p \in db.queue ~> p \notin db.queue

(* handlers.rs 820: "Any access surfaces a cold memory and migrates it     *)
(* back to hot"; pass 2 archives what lived in cold storage too long       *)
(* (handlers.rs 1161), so never a memory that is hot at that moment.       *)
OnlyColdIsArchived ==
    [][\A t \in Tasks : At(t, "tick_stub") /\ ~At(t, "tick_stub")' =>
          db'.stub \ db.stub \subseteq db.cold]_vars
=============================================================================
