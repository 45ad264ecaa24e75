-------------------------- MODULE LifecycleProofs --------------------------
(***************************************************************************)
(* Proofs about Store and Lifecycle, for every choice of the constants.    *)
(***************************************************************************)
EXTENDS Lifecycle, TLAPS

USE StoreAssumption, LifecycleAssumption

-----------------------------------------------------------------------------
(* The repository operations keep the tables well typed.                   *)

(* An update of a column keeps its type.                                   *)
LEMMA PutType ==
  ASSUME NEW T, NEW f \in [Id -> T], NEW S, NEW v \in T
  PROVE  Put(f, S, v) \in [Id -> T]
  BY DEF Put

(* A counter that stops at its cap keeps its type.                         *)
LEMMA BumpType ==
  ASSUME NEW cap \in Nat, NEW f \in [Id -> 0..cap], NEW S
  PROVE  Bump(f, S, cap) \in [Id -> 0..cap]
  BY DEF Bump

(* The values that reset a column belong to its type.                      *)
LEMMA ZeroTypes ==
  /\ 0 \in Floors /\ CoreFloor \in Floors
  /\ 0 \in 0..CoreAccessThreshold
  /\ 0 \in 0..ColdMigrationDays
  OBVIOUS

(* The default importance of a row without one is an importance.           *)
LEMMA DefaultImportanceType == DefaultImportance \in Importances
  BY DEF DefaultImportance

(* The tables created by the migrations are well typed.                    *)
LEMMA EmptyType == Empty \in Database
  BY DefaultImportanceType DEF Empty, Database

(* MemoryRepo::insert keeps the tables well typed.                         *)
LEMMA InsertType ==
  ASSUME NEW d \in Database, NEW id \in Id, NEW cat, NEW imp \in Importances, NEW at \in Nat
  PROVE  Insert(d, id, cat, imp, at) \in Database
  <1> DEFINE e == Insert(d, id, cat, imp, at)
  <1>1. 0 \in Floors /\ 60 \in Floors
    BY DEF CoreFloor
  <1>2. /\ e.live \subseteq Id /\ e.core \subseteq Id /\ e.embedded \subseteq Id
        /\ e.floor \in [Id -> Floors] /\ e.importance \in [Id -> Importances]
        /\ e.created \in [Id -> Nat] /\ e.accessed \in [Id -> Nat]
    BY <1>1 DEF Insert, Database, CoreFloor, Put
  <1> QED BY <1>2 DEF Insert, Database, Put

(* MemoryRepo::delete_many keeps the tables well typed.                    *)
LEMMA DeleteType ==
  ASSUME NEW d \in Database, NEW S
  PROVE  Delete(d, S) \in Database
  <1>1. /\ Put(d.coldSince, S, NoTime) \in [Id -> Nat \cup {NoTime}]
        /\ Put(d.supersededBy, S, NoId) \in [Id -> Id \cup {NoId, Foreign}]
        /\ Put(d.contradictedBy, S, NoId) \in [Id -> Id \cup {NoId}]
        /\ Put(d.floor, S, 0) \in [Id -> Floors]
        /\ Put(d.importance, S, DefaultImportance) \in [Id -> Importances]
        /\ Put(d.created, S, 0) \in [Id -> Nat]
        /\ Put(d.accessed, S, 0) \in [Id -> Nat]
        /\ Put(d.accesses, S, 0) \in [Id -> 0..CoreAccessThreshold]
        /\ Put(d.days, S, 0) \in [Id -> 0..ColdMigrationDays]
    BY PutType, ZeroTypes, DefaultImportanceType DEF Database
  <1> QED BY <1>1 DEF Delete, Database

(* MemoryRepo::update keeps the tables well typed.                         *)
LEMMA UpdateType ==
  ASSUME NEW d \in Database, NEW S, NEW cat, NEW f \in Floors, NEW imp \in Importances
  PROVE  /\ SetCategory(d, S, cat) \in Database
         /\ SetFloor(d, S, f) \in Database
         /\ SetImportance(d, S, imp) \in Database
  <1>1. SetCategory(d, S, cat) \in Database
    BY DEF SetCategory, Database
  <1>2. SetFloor(d, S, f) \in Database
    BY DEF SetFloor, Database, Put
  <1>3. SetImportance(d, S, imp) \in Database
    BY DEF SetImportance, Database, Put
  <1> QED BY <1>1, <1>2, <1>3

(* Cold migration, restore and archival keep the tables well typed.        *)
LEMMA MigrationType ==
  ASSUME NEW d \in Database, NEW S, NEW since \in Nat
  PROVE  /\ MigrateToCold(d, S, since) \in Database
         /\ MigrateToHot(d, S) \in Database
         /\ ConvertToStub(d, S) \in Database
         /\ ArchivePass(d, S) \in Database
  <1>1. MigrateToCold(d, S, since) \in Database
    BY DEF MigrateToCold, Database, Put
  <1>2. MigrateToHot(d, S) \in Database
    <2>1. /\ Put(d.coldSince, S, NoTime) \in [Id -> Nat \cup {NoTime}]
          /\ Put(d.days, S, 0) \in [Id -> 0..ColdMigrationDays]
      BY PutType, ZeroTypes DEF Database
    <2> QED BY <2>1 DEF MigrateToHot, Database
  <1>3. ConvertToStub(d, S) \in Database
    BY DEF ConvertToStub, Database
  <1>4. ArchivePass(d, S) \in Database
    BY DEF ArchivePass, Database
  <1> QED BY <1>1, <1>2, <1>3, <1>4

(* Supersession, boost and promotion keep the tables well typed.           *)
LEMMA MarkType ==
  ASSUME NEW d \in Database, NEW S, NEW by \in Id \cup {Foreign}, NEW at \in Nat
  PROVE  /\ MarkSuperseded(d, S, by) \in Database
         /\ ApplyDirectBoost(d, S, at) \in Database
         /\ PromoteToCore(d, S) \in Database
  <1>1. MarkSuperseded(d, S, by) \in Database
    BY DEF MarkSuperseded, Database, Put
  <1>2. ApplyDirectBoost(d, S, at) \in Database
    <2>1. Bump(d.accesses, S \cap d.live, CoreAccessThreshold) \in [Id -> 0..CoreAccessThreshold]
      BY BumpType DEF Database
    <2> QED BY <2>1, PutType DEF ApplyDirectBoost, Database
  <1>3. PromoteToCore(d, S) \in Database
    BY ZeroTypes, PutType DEF PromoteToCore, Database
  <1> QED BY <1>1, <1>2, <1>3

(* Edges and queued pairs between ids keep the tables well typed.          *)
LEMMA EdgeType ==
  ASSUME NEW d \in Database, NEW E \in SUBSET (Id \X Id)
  PROVE  /\ Enqueue(d, E) \in Database
         /\ Associate(d, E) \in Database
         /\ Dissociate(d, E) \in Database
  BY DEF Enqueue, Associate, Dissociate, Database

(* Pass 1 of the tick keeps the tables well typed.                         *)
LEMMA MigratePassType ==
  ASSUME NEW d \in Database, NEW s, s.now \in Nat
  PROVE  MigratePass(d, s) \in Database
  <1> DEFINE counted == Bump(d.days, s.bump \cap d.live, ColdMigrationDays)
             e == [d EXCEPT !.days = Put(counted, s.reset, 0)]
  <1>1. counted \in [Id -> 0..ColdMigrationDays]
    BY BumpType DEF Database
  <1>2. Put(counted, s.reset, 0) \in [Id -> 0..ColdMigrationDays]
    BY <1>1, PutType, ZeroTypes
  <1>3. e \in Database
    BY <1>2 DEF Database
  <1> QED BY <1>3, MigrationType DEF MigratePass

(* A verdict of pass 3 keeps the tables well typed.                        *)
LEMMA JudgedType ==
  ASSUME NEW d \in Database, NEW loser \in Id, NEW winner \in Id
  PROVE  Judged(d, loser, winner) \in Database
  <1>1. /\ Put(d.supersededBy, {loser}, winner) \in [Id -> Id \cup {NoId, Foreign}]
        /\ Put(d.contradictedBy, {loser}, winner) \in [Id -> Id \cup {NoId}]
        /\ Put(d.floor, {loser} \cap d.core, 0) \in [Id -> Floors]
    BY PutType, ZeroTypes DEF Database
  <1> QED BY <1>1 DEF Judged, Database

(* Every outcome of a pair keeps the tables well typed.                    *)
LEMMA OutcomesType ==
  ASSUME NEW d \in Database, NEW p \in Id \X Id, NEW e \in Outcomes(d, p)
  PROVE  e \in Database /\ Dequeue(e, p) \in Database
  <1> DEFINE best == IF d.importance[p[2]] > d.importance[p[1]]
                     THEN d.importance[p[2]] ELSE d.importance[p[1]]
  <1>1. p[1] \in Id /\ p[2] \in Id
    OBVIOUS
  <1>2. best \in Importances
    BY <1>1 DEF Database
  <1>3. SetImportance(d, {p[1]}, best) \in Database
    BY <1>2, UpdateType, ZeroTypes
  <1>4. /\ Judged(d, p[2], p[1]) \in Database
        /\ Judged(d, p[1], p[2]) \in Database
        /\ Judged(SetImportance(d, {p[1]}, best), p[2], p[1]) \in Database
    BY <1>1, <1>3, JudgedType
  <1>5. e \in {d, Judged(d, p[2], p[1]), Judged(d, p[1], p[2]),
               Judged(SetImportance(d, {p[1]}, best), p[2], p[1])}
    BY Zenon DEF Outcomes
  <1>6. e \in Database
    BY <1>4, <1>5
  <1> QED BY <1>6 DEF Dequeue, Database

-----------------------------------------------------------------------------
(* Type correctness.                                                       *)

(* What a request in flight carries at each of its stages.                 *)
LEMMA StageFields ==
  ASSUME NEW s \in TaskState
  PROVE  /\ s.pc = "store_search" => s.new \in Id
         /\ s.pc = "store_queue" => s.new \in Id /\ s.conflict \subseteq Id /\ s.tagged \subseteq Id
         /\ s.pc = "get_restore" => s.cold \subseteq Id
         /\ s.pc \in {"search_find_cold", "search_read_rows"} => s.now \in Nat /\ s.hits \subseteq Id
         /\ s.pc = "search_restore" => s.now \in Nat /\ s.hits \subseteq Id /\ s.cold \subseteq Id
         /\ s.pc = "search_boost" =>
               s.now \in Nat /\ s.hits \subseteq Id /\ s.boost \subseteq Id /\ s.promote \subseteq Id
         /\ s.pc = "search_promote" => s.hits \subseteq Id /\ s.promote \subseteq Id
         /\ s.pc = "search_link" => s.hits \subseteq Id
         /\ s.pc = "tick_migrate" =>
               s.now \in Nat /\ s.bump \subseteq Id /\ s.reset \subseteq Id /\ s.cold \subseteq Id
         /\ s.pc \in {"tick_read_cold", "tick_read_queue", "tick_read_fading"} => s.now \in Nat
         /\ s.pc = "tick_stub" => s.now \in Nat /\ s.expired \subseteq Id
         /\ s.pc = "tick_begin" => s.now \in Nat /\ s.pairs \in Seq(Id \X Id)
         /\ s.pc = "tick_judge" =>
               s.now \in Nat /\ s.pairs \in Seq(Id \X Id) /\ s.draft \in Database
         /\ s.pc = "tick_compress" =>
               s.now \in Nat /\ s.fading \subseteq Id /\ s.core \subseteq Id /\ s.made \in Nat
         /\ s.pc = "tick_supersede" =>
               /\ s.now \in Nat /\ s.fading \subseteq Id /\ s.core \subseteq Id /\ s.made \in Nat
               /\ s.group \subseteq Id /\ s.summary \in Id
  BY DEF TaskState, Idle

(* A request that enters a well-typed stage leaves `task' well typed.      *)
LEMMA GotoType ==
  ASSUME task \in [Tasks -> TaskState], NEW t \in Tasks, NEW s \in TaskState, Goto(t, s)
  PROVE  task' \in [Tasks -> TaskState]
  BY DEF Goto

(* The reads of the store return ids.                                      *)
LEMMA ReadType ==
  ASSUME NEW d \in Database, NEW deep, NEW at
  PROVE  /\ Hot(d) \subseteq Id
         /\ CandidatesForSearch(d, deep) \subseteq Id
         /\ Reachable(d, deep) \subseteq Id
         /\ MayBeAtFloor(d, at) \subseteq Id
         /\ MayBeFading(d, at) \subseteq Id
         /\ Expired(d, at) \subseteq Id
  <1>1. Hot(d) \subseteq Id
    BY DEF Hot, Database
  <1>2. CandidatesForSearch(d, deep) \subseteq Id
    BY DEF CandidatesForSearch, Database
  <1>3. \A S : LinkedFor(d, S) \subseteq Id
    BY DEF LinkedFor, Database
  <1>4. Reachable(d, deep) \subseteq Id
    BY <1>2, <1>3 DEF Reachable, Expand
  <1>5. MayBeAtFloor(d, at) \subseteq Id
    BY <1>1 DEF MayBeAtFloor
  <1>6. MayBeFading(d, at) \subseteq Id
    BY <1>1 DEF MayBeFading
  <1>7. Expired(d, at) \subseteq Id
    BY DEF Expired, Database
  <1> QED BY <1>1, <1>2, <1>4, <1>5, <1>6, <1>7

(* A batch of pass 3 is a sequence of pairs of the queue.                  *)
LEMMA BatchType ==
  ASSUME NEW d \in Database, NEW s \in Batches(d)
  PROVE  s \in Seq(Id \X Id) /\ \A k \in DOMAIN s : s[k] \in d.queue
  <1>1. PICK n \in 1..ConflictBatch : s \in [1..n -> d.queue]
    BY DEF Batches
  <1>2. n \in Nat /\ d.queue \subseteq Id \X Id
    BY <1>1 DEF Database
  <1> QED BY <1>1, <1>2

(* The requests of handlers.rs keep the state well typed: no interleaving  *)
(* makes a handler write a value of another kind than its column holds.    *)
LEMMA TypeStep == TypeOK /\ [Next]_vars => TypeOK'
  <1> SUFFICES ASSUME TypeOK, [Next]_vars PROVE TypeOK'
    OBVIOUS
  <1> USE DEF TypeOK
  <1> DEFINE Typed == /\ db' \in Database /\ minted' \subseteq Id /\ now' \in Nat
                      /\ llm' \in BOOLEAN /\ task' \in [Tasks -> TaskState]
  <1>0. Idle \in TaskState
    BY DEF TaskState
  <1>a. \A H \in SUBSET Id : AfterBoost(H) \in TaskState
    BY DEF AfterBoost, TaskState
  <1>b. \A n \in Nat : AfterResolve(n) \in TaskState
    BY DEF AfterResolve, TaskState
  <1>1. ASSUME NEW t \in Tasks, StoreInsert(t) PROVE Typed
    <2>1. PICK id \in Id \ minted, cat \in Categories, imp \in Importances :
            /\ Commit(Insert(db, id, cat, imp, now))
            /\ minted' = minted \cup {id}
            /\ Goto(t, [pc |-> "store_search", new |-> id])
      BY <1>1 DEF StoreInsert
    <2>2. [pc |-> "store_search", new |-> id] \in TaskState
      BY DEF TaskState
    <2>3. db' \in Database
      BY <2>1, InsertType DEF Commit
    <2> QED BY <1>1, <2>1, <2>2, <2>3, GotoType DEF StoreInsert
  <1>2. ASSUME NEW t \in Tasks, StoreSearch(t) PROVE Typed
    <2>1. task[t].new \in Id
      BY <1>2, StageFields DEF StoreSearch, At
    <2>2. PICK C \in SUBSET (CandidatesForSearch(db, FALSE) \ {task[t].new}),
               G \in SUBSET (CandidatesForSearch(db, FALSE) \ {task[t].new}) :
            Goto(t, [pc |-> "store_queue", new |-> task[t].new, conflict |-> C, tagged |-> G])
      BY <1>2 DEF StoreSearch
    <2>3. [pc |-> "store_queue", new |-> task[t].new, conflict |-> C, tagged |-> G] \in TaskState
      BY <2>1, ReadType DEF TaskState
    <2> QED BY <1>2, <2>2, <2>3, GotoType DEF StoreSearch
  <1>3. ASSUME NEW t \in Tasks, StoreQueue(t) PROVE Typed
    <2> DEFINE pairs == {<<task[t].new, h>> : h \in task[t].conflict}
               links == LinksOf(task[t].new, task[t].tagged)
    <2>1. task[t].new \in Id /\ task[t].conflict \subseteq Id /\ task[t].tagged \subseteq Id
      BY <1>3, StageFields DEF StoreQueue, At
    <2>2. pairs \in SUBSET (Id \X Id) /\ links \in SUBSET (Id \X Id)
      BY <2>1 DEF LinksOf
    <2>3. Associate(Enqueue(db, pairs), links) \in Database
      BY <2>2, EdgeType
    <2>4. db' \in Database
      BY <1>3, <2>3 DEF StoreQueue, Commit
    <2> QED BY <1>0, <1>3, <2>4, GotoType DEF StoreQueue
  <1>4. ASSUME NEW t \in Tasks, GetRead(t) PROVE Typed
    <2>1. PICK S \in SUBSET db.live : Goto(t, [pc |-> "get_restore", cold |-> S \cap db.cold])
      BY <1>4 DEF GetRead
    <2>2. [pc |-> "get_restore", cold |-> S \cap db.cold] \in TaskState
      BY DEF TaskState, Database
    <2> QED BY <1>4, <2>1, <2>2, GotoType DEF GetRead
  <1>5. ASSUME NEW t \in Tasks, GetRestore(t) PROVE Typed
    <2>1. db' \in Database
      BY <1>5, MigrationType DEF GetRestore, Commit
    <2> QED BY <1>0, <1>5, <2>1, GotoType DEF GetRestore
  <1>6. ASSUME NEW t \in Tasks, SearchQuery(t) PROVE Typed
    <2>0. PICK deep \in BOOLEAN : \E H \in SUBSET Reachable(db, deep) :
            Goto(t, [pc |-> IF deep THEN "search_find_cold" ELSE "search_read_rows",
                     now |-> now, hits |-> H])
      BY <1>6 DEF SearchQuery
    <2>1. PICK H \in SUBSET Reachable(db, deep) :
            Goto(t, [pc |-> IF deep THEN "search_find_cold" ELSE "search_read_rows",
                     now |-> now, hits |-> H])
      BY <2>0
    <2>2. [pc |-> IF deep THEN "search_find_cold" ELSE "search_read_rows",
           now |-> now, hits |-> H] \in TaskState
      BY ReadType DEF TaskState
    <2> QED BY <1>6, <2>1, <2>2, GotoType DEF SearchQuery
  <1>7. ASSUME NEW t \in Tasks, SearchFindCold(t) PROVE Typed
    <2>1. task[t].now \in Nat /\ task[t].hits \subseteq Id
      BY <1>7, StageFields DEF SearchFindCold, At
    <2>2. [pc |-> "search_restore", now |-> task[t].now, hits |-> task[t].hits,
           cold |-> task[t].hits \cap db.cold] \in TaskState
      BY <2>1 DEF TaskState
    <2>3. [pc |-> "search_read_rows", now |-> task[t].now, hits |-> task[t].hits] \in TaskState
      BY <2>1 DEF TaskState
    <2> QED BY <1>7, <2>2, <2>3, GotoType DEF SearchFindCold
  <1>8. ASSUME NEW t \in Tasks, SearchRestore(t) PROVE Typed
    <2>1. task[t].now \in Nat /\ task[t].hits \subseteq Id
      BY <1>8, StageFields DEF SearchRestore, At
    <2>2. [pc |-> "search_read_rows", now |-> task[t].now, hits |-> task[t].hits] \in TaskState
      BY <2>1 DEF TaskState
    <2>3. db' \in Database
      BY <1>8, MigrationType DEF SearchRestore, Commit
    <2> QED BY <1>8, <2>2, <2>3, GotoType DEF SearchRestore
  <1>9. ASSUME NEW t \in Tasks, SearchReadRows(t) PROVE Typed
    <2> DEFINE boost == (task[t].hits \cap db.live) \ db.stub
               eligible == {i \in boost \ db.core : db.accesses[i] + 1 >= CoreAccessThreshold}
    <2>1. task[t].now \in Nat /\ task[t].hits \subseteq Id
      BY <1>9, StageFields DEF SearchReadRows, At
    <2>2. AfterBoost(task[t].hits) \in TaskState
      BY <1>a, <2>1
    <2>3. CASE Goto(t, AfterBoost(task[t].hits))
      BY <1>9, <2>2, <2>3, GotoType DEF SearchReadRows
    <2>4. CASE \E P \in SUBSET eligible :
                 Goto(t, [pc |-> "search_boost", now |-> task[t].now, hits |-> task[t].hits,
                          boost |-> boost, promote |-> P])
      <3>1. PICK P \in SUBSET eligible :
                 Goto(t, [pc |-> "search_boost", now |-> task[t].now, hits |-> task[t].hits,
                          boost |-> boost, promote |-> P])
        BY <2>4
      <3>2. [pc |-> "search_boost", now |-> task[t].now, hits |-> task[t].hits,
             boost |-> boost, promote |-> P] \in TaskState
        BY <2>1 DEF TaskState
      <3> QED BY <1>9, <3>1, <3>2, GotoType DEF SearchReadRows
    <2> QED BY <1>9, <2>3, <2>4 DEF SearchReadRows
  <1>10. ASSUME NEW t \in Tasks, SearchBoost(t) PROVE Typed
    <2>1. task[t].now \in Nat /\ task[t].hits \subseteq Id /\ task[t].promote \subseteq Id
      BY <1>10, StageFields DEF SearchBoost, At
    <2>2. AfterBoost(task[t].hits) \in TaskState
      BY <1>a, <2>1
    <2>3. [pc |-> "search_promote", hits |-> task[t].hits, promote |-> task[t].promote] \in TaskState
      BY <2>1 DEF TaskState
    <2>4. db' \in Database
      BY <1>10, <2>1, MarkType DEF SearchBoost, Commit
    <2> QED BY <1>10, <2>2, <2>3, <2>4, GotoType DEF SearchBoost
  <1>11. ASSUME NEW t \in Tasks, SearchPromote(t) PROVE Typed
    <2>1. task[t].hits \subseteq Id
      BY <1>11, StageFields DEF SearchPromote, At
    <2>2. db' \in Database
      BY <1>11, MarkType DEF SearchPromote, Commit
    <2> QED BY <1>11, <1>a, <2>1, <2>2, GotoType DEF SearchPromote
  <1>12. ASSUME NEW t \in Tasks, SearchLink(t) PROVE Typed
    <2>1. task[t].hits \subseteq Id
      BY <1>12, StageFields DEF SearchLink, At
    <2>2. AllPairs(task[t].hits) \in SUBSET (Id \X Id)
      BY <2>1 DEF AllPairs
    <2>3. db' \in Database
      BY <1>12, <2>2, EdgeType DEF SearchLink, Commit
    <2> QED BY <1>0, <1>12, <2>3, GotoType DEF SearchLink
  <1>13. ASSUME NEW t \in Tasks, TickReadHot(t) PROVE Typed
    <2>1. PICK A \in SUBSET MayBeAtFloor(db, now) :
            Goto(t, [pc |-> "tick_migrate", now |-> now, bump |-> A,
                     reset |-> {i \in Hot(db) \ A : db.days[i] > 0},
                     cold |-> {i \in A \ db.core : db.days[i] + 1 >= ColdMigrationDays}])
      BY <1>13 DEF TickReadHot
    <2>2. [pc |-> "tick_migrate", now |-> now, bump |-> A,
           reset |-> {i \in Hot(db) \ A : db.days[i] > 0},
           cold |-> {i \in A \ db.core : db.days[i] + 1 >= ColdMigrationDays}] \in TaskState
      BY ReadType DEF TaskState
    <2> QED BY <1>13, <2>1, <2>2, GotoType DEF TickReadHot
  <1>14. ASSUME NEW t \in Tasks, TickMigrate(t) PROVE Typed
    <2>1. task[t].now \in Nat
      BY <1>14, StageFields DEF TickMigrate, At
    <2>2. [pc |-> "tick_read_cold", now |-> task[t].now] \in TaskState
      BY <2>1 DEF TaskState
    <2>3. db' \in Database
      BY <1>14, <2>1, MigratePassType DEF TickMigrate, Commit
    <2> QED BY <1>14, <2>2, <2>3, GotoType DEF TickMigrate
  <1>15. ASSUME NEW t \in Tasks, TickReadCold(t) PROVE Typed
    <2>1. task[t].now \in Nat
      BY <1>15, StageFields DEF TickReadCold, At
    <2>2. [pc |-> "tick_stub", now |-> task[t].now,
           expired |-> Expired(db, task[t].now)] \in TaskState
      BY <2>1, ReadType DEF TaskState
    <2> QED BY <1>15, <2>2, GotoType DEF TickReadCold
  <1>16. ASSUME NEW t \in Tasks, TickStub(t) PROVE Typed
    <2>1. task[t].now \in Nat
      BY <1>16, StageFields DEF TickStub, At
    <2>2. [pc |-> "tick_read_queue", now |-> task[t].now] \in TaskState
      BY <2>1 DEF TaskState
    <2>3. db' \in Database
      BY <1>16, MigrationType DEF TickStub, Commit
    <2> QED BY <1>16, <2>2, <2>3, GotoType DEF TickStub
  <1>17. ASSUME NEW t \in Tasks, TickReadQueue(t) PROVE Typed
    <2>1. task[t].now \in Nat
      BY <1>17, StageFields DEF TickReadQueue, At
    <2>2. AfterResolve(task[t].now) \in TaskState
      BY <1>b, <2>1
    <2>3. \A s \in Batches(db) :
            [pc |-> "tick_begin", now |-> task[t].now, pairs |-> s] \in TaskState
      BY <2>1, BatchType DEF TaskState
    <2> QED BY <1>17, <2>2, <2>3, GotoType DEF TickReadQueue
  <1>18. ASSUME NEW t \in Tasks, TickBegin(t) PROVE Typed
    <2>1. task[t].now \in Nat /\ task[t].pairs \in Seq(Id \X Id)
      BY <1>18, StageFields DEF TickBegin, At
    <2>2. [pc |-> "tick_judge", now |-> task[t].now, pairs |-> task[t].pairs,
           draft |-> db] \in TaskState
      BY <2>1 DEF TaskState
    <2> QED BY <1>18, <2>2, GotoType DEF TickBegin
  <1>19. ASSUME NEW t \in Tasks, TickJudge(t) PROVE Typed
    <2> DEFINE p == Head(task[t].pairs)
    <2>1. /\ task[t].now \in Nat /\ task[t].pairs \in Seq(Id \X Id)
          /\ task[t].draft \in Database /\ task[t].pairs # <<>>
      BY <1>19, StageFields DEF TickJudge, At
    <2>2. p \in Id \X Id /\ Tail(task[t].pairs) \in Seq(Id \X Id)
      BY <2>1
    <2>3. PICK d \in Outcomes(task[t].draft, p) :
            Goto(t, [pc |-> "tick_judge", now |-> task[t].now, pairs |-> Tail(task[t].pairs),
                     draft |-> Dequeue(d, p)])
      BY <1>19 DEF TickJudge
    <2>4. Dequeue(d, p) \in Database
      BY <2>1, <2>2, OutcomesType
    <2>5. [pc |-> "tick_judge", now |-> task[t].now, pairs |-> Tail(task[t].pairs),
           draft |-> Dequeue(d, p)] \in TaskState
      BY <2>1, <2>2, <2>4 DEF TaskState
    <2> QED BY <1>19, <2>3, <2>5, GotoType DEF TickJudge
  <1>20. ASSUME NEW t \in Tasks, TickCommit(t) PROVE Typed
    <2>1. task[t].now \in Nat /\ task[t].draft \in Database
      BY <1>20, StageFields DEF TickCommit, At
    <2> QED BY <1>b, <1>20, <2>1, GotoType DEF TickCommit
  <1>21. ASSUME NEW t \in Tasks, TickReadFading(t) PROVE Typed
    <2>1. task[t].now \in Nat
      BY <1>21, StageFields DEF TickReadFading, At
    <2>2. \A F \in SUBSET MayBeFading(db, task[t].now) :
            [pc |-> "tick_compress", now |-> task[t].now, fading |-> F,
             core |-> F \cap db.core, made |-> 0] \in TaskState
      BY <2>1, ReadType DEF TaskState
    <2> QED BY <1>21, <2>2, GotoType DEF TickReadFading
  <1>22. ASSUME NEW t \in Tasks, TickCompress(t) PROVE Typed
    <2>1. /\ task[t].now \in Nat /\ task[t].fading \subseteq Id
          /\ task[t].core \subseteq Id /\ task[t].made \in Nat
      BY <1>22, StageFields DEF TickCompress, At
    <2>2. PICK G \in SUBSET task[t].fading, id \in Id \ minted, imp \in Importances :
            /\ Commit(Insert(db, id, IF G \subseteq task[t].core THEN "core" ELSE "other",
                             imp, task[t].now))
            /\ minted' = minted \cup {id}
            /\ Goto(t, [pc |-> "tick_supersede", now |-> task[t].now,
                        fading |-> task[t].fading, core |-> task[t].core,
                        made |-> task[t].made, group |-> G, summary |-> id])
      BY <1>22 DEF TickCompress
    <2>3. [pc |-> "tick_supersede", now |-> task[t].now, fading |-> task[t].fading,
           core |-> task[t].core, made |-> task[t].made, group |-> G, summary |-> id] \in TaskState
      BY <2>1 DEF TaskState
    <2>4. db' \in Database
      BY <2>1, <2>2, InsertType DEF Commit
    <2> QED BY <1>22, <2>2, <2>3, <2>4, GotoType DEF TickCompress
  <1>23. ASSUME NEW t \in Tasks, TickSupersede(t) PROVE Typed
    <2>1. /\ task[t].now \in Nat /\ task[t].fading \subseteq Id /\ task[t].core \subseteq Id
          /\ task[t].made \in Nat /\ task[t].group \subseteq Id /\ task[t].summary \in Id
      BY <1>23, StageFields DEF TickSupersede, At
    <2>2. [pc |-> "tick_compress", now |-> task[t].now, fading |-> task[t].fading \ task[t].group,
           core |-> task[t].core, made |-> task[t].made + 1] \in TaskState
      BY <2>1 DEF TaskState
    <2>3. db' \in Database
      BY <1>23, <2>1, MarkType, MigrationType DEF TickSupersede, Commit
    <2> QED BY <1>0, <1>23, <2>2, <2>3, GotoType DEF TickSupersede
  <1>24. ASSUME NEW t \in Tasks, TickEnd(t) \/ AcquireTimeout(t) \/ Disconnect(t) PROVE Typed
    BY <1>0, <1>24, GotoType DEF TickEnd, AcquireTimeout, Disconnect
  <1>25. ASSUME SingleWrite PROVE Typed
    <2>1. ASSUME NEW op, NEW d \in Database, Write(op, d) PROVE Typed
      BY <2>1 DEF Write, Commit
    <2>2. CASE Update
      <3>1. PICK i \in db.live, cat \in {"core", "other"}, f \in Floors, imp \in Importances :
              \E d1 \in {db, SetCategory(db, {i}, cat)} :
              \E d2 \in {d1, SetFloor(d1, {i}, f)} :
              \E d3 \in {d2, SetImportance(d2, {i}, imp)} : Write("update", d3)
        BY <2>2 DEF Update
      <3>2. \A d \in Database : /\ SetCategory(d, {i}, cat) \in Database
                                /\ SetFloor(d, {i}, f) \in Database
                                /\ SetImportance(d, {i}, imp) \in Database
        BY UpdateType
      <3> QED BY <2>1, <3>1, <3>2
    <2>3. CASE UpdateRetention
      BY <2>1, <2>3, UpdateType, DefaultImportanceType DEF UpdateRetention
    <2>4. CASE BatchUpdate
      <3>1. \A S \in SUBSET db.live : \A g \in [S -> Floors] :
              [db EXCEPT !.floor = [i \in Id |-> IF i \in S THEN g[i] ELSE db.floor[i]]] \in Database
        BY DEF Database
      <3> QED BY <2>1, <2>4, <3>1 DEF BatchUpdate
    <2>5. CASE DeleteMany \/ Clear
      BY <2>1, <2>5, DeleteType DEF DeleteMany, Clear
    <2>6. CASE Supersede
      <3>1. minted \cup {Foreign} \subseteq Id \cup {Foreign}
        OBVIOUS
      <3>2. \A S \in SUBSET db.live, by \in minted \cup {Foreign} : MarkSuperseded(db, S, by) \in Database
        BY <3>1, MarkType
      <3> QED BY <2>1, <2>6, <3>2 DEF Supersede
    <2>7. CASE ToCold
      BY <2>1, <2>7, MigrationType DEF ToCold
    <2>8. CASE ToHot \/ ToStub
      BY <2>1, <2>8, MigrationType DEF ToHot, ToStub
    <2>9. CASE Link
      <3>1. \A e \in minted \X minted : Associate(db, {e}) \in Database
        BY EdgeType
      <3> QED BY <2>1, <2>9, <3>1 DEF Link
    <2>10. CASE Unlink
      <3>1. \A i, j \in minted : {<<i, j>>} \in SUBSET (Id \X Id) /\ LinksOf(i, {j}) \in SUBSET (Id \X Id)
        BY DEF LinksOf
      <3>2. \A i, j \in minted : \A E \in {{<<i, j>>}, LinksOf(i, {j})} : Dissociate(db, E) \in Database
        BY <3>1, EdgeType
      <3> QED BY <2>1, <2>10, <3>2 DEF Unlink
    <2> QED BY <1>25, <2>2, <2>3, <2>4, <2>5, <2>6, <2>7, <2>8, <2>9, <2>10 DEF SingleWrite
  <1>26. CASE Restart
    BY <1>0, <1>26 DEF Restart
  <1>27. CASE Advance
    BY <1>27 DEF Advance
  <1>28. CASE UNCHANGED vars
    BY <1>28 DEF vars
  <1> QED
    BY <1>1, <1>2, <1>3, <1>4, <1>5, <1>6, <1>7, <1>8, <1>9, <1>10, <1>11, <1>12, <1>13, <1>14,
       <1>15, <1>16, <1>17, <1>18, <1>19, <1>20, <1>21, <1>22, <1>23, <1>24, <1>25, <1>26, <1>27,
       <1>28 DEF Next, Start, Step

(* Every reachable state is well typed, whatever requests run together.    *)
THEOREM TypeCorrect == Spec => []TypeOK
  <1>1. Init => TypeOK
    BY EmptyType DEF Init, TypeOK, TaskState
  <1> QED BY <1>1, TypeStep, PTL DEF Spec

-----------------------------------------------------------------------------
(* The inductive invariant.  The properties of the committed tables are    *)
(* not inductive alone: the tables a transaction of pass 3 has not yet     *)
(* committed must satisfy them too, flags must belong to existing rows,    *)
(* and what a request carries between its steps must not be out of line.   *)

Rows(d, M) == d.live \subseteq M /\ d.cold \cup d.stub \cup d.superseded \subseteq d.live

Edges(d) ==
    /\ ForeignKeysHold(d, d.assoc) /\ ForeignKeysHold(d, d.queue)
    /\ \A e \in d.queue : e[1] # e[2]

Archival(d) ==
    /\ \A i \in Id : i \in d.cold <=> d.coldSince[i] # NoTime
    /\ d.live \subseteq d.embedded \cup d.stub

Successors(d, M) ==
    \A i \in Id : /\ i \in d.superseded <=> d.supersededBy[i] # NoId
                  /\ i \in d.superseded => d.supersededBy[i] \in M \cup {Foreign}

Lost(d) == {i \in Id : d.contradictedBy[i] # NoId}

Verdicts(d) ==
    /\ Lost(d) \subseteq d.superseded
    /\ \A S \in SUBSET Lost(d) : S # {} => \E i \in S : d.contradictedBy[i] \notin S

Consistent(d, M) == Rows(d, M) /\ Edges(d) /\ Archival(d) /\ Successors(d, M) /\ Verdicts(d)

Carried(s, M) ==
    /\ s.pc = "store_queue" => s.new \notin s.conflict
    /\ s.pc \in {"tick_begin", "tick_judge"} => \A k \in 1..Len(s.pairs) : s.pairs[k][1] # s.pairs[k][2]
    /\ s.pc = "tick_judge" => Consistent(s.draft, M)
    /\ s.pc = "tick_supersede" => s.summary \in M

IInv == TypeOK /\ Consistent(db, minted) /\ \A t \in Tasks : Carried(task[t], minted)

(* Consistency refers to ten columns only.                                 *)
LEMMA ConsistentFrame ==
  ASSUME NEW d, NEW e, NEW M, Consistent(d, M),
         e.live = d.live, e.cold = d.cold, e.stub = d.stub, e.superseded = d.superseded,
         e.embedded = d.embedded, e.coldSince = d.coldSince, e.supersededBy = d.supersededBy,
         e.contradictedBy = d.contradictedBy, e.assoc = d.assoc, e.queue = d.queue
  PROVE  Consistent(e, M)
  BY DEF Consistent, Rows, Edges, ForeignKeysHold, Archival, Successors, Lost, Verdicts

(* The empty tables are consistent.                                        *)
LEMMA EmptyConsistent == Consistent(Empty, {})
  BY DEF Empty, Consistent, Rows, Edges, ForeignKeysHold, Archival, Successors, Lost, Verdicts

(* Ids handed out later do not matter.                                     *)
LEMMA ConsistentMono ==
  ASSUME NEW d, NEW M, NEW N, M \subseteq N, Consistent(d, M)
  PROVE  Consistent(d, N)
  BY DEF Consistent, Rows, Successors

(* A row with a fresh id is hot, embedded and has no successor.            *)
LEMMA InsertConsistent ==
  ASSUME NEW d \in Database, NEW M, NEW id \in Id \ M, NEW cat, NEW imp, NEW at, Consistent(d, M)
  PROVE  Consistent(Insert(d, id, cat, imp, at), M \cup {id})
  <1> DEFINE e == Insert(d, id, cat, imp, at)
  <1>1. /\ e.live = d.live \cup {id} /\ e.embedded = d.embedded \cup {id}
        /\ e.cold = d.cold /\ e.stub = d.stub /\ e.superseded = d.superseded
        /\ e.coldSince = d.coldSince /\ e.supersededBy = d.supersededBy
        /\ e.contradictedBy = d.contradictedBy /\ e.assoc = d.assoc /\ e.queue = d.queue
    BY DEF Insert, Database
  <1> HIDE DEF e
  <1>2. Rows(e, M \cup {id}) /\ Edges(e)
    BY <1>1 DEF Consistent, Rows, Edges, ForeignKeysHold
  <1>3. Archival(e) /\ Successors(e, M \cup {id})
    BY <1>1 DEF Consistent, Archival, Successors
  <1>4. Verdicts(e)
    BY <1>1 DEF Consistent, Verdicts, Lost
  <1> QED BY <1>2, <1>3, <1>4 DEF Consistent, e

(* ON DELETE CASCADE keeps the foreign keys, and the losers that are left  *)
(* form no cycle.                                                          *)
LEMMA DeleteConsistent ==
  ASSUME NEW d \in Database, NEW S, NEW M, Consistent(d, M)
  PROVE  Consistent(Delete(d, S), M)
  <1> DEFINE e == Delete(d, S)
  <1>1. /\ e.live = d.live \ S /\ e.embedded = d.embedded \ S
        /\ e.cold = d.cold \ S /\ e.stub = d.stub \ S /\ e.superseded = d.superseded \ S
        /\ e.assoc = {x \in d.assoc : x[1] \notin S /\ x[2] \notin S}
        /\ e.queue = {x \in d.queue : x[1] \notin S /\ x[2] \notin S}
    BY DEF Delete
  <1>2. /\ e.coldSince = Put(d.coldSince, S, NoTime)
        /\ e.supersededBy = Put(d.supersededBy, S, NoId)
        /\ e.contradictedBy = Put(d.contradictedBy, S, NoId)
    BY DEF Delete
  <1> HIDE DEF e
  <1>3. Rows(e, M) /\ Edges(e)
    BY <1>1 DEF Consistent, Rows, Edges, ForeignKeysHold
  <1>4. Archival(e) /\ Successors(e, M)
    BY <1>1, <1>2 DEF Consistent, Archival, Successors, Put
  <1>5. Verdicts(e)
    <2>1. Lost(e) = Lost(d) \ S
      BY <1>2 DEF Lost, Put
    <2>2. \A i \in Lost(e) : e.contradictedBy[i] = d.contradictedBy[i]
      BY <1>2, <2>1 DEF Lost, Put
    <2>3. Lost(e) \subseteq e.superseded
      BY <1>1, <2>1 DEF Consistent, Verdicts
    <2> QED BY <2>1, <2>2, <2>3 DEF Consistent, Verdicts
  <1> QED BY <1>3, <1>4, <1>5 DEF Consistent, e

(* Columns outside the ten change nothing.                                 *)
LEMMA UpdateConsistent ==
  ASSUME NEW d \in Database, NEW S, NEW M, NEW cat, NEW f, NEW imp, NEW at, Consistent(d, M)
  PROVE  /\ Consistent(SetCategory(d, S, cat), M)
         /\ Consistent(SetFloor(d, S, f), M)
         /\ Consistent(SetImportance(d, S, imp), M)
         /\ Consistent(ApplyDirectBoost(d, S, at), M)
         /\ Consistent(PromoteToCore(d, S), M)
         /\ Consistent([d EXCEPT !.floor = f], M)
         /\ Consistent([d EXCEPT !.days = f], M)
  <1>1. Consistent(SetCategory(d, S, cat), M)
    BY ConsistentFrame DEF SetCategory, Database
  <1>2. Consistent(SetFloor(d, S, f), M)
    BY ConsistentFrame DEF SetFloor, Database
  <1>3. Consistent(SetImportance(d, S, imp), M)
    BY ConsistentFrame DEF SetImportance, Database
  <1>4. Consistent(ApplyDirectBoost(d, S, at), M)
    <2> DEFINE e == ApplyDirectBoost(d, S, at)
    <2>1. /\ e.live = d.live /\ e.cold = d.cold /\ e.stub = d.stub /\ e.superseded = d.superseded
          /\ e.embedded = d.embedded /\ e.coldSince = d.coldSince /\ e.supersededBy = d.supersededBy
          /\ e.contradictedBy = d.contradictedBy /\ e.assoc = d.assoc /\ e.queue = d.queue
      BY DEF ApplyDirectBoost, Database
    <2> HIDE DEF e
    <2>2. Consistent(e, M)
      BY <2>1, ConsistentFrame
    <2> QED BY <2>2 DEF e
  <1>5. Consistent(PromoteToCore(d, S), M)
    <2> DEFINE e == PromoteToCore(d, S)
    <2>1. /\ e.live = d.live /\ e.cold = d.cold /\ e.stub = d.stub /\ e.superseded = d.superseded
          /\ e.embedded = d.embedded /\ e.coldSince = d.coldSince /\ e.supersededBy = d.supersededBy
          /\ e.contradictedBy = d.contradictedBy /\ e.assoc = d.assoc /\ e.queue = d.queue
      BY DEF PromoteToCore, Database
    <2> HIDE DEF e
    <2>2. Consistent(e, M)
      BY <2>1, ConsistentFrame
    <2> QED BY <2>2 DEF e
  <1>6. Consistent([d EXCEPT !.floor = f], M) /\ Consistent([d EXCEPT !.days = f], M)
    BY ConsistentFrame DEF Database
  <1> QED BY <1>1, <1>2, <1>3, <1>4, <1>5, <1>6

(* The cold flag and its date move together; a stub may lose its embedding.*)
LEMMA MigrationConsistent ==
  ASSUME NEW d \in Database, NEW S, NEW M, NEW since \in Nat, Consistent(d, M)
  PROVE  /\ Consistent(MigrateToCold(d, S, since), M)
         /\ Consistent(MigrateToHot(d, S), M)
         /\ Consistent(ConvertToStub(d, S), M)
         /\ Consistent(ArchivePass(d, S), M)
  <1>1. Consistent(MigrateToCold(d, S, since), M)
    <2> DEFINE e == MigrateToCold(d, S, since)
    <2>1. /\ e.live = d.live /\ e.stub = d.stub /\ e.superseded = d.superseded
          /\ e.embedded = d.embedded /\ e.supersededBy = d.supersededBy
          /\ e.contradictedBy = d.contradictedBy /\ e.assoc = d.assoc /\ e.queue = d.queue
          /\ e.cold = d.cold \cup (S \cap d.live)
          /\ e.coldSince = Put(d.coldSince, S \cap d.live, since)
      BY DEF MigrateToCold, Database
    <2> HIDE DEF e
    <2>2. Rows(e, M) /\ Edges(e) /\ Successors(e, M) /\ Verdicts(e)
      BY <2>1 DEF Consistent, Rows, Edges, ForeignKeysHold, Successors, Verdicts, Lost
    <2>3. since # NoTime
      OBVIOUS
    <2>4. Archival(e)
      BY <2>1, <2>3 DEF Consistent, Archival, Put
    <2> QED BY <2>2, <2>4 DEF Consistent, e
  <1>2. Consistent(MigrateToHot(d, S), M)
    <2> DEFINE e == MigrateToHot(d, S)
    <2>1. /\ e.live = d.live /\ e.stub = d.stub /\ e.superseded = d.superseded
          /\ e.embedded = d.embedded /\ e.supersededBy = d.supersededBy
          /\ e.contradictedBy = d.contradictedBy /\ e.assoc = d.assoc /\ e.queue = d.queue
          /\ e.cold = d.cold \ S /\ e.coldSince = Put(d.coldSince, S, NoTime)
      BY DEF MigrateToHot, Database
    <2> HIDE DEF e
    <2>2. Rows(e, M) /\ Edges(e) /\ Successors(e, M) /\ Verdicts(e)
      BY <2>1 DEF Consistent, Rows, Edges, ForeignKeysHold, Successors, Verdicts, Lost
    <2>3. Archival(e)
      BY <2>1 DEF Consistent, Archival, Put
    <2> QED BY <2>2, <2>3 DEF Consistent, e
  <1>3. ASSUME NEW e, e.live = d.live, e.cold = d.cold, e.superseded = d.superseded,
               e.coldSince = d.coldSince, e.supersededBy = d.supersededBy,
               e.contradictedBy = d.contradictedBy, e.assoc = d.assoc, e.queue = d.queue,
               e.stub = d.stub \cup (S \cap d.live), d.embedded \ S \subseteq e.embedded
        PROVE  Consistent(e, M)
    BY <1>3 DEF Consistent, Rows, Edges, ForeignKeysHold, Archival, Successors, Verdicts, Lost
  <1>4. Consistent(ConvertToStub(d, S), M)
    BY <1>3 DEF ConvertToStub, Database
  <1>5. Consistent(ArchivePass(d, S), M)
    BY <1>3 DEF ArchivePass, Database
  <1> QED BY <1>1, <1>2, <1>4, <1>5

(* Pass 1 of the tick.                                                     *)
LEMMA MigratePassConsistent ==
  ASSUME NEW d \in Database, NEW M, NEW s, s.now \in Nat, Consistent(d, M)
  PROVE  Consistent(MigratePass(d, s), M)
  <1> DEFINE counted == Bump(d.days, s.bump \cap d.live, ColdMigrationDays)
             e == [d EXCEPT !.days = Put(counted, s.reset, 0)]
  <1>1. counted \in [Id -> 0..ColdMigrationDays]
    BY BumpType DEF Database
  <1>2. Put(counted, s.reset, 0) \in [Id -> 0..ColdMigrationDays]
    BY <1>1, PutType, ZeroTypes
  <1>3. e \in Database
    BY <1>2 DEF Database
  <1>4. Consistent(e, M)
    BY UpdateConsistent
  <1> QED BY <1>3, <1>4, MigrationConsistent DEF MigratePass

(* A successor that was handed out before may be recorded.                 *)
LEMMA MarkConsistent ==
  ASSUME NEW d \in Database, NEW S, NEW M, NEW by \in (M \cap Id) \cup {Foreign}, Consistent(d, M)
  PROVE  Consistent(MarkSuperseded(d, S, by), M)
  <1> DEFINE e == MarkSuperseded(d, S, by)
  <1>1. /\ e.live = d.live /\ e.stub = d.stub /\ e.cold = d.cold /\ e.coldSince = d.coldSince
        /\ e.embedded = d.embedded /\ e.contradictedBy = d.contradictedBy
        /\ e.assoc = d.assoc /\ e.queue = d.queue
        /\ e.superseded = d.superseded \cup (S \cap d.live)
        /\ e.supersededBy = Put(d.supersededBy, S \cap d.live, by)
    BY DEF MarkSuperseded, Database
  <1> HIDE DEF e
  <1>2. Rows(e, M) /\ Edges(e) /\ Archival(e)
    BY <1>1 DEF Consistent, Rows, Edges, ForeignKeysHold, Archival
  <1>3. Verdicts(e)
    BY <1>1 DEF Consistent, Verdicts, Lost
  <1>4. by # NoId
    OBVIOUS
  <1>5. Successors(e, M)
    BY <1>1, <1>4 DEF Consistent, Successors, Put
  <1> QED BY <1>2, <1>3, <1>5 DEF Consistent, e

(* The transactions that insert edges and pairs check the foreign keys.    *)
LEMMA EdgesConsistent ==
  ASSUME NEW d \in Database, NEW M, NEW E, NEW Q, Consistent(d, M),
         ForeignKeysHold(d, E \cup Q), \A e \in Q : e[1] # e[2]
  PROVE  /\ Consistent(Associate(d, E), M)
         /\ Consistent(Associate(Enqueue(d, Q), E), M)
  <1>1. ASSUME NEW e, e.live = d.live, e.cold = d.cold, e.superseded = d.superseded,
               e.coldSince = d.coldSince, e.supersededBy = d.supersededBy,
               e.contradictedBy = d.contradictedBy, e.stub = d.stub, e.embedded = d.embedded,
               e.assoc = d.assoc \cup E, e.queue = d.queue \/ e.queue = d.queue \cup Q
        PROVE  Consistent(e, M)
    BY <1>1 DEF Consistent, Rows, Edges, ForeignKeysHold, Archival, Successors, Verdicts, Lost
  <1>2. Consistent(Associate(d, E), M)
    BY <1>1 DEF Associate, Database
  <1>3. Consistent(Associate(Enqueue(d, Q), E), M)
    BY <1>1 DEF Associate, Enqueue, Database
  <1> QED BY <1>2, <1>3

(* Deleting edges needs no check.                                          *)
LEMMA UnlinkConsistent ==
  ASSUME NEW d \in Database, NEW M, NEW E, Consistent(d, M)
  PROVE  Consistent(Dissociate(d, E), M)
  <1> DEFINE e == Dissociate(d, E)
  <1>1. /\ e.live = d.live /\ e.cold = d.cold /\ e.stub = d.stub /\ e.superseded = d.superseded
        /\ e.embedded = d.embedded /\ e.coldSince = d.coldSince /\ e.supersededBy = d.supersededBy
        /\ e.contradictedBy = d.contradictedBy /\ e.assoc = d.assoc \ E /\ e.queue = d.queue
    BY DEF Dissociate, Database
  <1> HIDE DEF e
  <1>2. Consistent(e, M)
    BY <1>1 DEF Consistent, Rows, Edges, ForeignKeysHold, Archival, Successors, Verdicts, Lost
  <1> QED BY <1>2 DEF e

(* A verdict between two different memories that nothing has superseded    *)
(* closes no cycle: the loser gets an edge to a memory that lost nothing.  *)
LEMMA JudgedConsistent ==
  ASSUME NEW d \in Database, NEW M, NEW loser \in Id, NEW winner \in Id, loser # winner,
         {loser, winner} \subseteq d.live \ d.superseded, Consistent(d, M)
  PROVE  Consistent(Judged(d, loser, winner), M)
  <1> DEFINE e == Judged(d, loser, winner)
  <1>1. /\ e.live = d.live /\ e.stub = d.stub /\ e.cold = d.cold /\ e.coldSince = d.coldSince
        /\ e.embedded = d.embedded /\ e.assoc = d.assoc /\ e.queue = d.queue
        /\ e.superseded = d.superseded \cup {loser}
        /\ e.supersededBy = Put(d.supersededBy, {loser}, winner)
        /\ e.contradictedBy = Put(d.contradictedBy, {loser}, winner)
    BY DEF Judged, Database
  <1> HIDE DEF e
  <1>2. Rows(e, M) /\ Edges(e) /\ Archival(e)
    BY <1>1 DEF Consistent, Rows, Edges, ForeignKeysHold, Archival
  <1>3. winner # NoId /\ winner \in M
    BY DEF Consistent, Rows
  <1>4. Successors(e, M)
    BY <1>1, <1>3 DEF Consistent, Successors, Put
  <1>5. Verdicts(e)
    <2>1. Lost(e) = Lost(d) \cup {loser}
      BY <1>1, <1>3 DEF Lost, Put
    <2>2. /\ e.contradictedBy[loser] = winner
          /\ \A i \in Id \ {loser} : e.contradictedBy[i] = d.contradictedBy[i]
      BY <1>1 DEF Put
    <2>3. winner \notin Lost(e)
      BY <2>1 DEF Consistent, Verdicts
    <2>4. ASSUME NEW S \in SUBSET Lost(e), S # {}
          PROVE  \E i \in S : e.contradictedBy[i] \notin S
      <3>1. CASE loser \in S
        BY <2>2, <2>3, <3>1
      <3>2. CASE loser \notin S
        <4>1. S \subseteq Lost(d)
          BY <2>1, <3>2
        <4>2. PICK i \in S : d.contradictedBy[i] \notin S
          BY <2>4, <4>1 DEF Consistent, Verdicts
        <4>3. i \in Id \ {loser}
          BY <3>2, <4>1 DEF Lost
        <4> QED BY <2>2, <4>2, <4>3
      <3> QED BY <3>1, <3>2
    <2>5. Lost(e) \subseteq e.superseded
      BY <1>1, <2>1 DEF Consistent, Verdicts
    <2> QED BY <2>4, <2>5 DEF Verdicts
  <1> QED BY <1>2, <1>4, <1>5 DEF Consistent, e

(* Whatever the judge answers about a pair, and however the heuristic      *)
(* decides, the uncommitted tables stay consistent.                        *)
LEMMA OutcomesConsistent ==
  ASSUME NEW d \in Database, NEW M, NEW p \in Id \X Id, p[1] # p[2],
         NEW e \in Outcomes(d, p), Consistent(d, M)
  PROVE  Consistent(Dequeue(e, p), M)
  <1> DEFINE best == IF d.importance[p[2]] > d.importance[p[1]]
                     THEN d.importance[p[2]] ELSE d.importance[p[1]]
             b == SetImportance(d, {p[1]}, best)
  <1>1. p[1] \in Id /\ p[2] \in Id
    OBVIOUS
  <1>2. best \in Importances
    BY <1>1 DEF Database
  <1>3. b \in Database /\ Consistent(b, M) /\ b.live = d.live /\ b.superseded = d.superseded
    <2>1. b \in Database
      BY <1>2, UpdateType, ZeroTypes
    <2>2. Consistent(b, M)
      BY UpdateConsistent
    <2>3. b.live = d.live /\ b.superseded = d.superseded
      BY DEF SetImportance, Database
    <2> QED BY <2>1, <2>2, <2>3
  <1>4. ASSUME {p[1], p[2]} \subseteq d.live \ d.superseded
        PROVE  /\ Consistent(Judged(d, p[2], p[1]), M)
               /\ Consistent(Judged(d, p[1], p[2]), M)
               /\ Consistent(Judged(b, p[2], p[1]), M)
    BY <1>1, <1>3, <1>4, JudgedConsistent
  <1>5. \/ e = d
        \/ /\ {p[1], p[2]} \subseteq d.live \ d.superseded
           /\ e \in {Judged(d, p[2], p[1]), Judged(d, p[1], p[2]), Judged(b, p[2], p[1])}
    BY Zenon DEF Outcomes
  <1>6. e \in Database /\ Consistent(e, M)
    BY <1>4, <1>5, OutcomesType
  <1>7. ASSUME NEW x, x.live = e.live, x.cold = e.cold, x.superseded = e.superseded,
               x.coldSince = e.coldSince, x.supersededBy = e.supersededBy,
               x.contradictedBy = e.contradictedBy, x.stub = e.stub, x.embedded = e.embedded,
               x.assoc = e.assoc, x.queue = e.queue \ {p}
        PROVE  Consistent(x, M)
    BY <1>6, <1>7 DEF Consistent, Rows, Edges, ForeignKeysHold, Archival, Successors, Verdicts, Lost
  <1> QED BY <1>6, <1>7 DEF Dequeue, Database

(* Only four stages carry something that the invariant restricts.          *)
LEMMA CarriedPlain ==
  ASSUME NEW s, NEW M, s.pc \notin {"store_queue", "tick_begin", "tick_judge", "tick_supersede"}
  PROVE  Carried(s, M)
  BY DEF Carried

(* A request moves on; the others keep what they carry.                    *)
LEMMA CarriedGoto ==
  ASSUME NEW M, NEW N, M \subseteq N, task \in [Tasks -> TaskState], NEW t \in Tasks, NEW s,
         Goto(t, s), Carried(s, N), \A u \in Tasks : Carried(task[u], M)
  PROVE  \A u \in Tasks : Carried(task'[u], N)
  <1>1. ASSUME NEW u \in Tasks PROVE Carried(task[u], N)
    <2>1. Carried(task[u], M)
      OBVIOUS
    <2> QED BY <2>1, ConsistentMono DEF Carried
  <1>2. \A u \in Tasks : task'[u] = IF u = t THEN s ELSE task[u]
    BY DEF Goto
  <1> QED BY <1>1, <1>2

(* The invariant survives every step of every request, in any order.       *)
LEMMA IInvStep == IInv /\ [Next]_vars => IInv'
  <1> SUFFICES ASSUME IInv, [Next]_vars PROVE IInv'
    OBVIOUS
  <1>t. TypeOK /\ TypeOK'
    BY TypeStep DEF IInv
  <1> DEFINE Kept == Consistent(db', minted') /\ \A u \in Tasks : Carried(task'[u], minted')
  <1>a. /\ db \in Database /\ minted \subseteq Id /\ now \in Nat /\ task \in [Tasks -> TaskState]
        /\ Consistent(db, minted) /\ \A u \in Tasks : Carried(task[u], minted)
    BY DEF IInv, TypeOK
  <1>b. \A M : Carried(Idle, M)
    BY CarriedPlain DEF Idle
  <1>c. \A H, M : Carried(AfterBoost(H), M)
    BY CarriedPlain DEF AfterBoost, Idle
  <1>d. \A n, M : Carried(AfterResolve(n), M)
    BY CarriedPlain DEF AfterResolve, Idle
  <1>e. ASSUME NEW t \in Tasks, NEW s, Goto(t, s), Carried(s, minted), UNCHANGED minted
        PROVE  \A u \in Tasks : Carried(task'[u], minted')
    BY <1>a, <1>e, CarriedGoto
  <1>1. ASSUME NEW t \in Tasks, StoreInsert(t) PROVE Kept
    <2>1. PICK id \in Id \ minted, cat \in Categories, imp \in Importances :
            /\ Commit(Insert(db, id, cat, imp, now))
            /\ minted' = minted \cup {id}
            /\ Goto(t, [pc |-> "store_search", new |-> id])
      BY <1>1 DEF StoreInsert
    <2>2. Carried([pc |-> "store_search", new |-> id], minted')
      BY CarriedPlain
    <2>3. \A u \in Tasks : Carried(task'[u], minted')
      BY <1>a, <2>1, <2>2, CarriedGoto
    <2>4. Consistent(db', minted')
      BY <1>a, <2>1, InsertConsistent DEF Commit
    <2> QED BY <2>3, <2>4
  <1>2. ASSUME NEW t \in Tasks, StoreSearch(t) PROVE Kept
    <2>1. PICK C \in SUBSET (CandidatesForSearch(db, FALSE) \ {task[t].new}),
               G \in SUBSET (CandidatesForSearch(db, FALSE) \ {task[t].new}) :
            Goto(t, [pc |-> "store_queue", new |-> task[t].new, conflict |-> C, tagged |-> G])
      BY <1>2 DEF StoreSearch
    <2>2. Carried([pc |-> "store_queue", new |-> task[t].new, conflict |-> C, tagged |-> G], minted)
      BY DEF Carried
    <2> QED BY <1>a, <1>e, <1>2, <2>1, <2>2 DEF StoreSearch
  <1>3. ASSUME NEW t \in Tasks, StoreQueue(t) PROVE Kept
    <2> DEFINE pairs == {<<task[t].new, h>> : h \in task[t].conflict}
               links == LinksOf(task[t].new, task[t].tagged)
    <2>1. task[t].new \notin task[t].conflict
      BY <1>a, <1>3 DEF StoreQueue, At, Carried
    <2>2. \A e \in pairs : e[1] # e[2]
      BY <2>1
    <2>3. CASE ForeignKeysHold(db, pairs \cup links) /\ Commit(Associate(Enqueue(db, pairs), links))
      <3>1. ForeignKeysHold(db, links \cup pairs)
        BY <2>3 DEF ForeignKeysHold
      <3>2. Consistent(Associate(Enqueue(db, pairs), links), minted)
        BY <1>a, <2>2, <3>1, EdgesConsistent
      <3> QED BY <1>b, <1>e, <1>3, <2>3, <3>2 DEF StoreQueue, Commit
    <2>4. CASE Commit(db)
      BY <1>a, <1>b, <1>e, <1>3, <2>4 DEF StoreQueue, Commit
    <2> QED BY <1>3, <2>3, <2>4 DEF StoreQueue
  <1>4. ASSUME NEW t \in Tasks, GetRead(t) PROVE Kept
    <2>1. \A S : Carried([pc |-> "get_restore", cold |-> S], minted)
      BY CarriedPlain
    <2> QED BY <1>a, <1>e, <1>4, <2>1 DEF GetRead
  <1>5. ASSUME NEW t \in Tasks, GetRestore(t) PROVE Kept
    <2>1. Consistent(db', minted)
      BY <1>a, <1>5, MigrationConsistent DEF GetRestore, Commit
    <2> QED BY <1>b, <1>e, <1>5, <2>1 DEF GetRestore
  <1>6. ASSUME NEW t \in Tasks, SearchQuery(t) PROVE Kept
    <2>1. \A deep \in BOOLEAN : \A H :
            Carried([pc |-> IF deep THEN "search_find_cold" ELSE "search_read_rows",
                     now |-> now, hits |-> H], minted)
      BY CarriedPlain
    <2> QED BY <1>a, <1>e, <1>6, <2>1 DEF SearchQuery
  <1>7. ASSUME NEW t \in Tasks, SearchFindCold(t) PROVE Kept
    <2>1. /\ Carried([pc |-> "search_restore", now |-> task[t].now, hits |-> task[t].hits,
                      cold |-> task[t].hits \cap db.cold], minted)
          /\ Carried([pc |-> "search_read_rows", now |-> task[t].now, hits |-> task[t].hits], minted)
      BY CarriedPlain
    <2> QED BY <1>a, <1>e, <1>7, <2>1 DEF SearchFindCold
  <1>8. ASSUME NEW t \in Tasks, SearchRestore(t) PROVE Kept
    <2>1. Consistent(db', minted)
      BY <1>a, <1>8, MigrationConsistent DEF SearchRestore, Commit
    <2>2. Carried([pc |-> "search_read_rows", now |-> task[t].now, hits |-> task[t].hits], minted)
      BY CarriedPlain
    <2> QED BY <1>e, <1>8, <2>1, <2>2 DEF SearchRestore
  <1>9. ASSUME NEW t \in Tasks, SearchReadRows(t) PROVE Kept
    <2>1. \A B, P : Carried([pc |-> "search_boost", now |-> task[t].now, hits |-> task[t].hits,
                            boost |-> B, promote |-> P], minted)
      BY CarriedPlain
    <2> QED BY <1>a, <1>c, <1>e, <1>9, <2>1 DEF SearchReadRows
  <1>10. ASSUME NEW t \in Tasks, SearchBoost(t) PROVE Kept
    <2>1. Carried([pc |-> "search_promote", hits |-> task[t].hits,
                   promote |-> task[t].promote], minted)
      BY CarriedPlain
    <2>2. Consistent(db', minted)
      BY <1>a, <1>10, UpdateConsistent DEF SearchBoost, Commit
    <2> QED BY <1>c, <1>e, <1>10, <2>1, <2>2 DEF SearchBoost
  <1>11. ASSUME NEW t \in Tasks, SearchPromote(t) PROVE Kept
    <2>1. Consistent(db', minted)
      BY <1>a, <1>11, UpdateConsistent DEF SearchPromote, Commit
    <2> QED BY <1>c, <1>e, <1>11, <2>1 DEF SearchPromote
  <1>12. ASSUME NEW t \in Tasks, SearchLink(t) PROVE Kept
    <2> DEFINE pairs == AllPairs(task[t].hits)
    <2>1. ASSUME ForeignKeysHold(db, pairs) PROVE Consistent(Associate(db, pairs), minted)
      <3> DEFINE none == {}
      <3>1. ForeignKeysHold(db, pairs \cup none) /\ \A e \in none : e[1] # e[2]
        BY <2>1
      <3> HIDE DEF none, pairs
      <3> QED BY <1>a, <3>1, EdgesConsistent
    <2>2. Consistent(db', minted)
      BY <1>a, <1>12, <2>1 DEF SearchLink, Commit
    <2> QED BY <1>b, <1>e, <1>12, <2>2 DEF SearchLink
  <1>13. ASSUME NEW t \in Tasks, TickReadHot(t) PROVE Kept
    <2>1. \A A, R, C : Carried([pc |-> "tick_migrate", now |-> now, bump |-> A,
                               reset |-> R, cold |-> C], minted)
      BY CarriedPlain
    <2> QED BY <1>a, <1>e, <1>13, <2>1 DEF TickReadHot
  <1>14. ASSUME NEW t \in Tasks, TickMigrate(t) PROVE Kept
    <2>1. task[t].now \in Nat
      BY <1>a, <1>14, StageFields DEF TickMigrate, At
    <2>2. Consistent(db', minted)
      BY <1>a, <1>14, <2>1, MigratePassConsistent DEF TickMigrate, Commit
    <2>3. Carried([pc |-> "tick_read_cold", now |-> task[t].now], minted)
      BY CarriedPlain
    <2> QED BY <1>e, <1>14, <2>2, <2>3 DEF TickMigrate
  <1>15. ASSUME NEW t \in Tasks, TickReadCold(t) PROVE Kept
    <2>1. Carried([pc |-> "tick_stub", now |-> task[t].now,
                   expired |-> Expired(db, task[t].now)], minted)
      BY CarriedPlain
    <2> QED BY <1>a, <1>e, <1>15, <2>1 DEF TickReadCold
  <1>16. ASSUME NEW t \in Tasks, TickStub(t) PROVE Kept
    <2>1. Consistent(db', minted)
      BY <1>a, <1>16, MigrationConsistent DEF TickStub, Commit
    <2>2. Carried([pc |-> "tick_read_queue", now |-> task[t].now], minted)
      BY CarriedPlain
    <2> QED BY <1>e, <1>16, <2>1, <2>2 DEF TickStub
  <1>17. ASSUME NEW t \in Tasks, TickReadQueue(t) PROVE Kept
    <2>1. ASSUME NEW s \in Batches(db)
          PROVE  Carried([pc |-> "tick_begin", now |-> task[t].now, pairs |-> s], minted)
      <3>1. s \in Seq(Id \X Id) /\ \A k \in 1..Len(s) : s[k] \in db.queue
        BY <1>a, BatchType
      <3>2. \A k \in 1..Len(s) : s[k][1] # s[k][2]
        BY <1>a, <3>1 DEF Consistent, Edges
      <3> QED BY <3>2 DEF Carried
    <2> QED BY <1>a, <1>d, <1>e, <1>17, <2>1 DEF TickReadQueue
  <1>18. ASSUME NEW t \in Tasks, TickBegin(t) PROVE Kept
    <2>1. \A k \in 1..Len(task[t].pairs) : task[t].pairs[k][1] # task[t].pairs[k][2]
      BY <1>a, <1>18 DEF TickBegin, At, Carried
    <2>2. Carried([pc |-> "tick_judge", now |-> task[t].now, pairs |-> task[t].pairs,
                   draft |-> db], minted)
      BY <1>a, <2>1 DEF Carried
    <2> QED BY <1>a, <1>e, <1>18, <2>2 DEF TickBegin
  <1>19. ASSUME NEW t \in Tasks, TickJudge(t) PROVE Kept
    <2> DEFINE p == Head(task[t].pairs)
               rest == Tail(task[t].pairs)
    <2>1. /\ task[t].pairs \in Seq(Id \X Id) /\ task[t].draft \in Database /\ task[t].pairs # <<>>
          /\ Consistent(task[t].draft, minted)
          /\ \A k \in 1..Len(task[t].pairs) : task[t].pairs[k][1] # task[t].pairs[k][2]
      BY <1>a, <1>19, StageFields DEF TickJudge, At, Carried
    <2>2. p \in Id \X Id /\ p[1] # p[2]
      BY <2>1
    <2>3. \A k \in 1..Len(rest) : rest[k][1] # rest[k][2]
      BY <2>1
    <2>4. PICK d \in Outcomes(task[t].draft, p) :
            Goto(t, [pc |-> "tick_judge", now |-> task[t].now, pairs |-> rest,
                     draft |-> Dequeue(d, p)])
      BY <1>19 DEF TickJudge
    <2>5. Consistent(Dequeue(d, p), minted)
      BY <2>1, <2>2, OutcomesConsistent
    <2>6. Carried([pc |-> "tick_judge", now |-> task[t].now, pairs |-> rest,
                   draft |-> Dequeue(d, p)], minted)
      BY <2>3, <2>5 DEF Carried
    <2> QED BY <1>a, <1>e, <1>19, <2>4, <2>6 DEF TickJudge
  <1>20. ASSUME NEW t \in Tasks, TickCommit(t) PROVE Kept
    <2>1. Consistent(db', minted)
      BY <1>a, <1>20 DEF TickCommit, At, Carried
    <2> QED BY <1>d, <1>e, <1>20, <2>1 DEF TickCommit
  <1>21. ASSUME NEW t \in Tasks, TickReadFading(t) PROVE Kept
    <2>1. \A F, C : Carried([pc |-> "tick_compress", now |-> task[t].now, fading |-> F,
                            core |-> C, made |-> 0], minted)
      BY CarriedPlain
    <2> QED BY <1>a, <1>e, <1>21, <2>1 DEF TickReadFading
  <1>22. ASSUME NEW t \in Tasks, TickCompress(t) PROVE Kept
    <2>1. PICK G \in SUBSET task[t].fading, id \in Id \ minted, imp \in Importances :
            /\ Commit(Insert(db, id, IF G \subseteq task[t].core THEN "core" ELSE "other",
                             imp, task[t].now))
            /\ minted' = minted \cup {id}
            /\ Goto(t, [pc |-> "tick_supersede", now |-> task[t].now,
                        fading |-> task[t].fading, core |-> task[t].core,
                        made |-> task[t].made, group |-> G, summary |-> id])
      BY <1>22 DEF TickCompress
    <2>2. Carried([pc |-> "tick_supersede", now |-> task[t].now,
                   fading |-> task[t].fading, core |-> task[t].core,
                   made |-> task[t].made, group |-> G, summary |-> id], minted')
      BY <2>1 DEF Carried
    <2>3. \A u \in Tasks : Carried(task'[u], minted')
      BY <1>a, <2>1, <2>2, CarriedGoto
    <2>4. Consistent(db', minted')
      BY <1>a, <2>1, InsertConsistent DEF Commit
    <2> QED BY <2>3, <2>4
  <1>23. ASSUME NEW t \in Tasks, TickSupersede(t) PROVE Kept
    <2> DEFINE s == task[t]
    <2>1. s.now \in Nat /\ s.summary \in Id /\ s.summary \in minted
      BY <1>a, <1>23, StageFields DEF TickSupersede, At, Carried
    <2>2. /\ MarkSuperseded(db, s.group, s.summary) \in Database
          /\ Consistent(MarkSuperseded(db, s.group, s.summary), minted)
      BY <1>a, <2>1, MarkType, MarkConsistent
    <2>3. Consistent(db', minted)
      BY <1>23, <2>1, <2>2, MigrationConsistent DEF TickSupersede, Commit
    <2>4. Carried([pc |-> "tick_compress", now |-> s.now, fading |-> s.fading \ s.group,
                   core |-> s.core, made |-> s.made + 1], minted)
      BY CarriedPlain
    <2> QED BY <1>b, <1>e, <1>23, <2>3, <2>4 DEF TickSupersede
  <1>24. ASSUME NEW t \in Tasks, TickEnd(t) \/ AcquireTimeout(t) \/ Disconnect(t) PROVE Kept
    BY <1>a, <1>b, <1>e, <1>24 DEF TickEnd, AcquireTimeout, Disconnect
  <1>25. ASSUME SingleWrite PROVE Kept
    <2>1. ASSUME NEW op, NEW d, Consistent(d, minted), Write(op, d) PROVE Kept
      BY <1>a, <2>1 DEF Write, Commit
    <2>2. CASE Update
      <3>1. PICK i \in db.live, cat \in {"core", "other"}, f \in Floors, imp \in Importances :
              \E d1 \in {db, SetCategory(db, {i}, cat)} :
              \E d2 \in {d1, SetFloor(d1, {i}, f)} :
              \E d3 \in {d2, SetImportance(d2, {i}, imp)} : Write("update", d3)
        BY <2>2 DEF Update
      <3>2. ASSUME NEW d \in Database, Consistent(d, minted)
            PROVE  /\ SetCategory(d, {i}, cat) \in Database
                   /\ SetFloor(d, {i}, f) \in Database
                   /\ Consistent(SetCategory(d, {i}, cat), minted)
                   /\ Consistent(SetFloor(d, {i}, f), minted)
                   /\ Consistent(SetImportance(d, {i}, imp), minted)
        BY <3>2, UpdateType, UpdateConsistent
      <3> QED BY <1>a, <2>1, <3>1, <3>2
    <2>3. CASE UpdateRetention
      BY <1>a, <2>1, <2>3, UpdateConsistent DEF UpdateRetention
    <2>4. CASE BatchUpdate
      BY <1>a, <2>1, <2>4, UpdateConsistent DEF BatchUpdate
    <2>5. CASE DeleteMany \/ Clear
      BY <1>a, <2>1, <2>5, DeleteConsistent DEF DeleteMany, Clear
    <2>6. CASE Supersede
      <3>1. minted \cup {Foreign} \subseteq (minted \cap Id) \cup {Foreign}
        BY <1>a
      <3>2. \A S \in SUBSET db.live, by \in minted \cup {Foreign} :
              Consistent(MarkSuperseded(db, S, by), minted)
        BY <1>a, <3>1, MarkConsistent
      <3> QED BY <2>1, <2>6, <3>2 DEF Supersede
    <2>7. CASE ToCold
      BY <1>a, <2>1, <2>7, MigrationConsistent DEF ToCold
    <2>8. CASE ToHot \/ ToStub
      BY <1>a, <2>1, <2>8, MigrationConsistent DEF ToHot, ToStub
    <2>9. CASE Link
      <3>1. ASSUME NEW e, ForeignKeysHold(db, {e}) PROVE Consistent(Associate(db, {e}), minted)
        <4> DEFINE none == {}
                   one == {e}
        <4>1. ForeignKeysHold(db, one \cup none) /\ \A q \in none : q[1] # q[2]
          BY <3>1
        <4> HIDE DEF none, one
        <4>2. Consistent(Associate(db, one), minted)
          BY <1>a, <4>1, EdgesConsistent
        <4> QED BY <4>2 DEF one
      <3> QED BY <1>a, <2>1, <2>9, <3>1 DEF Link
    <2>10. CASE Unlink
      BY <1>a, <2>1, <2>10, UnlinkConsistent DEF Unlink
    <2> QED BY <1>25, <2>2, <2>3, <2>4, <2>5, <2>6, <2>7, <2>8, <2>9, <2>10 DEF SingleWrite
  <1>26. ASSUME Restart PROVE Kept
    BY <1>a, <1>b, <1>26 DEF Restart
  <1>27. ASSUME Advance PROVE Kept
    BY <1>a, <1>27 DEF Advance
  <1>28. ASSUME UNCHANGED vars PROVE Kept
    BY <1>a, <1>28 DEF vars
  <1>29. Kept
    BY <1>1, <1>2, <1>3, <1>4, <1>5, <1>6, <1>7, <1>8, <1>9, <1>10, <1>11, <1>12, <1>13, <1>14,
       <1>15, <1>16, <1>17, <1>18, <1>19, <1>20, <1>21, <1>22, <1>23, <1>24, <1>25, <1>26, <1>27,
       <1>28 DEF Next, Start, Step
  <1> QED BY <1>t, <1>29 DEF IInv

(* The invariant holds in every reachable state.                           *)
LEMMA Invariance == Spec => []IInv
  <1>1. Init => IInv
    <2> SUFFICES ASSUME Init PROVE IInv
      OBVIOUS
    <2>1. TypeOK
      BY EmptyType DEF Init, TypeOK, TaskState
    <2>2. Consistent(db, minted)
      BY EmptyConsistent DEF Init
    <2>3. \A t \in Tasks : Carried(task[t], minted)
      BY CarriedPlain DEF Init, Idle
    <2> QED BY <2>1, <2>2, <2>3 DEF IInv
  <1> QED BY <1>1, IInvStep, PTL DEF Spec

(* No edge and no queued pair ever loses one of its memories.              *)
THEOREM IntegrityHolds == Spec => []ReferentialIntegrity
  <1>1. IInv => ReferentialIntegrity
    BY DEF IInv, Consistent, Edges, ReferentialIntegrity
  <1> QED BY <1>1, Invariance, PTL

(* is_cold and cold_since never disagree.                                  *)
THEOREM ColdFlagsHold == Spec => []ColdFlagsAgree
  <1>1. IInv => ColdFlagsAgree
    BY DEF IInv, Consistent, Archival, ColdFlagsAgree
  <1> QED BY <1>1, Invariance, PTL

(* A full memory never loses its embedding.                                *)
THEOREM EmbeddingHolds == Spec => []EmbeddedUnlessStub
  <1>1. IInv => EmbeddedUnlessStub
    BY DEF IInv, Consistent, Archival, EmbeddedUnlessStub
  <1> QED BY <1>1, Invariance, PTL

(* A hidden memory always names a successor that was stored before it.     *)
THEOREM SuccessorHolds == Spec => []SuccessorKnown
  <1>1. IInv => SuccessorKnown
    BY DEF IInv, Consistent, Successors, SuccessorKnown
  <1> QED BY <1>1, Invariance, PTL

(* Conflict verdicts never form a cycle, for any number of memories,       *)
(* concurrent ticks and pairs in a batch.                                  *)
THEOREM VerdictsAcyclic == Spec => []ContradictionsAcyclic
  <1>1. IInv => ContradictionsAcyclic
    BY DEF IInv, Consistent, Verdicts, Lost, Contradicted, ContradictionsAcyclic
  <1> QED BY <1>1, Invariance, PTL
=============================================================================
