------------------------------- MODULE Store -------------------------------
(***************************************************************************)
(* The SQLite tables of the daemon (crates/store) that the lifecycle       *)
(* depends on, and the repository operations on them.                      *)
(*                                                                         *)
(* A database value is a record of columns.  A Boolean column is the set   *)
(* of ids for which it is 1, any other column a function on ids; the ids   *)
(* outside `live' have no row and hold the default of every column.  One   *)
(* operator stands for one SQL statement or one transaction: it takes the  *)
(* database and returns the database after the commit.  The tables         *)
(* belong to a single user: every statement carries `user_id = ?'.         *)
(***************************************************************************)
EXTENDS Integers

CONSTANTS
    Id,                   \* memory ids (ULIDs: minted once, never reused)
    NoId, NoTime,         \* SQL NULL in an id column and in cold_since
    Foreign,              \* a client-chosen string that is no memory's id
    Floors,               \* retention floors in percent
    Importances,          \* importance values (only their order matters)
    CoreAccessThreshold,  \* core_access_threshold: 10
    ColdMigrationDays     \* COLD_MIGRATION_DAYS: 7

CoreFloor == 60

ASSUME StoreAssumption ==
    /\ NoId \notin Id /\ Foreign \notin Id /\ Foreign # NoId
    /\ NoTime \notin Nat
    /\ Floors \subseteq 0..100 /\ {0, CoreFloor} \subseteq Floors
    /\ Importances \subseteq Nat /\ Importances # {}
    /\ CoreAccessThreshold \in Nat \ {0}
    /\ ColdMigrationDays \in Nat \ {0}

Database ==
    [ live           : SUBSET Id,
      core           : SUBSET Id,    \* category = 'core'
      cold           : SUBSET Id,    \* is_cold
      stub           : SUBSET Id,    \* is_stub
      superseded     : SUBSET Id,    \* is_superseded
      embedded       : SUBSET Id,    \* embedding IS NOT NULL
      coldSince      : [Id -> Nat \cup {NoTime}],
      supersededBy   : [Id -> Id \cup {NoId, Foreign}],
      contradictedBy : [Id -> Id \cup {NoId}],
      floor          : [Id -> Floors],
      importance     : [Id -> Importances],
      created        : [Id -> Nat],
      accessed       : [Id -> Nat],          \* last_accessed_at
      accesses       : [Id -> 0..CoreAccessThreshold],
      days           : [Id -> 0..ColdMigrationDays],
      assoc          : SUBSET (Id \X Id),
      queue          : SUBSET (Id \X Id) ]   \* <<new_memory_id, existing_memory_id>>

DefaultImportance == CHOOSE i \in Importances : TRUE

Empty ==
    [ live |-> {}, core |-> {}, cold |-> {}, stub |-> {}, superseded |-> {}, embedded |-> {},
      coldSince      |-> [i \in Id |-> NoTime],
      supersededBy   |-> [i \in Id |-> NoId],
      contradictedBy |-> [i \in Id |-> NoId],
      floor          |-> [i \in Id |-> 0],
      importance     |-> [i \in Id |-> DefaultImportance],
      created        |-> [i \in Id |-> 0],
      accessed       |-> [i \in Id |-> 0],
      accesses       |-> [i \in Id |-> 0],
      days           |-> [i \in Id |-> 0],
      assoc |-> {}, queue |-> {} ]

\* UPDATE memories SET f = v WHERE id IN S
Put(f, S, v) == [i \in Id |-> IF i \in S THEN v ELSE f[i]]

\* SET n = n + 1: the counters are only compared with cap, so they stop there.
Bump(f, S, cap) == [i \in Id |-> IF i \in S /\ f[i] < cap THEN f[i] + 1 ELSE f[i]]

-----------------------------------------------------------------------------
(* Rows.                                                                   *)

\* A new row: hot, not superseded, no stub, embedded; the floor of a core
\* memory is raised at encoding time.
Insert(d, id, cat, imp, now) ==
    [d EXCEPT !.live = d.live \cup {id},
              !.core = IF cat = "core" THEN d.core \cup {id} ELSE d.core,
              !.embedded = d.embedded \cup {id},
              !.floor = Put(d.floor, {id}, IF cat = "core" THEN CoreFloor ELSE 0),
              !.importance = Put(d.importance, {id}, imp),
              !.created = Put(d.created, {id}, now),
              !.accessed = Put(d.accessed, {id}, now)]

\* Mutant: the foreign keys lack ON DELETE CASCADE.
DeleteWithoutCascade(d, S) ==
    [d EXCEPT !.live = d.live \ S, !.core = d.core \ S, !.cold = d.cold \ S, !.stub = d.stub \ S,
              !.superseded = d.superseded \ S, !.embedded = d.embedded \ S,
              !.coldSince = Put(d.coldSince, S, NoTime)]

\* DELETE FROM memories: both ends of associations and of conflict_queue
\* are declared ON DELETE CASCADE.  superseded_by and contradicted_by are
\* plain text and keep pointing at the deleted row.
Delete(d, S) ==
    [ live           |-> d.live \ S,
      core           |-> d.core \ S,
      cold           |-> d.cold \ S,
      stub           |-> d.stub \ S,
      superseded     |-> d.superseded \ S,
      embedded       |-> d.embedded \ S,
      coldSince      |-> Put(d.coldSince, S, NoTime),
      supersededBy   |-> Put(d.supersededBy, S, NoId),
      contradictedBy |-> Put(d.contradictedBy, S, NoId),
      floor          |-> Put(d.floor, S, 0),
      importance     |-> Put(d.importance, S, DefaultImportance),
      created        |-> Put(d.created, S, 0),
      accessed       |-> Put(d.accessed, S, 0),
      accesses       |-> Put(d.accesses, S, 0),
      days           |-> Put(d.days, S, 0),
      assoc          |-> {e \in d.assoc : e[1] \notin S /\ e[2] \notin S},
      queue          |-> {e \in d.queue : e[1] \notin S /\ e[2] \notin S} ]

\* The columns of MemoryUpdate that the lifecycle reads.
SetCategory(d, S, cat) ==
    [d EXCEPT !.core = IF cat = "core" THEN d.core \cup (S \cap d.live) ELSE d.core \ S]

SetFloor(d, S, f) == [d EXCEPT !.floor = Put(d.floor, S \cap d.live, f)]

SetImportance(d, S, imp) == [d EXCEPT !.importance = Put(d.importance, S \cap d.live, imp)]

\* Mutant: the migration is dated one day back.
MigrateToColdDayBefore(d, S, since) ==
    [d EXCEPT !.cold = d.cold \cup (S \cap d.live),
              !.coldSince = Put(d.coldSince, S \cap d.live, since - 1)]

MigrateToCold(d, S, since) ==
    [d EXCEPT !.cold = d.cold \cup (S \cap d.live),
              !.coldSince = Put(d.coldSince, S \cap d.live, since)]

\* Mutant: the restore leaves the date of the migration behind.
MigrateToHotKeepingDate(d, S) == [d EXCEPT !.cold = d.cold \ S, !.days = Put(d.days, S, 0)]

MigrateToHot(d, S) ==
    [d EXCEPT !.cold = d.cold \ S,
              !.coldSince = Put(d.coldSince, S, NoTime),
              !.days = Put(d.days, S, 0)]

\* The lifecycle request keeps the embedding; the tick clears it.
ConvertToStub(d, S) == [d EXCEPT !.stub = d.stub \cup (S \cap d.live)]

MarkSuperseded(d, S, by) ==
    [d EXCEPT !.superseded = d.superseded \cup (S \cap d.live),
              !.supersededBy = Put(d.supersededBy, S \cap d.live, by)]

\* retrieval_count + 1 and one more session.  Stability is not modelled.
ApplyDirectBoost(d, S, now) ==
    [d EXCEPT !.accessed = Put(d.accessed, S \cap d.live, now),
              !.accesses = Bump(d.accesses, S \cap d.live, CoreAccessThreshold)]

PromoteToCore(d, S) ==
    LET T == (S \cap d.live) \ d.core
    IN  [d EXCEPT !.core = d.core \cup T, !.floor = Put(d.floor, T, CoreFloor)]

-----------------------------------------------------------------------------
(* Associations and the conflict queue: foreign keys are enforced, and a   *)
(* violation fails the statement and with it the transaction.              *)

ForeignKeysHold(d, E) == \A e \in E : e[1] \in d.live /\ e[2] \in d.live

Enqueue(d, E) == [d EXCEPT !.queue = d.queue \cup E]

Associate(d, E) == [d EXCEPT !.assoc = d.assoc \cup E]

Dissociate(d, E) == [d EXCEPT !.assoc = d.assoc \ E]

\* Both directions of every pair of two distinct ids of S.
AllPairs(S) == {e \in S \X S : e[1] # e[2]}

\* <<i, j>> and <<j, i>> for every j of S.
LinksOf(i, S) == {<<i, j>> : j \in S} \cup {<<j, i>> : j \in S}

-----------------------------------------------------------------------------
(* Reads.                                                                  *)

Hot(d) == d.live \ (d.cold \cup d.stub \cup d.superseded)

\* deep_recall drops the superseded and the cold filter; stubs stay hidden.
CandidatesForSearch(d, deep) ==
    (IF deep THEN d.live \ d.stub ELSE Hot(d)) \cap d.embedded

\* linked_for_many joins associations with memories and filters nothing
\* but the edge weight; the expansion then skips rows without embedding.
LinkedFor(d, S) == {j \in d.embedded : \E i \in S : <<i, j>> \in d.assoc}
=============================================================================
