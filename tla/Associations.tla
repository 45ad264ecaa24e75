---------------------------- MODULE Associations ----------------------------
(***************************************************************************)
(* The strengths that the requests of the daemon give to memories and to   *)
(* the links between them: the weight of an association, its               *)
(* last_co_retrieval column, and the stability of a memory.                *)
(*                                                                         *)
(* Two ways of adding to a strength meet here.  strengthen_pairs and the   *)
(* reinforcement of a near-duplicate add inside one UPDATE; a link request *)
(* (create_or_strengthen), the co-creation links of a stored batch and the *)
(* boost of a search read on a reader connection, compute, and write the   *)
(* result on the writer connection later.  A statement or a transaction is *)
(* one atomic step; what was read is kept in the record of its task.       *)
(*                                                                         *)
(* Module Lifecycle treats the rows themselves; here a row is its id.      *)
(***************************************************************************)
EXTENDS Integers, Sequences, FiniteSets, Functions

CONSTANTS
    Id,            \* memory ids (ULIDs: minted once, never reused)
    Tasks,         \* requests that may be in flight together
    Ops,           \* the requests the clients issue
    Full,          \* 1.0: weights and stabilities are 0..Full
    Strengths,     \* strength of Link, initial_link_weight of StoreBatch: any number
    Amount,        \* ASSOCIATION_STRENGTHEN_AMOUNT: 0.1
    TagWeights,    \* what synaptic_tag_weight returns: at most 0.5
    Stabilities,   \* stability_from_importance of a new memory, or set by Update
    NewStability,  \* stability of MemoryRow::new_minimal, which StoreBatch keeps
    Reinforcement, \* STABILITY_REINFORCEMENT_AMOUNT: 0.05
    Gains,         \* boost of a search hit: direct_boost or associative_boost, spaced
    BatchSize,     \* bound on the memories of one StoreBatch
    MaxRequests    \* bound on the requests of a behaviour

AllOps == {"batch", "link", "unlink", "store", "search", "update", "delete", "disconnect"}

ASSUME AssociationsAssumption ==
    /\ Ops \subseteq AllOps
    /\ Full \in Nat \ {0}
    /\ Strengths \subseteq Int
    /\ TagWeights \subseteq 0..Full
    /\ Stabilities \subseteq 0..Full /\ NewStability \in 0..Full
    /\ Gains \subseteq 0..Full
    /\ {Amount, Reinforcement} \subseteq 0..Full
    /\ {BatchSize, MaxRequests} \subseteq Nat

Edge == Id \X Id

VARIABLES
    live,        \* the rows of memories
    minted,      \* every id handed out so far
    weight,      \* edge -> weight: its domain is the table associations
    dated,       \* the edges whose last_co_retrieval is not NULL
    stability,   \* id -> stability, 0 without a row
    task,        \* what each request in flight has read and does next
    requests,    \* how many requests were issued
    earned,      \* history: what an edge has ever been given
    granted,     \* history: what a memory has ever been given
    cut,         \* history: edges that a request removed and none restored
    acked        \* history: the batches whose storing was acknowledged

table   == <<live, weight, dated, stability>>
history == <<earned, granted, cut, acked>>
vars    == <<table, minted, task, requests, history>>

Idle == [pc |-> "idle"]

\* A request that links the memories of ids pair by pair, i < j: it is at
\* the pair (i, j), on the way back from j to i or not.  A Link request is
\* the one pair of its two memories, both ways or one.  What was computed
\* from the weight that was read is new.
Chain ==
    [pc : {"link_read", "link_write"}, op : {"batch", "link"}, ids : Seq(Id),
     i : Nat, j : Nat, back : BOOLEAN, both : BOOLEAN, bump : Strengths, new : 0..Full]

\* The stages of a request, named after the step that comes next.
TaskState ==
    {Idle}
    \cup [pc : {"batch_insert"}, ids : Seq(Id), size : 0..BatchSize, bump : Strengths]
    \cup Chain
    \cup [pc : {"store_search"}, new : Id]
    \cup [pc : {"store_tag"}, new : Id, near : SUBSET Id,
          tags : UNION {[S -> TagWeights] : S \in SUBSET Id}]
    \cup [pc : {"search_read"}, hits : SUBSET Id]
    \cup [pc : {"search_boost"}, hits : SUBSET Id,
          boosts : UNION {[S -> 0..Full] : S \in SUBSET Id}]
    \cup [pc : {"search_strengthen"}, hits : SUBSET Id]

TypeOK ==
    /\ live \subseteq minted /\ minted \subseteq Id
    /\ DOMAIN weight \subseteq live \X live
    /\ weight \in [DOMAIN weight -> 0..Full]
    /\ dated \subseteq DOMAIN weight
    /\ stability \in [Id -> 0..Full]
    /\ task \in [Tasks -> TaskState]
    /\ requests \in 0..MaxRequests
    /\ earned \in [Edge -> 0..Full] /\ granted \in [Id -> 0..Full]
    /\ cut \subseteq Edge /\ acked \subseteq Seq(Id)

Init ==
    /\ live = {} /\ minted = {}
    /\ weight = <<>> /\ dated = {}
    /\ stability = [i \in Id |-> 0]
    /\ task = [t \in Tasks |-> Idle]
    /\ requests = 0
    /\ earned = [e \in Edge |-> 0] /\ granted = [i \in Id |-> 0]
    /\ cut = {} /\ acked = {}

At(t, pc) == task[t].pc = pc
Goto(t, s) == task' = [task EXCEPT ![t] = s]

Request(op) ==
    /\ op \in Ops /\ requests < MaxRequests
    /\ requests' = requests + 1

Starts(t, op) == task[t] = Idle /\ Request(op)

\* Mutant: nothing bounds the sum.
ClampBelow(w) == IF w < 0 THEN 0 ELSE w

\* .min(1.0).max(0.0)
Clamp(w) == IF w > Full THEN Full ELSE IF w < 0 THEN 0 ELSE w

Existing(e) == IF e \in DOMAIN weight THEN weight[e] ELSE 0

\* Foreign keys are enforced: both ends of an inserted edge must exist.
EndsLive(e) == e[1] \in live /\ e[2] \in live

\* Edges given a new weight, and the history of it.
Upsert(new, gained) ==
    LET E == DOMAIN new
    IN  /\ weight' = [e \in DOMAIN weight \cup E |-> IF e \in E THEN new[e] ELSE weight[e]]
        /\ earned' = [e \in Edge |-> IF e \in E THEN Clamp(earned[e] + gained[e]) ELSE earned[e]]
        /\ cut' = cut \ E

InsertRow(id, s) ==
    /\ live' = live \cup {id}
    /\ minted' = minted \cup {id}
    /\ stability' = [stability EXCEPT ![id] = s]
    /\ granted' = [granted EXCEPT ![id] = s]

RemoveEdges(E) ==
    /\ weight' = Restrict(weight, DOMAIN weight \ E)
    /\ dated' = dated \ E
    /\ cut' = cut \cup (E \cap DOMAIN weight)

-----------------------------------------------------------------------------
(* Chains of create_or_strengthen: the read and the write of one edge are  *)
(* two steps, and the edges of a chain follow each other.                  *)

\* The edge a chain is at.
EdgeAt(s) == IF s.back THEN <<s.ids[s.j], s.ids[s.i]>> ELSE <<s.ids[s.i], s.ids[s.j]>>

\* The first pair of ids, or its one direction.
FirstPair(op, ids, both, bump) ==
    [pc |-> "link_read", op |-> op, ids |-> ids, i |-> 1, j |-> 2,
     back |-> FALSE, both |-> both, bump |-> bump, new |-> 0]

MoveTo(t, s, i, j, back) ==
    /\ Goto(t, [s EXCEPT !.pc = "link_read", !.i = i, !.j = j, !.back = back, !.new = 0])
    /\ UNCHANGED acked

\* The request is answered; a batch with the ids it stored.
Finished(t, op, ids) ==
    /\ Goto(t, Idle)
    /\ acked' = IF op = "batch" THEN acked \cup {ids} ELSE acked

\* The way back, the next j, the next i, or the end of both loops.
Continue(t, s) ==
    LET n == Len(s.ids)
        turn == s.both /\ ~s.back
    IN  \/ turn /\ MoveTo(t, s, s.i, s.j, TRUE)
        \/ ~turn /\ s.j < n /\ MoveTo(t, s, s.i, s.j + 1, FALSE)
        \/ ~turn /\ s.j = n /\ s.i + 1 < n /\ MoveTo(t, s, s.i + 1, s.i + 2, FALSE)
        \/ ~turn /\ s.j = n /\ s.i + 1 = n /\ Finished(t, s.op, s.ids)

\* Mutant: the weight of the opposite direction is read.
LinkReadReversed(t) ==
    /\ At(t, "link_read")
    /\ LET s == task[t] e == EdgeAt(s)
       IN  Goto(t, [s EXCEPT !.pc = "link_write",
                             !.new = Clamp(Existing(<<e[2], e[1]>>) + s.bump)])
    /\ UNCHANGED <<requests, table, minted, history>>

LinkRead(t) ==
    /\ At(t, "link_read")
    /\ LET s == task[t]
       IN  Goto(t, [s EXCEPT !.pc = "link_write",
                             !.new = Clamp(Existing(EdgeAt(s)) + s.bump)])
    /\ UNCHANGED <<requests, table, minted, history>>

\* Mutant: an error of the insert is dropped and the chain goes on.
LinkWriteSwallowing(t) ==
    /\ At(t, "link_write")
    /\ LET s == task[t] e == EdgeAt(s)
       IN  /\ \/ /\ EndsLive(e)
                 /\ Upsert([x \in {e} |-> s.new], [x \in {e} |-> Clamp(s.bump)])
                 /\ dated' = dated \cup {e}
              \/ /\ ~EndsLive(e)
                 /\ UNCHANGED <<weight, earned, cut, dated>>
           /\ Continue(t, s)
    /\ UNCHANGED <<requests, live, minted, stability, granted>>

\* Mutant: the upsert leaves last_co_retrieval out.
LinkWriteUndated(t) ==
    /\ At(t, "link_write")
    /\ LET s == task[t] e == EdgeAt(s)
       IN  \/ /\ EndsLive(e)
              /\ Upsert([x \in {e} |-> s.new], [x \in {e} |-> Clamp(s.bump)])
              /\ Continue(t, s)
           \/ /\ ~EndsLive(e)
              /\ Goto(t, Idle)
              /\ UNCHANGED <<weight, earned, cut, acked>>
    /\ UNCHANGED <<requests, live, minted, dated, stability, granted>>

\* The computed weight replaces whatever the edge holds by now.  When an
\* end was deleted the statement fails and the request ends with an error;
\* the links made so far stay.
LinkWrite(t) ==
    /\ At(t, "link_write")
    /\ LET s == task[t] e == EdgeAt(s)
       IN  \/ /\ EndsLive(e)
              /\ Upsert([x \in {e} |-> s.new], [x \in {e} |-> Clamp(s.bump)])
              /\ dated' = dated \cup {e}
              /\ Continue(t, s)
           \/ /\ ~EndsLive(e)
              /\ Goto(t, Idle)
              /\ UNCHANGED <<weight, earned, cut, dated, acked>>
    /\ UNCHANGED <<requests, live, minted, stability, granted>>

\* Memory::Link, one way or both; a client may name any ids.
LinkStart(t) ==
    /\ Starts(t, "link")
    /\ \E e \in Edge, both \in BOOLEAN, bump \in Strengths :
          Goto(t, FirstPair("link", e, both, bump))
    /\ UNCHANGED <<table, minted, history>>

-----------------------------------------------------------------------------
(* Memory::StoreBatch: the rows one by one, then the links of every pair.  *)

BatchStart(t) ==
    /\ Starts(t, "batch")
    /\ \E n \in 1..BatchSize, bump \in Strengths :
          Goto(t, [pc |-> "batch_insert", ids |-> <<>>, size |-> n, bump |-> bump])
    /\ UNCHANGED <<table, minted, history>>

BatchInsert(t) ==
    /\ At(t, "batch_insert")
    /\ \E id \in Id \ minted :
          /\ InsertRow(id, NewStability)
          /\ LET s == task[t] ids == Append(s.ids, id)
             IN  \/ /\ Len(ids) < s.size
                    /\ Goto(t, [s EXCEPT !.ids = ids])
                    /\ UNCHANGED acked
                 \/ /\ Len(ids) >= s.size /\ Len(ids) > 1
                    /\ Goto(t, FirstPair("batch", ids, TRUE, s.bump))
                    /\ UNCHANGED acked
                 \/ /\ Len(ids) >= s.size /\ Len(ids) = 1
                    /\ Finished(t, "batch", ids)
    /\ UNCHANGED <<requests, weight, dated, earned, cut>>

-----------------------------------------------------------------------------
(* Memory::Store: insert, search, and one transaction that reinforces the  *)
(* near-duplicates and tags the neighbours (queue_conflicts_for).          *)

StoreInsert(t) ==
    /\ Starts(t, "store")
    /\ \E id \in Id \ minted, s \in Stabilities :
          /\ InsertRow(id, s)
          /\ Goto(t, [pc |-> "store_search", new |-> id])
    /\ UNCHANGED <<weight, dated, earned, cut, acked>>

\* The bands are exclusive: a hit is reinforced, tagged or neither.
StoreSearch(t) ==
    /\ At(t, "store_search")
    /\ LET hits == live \ {task[t].new}
       IN  \E near \in SUBSET hits : \E S \in SUBSET (hits \ near) :
              \E tags \in [S -> TagWeights] :
                 Goto(t, [pc |-> "store_tag", new |-> task[t].new, near |-> near, tags |-> tags])
    /\ UNCHANGED <<requests, table, minted, history>>

\* A tag overwrites the weight of an edge and leaves its date alone; a tag
\* on a deleted memory rolls everything back.
StoreTag(t) ==
    /\ At(t, "store_tag")
    /\ LET s == task[t]
           E == {<<s.new, i>> : i \in DOMAIN s.tags} \cup {<<i, s.new>> : i \in DOMAIN s.tags}
           new == [e \in E |-> s.tags[IF e[1] = s.new THEN e[2] ELSE e[1]]]
           R == s.near \cap live
       IN  \/ /\ \A e \in E : EndsLive(e)
              /\ Upsert(new, new)
              /\ stability' = [i \in Id |-> IF i \in R THEN Clamp(stability[i] + Reinforcement)
                                                       ELSE stability[i]]
              /\ granted' = [i \in Id |-> IF i \in R THEN Clamp(granted[i] + Reinforcement)
                                                     ELSE granted[i]]
           \/ /\ \E e \in E : ~EndsLive(e)
              /\ UNCHANGED <<weight, earned, cut, stability, granted>>
    /\ Goto(t, Idle)
    /\ UNCHANGED <<requests, live, minted, dated, acked>>

-----------------------------------------------------------------------------
(* Memory::Search: the hits, their rows, the boost, the pairs.             *)

SearchQuery(t) ==
    /\ Starts(t, "search")
    /\ \E H \in SUBSET live \ {{}} : Goto(t, [pc |-> "search_read", hits |-> H])
    /\ UNCHANGED <<table, minted, history>>

\* The new stability is computed from the row that is read here; stubs
\* among the hits are left out.
SearchRead(t) ==
    /\ At(t, "search_read")
    /\ \E rows \in SUBSET (task[t].hits \cap live) : \E gain \in [rows -> Gains] :
          /\ Goto(t, [pc |-> "search_boost", hits |-> task[t].hits,
                      boosts |-> [i \in rows |-> Clamp(stability[i] + gain[i])]])
          /\ granted' = [i \in Id |-> IF i \in rows THEN Clamp(granted[i] + gain[i])
                                                    ELSE granted[i]]
    /\ UNCHANGED <<requests, table, minted, earned, cut, acked>>

\* apply_direct_boost: SET stability = ?, whatever the row holds by now.
SearchBoost(t) ==
    /\ At(t, "search_boost")
    /\ LET b == task[t].boosts
       IN  stability' = [i \in Id |-> IF i \in DOMAIN b \cap live THEN b[i] ELSE stability[i]]
    /\ Goto(t, IF Cardinality(task[t].hits) < 2 THEN Idle
               ELSE [pc |-> "search_strengthen", hits |-> task[t].hits])
    /\ UNCHANGED <<requests, live, minted, weight, dated, history>>

\* strengthen_pairs: one transaction, rolled back when a hit was deleted.
SearchStrengthen(t) ==
    /\ At(t, "search_strengthen")
    /\ LET H == task[t].hits
           E == {e \in H \X H : e[1] # e[2]}
       IN  \/ /\ H \subseteq live
              /\ Upsert([e \in E |-> Clamp(Existing(e) + Amount)], [e \in E |-> Amount])
              /\ dated' = dated \cup E
           \/ /\ ~(H \subseteq live)
              /\ UNCHANGED <<weight, earned, cut, dated>>
    /\ Goto(t, Idle)
    /\ UNCHANGED <<requests, live, minted, stability, granted, acked>>

-----------------------------------------------------------------------------
(* Requests of a single statement.                                         *)

\* Memory::Unlink, one way or both.
Unlink ==
    /\ Request("unlink")
    /\ \E e \in DOMAIN weight, both \in BOOLEAN :
          RemoveEdges(IF both THEN {e, <<e[2], e[1]>>} ELSE {e})
    /\ UNCHANGED <<live, minted, stability, task, earned, granted, acked>>

\* Memory::Update with a stability.
Update ==
    /\ Request("update")
    /\ \E i \in live, s \in Stabilities :
          /\ stability' = [stability EXCEPT ![i] = s]
          /\ granted' = [granted EXCEPT ![i] = IF s > granted[i] THEN s ELSE granted[i]]
    /\ UNCHANGED <<live, minted, weight, dated, task, earned, cut, acked>>

\* Memory::Delete: both ends of an association are ON DELETE CASCADE.
Delete ==
    /\ Request("delete")
    /\ \E i \in live :
          /\ live' = live \ {i}
          /\ stability' = [stability EXCEPT ![i] = 0]
          /\ RemoveEdges({e \in Edge : i \in {e[1], e[2]}})
    /\ UNCHANGED <<minted, task, earned, granted, acked>>

\* The client disconnects, or an embedding or the wait for a connection of
\* the pool fails: the request ends between two of its steps.
Drop(t) ==
    /\ "disconnect" \in Ops /\ task[t] # Idle
    /\ Goto(t, Idle)
    /\ UNCHANGED <<requests, table, minted, history>>

Next ==
    \/ \E t \in Tasks :
          \/ LinkStart(t) \/ LinkRead(t) \/ LinkWrite(t)
          \/ BatchStart(t) \/ BatchInsert(t)
          \/ StoreInsert(t) \/ StoreSearch(t) \/ StoreTag(t)
          \/ SearchQuery(t) \/ SearchRead(t) \/ SearchBoost(t) \/ SearchStrengthen(t)
          \/ Drop(t)
    \/ Unlink \/ Update \/ Delete

Spec == Init /\ [][Next]_vars

-----------------------------------------------------------------------------
(* Invariants.                                                             *)

(* An acknowledged StoreBatch has linked every pair of its memories both   *)
(* ways: a missing direction was removed by an Unlink or with a deleted    *)
(* memory afterwards, and never lost to a link that failed half way        *)
(* (handle_memory_store_batch reports associations_created).               *)
BatchLinked ==
    \A ids \in acked : \A i, j \in DOMAIN ids :
        i # j => <<ids[i], ids[j]>> \in DOMAIN weight \cup cut

(* No interleaving of the read-then-write requests with the atomic ones    *)
(* makes a link stronger than everything it was ever given, or a memory    *)
(* more stable: races lose strength and never invent it.                   *)
NothingUnearned ==
    /\ \A e \in DOMAIN weight : weight[e] <= earned[e]
    /\ \A i \in live : stability[i] <= granted[i]

(* An edge that a link, a batch or a co-retrieval has strengthened is      *)
(* dated, whatever tag overwrote it before or after and whatever a stale   *)
(* read-then-write wrote: the edges without last_co_retrieval, which are   *)
(* read without the decay of Eq 10, have the weight of a synaptic tag and  *)
(* no more.  repos.rs 867-870 and 884-887 say that only rows older than    *)
(* migration 5 have no date; every tag that handle_memory_store inserts    *)
(* (handlers.rs 536-545) has none either.                                  *)
UndatedIsTag == \A e \in DOMAIN weight \ dated : weight[e] \in TagWeights
=============================================================================
