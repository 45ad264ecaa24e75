----------------------------- MODULE Embeddings -----------------------------
(***************************************************************************)
(* From a text to what can be found again: the cached embedding            *)
(* (crates/embeddings over EmbeddingCacheRepo), the row that stores the    *)
(* vector with the name of its model, the full-text index that triggers    *)
(* keep beside it, and the search that compares vectors.                   *)
(*                                                                         *)
(* The cache outlives the daemon and the daemon may be started with        *)
(* another model.  Requests for the same text may miss the cache together: *)
(* nothing is locked between the lookup, the provider and the insert.      *)
(* A vector is the pair of the model and the canonical text it was made    *)
(* from: providers are deterministic (trait EmbeddingProvider).            *)
(***************************************************************************)
EXTENDS Naturals, Sequences, FiniteSets, SequencesExt, FiniteSetsExt

CONSTANTS
    Id,        \* memory ids
    Tasks,     \* requests in flight
    Blank,     \* whitespace characters, " " among them
    Texts,     \* what clients send: sequences of characters
    Models,    \* (provider, model) pairs the daemon may be started with
    Dim,       \* the length of a model's vectors
    None       \* no row, no embedding

ASSUME EmbeddingsAssumption ==
    /\ " " \in Blank
    /\ None \notin Texts /\ None \notin Models
    /\ Dim \in [Models -> Nat]

Trim(x) ==
    LET solid == {k \in DOMAIN x : x[k] \notin Blank}
    IN  IF solid = {} THEN <<>> ELSE SubSeq(x, Min(solid), Max(solid))

\* Trimmed, and every run of whitespace is one space.
Canonicalise(x) ==
    FoldLeft(LAMBDA out, ch :
                 IF ch \notin Blank THEN Append(out, ch)
                 ELSE IF Last(out) = " " THEN out ELSE Append(out, " "),
             <<>>, Trim(x))

Canon == [x \in Texts |-> Canonicalise(x)]
Canonical == {Canon[x] : x \in Texts}

VARIABLES
    model,      \* the model the daemon was started with
    cache,      \* embedding_cache: (model, text_hash) -> vector
    rows,       \* memories: content, embedding, embedding_model
    fts,        \* memories_fts: pairs (id, content)
    task        \* what each request is doing

vars == <<model, cache, rows, fts, task>>

Vector == Models \X Canonical
Row == [content : Texts, vec : Vector \cup {None}, model : Models]

ASSUME NoneAssumption == None \notin Row /\ None \notin Vector

Idle == [pc |-> "idle"]
TaskState ==
    {Idle}
    \cup [pc : {"lookup", "call"}, op : {"store", "search"}, text : Texts]
    \cup [pc : {"insert", "use"}, op : {"store", "search"}, text : Texts, vec : Vector]
    \cup [pc : {"score"}, vec : Vector, direct : SUBSET Vector, linked : SUBSET Vector]

TypeOK ==
    /\ model \in Models
    /\ DOMAIN cache \subseteq Models \X Canonical /\ cache \in [DOMAIN cache -> Vector]
    /\ rows \in [Id -> Row \cup {None}]
    /\ fts \subseteq Id \X Texts
    /\ task \in [Tasks -> TaskState]

Init ==
    /\ model \in Models
    /\ cache = <<>> /\ fts = {}
    /\ rows = [i \in Id |-> None]
    /\ task = [t \in Tasks |-> Idle]

At(t, pc) == task[t].pc = pc
Goto(t, s) == task' = [task EXCEPT ![t] = s]

-----------------------------------------------------------------------------
(* CachedEmbeddings::embed.                                                *)

Begin(t) ==
    /\ task[t] = Idle
    /\ \E op \in {"store", "search"}, x \in Texts :
          Goto(t, [pc |-> "lookup", op |-> op, text |-> x])
    /\ UNCHANGED <<model, cache, rows, fts>>

\* Mutant: the model is not part of the key.
KeyWithoutModel(x) == <<CHOOSE m \in Models : TRUE, Canon[x]>>

\* (provider, model, sha256 of the canonical text)
Key(x) == <<model, Canon[x]>>

\* Mutant: the lookup hashes the text as it came.
LookupRaw(t) ==
    /\ At(t, "lookup")
    /\ LET s == task[t] k == <<model, s.text>>
       IN  \/ /\ k \in DOMAIN cache
              /\ Goto(t, [pc |-> "use", op |-> s.op, text |-> s.text, vec |-> cache[k]])
           \/ /\ k \notin DOMAIN cache
              /\ Goto(t, [pc |-> "call", op |-> s.op, text |-> s.text])
    /\ UNCHANGED <<model, cache, rows, fts>>

Lookup(t) ==
    /\ At(t, "lookup")
    /\ LET s == task[t] k == Key(s.text)
       IN  \/ /\ k \in DOMAIN cache
              /\ Goto(t, [pc |-> "use", op |-> s.op, text |-> s.text, vec |-> cache[k]])
           \/ /\ k \notin DOMAIN cache
              /\ Goto(t, [pc |-> "call", op |-> s.op, text |-> s.text])
    /\ UNCHANGED <<model, cache, rows, fts>>

\* The provider is given the canonical text.
CallProvider(t) ==
    /\ At(t, "call")
    /\ LET s == task[t]
       IN  Goto(t, [pc |-> "insert", op |-> s.op, text |-> s.text,
                    vec |-> <<model, Canon[s.text]>>])
    /\ UNCHANGED <<model, cache, rows, fts>>

\* INSERT OR IGNORE: of two requests that missed, the first one's stays.
InsertCache(t) ==
    /\ At(t, "insert")
    /\ LET s == task[t] k == Key(s.text)
       IN  /\ cache' = [x \in DOMAIN cache \cup {k} |-> IF x \in DOMAIN cache THEN cache[x] ELSE s.vec]
           /\ Goto(t, [s EXCEPT !.pc = "use"])
    /\ UNCHANGED <<model, rows, fts>>

-----------------------------------------------------------------------------
(* The rows and their index.                                               *)

\* handle_memory_store: the row names the model of the running daemon; the
\* trigger memories_after_insert indexes the content.
UseStore(t) ==
    /\ At(t, "use") /\ task[t].op = "store"
    /\ \E i \in Id :
          /\ rows[i] = None
          /\ rows' = [rows EXCEPT ![i] = [content |-> task[t].text, vec |-> task[t].vec,
                                          model |-> model]]
          /\ fts' = fts \cup {<<i, task[t].text>>}
    /\ Goto(t, Idle)
    /\ UNCHANGED <<model, cache>>

\* Mutant: every embedded row is a candidate.
CandidatesOfAnyModel == {i \in Id : rows[i] # None /\ rows[i].vec # None}

\* candidates_for_search: embedding_provider = ? AND embedding_model = ?
Candidates == {i \in Id : rows[i] # None /\ rows[i].vec # None /\ rows[i].model = model}

UseSearch(t) ==
    /\ At(t, "use") /\ task[t].op = "search"
    /\ Goto(t, [pc |-> "score", vec |-> task[t].vec,
                direct |-> {rows[i].vec : i \in Candidates}, linked |-> {}])
    /\ UNCHANGED <<model, cache, rows, fts>>

\* A hop of expand_via_graph from the direct hits: the rows that edges lead
\* to (any rows, see Traversal) are scored if they have an embedding as long
\* as the query; which model made it is not asked.
Expand(t) ==
    /\ At(t, "score") /\ task[t].direct # {}
    /\ \E hop \in SUBSET {i \in Id : /\ rows[i] # None /\ rows[i].vec # None
                                     /\ Dim[rows[i].vec[1]] = Dim[task[t].vec[1]]} :
          Goto(t, [task[t] EXCEPT !.linked = @ \cup {rows[i].vec : i \in hop}])
    /\ UNCHANGED <<model, cache, rows, fts>>

\* The scores of cosine_similarity are ranked and the request is answered.
Score(t) ==
    /\ At(t, "score")
    /\ Goto(t, Idle)
    /\ UNCHANGED <<model, cache, rows, fts>>

\* Mutant: the trigger leaves the old entry.
UpdateKeepingEntry ==
    /\ \E i \in Id, x \in Texts :
          /\ rows[i] # None
          /\ rows' = [rows EXCEPT ![i].content = x]
          /\ fts' = fts \cup {<<i, x>>}
    /\ UNCHANGED <<model, cache, task>>

\* Memory::Update with a new content: the trigger memories_after_update
\* follows, the embedding stays that of the old content.
Update ==
    /\ \E i \in Id, x \in Texts :
          /\ rows[i] # None
          /\ rows' = [rows EXCEPT ![i].content = x]
          /\ fts' = {e \in fts : e[1] # i} \cup {<<i, x>>}
    /\ UNCHANGED <<model, cache, task>>

\* Memory::Delete, with the trigger memories_after_delete.
Delete ==
    /\ \E i \in Id :
          /\ rows[i] # None
          /\ rows' = [rows EXCEPT ![i] = None]
          /\ fts' = {e \in fts : e[1] # i}
    /\ UNCHANGED <<model, cache, task>>

\* Mutant: the content goes with the embedding.
ArchiveContent ==
    /\ \E i \in Id :
          /\ rows[i] # None /\ rows[i].vec # None
          /\ rows' = [rows EXCEPT ![i].vec = None, ![i].content = None]
    /\ UNCHANGED <<model, cache, fts, task>>

\* Pass 2 of the tick: embedding = NULL; content and index stay.
Archive ==
    /\ \E i \in Id :
          /\ rows[i] # None /\ rows[i].vec # None
          /\ rows' = [rows EXCEPT ![i].vec = None]
    /\ UNCHANGED <<model, cache, fts, task>>

-----------------------------------------------------------------------------
\* The provider fails, the writer connection is not free in time, or the
\* client leaves: the request ends; an embedding not yet inserted is lost.
Drop(t) ==
    /\ task[t] # Idle
    /\ Goto(t, Idle)
    /\ UNCHANGED <<model, cache, rows, fts>>

\* The daemon is started again, possibly with another provider.
Restart ==
    /\ model' \in Models
    /\ task' = [t \in Tasks |-> Idle]
    /\ UNCHANGED <<cache, rows, fts>>

Step(t) == Lookup(t) \/ CallProvider(t) \/ InsertCache(t) \/ UseStore(t)
           \/ UseSearch(t) \/ Expand(t) \/ Score(t)

Next ==
    \/ \E t \in Tasks : Begin(t) \/ Step(t) \/ Drop(t)
    \/ Update \/ Delete \/ Archive \/ Restart

Spec == Init /\ [][Next]_vars

\* tokio runs every task, and the provider answers or fails.
FairSpec == Spec /\ \A t \in Tasks : WF_vars(Step(t) \/ Drop(t))

-----------------------------------------------------------------------------
(* Properties.                                                             *)

(* What a request stores or searches with is the vector of its own text    *)
(* under the running model, from the cache as from the provider: not of    *)
(* another spelling, of a model the daemon ran with before, or of another  *)
(* request that missed at the same time.  A row names the model its vector *)
(* is of.                                                                  *)
VectorsTrue ==
    /\ \A t \in Tasks : At(t, "use") => task[t].vec = <<model, Canon[task[t].text]>>
    /\ \A i \in Id : rows[i] # None /\ rows[i].vec # None => rows[i].vec[1] = rows[i].model

(* Over any history of restarts with other models, the direct hits of a    *)
(* search were all embedded by the model that embedded the query, so that  *)
(* it never ends in DimensionMismatch (searcher.rs 80, repos.rs            *)
(* candidates_for_search).  What graph expansion adds agrees with the      *)
(* query in dimension only: it is of the same model when no other one has  *)
(* that dimension, as in this build (384 and 16).  "Searches only compare  *)
(* embeddings from the same (provider, model) slice" (embedding-           *)
(* strategy.md 70) is more than the code does.                             *)
OneSpaceCompared ==
    \A t \in Tasks : At(t, "score") =>
        LET m == task[t].vec[1]
        IN  /\ \A v \in task[t].direct : v[1] = m
            /\ (\A n \in Models \ {m} : Dim[n] # Dim[m]) => \A v \in task[t].linked : v[1] = m

(* The full-text index holds exactly one entry for each memory, with its   *)
(* present content, after any sequence of inserts, updates and deletes.    *)
IndexExact == fts = {<<i, rows[i].content>> : i \in {j \in Id : rows[j] # None}}

Calling(k) == \E t \in Tasks : At(t, "call") /\ Key(task[t].text) = k

(* Once a text is cached, the calls of requests that missed it before come *)
(* to an end, and there is none afterwards, over restarts and for every    *)
(* spelling that has the same canonical text.  "Two agents asking for the  *)
(* same text ... pay one provider call across the whole daemon lifetime"   *)
(* (embeddings/lib.rs 61-62) is more than the code does: nothing is locked *)
(* between lookup and insert, and requests that miss together pay a call   *)
(* each.                                                                   *)
CallsCease ==
    \A k \in Models \X Canonical : (k \in DOMAIN cache) ~> [](~Calling(k))
=============================================================================
