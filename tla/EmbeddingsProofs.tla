-------------------------- MODULE EmbeddingsProofs --------------------------
(***************************************************************************)
(* Proofs about Embeddings, for every set of texts, models, memories and   *)
(* concurrent requests.  Of Canonicalise only its being a function of the  *)
(* text is used.                                                           *)
(***************************************************************************)
EXTENDS Embeddings, TLAPS

USE NoneAssumption

(* The canonical form of a text is one of the canonical texts.             *)
LEMMA CanonType == ASSUME NEW x \in Texts PROVE Canon[x] \in Canonical
  BY DEF Canon, Canonical

-----------------------------------------------------------------------------
(* The inductive invariant.                                                *)

(* A cache entry is the vector of its own key.                             *)
CacheTrue == \A k \in DOMAIN cache : cache[k] = k

(* From the provider's answer on, a request carries the vector of its text *)
(* under the running model.                                                *)
Carries == \A t \in Tasks :
    task[t].pc \in {"insert", "use"} => task[t].vec = <<model, Canon[task[t].text]>>

(* A row that has a vector names the model of it.                          *)
RowsTrue == \A i \in Id : rows[i] # None /\ rows[i].vec # None => rows[i].vec[1] = rows[i].model

(* What a search has gathered is as long as its query, the direct hits are *)
(* of its model.                                                           *)
OneSpace(s) ==
    /\ \A v \in s.direct : v[1] = s.vec[1]
    /\ \A v \in s.linked : Dim[v[1]] = Dim[s.vec[1]]

Gathered == \A t \in Tasks : task[t].pc = "score" => OneSpace(task[t])

IInv == TypeOK /\ CacheTrue /\ Carries /\ RowsTrue /\ Gathered /\ IndexExact

(* The empty tables and idle requests satisfy the invariant.               *)
LEMMA InitIInv == Init => IInv
  <1> SUFFICES ASSUME Init PROVE IInv
    OBVIOUS
  <1> USE DEF Init
  <1>1. TypeOK
    <2>1. DOMAIN cache = {} /\ cache \in [DOMAIN cache -> Vector]
      OBVIOUS
    <2> QED BY <2>1 DEF TypeOK, TaskState, Idle
  <1>2. CacheTrue
    BY DEF CacheTrue
  <1>3. Carries /\ Gathered
    BY DEF Carries, Gathered, OneSpace, At, Idle
  <1>4. RowsTrue /\ IndexExact
    BY DEF RowsTrue, IndexExact
  <1> QED BY <1>1, <1>2, <1>3, <1>4 DEF IInv

(* A step of one request keeps the invariant if only its own record        *)
(* changes and the new record is well typed and true.                      *)
LEMMA TaskStep ==
  ASSUME IInv, NEW t \in Tasks, NEW s \in TaskState, Goto(t, s),
         UNCHANGED <<model, cache, rows, fts>>,
         s.pc \in {"insert", "use"} => s.vec = <<model, Canon[s.text]>>,
         s.pc = "score" => OneSpace(s)
  PROVE  IInv'
  <1> USE DEF IInv, Goto
  <1>0. task \in [Tasks -> TaskState] /\ task' \in [Tasks -> TaskState]
    BY DEF TypeOK
  <1>1. TypeOK'
    BY <1>0 DEF TypeOK
  <1>2. CacheTrue' /\ RowsTrue' /\ IndexExact'
    BY DEF CacheTrue, RowsTrue, IndexExact
  <1>3. Carries' /\ Gathered'
    BY <1>0 DEF Carries, Gathered, OneSpace, At
  <1> QED BY <1>1, <1>2, <1>3

(* A request that ends, in whatever way, keeps the invariant.              *)
LEMMA EndStep ==
  ASSUME IInv, NEW t \in Tasks, Goto(t, Idle), UNCHANGED <<model, cache, rows, fts>>
  PROVE  IInv'
  <1>1. Idle \in TaskState /\ Idle.pc = "idle"
    BY DEF TaskState, Idle
  <1> QED BY <1>1, TaskStep

(* Each step of CachedEmbeddings::embed keeps the invariant.               *)
LEMMA EmbedStep ==
  ASSUME IInv, NEW t \in Tasks,
         Begin(t) \/ Lookup(t) \/ CallProvider(t) \/ InsertCache(t)
  PROVE  IInv'
  <1> USE DEF At
  <1>0. task[t] \in TaskState /\ model \in Models
    BY DEF IInv, TypeOK
  <1>1. CASE Begin(t)
    <2> PICK op \in {"store", "search"}, x \in Texts :
          Goto(t, [pc |-> "lookup", op |-> op, text |-> x])
      BY <1>1 DEF Begin
    <2> DEFINE s == [pc |-> "lookup", op |-> op, text |-> x]
    <2>1. s \in TaskState /\ s.pc = "lookup"
      BY DEF TaskState
    <2> QED BY <1>1, <2>1, TaskStep DEF Begin
  <1>2. CASE Lookup(t)
    <2> DEFINE s == task[t]
               k == Key(s.text)
               hit == [pc |-> "use", op |-> s.op, text |-> s.text, vec |-> cache[k]]
               miss == [pc |-> "call", op |-> s.op, text |-> s.text]
    <2>1. s.text \in Texts /\ s.op \in {"store", "search"}
      BY <1>0, <1>2 DEF Lookup, TaskState, Idle
    <2>2. CASE k \in DOMAIN cache /\ Goto(t, hit)
      <3>1. cache[k] = <<model, Canon[s.text]>> /\ cache[k] \in Vector
        BY <2>2 DEF IInv, CacheTrue, Key, TypeOK
      <3>2. hit \in TaskState /\ hit.pc = "use" /\ hit.vec = cache[k] /\ hit.text = s.text
        BY <2>1, <3>1 DEF TaskState
      <3> HIDE DEF hit
      <3> QED BY <1>2, <2>2, <3>1, <3>2, TaskStep DEF Lookup
    <2>3. CASE Goto(t, miss)
      <3>1. miss \in TaskState /\ miss.pc = "call"
        BY <2>1 DEF TaskState
      <3> HIDE DEF miss
      <3> QED BY <1>2, <2>3, <3>1, TaskStep DEF Lookup
    <2> QED BY <1>2, <2>2, <2>3 DEF Lookup
  <1>3. CASE CallProvider(t)
    <2> DEFINE s == task[t]
               v == <<model, Canon[s.text]>>
               new == [pc |-> "insert", op |-> s.op, text |-> s.text, vec |-> v]
    <2>1. s.text \in Texts /\ s.op \in {"store", "search"}
      BY <1>0, <1>3 DEF CallProvider, TaskState, Idle
    <2>2. v \in Vector
      BY <1>0, <2>1, CanonType DEF Vector
    <2>3. new \in TaskState /\ new.pc = "insert" /\ new.vec = v /\ new.text = s.text
      <3> HIDE DEF v
      <3> QED BY <2>1, <2>2 DEF TaskState
    <2>4. Goto(t, new)
      BY <1>3 DEF CallProvider
    <2> HIDE DEF new
    <2> QED BY <1>3, <2>3, <2>4, TaskStep DEF CallProvider
  <1>4. CASE InsertCache(t)
    <2> DEFINE s == task[t]
               k == Key(s.text)
               new == [s EXCEPT !.pc = "use"]
    <2>1. /\ s \in [pc : {"insert", "use"}, op : {"store", "search"}, text : Texts, vec : Vector]
          /\ s.pc = "insert"
      BY <1>0, <1>4 DEF InsertCache, TaskState, Idle
    <2>2. s.vec = k /\ k \in Vector
      BY <2>1 DEF IInv, Carries, Key
    <2>3. new \in TaskState /\ new.pc = "use" /\ new.vec = k /\ new.text = s.text
      BY <2>1, <2>2 DEF TaskState
    <2>4. task' = [task EXCEPT ![t] = new]
      BY <1>4 DEF InsertCache, Goto
    <2>5. cache' = [x \in DOMAIN cache \cup {k} |-> IF x \in DOMAIN cache THEN cache[x] ELSE k]
      BY <1>4, <2>2 DEF InsertCache
    <2>6. CacheTrue'
      BY <2>5 DEF IInv, CacheTrue
    <2> HIDE DEF new
    <2>7. task' \in [Tasks -> TaskState] /\ task \in [Tasks -> TaskState]
      BY <2>3, <2>4 DEF IInv, TypeOK
    <2>8. TypeOK'
      <3>1. DOMAIN cache' \subseteq Models \X Canonical /\ cache' \in [DOMAIN cache' -> Vector]
        BY <2>2, <2>5 DEF IInv, TypeOK, Vector
      <3> QED BY <1>4, <2>7, <3>1 DEF InsertCache, IInv, TypeOK
    <2>9. Carries' /\ Gathered'
      BY <1>4, <2>3, <2>4, <2>7 DEF InsertCache, IInv, Carries, Gathered, OneSpace, Key
    <2>10. RowsTrue' /\ IndexExact'
      BY <1>4 DEF InsertCache, IInv, RowsTrue, IndexExact
    <2> QED BY <2>6, <2>8, <2>9, <2>10 DEF IInv
  <1> QED BY <1>1, <1>2, <1>3, <1>4

(* A statement that writes one row together with its index entry keeps the *)
(* invariant: the requests and the cache do not enter.                     *)
LEMMA RowStep ==
  ASSUME IInv, NEW i \in Id, NEW row \in Row \cup {None},
         row # None /\ row.vec # None => row.vec[1] = row.model,
         rows' = [rows EXCEPT ![i] = row],
         fts' = {e \in fts : e[1] # i} \cup (IF row = None THEN {} ELSE {<<i, row.content>>}),
         UNCHANGED <<model, cache>>, task' \in [Tasks -> TaskState],
         \A t \in Tasks : task'[t] = task[t] \/ task'[t] = Idle
  PROVE  IInv'
  <1>0. rows \in [Id -> Row \cup {None}]
    BY DEF IInv, TypeOK
  <1>1. TypeOK'
    <2>1. rows' \in [Id -> Row \cup {None}]
      BY <1>0
    <2>2. row # None => row.content \in Texts
      BY DEF Row
    <2>3. fts' \subseteq Id \X Texts
      BY <2>2 DEF IInv, TypeOK
    <2> QED BY <2>1, <2>3 DEF IInv, TypeOK
  <1>2. CacheTrue'
    BY DEF IInv, CacheTrue
  <1>3. Carries' /\ Gathered'
    BY DEF IInv, Carries, Gathered, OneSpace, At, Idle
  <1>4. RowsTrue'
    BY <1>0 DEF IInv, RowsTrue
  <1>5. IndexExact'
    <2>1. fts = {<<j, rows[j].content>> : j \in {j \in Id : rows[j] # None}}
      BY DEF IInv, IndexExact
    <2>2. \A j \in Id : rows'[j] = IF j = i THEN row ELSE rows[j]
      BY <1>0
    <2>3. fts' = {<<j, rows'[j].content>> : j \in {j \in Id : rows'[j] # None}}
      BY <2>1, <2>2
    <2> QED BY <2>3 DEF IndexExact
  <1> QED BY <1>1, <1>2, <1>3, <1>4, <1>5 DEF IInv

(* A finished embedding is used: the row gets the vector and the name of   *)
(* the running model, which it is of; a search gathers the vectors of rows *)
(* that name the running model, which are therefore of that model.         *)
LEMMA UseStep ==
  ASSUME IInv, NEW t \in Tasks, UseStore(t) \/ UseSearch(t) \/ Expand(t) \/ Score(t)
  PROVE  IInv'
  <1> USE DEF At
  <1>0. /\ task \in [Tasks -> TaskState] /\ model \in Models
        /\ rows \in [Id -> Row \cup {None}]
    BY DEF IInv, TypeOK
  <1>1. ASSUME task[t].pc = "use"
        PROVE  /\ task[t].text \in Texts /\ task[t].vec \in Vector
               /\ task[t].vec = <<model, Canon[task[t].text]>>
    BY <1>0, <1>1 DEF IInv, Carries, TaskState, Idle
  <1>2. CASE UseStore(t)
    <2> DEFINE row == [content |-> task[t].text, vec |-> task[t].vec, model |-> model]
    <2> PICK i \in Id :
          /\ rows[i] = None
          /\ rows' = [rows EXCEPT ![i] = row]
          /\ fts' = fts \cup {<<i, task[t].text>>}
      BY <1>2 DEF UseStore
    <2>1. row \in Row /\ row # None /\ row.content = task[t].text
      BY <1>0, <1>1, <1>2 DEF Row, UseStore
    <2>2. row.vec[1] = row.model
      BY <1>1, <1>2 DEF UseStore
    <2>3. fts = {e \in fts : e[1] # i}
      BY DEF IInv, IndexExact
    <2>4. /\ task' \in [Tasks -> TaskState]
          /\ \A u \in Tasks : task'[u] = task[u] \/ task'[u] = Idle
      BY <1>0, <1>2 DEF UseStore, Goto, TaskState
    <2> HIDE DEF row
    <2>5. fts' = {e \in fts : e[1] # i} \cup (IF row = None THEN {} ELSE {<<i, row.content>>})
      BY <2>1, <2>3
    <2>6. UNCHANGED <<model, cache>>
      BY <1>2 DEF UseStore
    <2> QED BY <2>1, <2>2, <2>4, <2>5, <2>6, RowStep
  <1>3. CASE UseSearch(t)
    <2> DEFINE direct == {rows[i].vec : i \in Candidates}
               s == [pc |-> "score", vec |-> task[t].vec, direct |-> direct, linked |-> {}]
    <2>1. \A i \in Candidates : rows[i].vec \in Vector /\ rows[i].vec[1] = model
      BY <1>0 DEF Candidates, IInv, RowsTrue, Row
    <2>2. s \in TaskState
      BY <1>1, <1>3, <2>1 DEF TaskState, UseSearch
    <2>3. \A v \in direct : v[1] = task[t].vec[1]
      BY <1>1, <1>3, <2>1 DEF UseSearch
    <2>4. /\ s.pc = "score" /\ s.vec = task[t].vec /\ s.direct = direct /\ s.linked = {}
          /\ Goto(t, s)
      BY <1>3 DEF UseSearch
    <2> HIDE DEF s, direct
    <2> QED BY <1>3, <2>2, <2>3, <2>4, TaskStep DEF UseSearch, OneSpace
  <1>4. CASE Expand(t)
    <2> DEFINE r == task[t]
    <2>1. /\ r \in [pc : {"score"}, vec : Vector, direct : SUBSET Vector, linked : SUBSET Vector]
          /\ r.pc = "score" /\ OneSpace(r)
      BY <1>0, <1>4 DEF Expand, TaskState, Idle, IInv, Gathered
    <2>2. PICK hop \in SUBSET {i \in Id : /\ rows[i] # None /\ rows[i].vec # None
                                         /\ Dim[rows[i].vec[1]] = Dim[r.vec[1]]} :
            Goto(t, [r EXCEPT !.linked = @ \cup {rows[i].vec : i \in hop}])
      BY <1>4 DEF Expand
    <2> DEFINE more == {rows[i].vec : i \in hop}
               s == [r EXCEPT !.linked = @ \cup more]
    <2>3. more \subseteq Vector /\ \A v \in more : Dim[v[1]] = Dim[r.vec[1]]
      BY <1>0, <2>2 DEF Row
    <2>4. Goto(t, s)
      BY <2>2
    <2> HIDE DEF r, more
    <2>5. /\ s \in TaskState /\ s.pc = "score" /\ s.vec = r.vec /\ s.direct = r.direct
          /\ s.linked = r.linked \cup more
      BY <2>1, <2>3 DEF TaskState
    <2> HIDE DEF s
    <2>6. OneSpace(s)
      BY <2>1, <2>3, <2>5 DEF OneSpace
    <2> QED BY <1>4, <2>4, <2>5, <2>6, TaskStep DEF Expand
  <1>5. CASE Score(t)
    BY <1>5, EndStep DEF Score
  <1> QED BY <1>2, <1>3, <1>4, <1>5

(* Statements on one row, with their triggers, keep the invariant.         *)
LEMMA StatementStep ==
  ASSUME IInv, Update \/ Delete \/ Archive
  PROVE  IInv'
  <1>0. /\ task \in [Tasks -> TaskState]
        /\ rows \in [Id -> Row \cup {None}]
    BY DEF IInv, TypeOK
  <1>1. CASE Update
    <2> PICK i \in Id, x \in Texts :
          /\ rows[i] # None
          /\ rows' = [rows EXCEPT ![i].content = x]
          /\ fts' = {e \in fts : e[1] # i} \cup {<<i, x>>}
      BY <1>1 DEF Update
    <2> DEFINE row == [content |-> x, vec |-> rows[i].vec, model |-> rows[i].model]
    <2>1. /\ row \in Row /\ row # None /\ row.content = x
          /\ row.vec = rows[i].vec /\ row.model = rows[i].model
      BY <1>0 DEF Row
    <2>2. rows' = [rows EXCEPT ![i] = row]
      <3>1. rows[i] \in Row
        BY <1>0
      <3>2. [rows[i] EXCEPT !.content = x] = row
        BY <3>1 DEF Row
      <3>3. rows' = [rows EXCEPT ![i] = [rows[i] EXCEPT !.content = x]]
        BY <1>0
      <3> QED BY <3>2, <3>3
    <2>3. row.vec # None => row.vec[1] = row.model
      BY <2>1 DEF IInv, RowsTrue
    <2> HIDE DEF row
    <2>4. fts' = {e \in fts : e[1] # i} \cup (IF row = None THEN {} ELSE {<<i, row.content>>})
      BY <2>1
    <2>5. UNCHANGED <<model, cache, task>>
      BY <1>1 DEF Update
    <2> QED BY <1>0, <2>1, <2>2, <2>3, <2>4, <2>5, RowStep
  <1>2. CASE Delete
    <2> PICK i \in Id :
          /\ rows[i] # None
          /\ rows' = [rows EXCEPT ![i] = None]
          /\ fts' = {e \in fts : e[1] # i}
      BY <1>2 DEF Delete
    <2>1. fts' = {e \in fts : e[1] # i} \cup (IF None = None THEN {} ELSE {<<i, None.content>>})
      OBVIOUS
    <2>2. UNCHANGED <<model, cache, task>>
      BY <1>2 DEF Delete
    <2> QED BY <1>0, <2>1, <2>2, RowStep
  <1>3. CASE Archive
    <2> PICK i \in Id :
          /\ rows[i] # None /\ rows[i].vec # None
          /\ rows' = [rows EXCEPT ![i].vec = None]
      BY <1>3 DEF Archive
    <2> DEFINE row == [content |-> rows[i].content, vec |-> None, model |-> rows[i].model]
    <2>1. row \in Row /\ row # None /\ row.vec = None /\ row.content = rows[i].content
      BY <1>0 DEF Row
    <2>2. rows' = [rows EXCEPT ![i] = row]
      <3>1. rows[i] \in Row
        BY <1>0
      <3>2. [rows[i] EXCEPT !.vec = None] = row
        BY <3>1 DEF Row
      <3>3. rows' = [rows EXCEPT ![i] = [rows[i] EXCEPT !.vec = None]]
        BY <1>0
      <3> QED BY <3>2, <3>3
    <2> HIDE DEF row
    <2>3. fts = {e \in fts : e[1] # i} \cup {<<i, rows[i].content>>}
      BY DEF IInv, IndexExact
    <2>4. fts' = {e \in fts : e[1] # i} \cup (IF row = None THEN {} ELSE {<<i, row.content>>})
      BY <1>3, <2>1, <2>3 DEF Archive
    <2>5. UNCHANGED <<model, cache, task>>
      BY <1>3 DEF Archive
    <2> QED BY <1>0, <2>1, <2>2, <2>4, <2>5, RowStep
  <1> QED BY <1>1, <1>2, <1>3

(* A restart with any model keeps the invariant: what outlives the daemon  *)
(* does not speak of the running model.                                    *)
LEMMA RestartStep == ASSUME IInv, Restart PROVE IInv'
  <1> USE DEF Restart
  <1>1. TypeOK'
    BY DEF IInv, TypeOK, TaskState
  <1>2. CacheTrue' /\ RowsTrue' /\ IndexExact'
    BY DEF IInv, CacheTrue, RowsTrue, IndexExact
  <1>3. Carries' /\ Gathered'
    BY DEF Carries, Gathered, OneSpace, At, Idle
  <1> QED BY <1>1, <1>2, <1>3 DEF IInv

(* Every step of the daemon keeps the invariant.                           *)
LEMMA IInvStep == IInv /\ [Next]_vars => IInv'
  <1> SUFFICES ASSUME IInv, [Next]_vars PROVE IInv'
    OBVIOUS
  <1>1. ASSUME NEW t \in Tasks, Begin(t) \/ Lookup(t) \/ CallProvider(t) \/ InsertCache(t)
        PROVE  IInv'
    BY <1>1, EmbedStep
  <1>2. ASSUME NEW t \in Tasks, UseStore(t) \/ UseSearch(t) \/ Expand(t) \/ Score(t)
        PROVE  IInv'
    BY <1>2, UseStep
  <1>3. ASSUME NEW t \in Tasks, Drop(t)
        PROVE  IInv'
    BY <1>3, EndStep DEF Drop
  <1>4. CASE Update \/ Delete \/ Archive
    BY <1>4, StatementStep
  <1>5. CASE Restart
    BY <1>5, RestartStep
  <1>6. CASE UNCHANGED vars
    BY <1>6 DEF vars, IInv, TypeOK, CacheTrue, Carries, RowsTrue, Gathered, OneSpace, IndexExact, At
  <1> QED BY <1>1, <1>2, <1>3, <1>4, <1>5, <1>6 DEF Next, Step

(* The inductive invariant holds in every reachable state.                 *)
LEMMA IInvHolds == Spec => []IInv
  BY InitIInv, IInvStep, PTL DEF Spec

-----------------------------------------------------------------------------
(* Results.                                                                *)

(* Type correctness of the cache, the rows and the requests.               *)
THEOREM EmbeddingsTypeCorrect == Spec => []TypeOK
  <1>1. IInv => TypeOK
    BY DEF IInv
  <1> QED BY <1>1, IInvHolds, PTL

(* What a request stores or searches with is the vector of its own text    *)
(* under the running model (CachedEmbeddings::embed), for any number of    *)
(* requests that miss the cache together and any history of models.        *)
THEOREM VectorsHold == Spec => []VectorsTrue
  <1>1. IInv => VectorsTrue
    BY DEF IInv, Carries, RowsTrue, VectorsTrue, At
  <1> QED BY <1>1, IInvHolds, PTL

(* The direct hits of a search are of its query's model                    *)
(* (candidates_for_search), over any history of restarts, and so are the   *)
(* linked ones unless another model has the same dimension                 *)
(* (expand_via_graph).                                                     *)
THEOREM OneSpaceHolds == Spec => []OneSpaceCompared
  <1>1. ASSUME IInv PROVE OneSpaceCompared
    <2> SUFFICES ASSUME NEW t \in Tasks, task[t].pc = "score"
                 PROVE  /\ \A v \in task[t].direct : v[1] = task[t].vec[1]
                        /\ (\A n \in Models \ {task[t].vec[1]} : Dim[n] # Dim[task[t].vec[1]])
                              => \A v \in task[t].linked : v[1] = task[t].vec[1]
      BY DEF OneSpaceCompared, At
    <2>1. OneSpace(task[t])
      BY <1>1 DEF IInv, Gathered
    <2>2. \A v \in task[t].linked : v[1] \in Models
      BY <1>1 DEF IInv, TypeOK, TaskState, Idle, Vector
    <2> QED BY <2>1, <2>2 DEF OneSpace
  <1> QED BY <1>1, IInvHolds, PTL

(* The triggers keep the full-text index exact for any number of rows.     *)
THEOREM IndexHolds == Spec => []IndexExact
  <1>1. IInv => IndexExact
    BY DEF IInv
  <1> QED BY <1>1, IInvHolds, PTL
=============================================================================
